-------------------------- MODULE SyncEngineProofs ---------------------------
(***************************************************************************)
(* No change is passed over, for any number of workers, changes, retries   *)
(* and faults.                                                             *)
(***************************************************************************)
EXTENDS SyncEngine, TLAPS

Covered == Settled \cup Unsettled

\* What a run owes: up to where it starts, then up to where it is, everything is
\* covered or among its own errors; its job row has errors only at the end.
RunOK(r, C) ==
  /\ r.pc \in {"validate", "list"} => 1..r.from \subseteq C
  /\ r.pc \in {"total", "docs"} => 1..r.at \subseteq C \cup r.errors
  /\ r.log # {} => r.pc \in {"last", "raise", "ack"}

RunsOK == \A w \in Workers : RunOK(run[w], Covered)

SyncInv == TypeOK /\ NothingPassedOver /\ RunsOK

LEMMA InitInv == Init => SyncInv
<1> SUFFICES ASSUME Init PROVE SyncInv
  OBVIOUS
<1>1. At("idle", 0) \in Run /\ At("idle", 0).log = {} /\ At("idle", 0).pc = "idle"
  BY SyncAssumption DEF At, Run, Steps, JobStatus
<1>2. recent \in BOOLEAN
  BY Zenon DEF Init
<1>3. TypeOK
  BY <1>1, <1>2, SyncAssumption DEF Init, TypeOK, SourceStatus
<1> QED
  BY <1>1, <1>3 DEF Init, SyncInv, NothingPassedOver, RunsOK, RunOK

\* Nothing that was covered is uncovered by a step that keeps what is settled.
LEMMA CoveredGrows ==
  ASSUME TypeOK, NEW w \in Workers, NEW h, Becomes(w, h), Settled \subseteq Settled',
         run[w].log \cup Unwritten(run[w]) \subseteq Settled' \cup h.log \cup Unwritten(h)
  PROVE  Covered \subseteq Covered'
<1> DEFINE open(r) == r.log \cup Unwritten(r)
<1>1. run' = [run EXCEPT ![w] = h] /\ run \in [Workers -> Run]
  BY DEF Becomes, TypeOK
<1>2. run'[w] = h /\ \A v \in Workers \ {w} : run'[v] = run[v]
  BY <1>1
<1>3. ASSUME NEW p \in Covered PROVE p \in Covered'
  <2>1. CASE p \in Settled
    BY <2>1 DEF Covered
  <2>2. CASE p \in Unsettled
    <3>1. PICK v \in Workers : p \in open(run[v])
      BY <2>2 DEF Unsettled
    <3>2. CASE v = w
      <4>1. p \in Settled' \/ p \in open(run'[w])
        BY <3>1, <3>2, <1>2
      <4> QED
        BY <4>1 DEF Covered, Unsettled, Unwritten
    <3>3. CASE v # w
      <4>1. p \in open(run'[v])
        BY <3>1, <3>3, <1>2
      <4> QED
        BY <4>1 DEF Covered, Unsettled, Unwritten
    <3> QED
      BY <3>2, <3>3
  <2> QED
    BY <1>3, <2>1, <2>2 DEF Covered
<1> QED
  BY <1>3

\* What one worker's step has to show.
LEMMA WorkerStep ==
  ASSUME SyncInv, NEW w \in Workers, NEW h \in Run, Becomes(w, h), Settled \subseteq Settled',
         run[w].log \cup Unwritten(run[w]) \subseteq Settled' \cup h.log \cup Unwritten(h),
         Covered \subseteq Covered' => RunOK(h, Covered'),
         \/ source'.cursor = source.cursor
         \/ Covered \subseteq Covered' => 1..source'.cursor \subseteq Covered'
  PROVE  NothingPassedOver' /\ RunsOK' /\ run' \in [Workers -> Run]
<1>1. Covered \subseteq Covered'
  BY CoveredGrows DEF SyncInv
<1>2. run' = [run EXCEPT ![w] = h] /\ run \in [Workers -> Run]
  BY DEF Becomes, SyncInv, TypeOK
<1>3. ASSUME NEW v \in Workers PROVE RunOK(run'[v], Covered')
  <2>1. CASE v = w
    BY <2>1, <1>1, <1>2
  <2>2. CASE v # w
    <3>1. run'[v] = run[v] /\ RunOK(run[v], Covered)
      BY <2>2, <1>2 DEF SyncInv, RunsOK
    <3> HIDE DEF Covered
    <3> QED
      BY <3>1, <1>1 DEF RunOK
  <2> QED
    BY <2>1, <2>2
<1>4. NothingPassedOver'
  <2>1. source.cursor # NoCursor => 1..source.cursor \subseteq Covered
    BY DEF SyncInv, NothingPassedOver, Covered
  <2>2. source'.cursor # NoCursor => 1..source'.cursor \subseteq Covered'
    BY <2>1, <1>1
  <2> QED
    BY <2>2 DEF NothingPassedOver, Covered
<1> QED
  BY <1>2, <1>3, <1>4 DEF RunsOK

LEMMA SendTypes ==
  ASSUME TypeOK, NEW n \in 0..MaxRetries, Send(n)
  PROVE  queue' \in [0..MaxRetries -> Nat]
BY DEF TypeOK, Send

\* A new pc, with nothing owed or forgotten that was not before.
LEMMA GotoOK ==
  ASSUME SyncInv, NEW w \in Workers, NEW pc \in Steps, NEW C,
         pc \notin {"validate", "list", "total", "docs"},
         run[w].log # {} => pc \in {"last", "raise", "ack"}
  PROVE  /\ [run[w] EXCEPT !.pc = pc] \in Run
         /\ RunOK([run[w] EXCEPT !.pc = pc], C)
         /\ [run[w] EXCEPT !.pc = pc].log = run[w].log
<1>1. run[w] \in Run
  BY DEF SyncInv, TypeOK
<1> QED
  BY <1>1 DEF Run, RunOK

\* A run at its beginning and a worker at rest owe nothing.
LEMMA AtOK ==
  ASSUME NEW pc \in {"idle", "load"}, NEW n \in 0..MaxRetries, NEW C
  PROVE  At(pc, n) \in Run /\ RunOK(At(pc, n), C)
BY SyncAssumption DEF At, Run, RunOK, Steps, JobStatus

\* The steps that only move a run on: the worker keeps its job row, and nothing
\* else changes but what TypeOK speaks of.
LEMMA MoveOn ==
  ASSUME SyncInv, NEW w \in Workers, NEW pc \in Steps, Goto(w, pc),
         pc \notin {"validate", "list", "total", "docs"},
         run[w].log # {} => pc \in {"last", "raise", "ack"},
         Settled \subseteq Settled', Unwritten(run[w]) \subseteq Settled',
         source'.cursor = source.cursor
  PROVE  NothingPassedOver' /\ RunsOK' /\ run' \in [Workers -> Run]
<1> DEFINE h == [run[w] EXCEPT !.pc = pc]
<1>1. h \in Run /\ h.log = run[w].log /\ \A C : RunOK(h, C)
  BY GotoOK
<1>2. Becomes(w, h)
  BY DEF Goto
<1>3. run[w].log \cup Unwritten(run[w]) \subseteq Settled' \cup h.log \cup Unwritten(h)
  BY <1>1
<1> HIDE DEF h
<1> QED
  BY <1>1, <1>2, <1>3, WorkerStep

LEMMA Outcomes == ASSUME NEW r PROVE Outcome(r) \in JobStatus
BY DEF Outcome, JobStatus

\* Every step of a worker keeps the invariant.
LEMMA WorkerKeeps ==
  ASSUME SyncInv, NEW w \in Workers, Receiving(w) \/ Step(w)
  PROVE  SyncInv'
<1> DEFINE r == run[w]
<1>0. /\ r \in Run /\ RunOK(r, Covered) /\ TypeOK /\ NothingPassedOver
      /\ r.pc \in Steps /\ r.try \in 0..MaxRetries /\ r.errors \in SUBSET Positions
      /\ r.from \in 0..MaxChanges /\ r.at \in 0..MaxChanges /\ r.upto \in 0..MaxChanges
      /\ r.log \in SUBSET Positions /\ r.status \in JobStatus
  BY DEF SyncInv, RunsOK, TypeOK, Run
<1> USE SyncAssumption
<1>1. ASSUME NEW n \in 0..MaxRetries, Start(w, n) PROVE SyncInv'
  <2>1. Settled \subseteq Settled' /\ source' = source /\ Becomes(w, At("load", n))
    BY <1>1 DEF Start, Settled, history
  <2>2. r.log = {} /\ Unwritten(r) = {}
    BY <1>0, <1>1 DEF Start, RunOK, Unwritten
  <2>3. NothingPassedOver' /\ RunsOK' /\ run' \in [Workers -> Run]
    BY <2>1, <2>2, AtOK, WorkerStep
  <2>4. queue' \in [0..MaxRetries -> Nat]
    BY <1>0, <1>1 DEF Start, TypeOK
  <2> QED
    BY <1>0, <1>1, <2>3, <2>4 DEF Start, TypeOK, SyncInv, history
<1>2. ASSUME Load(w) PROVE SyncInv'
  <2> DEFINE c == IF source.cursor = NoCursor THEN 0 ELSE source.cursor
             h == [r EXCEPT !.pc = "validate", !.first = (source.cursor = NoCursor), !.from = c]
  <2>1. c \in 0..MaxChanges /\ 1..c \subseteq Covered
    BY <1>0 DEF TypeOK, NothingPassedOver, Covered
  <2>2. h \in Run /\ h.pc = "validate" /\ h.from = c /\ h.log = r.log
    BY <1>0, <2>1 DEF Run, Steps
  <2>3. Settled \subseteq Settled' /\ source' = source /\ Becomes(w, h)
    BY <1>2 DEF Load, Silent, Settled, history
  <2>4. r.log = {} /\ Unwritten(r) = {}
    BY <1>0, <1>2 DEF Load, RunOK, Unwritten
  <2> HIDE DEF h, c
  <2>5. Covered \subseteq Covered' => RunOK(h, Covered')
    BY <2>1, <2>2, <2>4 DEF RunOK
  <2>6. NothingPassedOver' /\ RunsOK' /\ run' \in [Workers -> Run]
    BY <2>2, <2>3, <2>4, <2>5, WorkerStep
  <2> QED
    BY <1>0, <1>2, <2>6 DEF Load, Silent, TypeOK, SyncInv, history
<1>3. ASSUME Validate(w) PROVE SyncInv'
  <2> DEFINE h == [r EXCEPT !.pc = "list"]
  <2>2. h \in Run /\ h.pc = "list" /\ h.from = r.from /\ h.log = r.log
    BY <1>0 DEF Run, Steps
  <2>3. Settled \subseteq Settled' /\ source' = source /\ Becomes(w, h)
    BY <1>3 DEF Validate, Goto, Silent, Settled, history
  <2>4. r.log = {} /\ Unwritten(r) = {} /\ 1..r.from \subseteq Covered
    BY <1>0, <1>3 DEF Validate, RunOK, Unwritten
  <2> HIDE DEF h
  <2>5. Covered \subseteq Covered' => RunOK(h, Covered')
    BY <2>2, <2>4 DEF RunOK
  <2>6. NothingPassedOver' /\ RunsOK' /\ run' \in [Workers -> Run]
    BY <2>2, <2>3, <2>4, <2>5, WorkerStep
  <2> QED
    BY <1>0, <1>3, <2>6 DEF Validate, Silent, TypeOK, SyncInv, history
<1>4. ASSUME ListChanges(w) PROVE SyncInv'
  <2> DEFINE start == IF r.first /\ StartsAtHead THEN head ELSE r.from
             h == [r EXCEPT !.pc = "total", !.from = start, !.at = start, !.upto = head]
  <2>1. start \in 0..MaxChanges /\ head \in 0..MaxChanges
    BY <1>0 DEF TypeOK
  <2>2. h \in Run /\ h.pc = "total" /\ h.at = start /\ h.log = r.log
    BY <1>0, <2>1 DEF Run, Steps
  <2>3. Settled \subseteq Settled' /\ source' = source /\ Becomes(w, h)
    BY <1>4 DEF ListChanges, Settled
  <2>4. r.log = {} /\ Unwritten(r) = {} /\ 1..r.from \subseteq Covered
    BY <1>0, <1>4 DEF ListChanges, RunOK, Unwritten
  <2>5. 1..start \subseteq Covered \cup Settled'
    BY <1>4, <2>4 DEF ListChanges, Settled
  <2>6. Covered \subseteq Covered' => 1..start \subseteq Covered'
    BY <2>5 DEF Covered
  <2> HIDE DEF h, start
  <2>7. Covered \subseteq Covered' => RunOK(h, Covered')
    BY <2>2, <2>4, <2>6 DEF RunOK
  <2>8. NothingPassedOver' /\ RunsOK' /\ run' \in [Workers -> Run]
    BY <2>2, <2>3, <2>4, <2>7, WorkerStep
  <2>9. skipped' \in SUBSET Positions
    BY <1>0, <1>4, <2>1 DEF ListChanges, TypeOK, Positions, start
  <2> QED
    BY <1>0, <1>4, <2>8, <2>9 DEF ListChanges, TypeOK, SyncInv
<1>5. ASSUME SetJobTotal(w) PROVE SyncInv'
  <2> DEFINE h == [r EXCEPT !.pc = "docs"]
  <2>2. h \in Run /\ h.pc = "docs" /\ h.at = r.at /\ h.errors = r.errors /\ h.log = r.log
    BY <1>0 DEF Run, Steps
  <2>3. Settled \subseteq Settled' /\ source' = source /\ Becomes(w, h)
    BY <1>5 DEF SetJobTotal, Goto, Silent, Settled, history
  <2>4. r.log = {} /\ Unwritten(r) = {} /\ 1..r.at \subseteq Covered \cup r.errors
    BY <1>0, <1>5 DEF SetJobTotal, RunOK, Unwritten
  <2> HIDE DEF h
  <2>5. Covered \subseteq Covered' => RunOK(h, Covered')
    BY <2>2, <2>4 DEF RunOK
  <2>6. NothingPassedOver' /\ RunsOK' /\ run' \in [Workers -> Run]
    BY <2>2, <2>3, <2>4, <2>5, WorkerStep
  <2> QED
    BY <1>0, <1>5, <2>6 DEF SetJobTotal, Silent, TypeOK, SyncInv, history
<1>6. ASSUME Handle(w) PROVE SyncInv'
  <2> DEFINE p == r.at + 1
             good == [r EXCEPT !.at = p]
             bad == [r EXCEPT !.at = p, !.errors = @ \cup {p}]
  <2>1. p \in Positions /\ p \in 0..MaxChanges /\ 1..p \subseteq 1..r.at \cup {p}
    BY <1>0, <1>6 DEF Handle, Positions
  <2>2. /\ good \in Run /\ good.pc = r.pc /\ good.at = p /\ good.errors = r.errors /\ good.log = r.log
        /\ bad \in Run /\ bad.pc = r.pc /\ bad.at = p /\ bad.errors = r.errors \cup {p}
        /\ bad.log = r.log
    BY <1>0, <2>1 DEF Run
  <2>3. r.pc = "docs" /\ r.log = {} /\ Unwritten(r) = {} /\ 1..r.at \subseteq Covered \cup r.errors
    BY <1>0, <1>6 DEF Handle, RunOK, Unwritten
  <2>4. Settled \subseteq Settled' /\ source' = source
    BY <1>6 DEF Handle, Settled
  <2>5. \/ Becomes(w, good) /\ done' = done \cup {p}
        \/ Becomes(w, bad) /\ done' = done
    BY <1>6 DEF Handle
  <2>6. done' \subseteq Covered'
    BY DEF Covered, Settled
  <2> HIDE DEF good, bad, p
  <2>7. CASE Becomes(w, good) /\ done' = done \cup {p}
    <3>1. Covered \subseteq Covered' => RunOK(good, Covered')
      BY <2>1, <2>2, <2>3, <2>6, <2>7 DEF RunOK
    <3>2. NothingPassedOver' /\ RunsOK' /\ run' \in [Workers -> Run]
      BY <2>2, <2>3, <2>4, <2>7, <3>1, WorkerStep
    <3> QED
      BY <1>0, <1>6, <2>1, <2>7, <3>2 DEF Handle, TypeOK, SyncInv
  <2>8. CASE Becomes(w, bad) /\ done' = done
    <3>1. Covered \subseteq Covered' => RunOK(bad, Covered')
      BY <2>1, <2>2, <2>3 DEF RunOK
    <3>2. NothingPassedOver' /\ RunsOK' /\ run' \in [Workers -> Run]
      BY <2>2, <2>3, <2>4, <2>8, <3>1, WorkerStep
    <3> QED
      BY <1>0, <1>6, <2>8, <3>2 DEF Handle, TypeOK, SyncInv
  <2> QED
    BY <2>5, <2>7, <2>8
<1>7. ASSUME SetSourceCursor(w) PROVE SyncInv'
  <2> DEFINE h == [r EXCEPT !.pc = "finalize"]
  <2>1. h \in Run /\ h.pc = "finalize" /\ h.errors = r.errors /\ h.log = r.log
    BY <1>0 DEF Run, Steps
  <2>2. r.log = {} /\ Unwritten(r) = {} /\ 1..r.upto \subseteq Covered \cup r.errors
    BY <1>0, <1>7 DEF SetSourceCursor, RunOK, Unwritten
  <2>3. Settled \subseteq Settled' /\ Becomes(w, h)
    BY <1>7 DEF SetSourceCursor, Goto, Settled, history
  <2>4. source' \in [status : SourceStatus, cursor : 0..MaxChanges \cup {NoCursor}]
        /\ source'.cursor = r.upto
    BY <1>0, <1>7 DEF SetSourceCursor, TypeOK
  <2>5. run' = [run EXCEPT ![w] = h] /\ run \in [Workers -> Run]
    BY <1>0, <2>3 DEF Becomes, TypeOK
  <2> HIDE DEF h
  <2>6. Unwritten(h) = r.errors /\ run'[w] = h
    BY <2>1, <2>5 DEF Unwritten
  <2>7. r.errors \subseteq Covered'
    <3>1. r.errors \subseteq Unsettled'
      BY <2>6 DEF Unsettled, Unwritten
    <3> QED
      BY <3>1 DEF Covered
  <2>8. RunOK(h, Covered')
    BY <2>1, <2>2 DEF RunOK
  <2>9. NothingPassedOver' /\ RunsOK' /\ run' \in [Workers -> Run]
    BY <2>1, <2>2, <2>3, <2>4, <2>7, <2>8, WorkerStep
  <2> QED
    BY <1>0, <1>7, <2>4, <2>9 DEF SetSourceCursor, TypeOK, SyncInv, history
<1>8. ASSUME FinalizeJob(w) PROVE SyncInv'
  <2> DEFINE h == [r EXCEPT !.pc = "last", !.status = Outcome(r), !.log = r.errors]
  <2>1. h \in Run /\ h.pc = "last" /\ h.log = r.errors
    BY <1>0, Outcomes DEF Run, Steps
  <2>2. r.log = {} /\ Unwritten(r) = r.errors
    BY <1>0, <1>8 DEF FinalizeJob, RunOK, Unwritten
  <2>3. Settled \subseteq Settled' /\ source' = source /\ Becomes(w, h)
    BY <1>8 DEF FinalizeJob, Silent, Settled, history
  <2> HIDE DEF h
  <2>4. RunOK(h, Covered')
    BY <2>1 DEF RunOK
  <2>5. NothingPassedOver' /\ RunsOK' /\ run' \in [Workers -> Run]
    BY <2>1, <2>2, <2>3, <2>4, WorkerStep
  <2> QED
    BY <1>0, <1>8, <2>5 DEF FinalizeJob, Silent, TypeOK, SyncInv, history
<1>9. ASSUME MarkSourceLastSync(w) PROVE SyncInv'
  <2>1. Settled \subseteq Settled' /\ source' = source /\ Goto(w, "ack") /\ Unwritten(r) = {}
    BY <1>9 DEF MarkSourceLastSync, Settled, Unwritten, history
  <2>2. NothingPassedOver' /\ RunsOK' /\ run' \in [Workers -> Run]
    BY <2>1, MoveOn DEF Steps
  <2> QED
    BY <1>0, <1>9, <2>2 DEF MarkSourceLastSync, TypeOK, SyncInv, history
<1>10. ASSUME MarkSourceAuthFailed(w) PROVE SyncInv'
  <2>1. Settled \subseteq Settled' /\ Goto(w, "fail") /\ Unwritten(r) = {} /\ r.log = {}
    BY <1>0, <1>10 DEF MarkSourceAuthFailed, Settled, Unwritten, RunOK, history
  <2>2. source' \in [status : SourceStatus, cursor : 0..MaxChanges \cup {NoCursor}]
        /\ source'.cursor = source.cursor
    BY <1>0, <1>10 DEF MarkSourceAuthFailed, TypeOK, SourceStatus
  <2>3. NothingPassedOver' /\ RunsOK' /\ run' \in [Workers -> Run]
    BY <2>1, <2>2, MoveOn DEF Steps
  <2> QED
    BY <1>0, <1>10, <2>2, <2>3 DEF MarkSourceAuthFailed, TypeOK, SyncInv, history
<1>11. ASSUME FailJob(w) \/ DeferJob(w) PROVE SyncInv'
  <2>1. PICK s \in {"failed", "queued"} : Becomes(w, [r EXCEPT !.pc = "ack", !.status = s])
    BY <1>11 DEF FailJob, DeferJob
  <2> DEFINE h == [r EXCEPT !.pc = "ack", !.status = s]
  <2>2. h \in Run /\ h.pc = "ack" /\ h.log = r.log
    BY <1>0 DEF Run, Steps, JobStatus
  <2>3. Settled \subseteq Settled' /\ source' = source /\ Unwritten(r) = {}
    BY <1>11 DEF FailJob, DeferJob, Silent, Settled, Unwritten, history
  <2>4. Becomes(w, h)
    BY <2>1
  <2> HIDE DEF h
  <2>5. RunOK(h, Covered')
    BY <2>2 DEF RunOK
  <2>6. NothingPassedOver' /\ RunsOK' /\ run' \in [Workers -> Run]
    BY <2>2, <2>3, <2>4, <2>5, WorkerStep
  <2> QED
    BY <1>0, <1>11, <2>6 DEF FailJob, DeferJob, Silent, TypeOK, SyncInv, history
<1>12. ASSUME Retry(w) PROVE SyncInv'
  <2>1. Settled \subseteq Settled' /\ source' = source /\ Goto(w, "ack") /\ Unwritten(r) = {}
    BY <1>12 DEF Retry, Settled, Unwritten, history
  <2>2. NothingPassedOver' /\ RunsOK' /\ run' \in [Workers -> Run]
    BY <2>1, MoveOn DEF Steps
  <2>3. r.try + 1 \in 0..MaxRetries
    BY <1>0, <1>12 DEF Retry
  <2>4. queue' \in [0..MaxRetries -> Nat]
    BY <1>0, <1>12, <2>3, SendTypes DEF Retry
  <2> QED
    BY <1>0, <1>12, <2>2, <2>4 DEF Retry, TypeOK, SyncInv, history
<1>13. ASSUME GiveUp(w) PROVE SyncInv'
  <2>1. Settled \subseteq Settled' /\ source' = source /\ Goto(w, "ack") /\ Unwritten(r) = {}
    BY <1>13 DEF GiveUp, Silent, Settled, Unwritten, history
  <2>2. NothingPassedOver' /\ RunsOK' /\ run' \in [Workers -> Run]
    BY <2>1, MoveOn DEF Steps
  <2> QED
    BY <1>0, <1>13, <2>2 DEF GiveUp, Silent, TypeOK, SyncInv, history
<1>14. ASSUME Ack(w) PROVE SyncInv'
  <2>1. /\ Settled \subseteq Settled' /\ source' = source /\ Becomes(w, At("idle", 0))
        /\ r.log \cup Unwritten(r) \subseteq Settled'
    BY <1>14 DEF Ack, Leave, Settled, Unwritten, history
  <2>2. 0 \in 0..MaxRetries
    OBVIOUS
  <2>3. NothingPassedOver' /\ RunsOK' /\ run' \in [Workers -> Run]
    BY <2>1, <2>2, AtOK, WorkerStep
  <2> QED
    BY <1>0, <1>14, <2>3 DEF Ack, Leave, TypeOK, SyncInv, history
<1> QED
  BY <1>1, <1>2, <1>3, <1>4, <1>5, <1>6, <1>7, <1>8, <1>9, <1>10, <1>11, <1>12, <1>13, <1>14
     DEF Receiving, Step

\* A step that touches no run leaves everything covered.
LEMMA Bystander ==
  ASSUME SyncInv, UNCHANGED <<run, reported, history>>, source'.cursor = source.cursor
  PROVE  NothingPassedOver' /\ RunsOK'
<1>1. Settled' = Settled /\ Unsettled' = Unsettled
  BY DEF Settled, Unsettled, Unwritten, history
<1> QED
  BY <1>1 DEF SyncInv, NothingPassedOver, RunsOK, RunOK, Covered

\* So does every fault.
LEMMA FaultKeeps ==
  ASSUME SyncInv, NEW w \in Workers,
         \/ ConnectorFails(w) \/ DatabaseFails(w) \/ Crash(w) \/ Redeliver(w)
         \/ \E n \in 0..MaxRetries : CreateJobFails(w, n)
  PROVE  SyncInv'
<1> DEFINE r == run[w]
<1>0. /\ r \in Run /\ RunOK(r, Covered) /\ TypeOK
      /\ r.try \in 0..MaxRetries /\ r.errors \in SUBSET Positions
      /\ r.log \in SUBSET Positions /\ r.status \in JobStatus
      /\ Unwritten(r) \in SUBSET Positions
  BY DEF SyncInv, RunsOK, TypeOK, Run, Unwritten
<1>f. Fault /\ faults' \in 0..MaxFaults
  BY <1>0, SyncAssumption
     DEF ConnectorFails, DatabaseFails, Crash, Redeliver, CreateJobFails, Fault, TypeOK
<1> USE SyncAssumption
<1>1. ASSUME ConnectorFails(w) PROVE SyncInv'
  <2>1. PICK pc \in {"fail", "auth", "defer"} : Goto(w, pc)
    BY <1>1 DEF ConnectorFails
  <2>2. /\ Settled \subseteq Settled' /\ source' = source
        /\ Unwritten(r) = {} /\ r.log = {}
    BY <1>0, <1>1 DEF ConnectorFails, Settled, Unwritten, RunOK, history
  <2>3. NothingPassedOver' /\ RunsOK' /\ run' \in [Workers -> Run]
    BY <2>1, <2>2, MoveOn DEF Steps
  <2> QED
    BY <1>0, <1>f, <1>1, <2>3 DEF ConnectorFails, TypeOK, SyncInv, history
<1>2. ASSUME DatabaseFails(w) PROVE SyncInv'
  <2>1. /\ Settled \subseteq Settled' /\ source' = source /\ Goto(w, "raise")
        /\ Unwritten(r) \subseteq Settled'
    BY <1>2 DEF DatabaseFails, Settled
  <2>2. NothingPassedOver' /\ RunsOK' /\ run' \in [Workers -> Run]
    BY <2>1, MoveOn DEF Steps
  <2>3. lost' \in SUBSET Positions
    BY <1>0, <1>2 DEF DatabaseFails, TypeOK
  <2> QED
    BY <1>0, <1>f, <1>2, <2>2, <2>3 DEF DatabaseFails, TypeOK, SyncInv
<1>3. ASSUME Crash(w) PROVE SyncInv'
  <2>1. /\ Settled \subseteq Settled' /\ source' = source /\ Becomes(w, At("idle", 0))
        /\ r.log \cup Unwritten(r) \subseteq Settled'
    BY <1>3 DEF Crash, Leave, Settled
  <2>2. 0 \in 0..MaxRetries
    OBVIOUS
  <2>3. NothingPassedOver' /\ RunsOK' /\ run' \in [Workers -> Run]
    BY <2>1, <2>2, AtOK, WorkerStep
  <2>4. queue' \in [0..MaxRetries -> Nat]
    BY <1>0, <1>3, SendTypes DEF Crash
  <2> QED
    BY <1>0, <1>f, <1>3, <2>3, <2>4 DEF Crash, Leave, TypeOK, SyncInv
<1>4. ASSUME Redeliver(w) PROVE SyncInv'
  <2>1. queue' \in [0..MaxRetries -> Nat]
    BY <1>0, <1>4, SendTypes DEF Redeliver
  <2>2. NothingPassedOver' /\ RunsOK'
    BY <1>4, Bystander DEF Redeliver
  <2> QED
    BY <1>0, <1>f, <1>4, <2>1, <2>2 DEF Redeliver, TypeOK, SyncInv, history
<1>5. ASSUME NEW n \in 0..MaxRetries, CreateJobFails(w, n) PROVE SyncInv'
  <2>1. queue' \in [0..MaxRetries -> Nat]
    BY <1>0, <1>5 DEF CreateJobFails, TypeOK
  <2>2. NothingPassedOver' /\ RunsOK'
    BY <1>5, Bystander DEF CreateJobFails
  <2> QED
    BY <1>0, <1>f, <1>5, <2>1, <2>2 DEF CreateJobFails, TypeOK, SyncInv, history
<1> QED
  BY <1>1, <1>2, <1>3, <1>4, <1>5

\* And whatever happens outside.
LEMMA OutsideKeeps == ASSUME SyncInv, Outside PROVE SyncInv'
<1>1. TypeOK /\ 0 \in 0..MaxRetries
  BY SyncAssumption DEF SyncInv
<1>2. /\ UNCHANGED <<run, ended, reported, history, faults>>
      /\ source'.cursor = source.cursor
      /\ source' \in [status : SourceStatus, cursor : 0..MaxChanges \cup {NoCursor}]
  <2>1. CASE \E s \in Patches : UpdateSource(s)
    BY <1>1, <2>1, SyncAssumption DEF UpdateSource, TypeOK
  <2>2. CASE ~ \E s \in Patches : UpdateSource(s)
    BY <1>1, <2>2
       DEF Outside, Change, TriggerSync, SyncAllSources, Webhook, RetryJob, Elapse, Enqueue, TypeOK
  <2> QED
    BY <2>1, <2>2
<1>3. queue' \in [0..MaxRetries -> Nat] /\ head' \in 0..MaxChanges
  <2>1. CASE Enqueue
    BY <1>1, <2>1, SendTypes
       DEF Outside, Change, TriggerSync, SyncAllSources, Webhook, RetryJob, Elapse, Enqueue,
           UpdateSource, TypeOK
  <2>2. CASE ~ Enqueue
    BY <1>1, <2>2, SyncAssumption
       DEF Outside, Change, TriggerSync, SyncAllSources, Webhook, RetryJob, Elapse, UpdateSource,
           TypeOK
  <2> QED
    BY <2>1, <2>2
<1>4. NothingPassedOver' /\ RunsOK'
  BY <1>2, Bystander
<1>5. recent' \in BOOLEAN
  <2>1. recent' = recent \/ recent' = FALSE
    BY Zenon
       DEF Outside, Change, TriggerSync, SyncAllSources, Webhook, RetryJob, Elapse, UpdateSource
  <2> QED
    BY <1>1, <2>1, Zenon DEF TypeOK
<1> QED
  BY <1>1, <1>2, <1>3, <1>4, <1>5 DEF SyncInv, TypeOK, history

LEMMA SyncInvariant == Spec => []SyncInv
<1>1. SyncInv /\ [Next]_vars => SyncInv'
  <2> SUFFICES ASSUME SyncInv, [Next]_vars PROVE SyncInv'
    OBVIOUS
  <2>1. CASE Next
    BY <2>1, WorkerKeeps, FaultKeeps, OutsideKeeps DEF Next
  <2>2. CASE UNCHANGED vars
    BY <2>2 DEF vars, SyncInv, TypeOK, NothingPassedOver, RunsOK, Covered, Settled, Unsettled
  <2> QED
    BY <2>1, <2>2
<1> QED
  BY <1>1, InitInv, PTL DEF Spec

\* The rows, the queue and the runs have their types in every reachable state.
THEOREM SyncTypeCorrect == Spec => []TypeOK
<1>1. SyncInv => TypeOK
  BY DEF SyncInv
<1> QED
  BY <1>1, SyncInvariant, PTL

\* Whatever overlaps, fails or is killed, each change up to the stored cursor was
\* handled, reported, or is in one of the two gaps NothingPassedOver names:
\* run_sync stores the cursor after its loop, and only the cursor it listed to.
THEOREM ChangesAccountedFor == Spec => []NothingPassedOver
<1>1. SyncInv => NothingPassedOver
  BY DEF SyncInv
<1> QED
  BY <1>1, SyncInvariant, PTL
=============================================================================
