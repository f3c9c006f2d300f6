----------------------------- MODULE SyncEngine ------------------------------
(***************************************************************************)
(* The syncs of one source: who sends sync_source tasks, what run_sync     *)
(* does with the source's cursor, its status and the job row, and what is  *)
(* left of a run that fails, is killed or is delivered twice.  The changes *)
(* at the provider are numbered; handling one (fetch, upload, upsert,      *)
(* enqueue or tombstone) is a single step here, DocumentFeed has its       *)
(* detail.                                                                 *)
(***************************************************************************)
EXTENDS Naturals, FiniteSets

CONSTANTS
  Workers,        \* worker processes
  MaxChanges,     \* bound: changes at the provider
  MaxRetries,     \* retries of one Celery task (3 in the code)
  MaxQueue,       \* bound: waiting messages past which nobody sends one
  Patches,        \* bound: statuses an administrator gives the source
  MaxFaults,      \* bound: failed calls and transactions, kills, repeated deliveries
  NoCursor,       \* a source that never finished a sync
  StartsAtHead    \* list_changes(None): Drive starts at the provider's head,
                  \* Notion at its first page

SourceStatus == {"active", "auth_failed", "paused", "archived"}

ASSUME SyncAssumption ==
  /\ MaxChanges \in Nat /\ MaxRetries \in Nat /\ MaxQueue \in Nat /\ MaxFaults \in Nat
  /\ Patches \subseteq SourceStatus
  /\ StartsAtHead \in BOOLEAN
  /\ NoCursor \notin Nat

Positions == 1..MaxChanges
JobStatus == {"queued", "running", "completed", "failed", "partial"}

VARIABLES
  head,       \* changes made at the provider so far
  source,     \* the source row: status and sync_cursor
  recent,     \* last_sync_at is less than 30 seconds ago
  queue,      \* broker: number of waiting sync_source messages, by retry count
  run,        \* per worker: its sync run and that run's job row
  ended,      \* statuses of the job rows whose run is over
  reported,   \* changes named in the error_log of such a job row
  done,       \* history: changes some run handled well
  skipped,    \* history: changes made before a first sync that starts at the head
  lost,       \* history: failures of a run that stored the cursor and no job row
  faults      \* faults so far

vars == <<head, source, recent, queue, run, ended, reported, done, skipped, lost, faults>>
history == <<done, skipped, lost>>

Steps == {"idle", "load", "validate", "list", "total", "docs", "finalize", "last",
          "auth", "fail", "defer", "raise", "ack"}

At(pc, n) == [pc |-> pc, try |-> n, from |-> 0, upto |-> 0, at |-> 0,
              first |-> FALSE, errors |-> {}, log |-> {}, status |-> "queued"]
Run == [pc : Steps, try : 0..MaxRetries,
        from : 0..MaxChanges,        \* the cursor it starts from
        upto : 0..MaxChanges,        \* the cursor it will store
        at : 0..MaxChanges,          \* the last change it handled
        first : BOOLEAN,             \* it read no cursor
        errors : SUBSET Positions,   \* its error_log, in memory
        log : SUBSET Positions,      \* the job row's error_log
        status : JobStatus]          \* the job row's status

TypeOK ==
  /\ head \in 0..MaxChanges
  /\ source \in [status : SourceStatus, cursor : 0..MaxChanges \cup {NoCursor}]
  /\ recent \in BOOLEAN
  /\ queue \in [0..MaxRetries -> Nat]
  /\ run \in [Workers -> Run]
  /\ ended \in SUBSET JobStatus
  /\ reported \in SUBSET Positions
  /\ done \in SUBSET Positions /\ skipped \in SUBSET Positions /\ lost \in SUBSET Positions
  /\ faults \in 0..MaxFaults

Init ==
  /\ head = 0
  /\ source = [status |-> "active", cursor |-> NoCursor]
  /\ recent = FALSE
  /\ queue = [n \in 0..MaxRetries |-> 0]
  /\ run = [w \in Workers |-> At("idle", 0)]
  /\ ended = {} /\ reported = {}
  /\ done = {} /\ skipped = {} /\ lost = {}
  /\ faults = 0

Fault == faults < MaxFaults /\ faults' = faults + 1
Send(n) == queue' = [queue EXCEPT ![n] = @ + 1]

-----------------------------------------------------------------------------
\* Outside: the provider, administrators, the webhook, Beat, the clock.

Change ==
  /\ head < MaxChanges
  /\ head' = head + 1
  /\ UNCHANGED <<source, recent, queue, run, ended, reported, history, faults>>

\* A new message, as long as the bound leaves room for it.
Enqueue ==
  /\ queue[0] < MaxQueue
  /\ Send(0)
  /\ UNCHANGED <<head, source, run, ended, reported, history, faults>>

\* PATCH and DELETE of a source.
UpdateSource(s) ==
  /\ source.status # s
  /\ source' = [source EXCEPT !.status = s]
  /\ UNCHANGED <<head, recent, queue, run, ended, reported, history, faults>>

\* POST /sources/{id}/sync, unless one finished in the last 30 seconds.
TriggerSync ==
  /\ source.status \in {"active", "auth_failed"}
  /\ ~recent
  /\ Enqueue
  /\ UNCHANGED recent

\* Beat's sync_all_sources.
SyncAllSources == source.status = "active" /\ Enqueue /\ UNCHANGED recent

\* A push notification, whatever the source's status.
Webhook == Enqueue /\ UNCHANGED recent

\* POST /sync-jobs/{id}/retry.
RetryJob ==
  /\ ended \cap {"failed", "partial"} # {}
  /\ source.status # "archived"
  /\ Enqueue
  /\ UNCHANGED recent

\* Thirty seconds pass.
Elapse ==
  /\ recent
  /\ recent' = FALSE
  /\ UNCHANGED <<head, source, queue, run, ended, reported, history, faults>>

Outside ==
  \/ Change \/ TriggerSync \/ SyncAllSources \/ Webhook \/ RetryJob \/ Elapse
  \/ \E s \in Patches : UpdateSource(s)

-----------------------------------------------------------------------------
\* The task and run_sync, a transaction or a provider call at a time.

Becomes(w, r) == run' = [run EXCEPT ![w] = r]
Goto(w, pc) == Becomes(w, [run[w] EXCEPT !.pc = pc])

\* The failures of a run that has stored the cursor and not yet its job row.
Unwritten(r) == IF r.pc = "finalize" THEN r.errors ELSE {}

\* What a step does to the run alone.
Silent == UNCHANGED <<head, source, recent, queue, ended, reported, history, faults>>

\* A worker takes a message and inserts a job row, QUEUED.
Start(w, n) ==
  /\ run[w].pc = "idle"
  /\ queue[n] > 0
  /\ queue' = [queue EXCEPT ![n] = @ - 1]
  /\ Becomes(w, At("load", n))
  /\ UNCHANGED <<head, source, recent, ended, reported, history, faults>>

\* Mutant: a run gives way to a job that looks unfinished.
LoadUnlessQueued(w) ==
  /\ run[w].pc = "load"
  /\ Becomes(w, [run[w] EXCEPT !.pc = IF "queued" \in ended THEN "fail" ELSE "validate",
                               !.first = (source.cursor = NoCursor),
                               !.from = IF source.cursor = NoCursor THEN 0 ELSE source.cursor])
  /\ Silent

\* The source's cursor is read once; its status is not looked at.
Load(w) ==
  /\ run[w].pc = "load"
  /\ Becomes(w, [run[w] EXCEPT !.pc = "validate",
                               !.first = (source.cursor = NoCursor),
                               !.from = IF source.cursor = NoCursor THEN 0 ELSE source.cursor])
  /\ Silent

Validate(w) == run[w].pc = "validate" /\ Goto(w, "list") /\ Silent

\* list_changes: every change after the cursor, and the cursor past the last.
ListChanges(w) ==
  /\ run[w].pc = "list"
  /\ LET start == IF run[w].first /\ StartsAtHead THEN head ELSE run[w].from
     IN /\ Becomes(w, [run[w] EXCEPT !.pc = "total", !.from = start, !.at = start,
                                     !.upto = head])
        /\ skipped' = IF run[w].first THEN skipped \cup 1..start ELSE skipped
  /\ UNCHANGED <<head, source, recent, queue, ended, reported, done, lost, faults>>

SetJobTotal(w) == run[w].pc = "total" /\ Goto(w, "docs") /\ Silent

\* Mutant: off by one at the end of the list.
HandleOneMore(w) ==
  /\ run[w].pc = "docs"
  /\ run[w].at <= run[w].upto
  /\ Becomes(w, [run[w] EXCEPT !.at = @ + 1])
  /\ done' = done \cup {run[w].at + 1}
  /\ UNCHANGED <<head, source, recent, queue, ended, reported, skipped, lost, faults>>

\* One change, handled well or counted as failed.
Handle(w) ==
  /\ run[w].pc = "docs"
  /\ run[w].at < run[w].upto
  /\ LET p == run[w].at + 1
     IN \/ /\ Becomes(w, [run[w] EXCEPT !.at = p])
           /\ done' = done \cup {p}
        \/ /\ Becomes(w, [run[w] EXCEPT !.at = p, !.errors = @ \cup {p}])
           /\ UNCHANGED done
  /\ UNCHANGED <<head, source, recent, queue, ended, reported, skipped, lost, faults>>

\* Mutant: the cursor is asked for again when the loop is over.
SetLatestCursor(w) ==
  /\ run[w].pc = "docs"
  /\ run[w].at = run[w].upto
  /\ source' = [source EXCEPT !.cursor = head]
  /\ Goto(w, "finalize")
  /\ UNCHANGED <<head, recent, queue, ended, reported, history, faults>>

\* The loop is over: the cursor is stored, whatever failed.
SetSourceCursor(w) ==
  /\ run[w].pc = "docs"
  /\ run[w].at = run[w].upto
  /\ source' = [source EXCEPT !.cursor = run[w].upto]
  /\ Goto(w, "finalize")
  /\ UNCHANGED <<head, recent, queue, ended, reported, history, faults>>

\* COMPLETED without failures, PARTIAL with some, FAILED when all failed.
Outcome(r) ==
  IF r.errors = {} THEN "completed"
  ELSE IF Cardinality(r.errors) < r.upto - r.from THEN "partial" ELSE "failed"

FinalizeJob(w) ==
  /\ run[w].pc = "finalize"
  /\ Becomes(w, [run[w] EXCEPT !.pc = "last", !.status = Outcome(run[w]),
                               !.log = run[w].errors])
  /\ Silent

MarkSourceLastSync(w) ==
  /\ run[w].pc = "last"
  /\ recent' = TRUE
  /\ Goto(w, "ack")
  /\ UNCHANGED <<head, source, queue, ended, reported, history, faults>>

\* The provider refuses the credentials, limits the rate or fails otherwise.
ConnectorFails(w) ==
  /\ Fault
  /\ \/ run[w].pc \in {"load", "validate", "list"} /\ Goto(w, "fail")
     \/ run[w].pc \in {"validate", "list"} /\ Goto(w, "auth")
     \/ run[w].pc = "list" /\ Goto(w, "defer")
  /\ UNCHANGED <<head, source, recent, queue, ended, reported, history>>

MarkSourceAuthFailed(w) ==
  /\ run[w].pc = "auth"
  /\ source' = [source EXCEPT !.status = "auth_failed"]
  /\ Goto(w, "fail")
  /\ UNCHANGED <<head, recent, queue, ended, reported, history, faults>>

FailJob(w) ==
  /\ run[w].pc = "fail"
  /\ Becomes(w, [run[w] EXCEPT !.pc = "ack", !.status = "failed"])
  /\ Silent

\* A rate limit: the job row is written QUEUED and the task returns.
DeferJob(w) ==
  /\ run[w].pc = "defer"
  /\ Becomes(w, [run[w] EXCEPT !.pc = "ack", !.status = "queued"])
  /\ Silent

DatabaseSteps == {"load", "total", "docs", "finalize", "last", "auth", "fail", "defer"}

\* A transaction fails, one that marks a tombstone among them: run_sync raises.
DatabaseFails(w) ==
  /\ Fault
  /\ run[w].pc \in DatabaseSteps
  /\ Goto(w, "raise")
  /\ lost' = lost \cup Unwritten(run[w])
  /\ UNCHANGED <<head, source, recent, queue, ended, reported, done, skipped>>

\* The job row cannot be inserted: outside the task's try, the message is gone.
CreateJobFails(w, n) ==
  /\ run[w].pc = "idle"
  /\ queue[n] > 0
  /\ Fault
  /\ queue' = [queue EXCEPT ![n] = @ - 1]
  /\ UNCHANGED <<head, source, recent, run, ended, reported, history>>

\* The task's handler: a retry is a new message, and will insert a job row of its
\* own.
Retry(w) ==
  /\ run[w].pc = "raise"
  /\ run[w].try < MaxRetries
  /\ Send(run[w].try + 1)
  /\ Goto(w, "ack")
  /\ UNCHANGED <<head, source, recent, ended, reported, history, faults>>

\* No retry is left, or the error's text holds "auth".  With retries used up
\* Celery raises the error itself, so _finalize_crashed_job is not reached.
GiveUp(w) == run[w].pc = "raise" /\ Goto(w, "ack") /\ Silent

\* The run is over and its job row stays as it is.
Leave(w) ==
  /\ Becomes(w, At("idle", 0))
  /\ ended' = ended \cup {run[w].status}
  /\ reported' = reported \cup run[w].log

Ack(w) ==
  /\ run[w].pc = "ack"
  /\ Leave(w)
  /\ UNCHANGED <<head, source, recent, queue, history, faults>>

\* Late acknowledgement: the message of a killed worker goes back.
Crash(w) ==
  /\ run[w].pc # "idle"
  /\ Fault
  /\ Leave(w)
  /\ Send(run[w].try)
  /\ lost' = lost \cup Unwritten(run[w])
  /\ UNCHANGED <<head, source, recent, done, skipped>>

\* The broker sends a message again that its worker is still busy with.
Redeliver(w) ==
  /\ run[w].pc # "idle"
  /\ Fault
  /\ Send(run[w].try)
  /\ UNCHANGED <<head, source, recent, run, ended, reported, history>>

Step(w) ==
  \/ Load(w) \/ Validate(w) \/ ListChanges(w) \/ SetJobTotal(w) \/ Handle(w)
  \/ SetSourceCursor(w) \/ FinalizeJob(w) \/ MarkSourceLastSync(w)
  \/ MarkSourceAuthFailed(w) \/ FailJob(w) \/ DeferJob(w) \/ Retry(w) \/ GiveUp(w) \/ Ack(w)

Receiving(w) == \E n \in 0..MaxRetries : Start(w, n)

Next ==
  \/ Outside
  \/ \E w \in Workers :
       \/ Receiving(w) \/ Step(w)
       \/ ConnectorFails(w) \/ DatabaseFails(w) \/ Crash(w) \/ Redeliver(w)
       \/ \E n \in 0..MaxRetries : CreateJobFails(w, n)

Spec == Init /\ [][Next]_vars

\* Workers run and Beat beats; people, the provider and faults promise nothing.
Fairness ==
  /\ WF_vars(SyncAllSources)
  /\ \A w \in Workers : WF_vars(Receiving(w)) /\ WF_vars(Step(w))

FairSpec == Spec /\ Fairness

-----------------------------------------------------------------------------
(***************************************************************************)
(* Correctness                                                             *)
(***************************************************************************)

\* What became of a change, in the end: it was handled well, it is named in the
\* job row of a run that is over, or nobody will look at it again.
Settled == done \cup skipped \cup reported \cup lost

\* The failures of runs that have stored the cursor and are not over.
Unsettled == UNION {run[w].log \cup Unwritten(run[w]) : w \in Workers}

\* No change is passed over: each one up to the stored cursor, which no later run
\* lists again, was handled well, was reported, was made before a first sync that
\* starts at the head, or went with a worker that died between storing the cursor
\* and finishing the job row.  Overlapping runs, which may move the cursor back,
\* redo changes and lose none (run_sync, steps 3 to 5).
NothingPassedOver ==
  source.cursor # NoCursor => 1..source.cursor \subseteq Settled \cup Unsettled

\* Every change of a source that is active from some time on is settled, whatever
\* runs were limited, killed, retried or repeated (sync_all_sources every 5
\* minutes and run_sync).
EveryChangeSettled ==
  <>[](source.status = "active") => \A p \in Positions : head >= p ~> p \in Settled

\* base.py says a cursor of None is a full first sync: then no change is left out
\* because it was made before it (GoogleDriveConnector.list_changes).
FullFirstSync == skipped = {}

\* A rate-limited job is to "retry on the next scheduler tick", a crashed one is
\* to be finalized as failed: no job row stays QUEUED when its run is over
\* (run_sync, sync_source_task).
NoJobLeftQueued == "queued" \notin ended

\* An archived source leaves that status by an administrator's hand alone
\* (_mark_source_status).
AdminUnarchives ==
  [][source.status = "archived" =>
       source'.status = "archived" \/ \E s \in Patches : UpdateSource(s)]_vars
=============================================================================
