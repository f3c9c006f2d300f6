------------------------- MODULE KnowledgeBaseProofs -------------------------
(***************************************************************************)
(* Invariants of KnowledgeBase for any documents, workers, sync runs,      *)
(* versions, retries and faults.                                          *)
(***************************************************************************)
EXTENDS KnowledgeBase, TLAPS

LEMMA InitTypeOK == Init => TypeOK
BY DocumentsAssumption, IngestionAssumption
   DEF Init, TypeOK, DocumentsInit, FeedInit, IngestInit, DocumentsTypeOK, FeedTypeOK,
       IngestTypeOK, Row, Status, Absent, Versions, FeedSteps, IdleFeed,
       HandOf, Hand, Steps, IdleWorker, At

LEMMA TrackTypeOK == TypeOK /\ Track => raced' \in SUBSET Docs
BY DEF TypeOK, Track, Replaced

\* The row writes keep the rows' type.
LEMMA RowWrites ==
  ASSUME rows \in [Docs -> Row], NEW d \in Docs
  PROVE  /\ \A s \in Status : SetStatus(d, s) => rows' \in [Docs -> Row]
         /\ \A v \in Versions : UpsertDocument(d, v) => rows' \in [Docs -> Row]
<1>1. rows[d] \in Row
  OBVIOUS
<1>2. ASSUME NEW s \in Status PROVE [rows[d] EXCEPT !.status = s] \in Row
  BY <1>1, <1>2 DEF Row
<1>3. ASSUME NEW v \in Versions
      PROVE  [rows[d] EXCEPT !.status = "discovered", !.modified = v] \in Row
  BY <1>1, <1>3 DEF Row, Status
<1> QED
  BY <1>2, <1>3 DEF SetStatus, UpsertDocument

\* One message more.
LEMMA SendTypes ==
  ASSUME DocumentsTypeOK, NEW d \in Docs, NEW n \in 0..MaxRetries, Send(d, n)
  PROVE  tasks' \in [Docs -> [0..MaxRetries -> Nat]]
<1>1. tasks[d] \in [0..MaxRetries -> Nat]
  BY DEF DocumentsTypeOK
<1>2. [tasks[d] EXCEPT ![n] = @ + 1] \in [0..MaxRetries -> Nat]
  <2>1. ASSUME NEW S, NEW f \in [S -> Nat], NEW m \in S
        PROVE  [f EXCEPT ![m] = @ + 1] \in [S -> Nat]
    OBVIOUS
  <2> QED
    BY <1>1, <2>1
<1>3. tasks' = [tasks EXCEPT ![d] = [tasks[d] EXCEPT ![n] = @ + 1]]
  BY DEF Send
<1> QED
  BY <1>2, <1>3 DEF DocumentsTypeOK

\* A run that takes up or lets go of a document keeps the feed's type.
LEMMA HandTypes ==
  ASSUME feed \in [Runs -> Hand], \A r \in Runs : feed[r].step # "idle" => feed[r].doc \in Docs,
         NEW r \in Runs, NEW h \in Hand, h.step # "idle" => h.doc \in Docs,
         feed' = [feed EXCEPT ![r] = h]
  PROVE  /\ feed' \in [Runs -> Hand]
         /\ \A q \in Runs : feed'[q].step # "idle" => feed'[q].doc \in Docs
OBVIOUS

LEMMA HandsOf ==
  /\ IdleFeed \in Hand /\ IdleFeed.step = "idle"
  /\ \A d \in Docs, gone \in BOOLEAN :
       HandOf("listed", d, gone) \in Hand /\ HandOf("listed", d, gone).doc = d
BY DocumentsAssumption DEF IdleFeed, HandOf, Hand, FeedSteps, Versions

\* A sync run or a user keeps the types.
LEMMA FeedTypes ==
  ASSUME TypeOK, FeedNext, UNCHANGED ingestVars
  PROVE  DocumentsTypeOK' /\ FeedTypeOK'
<1> USE DocumentsAssumption
    DEF TypeOK, DocumentsTypeOK, FeedTypeOK, docVars, feedVars
<1>0. ASSUME NEW r \in Runs
      PROVE  /\ feed[r] \in Hand
             /\ feed[r].step # "idle" => feed[r].doc \in Docs
  OBVIOUS
<1>1. ASSUME NEW d \in Docs, ProviderEdit(d) PROVE DocumentsTypeOK' /\ FeedTypeOK'
  <2>1. provider[d].version + 1 \in Versions
    BY <1>1 DEF ProviderEdit, Versions
  <2>2. provider' = [provider EXCEPT ![d] = [version |-> provider[d].version + 1, gone |-> FALSE]]
    BY <1>1 DEF ProviderEdit
  <2>3. provider' \in [Docs -> [version : Versions, gone : BOOLEAN]]
    BY <2>1, <2>2
  <2>4. changes' \in [Runs -> SUBSET Docs]
    BY <1>1 DEF ProviderEdit, Changed
  <2> QED
    BY <1>1, <2>3, <2>4 DEF ProviderEdit
<1>2. ASSUME NEW d \in Docs, ProviderTrash(d) PROVE DocumentsTypeOK' /\ FeedTypeOK'
  <2>1. provider' \in [Docs -> [version : Versions, gone : BOOLEAN]]
    BY <1>2 DEF ProviderTrash
  <2>2. changes' \in [Runs -> SUBSET Docs]
    BY <1>2 DEF ProviderTrash, Changed
  <2> QED
    BY <1>2, <2>1, <2>2 DEF ProviderTrash
<1>3. ASSUME NEW r \in Runs, NEW d \in Docs, List(r, d) PROVE DocumentsTypeOK' /\ FeedTypeOK'
  <2>1. provider[d].gone \in BOOLEAN
    OBVIOUS
  <2>2. FeedTypeOK'
    BY <1>3, <2>1, HandTypes, HandsOf DEF List
  <2> QED
    BY <1>3, <2>2 DEF List
<1>4. ASSUME NEW r \in Runs, Tombstone(r) PROVE DocumentsTypeOK' /\ FeedTypeOK'
  <2>1. feed[r].doc \in Docs /\ "deleted" \in Status
    BY <1>4 DEF Tombstone, Status
  <2>2. rows' \in [Docs -> Row]
    BY <1>4, <2>1, RowWrites DEF Tombstone, MarkDocDeleted
  <2>3. FeedTypeOK'
    BY <1>4, HandTypes, HandsOf DEF Tombstone
  <2> QED
    BY <1>4, <2>2, <2>3 DEF Tombstone
<1>5. ASSUME NEW r \in Runs, FetchMetadata(r) PROVE DocumentsTypeOK' /\ FeedTypeOK'
  <2>1. feed[r].doc \in Docs /\ provider[feed[r].doc].version \in Versions
    BY <1>5 DEF FetchMetadata
  <2>2. [feed[r] EXCEPT !.step = "described", !.modified = provider[feed[r].doc].version] \in Hand
    BY <1>0, <2>1 DEF Hand, FeedSteps
  <2>3. FeedTypeOK'
    BY <1>5, <1>0, <2>1, <2>2, HandTypes DEF FetchMetadata, Hand
  <2> QED
    BY <1>5, <2>3 DEF FetchMetadata
<1>6. ASSUME NEW r \in Runs, FetchContent(r) PROVE DocumentsTypeOK' /\ FeedTypeOK'
  <2>1. feed[r].doc \in Docs /\ provider[feed[r].doc].version \in Versions
    BY <1>6 DEF FetchContent
  <2>2. [feed[r] EXCEPT !.step = "fetched", !.version = provider[feed[r].doc].version] \in Hand
    BY <1>0, <2>1 DEF Hand, FeedSteps
  <2>3. FeedTypeOK'
    BY <1>6, <1>0, <2>1, <2>2, HandTypes DEF FetchContent, Hand
  <2> QED
    BY <1>6, <2>3 DEF FetchContent
<1>7. ASSUME NEW r \in Runs, Upload(r) PROVE DocumentsTypeOK' /\ FeedTypeOK'
  <2>1. feed[r].doc \in Docs /\ feed[r].version \in Versions
    BY <1>7, <1>0 DEF Upload, Hand
  <2>2. [feed[r] EXCEPT !.step = "uploaded"] \in Hand
    BY <1>0 DEF Hand, FeedSteps
  <2>3. FeedTypeOK'
    BY <1>7, <1>0, <2>1, <2>2, HandTypes DEF Upload, Hand
  <2> QED
    BY <1>7, <2>1, <2>3 DEF Upload
<1>8. ASSUME NEW r \in Runs, Upsert(r) PROVE DocumentsTypeOK' /\ FeedTypeOK'
  <2>1. feed[r].doc \in Docs /\ feed[r].modified \in Versions
    BY <1>8, <1>0 DEF Upsert, Hand
  <2>2. rows' \in [Docs -> Row]
    BY <1>8, <2>1, RowWrites DEF Upsert
  <2>3. [feed[r] EXCEPT !.step = "upserted"] \in Hand
    BY <1>0 DEF Hand, FeedSteps
  <2>4. FeedTypeOK'
    BY <1>8, <1>0, <2>1, <2>3, HandTypes DEF Upsert, Hand
  <2> QED
    BY <1>8, <2>2, <2>4 DEF Upsert
<1>9. ASSUME NEW r \in Runs, Enqueue(r) PROVE DocumentsTypeOK' /\ FeedTypeOK'
  <2>1. feed[r].doc \in Docs /\ 0 \in 0..MaxRetries
    BY <1>9 DEF Enqueue
  <2>2. tasks' \in [Docs -> [0..MaxRetries -> Nat]]
    BY <1>9, <2>1, SendTypes DEF Enqueue
  <2>3. FeedTypeOK'
    BY <1>9, HandTypes, HandsOf DEF Enqueue
  <2> QED
    BY <1>9, <2>2, <2>3 DEF Enqueue
<1>10. ASSUME NEW r \in Runs, FeedFail(r) PROVE DocumentsTypeOK' /\ FeedTypeOK'
  <2>1. FeedTypeOK'
    BY <1>10, HandTypes, HandsOf DEF FeedFail
  <2> QED
    BY <1>10, <2>1 DEF FeedFail, Drop
<1>11. ASSUME NEW r \in Runs, FeedCrash(r) PROVE DocumentsTypeOK' /\ FeedTypeOK'
  <2>1. changes' \in [Runs -> SUBSET Docs]
    BY <1>11, <1>0 DEF FeedCrash, Hand
  <2>2. FeedTypeOK'
    BY <1>11, <2>1, HandTypes, HandsOf DEF FeedCrash
  <2>3. abandoned' \in SUBSET Docs
    BY <1>11 DEF FeedCrash, Drop
  <2> QED
    BY <1>11, <2>2, <2>3 DEF FeedCrash, Fault
<1> QED
  BY <1>1, <1>2, <1>3, <1>4, <1>5, <1>6, <1>7, <1>8, <1>9, <1>10, <1>11 DEF FeedNext, FeedStep

LEMMA AdminTypes ==
  ASSUME DocumentsTypeOK, AdminNext
  PROVE  DocumentsTypeOK'
<1> USE DocumentsAssumption DEF DocumentsTypeOK
<1>1. ASSUME NEW d \in Docs, UpdateDocument(d) PROVE DocumentsTypeOK'
  <2>1. PICK s \in PatchStatuses \cup {rows[d].status}, G \in SUBSET Groups :
          /\ SetStatus(d, s)
          /\ grants' = [grants EXCEPT ![d] = G]
          /\ abandoned' = IF s = rows[d].status THEN abandoned ELSE abandoned \cup {d}
    BY <1>1 DEF UpdateDocument
  <2>2. s \in Status
    BY <1>1 DEF UpdateDocument, HasRow, Row
  <2>3. rows' \in [Docs -> Row]
    BY <2>1, <2>2, RowWrites
  <2> QED
    BY <1>1, <2>1, <2>3 DEF UpdateDocument
<1>2. ASSUME NEW d \in Docs, DeleteDocument(d) PROVE DocumentsTypeOK'
  <2>1. rows' \in [Docs -> Row]
    BY <1>2, RowWrites DEF DeleteDocument, Status
  <2> QED
    BY <1>2, <2>1 DEF DeleteDocument
<1>3. ASSUME NEW d \in Docs, NEW g \in Groups, AddDocumentToGroup(d, g) PROVE DocumentsTypeOK'
  BY <1>3 DEF AddDocumentToGroup
<1>4. ASSUME NEW d \in Docs, NEW g \in Groups, RemoveDocumentFromGroup(d, g)
      PROVE  DocumentsTypeOK'
  BY <1>4 DEF RemoveDocumentFromGroup
<1> QED
  BY <1>1, <1>2, <1>3, <1>4 DEF AdminNext

-----------------------------------------------------------------------------
Task == [pc : Steps, doc : Docs \cup {NoDoc}, try : 0..MaxRetries,
         raw : Versions, done : 0..MaxChunks, groups : SUBSET Groups]

\* A busy worker's document, the versions it can hold and its number of chunks.
LEMMA TaskTypes ==
  ASSUME IngestTypeOK, NEW w \in Workers
  PROVE  /\ worker[w] \in Task
         /\ worker[w].pc # "idle" =>
              /\ Doc(w) \in Docs
              /\ Count(w) \in 0..MaxChunks
BY IngestionAssumption DEF IngestTypeOK, Task, Doc, Count

\* A jump keeps the worker's type, a busy worker stays busy.
LEMMA GotoTypes ==
  ASSUME IngestTypeOK, NEW w \in Workers, worker[w].pc # "idle",
         NEW pc \in Steps, Goto(w, pc), UNCHANGED <<chunks, points>>
  PROVE  IngestTypeOK'
BY DEF IngestTypeOK, Goto

\* So does any step of a busy worker that goes on with its document.
LEMMA BusyTypes ==
  ASSUME IngestTypeOK, NEW w \in Workers, worker[w].pc # "idle", UNCHANGED <<chunks, points>>,
         NEW t \in Task, t.doc = worker[w].doc, worker' = [worker EXCEPT ![w] = t]
  PROVE  IngestTypeOK'
BY DEF IngestTypeOK, Task

\* A worker that goes idle keeps the types too.
LEMMA IdleTypes ==
  ASSUME IngestTypeOK, NEW w \in Workers, UNCHANGED <<chunks, points>>,
         worker' = [worker EXCEPT ![w] = IdleWorker]
  PROVE  IngestTypeOK'
BY DocumentsAssumption, IngestionAssumption
   DEF IngestTypeOK, IdleWorker, At, Steps, Versions

\* A worker's step keeps the types.
LEMMA IngestTypes ==
  ASSUME DocumentsTypeOK, IngestTypeOK, IngestNext
  PROVE  DocumentsTypeOK' /\ IngestTypeOK'
<1> DEFINE Typed == DocumentsTypeOK' /\ IngestTypeOK'
<1> USE DocumentsAssumption, IngestionAssumption
<1>1. ASSUME NEW w \in Workers, NEW d \in Docs, NEW n \in 0..MaxRetries, Start(w, d, n)
      PROVE  Typed
  <2>1. DocumentsTypeOK'
    BY <1>1 DEF Start, Receive, DocumentsTypeOK
  <2>2. At("load", d, n) \in Task
    BY DEF At, Task, Steps, Versions
  <2> QED
    BY <1>1, <2>1, <2>2 DEF Start, IngestTypeOK, Task, At
<1>2. ASSUME NEW w \in Workers, NEW from \in Steps \ {"idle"}, NEW to \in Steps,
             Fails(w, from, to)
      PROVE  Typed
  BY <1>2, GotoTypes DEF Fails, docVars, DocumentsTypeOK
<1>3. ASSUME NEW w \in Workers, Load(w) PROVE Typed
  BY <1>3, GotoTypes DEF Load, Steps, docVars, DocumentsTypeOK
<1>4. ASSUME NEW w \in Workers, MarkIndexing(w) PROVE Typed
  <2>1. IngestTypeOK'
    BY <1>4, GotoTypes DEF MarkIndexing, Steps
  <2>2. rows' \in [Docs -> Row]
    BY <1>4, TaskTypes, RowWrites DEF MarkIndexing, DocumentsTypeOK, Status
  <2> QED
    BY <1>4, <2>1, <2>2 DEF MarkIndexing, DocumentsTypeOK
<1>5. ASSUME NEW w \in Workers, Download(w) PROVE Typed
  <2>1. worker[w] \in Task /\ objects[Doc(w)] \in Versions
    BY <1>5, TaskTypes DEF Download, DocumentsTypeOK
  <2>2. [worker[w] EXCEPT !.pc = "prepare", !.raw = objects[Doc(w)]] \in Task
    BY <2>1 DEF Task, Steps
  <2>3. worker' = [worker EXCEPT ![w] =
                     [worker[w] EXCEPT !.pc = "prepare", !.raw = objects[Doc(w)]]]
    BY <1>5 DEF Download
  <2> QED
    BY <1>5, <2>1, <2>2, <2>3, BusyTypes DEF Download, Task, docVars, DocumentsTypeOK
<1>6. ASSUME NEW w \in Workers, Prepare(w) PROVE Typed
  BY <1>6, GotoTypes DEF Prepare, Steps, docVars, DocumentsTypeOK
<1>7. ASSUME NEW w \in Workers, ReadGroups(w) PROVE Typed
  <2>1. worker[w] \in Task /\ grants[Doc(w)] \in SUBSET Groups
    BY <1>7, TaskTypes DEF ReadGroups, DocumentsTypeOK
  <2>2. [worker[w] EXCEPT !.pc = "upsert", !.groups = grants[Doc(w)]] \in Task
    BY <2>1 DEF Task, Steps
  <2>3. worker' = [worker EXCEPT ![w] =
                     [worker[w] EXCEPT !.pc = "upsert", !.groups = grants[Doc(w)]]]
    BY <1>7 DEF ReadGroups
  <2> QED
    BY <1>7, <2>1, <2>2, <2>3, BusyTypes DEF ReadGroups, Task, docVars, DocumentsTypeOK
<1>8. ASSUME NEW w \in Workers, UpsertBatch(w) PROVE Typed
  <2> DEFINE from == worker[w].done
             to == IF from + Batch < Count(w) THEN from + Batch ELSE Count(w)
             point == [version |-> worker[w].raw, groups |-> worker[w].groups]
  <2>1. worker[w].pc = "upsert" /\ worker[w] \in Task /\ Doc(w) \in Docs /\ to \in 0..MaxChunks
    BY <1>8, TaskTypes DEF UpsertBatch, Task
  <2>2. worker' = [worker EXCEPT ![w].done = to,
                                 ![w].pc = IF to = Count(w) THEN "persist" ELSE "upsert"]
    BY <1>8 DEF UpsertBatch
  <2>3. worker' \in [Workers -> Task] /\ \A v \in Workers : worker'[v].doc = worker[v].doc
    <3> DEFINE t == [worker[w] EXCEPT !.done = to,
                                      !.pc = IF to = Count(w) THEN "persist" ELSE "upsert"]
    <3> HIDE DEF to
    <3>1. worker' = [worker EXCEPT ![w] = t]
      BY <2>2
    <3>2. worker \in [Workers -> Task]
      BY DEF IngestTypeOK, Task
    <3>3. t \in Task /\ t.doc = worker[w].doc
      BY <2>1, <3>2 DEF Task, Steps
    <3> HIDE DEF t
    <3> QED
      BY <3>1, <3>2, <3>3
  <2>4. point \in [version : Versions, groups : SUBSET Groups]
    BY <2>1 DEF Task
  <2>5. points' = [points EXCEPT ![Doc(w)] =
                     [i \in Index |-> IF i \in from + 1 .. to THEN point ELSE @[i]]]
    BY <1>8 DEF UpsertBatch
  <2>6. points' \in [Docs -> [Index -> [version : Versions, groups : SUBSET Groups]]]
    <3> HIDE DEF from, to, point
    <3> QED BY <2>1, <2>4, <2>5 DEF IngestTypeOK
  <2> QED
    BY <1>8, <2>1, <2>2, <2>3, <2>6
       DEF UpsertBatch, docVars, DocumentsTypeOK, IngestTypeOK, Task, Doc
<1>9. ASSUME NEW w \in Workers, PersistChunks(w) PROVE Typed
  <2>1. worker[w].pc = "persist" /\ Doc(w) \in Docs /\ worker[w].raw \in Versions
    BY <1>9, TaskTypes DEF PersistChunks, Task
  <2>2. chunks' \in [Docs -> [Index -> Versions]]
    BY <1>9, <2>1 DEF PersistChunks, IngestTypeOK
  <2>3. worker' \in [Workers -> Task] /\ \A v \in Workers : worker'[v].doc = worker[v].doc
    <3> DEFINE t == [worker[w] EXCEPT !.pc = "activate"]
    <3>1. worker' = [worker EXCEPT ![w] = t]
      BY <1>9 DEF PersistChunks, Goto
    <3>2. worker \in [Workers -> Task]
      BY DEF IngestTypeOK, Task
    <3>3. t \in Task /\ t.doc = worker[w].doc
      BY <3>2 DEF Task, Steps
    <3> HIDE DEF t
    <3> QED
      BY <3>1, <3>2, <3>3
  <2> QED
    BY <1>9, <2>1, <2>2, <2>3
       DEF PersistChunks, Goto, Doc, docVars, DocumentsTypeOK, IngestTypeOK, Task
<1>10. ASSUME NEW w \in Workers, MarkDocActive(w) PROVE Typed
  <2>1. IngestTypeOK'
    BY <1>10, GotoTypes DEF MarkDocActive, Steps
  <2>2. rows[Doc(w)] \in Row
    BY <1>10, TaskTypes DEF MarkDocActive, DocumentsTypeOK
  <2>3. [rows[Doc(w)] EXCEPT !.status = "active", !.indexed = TRUE] \in Row
    BY <2>2 DEF Row, Status
  <2> QED
    BY <1>10, <2>1, <2>3 DEF MarkDocActive, DocumentsTypeOK
<1>11. ASSUME NEW w \in Workers, ErrorSkipped(w) PROVE Typed
  BY <1>11, GotoTypes, TaskTypes DEF ErrorSkipped, DatabaseSteps, Steps, DocumentsTypeOK
<1>12. ASSUME NEW w \in Workers, MarkDocFailed(w) PROVE Typed
  BY <1>12, GotoTypes DEF MarkDocFailed, Steps, docVars, DocumentsTypeOK
<1>13. ASSUME NEW w \in Workers, Retry(w) PROVE Typed
  <2>1. worker[w].try + 1 \in 0..MaxRetries /\ Doc(w) \in Docs
    BY <1>13, TaskTypes DEF Retry, Task
  <2> QED
    BY <1>13, <2>1, GotoTypes, SendTypes DEF Retry, Steps, DocumentsTypeOK
<1>14. ASSUME NEW w \in Workers, GiveUp(w) PROVE Typed
  BY <1>14, GotoTypes, TaskTypes DEF GiveUp, Steps, DocumentsTypeOK
<1>15. ASSUME NEW w \in Workers, Ack(w) PROVE Typed
  BY <1>15, IdleTypes DEF Ack, docVars, DocumentsTypeOK
<1>16. ASSUME NEW w \in Workers, Crash(w) PROVE Typed
  <2>1. worker[w].try \in 0..MaxRetries /\ Doc(w) \in Docs
    BY <1>16, TaskTypes DEF Crash, Task
  <2>2. IngestTypeOK'
    BY <1>16, IdleTypes DEF Crash
  <2>3. tasks' \in [Docs -> [0..MaxRetries -> Nat]]
    BY <1>16, <2>1, SendTypes DEF Crash
  <2> QED
    BY <1>16, <2>2, <2>3 DEF Crash, Fault, DocumentsTypeOK
<1>17. ASSUME NEW w \in Workers, Redeliver(w) PROVE Typed
  <2>1. worker[w].try \in 0..MaxRetries /\ Doc(w) \in Docs
    BY <1>17, TaskTypes DEF Redeliver, Task
  <2>2. tasks' \in [Docs -> [0..MaxRetries -> Nat]]
    BY <1>17, <2>1, SendTypes DEF Redeliver
  <2>3. IngestTypeOK'
    BY <1>17 DEF Redeliver, IngestTypeOK
  <2> QED
    BY <1>17, <2>2, <2>3 DEF Redeliver, Fault, DocumentsTypeOK
<1>18. ASSUME NEW w \in Workers, CallFails(w) \/ DatabaseFails(w) PROVE Typed
  BY <1>18, <1>2 DEF CallFails, DatabaseFails, DatabaseSteps, Steps
<1> QED
  BY <1>1, <1>3, <1>4, <1>5, <1>6, <1>7, <1>8, <1>9, <1>10, <1>11, <1>12, <1>13, <1>14,
     <1>15, <1>16, <1>17, <1>18 DEF IngestNext, Receiving, IngestStep

\* The tables, the broker, the feed, the workers and the indexes hold what their
\* columns and fields allow.
THEOREM TypeCorrect == Spec => []TypeOK
<1>1. TypeOK /\ [Next]_vars => TypeOK'
  <2> SUFFICES ASSUME TypeOK, [Next]_vars PROVE TypeOK'
    OBVIOUS
  <2>1. ASSUME FeedNext, UNCHANGED ingestVars, Track PROVE TypeOK'
    BY <2>1, FeedTypes, TrackTypeOK DEF TypeOK, ingestVars, IngestTypeOK
  <2>2. ASSUME IngestNext, UNCHANGED feedVars, Track PROVE TypeOK'
    BY <2>2, IngestTypes, TrackTypeOK DEF TypeOK, feedVars, FeedTypeOK
  <2>3. ASSUME AdminNext, UNCHANGED <<feedVars, ingestVars>>, Track PROVE TypeOK'
    BY <2>3, AdminTypes, TrackTypeOK
       DEF TypeOK, feedVars, ingestVars, FeedTypeOK, IngestTypeOK
  <2>4. ASSUME UNCHANGED vars PROVE TypeOK'
    BY <2>4 DEF vars, docVars, feedVars, ingestVars, TypeOK, DocumentsTypeOK, FeedTypeOK,
                IngestTypeOK
  <2> QED
    BY <2>1, <2>2, <2>3, <2>4 DEF Next
<1> QED
  BY <1>1, InitTypeOK, PTL DEF Spec

-----------------------------------------------------------------------------
\* ChunksHavePoints is not inductive: PersistChunks relies on what the worker
\* wrote to Qdrant some steps before, and MarkDocActive on what it wrote to
\* PostgreSQL.  WorkerProgress carries both from step to step; it survives the
\* other workers because no step takes a point or a chunk away.
IndexInv == ChunksHavePoints /\ IndexedHasChunks /\ WorkerProgress

Grows ==
  \A d \in Docs, i \in Index :
    /\ points[d][i].version # 0 => points'[d][i].version # 0
    /\ chunks[d][i] # 0 => chunks'[d][i] # 0

\* The bytes a worker cut chunks from are not the absent version.
LEMMA RawStored ==
  ASSUME IngestTypeOK, NEW w \in Workers, worker[w].pc # "idle", Count(w) # 0
  PROVE  worker[w].raw # 0
BY IngestionAssumption, TaskTypes DEF Count

\* A worker that does not move keeps its progress while the indexes grow.
LEMMA ProgressStays ==
  ASSUME IngestTypeOK, NEW w \in Workers, Progress(w), worker'[w] = worker[w], Grows
  PROVE  Progress(w)'
<1>1. worker[w].pc # "idle" => Doc(w) \in Docs /\ Count(w) \in 0..MaxChunks
  BY TaskTypes
<1>2. worker[w] \in Task
  BY TaskTypes
<1>3. Doc(w)' = Doc(w) /\ Count(w)' = Count(w)
  BY DEF Doc, Count
<1>4. ASSUME NEW n \in 0..MaxChunks, worker[w].pc # "idle"
      PROVE  /\ HasPoints(Doc(w), n) => HasPoints(Doc(w), n)'
             /\ HasChunks(Doc(w), n) => HasChunks(Doc(w), n)'
  BY <1>1, <1>3, <1>4, IngestionAssumption DEF HasPoints, HasChunks, Grows, Index
<1> QED
  BY <1>1, <1>2, <1>3, <1>4 DEF Progress, Task, HasPoints, HasChunks

\* A step that leaves the indexes and indexed_at alone only owes the progress of
\* the worker that takes it.
LEMMA QuietStep ==
  ASSUME IngestTypeOK, IndexInv, NEW w \in Workers, UNCHANGED <<chunks, points>>,
         \A v \in Workers \ {w} : worker'[v] = worker[v], Progress(w)',
         \A d \in Docs : rows'[d].indexed = rows[d].indexed
  PROVE  IndexInv'
<1>1. ChunksHavePoints' /\ IndexedHasChunks'
  BY DEF IndexInv, ChunksHavePoints, IndexedHasChunks
<1>2. Grows
  BY DEF Grows
<1>3. ASSUME NEW v \in Workers \ {w} PROVE Progress(v)'
  BY <1>2, ProgressStays DEF IndexInv, WorkerProgress
<1> QED
  BY <1>1, <1>3 DEF IndexInv, WorkerProgress

\* A jump to a step that promises nothing about the indexes.
LEMMA JumpProgress ==
  ASSUME IngestTypeOK, NEW w \in Workers, Progress(w), Goto(w, worker'[w].pc),
         \/ worker'[w].pc \in {"failed", "raise", "ack"}
         \/ /\ worker[w].pc \in {"load", "mark", "download"}
            /\ worker'[w].pc \in {"mark", "download", "prepare"}
  PROVE  /\ Progress(w)'
         /\ \A v \in Workers \ {w} : worker'[v] = worker[v]
<1>1. worker'[w].done = worker[w].done
  BY DEF Goto, IngestTypeOK
<1> QED
  BY <1>1 DEF Goto, IngestTypeOK, Progress

LEMMA StatusKeepsIndexed ==
  ASSUME rows \in [Docs -> Row], NEW d \in Docs
  PROVE  /\ \A s \in Status : SetStatus(d, s) =>
              \A e \in Docs : rows'[e].indexed = rows[e].indexed
         /\ \A v \in Versions : UpsertDocument(d, v) =>
              \A e \in Docs : rows'[e].indexed = rows[e].indexed
BY DEF SetStatus, UpsertDocument, Row

\* UpsertBatch writes points of a stored version, and no others change.
LEMMA UpsertIndex ==
  ASSUME TypeOK, IndexInv, NEW w \in Workers, UpsertBatch(w)
  PROVE  IndexInv'
<1> DEFINE from == worker[w].done
           to == IF from + Batch < Count(w) THEN from + Batch ELSE Count(w)
<1> USE DEF TypeOK, Index
<1>1. /\ worker[w].pc = "upsert" /\ worker[w] \in Task /\ Doc(w) \in Docs
      /\ Count(w) \in 0..MaxChunks /\ Count(w) # 0 /\ worker[w].raw # 0
      /\ from < Count(w) /\ HasPoints(Doc(w), from)
  BY TaskTypes, RawStored DEF UpsertBatch, IndexInv, WorkerProgress, Progress
<1>2. to \in 0..MaxChunks /\ from \in 0..MaxChunks /\ to <= Count(w)
  BY <1>1, IngestionAssumption DEF Task
<1>3. /\ worker' = [worker EXCEPT ![w].done = to,
                                  ![w].pc = IF to = Count(w) THEN "persist" ELSE "upsert"]
      /\ UNCHANGED <<chunks, docVars>>
      /\ points' = [points EXCEPT ![Doc(w)] = [i \in Index |->
           IF i \in from + 1 .. to
           THEN [version |-> worker[w].raw, groups |-> worker[w].groups] ELSE @[i]]]
  BY DEF UpsertBatch
<1> HIDE DEF from, to
<1>4. \A d \in Docs, i \in Index :
        points'[d][i] = IF d = Doc(w) /\ i \in from + 1 .. to
                        THEN [version |-> worker[w].raw, groups |-> worker[w].groups]
                        ELSE points[d][i]
  BY <1>1, <1>3 DEF IngestTypeOK
<1>5. Grows
  BY <1>1, <1>3, <1>4 DEF Grows
<1>6. ChunksHavePoints' /\ IndexedHasChunks'
  BY <1>3, <1>5 DEF IndexInv, ChunksHavePoints, IndexedHasChunks, Grows, docVars
<1>7. ASSUME NEW i \in 1..to PROVE points'[Doc(w)][i].version # 0
  <2>1. i \in Index
    BY <1>2, IngestionAssumption
  <2>2. CASE i <= from
    BY <1>1, <1>4, <1>2, <2>1, <2>2 DEF HasPoints
  <2>3. CASE i > from
    BY <1>1, <1>4, <1>2, <2>1, <2>3
  <2> QED
    BY <2>2, <2>3, <1>2
<1>8. Progress(w)'
  <2>1. /\ worker'[w].done = to /\ Doc(w)' = Doc(w) /\ Count(w)' = Count(w)
        /\ worker'[w].pc = IF to = Count(w) THEN "persist" ELSE "upsert"
    BY <1>3 DEF Doc, Count, IngestTypeOK
  <2> QED
    BY <2>1, <1>1, <1>2, <1>7 DEF Progress, HasPoints
<1>9. ASSUME NEW v \in Workers \ {w} PROVE Progress(v)'
  BY <1>3, <1>5, ProgressStays DEF IndexInv, WorkerProgress, IngestTypeOK
<1> QED
  BY <1>6, <1>8, <1>9 DEF IndexInv, WorkerProgress

\* PersistChunks writes chunks whose points WorkerProgress vouches for.
LEMMA PersistIndex ==
  ASSUME TypeOK, IndexInv, NEW w \in Workers, PersistChunks(w)
  PROVE  IndexInv'
<1> USE DEF TypeOK, Index
<1>1. /\ worker[w].pc = "persist" /\ worker[w] \in Task /\ Doc(w) \in Docs
      /\ Count(w) \in 1..MaxChunks /\ worker[w].raw # 0 /\ HasPoints(Doc(w), Count(w))
  BY TaskTypes, RawStored DEF PersistChunks, IndexInv, WorkerProgress, Progress
<1>2. /\ Goto(w, "activate") /\ UNCHANGED <<points, docVars>>
      /\ \A d \in Docs, i \in Index :
           chunks'[d][i] = IF d = Doc(w) /\ i <= Count(w) THEN worker[w].raw ELSE chunks[d][i]
  BY <1>1 DEF PersistChunks, IngestTypeOK
<1>3. Grows
  BY <1>1, <1>2 DEF Grows
<1>4. ChunksHavePoints'
  BY <1>1, <1>2 DEF IndexInv, ChunksHavePoints, HasPoints
<1>5. IndexedHasChunks'
  <2>1. ASSUME NEW d \in Docs, rows'[d].indexed PROVE chunks'[d][1] # 0
    BY <1>2, <1>3, <2>1, IngestionAssumption DEF IndexInv, IndexedHasChunks, Grows, docVars
  <2>2. ASSUME NEW d \in Docs, NEW i \in 2..MaxChunks, chunks'[d][i] # 0
        PROVE  chunks'[d][i - 1] # 0
    <3>1. i \in Index /\ i - 1 \in Index
      BY IngestionAssumption
    <3>2. CASE d = Doc(w) /\ i <= Count(w)
      BY <1>1, <1>2, <3>1, <3>2
    <3>3. CASE ~(d = Doc(w) /\ i <= Count(w))
      BY <1>2, <1>3, <2>2, <3>1, <3>3 DEF IndexInv, IndexedHasChunks, Grows
    <3> QED
      BY <3>2, <3>3
  <2> QED
    BY <2>1, <2>2 DEF IndexedHasChunks
<1>6. Progress(w)'
  <2>1. /\ Doc(w)' = Doc(w) /\ Count(w)' = Count(w) /\ worker'[w].pc = "activate"
    BY <1>2 DEF Goto, Doc, Count, IngestTypeOK
  <2>2. HasPoints(Doc(w), Count(w))'
    BY <1>1, <1>2, <2>1 DEF HasPoints
  <2>3. HasChunks(Doc(w), Count(w))'
    BY <1>1, <1>2, <2>1, IngestionAssumption DEF HasChunks
  <2> QED
    BY <1>1, <2>1, <2>2, <2>3 DEF Progress
<1>7. ASSUME NEW v \in Workers \ {w} PROVE Progress(v)'
  BY <1>2, <1>3, ProgressStays DEF IndexInv, WorkerProgress, IngestTypeOK, Goto
<1> QED
  BY <1>4, <1>5, <1>6, <1>7 DEF IndexInv, WorkerProgress

\* MarkDocActive sets indexed_at over chunks WorkerProgress vouches for.
LEMMA ActivateIndex ==
  ASSUME TypeOK, IndexInv, NEW w \in Workers, MarkDocActive(w)
  PROVE  IndexInv'
<1> USE DEF TypeOK, Index
<1>1. /\ worker[w].pc = "activate" /\ Doc(w) \in Docs /\ Count(w) \in 1..MaxChunks
      /\ HasChunks(Doc(w), Count(w))
  BY TaskTypes DEF MarkDocActive, IndexInv, WorkerProgress, Progress
<1>2. \A d \in Docs \ {Doc(w)} : rows'[d] = rows[d]
  BY <1>1 DEF MarkDocActive, DocumentsTypeOK
<1>3. ChunksHavePoints'
  BY DEF MarkDocActive, IndexInv, ChunksHavePoints
<1>4. chunks[Doc(w)][1] # 0
  BY <1>1, IngestionAssumption DEF HasChunks
<1>5. IndexedHasChunks'
  BY <1>2, <1>4 DEF MarkDocActive, IndexInv, IndexedHasChunks
<1>6. Goto(w, "ack") /\ UNCHANGED <<chunks, points>> /\ worker'[w].pc = "ack"
  BY DEF MarkDocActive, Goto, IngestTypeOK
<1>7. Progress(w)' /\ \A v \in Workers \ {w} : worker'[v] = worker[v]
  BY <1>6, JumpProgress DEF IndexInv, WorkerProgress
<1>8. ASSUME NEW v \in Workers \ {w} PROVE Progress(v)'
  BY <1>6, <1>7, ProgressStays DEF IndexInv, WorkerProgress, Grows
<1> QED
  BY <1>3, <1>5, <1>7, <1>8 DEF IndexInv, WorkerProgress

\* Every step of a worker.
LEMMA IngestIndex ==
  ASSUME TypeOK, IndexInv, IngestNext
  PROVE  IndexInv'
<1> USE DEF TypeOK
<1>0. \A w \in Workers : Progress(w)
  BY DEF IndexInv, WorkerProgress
<1>1. ASSUME NEW w \in Workers, NEW d \in Docs, NEW n \in 0..MaxRetries, Start(w, d, n)
      PROVE  IndexInv'
  <2>1. worker'[w] = At("load", d, n) /\ \A v \in Workers \ {w} : worker'[v] = worker[v]
    BY <1>1 DEF Start, IngestTypeOK
  <2>2. Progress(w)'
    BY <2>1 DEF At, Progress
  <2> QED
    BY <1>1, <2>1, <2>2, QuietStep DEF Start
\* The steps that only jump: nothing is promised at the step they jump to.
<1>2. ASSUME NEW w \in Workers, Goto(w, worker'[w].pc), UNCHANGED <<chunks, points>>,
             \/ worker'[w].pc \in {"failed", "raise", "ack"}
             \/ /\ worker[w].pc \in {"load", "mark", "download"}
                /\ worker'[w].pc \in {"mark", "download", "prepare"},
             \A d \in Docs : rows'[d].indexed = rows[d].indexed
      PROVE  IndexInv'
  BY <1>0, <1>2, JumpProgress, QuietStep
<1>3. ASSUME NEW w \in Workers, NEW to, Goto(w, to) PROVE worker'[w].pc = to
  BY <1>3 DEF Goto, IngestTypeOK
<1>4. ASSUME NEW w \in Workers, Load(w) PROVE IndexInv'
  BY <1>4, <1>2, <1>3 DEF Load, docVars
<1>5. ASSUME NEW w \in Workers, MarkIndexing(w) PROVE IndexInv'
  <2>1. \A d \in Docs : rows'[d].indexed = rows[d].indexed
    BY <1>5, TaskTypes, StatusKeepsIndexed DEF MarkIndexing, DocumentsTypeOK, Status
  <2> QED
    BY <1>5, <1>2, <1>3, <2>1 DEF MarkIndexing
<1>6. ASSUME NEW w \in Workers, Download(w) PROVE IndexInv'
  <2>1. /\ worker[w].pc = "download" /\ worker'[w].pc = "prepare"
        /\ worker'[w].done = worker[w].done
        /\ \A v \in Workers \ {w} : worker'[v] = worker[v]
    BY <1>6 DEF Download, IngestTypeOK
  <2>2. Progress(w)'
    BY <1>0, <2>1 DEF Progress
  <2> QED
    BY <1>6, <2>1, <2>2, QuietStep DEF Download, docVars
<1>7. ASSUME NEW w \in Workers, Prepare(w) PROVE IndexInv'
  <2>1. CASE Count(w) = 0
    BY <1>7, <2>1, <1>2, <1>3 DEF Prepare, docVars
  <2>2. CASE Count(w) # 0
    <3>1. /\ worker[w].pc = "prepare" /\ worker'[w].pc = "groups"
          /\ worker'[w].done = worker[w].done /\ Count(w)' = Count(w)
          /\ \A v \in Workers \ {w} : worker'[v] = worker[v]
      BY <1>7, <2>2 DEF Prepare, Goto, IngestTypeOK, Count, Doc
    <3>2. Progress(w)'
      BY <1>0, <2>2, <3>1 DEF Progress
    <3> QED
      BY <1>7, <3>1, <3>2, QuietStep DEF Prepare, docVars
  <2> QED
    BY <2>1, <2>2
<1>8. ASSUME NEW w \in Workers, ReadGroups(w) PROVE IndexInv'
  <2>1. /\ worker[w].pc = "groups" /\ worker'[w].pc = "upsert"
        /\ worker'[w].done = worker[w].done /\ Count(w)' = Count(w)
        /\ \A v \in Workers \ {w} : worker'[v] = worker[v]
    BY <1>8 DEF ReadGroups, IngestTypeOK, Count, Doc
  <2>2. worker[w].done = 0 /\ Count(w) \in 1..MaxChunks
    BY <1>0, <2>1, TaskTypes DEF Progress
  <2>3. Progress(w)'
    BY <2>1, <2>2 DEF Progress, HasPoints
  <2> QED
    BY <1>8, <2>1, <2>3, QuietStep DEF ReadGroups, docVars
<1>9. ASSUME NEW w \in Workers,
             \/ CallFails(w) \/ DatabaseFails(w) \/ ErrorSkipped(w)
             \/ MarkDocFailed(w) \/ Retry(w) \/ GiveUp(w)
      PROVE  IndexInv'
  <2>1. \E to \in {"failed", "raise", "ack"} : Goto(w, to)
    BY <1>9 DEF CallFails, DatabaseFails, Fails, ErrorSkipped, MarkDocFailed, Retry, GiveUp
  <2>2. UNCHANGED <<chunks, points, rows>>
    BY <1>9 DEF CallFails, DatabaseFails, Fails, ErrorSkipped, MarkDocFailed, Retry, GiveUp, docVars
  <2> QED
    BY <1>2, <1>3, <2>1, <2>2
<1>10. ASSUME NEW w \in Workers, Ack(w) \/ Crash(w) PROVE IndexInv'
  <2>1. /\ worker' = [worker EXCEPT ![w] = IdleWorker]
        /\ UNCHANGED <<chunks, points, rows>>
    BY <1>10 DEF Ack, Crash, docVars
  <2>2. worker'[w].pc = "idle" /\ \A v \in Workers \ {w} : worker'[v] = worker[v]
    BY <2>1 DEF IngestTypeOK, IdleWorker, At
  <2>3. Progress(w)'
    BY <2>2 DEF Progress
  <2> QED
    BY <2>1, <2>2, <2>3, QuietStep
<1>11. ASSUME NEW w \in Workers, Redeliver(w) PROVE IndexInv'
  BY <1>0, <1>11, QuietStep DEF Redeliver, Progress, Doc, Count, HasPoints, HasChunks
<1> QED
  BY <1>1, <1>4, <1>5, <1>6, <1>7, <1>8, <1>9, <1>10, <1>11, UpsertIndex, PersistIndex, ActivateIndex
     DEF IngestNext, Receiving, IngestStep

\* Sync runs, users and admins touch neither index, and never indexed_at.
LEMMA OutsideIndex ==
  ASSUME TypeOK, IndexInv, UNCHANGED ingestVars, FeedNext \/ AdminNext
  PROVE  IndexInv'
<1> USE DEF TypeOK
<1>1. ASSUME NEW r \in Runs, Tombstone(r) \/ Upsert(r)
      PROVE  \A d \in Docs : rows'[d].indexed = rows[d].indexed
  <2>1. feed[r].doc \in Docs /\ feed[r].modified \in Versions /\ "deleted" \in Status
    BY <1>1 DEF Tombstone, Upsert, FeedTypeOK, Hand, Status
  <2> QED
    BY <1>1, <2>1, StatusKeepsIndexed DEF Tombstone, Upsert, MarkDocDeleted, DocumentsTypeOK
<1>2. ASSUME NEW d \in Docs, UpdateDocument(d) \/ DeleteDocument(d)
      PROVE  \A e \in Docs : rows'[e].indexed = rows[e].indexed
  <2>1. \E s \in Status : SetStatus(d, s)
    BY <1>2, DocumentsAssumption
       DEF UpdateDocument, DeleteDocument, HasRow, DocumentsTypeOK, Row, Status
  <2> QED
    BY <2>1, StatusKeepsIndexed DEF DocumentsTypeOK
<1>3. \A d \in Docs : rows'[d].indexed = rows[d].indexed
  <2>1. CASE FeedNext
    BY <2>1, <1>1
       DEF FeedNext, FeedStep, ProviderEdit, ProviderTrash, List, FetchMetadata, FetchContent, Upload, Enqueue,
           FeedFail, FeedCrash, docVars
  <2>2. CASE AdminNext
    BY <2>2, <1>2 DEF AdminNext, AddDocumentToGroup, RemoveDocumentFromGroup
  <2> QED
    BY <2>1, <2>2
<1>4. Grows
  BY DEF Grows, ingestVars
<1>5. \A w \in Workers : Progress(w)'
  BY <1>4, ProgressStays DEF IndexInv, WorkerProgress, ingestVars
<1>6. ChunksHavePoints' /\ IndexedHasChunks'
  BY <1>3 DEF ingestVars, IndexInv, ChunksHavePoints, IndexedHasChunks
<1> QED
  BY <1>5, <1>6 DEF IndexInv, WorkerProgress

LEMMA InitIndex == Init => IndexInv
BY IngestionAssumption
   DEF Init, DocumentsInit, IngestInit, IndexInv, ChunksHavePoints, IndexedHasChunks,
       WorkerProgress, Progress, IdleWorker, At, Index

LEMMA IndexInvariant == Spec => []IndexInv
<1>1. TypeOK /\ IndexInv /\ [Next]_vars => IndexInv'
  <2> SUFFICES ASSUME TypeOK, IndexInv, [Next]_vars PROVE IndexInv'
    OBVIOUS
  <2>1. CASE Next
    BY <2>1, IngestIndex, OutsideIndex DEF Next
  <2>2. CASE UNCHANGED vars
    <3>1. Grows
      BY <2>2 DEF Grows, vars, ingestVars
    <3>2. \A w \in Workers : Progress(w)'
      BY <2>2, <3>1, ProgressStays DEF TypeOK, IndexInv, WorkerProgress, vars, ingestVars
    <3> QED
      BY <2>2, <3>2 DEF vars, docVars, ingestVars, IndexInv, ChunksHavePoints, IndexedHasChunks,
                        WorkerProgress
  <2> QED
    BY <2>1, <2>2
<1> QED
  BY <1>1, InitIndex, TypeCorrect, PTL DEF Spec

\* Whatever overlaps, fails or faults, a chunk in PostgreSQL has its point in
\* Qdrant: upsert_chunks_bulk ran to its end before _persist_chunks began, and no
\* code path removes a point.
THEOREM ChunksFound == Spec => []ChunksHavePoints
<1>1. IndexInv => ChunksHavePoints
  BY DEF IndexInv
<1> QED
  BY <1>1, IndexInvariant, PTL

\* indexed_at is only set over chunks, numbered from the first without a gap.
THEOREM IndexedIsSearchable == Spec => []IndexedHasChunks
<1>1. IndexInv => IndexedHasChunks
  BY DEF IndexInv
<1> QED
  BY <1>1, IndexInvariant, PTL

\* What each step of ingest_document relies on is there when it is taken.
THEOREM WorkersRely == Spec => []WorkerProgress
<1>1. IndexInv => WorkerProgress
  BY DEF IndexInv
<1> QED
  BY <1>1, IndexInvariant, PTL

-----------------------------------------------------------------------------
\* NothingStuck is not inductive: a worker that only has its message left to
\* acknowledge counts as working on the document, and will do nothing for it.
\* What keeps a document from being lost is one of these.
OnItsWay(d) ==
  \/ d \in abandoned \/ Queued(d)
  \/ \E w \in Workers : Doc(w) = d /\ worker[w].pc \notin {"idle", "ack"}
  \/ \E r \in Runs : feed[r].doc = d /\ feed[r].step = "upserted"
NoneLost == \A d \in Docs : rows[d].status \in InProgress => OnItsWay(d)

LEMMA StatusWritten ==
  ASSUME rows \in [Docs -> Row], NEW d \in Docs
  PROVE  /\ \A s \in Status : SetStatus(d, s) =>
              /\ rows'[d].status = s /\ rows'[d].modified = rows[d].modified
              /\ \A e \in Docs \ {d} : rows'[e] = rows[e]
         /\ \A v \in Versions : UpsertDocument(d, v) =>
              /\ rows'[d].status = "discovered" /\ rows'[d].modified = v
              /\ \A e \in Docs \ {d} : rows'[e] = rows[e]
<1>1. rows[d] \in Row
  OBVIOUS
<1> QED
  BY <1>1 DEF SetStatus, UpsertDocument, Row

\* A message sent is there, and so are those that were.
LEMMA SendQueues ==
  ASSUME DocumentsTypeOK, NEW d \in Docs, NEW n \in 0..MaxRetries, Send(d, n)
  PROVE  Queued(d)' /\ \A e \in Docs : Queued(e) => Queued(e)'
<1>1. \A e \in Docs, m \in 0..MaxRetries : tasks[e][m] \in Nat
  BY DEF DocumentsTypeOK
<1>2. \A e \in Docs, m \in 0..MaxRetries :
        tasks'[e][m] = IF e = d /\ m = n THEN tasks[e][m] + 1 ELSE tasks[e][m]
  BY DEF Send, DocumentsTypeOK
<1>3. tasks'[d][n] > 0 /\ \A e \in Docs, m \in 0..MaxRetries : tasks[e][m] > 0 => tasks'[e][m] > 0
  BY <1>1, <1>2
<1> QED
  BY <1>3 DEF Queued

\* A worker's jump moves it alone, and to the step it names.
LEMMA GotoMoves ==
  ASSUME IngestTypeOK, NEW w \in Workers, NEW pc, Goto(w, pc)
  PROVE  /\ worker'[w].pc = pc /\ Doc(w)' = Doc(w) /\ worker'[w].raw = worker[w].raw
         /\ worker'[w].done = worker[w].done
         /\ \A v \in Workers \ {w} : worker'[v] = worker[v]
BY DEF Goto, IngestTypeOK, Doc

LEMMA FeedLosesNone ==
  ASSUME TypeOK, NoneLost, FeedNext, UNCHANGED ingestVars
  PROVE  NoneLost'
<1> USE DEF TypeOK, InProgress
<1>0. /\ \A d \in Docs : rows[d].status \in InProgress => OnItsWay(d)
      /\ rows \in [Docs -> Row] /\ feed \in [Runs -> Hand]
      /\ \A r \in Runs : feed[r].step # "idle" => feed[r].doc \in Docs
      /\ worker' = worker
  BY DEF NoneLost, DocumentsTypeOK, FeedTypeOK, ingestVars
\* The run's step leaves what others owe the documents.
<1>1. ASSUME NEW r \in Runs, \A q \in Runs \ {r} : feed'[q] = feed[q],
             \A d \in Docs : Queued(d) => Queued(d)',
             \A d \in Docs : d \in abandoned =>
               d \in abandoned' \/ (feed'[r].doc = d /\ feed'[r].step = "upserted"),
             feed[r].step = "upserted" =>
               \A d \in Docs : d = feed[r].doc => d \in abandoned' \/ Queued(d)',
             \A d \in Docs : rows'[d].status \in InProgress =>
               rows[d].status \in InProgress \/ (feed'[r].doc = d /\ feed'[r].step = "upserted")
      PROVE  NoneLost'
  <2> SUFFICES ASSUME NEW d \in Docs, rows'[d].status \in InProgress PROVE OnItsWay(d)'
    BY DEF NoneLost
  <2>1. CASE feed'[r].doc = d /\ feed'[r].step = "upserted"
    BY <2>1 DEF OnItsWay
  <2>2. CASE OnItsWay(d) /\ ~(feed'[r].doc = d /\ feed'[r].step = "upserted")
    <3>1. CASE d \in abandoned \/ Queued(d)
      BY <1>1, <2>2, <3>1 DEF OnItsWay
    <3>2. CASE \E w \in Workers : Doc(w) = d /\ worker[w].pc \notin {"idle", "ack"}
      BY <1>0, <3>2 DEF OnItsWay, Doc
    <3>3. ASSUME NEW q \in Runs, feed[q].doc = d, feed[q].step = "upserted" PROVE OnItsWay(d)'
      <4>1. CASE q = r
        BY <1>1, <3>3, <4>1 DEF OnItsWay
      <4>2. CASE q # r
        <5>1. feed'[q].doc = d /\ feed'[q].step = "upserted"
          BY <1>1, <3>3, <4>2
        <5> QED
          BY <5>1 DEF OnItsWay
      <4> QED
        BY <4>1, <4>2
    <3> QED
      BY <2>2, <3>1, <3>2, <3>3 DEF OnItsWay
  <2> QED
    BY <1>0, <1>1, <2>1, <2>2
<1>2. ASSUME NEW d \in Docs, ProviderEdit(d) \/ ProviderTrash(d) PROVE NoneLost'
  BY <1>0, <1>2 DEF ProviderEdit, ProviderTrash, docVars, NoneLost, OnItsWay, Queued, Doc
<1>3. ASSUME NEW r \in Runs, NEW d \in Docs, List(r, d) PROVE NoneLost'
  <2>1. /\ feed[r].step = "idle" /\ UNCHANGED <<rows, tasks, abandoned>>
        /\ \A q \in Runs \ {r} : feed'[q] = feed[q]
    BY <1>0, <1>3 DEF List, docVars
  <2> QED
    BY <1>1, <2>1 DEF Queued
<1>4. ASSUME NEW r \in Runs, Tombstone(r) PROVE NoneLost'
  <2>1. feed[r].doc \in Docs /\ feed[r].step = "listed" /\ "deleted" \in Status
    BY <1>0, <1>4 DEF Tombstone, Status
  <2>2. \A d \in Docs : rows'[d].status \in InProgress => rows[d].status \in InProgress
    BY <1>0, <1>4, <2>1, StatusWritten DEF Tombstone, MarkDocDeleted
  <2>3. UNCHANGED <<tasks, abandoned>> /\ \A q \in Runs \ {r} : feed'[q] = feed[q]
    BY <1>0, <1>4 DEF Tombstone
  <2> QED
    BY <1>1, <2>1, <2>2, <2>3 DEF Queued
<1>5. ASSUME NEW r \in Runs, FetchMetadata(r) \/ FetchContent(r) \/ Upload(r) PROVE NoneLost'
  <2>1. /\ feed[r].step \in {"listed", "described", "fetched"} /\ UNCHANGED <<rows, tasks, abandoned>>
        /\ \A q \in Runs \ {r} : feed'[q] = feed[q]
    BY <1>0, <1>5 DEF FetchMetadata, FetchContent, Upload, docVars
  <2> QED
    BY <1>1, <2>1 DEF Queued
<1>6. ASSUME NEW r \in Runs, Upsert(r) PROVE NoneLost'
  <2>1. feed[r].doc \in Docs /\ feed[r].modified \in Versions /\ feed[r].step = "uploaded"
    BY <1>0, <1>6 DEF Upsert, Hand
  <2>2. /\ feed'[r].step = "upserted" /\ feed'[r].doc = feed[r].doc
        /\ \A q \in Runs \ {r} : feed'[q] = feed[q]
    BY <1>0, <1>6 DEF Upsert, Hand
  <2>3. \A d \in Docs : d # feed[r].doc => rows'[d] = rows[d]
    BY <1>0, <1>6, <2>1, StatusWritten DEF Upsert
  <2> QED
    BY <1>1, <1>6, <2>1, <2>2, <2>3 DEF Upsert, Queued
<1>7. ASSUME NEW r \in Runs, Enqueue(r) PROVE NoneLost'
  <2>1. PICK e \in Docs : e = feed[r].doc /\ Send(e, 0) /\ 0 \in 0..MaxRetries
    BY <1>0, <1>7, DocumentsAssumption DEF Enqueue
  <2>2. Queued(e)' /\ \A d \in Docs : Queued(d) => Queued(d)'
    BY <2>1, SendQueues
  <2>3. \A q \in Runs \ {r} : feed'[q] = feed[q]
    BY <1>0, <1>7 DEF Enqueue
  <2> QED
    BY <1>0, <1>1, <1>7, <2>1, <2>2, <2>3 DEF Enqueue
<1>8. ASSUME NEW r \in Runs, FeedFail(r) \/ FeedCrash(r) PROVE NoneLost'
  <2>1. /\ UNCHANGED <<rows, tasks>> /\ Drop(r)
        /\ \A q \in Runs \ {r} : feed'[q] = feed[q]
    BY <1>0, <1>8 DEF FeedFail, FeedCrash
  <2>2. abandoned \subseteq abandoned' /\ (feed[r].step = "upserted" => feed[r].doc \in abandoned')
    BY <2>1 DEF Drop
  <2> QED
    BY <1>1, <2>1, <2>2 DEF Queued
<1> QED
  BY <1>2, <1>3, <1>4, <1>5, <1>6, <1>7, <1>8 DEF FeedNext, FeedStep

LEMMA IngestLosesNone ==
  ASSUME TypeOK, NoneLost, IngestNext, UNCHANGED feedVars
  PROVE  NoneLost'
<1> USE DEF TypeOK, InProgress
<1>0. /\ \A d \in Docs : rows[d].status \in InProgress => OnItsWay(d)
      /\ rows \in [Docs -> Row] /\ feed' = feed
  BY DEF NoneLost, DocumentsTypeOK, feedVars
\* The worker's step leaves what others owe the documents.
<1>1. ASSUME NEW w \in Workers, \A v \in Workers \ {w} : worker'[v] = worker[v],
             \A d \in Docs : Queued(d) => Queued(d)' \/ (Doc(w)' = d /\ worker'[w].pc = "load"),
             abandoned \subseteq abandoned',
             worker[w].pc \notin {"idle", "ack"} =>
               \/ Doc(w)' = Doc(w) /\ worker'[w].pc \notin {"idle", "ack"}
               \/ \A d \in Docs : d = Doc(w) => d \in abandoned' \/ Queued(d)'
               \/ rows'[Doc(w)].status \notin InProgress,
             \A d \in Docs : rows'[d].status \in InProgress =>
               rows[d].status \in InProgress \/ (Doc(w)' = d /\ worker'[w].pc \notin {"idle", "ack"})
      PROVE  NoneLost'
  <2> SUFFICES ASSUME NEW d \in Docs, rows'[d].status \in InProgress PROVE OnItsWay(d)'
    BY DEF NoneLost
  <2>1. CASE Doc(w)' = d /\ worker'[w].pc \notin {"idle", "ack"}
    BY <2>1 DEF OnItsWay
  <2>2. CASE OnItsWay(d) /\ ~(Doc(w)' = d /\ worker'[w].pc \notin {"idle", "ack"})
    <3>1. CASE d \in abandoned \/ Queued(d)
      BY <1>1, <2>2, <3>1 DEF OnItsWay
    <3>2. ASSUME NEW v \in Workers, Doc(v) = d, worker[v].pc \notin {"idle", "ack"}
          PROVE  OnItsWay(d)'
      <4>1. CASE v = w
        BY <1>1, <2>2, <3>2, <4>1 DEF OnItsWay
      <4>2. CASE v # w
        <5>1. Doc(v)' = d /\ worker'[v].pc \notin {"idle", "ack"}
          BY <1>1, <3>2, <4>2 DEF Doc
        <5> QED
          BY <5>1 DEF OnItsWay
      <4> QED
        BY <4>1, <4>2
    <3>3. CASE \E q \in Runs : feed[q].doc = d /\ feed[q].step = "upserted"
      BY <1>0, <3>3 DEF OnItsWay
    <3> QED
      BY <2>2, <3>1, <3>2, <3>3 DEF OnItsWay
  <2> QED
    BY <1>0, <1>1, <2>1, <2>2
<1>2. ASSUME NEW w \in Workers, NEW d \in Docs, NEW n \in 0..MaxRetries, Start(w, d, n)
      PROVE  NoneLost'
  <2>1. /\ worker'[w] = At("load", d, n) /\ \A v \in Workers \ {w} : worker'[v] = worker[v]
        /\ worker[w].pc = "idle" /\ UNCHANGED <<rows, abandoned>>
    BY <1>2 DEF Start, IngestTypeOK
  <2>2. \A e \in Docs : e # d => tasks'[e] = tasks[e]
    BY <1>2 DEF Start, Receive, DocumentsTypeOK
  <2>3. Doc(w)' = d /\ worker'[w].pc = "load"
    BY <2>1 DEF Doc, At
  <2> QED
    BY <1>1, <2>1, <2>2, <2>3 DEF Queued
<1>3. ASSUME NEW w \in Workers, Load(w) PROVE NoneLost'
  <2>1. PICK pc \in {"ack", "download", "mark"} :
          Goto(w, pc) /\ (pc = "ack" => rows[Doc(w)].status \in {Absent, "active"})
    BY <1>3 DEF Load
  <2> QED
    BY <1>1, <1>3, <2>1, GotoMoves DEF Load, docVars, Queued, Absent
<1>4. ASSUME NEW w \in Workers, MarkIndexing(w) PROVE NoneLost'
  <2>1. \A d \in Docs : d # Doc(w) => rows'[d] = rows[d]
    BY <1>0, <1>4, TaskTypes, StatusWritten DEF MarkIndexing, Status
  <2> QED
    BY <1>1, <1>4, <2>1, GotoMoves DEF MarkIndexing, Queued
<1>5. ASSUME NEW w \in Workers, Download(w) \/ ReadGroups(w) \/ UpsertBatch(w) PROVE NoneLost'
  <2>1. /\ worker[w].pc \in {"download", "groups", "upsert"} /\ Doc(w)' = Doc(w)
        /\ worker'[w].pc \in {"prepare", "upsert", "persist"}
        /\ \A v \in Workers \ {w} : worker'[v] = worker[v]
    BY <1>5 DEF Download, ReadGroups, UpsertBatch, IngestTypeOK, Doc
  <2>2. UNCHANGED docVars
    BY <1>5 DEF Download, ReadGroups, UpsertBatch
  <2> QED
    BY <1>1, <2>1, <2>2 DEF docVars, Queued
<1>6. ASSUME NEW w \in Workers, Prepare(w) \/ PersistChunks(w) \/ MarkDocFailed(w)
                                \/ CallFails(w) \/ DatabaseFails(w)
      PROVE  NoneLost'
  <2>1. PICK pc \in {"failed", "groups", "activate", "raise"} : Goto(w, pc)
    BY <1>6 DEF Prepare, PersistChunks, MarkDocFailed, CallFails, DatabaseFails, Fails
  <2>2. UNCHANGED docVars
    BY <1>6 DEF Prepare, PersistChunks, MarkDocFailed, CallFails, DatabaseFails, Fails
  <2> QED
    BY <1>1, <2>1, <2>2, GotoMoves DEF docVars, Queued
<1>7. ASSUME NEW w \in Workers, MarkDocActive(w) PROVE NoneLost'
  <2>1. rows[Doc(w)] \in Row /\ Doc(w) \in Docs
    BY <1>0, <1>7, TaskTypes DEF MarkDocActive
  <2>2. rows'[Doc(w)].status = "active" /\ \A d \in Docs : d # Doc(w) => rows'[d] = rows[d]
    BY <1>0, <1>7, <2>1 DEF MarkDocActive, Row
  <2> QED
    BY <1>1, <1>7, <2>1, <2>2, GotoMoves DEF MarkDocActive, Queued
<1>8. ASSUME NEW w \in Workers, ErrorSkipped(w) \/ GiveUp(w) PROVE NoneLost'
  BY <1>1, <1>8, GotoMoves DEF ErrorSkipped, GiveUp, Queued
<1>9. ASSUME NEW w \in Workers, Retry(w) PROVE NoneLost'
  <2>1. Doc(w) \in Docs /\ worker[w].try + 1 \in 0..MaxRetries
    BY <1>9, TaskTypes, DocumentsAssumption DEF Retry, Task
  <2>2. \A d \in Docs : (d = Doc(w) => Queued(d)') /\ (Queued(d) => Queued(d)')
    BY <1>9, <2>1, SendQueues DEF Retry
  <2> QED
    BY <1>1, <1>9, <2>2, GotoMoves DEF Retry
<1>10. ASSUME NEW w \in Workers, Ack(w) PROVE NoneLost'
  <2>1. worker[w].pc = "ack" /\ UNCHANGED docVars /\ \A v \in Workers \ {w} : worker'[v] = worker[v]
    BY <1>10 DEF Ack, IngestTypeOK
  <2> QED
    BY <1>1, <2>1 DEF docVars, Queued
<1>11. ASSUME NEW w \in Workers, Crash(w) PROVE NoneLost'
  <2>1. Doc(w) \in Docs /\ worker[w].try \in 0..MaxRetries
    BY <1>11, TaskTypes DEF Crash, Task
  <2>2. \A d \in Docs : (d = Doc(w) => Queued(d)') /\ (Queued(d) => Queued(d)')
    BY <1>11, <2>1, SendQueues DEF Crash
  <2>3. UNCHANGED <<rows, abandoned>> /\ \A v \in Workers \ {w} : worker'[v] = worker[v]
    BY <1>11 DEF Crash, IngestTypeOK
  <2> QED
    BY <1>1, <2>2, <2>3
<1>12. ASSUME NEW w \in Workers, Redeliver(w) PROVE NoneLost'
  <2>1. Doc(w) \in Docs /\ worker[w].try \in 0..MaxRetries
    BY <1>12, TaskTypes DEF Redeliver, Task
  <2>2. \A d \in Docs : Queued(d) => Queued(d)'
    BY <1>12, <2>1, SendQueues DEF Redeliver
  <2> QED
    BY <1>1, <1>12, <2>2 DEF Redeliver, Doc
<1> QED
  BY <1>2, <1>3, <1>4, <1>5, <1>6, <1>7, <1>8, <1>9, <1>10, <1>11, <1>12
     DEF IngestNext, Receiving, IngestStep

\* What an admin's PATCH makes of a row is left to the admin; no other request
\* makes a row wait.
LEMMA AdminLosesNone ==
  ASSUME TypeOK, NoneLost, AdminNext, UNCHANGED <<feedVars, ingestVars>>
  PROVE  NoneLost'
<1> USE DEF TypeOK, InProgress
<1>1. rows \in [Docs -> Row] /\ feed' = feed /\ worker' = worker /\ tasks' = tasks
  BY DEF DocumentsTypeOK, feedVars, ingestVars, AdminNext, UpdateDocument, DeleteDocument,
         AddDocumentToGroup, RemoveDocumentFromGroup
<1>2. ASSUME abandoned \subseteq abandoned',
             \A d \in Docs : rows'[d].status \in InProgress =>
               rows[d].status \in InProgress \/ d \in abandoned'
      PROVE  NoneLost'
  BY <1>1, <1>2 DEF NoneLost, OnItsWay, Queued, Doc
<1>3. ASSUME NEW d \in Docs, UpdateDocument(d) PROVE NoneLost'
  <2>1. PICK s \in PatchStatuses \cup {rows[d].status} :
          SetStatus(d, s) /\ abandoned' = IF s = rows[d].status THEN abandoned ELSE abandoned \cup {d}
    BY <1>3 DEF UpdateDocument
  <2>2. s \in Status
    BY <1>1, <1>3, DocumentsAssumption DEF UpdateDocument, HasRow, Row
  <2>3. rows'[d].status = s /\ \A e \in Docs \ {d} : rows'[e] = rows[e]
    BY <1>1, <2>1, <2>2, StatusWritten
  <2> QED
    BY <1>2, <2>1, <2>3
<1>4. ASSUME NEW d \in Docs, DeleteDocument(d) PROVE NoneLost'
  <2>1. rows'[d].status = "deleted" /\ \A e \in Docs \ {d} : rows'[e] = rows[e]
    BY <1>1, <1>4, StatusWritten DEF DeleteDocument, Status
  <2> QED
    BY <1>2, <1>4, <2>1 DEF DeleteDocument
<1>5. ASSUME UNCHANGED <<rows, abandoned>> PROVE NoneLost'
  BY <1>2, <1>5
<1> QED
  BY <1>3, <1>4, <1>5 DEF AdminNext, AddDocumentToGroup, RemoveDocumentFromGroup

LEMMA NoneLostAlways == Spec => []NoneLost
<1>1. Init => NoneLost
  BY DEF Init, DocumentsInit, NoneLost, InProgress, Absent
<1>2. TypeOK /\ NoneLost /\ [Next]_vars => NoneLost'
  <2> SUFFICES ASSUME TypeOK, NoneLost, [Next]_vars PROVE NoneLost'
    OBVIOUS
  <2>1. CASE UNCHANGED vars
    BY <2>1 DEF vars, docVars, feedVars, ingestVars, NoneLost, OnItsWay, Queued, Doc
  <2> QED
    BY <2>1, FeedLosesNone, IngestLosesNone, AdminLosesNone DEF Next
<1> QED
  BY <1>1, <1>2, TypeCorrect, PTL DEF Spec

\* A document that waits to be indexed is never without a message, a worker or
\* a sync run that comes to it, for any number of workers, runs and retries,
\* crashes and redeliveries (pipeline/tasks.py, sources/sync.py).
THEOREM NothingIsStuck == Spec => []NothingStuck
<1>1. NoneLost => NothingStuck
  BY DEF NoneLost, OnItsWay, NothingStuck, Owed, Working, Feeding, Doc
<1> QED
  BY <1>1, NoneLostAlways, PTL

-----------------------------------------------------------------------------
\* What a run has in hand is never newer than what the provider has, and what it
\* stores is never older than what was stored: with one run, nobody else puts
\* older bytes under a row between its Upload and its Upsert.
StoredFirst ==
  /\ \A d \in Docs : rows[d].modified <= objects[d] /\ objects[d] <= provider[d].version
  /\ \A r \in Runs :
       /\ feed[r].step = "described" => feed[r].modified <= provider[feed[r].doc].version
       /\ feed[r].step = "fetched" =>
            /\ feed[r].modified <= feed[r].version
            /\ objects[feed[r].doc] <= feed[r].version
            /\ feed[r].version <= provider[feed[r].doc].version
       /\ feed[r].step = "uploaded" => feed[r].modified <= objects[feed[r].doc]

OneRun == \A r, q \in Runs : r = q

LEMMA FeedStoresFirst ==
  ASSUME TypeOK, StoredFirst, OneRun, FeedNext
  PROVE  StoredFirst'
<1> USE DEF TypeOK
<1>0. /\ rows \in [Docs -> Row] /\ feed \in [Runs -> Hand] /\ objects \in [Docs -> Versions]
      /\ provider \in [Docs -> [version : Versions, gone : BOOLEAN]]
      /\ \A r \in Runs : feed[r].step # "idle" => feed[r].doc \in Docs
      /\ \A d \in Docs : rows[d] \in Row /\ objects[d] \in Nat /\ provider[d].version \in Nat
      /\ \A r \in Runs : feed[r].version \in Versions /\ feed[r].modified \in Versions
      /\ Versions \subseteq Nat
  BY DocumentsAssumption DEF DocumentsTypeOK, FeedTypeOK, Versions, Hand
<1>1. ASSUME NEW d \in Docs, ProviderEdit(d) \/ ProviderTrash(d) PROVE StoredFirst'
  <2>1. UNCHANGED <<rows, objects, feed>>
    BY <1>1 DEF ProviderEdit, ProviderTrash, docVars
  <2>2. \A e \in Docs : provider[e].version <= provider'[e].version /\ provider'[e].version \in Nat
    BY <1>0, <1>1 DEF ProviderEdit, ProviderTrash
  <2>3. \A e \in Docs : rows[e].modified \in Nat
    BY <1>0 DEF Row
  <2>4. \A e \in Docs : objects[e] <= provider'[e].version
    BY <1>0, <2>2 DEF StoredFirst
  <2>5. ASSUME NEW r \in Runs, feed[r].step = "described"
        PROVE  feed[r].modified <= provider'[feed[r].doc].version
    <3>1. feed[r].doc \in Docs /\ feed[r].modified \in Nat /\ feed[r].modified <= provider[feed[r].doc].version
      BY <1>0, <2>5 DEF StoredFirst
    <3> QED
      BY <1>0, <2>2, <3>1
  <2>6. ASSUME NEW r \in Runs, feed[r].step = "fetched"
        PROVE  feed[r].version <= provider'[feed[r].doc].version
    <3>1. feed[r].doc \in Docs /\ feed[r].version \in Nat /\ feed[r].version <= provider[feed[r].doc].version
      BY <1>0, <2>6 DEF StoredFirst
    <3> QED
      BY <1>0, <2>2, <3>1
  <2> QED
    BY <2>1, <2>4, <2>5, <2>6 DEF StoredFirst
\* A run that lets go of its document, or takes one up.
<1>2. ASSUME NEW r \in Runs, feed'[r].step \in {"idle", "listed", "upserted"},
             UNCHANGED <<objects, provider>>, \A d \in Docs : rows'[d].modified <= objects[d]
      PROVE  StoredFirst'
  BY <1>2 DEF OneRun, StoredFirst
<1>3. ASSUME NEW r \in Runs, NEW d \in Docs, List(r, d) PROVE StoredFirst'
  <2>1. feed'[r].step = "listed" /\ UNCHANGED <<objects, provider, rows>>
    BY <1>0, <1>3 DEF List, HandOf, docVars
  <2> QED
    BY <1>2, <2>1 DEF StoredFirst
<1>4. ASSUME NEW r \in Runs, Enqueue(r) \/ FeedFail(r) \/ FeedCrash(r) PROVE StoredFirst'
  <2>1. feed'[r].step = "idle" /\ UNCHANGED <<objects, provider, rows>>
    BY <1>0, <1>4 DEF Enqueue, FeedFail, FeedCrash, IdleFeed, HandOf
  <2> QED
    BY <1>2, <2>1 DEF StoredFirst
<1>5. ASSUME NEW r \in Runs, Tombstone(r) PROVE StoredFirst'
  <2>1. feed'[r].step = "idle" /\ UNCHANGED <<objects, provider>>
    BY <1>0, <1>5 DEF Tombstone, IdleFeed, HandOf
  <2>2. feed[r].doc \in Docs /\ "deleted" \in Status
    BY <1>0, <1>5 DEF Tombstone, Status
  <2>3. \A d \in Docs : rows'[d].modified = rows[d].modified
    BY <1>0, <1>5, <2>2, StatusWritten DEF Tombstone, MarkDocDeleted
  <2> QED
    BY <1>2, <2>1, <2>3 DEF StoredFirst
<1>6. ASSUME NEW r \in Runs, FetchMetadata(r) PROVE StoredFirst'
  <2>1. /\ feed[r].doc \in Docs /\ feed'[r].step = "described" /\ feed'[r].doc = feed[r].doc
        /\ feed'[r].modified = provider[feed[r].doc].version
        /\ UNCHANGED <<objects, provider, rows>>
    BY <1>0, <1>6 DEF FetchMetadata, Hand, docVars
  <2> QED
    BY <1>0, <2>1 DEF OneRun, StoredFirst
<1>7. ASSUME NEW r \in Runs, FetchContent(r) PROVE StoredFirst'
  <2>1. /\ feed[r].doc \in Docs /\ feed[r].step = "described"
        /\ feed'[r].step = "fetched" /\ feed'[r].doc = feed[r].doc
        /\ feed'[r].modified = feed[r].modified /\ feed'[r].version = provider[feed[r].doc].version
        /\ UNCHANGED <<objects, provider, rows>>
    BY <1>0, <1>7 DEF FetchContent, Hand, docVars
  <2> QED
    BY <1>0, <2>1 DEF OneRun, StoredFirst
<1>8. ASSUME NEW r \in Runs, Upload(r) PROVE StoredFirst'
  <2>1. /\ feed[r].doc \in Docs /\ feed[r].step = "fetched"
        /\ feed'[r].step = "uploaded" /\ feed'[r].doc = feed[r].doc
        /\ feed'[r].modified = feed[r].modified
        /\ objects'[feed[r].doc] = feed[r].version
        /\ \A d \in Docs : d # feed[r].doc => objects'[d] = objects[d]
        /\ UNCHANGED <<provider, rows>>
    BY <1>0, <1>8 DEF Upload, Hand
  <2>2. \A d \in Docs : rows[d].modified \in Nat
    BY <1>0 DEF Row
  <2>3. \A d \in Docs : rows[d].modified <= objects'[d] /\ objects'[d] <= provider[d].version
    <3>1. feed[r].version \in Nat /\ objects[feed[r].doc] <= feed[r].version
          /\ feed[r].version <= provider[feed[r].doc].version
      BY <1>0, <2>1 DEF StoredFirst
    <3> SUFFICES ASSUME NEW d \in Docs
                 PROVE  rows[d].modified <= objects'[d] /\ objects'[d] <= provider[d].version
      OBVIOUS
    <3>2. rows[d].modified <= objects[d] /\ objects[d] <= provider[d].version
      BY DEF StoredFirst
    <3>3. rows[d].modified \in Nat /\ objects[d] \in Nat /\ provider[d].version \in Nat
      BY <1>0, <2>2
    <3>4. CASE d = feed[r].doc
      BY <2>1, <3>1, <3>2, <3>3, <3>4
    <3>5. CASE d # feed[r].doc
      BY <2>1, <3>2, <3>5
    <3> QED
      BY <3>4, <3>5
  <2> QED
    BY <1>0, <2>1, <2>3 DEF OneRun, StoredFirst
<1>9. ASSUME NEW r \in Runs, Upsert(r) PROVE StoredFirst'
  <2>1. /\ feed[r].doc \in Docs /\ feed[r].step = "uploaded" /\ feed'[r].step = "upserted"
        /\ UNCHANGED <<objects, provider>>
    BY <1>0, <1>9 DEF Upsert, Hand
  <2>2. /\ rows'[feed[r].doc].modified = feed[r].modified
        /\ \A d \in Docs : d # feed[r].doc => rows'[d] = rows[d]
    BY <1>0, <1>9, <2>1, StatusWritten DEF Upsert
  <2> QED
    BY <1>2, <2>1, <2>2 DEF StoredFirst
<1> QED
  BY <1>1, <1>3, <1>4, <1>5, <1>6, <1>7, <1>8, <1>9 DEF FeedNext, FeedStep

\* Workers and admins write neither the bytes nor source_modified_at.
LEMMA OthersKeepModified ==
  ASSUME TypeOK, IngestNext \/ AdminNext
  PROVE  objects' = objects /\ \A d \in Docs : rows'[d].modified = rows[d].modified
<1> USE DEF TypeOK
<1>0. rows \in [Docs -> Row]
  BY DEF DocumentsTypeOK
<1>1. CASE AdminNext
  <2>1. ASSUME NEW d \in Docs, UpdateDocument(d) \/ DeleteDocument(d)
        PROVE  \A e \in Docs : rows'[e].modified = rows[e].modified
    <3>1. \E s \in Status : SetStatus(d, s)
      BY <1>0, <2>1, DocumentsAssumption DEF UpdateDocument, DeleteDocument, HasRow, Row, Status
    <3> QED
      BY <1>0, <3>1, StatusWritten
  <2>2. objects' = objects
    BY <1>1 DEF AdminNext, UpdateDocument, DeleteDocument, AddDocumentToGroup,
                RemoveDocumentFromGroup
  <2> QED
    BY <1>1, <2>1, <2>2 DEF AdminNext, AddDocumentToGroup, RemoveDocumentFromGroup
<1>2. CASE IngestNext
  <2>1. ASSUME NEW w \in Workers, MarkIndexing(w)
        PROVE  \A d \in Docs : rows'[d].modified = rows[d].modified
    BY <1>0, <2>1, TaskTypes, StatusWritten DEF MarkIndexing, Status
  <2>2. ASSUME NEW w \in Workers, MarkDocActive(w)
        PROVE  \A d \in Docs : rows'[d].modified = rows[d].modified
    <3>1. rows[Doc(w)] \in Row /\ Doc(w) \in Docs
      BY <1>0, <2>2, TaskTypes DEF MarkDocActive
    <3> QED
      BY <1>0, <2>2, <3>1 DEF MarkDocActive, Row
  <2>3. ASSUME NEW w \in Workers,
               Receiving(w) \/ IngestStep(w) \/ Crash(w) \/ Redeliver(w)
        PROVE  objects' = objects /\ (MarkIndexing(w) \/ MarkDocActive(w) \/ UNCHANGED rows)
    BY <2>3 DEF Receiving, Start, IngestStep, Load, MarkIndexing, Download, Prepare, ReadGroups,
                UpsertBatch, PersistChunks, MarkDocActive, CallFails, DatabaseFails, Fails,
                ErrorSkipped, MarkDocFailed, Retry, GiveUp, Ack, Crash, Redeliver, docVars
  <2> QED
    BY <1>2, <2>1, <2>2, <2>3 DEF IngestNext
<1> QED
  BY <1>1, <1>2

LEMMA StoredFirstAlways ==
  ASSUME OneRun PROVE Spec => []StoredFirst
<1>1. Init => StoredFirst
  BY DEF Init, DocumentsInit, FeedInit, StoredFirst, IdleFeed, HandOf
<1>2. TypeOK /\ StoredFirst /\ [Next]_vars => StoredFirst'
  <2> SUFFICES ASSUME TypeOK, StoredFirst, [Next]_vars PROVE StoredFirst'
    OBVIOUS
  <2>1. CASE UNCHANGED vars
    BY <2>1 DEF vars, docVars, feedVars, StoredFirst
  <2>2. ASSUME IngestNext \/ AdminNext, UNCHANGED feedVars PROVE StoredFirst'
    BY <2>2, OthersKeepModified DEF feedVars, StoredFirst
  <2> QED
    BY <2>1, <2>2, FeedStoresFirst DEF Next, feedVars
<1> QED
  BY <1>1, <1>2, TypeCorrect, PTL DEF Spec

\* With one sync run, a row never claims newer metadata than the bytes have:
\* the object is stored first, and the bytes are fetched after the metadata
\* (sources/sync.py, sources/google_drive.py).
THEOREM MetadataIsStored ==
  ASSUME OneRun PROVE Spec => []MetadataNotAhead
<1>1. StoredFirst => MetadataNotAhead
  BY DEF StoredFirst, MetadataNotAhead
<1> QED
  BY <1>1, StoredFirstAlways, PTL

-----------------------------------------------------------------------------
\* UndisturbedIsCurrent is not inductive: MarkDocActive says nothing of the bytes
\* it was reached with.  As long as nobody replaces the bytes under an ingest,
\* every worker on the document holds what MinIO has and writes nothing else, so
\* that an ACTIVE row is backed by both indexes until a run stores new bytes;
\* that run then takes the row back to DISCOVERED or leaves it abandoned.
PointsCurrent(d) == \A i \in 1..ChunkCount[d][objects[d]] : points[d][i].version = objects[d]
ChunksCurrent(d) == \A i \in 1..ChunkCount[d][objects[d]] : chunks[d][i] = objects[d]

HoldsCurrent(w) ==
  /\ worker[w].raw # 0 => worker[w].raw = objects[Doc(w)]
  /\ worker[w].pc = "upsert" =>
       \A i \in 1..worker[w].done : points[Doc(w)][i].version = objects[Doc(w)]
  /\ worker[w].pc \in {"persist", "activate"} => PointsCurrent(Doc(w))
  /\ worker[w].pc = "activate" => ChunksCurrent(Doc(w))

Replacing(d) == \E r \in Runs : feed[r].doc = d /\ feed[r].step = "uploaded"

Undisturbed ==
  \A d \in Docs \ raced :
    /\ \A w \in Workers : Doc(w) = d /\ worker[w].pc # "idle" => HoldsCurrent(w)
    /\ rows[d].status = "active" /\ d \notin abandoned =>
         (PointsCurrent(d) /\ ChunksCurrent(d)) \/ Replacing(d)

\* A step that leaves each current point and chunk of d current.
KeepsCurrent(d) ==
  \A i \in Index :
    /\ points[d][i].version = objects[d] => points'[d][i].version = objects[d]
    /\ chunks[d][i] = objects[d] => chunks'[d][i] = objects[d]

LEMMA CurrentStays ==
  ASSUME TypeOK, objects' = objects, NEW d \in Docs, KeepsCurrent(d)
  PROVE  /\ PointsCurrent(d) => PointsCurrent(d)'
         /\ ChunksCurrent(d) => ChunksCurrent(d)'
         /\ \A n \in 0..MaxChunks :
              (\A i \in 1..n : points[d][i].version = objects[d]) =>
                \A i \in 1..n : points'[d][i].version = objects'[d]
<1>1. objects[d] \in Versions /\ ChunkCount[d][objects[d]] \in 0..MaxChunks
  BY IngestionAssumption DEF TypeOK, DocumentsTypeOK
<1>2. \A n \in 0..MaxChunks : 1..n \subseteq Index
  BY IngestionAssumption DEF Index
<1> QED
  BY <1>1, <1>2 DEF KeepsCurrent, PointsCurrent, ChunksCurrent

LEMMA HoldingStays ==
  ASSUME TypeOK, objects' = objects, NEW w \in Workers, worker[w].pc # "idle",
         HoldsCurrent(w), worker'[w] = worker[w], KeepsCurrent(Doc(w))
  PROVE  HoldsCurrent(w)'
<1>1. Doc(w) \in Docs /\ worker[w].done \in 0..MaxChunks /\ Doc(w)' = Doc(w)
  BY TaskTypes DEF TypeOK, Task, Doc
<1>2. /\ PointsCurrent(Doc(w)) => PointsCurrent(Doc(w))'
      /\ ChunksCurrent(Doc(w)) => ChunksCurrent(Doc(w))'
      /\ (\A i \in 1..worker[w].done : points[Doc(w)][i].version = objects[Doc(w)]) =>
           \A i \in 1..worker[w].done : points'[Doc(w)][i].version = objects'[Doc(w)]
  <2>1. \A d \in Docs : d = Doc(w) =>
          /\ PointsCurrent(d) => PointsCurrent(d)'
          /\ ChunksCurrent(d) => ChunksCurrent(d)'
          /\ (\A i \in 1..worker[w].done : points[d][i].version = objects[d]) =>
               \A i \in 1..worker[w].done : points'[d][i].version = objects'[d]
    BY <1>1, CurrentStays
  <2> QED
    BY <1>1, <2>1
<1> QED
  BY <1>1, <1>2 DEF HoldsCurrent

\* What a worker's step owes the others: no current point or chunk is lost, the
\* worker itself holds current bytes, and a row made ACTIVE is current.
LEMMA WorkerUndisturbs ==
  ASSUME TypeOK, Undisturbed, Track, NEW w \in Workers,
         UNCHANGED <<objects, feed>>, abandoned \subseteq abandoned',
         \A v \in Workers \ {w} : worker'[v] = worker[v],
         \A d \in Docs \ raced : KeepsCurrent(d),
         Doc(w)' \in Docs \ raced /\ worker'[w].pc # "idle" => HoldsCurrent(w)',
         \A d \in Docs \ raced : rows'[d].status = "active" =>
           rows[d].status = "active" \/ (PointsCurrent(d) /\ ChunksCurrent(d))'
  PROVE  Undisturbed'
<1>1. raced' = raced
  BY DEF Track, Replaced
<1> SUFFICES ASSUME NEW d \in Docs \ raced
             PROVE  /\ \A v \in Workers : Doc(v)' = d /\ worker'[v].pc # "idle" => HoldsCurrent(v)'
                    /\ rows'[d].status = "active" /\ d \notin abandoned' =>
                         (PointsCurrent(d)' /\ ChunksCurrent(d)') \/ Replacing(d)'
  BY <1>1 DEF Undisturbed
<1>2. ASSUME NEW v \in Workers, Doc(v)' = d, worker'[v].pc # "idle" PROVE HoldsCurrent(v)'
  <2>1. CASE v = w
    BY <1>2, <2>1
  <2>2. CASE v # w
    <3>1. worker'[v] = worker[v] /\ Doc(v) = d
      BY <1>2, <2>2 DEF Doc
    <3>2. HoldsCurrent(v)
      BY <1>2, <3>1 DEF Undisturbed
    <3> QED
      BY <1>2, <3>1, <3>2, HoldingStays
  <2> QED
    BY <2>1, <2>2
<1>3. ASSUME rows'[d].status = "active", d \notin abandoned'
      PROVE  (PointsCurrent(d)' /\ ChunksCurrent(d)') \/ Replacing(d)'
  BY <1>3, CurrentStays DEF Undisturbed, Replacing
<1> QED
  BY <1>2, <1>3

\* The bytes of a busy worker that cut chunks are those in MinIO, and so are the
\* chunks it counts.
LEMMA WritesCurrent ==
  ASSUME TypeOK, IndexInv, Undisturbed, NEW w \in Workers,
         worker[w].pc \in {"groups", "upsert", "persist", "activate"}, Doc(w) \notin raced
  PROVE  /\ Doc(w) \in Docs /\ worker[w] \in Task /\ HoldsCurrent(w)
         /\ worker[w].raw = objects[Doc(w)]
         /\ Count(w) = ChunkCount[Doc(w)][objects[Doc(w)]] /\ Count(w) \in 1..MaxChunks
<1>1. /\ Doc(w) \in Docs /\ worker[w] \in Task /\ Count(w) \in 0..MaxChunks
      /\ worker[w].raw # 0 /\ Count(w) # 0
  BY TaskTypes, RawStored DEF TypeOK, IndexInv, WorkerProgress, Progress
<1>2. HoldsCurrent(w)
  BY <1>1 DEF Undisturbed
<1>3. worker[w].raw = objects[Doc(w)]
  BY <1>1, <1>2 DEF HoldsCurrent
<1> QED
  BY <1>1, <1>2, <1>3 DEF Count

LEMMA UpsertUndisturbs ==
  ASSUME TypeOK, IndexInv, Undisturbed, Track, NEW w \in Workers, UpsertBatch(w),
         UNCHANGED feedVars
  PROVE  Undisturbed'
<1> DEFINE from == worker[w].done
           to == IF from + Batch < Count(w) THEN from + Batch ELSE Count(w)
<1>1. /\ worker[w].pc = "upsert" /\ Doc(w) \in Docs /\ worker[w] \in Task
      /\ Count(w) \in 1..MaxChunks /\ from < Count(w) /\ worker[w].raw \in Versions
  BY TaskTypes, IngestionAssumption
     DEF TypeOK, UpsertBatch, IndexInv, WorkerProgress, Progress, Task
<1>2. to \in 0..MaxChunks /\ from \in 0..MaxChunks /\ to <= Count(w)
  BY <1>1, IngestionAssumption DEF Task
<1>3. /\ worker' = [worker EXCEPT ![w].done = to,
                                  ![w].pc = IF to = Count(w) THEN "persist" ELSE "upsert"]
      /\ UNCHANGED <<chunks, docVars>>
      /\ points' = [points EXCEPT ![Doc(w)] = [i \in Index |->
           IF i \in from + 1 .. to
           THEN [version |-> worker[w].raw, groups |-> worker[w].groups] ELSE @[i]]]
  BY DEF UpsertBatch
<1> HIDE DEF from, to
<1>4. \A d \in Docs, i \in Index :
        points'[d][i] = IF d = Doc(w) /\ i \in from + 1 .. to
                        THEN [version |-> worker[w].raw, groups |-> worker[w].groups]
                        ELSE points[d][i]
  BY <1>1, <1>3 DEF TypeOK, IngestTypeOK
<1>5. ASSUME NEW d \in Docs \ raced PROVE KeepsCurrent(d)
  <2>1. CASE d = Doc(w)
    BY <1>1, <1>3, <1>4, <2>1, WritesCurrent DEF KeepsCurrent
  <2>2. CASE d # Doc(w)
    BY <1>3, <1>4, <2>2 DEF KeepsCurrent
  <2> QED
    BY <2>1, <2>2
<1>6. /\ worker'[w].done = to /\ Doc(w)' = Doc(w) /\ worker'[w].raw = worker[w].raw
      /\ worker'[w].pc = IF to = Count(w) THEN "persist" ELSE "upsert"
      /\ \A v \in Workers \ {w} : worker'[v] = worker[v]
  BY <1>3 DEF Doc, TypeOK, IngestTypeOK
<1>7. ASSUME Doc(w) \notin raced PROVE HoldsCurrent(w)'
  <2>1. /\ HoldsCurrent(w) /\ worker[w].raw = objects[Doc(w)]
        /\ Count(w) = ChunkCount[Doc(w)][objects[Doc(w)]]
    BY <1>1, <1>7, WritesCurrent
  <2>2. ASSUME NEW i \in 1..to PROVE points'[Doc(w)][i].version = objects[Doc(w)]
    <3>1. i \in Index
      BY <1>1, <1>2, IngestionAssumption DEF Index
    <3>2. CASE i <= from
      <4>1. points[Doc(w)][i].version = objects[Doc(w)]
        BY <1>1, <1>2, <2>1, <3>2 DEF HoldsCurrent, from
      <4> QED
        BY <1>1, <1>2, <1>4, <3>1, <3>2, <4>1
    <3>3. CASE i > from
      BY <1>1, <1>2, <1>4, <2>1, <3>1, <3>3
    <3> QED
      BY <3>2, <3>3, <1>2
  <2>3. objects' = objects
    BY <1>3 DEF docVars
  <2> QED
    BY <1>6, <2>1, <2>2, <2>3 DEF HoldsCurrent, PointsCurrent
<1> QED
  BY <1>3, <1>5, <1>6, <1>7, WorkerUndisturbs DEF docVars, feedVars

LEMMA PersistUndisturbs ==
  ASSUME TypeOK, IndexInv, Undisturbed, Track, NEW w \in Workers, PersistChunks(w),
         UNCHANGED feedVars
  PROVE  Undisturbed'
<1>1. worker[w].pc = "persist" /\ Doc(w) \in Docs /\ Count(w) \in 0..MaxChunks
  BY TaskTypes DEF TypeOK, PersistChunks
<1>2. /\ Goto(w, "activate") /\ UNCHANGED <<points, docVars>>
      /\ \A d \in Docs, i \in Index :
           chunks'[d][i] = IF d = Doc(w) /\ i <= Count(w) THEN worker[w].raw ELSE chunks[d][i]
  BY <1>1 DEF PersistChunks, TypeOK, IngestTypeOK
<1>3. ASSUME NEW d \in Docs \ raced PROVE KeepsCurrent(d)
  BY <1>1, <1>2, <1>3, WritesCurrent DEF KeepsCurrent
<1>4. /\ worker'[w].pc = "activate" /\ Doc(w)' = Doc(w) /\ worker'[w].raw = worker[w].raw
      /\ \A v \in Workers \ {w} : worker'[v] = worker[v]
  BY <1>2, GotoMoves DEF TypeOK
<1>5. ASSUME Doc(w) \notin raced PROVE HoldsCurrent(w)'
  <2>1. /\ HoldsCurrent(w) /\ worker[w].raw = objects[Doc(w)]
        /\ Count(w) = ChunkCount[Doc(w)][objects[Doc(w)]]
    BY <1>1, <1>5, WritesCurrent
  <2>2. \A i \in 1..Count(w) : chunks'[Doc(w)][i] = objects[Doc(w)]
    BY <1>1, <1>2, <2>1, IngestionAssumption DEF Index
  <2>3. objects' = objects /\ points' = points
    BY <1>2 DEF docVars
  <2> QED
    BY <1>1, <1>4, <2>1, <2>2, <2>3 DEF HoldsCurrent, PointsCurrent, ChunksCurrent
<1> QED
  BY <1>2, <1>3, <1>4, <1>5, WorkerUndisturbs DEF docVars, feedVars

LEMMA IngestUndisturbs ==
  ASSUME TypeOK, IndexInv, Undisturbed, Track, IngestNext, UNCHANGED feedVars
  PROVE  Undisturbed'
<1> USE DEF TypeOK
<1>0. feed' = feed /\ rows \in [Docs -> Row]
  BY DEF feedVars, DocumentsTypeOK
<1>1. ASSUME UNCHANGED <<chunks, points>> PROVE \A d \in Docs \ raced : KeepsCurrent(d)
  BY <1>1 DEF KeepsCurrent
\* The steps that only jump, to a step that relies on nothing new.
<1>2. ASSUME NEW w \in Workers,
             NEW pc \in {"mark", "download", "prepare", "groups", "failed", "raise", "ack"},
             worker[w].pc # "idle", Goto(w, pc), UNCHANGED <<chunks, points, objects>>,
             abandoned \subseteq abandoned',
             \A d \in Docs \ raced : rows'[d].status = "active" =>
               rows[d].status = "active" \/ (PointsCurrent(d) /\ ChunksCurrent(d))'
      PROVE  Undisturbed'
  <2>1. /\ worker'[w].pc = pc /\ Doc(w)' = Doc(w) /\ worker'[w].raw = worker[w].raw
        /\ \A v \in Workers \ {w} : worker'[v] = worker[v]
    BY <1>2, GotoMoves
  <2>2. Doc(w) \in Docs
    BY <1>2, TaskTypes
  <2>3. Doc(w) \notin raced => HoldsCurrent(w)'
    BY <1>2, <2>1, <2>2 DEF Undisturbed, HoldsCurrent
  <2> QED
    BY <1>0, <1>1, <1>2, <2>1, <2>3, WorkerUndisturbs
<1>3. ASSUME NEW w \in Workers, NEW d \in Docs, NEW n \in 0..MaxRetries, Start(w, d, n)
      PROVE  Undisturbed'
  <2>1. /\ worker'[w] = At("load", d, n) /\ \A v \in Workers \ {w} : worker'[v] = worker[v]
        /\ UNCHANGED <<chunks, points, objects, rows, abandoned>>
    BY <1>3 DEF Start, IngestTypeOK
  <2>2. HoldsCurrent(w)'
    BY <2>1 DEF HoldsCurrent, At
  <2> QED
    BY <1>0, <1>1, <2>1, <2>2, WorkerUndisturbs
<1>4. ASSUME NEW w \in Workers, Load(w) PROVE Undisturbed'
  <2>1. PICK pc \in {"ack", "download", "mark"} : Goto(w, pc)
    BY <1>4 DEF Load
  <2> QED
    BY <1>2, <1>4, <2>1 DEF Load, docVars
<1>5. ASSUME NEW w \in Workers, MarkIndexing(w) PROVE Undisturbed'
  <2>1. \A d \in Docs : rows'[d].status = "active" => rows[d].status = "active"
    BY <1>0, <1>5, TaskTypes, StatusWritten DEF MarkIndexing, Status
  <2> QED
    BY <1>2, <1>5, <2>1 DEF MarkIndexing
<1>6. ASSUME NEW w \in Workers, Download(w) PROVE Undisturbed'
  <2>1. /\ worker'[w].pc = "prepare" /\ worker'[w].raw = objects[Doc(w)]
        /\ \A v \in Workers \ {w} : worker'[v] = worker[v]
        /\ Doc(w)' = Doc(w) /\ UNCHANGED <<chunks, points, docVars>>
    BY <1>6 DEF Download, IngestTypeOK, Doc
  <2>2. HoldsCurrent(w)'
    BY <2>1 DEF HoldsCurrent, docVars
  <2> QED
    BY <1>0, <1>1, <2>1, <2>2, WorkerUndisturbs DEF docVars
<1>7. ASSUME NEW w \in Workers, ReadGroups(w) PROVE Undisturbed'
  <2>1. /\ worker[w].pc = "groups" /\ worker'[w].pc = "upsert" /\ Doc(w)' = Doc(w)
        /\ worker'[w].raw = worker[w].raw /\ worker'[w].done = worker[w].done
        /\ \A v \in Workers \ {w} : worker'[v] = worker[v]
        /\ UNCHANGED <<chunks, points, docVars>>
    BY <1>7 DEF ReadGroups, IngestTypeOK, Doc
  <2>2. worker[w].done = 0
    BY <2>1 DEF IndexInv, WorkerProgress, Progress
  <2>3. Doc(w) \notin raced => HoldsCurrent(w)'
    BY <2>1, <2>2, WritesCurrent DEF HoldsCurrent, docVars
  <2> QED
    BY <1>0, <1>1, <2>1, <2>3, WorkerUndisturbs DEF docVars
<1>8. ASSUME NEW w \in Workers, MarkDocActive(w) PROVE Undisturbed'
  <2>1. /\ worker[w].pc = "activate" /\ Doc(w) \in Docs /\ Goto(w, "ack")
        /\ UNCHANGED <<chunks, points, objects, abandoned>>
        /\ \A d \in Docs : d # Doc(w) => rows'[d] = rows[d]
    BY <1>0, <1>8, TaskTypes DEF MarkDocActive
  <2>2. Doc(w) \notin raced => (PointsCurrent(Doc(w)) /\ ChunksCurrent(Doc(w)))
    BY <2>1, WritesCurrent DEF HoldsCurrent
  <2>3. \A d \in Docs \ raced : rows'[d].status = "active" =>
          rows[d].status = "active" \/ (PointsCurrent(d) /\ ChunksCurrent(d))'
    BY <2>1, <2>2 DEF PointsCurrent, ChunksCurrent
  <2> QED
    BY <1>2, <2>1, <2>3
<1>9. ASSUME NEW w \in Workers,
             \/ Prepare(w) \/ CallFails(w) \/ DatabaseFails(w) \/ ErrorSkipped(w)
             \/ MarkDocFailed(w) \/ Retry(w) \/ GiveUp(w)
      PROVE  Undisturbed'
  <2>1. /\ \E pc \in {"failed", "groups", "raise", "ack"} : Goto(w, pc)
        /\ worker[w].pc # "idle" /\ abandoned \subseteq abandoned'
        /\ UNCHANGED <<chunks, points, objects, rows>>
    BY <1>9 DEF Prepare, CallFails, DatabaseFails, DatabaseSteps, Fails, ErrorSkipped,
                MarkDocFailed, Retry, GiveUp, docVars
  <2> QED
    BY <1>2, <2>1
<1>10. ASSUME NEW w \in Workers, Ack(w) \/ Crash(w) PROVE Undisturbed'
  <2>1. /\ worker'[w].pc = "idle" /\ \A v \in Workers \ {w} : worker'[v] = worker[v]
        /\ UNCHANGED <<chunks, points, objects, rows, abandoned>>
    BY <1>10 DEF Ack, Crash, docVars, IngestTypeOK, IdleWorker, At
  <2> QED
    BY <1>0, <1>1, <2>1, WorkerUndisturbs
<1>11. ASSUME NEW w \in Workers, Redeliver(w) PROVE Undisturbed'
  <2>1. UNCHANGED <<worker, chunks, points, objects, rows, abandoned>>
    BY <1>11 DEF Redeliver
  <2>2. Doc(w) \in Docs \ raced /\ worker[w].pc # "idle" => HoldsCurrent(w)'
    BY <2>1 DEF Undisturbed, HoldsCurrent, PointsCurrent, ChunksCurrent, Doc
  <2> QED
    BY <1>0, <1>1, <2>1, <2>2, WorkerUndisturbs DEF Doc
<1> QED
  BY <1>3, <1>4, <1>5, <1>6, <1>7, <1>8, <1>9, <1>10, <1>11, UpsertUndisturbs, PersistUndisturbs
     DEF IngestNext, Receiving, IngestStep

\* A run that stores new bytes while nobody ingests the document finds no worker
\* that relies on the old ones, and has the row before it: DISCOVERED once it
\* writes it, abandoned if it does not get there.
LEMMA FeedUndisturbs ==
  ASSUME TypeOK, IndexInv, Undisturbed, Track, FeedNext, UNCHANGED ingestVars
  PROVE  Undisturbed'
<1> USE DEF TypeOK
<1>0. /\ rows \in [Docs -> Row] /\ feed \in [Runs -> Hand]
      /\ \A r \in Runs : feed[r].step # "idle" => feed[r].doc \in Docs
      /\ UNCHANGED <<worker, chunks, points>>
  BY DEF DocumentsTypeOK, FeedTypeOK, ingestVars
\* A step that stores no bytes.
<1>1. ASSUME objects' = objects,
             \A d \in Docs : rows'[d].status = "active" /\ d \notin abandoned' =>
               /\ rows[d].status = "active" /\ d \notin abandoned
               /\ Replacing(d) => Replacing(d)'
      PROVE  Undisturbed'
  <2>1. raced' = raced
    BY <1>1 DEF Track, Replaced
  <2>2. \A w \in Workers : HoldsCurrent(w) => HoldsCurrent(w)'
    BY <1>0, <1>1 DEF HoldsCurrent, PointsCurrent, ChunksCurrent, Doc
  <2>3. \A d \in Docs : PointsCurrent(d) /\ ChunksCurrent(d) => (PointsCurrent(d) /\ ChunksCurrent(d))'
    BY <1>0, <1>1 DEF PointsCurrent, ChunksCurrent
  <2>4. \A w \in Workers : Doc(w)' = Doc(w)
    BY <1>0 DEF Doc
  <2> QED
    BY <1>0, <1>1, <2>1, <2>2, <2>3, <2>4 DEF Undisturbed
<1>2. ASSUME NEW d \in Docs, ProviderEdit(d) \/ ProviderTrash(d) PROVE Undisturbed'
  BY <1>1, <1>2 DEF ProviderEdit, ProviderTrash, docVars, Replacing
<1>3. ASSUME NEW r \in Runs, feed[r].step # "uploaded", \A q \in Runs \ {r} : feed'[q] = feed[q]
      PROVE  \A d \in Docs : Replacing(d) => Replacing(d)'
  BY <1>3 DEF Replacing
<1>4. ASSUME NEW r \in Runs,
             \/ FetchMetadata(r) \/ FetchContent(r) \/ Enqueue(r)
             \/ \E d \in Docs : List(r, d)
      PROVE  Undisturbed'
  <2>1. /\ feed[r].step # "uploaded" /\ \A q \in Runs \ {r} : feed'[q] = feed[q]
        /\ UNCHANGED <<objects, rows, abandoned>>
    BY <1>0, <1>4 DEF FetchMetadata, FetchContent, Enqueue, List, docVars
  <2> QED
    BY <1>1, <1>3, <2>1
<1>5. ASSUME NEW r \in Runs, Tombstone(r) PROVE Undisturbed'
  <2>1. /\ feed[r].step = "listed" /\ feed[r].doc \in Docs
        /\ \A q \in Runs \ {r} : feed'[q] = feed[q]
        /\ UNCHANGED <<objects, abandoned>>
    BY <1>0, <1>5 DEF Tombstone
  <2>2. \A d \in Docs : rows'[d].status = "active" => rows[d].status = "active"
    BY <1>0, <1>5, <2>1, StatusWritten DEF Tombstone, MarkDocDeleted, Status
  <2> QED
    BY <1>1, <1>3, <2>1, <2>2
<1>6. ASSUME NEW r \in Runs, FeedFail(r) \/ FeedCrash(r) PROVE Undisturbed'
  <2>1. /\ \A q \in Runs \ {r} : feed'[q] = feed[q]
        /\ UNCHANGED <<objects, rows>>
        /\ abandoned \subseteq abandoned'
        /\ feed[r].step = "uploaded" => feed[r].doc \in abandoned'
    BY <1>0, <1>6 DEF FeedFail, FeedCrash, Drop
  <2>2. \A d \in Docs : d \notin abandoned' => (Replacing(d) => Replacing(d)')
    BY <2>1 DEF Replacing
  <2>3. \A d \in Docs : rows'[d].status = "active" /\ d \notin abandoned' =>
          /\ rows[d].status = "active" /\ d \notin abandoned
          /\ Replacing(d) => Replacing(d)'
    BY <2>1, <2>2
  <2> QED
    BY <1>1, <2>1, <2>3
<1>7. ASSUME NEW r \in Runs, Upsert(r) PROVE Undisturbed'
  <2>1. /\ feed[r].doc \in Docs /\ feed[r].modified \in Versions
        /\ \A q \in Runs \ {r} : feed'[q] = feed[q]
        /\ objects' = objects /\ abandoned' = abandoned \ {feed[r].doc}
    BY <1>0, <1>7 DEF Upsert, Hand
  <2>2. /\ \A d \in Docs : d = feed[r].doc => rows'[d].status # "active"
        /\ \A d \in Docs : d # feed[r].doc => rows'[d] = rows[d]
    BY <1>0, <1>7, <2>1, StatusWritten DEF Upsert
  <2>3. \A d \in Docs : d # feed[r].doc => (Replacing(d) => Replacing(d)')
    BY <2>1 DEF Replacing
  <2>4. ASSUME NEW d \in Docs, rows'[d].status = "active", d \notin abandoned'
        PROVE  /\ rows[d].status = "active" /\ d \notin abandoned
               /\ Replacing(d) => Replacing(d)'
    <3>1. d # feed[r].doc
      BY <2>2, <2>4
    <3> QED
      BY <2>1, <2>2, <2>3, <2>4, <3>1
  <2> QED
    BY <1>1, <2>1, <2>4
<1>8. ASSUME NEW r \in Runs, Upload(r) PROVE Undisturbed'
  <2>1. /\ feed[r].step = "fetched" /\ feed[r].doc \in Docs
        /\ feed'[r].step = "uploaded" /\ feed'[r].doc = feed[r].doc
        /\ \A q \in Runs \ {r} : feed'[q] = feed[q]
        /\ \A d \in Docs : d # feed[r].doc => objects'[d] = objects[d]
        /\ UNCHANGED <<rows, abandoned>>
    BY <1>0, <1>8 DEF Upload, Hand, DocumentsTypeOK
  <2>2. \A d \in Docs : Replacing(d) \/ d = feed[r].doc => Replacing(d)'
    BY <2>1 DEF Replacing
  <2> SUFFICES ASSUME NEW d \in Docs \ raced'
               PROVE  /\ \A w \in Workers : Doc(w) = d /\ worker[w].pc # "idle" => HoldsCurrent(w)'
                      /\ rows[d].status = "active" /\ d \notin abandoned =>
                           (PointsCurrent(d)' /\ ChunksCurrent(d)') \/ Replacing(d)'
    BY <1>0, <2>1 DEF Undisturbed, Doc
  <2>3. CASE d \in Replaced
    <3>1. ASSUME NEW w \in Workers, Doc(w) = d, worker[w].pc # "idle" PROVE HoldsCurrent(w)'
      <4>1. worker[w].raw = 0
        BY <2>3, <3>1 DEF Track, Ingesting
      <4>2. worker[w].pc \notin {"upsert", "persist", "activate"}
        BY <3>1, <4>1, RawStored DEF IndexInv, WorkerProgress, Progress
      <4> QED
        BY <1>0, <4>1, <4>2 DEF HoldsCurrent
    <3>2. Replacing(d)'
      BY <2>1, <2>2, <2>3 DEF Replaced
    <3> QED
      BY <3>1, <3>2
  <2>4. CASE d \notin Replaced
    <3>1. objects'[d] = objects[d] /\ d \in Docs \ raced
      BY <2>4 DEF Track, Replaced
    <3>2. \A w \in Workers : Doc(w) = d /\ HoldsCurrent(w) => HoldsCurrent(w)'
      BY <1>0, <3>1 DEF HoldsCurrent, PointsCurrent, ChunksCurrent, Doc
    <3>3. PointsCurrent(d) /\ ChunksCurrent(d) => PointsCurrent(d)' /\ ChunksCurrent(d)'
      BY <1>0, <3>1 DEF PointsCurrent, ChunksCurrent
    <3> QED
      BY <2>2, <3>1, <3>2, <3>3 DEF Undisturbed
  <2> QED
    BY <2>3, <2>4
<1> QED
  BY <1>2, <1>4, <1>5, <1>6, <1>7, <1>8 DEF FeedNext, FeedStep

\* A row an admin makes ACTIVE is one whose status the admin chose.
LEMMA AdminUndisturbs ==
  ASSUME TypeOK, Undisturbed, Track, AdminNext, UNCHANGED <<feedVars, ingestVars>>
  PROVE  Undisturbed'
<1> USE DEF TypeOK
<1>1. rows \in [Docs -> Row] /\ UNCHANGED <<feed, worker, chunks, points, objects>>
  BY DEF DocumentsTypeOK, feedVars, ingestVars, AdminNext, UpdateDocument, DeleteDocument,
         AddDocumentToGroup, RemoveDocumentFromGroup
<1>2. ASSUME abandoned \subseteq abandoned',
             \A d \in Docs : rows'[d].status = "active" =>
               rows[d].status = "active" \/ d \in abandoned'
      PROVE  Undisturbed'
  <2>1. raced' = raced
    BY <1>1 DEF Track, Replaced
  <2>2. \A w \in Workers : Doc(w)' = Doc(w) /\ (HoldsCurrent(w) => HoldsCurrent(w)')
    BY <1>1 DEF HoldsCurrent, PointsCurrent, ChunksCurrent, Doc
  <2>3. \A d \in Docs : /\ PointsCurrent(d) /\ ChunksCurrent(d) => (PointsCurrent(d) /\ ChunksCurrent(d))'
                        /\ Replacing(d) => Replacing(d)'
    BY <1>1 DEF PointsCurrent, ChunksCurrent, Replacing
  <2> QED
    BY <1>1, <1>2, <2>1, <2>2, <2>3 DEF Undisturbed
<1>3. ASSUME NEW d \in Docs, UpdateDocument(d) PROVE Undisturbed'
  <2>1. PICK s \in PatchStatuses \cup {rows[d].status} :
          SetStatus(d, s) /\ abandoned' = IF s = rows[d].status THEN abandoned ELSE abandoned \cup {d}
    BY <1>3 DEF UpdateDocument
  <2>2. s \in Status
    BY <1>1, <1>3, DocumentsAssumption DEF UpdateDocument, HasRow, Row
  <2>3. rows'[d].status = s /\ \A e \in Docs \ {d} : rows'[e] = rows[e]
    BY <1>1, <2>1, <2>2, StatusWritten
  <2> QED
    BY <1>2, <2>1, <2>3
<1>4. ASSUME NEW d \in Docs, DeleteDocument(d) PROVE Undisturbed'
  <2>1. rows'[d].status = "deleted" /\ \A e \in Docs \ {d} : rows'[e] = rows[e]
    BY <1>1, <1>4, StatusWritten DEF DeleteDocument, Status
  <2> QED
    BY <1>2, <1>4, <2>1 DEF DeleteDocument
<1>5. ASSUME UNCHANGED <<rows, abandoned>> PROVE Undisturbed'
  BY <1>2, <1>5
<1> QED
  BY <1>3, <1>4, <1>5 DEF AdminNext, AddDocumentToGroup, RemoveDocumentFromGroup

LEMMA UndisturbedAlways == Spec => []Undisturbed
<1>1. Init => Undisturbed
  <2> SUFFICES ASSUME Init PROVE Undisturbed
    OBVIOUS
  <2>1. /\ \A d \in Docs : rows[d].status # "active"
        /\ \A w \in Workers : worker[w].pc = "idle"
    BY DEF Init, DocumentsInit, IngestInit, Absent, IdleWorker, At
  <2> QED
    BY <2>1 DEF Undisturbed
<1>2. TypeOK /\ IndexInv /\ Undisturbed /\ [Next]_vars => Undisturbed'
  <2> SUFFICES ASSUME TypeOK, IndexInv, Undisturbed, [Next]_vars PROVE Undisturbed'
    OBVIOUS
  <2>1. CASE UNCHANGED vars
    BY <2>1 DEF vars, docVars, feedVars, ingestVars, Undisturbed, HoldsCurrent, PointsCurrent,
                ChunksCurrent, Replacing, Doc
  <2> QED
    BY <2>1, FeedUndisturbs, IngestUndisturbs, AdminUndisturbs DEF Next
<1> QED
  BY <1>1, <1>2, TypeCorrect, IndexInvariant, PTL DEF Spec

\* Once nothing is on its way, an ACTIVE document shows MinIO's bytes in both
\* indexes, unless a sync run replaced them under an ingest: the one way, besides
\* an abandoned task, in which overlapping runs and workers leave it stale
\* (pipeline/indexer.py, sources/sync.py).
THEOREM UndisturbedShowsCurrent == Spec => []UndisturbedIsCurrent
<1>1. Undisturbed => UndisturbedIsCurrent
  BY DEF Undisturbed, UndisturbedIsCurrent, PointsCurrent, ChunksCurrent, Replacing, Owed, Feeding
<1> QED
  BY <1>1, UndisturbedAlways, PTL

-----------------------------------------------------------------------------
\* With one run the bytes in MinIO only get newer, and with one worker nobody
\* writes content newer than the bytes it has in hand until it has finished: what
\* it writes then replaces nothing newer.
InHand == {"prepare", "groups", "upsert", "persist", "activate"}

AtMost(d, v) == \A i \in Index : chunks[d][i] <= v /\ points[d][i].version <= v

OneAhead ==
  /\ \A d \in Docs : AtMost(d, objects[d])
  /\ \A w \in Workers : worker[w].pc \in InHand =>
       worker[w].raw <= objects[Doc(w)] /\ AtMost(Doc(w), worker[w].raw)

OneWorker == \A v, w \in Workers : v = w

OnlyNewer ==
  \A d \in Docs, i \in Index :
    chunks'[d][i] >= chunks[d][i] /\ points'[d][i].version >= points[d][i].version

LEMMA ContentTypes ==
  ASSUME TypeOK
  PROVE  /\ \A d \in Docs : objects[d] \in Nat
         /\ \A d \in Docs, i \in Index : chunks[d][i] \in Nat /\ points[d][i].version \in Nat
         /\ \A w \in Workers :
              /\ worker[w].raw \in Nat
              /\ worker[w].pc # "idle" => Doc(w) \in Docs /\ Count(w) \in 0..MaxChunks
<1>1. Versions \subseteq Nat
  BY DocumentsAssumption DEF Versions
<1>2. DocumentsTypeOK /\ IngestTypeOK
  BY DEF TypeOK
<1>3. \A d \in Docs : objects[d] \in Nat
  BY <1>1, <1>2 DEF DocumentsTypeOK
<1>4. ASSUME NEW d \in Docs, NEW i \in Index
      PROVE  chunks[d][i] \in Nat /\ points[d][i].version \in Nat
  <2>1. chunks[d] \in [Index -> Versions]
    BY <1>2 DEF IngestTypeOK
  <2>2. points[d] \in [Index -> [version : Versions, groups : SUBSET Groups]]
    BY <1>2 DEF IngestTypeOK
  <2> QED
    BY <1>1, <2>1, <2>2
<1>5. ASSUME NEW w \in Workers
      PROVE  /\ worker[w].raw \in Nat
             /\ worker[w].pc # "idle" => Doc(w) \in Docs /\ Count(w) \in 0..MaxChunks
  BY <1>1, <1>2, TaskTypes DEF Task
<1> QED
  BY <1>3, <1>4, <1>5

\* No step makes the bytes in MinIO older.
LEMMA BytesOnlyNewer ==
  ASSUME TypeOK, StoredFirst, Next
  PROVE  \A d \in Docs : objects[d] <= objects'[d]
<1>1. ASSUME objects' = objects PROVE \A d \in Docs : objects[d] <= objects'[d]
  BY <1>1, ContentTypes
<1>2. ASSUME NEW r \in Runs, Upload(r) PROVE \A d \in Docs : objects[d] <= objects'[d]
  <2>1. /\ feed[r].doc \in Docs /\ feed[r].step = "fetched"
        /\ \A d \in Docs : objects'[d] = IF d = feed[r].doc THEN feed[r].version ELSE objects[d]
    BY <1>2 DEF Upload, TypeOK, FeedTypeOK, DocumentsTypeOK
  <2>2. objects[feed[r].doc] <= feed[r].version
    BY <2>1 DEF StoredFirst
  <2> QED
    BY <2>1, <2>2, ContentTypes
<1>3. CASE FeedNext
  BY <1>1, <1>2, <1>3
     DEF FeedNext, FeedStep, ProviderEdit, ProviderTrash, List, Tombstone, FetchMetadata, FetchContent,
         Upsert, Enqueue, FeedFail, FeedCrash, docVars
<1> QED
  BY <1>1, <1>3, OthersKeepModified DEF Next

\* Steps that leave the workers and both indexes alone.
LEMMA OutsideAhead ==
  ASSUME TypeOK, OneAhead, \A d \in Docs : objects[d] <= objects'[d], objects' \in [Docs -> Versions],
         UNCHANGED ingestVars
  PROVE  OneAhead'
<1>1. \A d \in Docs : objects'[d] \in Nat
  BY DocumentsAssumption DEF Versions
<1>2. \A d \in Docs : AtMost(d, objects'[d])
  BY <1>1, ContentTypes DEF OneAhead, AtMost
<1>3. \A w \in Workers : worker[w].pc \in InHand =>
        worker[w].raw <= objects'[Doc(w)] /\ AtMost(Doc(w), worker[w].raw)
  BY <1>1, ContentTypes DEF OneAhead, InHand
<1> QED
  BY <1>2, <1>3 DEF OneAhead, AtMost, ingestVars, Doc

\* What the worker that has raw in hand writes is not older than what it
\* replaces, and not newer than raw.
LEMMA WriteAhead ==
  ASSUME TypeOK, OneAhead, OneWorker, NEW w \in Workers, worker[w].pc \in InHand,
         worker'[w].raw = worker[w].raw, Doc(w)' = Doc(w), objects' = objects,
         \A d \in Docs, i \in Index :
           /\ \/ chunks'[d][i] = chunks[d][i]
              \/ d = Doc(w) /\ chunks'[d][i] = worker[w].raw
           /\ \/ points'[d][i].version = points[d][i].version
              \/ d = Doc(w) /\ points'[d][i].version = worker[w].raw
  PROVE  OneAhead' /\ OnlyNewer
<1>1. /\ worker[w].raw \in Nat /\ Doc(w) \in Docs
      /\ worker[w].raw <= objects[Doc(w)] /\ AtMost(Doc(w), worker[w].raw)
  BY ContentTypes DEF OneAhead, InHand
<1>2. OnlyNewer
  BY <1>1, ContentTypes DEF OnlyNewer, AtMost
<1>3. \A i \in Index : chunks'[Doc(w)][i] <= worker[w].raw
                       /\ points'[Doc(w)][i].version <= worker[w].raw
  BY <1>1, ContentTypes DEF AtMost
<1>4. ASSUME NEW d \in Docs, NEW i \in Index
      PROVE  chunks'[d][i] <= objects[d] /\ points'[d][i].version <= objects[d]
  BY <1>1, ContentTypes DEF AtMost, OneAhead
<1>5. \A v \in Workers : v = w
  BY DEF OneWorker
<1> QED
  BY <1>1, <1>2, <1>3, <1>4, <1>5 DEF OneAhead, AtMost

LEMMA IngestAhead ==
  ASSUME TypeOK, OneAhead, OneWorker, IngestNext
  PROVE  OneAhead' /\ OnlyNewer
<1> USE DEF TypeOK
<1>0. objects' = objects /\ \A v, w \in Workers : v = w
  BY OthersKeepModified DEF OneWorker
\* Steps that write to neither index.
<1>1. ASSUME NEW w \in Workers, UNCHANGED <<chunks, points>>,
             worker'[w].pc \in InHand =>
               /\ Doc(w)' = Doc(w) /\ Doc(w) \in Docs
               /\ \/ worker[w].pc \in InHand /\ worker'[w].raw = worker[w].raw
                  \/ worker'[w].raw = objects[Doc(w)]
      PROVE  OneAhead' /\ OnlyNewer
  <2>1. OnlyNewer
    BY <1>1, ContentTypes DEF OnlyNewer
  <2>2. \A d \in Docs : AtMost(d, objects[d])'
    BY <1>0, <1>1 DEF OneAhead, AtMost
  <2>3. ASSUME worker'[w].pc \in InHand
        PROVE  worker'[w].raw <= objects[Doc(w)] /\ \A i \in Index :
                 chunks[Doc(w)][i] <= worker'[w].raw /\ points[Doc(w)][i].version <= worker'[w].raw
    BY <1>1, <2>3, ContentTypes DEF OneAhead, AtMost
  <2> QED
    BY <1>0, <1>1, <2>1, <2>2, <2>3 DEF OneAhead, AtMost
<1>2. ASSUME NEW w \in Workers, UNCHANGED <<chunks, points>>, worker'[w].pc \notin InHand
      PROVE  OneAhead' /\ OnlyNewer
  BY <1>1, <1>2
<1>3. ASSUME NEW w \in Workers, NEW d \in Docs, NEW n \in 0..MaxRetries, Start(w, d, n)
      PROVE  OneAhead' /\ OnlyNewer
  BY <1>2, <1>3 DEF Start, IngestTypeOK, At, InHand
<1>4. ASSUME NEW w \in Workers,
             NEW pc \in {"mark", "download", "failed", "raise", "ack"}, Goto(w, pc),
             UNCHANGED <<chunks, points>>
      PROVE  OneAhead' /\ OnlyNewer
  BY <1>2, <1>4, GotoMoves DEF InHand
<1>5. ASSUME NEW w \in Workers,
             \/ Load(w) \/ MarkIndexing(w) \/ MarkDocActive(w) \/ CallFails(w) \/ DatabaseFails(w)
             \/ ErrorSkipped(w) \/ MarkDocFailed(w) \/ Retry(w) \/ GiveUp(w)
      PROVE  OneAhead' /\ OnlyNewer
  <2>1. /\ \E pc \in {"mark", "download", "failed", "raise", "ack"} : Goto(w, pc)
        /\ UNCHANGED <<chunks, points>>
    BY <1>5 DEF Load, MarkIndexing, MarkDocActive, CallFails, DatabaseFails, Fails, ErrorSkipped,
                MarkDocFailed, Retry, GiveUp
  <2> QED
    BY <1>4, <2>1
<1>6. ASSUME NEW w \in Workers, Download(w) PROVE OneAhead' /\ OnlyNewer
  <2>1. /\ Doc(w)' = Doc(w) /\ Doc(w) \in Docs /\ worker'[w].raw = objects[Doc(w)]
        /\ UNCHANGED <<chunks, points>>
    BY <1>6, ContentTypes DEF Download, IngestTypeOK, Doc
  <2> QED
    BY <1>1, <2>1
<1>7. ASSUME NEW w \in Workers, Prepare(w) PROVE OneAhead' /\ OnlyNewer
  <2>1. /\ Doc(w)' = Doc(w) /\ Doc(w) \in Docs /\ worker'[w].raw = worker[w].raw
        /\ worker[w].pc \in InHand /\ UNCHANGED <<chunks, points>>
    BY <1>7, ContentTypes DEF Prepare, Goto, IngestTypeOK, Doc, InHand
  <2> QED
    BY <1>1, <2>1
<1>8. ASSUME NEW w \in Workers, ReadGroups(w) PROVE OneAhead' /\ OnlyNewer
  <2>1. /\ Doc(w)' = Doc(w) /\ Doc(w) \in Docs /\ worker'[w].raw = worker[w].raw
        /\ worker[w].pc \in InHand /\ UNCHANGED <<chunks, points>>
    BY <1>8, ContentTypes DEF ReadGroups, IngestTypeOK, Doc, InHand
  <2> QED
    BY <1>1, <2>1
<1>9. ASSUME NEW w \in Workers, UpsertBatch(w) PROVE OneAhead' /\ OnlyNewer
  <2>1. /\ worker[w].pc \in InHand /\ Doc(w) \in Docs
        /\ worker'[w].raw = worker[w].raw /\ Doc(w)' = Doc(w)
    BY <1>9, ContentTypes DEF UpsertBatch, IngestTypeOK, Doc, InHand
  <2>2. \A d \in Docs, i \in Index :
          /\ chunks'[d][i] = chunks[d][i]
          /\ \/ points'[d][i].version = points[d][i].version
             \/ d = Doc(w) /\ points'[d][i].version = worker[w].raw
    BY <1>9, <2>1 DEF UpsertBatch, IngestTypeOK
  <2> QED
    BY <1>0, <2>1, <2>2, WriteAhead
<1>10. ASSUME NEW w \in Workers, PersistChunks(w) PROVE OneAhead' /\ OnlyNewer
  <2>1. /\ worker[w].pc \in InHand /\ Doc(w) \in Docs
        /\ worker'[w].raw = worker[w].raw /\ Doc(w)' = Doc(w)
    BY <1>10, ContentTypes, GotoMoves DEF PersistChunks, InHand
  <2>2. \A d \in Docs, i \in Index :
          /\ \/ chunks'[d][i] = chunks[d][i]
             \/ d = Doc(w) /\ chunks'[d][i] = worker[w].raw
          /\ points'[d][i].version = points[d][i].version
    BY <1>10, <2>1 DEF PersistChunks, IngestTypeOK
  <2> QED
    BY <1>0, <2>1, <2>2, WriteAhead
<1>11. ASSUME NEW w \in Workers, Ack(w) \/ Crash(w) PROVE OneAhead' /\ OnlyNewer
  <2>1. worker'[w].pc = "idle" /\ UNCHANGED <<chunks, points>>
    BY <1>11 DEF Ack, Crash, IngestTypeOK, IdleWorker, At
  <2> QED
    BY <1>2, <2>1 DEF InHand
<1>12. ASSUME NEW w \in Workers, Redeliver(w) PROVE OneAhead' /\ OnlyNewer
  <2>1. UNCHANGED <<worker, chunks, points>>
    BY <1>12 DEF Redeliver
  <2> QED
    BY <1>1, <2>1, ContentTypes DEF Doc, InHand
<1> QED
  BY <1>3, <1>5, <1>6, <1>7, <1>8, <1>9, <1>10, <1>11, <1>12
     DEF IngestNext, Receiving, IngestStep

\* With one worker and one sync run, no retry, redelivery or crash puts an older
\* version back in either index (pipeline/indexer.py, pipeline/tasks.py).
THEOREM ContentOnlyNewer ==
  ASSUME OneRun, OneWorker PROVE Spec => ContentNeverRegresses
<1>1. Init => OneAhead
  BY DEF Init, DocumentsInit, IngestInit, OneAhead, AtMost, IdleWorker, At, InHand
<1>2. TypeOK /\ TypeOK' /\ StoredFirst /\ OneAhead /\ [Next]_vars => OneAhead' /\ [OnlyNewer]_vars
  <2> SUFFICES ASSUME TypeOK, TypeOK', StoredFirst, OneAhead, [Next]_vars
               PROVE  OneAhead' /\ [OnlyNewer]_vars
    OBVIOUS
  <2>1. CASE UNCHANGED vars
    BY <2>1 DEF vars, docVars, ingestVars, OneAhead, AtMost, Doc
  <2>2. ASSUME Next, UNCHANGED ingestVars PROVE OneAhead' /\ OnlyNewer
    <3>1. objects' \in [Docs -> Versions]
      BY DEF TypeOK, DocumentsTypeOK
    <3>2. OnlyNewer
      BY <2>2, ContentTypes DEF ingestVars, OnlyNewer
    <3> QED
      BY <2>2, <3>1, <3>2, BytesOnlyNewer, OutsideAhead
  <2> QED
    BY <2>1, <2>2, IngestAhead DEF Next
<1>3. [OnlyNewer]_vars =>
        [\A d \in Docs, i \in Index :
           chunks'[d][i] >= chunks[d][i] /\ points'[d][i].version >= points[d][i].version]_vars
  BY DEF OnlyNewer
<1> QED
  BY <1>1, <1>2, <1>3, StoredFirstAlways, TypeCorrect, PTL DEF Spec, ContentNeverRegresses
=============================================================================
