------------------------------ MODULE Ingestion ------------------------------
(***************************************************************************)
(* The Celery workers that run ingest_doc: load the row, download, parse   *)
(* and embed, write the points to Qdrant and the chunks to PostgreSQL,     *)
(* mark the document active, acknowledge the message.  Each database       *)
(* transaction and each call to MinIO or Qdrant is a step; a failing step  *)
(* goes through _mark_doc_failed or straight to the task's retry.          *)
(***************************************************************************)
EXTENDS Documents

CONSTANTS
  Workers,     \* worker processes, one task at a time each
  MaxChunks,   \* bound: chunks of one document
  Batch,       \* points per Qdrant upsert (500 in the code)
  ChunkCount,  \* chunks the parser and chunker cut from each version;
               \* 0: missing, unreadable, empty or without a text layer
  BodyIsAsync  \* TRUE if `async with` enters the body of an object (uploader.py:55).
               \* FALSE for boto3's, whose `async with` raises: the code as it stands

ASSUME IngestionAssumption ==
  /\ MaxChunks \in Nat \ {0}
  /\ Batch \in Nat \ {0}
  /\ ChunkCount \in [Docs -> [Versions -> 0..MaxChunks]]
  /\ \A d \in Docs : ChunkCount[d][0] = 0
  /\ BodyIsAsync \in BOOLEAN

VARIABLES
  worker,   \* per worker: step, document, retry count, bytes, points written, groups
  chunks,   \* chunks table: the version each (document, index) was cut from, 0: no row
  points    \* Qdrant: the version and group_ids of each (document, index), 0: none

ingestVars == <<worker, chunks, points>>

Steps == {"idle", "load", "mark", "download", "prepare", "groups", "upsert",
          "persist", "activate", "failed", "raise", "ack"}
At(pc, d, n) == [pc |-> pc, doc |-> d, try |-> n, raw |-> 0, done |-> 0, groups |-> {}]
IdleWorker == At("idle", NoDoc, 0)
Index == 1..MaxChunks

IngestTypeOK ==
  /\ worker \in [Workers -> [pc : Steps, doc : Docs \cup {NoDoc}, try : 0..MaxRetries,
                             raw : Versions, done : 0..MaxChunks, groups : SUBSET Groups]]
  /\ chunks \in [Docs -> [Index -> Versions]]
  /\ points \in [Docs -> [Index -> [version : Versions, groups : SUBSET Groups]]]
  /\ \A w \in Workers : worker[w].pc # "idle" => worker[w].doc \in Docs

IngestInit ==
  /\ worker = [w \in Workers |-> IdleWorker]
  /\ chunks = [d \in Docs |-> [i \in Index |-> 0]]
  /\ points = [d \in Docs |-> [i \in Index |-> [version |-> 0, groups |-> {}]]]

Doc(w) == worker[w].doc
Count(w) == ChunkCount[Doc(w)][worker[w].raw]     \* chunks of the bytes in hand
Working(d) == \E w \in Workers : worker[w].doc = d

Goto(w, pc) == worker' = [worker EXCEPT ![w].pc = pc]

\* A call of step pc raised and the code's handler, or the task's, takes over.
Fails(w, pc, handler) ==
  /\ worker[w].pc = pc
  /\ Goto(w, handler)
  /\ UNCHANGED <<chunks, points, docVars>>

-----------------------------------------------------------------------------
\* The worker prefetches one message at a time.
Start(w, d, n) ==
  /\ worker[w].pc = "idle"
  /\ Receive(d, n)
  /\ worker' = [worker EXCEPT ![w] = At("load", d, n)]
  /\ UNCHANGED <<chunks, points, objects, rows, grants, abandoned, faults>>

\* Mutant of Load: INDEXING is taken for another worker's ingest in progress.
LoadSkipsIndexing(w) ==
  /\ worker[w].pc = "load"
  /\ LET row == rows[Doc(w)]
     IN Goto(w, IF row.status \in {Absent, "indexing"} \/ (row.status = "active" /\ row.indexed)
                THEN "ack" ELSE "mark")
  /\ UNCHANGED <<chunks, points, docVars>>

\* No row, or ACTIVE with indexed_at set: skipped.  Any other status goes on;
\* the UPDATE to INDEXING is only sent for a row not seen INDEXING already.
Load(w) ==
  /\ worker[w].pc = "load"
  /\ LET row == rows[Doc(w)]
     IN Goto(w, CASE row.status = Absent -> "ack"
                  [] row.status = "active" /\ row.indexed -> "ack"
                  [] row.status = "indexing" -> "download"
                  [] OTHER -> "mark")
  /\ UNCHANGED <<chunks, points, docVars>>

MarkIndexing(w) ==
  /\ worker[w].pc = "mark"
  /\ SetStatus(Doc(w), "indexing")
  /\ Goto(w, "download")
  /\ UNCHANGED <<chunks, points, objects, grants, tasks, abandoned, faults>>

\* download_bytes; a body that cannot be entered leaves only CallFails.
Download(w) ==
  /\ BodyIsAsync
  /\ worker[w].pc = "download"
  /\ worker' = [worker EXCEPT ![w].pc = "prepare", ![w].raw = objects[Doc(w)]]
  /\ UNCHANGED <<chunks, points, docVars>>

\* parse_bytes, chunk_by_sections, detect_language, embed_batch: in memory.
Prepare(w) ==
  /\ worker[w].pc = "prepare"
  /\ Goto(w, IF Count(w) = 0 THEN "failed" ELSE "groups")
  /\ UNCHANGED <<chunks, points, docVars>>

ReadGroups(w) ==
  /\ worker[w].pc = "groups"
  /\ worker' = [worker EXCEPT ![w].pc = "upsert", ![w].groups = grants[Doc(w)]]
  /\ UNCHANGED <<chunks, points, docVars>>

\* Mutant of UpsertBatch: the first batch is taken for all of them.
UpsertFirstBatch(w) ==
  /\ worker[w].pc = "upsert"
  /\ points' = [points EXCEPT ![Doc(w)] = [i \in Index |->
          IF i <= Batch /\ i <= Count(w)
          THEN [version |-> worker[w].raw, groups |-> worker[w].groups] ELSE @[i]]]
  /\ Goto(w, "persist")
  /\ UNCHANGED <<chunks, docVars>>

\* upsert_chunks_bulk: one call to Qdrant for each Batch points.
UpsertBatch(w) ==
  /\ worker[w].pc = "upsert"
  /\ LET from == worker[w].done
         to == IF from + Batch < Count(w) THEN from + Batch ELSE Count(w)
     IN /\ points' = [points EXCEPT ![Doc(w)] = [i \in Index |->
             IF i \in from + 1 .. to
             THEN [version |-> worker[w].raw, groups |-> worker[w].groups]
             ELSE @[i]]]
        /\ worker' = [worker EXCEPT ![w].done = to,
                                    ![w].pc = IF to = Count(w) THEN "persist" ELSE "upsert"]
  /\ UNCHANGED <<chunks, docVars>>

\* Mutant of PersistChunks: ON CONFLICT DO NOTHING.
PersistNew(w) ==
  /\ worker[w].pc = "persist"
  /\ chunks' = [chunks EXCEPT ![Doc(w)] = [i \in Index |->
                  IF i <= Count(w) /\ @[i] = 0 THEN worker[w].raw ELSE @[i]]]
  /\ Goto(w, "activate")
  /\ UNCHANGED <<points, docVars>>

\* Mutant of PersistChunks: the first chunk is taken for a header.
PersistTail(w) ==
  /\ worker[w].pc = "persist"
  /\ chunks' = [chunks EXCEPT ![Doc(w)] = [i \in Index |->
                  IF i \in 2..Count(w) THEN worker[w].raw ELSE @[i]]]
  /\ Goto(w, "activate")
  /\ UNCHANGED <<points, docVars>>

\* _persist_chunks: one transaction; rows beyond the last chunk stay.
PersistChunks(w) ==
  /\ worker[w].pc = "persist"
  /\ chunks' = [chunks EXCEPT ![Doc(w)] = [i \in Index |->
                  IF i <= Count(w) THEN worker[w].raw ELSE @[i]]]
  /\ Goto(w, "activate")
  /\ UNCHANGED <<points, docVars>>

\* _mark_doc_active, whatever the row has become since the load.
MarkDocActive(w) ==
  /\ worker[w].pc = "activate"
  /\ rows' = [rows EXCEPT ![Doc(w)].status = "active", ![Doc(w)].indexed = TRUE]
  /\ Goto(w, "ack")
  /\ UNCHANGED <<chunks, points, objects, grants, tasks, abandoned, faults>>

-----------------------------------------------------------------------------
\* The try blocks of ingest_document: download, embed and Qdrant errors.
CallFails(w) == \E pc \in {"download", "prepare", "upsert"} : Fails(w, pc, "failed")

\* A database error outside them reaches the task.
DatabaseSteps == {"load", "mark", "groups", "persist", "activate"}

\* Mutant of DatabaseFails: an error of _persist_chunks is caught and logged.
PersistErrorLogged(w) ==
  \E pc \in DatabaseSteps : Fails(w, pc, IF pc = "persist" THEN "activate" ELSE "raise")

DatabaseFails(w) == \E pc \in DatabaseSteps : Fails(w, pc, "raise")

\* An error whose text holds "not found" or "already" is taken for a document
\* that needs no work: the task returns at once, without a retry.
ErrorSkipped(w) ==
  /\ worker[w].pc \in DatabaseSteps
  /\ abandoned' = abandoned \cup {Doc(w)}
  /\ Goto(w, "ack")
  /\ UNCHANGED <<chunks, points, objects, rows, grants, tasks, faults>>

\* Mutant of MarkDocFailed: the text "failed" is written as it is.
MarkDocFailedText(w) ==
  /\ worker[w].pc = "failed"
  /\ SetStatus(Doc(w), "failed")
  /\ Goto(w, "ack")
  /\ UNCHANGED <<chunks, points, objects, grants, tasks, abandoned, faults>>

\* _mark_doc_failed writes DocumentStatus.FAILED.  The enum has no such member:
\* the attribute lookup raises before the commit and the error reaches the task.
MarkDocFailed(w) ==
  /\ worker[w].pc = "failed"
  /\ Goto(w, "raise")
  /\ UNCHANGED <<chunks, points, docVars>>

\* Mutant of Retry: the new message starts the count again.
RetryUncounted(w) ==
  /\ worker[w].pc = "raise"
  /\ worker[w].try < MaxRetries
  /\ Send(Doc(w), worker[w].try)
  /\ Goto(w, "ack")
  /\ UNCHANGED <<chunks, points, objects, rows, grants, abandoned, faults>>

\* self.retry: a new message before the old one is acknowledged.
Retry(w) ==
  /\ worker[w].pc = "raise"
  /\ worker[w].try < MaxRetries
  /\ Send(Doc(w), worker[w].try + 1)
  /\ Goto(w, "ack")
  /\ UNCHANGED <<chunks, points, objects, rows, grants, abandoned, faults>>

\* The retries are used up: Celery re-raises the error and the task ends.
GiveUp(w) ==
  /\ worker[w].pc = "raise"
  /\ worker[w].try = MaxRetries
  /\ abandoned' = abandoned \cup {Doc(w)}
  /\ Goto(w, "ack")
  /\ UNCHANGED <<chunks, points, objects, rows, grants, tasks, faults>>

Ack(w) ==
  /\ worker[w].pc = "ack"
  /\ worker' = [worker EXCEPT ![w] = IdleWorker]
  /\ UNCHANGED <<chunks, points, docVars>>

\* Mutant of Crash: the message was acknowledged when it was received.
CrashLosesTask(w) ==
  /\ worker[w].pc # "idle"
  /\ Fault
  /\ worker' = [worker EXCEPT ![w] = IdleWorker]
  /\ UNCHANGED <<chunks, points, objects, rows, grants, tasks, abandoned>>

\* task_acks_late and task_reject_on_worker_lost: the message goes back as it was.
Crash(w) ==
  /\ worker[w].pc # "idle"
  /\ Fault
  /\ Send(Doc(w), worker[w].try)
  /\ worker' = [worker EXCEPT ![w] = IdleWorker]
  /\ UNCHANGED <<chunks, points, objects, rows, grants, abandoned>>

\* The broker takes a message not acknowledged in time for lost and sends it
\* again, while its worker is still busy with it.
Redeliver(w) ==
  /\ worker[w].pc # "idle"
  /\ Fault
  /\ Send(Doc(w), worker[w].try)
  /\ UNCHANGED <<worker, chunks, points, objects, rows, grants, abandoned>>

-----------------------------------------------------------------------------
IngestStep(w) ==
  \/ Load(w) \/ MarkIndexing(w) \/ Download(w) \/ Prepare(w) \/ ReadGroups(w)
  \/ UpsertBatch(w) \/ PersistChunks(w) \/ MarkDocActive(w)
  \/ CallFails(w) \/ DatabaseFails(w) \/ ErrorSkipped(w)
  \/ MarkDocFailed(w) \/ Retry(w) \/ GiveUp(w) \/ Ack(w)

Receiving(w) == \E d \in Docs, n \in 0..MaxRetries : Start(w, d, n)

IngestNext == \E w \in Workers : Receiving(w) \/ IngestStep(w) \/ Crash(w) \/ Redeliver(w)
=============================================================================
