---------------------------- MODULE KnowledgeBase ----------------------------
(***************************************************************************)
(* The write path as a whole: sync runs feed documents, workers ingest     *)
(* them, admins edit rows and grants, all at once and over the same        *)
(* storage.  The properties relate what is left in PostgreSQL, Qdrant and  *)
(* MinIO and what is still on its way.                                     *)
(***************************************************************************)
EXTENDS DocumentFeed, Ingestion

VARIABLE raced    \* history: documents whose bytes were replaced under an ingest

vars == <<docVars, feedVars, ingestVars, raced>>

\* A worker holds bytes of d it downloaded and has not finished with.
Ingesting(d) == \E w \in Workers : Doc(w) = d /\ worker[w].raw # 0

Replaced == {d \in Docs : objects'[d] # objects[d]}
Track == raced' = (raced \ Replaced) \cup {d \in Replaced : Ingesting(d)}

Init ==
  /\ DocumentsInit /\ FeedInit /\ IngestInit
  /\ raced = {}

Next ==
  /\ \/ FeedNext /\ UNCHANGED ingestVars
     \/ IngestNext /\ UNCHANGED feedVars
     \/ AdminNext /\ UNCHANGED <<feedVars, ingestVars>>
  /\ Track

\* Workers and sync runs go on with what they have begun and take what waits;
\* users, admins, faults and the listing of changes are not made to happen.
Fairness ==
  /\ \A w \in Workers :
       /\ WF_vars(Receiving(w) /\ UNCHANGED feedVars /\ Track)
       /\ WF_vars(IngestStep(w) /\ UNCHANGED feedVars /\ Track)
  /\ \A r \in Runs : WF_vars(FeedStep(r) /\ UNCHANGED ingestVars /\ Track)

Spec == Init /\ [][Next]_vars
FairSpec == Spec /\ Fairness

TypeOK ==
  /\ DocumentsTypeOK /\ FeedTypeOK /\ IngestTypeOK
  /\ raced \in SUBSET Docs

-----------------------------------------------------------------------------
HasPoints(d, n) == \A i \in 1..n : points[d][i].version # 0
HasChunks(d, n) == \A i \in 1..n : chunks[d][i] # 0

\* What a worker can rely on at each step, whatever other workers, sync runs and
\* admins did to the document since it began: the points of the batches it has
\* sent, all of them once it writes chunks, and all chunks once it marks the row.
Progress(w) ==
  /\ worker[w].pc \in {"load", "mark", "download", "prepare", "groups"} => worker[w].done = 0
  /\ worker[w].pc \in {"groups", "upsert", "persist", "activate"} => Count(w) # 0
  /\ worker[w].pc = "upsert" =>
       worker[w].done < Count(w) /\ HasPoints(Doc(w), worker[w].done)
  /\ worker[w].pc \in {"persist", "activate"} => HasPoints(Doc(w), Count(w))
  /\ worker[w].pc = "activate" => HasChunks(Doc(w), Count(w))

WorkerProgress == \A w \in Workers : Progress(w)

Owed(d) == Queued(d) \/ Working(d) \/ Feeding(d)
InProgress == {"discovered", "indexing"}

\* What a search can return it can also find: every chunk row has its point in
\* Qdrant, written before it and never removed, whatever fails or is killed
\* between upsert_chunks_bulk and _persist_chunks, and however many ingests of
\* the document overlap.
ChunksHavePoints ==
  \A d \in Docs, i \in Index : chunks[d][i] # 0 => points[d][i].version # 0

\* A document with indexed_at set has chunks, numbered without a gap: a task
\* that skips it as "already active" leaves something searchable behind.
IndexedHasChunks ==
  \A d \in Docs :
    /\ rows[d].indexed => chunks[d][1] # 0
    /\ \A i \in 2..MaxChunks : chunks[d][i] # 0 => chunks[d][i - 1] # 0

\* A document waiting to be indexed has a message, a worker or a sync run that
\* will come to it, unless its last task was given up, its feed failed after a
\* write or an admin chose its status: no crash, no skip and no race of two
\* tasks loses one.
NothingStuck ==
  \A d \in Docs : rows[d].status \in InProgress => Owed(d) \/ d \in abandoned

\* Once nothing is on its way, an ACTIVE document shows the bytes in MinIO, in
\* both indexes, unless they were replaced while an ingest had the old ones.
UndisturbedIsCurrent ==
  \A d \in Docs :
    rows[d].status = "active" /\ ~Owed(d) /\ d \notin abandoned \cup raced =>
      \A i \in 1..ChunkCount[d][objects[d]] :
        chunks[d][i] = objects[d] /\ points[d][i].version = objects[d]

\* With one worker and one sync run, no chunk or point is ever replaced by one
\* of an older version, through faults, redeliveries and retries.
ContentNeverRegresses ==
  [][\A d \in Docs, i \in Index :
       chunks'[d][i] >= chunks[d][i] /\ points'[d][i].version >= points[d][i].version]_vars

\* With one sync run, a row never claims a newer source_modified_at than the
\* bytes in MinIO have, whatever is edited between the two requests of a fetch
\* and wherever the run is cut short: the object is stored before the row.
MetadataNotAhead == \A d \in Docs : rows[d].modified <= objects[d]

\* Every message is done with in the end: retries and redeliveries run out.
EveryTaskEnds == \A d \in Docs : Queued(d) \/ Working(d) ~> ~Queued(d) /\ ~Working(d)

-----------------------------------------------------------------------------
\* What comments and documents of the repository say, and the code does not do.

\* enums.py: INDEXING is "Parse + chunk + embed in progress".
IndexingMeansInProgress ==
  \A d \in Docs : rows[d].status = "indexing" => Owed(d)

\* system-architecture.md: a sync discovers each new or updated document and
\* enqueues its ingest: what is ACTIVE when nothing is on its way is current.
UpdatesReachTheIndex ==
  \A d \in Docs :
    rows[d].status = "active" /\ ~Owed(d) /\ d \notin abandoned =>
      \A i \in 1..ChunkCount[d][objects[d]] : chunks[d][i] = objects[d]

\* hybrid_search.py: vector and keyword search "apply the same rule" of access:
\* with nothing on its way, the group_ids of an active document's points are the
\* groups document_groups has for it.
LayersAgree ==
  \A d \in Docs, i \in Index :
    rows[d].status = "active" /\ ~Owed(d) /\ points[d][i].version # 0 =>
      points[d][i].groups = grants[d]

\* sync.py: after a broker outage the row is DISCOVERED "and the next scheduled
\* sync [...] will re-enqueue".
DiscoveredIsEnqueued ==
  \A d \in Docs :
    rows[d].status = "discovered" ~>
      rows[d].status # "discovered" \/ Queued(d) \/ Working(d)

\* Beat starts a sync of every source again and again: changes are listed.
SyncSpec ==
  FairSpec /\ \A r \in Runs, d \in Docs : WF_vars(List(r, d) /\ UNCHANGED ingestVars /\ Track)
=============================================================================
