---------------------------- MODULE DocumentFeed ----------------------------
(***************************************************************************)
(* What ingestion sees of the sync engine: the body of run_sync's loop     *)
(* over one listed document, for any number of sync runs at once.  Each    *)
(* await of the loop body is a step, so runs interleave between fetching   *)
(* the bytes, storing them, writing the row and sending the task.  The     *)
(* source's cursor is seen only through the changes a run has still to     *)
(* list; the job a run reports to is left out.                             *)
(***************************************************************************)
EXTENDS Documents

CONSTANT Runs    \* sync runs that may be in flight together

VARIABLES
  provider,   \* the file at Drive or Notion: its version, and whether it is gone
  changes,    \* per run: the documents changed after the cursor it starts from
  feed        \* per run: the document in hand, how far it got, what was fetched

feedVars == <<provider, changes, feed>>

FeedSteps == {"idle", "listed", "described", "fetched", "uploaded", "upserted"}
HandOf(step, d, gone) ==
  [step |-> step, doc |-> d, gone |-> gone, modified |-> 0, version |-> 0]
IdleFeed == HandOf("idle", NoDoc, FALSE)
Hand == [step : FeedSteps, doc : Docs \cup {NoDoc}, gone : BOOLEAN,
         modified : Versions, version : Versions]

FeedTypeOK ==
  /\ provider \in [Docs -> [version : Versions, gone : BOOLEAN]]
  /\ changes \in [Runs -> SUBSET Docs]
  /\ feed \in [Runs -> Hand]
  /\ \A r \in Runs : feed[r].step # "idle" => feed[r].doc \in Docs

FeedInit ==
  /\ provider = [d \in Docs |-> [version |-> 0, gone |-> FALSE]]
  /\ changes = [r \in Runs |-> {}]
  /\ feed = [r \in Runs |-> IdleFeed]

Feeding(d) == \E r \in Runs : feed[r].doc = d

-----------------------------------------------------------------------------
Changed(d) == changes' = [r \in Runs |-> changes[r] \cup {d}]

\* A user creates, edits or restores the file.
ProviderEdit(d) ==
  /\ provider[d].version < MaxVersion
  /\ provider' = [provider EXCEPT ![d] = [version |-> @.version + 1, gone |-> FALSE]]
  /\ Changed(d)
  /\ UNCHANGED <<feed, docVars>>

\* A user moves the file to the trash.
ProviderTrash(d) ==
  /\ provider[d].version > 0 /\ ~provider[d].gone
  /\ provider' = [provider EXCEPT ![d].gone = TRUE]
  /\ Changed(d)
  /\ UNCHANGED <<feed, docVars>>

-----------------------------------------------------------------------------
\* The loop takes up the next change list_changes returned.
List(r, d) ==
  /\ feed[r].step = "idle" /\ d \in changes[r]
  /\ changes' = [changes EXCEPT ![r] = @ \ {d}]
  /\ feed' = [feed EXCEPT ![r] = HandOf("listed", d, provider[d].gone)]
  /\ UNCHANGED <<provider, docVars>>

\* A tombstone marks the row.
Tombstone(r) ==
  /\ feed[r].step = "listed" /\ feed[r].gone
  /\ MarkDocDeleted(feed[r].doc)
  /\ feed' = [feed EXCEPT ![r] = IdleFeed]
  /\ UNCHANGED <<provider, changes, objects, grants, tasks, abandoned, faults>>

\* connector.fetch_doc asks for the metadata first; Drive's raises on a file in
\* the trash.
FetchMetadata(r) ==
  /\ feed[r].step = "listed" /\ ~feed[r].gone
  /\ ~provider[feed[r].doc].gone
  /\ feed' = [feed EXCEPT ![r].step = "described",
                          ![r].modified = provider[feed[r].doc].version]
  /\ UNCHANGED <<provider, changes, docVars>>

\* Mutant of FetchContent: a cache answers, with any version there was.
FetchCached(r) ==
  /\ feed[r].step = "described"
  /\ \E v \in 1..provider[feed[r].doc].version :
       feed' = [feed EXCEPT ![r].step = "fetched", ![r].version = v]
  /\ UNCHANGED <<provider, changes, docVars>>

\* A request of its own gets the bytes: the file may have changed in between.
FetchContent(r) ==
  /\ feed[r].step = "described"
  /\ feed' = [feed EXCEPT ![r].step = "fetched",
                          ![r].version = provider[feed[r].doc].version]
  /\ UNCHANGED <<provider, changes, docVars>>

\* Mutant of Upload: an object that exists is not written again.
UploadOnce(r) ==
  /\ feed[r].step = "fetched"
  /\ objects' = [objects EXCEPT ![feed[r].doc] = IF @ = 0 THEN feed[r].version ELSE @]
  /\ feed' = [feed EXCEPT ![r].step = "uploaded"]
  /\ UNCHANGED <<provider, changes, rows, grants, tasks, abandoned, faults>>

\* upload_doc under the key source_type/source_row/doc: overwrites.
Upload(r) ==
  /\ feed[r].step = "fetched"
  /\ objects' = [objects EXCEPT ![feed[r].doc] = feed[r].version]
  /\ feed' = [feed EXCEPT ![r].step = "uploaded"]
  /\ UNCHANGED <<provider, changes, rows, grants, tasks, abandoned, faults>>

Upsert(r) ==
  /\ feed[r].step = "uploaded"
  /\ UpsertDocument(feed[r].doc, feed[r].modified)
  /\ feed' = [feed EXCEPT ![r].step = "upserted"]
  /\ abandoned' = abandoned \ {feed[r].doc}
  /\ UNCHANGED <<provider, changes, objects, grants, tasks, faults>>

Enqueue(r) ==
  /\ feed[r].step = "upserted"
  /\ Send(feed[r].doc, 0)
  /\ feed' = [feed EXCEPT ![r] = IdleFeed]
  /\ UNCHANGED <<provider, changes, objects, rows, grants, abandoned, faults>>

\* A document whose bytes or row were written is left without its task.
Drop(r) ==
  abandoned' = abandoned \cup
    IF feed[r].step \in {"uploaded", "upserted"} THEN {feed[r].doc} ELSE {}

\* The loop's exception handler counts the document as failed (or, for one too
\* large to index, skips it) and goes on to the next; a broker outage at the
\* enqueue is only logged.  Nothing written so far is undone, and the cursor
\* the run will store is past the change.
FeedFail(r) ==
  /\ feed[r].step # "idle" /\ ~(feed[r].step = "listed" /\ feed[r].gone)
  /\ Drop(r)
  /\ feed' = [feed EXCEPT ![r] = IdleFeed]
  /\ UNCHANGED <<provider, changes, objects, rows, grants, tasks, faults>>

\* The process is killed before the cursor is stored, or the run raises outside
\* that handler (marking a tombstone, storing the cursor): the redelivered or
\* retried task lists from the old cursor, documents already handled among them.
FeedCrash(r) ==
  /\ Fault
  /\ \E seen \in SUBSET {d \in Docs : provider[d].version > 0} :
       changes' = [changes EXCEPT ![r] = @ \cup seen \cup ({feed[r].doc} \ {NoDoc})]
  /\ Drop(r)
  /\ feed' = [feed EXCEPT ![r] = IdleFeed]
  /\ UNCHANGED <<provider, objects, rows, grants, tasks>>

\* The run that has a document in hand goes on with it.
FeedStep(r) ==
  \/ Tombstone(r) \/ FetchMetadata(r) \/ FetchContent(r)
  \/ Upload(r) \/ Upsert(r) \/ Enqueue(r) \/ FeedFail(r)

FeedNext ==
  \/ \E d \in Docs : ProviderEdit(d) \/ ProviderTrash(d)
  \/ \E r \in Runs : FeedStep(r) \/ FeedCrash(r) \/ \E d \in Docs : List(r, d)
=============================================================================
