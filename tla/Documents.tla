------------------------------ MODULE Documents ------------------------------
(***************************************************************************)
(* The storage that the sync engine, the ingestion workers and the REST    *)
(* API share: the original files in MinIO, the `documents' and             *)
(* `document_groups' tables, and the `ingest_doc' messages at the Celery   *)
(* broker.  Each operator below is one committed transaction, one object   *)
(* store call or one broker call.                                          *)
(***************************************************************************)
EXTENDS Naturals

CONSTANTS
  Docs,            \* documents, by (source, source_id): one row each
  Groups,          \* access groups
  MaxVersion,      \* bound: edits of one document at the provider
  MaxRetries,      \* retries of one Celery task (3 in the code)
  MaxFaults,       \* bound: processes killed, runs that raise, messages sent twice
  NoDoc,           \* no document
  PatchStatuses    \* statuses an admin writes through PATCH /documents/{id}

\* DocumentStatus.  There is no member for a failed ingest.
Status == {"discovered", "indexing", "active", "outdated", "deprecated",
           "archived", "deleted"}

Absent == "absent"             \* no row for this document
Versions == 0..MaxVersion      \* 0: nothing stored

ASSUME DocumentsAssumption ==
  /\ MaxVersion \in Nat \ {0}
  /\ MaxRetries \in Nat
  /\ MaxFaults \in Nat
  /\ NoDoc \notin Docs
  /\ PatchStatuses \subseteq Status

VARIABLES
  objects,    \* MinIO: the version of the bytes under the document's key
  rows,       \* documents: status, indexed_at set?, source_modified_at
  grants,     \* document_groups
  tasks,      \* broker: number of waiting ingest_doc messages, by retry count
  abandoned,  \* history: documents left as they are, with no step owed to them
  faults      \* processes killed, runs that raised, messages sent twice so far

docVars == <<objects, rows, grants, tasks, abandoned, faults>>

Row == [status : Status \cup {Absent}, indexed : BOOLEAN, modified : Versions]

DocumentsTypeOK ==
  /\ objects \in [Docs -> Versions]
  /\ rows \in [Docs -> Row]
  /\ grants \in [Docs -> SUBSET Groups]
  /\ tasks \in [Docs -> [0..MaxRetries -> Nat]]
  /\ abandoned \in SUBSET Docs
  /\ faults \in 0..MaxFaults

DocumentsInit ==
  /\ objects = [d \in Docs |-> 0]
  /\ rows = [d \in Docs |-> [status |-> Absent, indexed |-> FALSE, modified |-> 0]]
  /\ grants = [d \in Docs |-> {}]
  /\ tasks = [d \in Docs |-> [n \in 0..MaxRetries |-> 0]]
  /\ abandoned = {}
  /\ faults = 0

HasRow(d) == rows[d].status # Absent
Queued(d) == \E n \in 0..MaxRetries : tasks[d][n] > 0

-----------------------------------------------------------------------------
\* ingest_doc_task.delay / self.retry: one more message with n retries behind it.
Send(d, n) == tasks' = [tasks EXCEPT ![d][n] = @ + 1]

\* A worker takes one message off the queue.
Receive(d, n) ==
  /\ tasks[d][n] > 0
  /\ tasks' = [tasks EXCEPT ![d][n] = @ - 1]

SetStatus(d, s) == rows' = [rows EXCEPT ![d].status = s]

\* Plausible slip: the SET only applies to newer metadata.
UpsertNewer(d, v) ==
  rows' = IF v > rows[d].modified
          THEN [rows EXCEPT ![d].status = "discovered", ![d].modified = v] ELSE rows

\* _upsert_document: INSERT .. ON CONFLICT DO UPDATE.  The row goes back to
\* DISCOVERED whatever it was, and takes the metadata whatever its age;
\* indexed_at is not in the SET list.
UpsertDocument(d, v) ==
  rows' = [rows EXCEPT ![d].status = "discovered", ![d].modified = v]

\* _mark_doc_deleted: nothing to do for a document never seen.
MarkDocDeleted(d) == IF HasRow(d) THEN SetStatus(d, "deleted") ELSE UNCHANGED rows

\* One of the faults that the bound counts.
Fault ==
  /\ faults < MaxFaults
  /\ faults' = faults + 1

-----------------------------------------------------------------------------
\* PATCH /documents/{id}: a status, an access group set, or both.  Whatever the
\* status written, no task is sent.
UpdateDocument(d) ==
  /\ HasRow(d)
  /\ \E s \in PatchStatuses \cup {rows[d].status}, G \in SUBSET Groups :
       /\ SetStatus(d, s)
       /\ grants' = [grants EXCEPT ![d] = G]
       /\ abandoned' = IF s = rows[d].status THEN abandoned ELSE abandoned \cup {d}
  /\ UNCHANGED <<objects, tasks, faults>>

\* DELETE /documents/{id}: soft delete, in the documents table only.
DeleteDocument(d) ==
  /\ HasRow(d)
  /\ SetStatus(d, "deleted")
  /\ UNCHANGED <<objects, grants, tasks, abandoned, faults>>

\* POST /groups/{id}/documents.
AddDocumentToGroup(d, g) ==
  /\ HasRow(d)
  /\ grants' = [grants EXCEPT ![d] = @ \cup {g}]
  /\ UNCHANGED <<objects, rows, tasks, abandoned, faults>>

\* DELETE /groups/{id}/documents/{doc}.
RemoveDocumentFromGroup(d, g) ==
  /\ grants' = [grants EXCEPT ![d] = @ \ {g}]
  /\ UNCHANGED <<objects, rows, tasks, abandoned, faults>>

AdminNext ==
  \E d \in Docs :
    \/ UpdateDocument(d)
    \/ DeleteDocument(d)
    \/ \E g \in Groups : AddDocumentToGroup(d, g) \/ RemoveDocumentFromGroup(d, g)
=============================================================================
