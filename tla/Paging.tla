-------------------------------- MODULE Paging --------------------------------
(***************************************************************************)
(* The cursor-paginated listings of api/v1, read page by page while others *)
(* write the table: ORDER BY (time, id) DESC, LIMIT limit + 1, and a       *)
(* cursor that names the last row of the page (api/pagination.py).  A      *)
(* row's key stands for its time and its number for its id; roles are      *)
(* ordered by name the other way round, which changes nothing here.        *)
(***************************************************************************)
EXTENDS Integers, FiniteSets

CONSTANTS MaxRow,    \* rows are 1..MaxRow, their ids
          MaxKey,    \* Bound: times or names a row may have
          PageLimit  \* params.limit, 1 or more

ASSUME PagingAssumption ==
  MaxRow \in Nat \ {0} /\ MaxKey \in Nat \ {0} /\ PageLimit \in Nat \ {0}

VARIABLES listing,  \* the endpoint read
          key,      \* the key of each row of the table, 0 when not there
          copies,   \* for a document, how many of the caller's groups it is in
          cursor,   \* the next page's cursor, NoCursor or Done
          listed,   \* how often the reader has received each row
          steady,   \* history: rows there all along, unchanged
          squeezed  \* history: a page held one document several times

pageVars == <<listing, key, copies, cursor, listed, steady, squeezed>>

Rows == 1..MaxRow
Listings == {"users", "groups", "roles", "sync_jobs", "audit", "documents"}
Keys == 1..MaxKey
NoCursor == <<MaxKey + 1, 0>>
Done == <<0, 0>>
Present == {r \in Rows : key[r] # 0}

PageInit ==
  /\ listing \in Listings
  /\ key \in [Rows -> Keys \cup {0}]
  /\ copies \in {f \in [Rows -> 0..2] : listing = "documents" \/ \A r \in Rows : f[r] = 1}
  /\ cursor = NoCursor /\ listed = [r \in Rows |-> 0] /\ squeezed = FALSE
  /\ steady = Present
------------------------------------------------------------------------------
\* Plausible slip: the cursor is the time alone.
OlderThan(r, c) == key[r] < c[1]

Beyond(r, c) == key[r] < c[1] \/ (key[r] = c[1] /\ r < c[2])

Before(r, s) == key[r] > key[s] \/ (key[r] = key[s] /\ r > s)

\* What a statement over the table rows R gives: each as often as the join
\* repeats it.  LIMIT takes the first limit + 1 of them in the order of the
\* statement, and unique() one of each row, all whose first copy is taken.
SqlRows(R) == {x \in R \X (1..2) : x[2] <= copies[x[1]]}
Ahead(r, R) == {x \in SqlRows(R) : Before(x[1], r)}
Taken(R) == LET n == Cardinality(SqlRows(R)) IN IF n > PageLimit THEN PageLimit + 1 ELSE n
Unique(R) == {r \in R : Cardinality(Ahead(r, R)) <= PageLimit}

LastRow(R) == CHOOSE r \in R : \A s \in R \ {r} : Before(s, r)

\* rows[:limit] leaves out the last of limit + 1 rows.
Page(R) ==
  LET older == {r \in R : Beyond(r, cursor)}
      rows == Unique(older)
      more == Cardinality(rows) > PageLimit
      page == IF more THEN rows \ {LastRow(rows)} ELSE rows
  IN /\ cursor # Done
     /\ listed' = [r \in Rows |-> IF r \in page THEN listed[r] + 1 ELSE listed[r]]
     /\ cursor' = IF more THEN <<key[LastRow(page)], LastRow(page)>> ELSE Done
     /\ squeezed' = (squeezed \/ Cardinality(rows) < Taken(older))
     /\ UNCHANGED <<listing, key, copies, steady>>

ListUsers == listing = "users" /\ Page(Present)
ListGroups == listing = "groups" /\ Page(Present)
ListRoles == listing = "roles" /\ Page(Present)
ListSyncJobs == listing = "sync_jobs" /\ Page(Present)
ListAuditLogs == listing = "audit" /\ Page(Present)
ListDocuments == listing = "documents" /\ Page({r \in Present : copies[r] > 0})
------------------------------------------------------------------------------
\* A row is inserted; it may be committed after rows of later times.
Insert(r) ==
  /\ key[r] = 0
  /\ \E k \in Keys : key' = [key EXCEPT ![r] = k]
  /\ UNCHANGED <<listing, copies, cursor, listed, steady, squeezed>>

\* A document deleted is kept as a row but leaves the default listing; groups
\* and roles go for good.
Delete(r) ==
  /\ listing \in {"groups", "roles", "documents"}
  /\ key[r] # 0
  /\ key' = [key EXCEPT ![r] = 0] /\ steady' = steady \ {r}
  /\ UNCHANGED <<listing, copies, cursor, listed, squeezed>>

\* PATCH of a role gives it another name.
RenameRole(r) ==
  /\ listing = "roles" /\ key[r] # 0
  /\ \E k \in Keys \ {key[r]} : key' = [key EXCEPT ![r] = k]
  /\ steady' = steady \ {r}
  /\ UNCHANGED <<listing, copies, cursor, listed, squeezed>>

PageNext ==
  \/ ListUsers \/ ListGroups \/ ListRoles \/ ListSyncJobs \/ ListAuditLogs
  \/ ListDocuments
  \/ \E r \in Rows : /\ cursor # Done
                     /\ Insert(r) \/ Delete(r) \/ RenameRole(r)
------------------------------------------------------------------------------
PageTypeOK ==
  /\ listing \in Listings
  /\ key \in [Rows -> Keys \cup {0}] /\ copies \in [Rows -> 0..2]
  /\ cursor \in (0..MaxKey + 1) \X (0..MaxRow) /\ listed \in [Rows -> Nat]
  /\ steady \subseteq Rows /\ squeezed \in BOOLEAN

Missing == {r \in steady : copies[r] > 0 /\ listed[r] = 0}

\* A listing read to its end has every row that was there all along.
ListedAll == cursor = Done /\ ~squeezed => Missing = {}

\* No such row is listed twice.
ListedOnce == \A r \in steady : listed[r] <= 1

\* Rows may be written, renamed and deleted between two pages: what was there
\* all along is listed, and once, unless a page held a document of several of
\* the caller's groups (pagination.py:3-13, 66-101).
ListedRight == ListedAll /\ ListedOnce

\* What documents.py:150 says of the limit + 1: that more rows are detected.
DocumentsListed == cursor = Done => Missing = {}
==============================================================================
