---------------------------- MODULE NotionListing ----------------------------
(***************************************************************************)
(* NotionConnector.list_changes of sources/notion.py, run after run: the   *)
(* search results are turned page by page and filtered by the stored       *)
(* cursor, the latest edit time seen, which Notion gives to the minute.    *)
(* Notion (external) lists what was edited last first, and its next_cursor *)
(* names the page to go on from.                                           *)
(***************************************************************************)
EXTENDS Naturals, FiniteSets, Sequences, SequencesExt

CONSTANTS NotionPages,  \* the pages the integration sees
          PageSize,     \* results per response
          MaxMinute,    \* Bound: the last minute
          MaxEdits      \* Bound: edits made

\* Without pages there is nothing to list.
ASSUME NotionAssumption ==
  /\ IsFiniteSet(NotionPages) /\ NotionPages # {}
  /\ PageSize \in Nat \ {0} /\ MaxMinute \in Nat \ {0} /\ MaxEdits \in Nat

VARIABLES minute,    \* the time
          edits,     \* edits made so far
          edited,    \* last_edited_time of each page
          order,     \* the search results, as Notion would give them now
          stored,    \* the cursor of the last run that ended well
          turning,   \* a listing is in progress
          from,      \* start_cursor: the page to go on from
          latest,    \* max_modified of the listing
          found,     \* what it has listed, page and edit time
          synced,    \* history: the latest edit of each page handed over
          moved,     \* history: pages edited while the listing turned
          gaps       \* history: pages whose last edit no run will list

notionVars == <<minute, edits, edited, order, stored, turning, from, latest, found,
                synced, moved, gaps>>

Orders == {s \in [1..Cardinality(NotionPages) -> NotionPages] : IsInjective(s)}

NotionInit ==
  /\ minute = 1 /\ edits = 0
  /\ edited = [p \in NotionPages |-> 1]
  /\ order \in Orders
  /\ stored = 0 /\ turning = FALSE /\ from = 0 /\ latest = 0 /\ found = {}
  /\ synced = [p \in NotionPages |-> 0]
  /\ moved = {} /\ gaps = {}
------------------------------------------------------------------------------
NextMinute ==
  /\ minute < MaxMinute /\ minute' = minute + 1
  /\ UNCHANGED <<edits, edited, order, stored, turning, from, latest, found, synced, moved, gaps>>

\* The n-th element of s before the others.
InFront(s, n) ==
  [i \in DOMAIN s |-> IF i = 1 THEN s[n] ELSE IF i <= n THEN s[i - 1] ELSE s[i]]

\* An edit puts the page in front of the results.  One made in the minute
\* that is stored as the cursor already is not newer than it.
Edit(p) ==
  /\ edits < MaxEdits /\ edits' = edits + 1
  /\ edited' = [edited EXCEPT ![p] = minute]
  /\ \E n \in DOMAIN order : order[n] = p /\ order' = InFront(order, n)
  /\ moved' = IF turning THEN moved \cup {p} ELSE moved
  /\ gaps' = IF minute <= stored THEN gaps \cup {p}
             ELSE IF turning THEN gaps ELSE gaps \ {p}
  /\ UNCHANGED <<minute, stored, turning, from, latest, found, synced>>

Begin ==
  /\ ~turning /\ turning' = TRUE
  /\ from' = order[1] /\ latest' = stored /\ found' = {} /\ moved' = {}
  /\ UNCHANGED <<minute, edits, edited, order, stored, synced, gaps>>

\* The results of one request, and the page its next_cursor names.
Start == CHOOSE i \in DOMAIN order : order[i] = from
End == IF Start + PageSize > Len(order) THEN Len(order) ELSE Start + PageSize - 1
Results == {<<order[i], edited[order[i]]>> : i \in Start..End}
Newer == {r \in Results : r[2] > stored}
Latest == IF \E r \in Newer : r[2] > latest
          THEN CHOOSE t \in 1..minute : /\ \E r \in Newer : r[2] = t
                                       /\ \A r \in Newer : r[2] <= t
          ELSE latest

TurnPage ==
  /\ turning /\ End < Len(order)
  /\ found' = found \cup Newer /\ latest' = Latest
  /\ from' = order[End + 1]
  /\ UNCHANGED <<minute, edits, edited, order, stored, turning, synced, moved, gaps>>

\* The last page: the run hands over what was found and stores the cursor.
\* What was edited meanwhile may have moved past the listing with an edit
\* time no later than the cursor.
Finish ==
  /\ turning /\ End = Len(order)
  /\ LET all == found \cup Newer
         last(p) == {r[2] : r \in {r \in all : r[1] = p}}
         listed == {p \in NotionPages : edited[p] \in last(p)}
     IN /\ synced' = [p \in NotionPages |-> IF p \in listed THEN edited[p] ELSE synced[p]]
        /\ gaps' = (gaps \cup moved) \ listed
  /\ stored' = Latest /\ turning' = FALSE
  /\ from' = 0 /\ latest' = 0 /\ found' = {} /\ moved' = {}
  /\ UNCHANGED <<minute, edits, edited, order>>

\* Plausible slip: a listing cut short keeps the cursor it has come to.
FailStores ==
  /\ turning /\ turning' = FALSE
  /\ stored' = latest
  /\ from' = 0 /\ latest' = 0 /\ found' = {} /\ moved' = {}
  /\ UNCHANGED <<minute, edits, edited, order, synced, gaps>>

\* 401, 429 or any other error ends the listing, with no cursor to store.
Fail ==
  /\ turning /\ turning' = FALSE
  /\ from' = 0 /\ latest' = 0 /\ found' = {} /\ moved' = {}
  /\ UNCHANGED <<minute, edits, edited, order, stored, synced, gaps>>

NotionNext ==
  \/ NextMinute \/ Begin \/ TurnPage \/ Finish \/ Fail
  \/ \E p \in NotionPages : Edit(p)
------------------------------------------------------------------------------
NotionTypeOK ==
  /\ minute \in 1..MaxMinute /\ edits \in 0..MaxEdits
  /\ edited \in [NotionPages -> 1..minute]
  /\ order \in Orders
  /\ stored \in 0..minute /\ latest \in 0..minute
  /\ from \in NotionPages \cup {0}
  /\ found \subseteq NotionPages \X (1..minute)
  /\ synced \in [NotionPages -> 0..minute]
  /\ moved \subseteq NotionPages /\ gaps \subseteq NotionPages

\* Between listings, the last edit of a page was handed over, or is newer
\* than the stored cursor and so will be, except for an edit in the very
\* minute of the cursor and one that moved its page while a listing turned
\* (notion.py:98-136).
NothingSkipped ==
  ~turning => \A p \in NotionPages \ gaps : synced[p] = edited[p] \/ edited[p] > stored
==============================================================================
