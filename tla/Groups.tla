-------------------------------- MODULE Groups --------------------------------
(***************************************************************************)
(* The access groups of api/v1/groups.py and the users and documents in    *)
(* them, which decide what a query may see.  As in Administration, what a  *)
(* handler reads and what it commits are two steps; a refusal is none.     *)
(***************************************************************************)
EXTENDS FiniteSets

CONSTANTS GroupIds,
          GroupNames,
          People,   \* users that may be members
          Papers,   \* documents that may be members
          Editors   \* requests in flight at once

ASSUME GroupAssumption == "none" \notin GroupNames

VARIABLES gname,   \* of each group row, "none" when there is none
          members, \* the rows of user_groups and document_groups
          edit,    \* what each request has decided to write
          joined,  \* history: members that joined the group since that
          kept     \* history: who joined, was not removed, and did not join
                   \* a group whose deletion had been decided

groupVars == <<gname, members, edit, joined, kept>>

Members == People \cup Papers
NoEdit == [op |-> "none"]
Edits == [op : {"create", "rename"}, group : GroupIds, to : GroupNames]
         \cup [op : {"delete"}, group : GroupIds]
         \cup [op : {"add"}, group : GroupIds, who : Members]

GroupInit ==
  /\ gname = [g \in GroupIds |-> "none"]
  /\ members = {} /\ kept = {}
  /\ edit = [e \in Editors |-> NoEdit]
  /\ joined = [e \in Editors |-> {}]

Plans(e, r) ==
  /\ edit[e] = NoEdit /\ edit' = [edit EXCEPT ![e] = r]
  /\ UNCHANGED <<gname, members, joined, kept>>

Exists(g) == gname[g] # "none"
Taken(n) == \E g \in GroupIds : gname[g] = n
------------------------------------------------------------------------------
CreateGroup(e, g, n) ==
  /\ ~Exists(g) /\ ~Taken(n)
  /\ Plans(e, [op |-> "create", group |-> g, to |-> n])

UpdateGroup(e, g, n) ==
  /\ Exists(g) /\ ~Taken(n)
  /\ Plans(e, [op |-> "rename", group |-> g, to |-> n])

\* Plausible slip: documents do not count as use of the group.
DeleteUnlessPeople(e, g) ==
  /\ Exists(g) /\ \A m \in People : <<m, g>> \notin members
  /\ Plans(e, [op |-> "delete", group |-> g])

DeleteGroup(e, g) ==
  /\ Exists(g) /\ \A m \in Members : <<m, g>> \notin members
  /\ Plans(e, [op |-> "delete", group |-> g])

\* add_user_to_group, add_document_to_group
AddToGroup(e, g, m) ==
  /\ Exists(g)
  /\ Plans(e, [op |-> "add", group |-> g, who |-> m])

\* remove_user_from_group, remove_document_from_group: one statement.
RemoveFromGroup(g, m) ==
  /\ members' = members \ {<<m, g>>} /\ kept' = kept \ {<<m, g>>}
  /\ UNCHANGED <<gname, edit, joined>>
------------------------------------------------------------------------------
Commits(e) ==
  /\ edit' = [edit EXCEPT ![e] = NoEdit]
  /\ joined' = [q \in Editors |->
       IF q = e THEN {}
       ELSE IF edit[q].op = "delete"
            THEN joined[q] \cup {m \in Members : <<m, edit[q].group>> \in members' \ members}
            ELSE {}]

\* Who joins counts as kept, unless a deletion has been decided already.
Join(new) ==
  /\ members' = members \cup new
  /\ kept' = kept \cup new

WriteName(e) ==
  /\ edit[e].op \in {"create", "rename"}
  /\ gname' = IF ~Taken(edit[e].to) /\ (Exists(edit[e].group) <=> edit[e].op = "rename")
              THEN [gname EXCEPT ![edit[e].group] = edit[e].to] ELSE gname
  /\ UNCHANGED <<members, kept>>
  /\ Commits(e)

WriteAdd(e) ==
  /\ edit[e].op = "add"
  /\ Join(IF Exists(edit[e].group) THEN {<<edit[e].who, edit[e].group>>} ELSE {})
  /\ UNCHANGED gname
  /\ Commits(e)

\* invite_user puts the new user into those of the groups that exist.
InviteInto(p, G) ==
  /\ \A g \in GroupIds : <<p, g>> \notin members
  /\ Join({p} \X {g \in G : Exists(g)})
  /\ joined' = [q \in Editors |->
       IF edit[q].op = "delete" /\ edit[q].group \in G
       THEN joined[q] \cup {p} ELSE joined[q]]
  /\ UNCHANGED <<gname, edit>>

\* DELETE of the group, and of the memberships that refer to it.
WriteDeleteGroup(e) ==
  /\ edit[e].op = "delete"
  /\ LET g == edit[e].group
     IN /\ gname' = [gname EXCEPT ![g] = "none"]
        /\ members' = {m \in members : m[2] # g}
        /\ kept' = kept \ (joined[e] \X {g})
  /\ Commits(e)

GroupNext ==
  \/ \E e \in Editors, g \in GroupIds :
       \/ \E n \in GroupNames : CreateGroup(e, g, n) \/ UpdateGroup(e, g, n)
       \/ DeleteGroup(e, g)
       \/ \E m \in Members : AddToGroup(e, g, m)
  \/ \E e \in Editors : WriteName(e) \/ WriteAdd(e) \/ WriteDeleteGroup(e)
  \/ \E g \in GroupIds, m \in Members : RemoveFromGroup(g, m)
  \/ \E p \in People, G \in SUBSET GroupIds : InviteInto(p, G)

GroupSpec == GroupInit /\ [][GroupNext]_groupVars
------------------------------------------------------------------------------
GroupTypeOK ==
  /\ gname \in [GroupIds -> GroupNames \cup {"none"}]
  /\ members \subseteq Members \X GroupIds /\ kept \subseteq Members \X GroupIds
  /\ edit \in [Editors -> Edits \cup {NoEdit}]
  /\ joined \in [Editors -> SUBSET Members]

\* A membership ends by its removal only: the deletion of a group takes none
\* with it but those made after its count was zero (groups.py:239-257).
MembershipsKept == kept \subseteq members
==============================================================================
