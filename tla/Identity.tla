-------------------------------- MODULE Identity --------------------------------
(***************************************************************************)
(* Who may do what: the users and roles, the groups, and the accounts a    *)
(* workstation is signed in to.  The three share no state, so that, as in  *)
(* Standalone, every behaviour exercises one of them and the others rest.  *)
(* (Sessions, which has liveness to check, has a run of its own.)          *)
(***************************************************************************)
EXTENDS Administration, Groups, CommandLine

VARIABLE desk  \* the component this behaviour is of

Desks == {"admin", "groups", "cli"}

\* The state of the components that rest.
Others(d) ==
  /\ d # "admin" => UNCHANGED adminVars
  /\ d # "groups" => UNCHANGED groupVars
  /\ d # "cli" => UNCHANGED cliVars
  /\ UNCHANGED desk

Init ==
  /\ desk \in Desks
  /\ AdminInit /\ GroupInit /\ CliInit
  /\ desk # "admin" => \A r \in Roles \ {AdminId} : name[r] = "none"

Next ==
  \/ desk = "admin" /\ AdminNext /\ Others("admin")
  \/ desk = "groups" /\ GroupNext /\ Others("groups")
  \/ desk = "cli" /\ CliNext /\ Others("cli")

ivars == <<desk, adminVars, groupVars, cliVars>>

Spec == Init /\ [][Next]_ivars

TypeOK == AdminTypeOK /\ GroupTypeOK /\ CliTypeOK
==============================================================================
