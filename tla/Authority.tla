------------------------------- MODULE Authority -------------------------------
(***************************************************************************)
(* What Administration relies on in sign-in, and no more: a token says     *)
(* admin only if its user held that role at some moment before it was      *)
(* made.  Whether a token ends with the role is left open here:            *)
(* Administration lets it live on, as the code does, and                   *)
(* Sessions!RoleChangeEndsSession says what the documentation promises.    *)
(* Whether the user was active then is another question: login reads the   *)
(* status and the roles in two sessions.                                   *)
(***************************************************************************)

VARIABLES entitled, \* the user holds admin
          claimed   \* a sign-in or a live token says so

Init == entitled \in BOOLEAN /\ claimed = FALSE

Change == entitled' \in BOOLEAN /\ claimed' \in {claimed, FALSE}
Claim == entitled /\ claimed' = TRUE /\ UNCHANGED entitled
Lapse == claimed' = FALSE /\ UNCHANGED entitled

Next == Change \/ Claim \/ Lapse

Spec == Init /\ [][Next]_<<entitled, claimed>>
==============================================================================
