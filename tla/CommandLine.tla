----------------------------- MODULE CommandLine -----------------------------
(***************************************************************************)
(* The kg commands of one workstation: cli/knowgate_cli/client.py and      *)
(* auth.py.  Commands of several terminals share the system keyring and    *)
(* the credential index, a file that is read and written as a whole; each  *)
(* keeps the tokens it began with in memory and renews them on a 401.  A   *)
(* pair of tokens is known by a number.                                    *)
(***************************************************************************)
EXTENDS Naturals, Sequences, SequencesExt

CONSTANTS Accounts,  \* emails on this API URL
          NoAccount,
          Commands,  \* terminals
          MaxPairs   \* Bound: token pairs issued

ASSUME CommandAssumption == NoAccount \notin Accounts /\ MaxPairs \in Nat

VARIABLES index,    \* credential_index.json
          keyring,  \* the pair stored for each account, 0 for none
          owner,    \* the account each pair issued was issued to
          lapsed,   \* pairs whose access token has expired
          ended,    \* pairs whose refresh token has expired, or is of a user
                    \* that is no longer active
          command,  \* what each terminal runs
          mixed,    \* history: the index and the keyring were changed across
                    \* one another, or a change was cut short
          refused   \* history: a 401 came back to a pair that could be renewed

cliVars == <<index, keyring, owner, lapsed, ended, command, mixed, refused>>

Issued == 1..Len(owner)
\* Nothing is kept of a pair that is neither stored nor in a command's memory.
Held == {n \in Issued : \/ \E e \in Accounts : keyring[e] = n
                         \/ \E c \in Commands : command[c].pair = n}
\* as: the account and pair of make_getter; to: the account logged in or out.
Running(does, at, as, pair, to) ==
  [does |-> does, at |-> at, as |-> as, pair |-> pair, to |-> to,
   retried |-> FALSE, seen |-> <<>>]
NoCommand == Running("none", "idle", NoAccount, 0, NoAccount)

CliInit ==
  /\ index = <<>> /\ keyring = [e \in Accounts |-> 0]
  /\ owner = <<>> /\ lapsed = {} /\ ended = {}
  /\ command = [c \in Commands |-> NoCommand]
  /\ mixed = FALSE /\ refused = FALSE

First == IF index = <<>> THEN NoAccount ELSE index[1]
At(c, does, at) == command[c].does \in does /\ command[c].at = at
Now(c, at) == command' = [command EXCEPT ![c].at = at]
Finish(c) == command' = [command EXCEPT ![c] = NoCommand]
------------------------------------------------------------------------------
\* make_getter: the first account of the index, and what is stored for it.
Begin(c, does, to) ==
  /\ command[c] = NoCommand
  /\ command' = [command EXCEPT ![c] =
       Running(does, "send", First, IF First = NoAccount THEN 0 ELSE keyring[First], to)]
  /\ UNCHANGED <<index, keyring, owner, lapsed, ended, mixed, refused>>

Ask(c) == Begin(c, "ask", NoAccount)
LogIn(c, e) == Begin(c, "login", e)

\* logout of a named account, or of the first: no request is made.
LogOut(c, e) ==
  /\ command[c] = NoCommand
  /\ command' = [command EXCEPT ![c] = Running("logout", "clear", NoAccount, 0, e)]
  /\ UNCHANGED <<index, keyring, owner, lapsed, ended, mixed, refused>>

Renewable(n) == n # 0 /\ n \notin ended

\* A 401: the first one is tried to be mended, the second is reported.
Unauthorized(c) ==
  IF command[c].retried
  THEN /\ refused' = (refused \/ (command[c].does = "ask" /\ Renewable(command[c].pair)))
       /\ Finish(c)
  ELSE Now(c, "refresh") /\ UNCHANGED refused

\* _request, answered by the API or not at all.
Asked(c) ==
  /\ At(c, {"ask"}, "send")
  /\ IF command[c].pair = 0 \/ command[c].pair \in lapsed
     THEN Unauthorized(c)
     ELSE Finish(c) /\ UNCHANGED refused
  /\ UNCHANGED <<index, keyring, owner, lapsed, ended, mixed>>

Unanswered(c) ==
  /\ \E at \in {"send", "refresh"} : At(c, {"ask", "login"}, at)
  /\ Finish(c)
  /\ UNCHANGED <<index, keyring, owner, lapsed, ended, mixed, refused>>

LoginRefused(c) ==
  /\ At(c, {"login"}, "send")
  /\ Unauthorized(c)
  /\ UNCHANGED <<index, keyring, owner, lapsed, ended, mixed>>

\* login: the pair goes to the keyring, then the account to the index.
LoginAccepted(c) ==
  /\ At(c, {"login"}, "send")
  /\ Len(owner) < MaxPairs
  /\ owner' = Append(owner, command[c].to)
  /\ keyring' = [keyring EXCEPT ![command[c].to] = Len(owner')]
  /\ command' = [command EXCEPT ![c] = Running("login", "read", NoAccount, 0, command[c].to)]
  /\ UNCHANGED <<index, lapsed, ended, mixed, refused>>

\* Plausible slip: the new pair is stored for the account that is first now.
RenewedForFirst(c) ==
  /\ command[c].at = "refresh" /\ Len(owner) < MaxPairs
  /\ Renewable(command[c].pair)
  /\ owner' = Append(owner, owner[command[c].pair])
  /\ keyring' = [e \in Accounts |-> IF e = First THEN Len(owner') ELSE keyring[e]]
  /\ command' = [command EXCEPT ![c].at = "send", ![c].retried = TRUE,
                                ![c].pair = Len(owner')]
  /\ UNCHANGED <<index, lapsed, ended, mixed, refused>>

\* _try_refresh, and set_tokens under the account of this command, with the
\* keyring's leave.
Renewed(c) ==
  /\ command[c].at = "refresh" /\ Len(owner) < MaxPairs
  /\ Renewable(command[c].pair)
  /\ owner' = Append(owner, owner[command[c].pair])
  /\ keyring' \in {keyring, [keyring EXCEPT ![command[c].as] = Len(owner')]}
  /\ command' = [command EXCEPT ![c].at = "send", ![c].retried = TRUE,
                                ![c].pair = Len(owner')]
  /\ UNCHANGED <<index, lapsed, ended, mixed, refused>>

\* Plausible slip: a pair is renewed only while it is the one stored.
RefusedUnlessStored(c) ==
  /\ command[c].at = "refresh"
  /\ ~Renewable(command[c].pair) \/ \A e \in Accounts : keyring[e] # command[c].pair
  /\ refused' = (refused \/ (command[c].does = "ask" /\ Renewable(command[c].pair)))
  /\ Finish(c)
  /\ UNCHANGED <<index, keyring, owner, lapsed, ended, mixed>>

\* (The refresh token of a login is used while its access token lives.)
NotRenewed(c) ==
  /\ command[c].at = "refresh"
  /\ command[c].does = "ask" => ~Renewable(command[c].pair)
  /\ Finish(c)
  /\ UNCHANGED <<index, keyring, owner, lapsed, ended, mixed, refused>>
------------------------------------------------------------------------------
\* logout clears the keyring first.  A login of the same account may be
\* between its own two writes.
Clear(c) ==
  /\ At(c, {"logout"}, "clear")
  /\ keyring' = [keyring EXCEPT ![command[c].to] = 0]
  /\ mixed' = (mixed \/ \E d \in Commands : /\ At(d, {"login"}, "read") \/ At(d, {"login"}, "write")
                                            /\ command[d].to = command[c].to)
  /\ Now(c, "read")
  /\ UNCHANGED <<index, owner, lapsed, ended, refused>>

\* _all_accounts: login stops here when the account is listed already.
ReadIndex(c) ==
  /\ At(c, {"login", "logout"}, "read")
  /\ IF command[c].does = "login" /\ Contains(index, command[c].to)
     THEN Finish(c)
     ELSE command' = [command EXCEPT ![c].at = "write", ![c].seen = index]
  /\ UNCHANGED <<index, keyring, owner, lapsed, ended, mixed, refused>>

\* Plausible slip: only the keyring is cleared.
LeaveIndex(c) ==
  /\ At(c, {"login", "logout"}, "write")
  /\ index' = IF command[c].does = "login" THEN Append(command[c].seen, command[c].to)
              ELSE index
  /\ mixed' = (mixed \/ command[c].seen # index)
  /\ Finish(c)
  /\ UNCHANGED <<keyring, owner, lapsed, ended, refused>>

\* _add_to_index, _remove_from_index: the file is written from what was read,
\* which lists no account twice.
WriteIndex(c) ==
  /\ At(c, {"login", "logout"}, "write")
  /\ LET seen == command[c].seen
         to == command[c].to
     IN index' = IF command[c].does = "login" THEN Append(seen, to)
                 ELSE RemoveFirst(seen, to)
  /\ mixed' = (mixed \/ command[c].seen # index)
  /\ Finish(c)
  /\ UNCHANGED <<keyring, owner, lapsed, ended, refused>>

\* The user interrupts a command.
Interrupt(c) ==
  /\ command[c] # NoCommand
  /\ mixed' = (mixed \/ command[c].at \in {"read", "write"})
  /\ Finish(c)
  /\ UNCHANGED <<index, keyring, owner, lapsed, ended, refused>>

\* Access tokens expire after 15 minutes, not on the way of a retry.
ExpireAccess(n) ==
  /\ n \notin lapsed /\ lapsed' = lapsed \cup {n}
  /\ \A c \in Commands : ~(At(c, {"ask"}, "send") /\ command[c].retried /\ command[c].pair = n)
  /\ UNCHANGED <<index, keyring, owner, ended, command, mixed, refused>>

\* After seven days, or when the user is suspended or deleted.  (Until the
\* access token has expired too, a command hardly notices.)
EndPair(n) ==
  /\ n \in lapsed \ ended /\ ended' = ended \cup {n}
  /\ UNCHANGED <<index, keyring, owner, lapsed, command, mixed, refused>>

CliNext ==
  \/ \E c \in Commands :
       \/ Ask(c) \/ \E e \in Accounts : LogIn(c, e) \/ LogOut(c, e)
       \/ Asked(c) \/ Unanswered(c) \/ LoginRefused(c) \/ LoginAccepted(c)
       \/ Renewed(c) \/ NotRenewed(c)
       \/ Clear(c) \/ ReadIndex(c) \/ WriteIndex(c) \/ Interrupt(c)
  \/ \E n \in Held : ExpireAccess(n) \/ EndPair(n)
------------------------------------------------------------------------------
CliTypeOK ==
  /\ index \in Seq(Accounts) /\ IsInjective(index) /\ owner \in Seq(Accounts)
  /\ keyring \in [Accounts -> 0..Len(owner)]
  /\ lapsed \subseteq Issued /\ ended \subseteq lapsed
  /\ command \in [Commands ->
       [does : {"none", "ask", "login", "logout"},
        at : {"idle", "send", "refresh", "clear", "read", "write"},
        as : Accounts \cup {NoAccount}, pair : 0..Len(owner),
        to : Accounts \cup {NoAccount}, retried : BOOLEAN, seen : Seq(Accounts)]]
  /\ mixed \in BOOLEAN /\ refused \in BOOLEAN

\* No pair is stored under another account than its own, whoever signs in or
\* out while a command that renews its tokens is under way (auth.py:203-226).
OwnTokens == \A e \in Accounts : keyring[e] # 0 => owner[keyring[e]] = e

\* A command whose pair can be renewed is not turned away with a 401, though
\* another terminal has renewed the same pair (client.py:186-241).
RenewableServed == ~refused

\* An account of the index has its tokens in the keyring, so that the first
\* one does not bar the others, unless it is being logged out or changes ran
\* across each other or were cut short (auth.py:114-187, 276-302).
IndexBacked ==
  ~mixed => \A e \in ToSet(index) :
    keyring[e] # 0 \/ \E c \in Commands : command[c].does = "logout" /\ command[c].to = e
==============================================================================
