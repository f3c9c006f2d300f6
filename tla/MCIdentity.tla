------------------------------ MODULE MCIdentity ------------------------------
(* Values of the constants for the run of Identity.  The three components     *)
(* share the model values, for no set of theirs meets another's in the same   *)
(* behaviour; so three transpositions permute all there is to permute.        *)
EXTENDS Identity, TLC

CONSTANTS x1, x2,  \* users, groups, accounts
          p1, p2,  \* what runs at once
          n1, n2   \* names: of roles that are not static, and of groups

MCThings == {x1, x2}
MCProcesses == {p1, p2}
MCNames == {n1, n2}
MCRoleNames == {"admin", n1, n2}
MCStaticNames == {"admin"}

\* A token pair that is neither stored nor in a command's memory never is again,
\* and nothing looks at it: states that differ in such pairs are one.
MCView == <<desk, adminVars, groupVars, index, keyring, [n \in Held |-> owner[n]], Len(owner),
            lapsed \cap Held, ended \cap Held, command, mixed, refused>>

Symmetric == Permutations(MCThings) \cup Permutations(MCProcesses) \cup Permutations(MCNames)
==============================================================================
