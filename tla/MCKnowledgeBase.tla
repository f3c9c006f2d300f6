--------------------------- MODULE MCKnowledgeBase ---------------------------
(***************************************************************************)
(* Constants for model checking KnowledgeBase.                             *)
(***************************************************************************)
EXTENDS KnowledgeBase, TLC

\* Workers run the same program and hold no state but their task.
WorkerSymmetry == Permutations(Workers)
RunSymmetry == WorkerSymmetry \cup Permutations(Runs)

\* The first version of a document has one chunk, the second two.
Growing == [d \in Docs |-> [v \in Versions |-> IF v = 0 THEN 0 ELSE v]]

\* The first has two chunks, the second one.
Shrinking == [d \in Docs |-> [v \in Versions |-> IF v = 1 THEN 2 ELSE IF v = 0 THEN 0 ELSE 1]]
=============================================================================
