------------------------------ MODULE MCRetrieval ------------------------------
(* The queries in flight run the same code, and so do the ingests. *)
EXTENDS Retrieval, TLC

Symmetric == Permutations(Askers) \cup Permutations(Deliveries)

\* Bound: how many queries and ingests are at work at once; a reembedding may
\* run beside them.
AtWork ==
  Cardinality({q \in Askers : query[q] # NoQuery})
    + Cardinality(UNION {{d} \X InFlight(d) : d \in Files}) <= 2
==============================================================================
