------------------------------ MODULE Standalone ------------------------------
(***************************************************************************)
(* Seven components that share no state, each with whatever runs at once     *)
(* inside it: the circuit breaker, a rate limit, the token bucket, the     *)
(* stream of a job, a listing of the API, the listing of Notion and the    *)
(* chunker.  As none can see a step of another, interleaving them adds     *)
(* nothing: every behaviour here exercises one of them, and the others     *)
(* rest.                                                                   *)
(***************************************************************************)
EXTENDS CircuitBreaker, RateLimit, TokenBucket, JobStream, Paging, NotionListing,
        Chunker

VARIABLE part  \* the component this behaviour is of

Parts == {"breaker", "limit", "bucket", "stream", "listing", "notion", "chunker"}

\* The state of the components that rest.
Rest(p) ==
  /\ p # "breaker" => UNCHANGED breakerVars
  /\ p # "limit" => UNCHANGED limitVars
  /\ p # "bucket" => UNCHANGED bucketVars
  /\ p # "stream" => UNCHANGED streamVars
  /\ p # "listing" => UNCHANGED pageVars
  /\ p # "notion" => UNCHANGED notionVars
  /\ p # "chunker" => UNCHANGED chunkVars
  /\ p \notin {"breaker", "limit", "bucket"} => UNCHANGED now
  /\ UNCHANGED part

Init ==
  /\ part \in Parts /\ now = 0
  /\ part # "listing" => listing = "users" /\ key = [r \in Rows |-> 0]
  /\ part # "notion" => order = CHOOSE o \in Orders : TRUE
  /\ BreakerInit /\ LimitInit /\ BucketInit /\ StreamInit
  /\ PageInit /\ NotionInit
  /\ IF part = "chunker" THEN ChunkInit ELSE ChunkStart(<<>>)

Next ==
  \/ part = "breaker" /\ BreakerNext /\ Rest("breaker")
  \/ part = "limit" /\ LimitNext /\ Rest("limit")
  \/ part = "bucket" /\ BucketNext /\ Rest("bucket")
  \/ part = "stream" /\ StreamNext /\ Rest("stream")
  \/ part = "listing" /\ PageNext /\ Rest("listing")
  \/ part = "notion" /\ NotionNext /\ Rest("notion")
  \/ part = "chunker" /\ ChunkNext /\ Rest("chunker")

svars == <<part, now, breakerVars, limitVars, bucketVars, streamVars, pageVars, notionVars,
           chunkVars>>

Spec == Init /\ [][Next]_svars /\ StreamFairness

TypeOK == /\ BreakerTypeOK /\ LimitTypeOK /\ BucketTypeOK
          /\ StreamTypeOK /\ PageTypeOK /\ NotionTypeOK
          /\ ChunkTypeOK
==============================================================================
