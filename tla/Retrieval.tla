------------------------------- MODULE Retrieval -------------------------------
(***************************************************************************)
(* The read path: retrieval/pipeline.py with the semantic cache and the    *)
(* two searches, over storage that ingests, reembeddings and administrators *)
(* change between its steps.  One question is asked, in one language, by   *)
(* users with whatever groups they have by then; a document has one chunk. *)
(* Each call to PostgreSQL, Qdrant, Redis or the model is a step, and any  *)
(* of them may raise.                                                      *)
(***************************************************************************)
EXTENDS Naturals, FiniteSets, FiniteSetsExt

CONSTANTS
  Files,     \* documents
  Circles,   \* access groups
  Seekers,   \* users
  Askers,    \* queries in flight at once
  Deliveries, \* ingests of one document at once: nothing locks them out
  TopK,      \* candidates kept by the reranker
  CacheTTL,  \* life of a cached answer, in ticks (24 hours)
  MaxEdition \* Bound: versions of a document

ASSUME RetrievalAssumption ==
  TopK \in Nat \ {0} /\ CacheTTL \in Nat \ {0} /\ MaxEdition \in Nat \ {0}

VARIABLES
  belongs,  \* user_groups
  grants,   \* document_groups
  text,     \* chunks: the version of each document's text, 0 for no row
  point,    \* Qdrant: version and group_ids of each document's point
  ingest,   \* the ingests of each document that are under way
  reembed,  \* the versions a reembedding has read and not yet written
  query,    \* what each query is doing
  cached,   \* the answer Redis has for each set of groups, and its timer
  shared,   \* history: groups each document was ever in
  since,    \* history: ticks since each grant was last there, to CacheTTL + 1
  uneven    \* history: documents of which an ingest was cut short, or two
            \* writers held different versions, since one last began alone

retrievalVars == <<belongs, grants, text, point, ingest, reembed, query, cached,
                   shared, since, uneven>>
indexVars == <<text, point, ingest, reembed, uneven>>
accessVars == <<belongs, grants, shared, since>>

Editions == 0..MaxEdition
\* What merge_rrf tells apart.
Sources == [file : Files, layer : {"vector", "keyword"}]
NoQuery == [step |-> "idle", groups |-> {}, todo |-> {}, found |-> {}]
Uncached == [timer |-> 0, found |-> {}]
NoIngest == [step |-> "none", edition |-> 0, groups |-> {}]

InFlight(d) == {i \in Deliveries : ingest[d][i].step # "none"}
\* The versions that writers of a document hold.
Held(d) == {ingest[d][i].edition : i \in InFlight(d)} \cup ({reembed[d]} \ {0})

RetrievalInit ==
  /\ belongs = [u \in Seekers |-> {}]
  /\ grants = [d \in Files |-> {}]
  /\ text = [d \in Files |-> 0]
  /\ point = [d \in Files |-> [edition |-> 0, groups |-> {}]]
  /\ ingest = [d \in Files |-> [i \in Deliveries |-> NoIngest]]
  /\ reembed = [d \in Files |-> 0]
  /\ query = [q \in Askers |-> NoQuery]
  /\ cached = [G \in SUBSET Circles |-> Uncached]
  /\ shared = [d \in Files |-> {}]
  /\ since = [d \in Files |-> [g \in Circles |-> CacheTTL + 1]]
  /\ uneven = {}
------------------------------------------------------------------------------
\* The handlers of Groups and Documents, as far as a query can tell.
ShareFile(d, G) ==
  /\ grants' = [grants EXCEPT ![d] = G] /\ G # grants[d]
  /\ shared' = [shared EXCEPT ![d] = @ \cup G]
  /\ since' = [since EXCEPT ![d] = [g \in Circles |-> IF g \in G THEN 0 ELSE @[g]]]
  /\ UNCHANGED <<belongs, query, cached, indexVars>>

MoveUser(u, G) ==
  /\ belongs' = [belongs EXCEPT ![u] = G] /\ G # belongs[u]
  /\ UNCHANGED <<grants, shared, since, query, cached, indexVars>>

\* ingest_document reads the groups, writes the point, then the chunk
\* (Ingestion has the steps before and after).  It takes no lock, so that a sync
\* run's ingest, an upload's and one delivered again overlap, each with the
\* bytes it found, which may be older than those of the one before.
IngestStart(d, i, v) ==
  /\ ingest[d][i].step = "none"
  /\ ingest' = [ingest EXCEPT ![d][i] = [step |-> "upsert", edition |-> v, groups |-> grants[d]]]
  /\ uneven' = IF Held(d) = {} THEN uneven \ {d}
               ELSE IF Held(d) = {v} THEN uneven ELSE uneven \cup {d}
  /\ UNCHANGED <<text, point, reembed, query, cached, accessVars>>

IngestPoint(d, i) ==
  /\ ingest[d][i].step = "upsert"
  /\ point' = [point EXCEPT ![d] = [edition |-> ingest[d][i].edition,
                                    groups |-> ingest[d][i].groups]]
  /\ ingest' = [ingest EXCEPT ![d][i].step = "persist"]
  /\ UNCHANGED <<text, reembed, uneven, query, cached, accessVars>>

\* Plausible slip: ON CONFLICT DO NOTHING.
IngestChunkOnce(d, i) ==
  /\ ingest[d][i].step = "persist"
  /\ text' = [text EXCEPT ![d] = IF @ = 0 THEN ingest[d][i].edition ELSE @]
  /\ ingest' = [ingest EXCEPT ![d][i] = NoIngest]
  /\ UNCHANGED <<point, reembed, uneven, query, cached, accessVars>>

IngestChunk(d, i) ==
  /\ ingest[d][i].step = "persist"
  /\ text' = [text EXCEPT ![d] = ingest[d][i].edition]
  /\ ingest' = [ingest EXCEPT ![d][i] = NoIngest]
  /\ UNCHANGED <<point, reembed, uneven, query, cached, accessVars>>

IngestFails(d, i) ==
  /\ ingest[d][i].step # "none"
  /\ ingest' = [ingest EXCEPT ![d][i] = NoIngest]
  /\ uneven' = uneven \cup {d}
  /\ UNCHANGED <<text, point, reembed, query, cached, accessVars>>

\* reembed_all and reembed_one read the texts of some chunks in one query.
ReembedRead(D) ==
  /\ D # {} /\ \A d \in Files : reembed[d] = 0
  /\ \A d \in D : text[d] # 0
  /\ reembed' = [d \in Files |-> IF d \in D THEN text[d] ELSE 0]
  /\ uneven' = uneven \cup {d \in D : \E i \in InFlight(d) : ingest[d][i].edition # text[d]}
  /\ UNCHANGED <<text, point, ingest, query, cached, accessVars>>

\* Their points are written batch by batch, with no group_ids; a worker that
\* is killed leaves the rest as it is.
ReembedWrite(d) ==
  /\ reembed[d] # 0
  /\ \/ point' = [point EXCEPT ![d] = [edition |-> reembed[d], groups |-> {}]]
     \/ UNCHANGED point
  /\ reembed' = [reembed EXCEPT ![d] = 0]
  /\ UNCHANGED <<text, ingest, uneven, query, cached, accessVars>>
------------------------------------------------------------------------------
Proceed(q, r) == query' = [query EXCEPT ![q] = r] /\ UNCHANGED <<accessVars, indexVars>>

\* _load_user: the groups, read once.  bypass_cache skips the lookup only.
Ask(q, u) ==
  /\ query[q] = NoQuery
  /\ \E step \in {"lookup", "search"} :
       Proceed(q, [step |-> step, groups |-> belongs[u],
                   todo |-> {"vector", "keyword"}, found |-> {}])
  /\ UNCHANGED cached

\* Plausible slip: a hit extends the answer's life.
LookupRenews(q) ==
  LET entry == cached[query[q].groups]
  IN /\ query[q].step = "lookup"
     /\ Proceed(q, IF entry.timer = 0 THEN [query[q] EXCEPT !.step = "search"]
                   ELSE [query[q] EXCEPT !.step = "answered", !.found = entry.found])
     /\ cached' = IF entry.timer = 0 THEN cached
                  ELSE [cached EXCEPT ![query[q].groups].timer = CacheTTL]

\* SemanticCache.get: the key is the question, the sorted groups and the language.
Lookup(q) ==
  LET entry == cached[query[q].groups]
  IN /\ query[q].step = "lookup"
     /\ Proceed(q, IF entry.timer = 0 THEN [query[q] EXCEPT !.step = "search"]
                   ELSE [query[q] EXCEPT !.step = "answered", !.found = entry.found])
     /\ UNCHANGED cached

\* One of the two searches that run at once ends, with what it found.
Found(q, layer, D) ==
  /\ query[q].step = "search" /\ layer \in query[q].todo
  /\ LET todo == query[q].todo \ {layer}
     IN Proceed(q, [query[q] EXCEPT
          !.todo = todo, !.step = IF todo = {} THEN "rank" ELSE "search",
          !.found = @ \cup {[file |-> d, layer |-> layer] : d \in D}])
  /\ UNCHANGED cached

\* search_vector: any group_id in common; without groups Qdrant is not asked.
SearchVector(q) ==
  Found(q, "vector", {d \in Files : point[d].groups \cap query[q].groups # {}})

\* Plausible slip: the LIMIT is taken before the join with document_groups.
SearchKeywordUnjoined(q) ==
  Found(q, "keyword", {d \in Files : text[d] # 0})

\* search_keyword joins chunks and document_groups, whatever the status is.
SearchKeyword(q) ==
  Found(q, "keyword", {d \in Files : text[d] # 0 /\ grants[d] \cap query[q].groups # {}})

\* rerank: the TopK best, by scores that may put any of them first.
Ranked(found) == kSubset(Min({TopK, Cardinality(found)}), found)

\* merge_rrf, hydrate_text_from_db and arerank: a point's id is not its row's,
\* so that what both searches found stays twice.  Without candidates that is
\* the answer; otherwise the model writes one, citing all it gets.  Up to here
\* nothing shared is touched; then SemanticCache.set stores either answer.
Conclude(q) ==
  /\ query[q].step = "rank"
  /\ \E C \in Ranked(query[q].found) :
       /\ cached' = [cached EXCEPT ![query[q].groups] = [timer |-> CacheTTL, found |-> C]]
       /\ Proceed(q, [query[q] EXCEPT !.found = C, !.step = "answered"])

Return(q) ==
  /\ query[q].step = "answered"
  /\ Proceed(q, NoQuery) /\ UNCHANGED cached

\* The embedder, the model, or a call to any of the stores.
Fails(q) ==
  /\ query[q].step \in {"lookup", "search", "rank"}
  /\ Proceed(q, NoQuery) /\ UNCHANGED cached

\* A query takes no time, compared with the life of an answer: time passes
\* when none has searched already.
Later ==
  /\ \A q \in Askers : query[q].step = "idle"
  /\ cached' = [G \in SUBSET Circles |->
       IF cached[G].timer <= 1 THEN Uncached ELSE [cached[G] EXCEPT !.timer = @ - 1]]
  /\ since' = [d \in Files |-> [g \in Circles |->
       IF g \in grants[d] THEN 0 ELSE Min({since[d][g] + 1, CacheTTL + 1})]]
  /\ UNCHANGED <<belongs, grants, shared, query, indexVars>>

RetrievalNext ==
  \/ \E d \in Files :
       \/ \E G \in SUBSET Circles : ShareFile(d, G)
       \/ \E i \in Deliveries :
            \/ \E v \in 1..MaxEdition : IngestStart(d, i, v)
            \/ IngestPoint(d, i) \/ IngestChunk(d, i) \/ IngestFails(d, i)
       \/ ReembedWrite(d)
  \/ \E D \in SUBSET Files : ReembedRead(D)
  \/ \E u \in Seekers, G \in SUBSET Circles : MoveUser(u, G)
  \/ \E q \in Askers :
       \/ \E u \in Seekers : Ask(q, u)
       \/ Lookup(q) \/ SearchVector(q) \/ SearchKeyword(q) \/ Conclude(q)
       \/ Return(q) \/ Fails(q)
  \/ Later

RetrievalSpec == RetrievalInit /\ [][RetrievalNext]_retrievalVars
------------------------------------------------------------------------------
RetrievalTypeOK ==
  /\ belongs \in [Seekers -> SUBSET Circles] /\ grants \in [Files -> SUBSET Circles]
  /\ text \in [Files -> Editions] /\ reembed \in [Files -> Editions]
  /\ point \in [Files -> [edition : Editions, groups : SUBSET Circles]]
  /\ ingest \in [Files -> [Deliveries ->
       [step : {"none", "upsert", "persist"}, edition : Editions, groups : SUBSET Circles]]]
  /\ query \in [Askers -> [step : {"idle", "lookup", "search", "rank", "answered"},
                           groups : SUBSET Circles, todo : SUBSET {"vector", "keyword"},
                           found : SUBSET Sources]]
  /\ cached \in [SUBSET Circles -> [timer : 0..CacheTTL, found : SUBSET Sources]]
  /\ cached[{}].found = {} /\ \A q \in Askers : query[q].groups = {} => query[q].found = {}
  /\ shared \in [Files -> SUBSET Circles]
  /\ since \in [Files -> [Circles -> 0..CacheTTL + 1]]
  /\ uneven \subseteq Files

\* Whatever an answer cites, computed or cached, was granted to a group that
\* the user had on asking: by keyword, less than a cached answer's life ago, so
\* that no later lookup extends it; by vector, at some time, although the point
\* keeps the groups of its ingest and reembedding writes points of its own
\* (pipeline.py:155-190, cache.py:34-110, hybrid_search.py:107-190).
CitedWasGranted ==
  \A q \in Askers : query[q].step = "answered" =>
    \A c \in query[q].found :
      IF c.layer = "keyword"
      THEN \E g \in query[q].groups : since[c.file][g] <= CacheTTL
      ELSE shared[c.file] \cap query[q].groups # {}

\* When no ingest and no reembedding is at work on a document, its point is of
\* the text it has, however many of them overlapped: unless, since one last
\* began alone, one was cut short or two held different versions of it
\* (tasks/ingest.py:130-180, indexer.py:160-219).
PointMatchesText ==
  \A d \in Files \ uneven :
    InFlight(d) = {} /\ reembed[d] = 0 => point[d].edition = text[d]

\* What pipeline/indexer.py:23 says of a failed ingest: that "the PG / Qdrant
\* state is left consistent".
LeftConsistent ==
  \A d \in Files : InFlight(d) = {} /\ reembed[d] = 0 => point[d].edition = text[d]

\* What docs/system-architecture.md:194 says of cached answers: that they are
\* invalidated on re-index.
CacheFollowsIndex ==
  [][\A d \in Files : (\E i \in Deliveries : IngestChunk(d, i)) =>
       \A G \in SUBSET Circles : \A c \in cached'[G].found : c.file # d]_retrievalVars
==============================================================================
