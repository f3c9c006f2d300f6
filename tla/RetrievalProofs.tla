---------------------------- MODULE RetrievalProofs ----------------------------
(***************************************************************************)
(* What answers cite was granted, and points match texts, for any          *)
(* documents, groups, users, queries in flight and lives of the cache.     *)
(***************************************************************************)
EXTENDS Retrieval, TLAPS

\* What a step has read of the grants was true of them then, and a grant that
\* is there is noted as such.
GrantsNoted == \A d \in Files :
  /\ grants[d] \subseteq shared[d]
  /\ \A i \in Deliveries : ingest[d][i].groups \subseteq shared[d]
  /\ point[d].groups \subseteq shared[d]
  /\ \A g \in grants[d] : since[d][g] = 0

\* A candidate may be shown to users of groups G for n ticks more.
Fit(c, G, n) ==
  /\ c.layer = "vector" => shared[c.file] \cap G # {}
  /\ c.layer = "keyword" => \E g \in G : since[c.file][g] + n <= CacheTTL

\* Time passes between queries only, so that what a query has found may be
\* cached for the whole life of an answer, and a cached one may be shown for
\* what is left of it.
QueriesFit == \A q \in Askers :
  /\ query[q].step \in {"idle", "lookup"} => query[q].found = {}
  /\ \A c \in query[q].found :
       Fit(c, query[q].groups, IF query[q].step = "answered" THEN 0 ELSE CacheTTL)
CacheFits == \A G \in SUBSET Circles : \A c \in cached[G].found : Fit(c, G, cached[G].timer)

\* Ingests and reembeddings of the same version may be at work on a document in
\* any number: each writes that version twice, or is about to.  Without an
\* ingest the point is of the text, and so is what a reembedding has read.
EvenAt(d) ==
  /\ \A i, j \in InFlight(d) : ingest[d][i].edition = ingest[d][j].edition
  /\ \A i \in InFlight(d) :
       /\ ingest[d][i].step = "persist" => point[d].edition = ingest[d][i].edition
       /\ reembed[d] # 0 => reembed[d] = ingest[d][i].edition
  /\ InFlight(d) = {} => /\ point[d].edition = text[d]
                         /\ reembed[d] # 0 => reembed[d] = text[d]
SameEdition == \A d \in Files \ uneven : EvenAt(d)

RetrievalInv == RetrievalTypeOK /\ GrantsNoted /\ QueriesFit /\ CacheFits /\ SameEdition

LEMMA RetrievalInitInv == RetrievalInit => RetrievalInv
<1> SUFFICES ASSUME RetrievalInit PROVE RetrievalInv
  OBVIOUS
<1>1. RetrievalTypeOK
  BY RetrievalAssumption
  DEF RetrievalInit, RetrievalTypeOK, Editions, NoQuery, NoIngest, Uncached
<1> QED
  BY <1>1 DEF RetrievalInit, RetrievalInv, GrantsNoted, QueriesFit, CacheFits, SameEdition, EvenAt,
     InFlight, NoQuery, NoIngest, Uncached

LEMMA MinOfTwo ==
  ASSUME NEW a \in Nat, NEW b \in Nat
  PROVE  Min({a, b}) = IF a <= b THEN a ELSE b
BY DEF Min

\* A state an ingest may be in.
Ingests == [step : {"none", "upsert", "persist"}, edition : Editions, groups : SUBSET Circles]

\* The fields of a row, of a query and of a cached answer.
LEMMA Fields ==
  ASSUME RetrievalTypeOK
  PROVE  /\ \A d \in Files :
              /\ ingest[d] \in [Deliveries -> Ingests]
              /\ point[d] \in [edition : Editions, groups : SUBSET Circles]
              /\ grants[d] \in SUBSET Circles /\ shared[d] \in SUBSET Circles
              /\ text[d] \in Editions /\ reembed[d] \in Editions
              /\ since[d] \in [Circles -> 0..CacheTTL + 1]
         /\ \A q \in Askers :
              query[q] \in [step : {"idle", "lookup", "search", "rank", "answered"},
                            groups : SUBSET Circles, todo : SUBSET {"vector", "keyword"},
                            found : SUBSET Sources]
         /\ \A G \in SUBSET Circles : cached[G] \in [timer : 0..CacheTTL, found : SUBSET Sources]
BY DEF RetrievalTypeOK, Ingests

\* What is fit for n ticks is fit for fewer, and stays so while no grant is
\* noted as older and no group is struck out.
LEMMA FitLasts ==
  ASSUME RetrievalTypeOK, NEW c \in Sources, NEW G \in SUBSET Circles, NEW n \in Nat,
         Fit(c, G, n), NEW m \in Nat,
         \A d \in Files : shared[d] \subseteq shared'[d],
         \A d \in Files, g \in Circles :
           since'[d][g] \in Nat /\ (since[d][g] + n <= CacheTTL => since'[d][g] + m <= CacheTTL)
  PROVE  Fit(c, G, m)'
BY DEF Fit, Sources
------------------------------------------------------------------------------
IndexTyped ==
  /\ text \in [Files -> Editions] /\ reembed \in [Files -> Editions]
  /\ point \in [Files -> [edition : Editions, groups : SUBSET Circles]]
  /\ ingest \in [Files -> [Deliveries -> Ingests]]
  /\ uneven \subseteq Files

\* A row may be replaced by another, and one of a document's ingests too.
LEMMA RowReplaced ==
  ASSUME NEW S, NEW f \in [Files -> S], NEW d \in Files, NEW r \in S
  PROVE  [f EXCEPT ![d] = r] \in [Files -> S]
OBVIOUS

LEMMA IngestReplaced ==
  ASSUME RetrievalTypeOK, NEW d \in Files, NEW i \in Deliveries, NEW r \in Ingests
  PROVE  /\ [ingest EXCEPT ![d][i] = r] \in [Files -> [Deliveries -> Ingests]]
         /\ \A e \in Files, j \in Deliveries :
              [ingest EXCEPT ![d][i] = r][e][j] = IF e = d /\ j = i THEN r ELSE ingest[e][j]
BY DEF RetrievalTypeOK, Ingests

LEMMA IndexTypes ==
  ASSUME RetrievalTypeOK, UNCHANGED <<query, cached, accessVars>>, IndexTyped'
  PROVE  RetrievalTypeOK'
BY DEF RetrievalTypeOK, IndexTyped, Ingests, accessVars

\* An ingest begins, moves or ends, and the documents other than its own are as
\* they were.
LEMMA IngestMoves ==
  ASSUME RetrievalInv, NEW d \in Files, NEW i \in Deliveries, NEW r \in Ingests,
         ingest' = [ingest EXCEPT ![d][i] = r], r.groups \subseteq shared[d],
         UNCHANGED <<query, cached, accessVars, reembed>>,
         text' \in [Files -> Editions], uneven' \subseteq Files,
         point' \in [Files -> [edition : Editions, groups : SUBSET Circles]],
         \A e \in Files : point'[e].groups \subseteq shared[e],
         \A e \in Files \ {d} : /\ text'[e] = text[e] /\ point'[e] = point[e]
                                /\ e \in uneven' <=> e \in uneven,
         d \in uneven' \/ EvenAt(d)'
  PROVE  RetrievalInv'
<1>0. RetrievalTypeOK /\ GrantsNoted /\ QueriesFit /\ CacheFits /\ SameEdition
  BY DEF RetrievalInv
<1>1. /\ ingest' \in [Files -> [Deliveries -> Ingests]]
      /\ \A e \in Files, j \in Deliveries :
           ingest'[e][j] = IF e = d /\ j = i THEN r ELSE ingest[e][j]
  BY <1>0, IngestReplaced
<1>2. RetrievalTypeOK'
  <2>1. IndexTyped'
    BY <1>0, <1>1 DEF IndexTyped, RetrievalTypeOK
  <2> QED
    BY <1>0, <2>1, IndexTypes
<1>3. GrantsNoted'
  BY <1>0, <1>1 DEF GrantsNoted, accessVars
<1>4. QueriesFit' /\ CacheFits'
  BY <1>0 DEF QueriesFit, CacheFits, Fit, accessVars
<1>5. ASSUME NEW e \in Files, e # d, e \notin uneven' PROVE EvenAt(e)'
  <2>1. EvenAt(e)
    BY <1>0, <1>5 DEF SameEdition
  <2>2. \A j \in Deliveries : ingest'[e][j] = ingest[e][j]
    BY <1>1, <1>5
  <2> QED
    BY <1>5, <2>1, <2>2 DEF EvenAt, InFlight
<1>6. SameEdition'
  BY <1>5 DEF SameEdition
<1> QED
  BY <1>2, <1>3, <1>4, <1>6 DEF RetrievalInv

LEMMA NoIngestTyped == NoIngest \in Ingests
BY RetrievalAssumption DEF NoIngest, Ingests, Editions

\* It begins alone, or with the version that all the others hold.
LEMMA IngestStartKeeps ==
  ASSUME RetrievalInv, NEW d \in Files, NEW i \in Deliveries, NEW v \in 1..MaxEdition,
         IngestStart(d, i, v)
  PROVE  RetrievalInv'
<1> DEFINE r == [step |-> "upsert", edition |-> v, groups |-> grants[d]]
<1>0. RetrievalTypeOK /\ GrantsNoted /\ SameEdition
  BY DEF RetrievalInv
<1>1. r \in Ingests /\ r.groups \subseteq shared[d]
  BY <1>0, Fields, RetrievalAssumption DEF Ingests, Editions, GrantsNoted
<1>2. \A j \in Deliveries : ingest'[d][j] = IF j = i THEN r ELSE ingest[d][j]
  BY <1>0, <1>1, IngestReplaced DEF IngestStart
<1>3. InFlight(d)' = InFlight(d) \cup {i} /\ i \notin InFlight(d)
  BY <1>2 DEF InFlight, IngestStart
<1>4. ASSUME d \notin uneven' PROVE EvenAt(d)'
  <2>1. CASE Held(d) = {}
    <3>1. InFlight(d) = {} /\ reembed[d] = 0
      BY <2>1 DEF Held
    <3> QED
      BY <1>2, <1>3, <3>1 DEF EvenAt, IngestStart
  <2>2. CASE Held(d) = {v} /\ d \notin uneven
    <3>1. \A j \in InFlight(d) : ingest[d][j].edition = v
      BY <2>2 DEF Held
    <3>2. reembed[d] # 0 => reembed[d] = v
      BY <2>2 DEF Held
    <3>3. EvenAt(d)
      BY <1>0, <2>2 DEF SameEdition
    <3> QED
      BY <1>2, <1>3, <3>1, <3>2, <3>3 DEF EvenAt, IngestStart
  <2> QED
    BY <1>4, <2>1, <2>2 DEF IngestStart
<1>5. /\ text' \in [Files -> Editions] /\ uneven' \subseteq Files
      /\ point' \in [Files -> [edition : Editions, groups : SUBSET Circles]]
      /\ \A e \in Files : point'[e].groups \subseteq shared[e]
  BY <1>0 DEF RetrievalTypeOK, GrantsNoted, IngestStart
<1>6. \A e \in Files \ {d} : /\ text'[e] = text[e] /\ point'[e] = point[e]
                             /\ e \in uneven' <=> e \in uneven
  BY DEF IngestStart
<1> QED
  BY <1>1, <1>4, <1>5, <1>6, IngestMoves DEF IngestStart

\* It writes its own version, which the others hold as well.
LEMMA IngestPointKeeps ==
  ASSUME RetrievalInv, NEW d \in Files, NEW i \in Deliveries, IngestPoint(d, i)
  PROVE  RetrievalInv'
<1> DEFINE r == [ingest[d][i] EXCEPT !.step = "persist"]
           p == [edition |-> ingest[d][i].edition, groups |-> ingest[d][i].groups]
<1>0. RetrievalTypeOK /\ GrantsNoted /\ SameEdition
  BY DEF RetrievalInv
<1>1. ingest[d][i] \in Ingests /\ ingest \in [Files -> [Deliveries -> Ingests]]
  BY <1>0 DEF RetrievalTypeOK, Ingests
<1>2. /\ r \in Ingests /\ r.groups = ingest[d][i].groups
      /\ r.edition = ingest[d][i].edition /\ r.step = "persist"
  BY <1>1 DEF Ingests
<1>3. r.groups \subseteq shared[d] /\ ingest' = [ingest EXCEPT ![d][i] = r]
  BY <1>0, <1>1, <1>2 DEF GrantsNoted, IngestPoint
<1>4. \A j \in Deliveries : ingest'[d][j] = IF j = i THEN r ELSE ingest[d][j]
  BY <1>0, <1>2, <1>3, IngestReplaced
<1>5. InFlight(d)' = InFlight(d) /\ i \in InFlight(d)
  BY <1>2, <1>4 DEF InFlight, IngestPoint
<1>6. /\ point' \in [Files -> [edition : Editions, groups : SUBSET Circles]]
      /\ \A e \in Files : point'[e] = IF e = d THEN p ELSE point[e]
  <2>1. p \in [edition : Editions, groups : SUBSET Circles]
    BY <1>1 DEF Ingests
  <2>2. point \in [Files -> [edition : Editions, groups : SUBSET Circles]]
    BY <1>0 DEF RetrievalTypeOK
  <2> QED
    BY <2>1, <2>2, RowReplaced DEF IngestPoint
<1>7. ASSUME d \notin uneven' PROVE EvenAt(d)'
  <2>1. EvenAt(d)
    BY <1>0, <1>7 DEF SameEdition, IngestPoint
  <2>2. point'[d].edition = ingest[d][i].edition
    BY <1>6
  <2> QED
    BY <1>2, <1>4, <1>5, <2>1, <2>2 DEF EvenAt, IngestPoint
<1>8. \A e \in Files : point'[e].groups \subseteq shared[e]
  BY <1>0, <1>6 DEF GrantsNoted
<1>9. text' \in [Files -> Editions] /\ uneven' \subseteq Files
  BY <1>0 DEF RetrievalTypeOK, IngestPoint
<1> QED
  BY <1>2, <1>3, <1>6, <1>7, <1>8, <1>9, IngestMoves DEF IngestPoint

\* The last to write the text of its version finds the point of that version.
LEMMA IngestEndKeeps ==
  ASSUME RetrievalInv, NEW d \in Files, NEW i \in Deliveries,
         IngestChunk(d, i) \/ IngestFails(d, i)
  PROVE  RetrievalInv'
<1>0. RetrievalTypeOK /\ GrantsNoted /\ SameEdition
  BY DEF RetrievalInv
<1>1. ingest' = [ingest EXCEPT ![d][i] = NoIngest] /\ NoIngest.groups \subseteq shared[d]
  BY DEF IngestChunk, IngestFails, NoIngest
<1>2. \A j \in Deliveries : ingest'[d][j] = IF j = i THEN NoIngest ELSE ingest[d][j]
  BY <1>0, <1>1, NoIngestTyped, IngestReplaced
<1>3. /\ UNCHANGED <<point, reembed, query, cached, accessVars>>
      /\ point' \in [Files -> [edition : Editions, groups : SUBSET Circles]]
      /\ \A e \in Files : point'[e].groups \subseteq shared[e]
      /\ uneven' \subseteq Files
  BY <1>0 DEF RetrievalTypeOK, GrantsNoted, IngestChunk, IngestFails
<1>4. /\ text' \in [Files -> Editions]
      /\ \A e \in Files \ {d} : text'[e] = text[e] /\ (e \in uneven' <=> e \in uneven)
  <2>1. ingest[d][i].edition \in Editions /\ text \in [Files -> Editions]
    BY <1>0, Fields DEF RetrievalTypeOK, Ingests
  <2> QED
    BY <2>1 DEF IngestChunk, IngestFails
<1>5. ASSUME d \notin uneven' PROVE EvenAt(d)'
  <2>1. IngestChunk(d, i) /\ EvenAt(d)
    BY <1>0, <1>5 DEF IngestFails, IngestChunk, SameEdition
  <2>2. i \in InFlight(d) /\ InFlight(d)' = InFlight(d) \ {i}
    BY <1>2, <2>1 DEF InFlight, IngestChunk, NoIngest
  <2>3. text'[d] = ingest[d][i].edition /\ point[d].edition = ingest[d][i].edition
    <3>1. text \in [Files -> Editions]
      BY <1>0 DEF RetrievalTypeOK
    <3>2. text'[d] = ingest[d][i].edition
      BY <2>1, <3>1 DEF IngestChunk
    <3>3. point[d].edition = ingest[d][i].edition
      BY <2>1, <2>2 DEF IngestChunk, EvenAt
    <3> QED
      BY <3>2, <3>3
  <2>4. \A j \in InFlight(d)' : j \in InFlight(d) /\ ingest'[d][j] = ingest[d][j]
    BY <1>2, <2>2 DEF InFlight
  <2>5. reembed[d] # 0 => reembed[d] = ingest[d][i].edition
    BY <2>1, <2>2 DEF EvenAt
  <2> QED
    BY <1>3, <2>1, <2>3, <2>4, <2>5 DEF EvenAt
<1> QED
  BY <1>1, <1>3, <1>4, <1>5, NoIngestTyped, IngestMoves

\* A reembedding writes what it has read, without groups, or does not.
LEMMA ReembedWriteKeeps ==
  ASSUME RetrievalInv, NEW d \in Files, ReembedWrite(d) PROVE RetrievalInv'
<1>0. RetrievalTypeOK /\ GrantsNoted /\ QueriesFit /\ CacheFits /\ SameEdition
  BY DEF RetrievalInv
<1>1. UNCHANGED <<text, ingest, uneven, query, cached, accessVars>>
  BY DEF ReembedWrite
<1> DEFINE p == [edition |-> reembed[d], groups |-> {}]
<1>2. /\ point' \in [Files -> [edition : Editions, groups : SUBSET Circles]]
      /\ \A e \in Files : point'[e] = point[e] \/ (e = d /\ point'[e] = p)
  <2>1. p \in [edition : Editions, groups : SUBSET Circles]
    BY <1>0, Fields
  <2>2. point \in [Files -> [edition : Editions, groups : SUBSET Circles]]
    BY <1>0 DEF RetrievalTypeOK
  <2>3. CASE UNCHANGED point
    BY <2>2, <2>3
  <2>4. CASE point' = [point EXCEPT ![d] = p]
    BY <2>1, <2>2, <2>4, RowReplaced
  <2> QED
    BY <2>3, <2>4 DEF ReembedWrite
<1>3. /\ reembed' \in [Files -> Editions]
      /\ \A e \in Files : reembed'[e] = IF e = d THEN 0 ELSE reembed[e]
  <2>1. 0 \in Editions /\ reembed \in [Files -> Editions]
    BY <1>0, RetrievalAssumption DEF Editions, RetrievalTypeOK
  <2> QED
    BY <2>1, RowReplaced DEF ReembedWrite
<1>4. RetrievalTypeOK'
  <2>1. IndexTyped'
    BY <1>0, <1>1, <1>2, <1>3 DEF RetrievalTypeOK, IndexTyped, Ingests
  <2> QED
    BY <1>0, <1>1, <2>1, IndexTypes
<1>5. GrantsNoted'
  <2>1. \A e \in Files : point'[e].groups \subseteq point[e].groups
    BY <1>2
  <2> QED
    BY <1>0, <1>1, <2>1 DEF GrantsNoted, accessVars
<1>6. QueriesFit' /\ CacheFits'
  BY <1>0, <1>1 DEF QueriesFit, CacheFits, Fit, accessVars
<1>7. ASSUME NEW e \in Files, e \notin uneven' PROVE EvenAt(e)'
  <2>1. EvenAt(e)
    BY <1>0, <1>1, <1>7 DEF SameEdition
  <2>2. CASE point'[e] = point[e]
    BY <1>1, <1>3, <2>1, <2>2 DEF EvenAt, InFlight
  <2>3. CASE e = d /\ point'[e] = p
    BY <1>1, <1>3, <2>1, <2>3 DEF EvenAt, InFlight, ReembedWrite
  <2> QED
    BY <1>2, <2>2, <2>3
<1>8. SameEdition'
  BY <1>7 DEF SameEdition
<1> QED
  BY <1>4, <1>5, <1>6, <1>8 DEF RetrievalInv

LEMMA ReembedReadKeeps ==
  ASSUME RetrievalInv, NEW D \in SUBSET Files, ReembedRead(D) PROVE RetrievalInv'
<1>0. RetrievalTypeOK /\ GrantsNoted /\ QueriesFit /\ CacheFits /\ SameEdition
  BY DEF RetrievalInv
<1>1. RetrievalTypeOK'
  <2>1. IndexTyped'
    <3>1. 0 \in Editions
      BY RetrievalAssumption DEF Editions
    <3>2. reembed' \in [Files -> Editions]
      BY <1>0, <3>1 DEF RetrievalTypeOK, ReembedRead
    <3> QED
      BY <1>0, <3>2 DEF RetrievalTypeOK, IndexTyped, Ingests, ReembedRead
  <2> QED
    BY <1>0, <2>1, IndexTypes DEF ReembedRead
<1>2. GrantsNoted' /\ QueriesFit' /\ CacheFits'
  BY <1>0 DEF GrantsNoted, QueriesFit, CacheFits, Fit, ReembedRead, accessVars
<1>3. ASSUME NEW d \in Files, d \notin uneven' PROVE EvenAt(d)'
  <2>1. EvenAt(d)
    BY <1>0, <1>3 DEF SameEdition, ReembedRead
  <2>2. CASE d \in D
    <3>1. reembed'[d] = text[d] /\ \A i \in InFlight(d) : ingest[d][i].edition = text[d]
      BY <1>3, <2>2 DEF ReembedRead
    <3> QED
      BY <2>1, <3>1 DEF EvenAt, InFlight, ReembedRead
  <2>3. CASE d \notin D
    <3>1. reembed'[d] = 0
      BY <2>3 DEF ReembedRead
    <3> QED
      BY <2>1, <3>1 DEF EvenAt, InFlight, ReembedRead
  <2> QED
    BY <2>2, <2>3
<1>4. SameEdition'
  BY <1>3 DEF SameEdition
<1> QED
  BY <1>1, <1>2, <1>4 DEF RetrievalInv

\* A grant that is given is noted, and one that is taken away is noted still.
LEMMA ShareFileKeeps ==
  ASSUME RetrievalInv, NEW d \in Files, NEW G \in SUBSET Circles, ShareFile(d, G)
  PROVE  RetrievalInv'
<1>0. RetrievalTypeOK /\ GrantsNoted /\ QueriesFit /\ CacheFits /\ SameEdition
  BY DEF RetrievalInv
<1>1. /\ grants' \in [Files -> SUBSET Circles]
      /\ shared' \in [Files -> SUBSET Circles]
      /\ since' \in [Files -> [Circles -> 0..CacheTTL + 1]]
  BY <1>0, RetrievalAssumption DEF RetrievalTypeOK, ShareFile
<1>2. /\ \A e \in Files : shared[e] \subseteq shared'[e]
      /\ \A e \in Files, g \in Circles : since'[e][g] \in {0, since[e][g]}
  BY <1>0 DEF RetrievalTypeOK, ShareFile
<1>3. RetrievalTypeOK'
  BY <1>0, <1>1 DEF RetrievalTypeOK, ShareFile, indexVars
<1>4. GrantsNoted'
  <2>1. ASSUME NEW e \in Files
        PROVE  grants'[e] \subseteq shared'[e] /\ \A g \in grants'[e] : since'[e][g] = 0
    BY <1>0 DEF GrantsNoted, RetrievalTypeOK, ShareFile
  <2> QED
    BY <1>0, <1>2, <2>1 DEF GrantsNoted, ShareFile, indexVars
<1>5. ASSUME NEW c \in Sources, NEW H \in SUBSET Circles, NEW n \in Nat, Fit(c, H, n)
      PROVE  Fit(c, H, n)'
  <2>1. \A e \in Files, g \in Circles : since[e][g] \in Nat
    BY <1>0, Fields, RetrievalAssumption
  <2>2. \A e \in Files, g \in Circles :
          since'[e][g] \in Nat /\ (since[e][g] + n <= CacheTTL => since'[e][g] + n <= CacheTTL)
    BY <1>2, <2>1, RetrievalAssumption
  <2> QED
    BY <1>0, <1>2, <1>5, <2>2, FitLasts
<1>6. QueriesFit' /\ CacheFits'
  <2>1. CacheTTL \in Nat
    BY RetrievalAssumption
  <2>2. QueriesFit'
    BY <1>0, <1>5, <2>1, Fields DEF QueriesFit, ShareFile
  <2>3. CacheFits'
    BY <1>0, <1>5, <2>1, Fields DEF CacheFits, ShareFile
  <2> QED
    BY <2>2, <2>3
<1>7. SameEdition'
  BY <1>0 DEF SameEdition, EvenAt, InFlight, ShareFile, indexVars
<1> QED
  BY <1>3, <1>4, <1>6, <1>7 DEF RetrievalInv

LEMMA MoveUserKeeps ==
  ASSUME RetrievalInv, NEW u \in Seekers, NEW G \in SUBSET Circles, MoveUser(u, G)
  PROVE  RetrievalInv'
<1>1. RetrievalTypeOK'
  BY DEF RetrievalInv, RetrievalTypeOK, MoveUser, indexVars
<1> QED
  BY <1>1 DEF RetrievalInv, GrantsNoted, QueriesFit, CacheFits, Fit, SameEdition, EvenAt, InFlight, MoveUser, indexVars
------------------------------------------------------------------------------
QueryStates ==
  [step : {"idle", "lookup", "search", "rank", "answered"}, groups : SUBSET Circles,
   todo : SUBSET {"vector", "keyword"}, found : SUBSET Sources]
\* A state a query may be in.
Sound(r) ==
  /\ r \in QueryStates
  /\ r.groups = {} => r.found = {}
  /\ r.step \in {"idle", "lookup"} => r.found = {}
  /\ \A c \in r.found : Fit(c, r.groups, IF r.step = "answered" THEN 0 ELSE CacheTTL)
\* An answer may be cached for a set of groups.
Storable(G, entry) ==
  /\ entry \in [timer : 0..CacheTTL, found : SUBSET Sources]
  /\ G = {} => entry.found = {}
  /\ \A c \in entry.found : Fit(c, G, entry.timer)

LEMMA SoundNow ==
  ASSUME RetrievalInv
  PROVE  /\ \A q \in Askers : Sound(query[q])
         /\ \A G \in SUBSET Circles : Storable(G, cached[G])
BY Fields DEF RetrievalInv, RetrievalTypeOK, QueriesFit, CacheFits, Sound, Storable, QueryStates

\* A query goes on to a sound state; the answer cached for its groups stays or
\* gives way to one that may be stored.
LEMMA ProceedKeeps ==
  ASSUME RetrievalInv, NEW q \in Askers, NEW r, Sound(r), Proceed(q, r),
         \/ UNCHANGED cached
         \/ \E G \in SUBSET Circles : \E entry :
              Storable(G, entry) /\ cached' = [cached EXCEPT ![G] = entry]
  PROVE  RetrievalInv'
<1>0. /\ RetrievalTypeOK /\ GrantsNoted /\ SameEdition
      /\ UNCHANGED <<accessVars, indexVars>> /\ query' = [query EXCEPT ![q] = r]
  BY DEF RetrievalInv, Proceed
<1>1. /\ query' \in [Askers -> QueryStates]
      /\ \A p \in Askers : Sound(query'[p])
  <2>1. query \in [Askers -> QueryStates] /\ r \in QueryStates
    BY <1>0 DEF RetrievalTypeOK, QueryStates, Sound
  <2> QED
    BY <1>0, <2>1, SoundNow
<1>2. /\ cached' \in [SUBSET Circles -> [timer : 0..CacheTTL, found : SUBSET Sources]]
      /\ \A G \in SUBSET Circles : Storable(G, cached'[G])
  <2>1. cached \in [SUBSET Circles -> [timer : 0..CacheTTL, found : SUBSET Sources]]
    BY <1>0 DEF RetrievalTypeOK
  <2>2. CASE UNCHANGED cached
    BY <2>1, <2>2, SoundNow
  <2>3. ASSUME NEW G \in SUBSET Circles, NEW entry, Storable(G, entry),
               cached' = [cached EXCEPT ![G] = entry]
        PROVE  /\ cached' \in [SUBSET Circles -> [timer : 0..CacheTTL, found : SUBSET Sources]]
               /\ \A H \in SUBSET Circles : Storable(H, cached'[H])
    <3>1. entry \in [timer : 0..CacheTTL, found : SUBSET Sources]
      BY <2>3 DEF Storable
    <3> QED
      BY <2>1, <2>3, <3>1, SoundNow
  <2> QED
    BY <2>2, <2>3
<1>3. RetrievalTypeOK'
  BY <1>0, <1>1, <1>2 DEF RetrievalTypeOK, Sound, Storable, QueryStates, accessVars, indexVars
<1>4. GrantsNoted' /\ SameEdition'
  BY <1>0 DEF GrantsNoted, SameEdition, EvenAt, InFlight, accessVars, indexVars
<1>5. QueriesFit' /\ CacheFits'
  BY <1>0, <1>1, <1>2 DEF QueriesFit, CacheFits, Sound, Storable, Fit, accessVars
<1> QED
  BY <1>3, <1>4, <1>5 DEF RetrievalInv

LEMMA NoQuerySound == Sound(NoQuery)
BY DEF Sound, NoQuery, QueryStates

LEMMA AskKeeps ==
  ASSUME RetrievalInv, NEW q \in Askers, NEW u \in Seekers, Ask(q, u) PROVE RetrievalInv'
<1>1. PICK step \in {"lookup", "search"} :
        Proceed(q, [step |-> step, groups |-> belongs[u],
                    todo |-> {"vector", "keyword"}, found |-> {}])
  BY DEF Ask
<1>2. Sound([step |-> step, groups |-> belongs[u], todo |-> {"vector", "keyword"}, found |-> {}])
  <2>1. belongs[u] \in SUBSET Circles
    BY DEF RetrievalInv, RetrievalTypeOK
  <2> QED
    BY <2>1 DEF Sound, QueryStates
<1> QED
  BY <1>1, <1>2, ProceedKeeps DEF Ask

LEMMA LookupKeeps ==
  ASSUME RetrievalInv, NEW q \in Askers, Lookup(q) PROVE RetrievalInv'
<1> DEFINE entry == cached[query[q].groups]
<1>1. Sound(query[q]) /\ query[q].found = {} /\ query[q].groups \in SUBSET Circles
  BY SoundNow DEF Lookup, Sound, QueryStates
<1>2. Storable(query[q].groups, entry)
  BY <1>1, SoundNow
<1>3. CASE entry.timer = 0
  <2>1. Sound([query[q] EXCEPT !.step = "search"])
    BY <1>1 DEF Sound, QueryStates
  <2> QED
    BY <1>3, <2>1, ProceedKeeps DEF Lookup
<1>4. CASE entry.timer # 0
  <2> DEFINE r == [query[q] EXCEPT !.step = "answered", !.found = entry.found]
  <2>1. r \in QueryStates /\ r.step = "answered" /\ r.groups = query[q].groups
        /\ r.found = entry.found
    BY <1>1, <1>2 DEF Sound, QueryStates, Storable
  <2>2. \A c \in entry.found : Fit(c, query[q].groups, 0)
    <3>1. entry.timer \in Nat /\ CacheTTL \in Nat
      BY <1>2, RetrievalAssumption DEF Storable
    <3>2. \A d \in Files, g \in Circles : since[d][g] \in Nat
      BY Fields, RetrievalAssumption DEF RetrievalInv
    <3> QED
      BY <1>1, <1>2, <3>1, <3>2 DEF Storable, Fit, Sources
  <2>3. Sound(r)
    BY <1>2, <2>1, <2>2 DEF Sound, Storable
  <2> QED
    BY <1>4, <2>3, ProceedKeeps DEF Lookup
<1> QED
  BY <1>3, <1>4

\* A search adds candidates that are fit for the whole life of an answer.
LEMMA FoundKeeps ==
  ASSUME RetrievalInv, NEW q \in Askers, NEW layer \in {"vector", "keyword"},
         NEW D \in SUBSET Files, Found(q, layer, D),
         \A d \in D : Fit([file |-> d, layer |-> layer], query[q].groups, CacheTTL)
  PROVE  RetrievalInv'
<1> DEFINE todo == query[q].todo \ {layer}
           new == {[file |-> d, layer |-> layer] : d \in D}
           r == [query[q] EXCEPT !.todo = todo, !.step = IF todo = {} THEN "rank" ELSE "search",
                                 !.found = @ \cup new]
<1>1. Sound(query[q]) /\ query[q].step = "search"
  BY SoundNow DEF Found
<1>2. new \subseteq Sources
  BY DEF Sources
<1>3. /\ r \in QueryStates /\ r.step \in {"rank", "search"}
      /\ r.groups = query[q].groups /\ r.found = query[q].found \cup new
  BY <1>1, <1>2 DEF Sound, QueryStates
<1>4. \A c \in r.found : Fit(c, r.groups, CacheTTL)
  BY <1>1, <1>3 DEF Sound
<1>5. r.groups = {} => r.found = {}
  <2>1. ASSUME NEW d \in D PROVE query[q].groups # {}
    BY DEF Fit
  <2> QED
    BY <1>1, <1>3, <2>1 DEF Sound
<1>6. Sound(r)
  BY <1>3, <1>4, <1>5 DEF Sound
<1> QED
  BY <1>6, ProceedKeeps DEF Found

LEMMA SearchesKeep ==
  ASSUME RetrievalInv, NEW q \in Askers, SearchVector(q) \/ SearchKeyword(q) PROVE RetrievalInv'
<1>0. query[q].groups \in SUBSET Circles /\ GrantsNoted /\ CacheTTL \in Nat
  BY Fields, RetrievalAssumption DEF RetrievalInv
<1>1. CASE SearchVector(q)
  <2> DEFINE D == {d \in Files : point[d].groups \cap query[q].groups # {}}
  <2>1. \A d \in D : Fit([file |-> d, layer |-> "vector"], query[q].groups, CacheTTL)
    BY <1>0 DEF Fit, GrantsNoted
  <2> QED
    BY <1>1, <2>1, FoundKeeps DEF SearchVector
<1>2. CASE SearchKeyword(q)
  <2> DEFINE D == {d \in Files : text[d] # 0 /\ grants[d] \cap query[q].groups # {}}
  <2>1. ASSUME NEW d \in D
        PROVE  Fit([file |-> d, layer |-> "keyword"], query[q].groups, CacheTTL)
    <3>1. PICK g \in query[q].groups : g \in grants[d]
      OBVIOUS
    <3>2. since[d][g] + CacheTTL <= CacheTTL
      BY <1>0, <3>1 DEF GrantsNoted
    <3> QED
      BY <3>1, <3>2 DEF Fit
  <2> QED
    BY <1>2, <2>1, FoundKeeps DEF SearchKeyword
<1> QED
  BY <1>1, <1>2

LEMMA ConcludeKeeps ==
  ASSUME RetrievalInv, NEW q \in Askers, Conclude(q) PROVE RetrievalInv'
<1>1. PICK C \in Ranked(query[q].found) :
        /\ cached' = [cached EXCEPT ![query[q].groups] = [timer |-> CacheTTL, found |-> C]]
        /\ Proceed(q, [query[q] EXCEPT !.found = C, !.step = "answered"])
  BY DEF Conclude
<1>2. C \subseteq query[q].found
  BY DEF Ranked, kSubset
<1>3. Sound(query[q]) /\ query[q].step = "rank"
  BY SoundNow DEF Conclude
<1>4. \A c \in C : Fit(c, query[q].groups, CacheTTL)
  BY <1>2, <1>3 DEF Sound
<1>5. \A c \in C : Fit(c, query[q].groups, 0)
  <2>1. \A d \in Files, g \in Circles : since[d][g] \in Nat
    BY Fields, RetrievalAssumption DEF RetrievalInv
  <2> QED
    BY <1>2, <1>3, <1>4, <2>1, RetrievalAssumption DEF Fit, Sound, QueryStates, Sources
<1>6. Sound([query[q] EXCEPT !.found = C, !.step = "answered"])
  BY <1>2, <1>3, <1>5 DEF Sound, QueryStates
<1>7. Storable(query[q].groups, [timer |-> CacheTTL, found |-> C])
  BY <1>2, <1>3, <1>4, RetrievalAssumption DEF Storable, Sound, QueryStates
<1>8. query[q].groups \in SUBSET Circles
  BY <1>3 DEF Sound, QueryStates
<1> QED
  BY <1>1, <1>6, <1>7, <1>8, ProceedKeeps

\* A tick takes from an answer's life what it may add to the age of a grant.
LEMMA LaterKeeps == ASSUME RetrievalInv, Later PROVE RetrievalInv'
<1>0. /\ RetrievalTypeOK /\ GrantsNoted /\ QueriesFit /\ CacheFits /\ SameEdition
      /\ UNCHANGED <<belongs, grants, shared, query, indexVars>>
  BY DEF RetrievalInv, Later
<1>1. ASSUME NEW d \in Files, NEW g \in Circles
      PROVE  /\ since[d][g] \in Nat /\ since'[d][g] \in 0..CacheTTL + 1
             /\ g \in grants[d] => since'[d][g] = 0
             /\ since'[d][g] <= since[d][g] + 1
  <2>1. since[d][g] \in 0..CacheTTL + 1 /\ CacheTTL \in Nat
    BY <1>0, Fields, RetrievalAssumption
  <2>2. since'[d][g] = IF g \in grants[d] THEN 0 ELSE Min({since[d][g] + 1, CacheTTL + 1})
    BY DEF Later
  <2>3. Min({since[d][g] + 1, CacheTTL + 1})
          = IF since[d][g] + 1 <= CacheTTL + 1 THEN since[d][g] + 1 ELSE CacheTTL + 1
    BY <2>1, MinOfTwo
  <2> QED
    BY <2>1, <2>2, <2>3
<1>2. since' \in [Files -> [Circles -> 0..CacheTTL + 1]]
  BY <1>1 DEF Later
<1>3. ASSUME NEW G \in SUBSET Circles PROVE Storable(G, cached[G])'
  <2>1. Storable(G, cached[G]) /\ CacheTTL \in Nat
    BY SoundNow, RetrievalAssumption
  <2>2. cached'[G] = IF cached[G].timer <= 1 THEN Uncached
                     ELSE [cached[G] EXCEPT !.timer = @ - 1]
    BY DEF Later
  <2>3. CASE cached[G].timer <= 1
    BY <2>1, <2>2, <2>3 DEF Storable, Uncached
  <2>4. CASE cached[G].timer > 1
    <3>1. /\ cached'[G] \in [timer : 0..CacheTTL, found : SUBSET Sources]
          /\ cached'[G].found = cached[G].found /\ cached'[G].timer = cached[G].timer - 1
      BY <2>1, <2>2, <2>4 DEF Storable
    <3>2. PICK n \in Nat, m \in Nat : n = cached[G].timer /\ m = n - 1 /\ n <= CacheTTL
      BY <2>1, <2>4 DEF Storable
    <3>3. \A d \in Files, g \in Circles :
            since'[d][g] \in Nat /\ (since[d][g] + n <= CacheTTL => since'[d][g] + m <= CacheTTL)
      <4>1. ASSUME NEW d \in Files, NEW g \in Circles, since[d][g] + n <= CacheTTL
            PROVE  since'[d][g] + m <= CacheTTL
        BY <1>1, <2>1, <3>2, <4>1
      <4> QED
        BY <1>1, <2>1, <4>1
    <3>4. ASSUME NEW c \in cached[G].found PROVE Fit(c, G, m)'
      <4>1. Fit(c, G, n) /\ c \in Sources
        BY <2>1, <3>2 DEF Storable
      <4> QED
        BY <1>0, <3>3, <4>1, FitLasts
    <3> QED
      BY <2>1, <3>1, <3>2, <3>4 DEF Storable
  <2> QED
    BY <2>1, <2>3, <2>4 DEF Storable
<1>4. RetrievalTypeOK'
  <2>1. cached' \in [SUBSET Circles -> [timer : 0..CacheTTL, found : SUBSET Sources]]
    BY <1>3 DEF Later, Storable
  <2>2. cached'[{}].found = {}
    BY <1>3 DEF Storable
  <2> QED
    BY <1>0, <1>2, <2>1, <2>2 DEF RetrievalTypeOK, indexVars
<1>5. GrantsNoted'
  <2>1. \A d \in Files : grants[d] \in SUBSET Circles
    BY <1>0, Fields
  <2> QED
    BY <1>0, <1>1, <2>1 DEF GrantsNoted, indexVars
<1>6. QueriesFit' /\ CacheFits'
  BY <1>0, <1>3 DEF QueriesFit, CacheFits, Storable, Later
<1>7. SameEdition'
  BY <1>0 DEF SameEdition, EvenAt, InFlight, indexVars
<1> QED
  BY <1>4, <1>5, <1>6, <1>7 DEF RetrievalInv

LEMMA RetrievalStep == RetrievalInv /\ [RetrievalNext]_retrievalVars => RetrievalInv'
<1> SUFFICES ASSUME RetrievalInv, [RetrievalNext]_retrievalVars PROVE RetrievalInv'
  OBVIOUS
<1>1. ASSUME NEW q \in Askers, Return(q) \/ Fails(q) PROVE RetrievalInv'
  BY <1>1, NoQuerySound, ProceedKeeps DEF Return, Fails
<1>2. ASSUME NEW q \in Askers,
             \/ \E u \in Seekers : Ask(q, u)
             \/ Lookup(q) \/ SearchVector(q) \/ SearchKeyword(q) \/ Conclude(q)
      PROVE  RetrievalInv'
  BY <1>2, AskKeeps, LookupKeeps, SearchesKeep, ConcludeKeeps
<1>3. CASE UNCHANGED retrievalVars
  <2>1. RetrievalTypeOK'
    BY <1>3 DEF retrievalVars, RetrievalInv, RetrievalTypeOK
  <2> QED
    BY <1>3, <2>1
    DEF retrievalVars, RetrievalInv, GrantsNoted, QueriesFit, CacheFits, Fit, SameEdition, EvenAt, InFlight
<1>4. ASSUME NEW d \in Files,
             \/ \E G \in SUBSET Circles : ShareFile(d, G)
             \/ \E i \in Deliveries :
                  \/ \E v \in 1..MaxEdition : IngestStart(d, i, v)
                  \/ IngestPoint(d, i) \/ IngestChunk(d, i) \/ IngestFails(d, i)
             \/ ReembedWrite(d)
      PROVE  RetrievalInv'
  BY <1>4, ShareFileKeeps, IngestStartKeeps, IngestPointKeeps, IngestEndKeeps, ReembedWriteKeeps
<1> QED
  BY <1>1, <1>2, <1>3, <1>4, ReembedReadKeeps, MoveUserKeeps, LaterKeeps DEF RetrievalNext

LEMMA RetrievalAlways == RetrievalSpec => []RetrievalInv
BY RetrievalInitInv, RetrievalStep, PTL DEF RetrievalSpec

\* Rows, points, queries and cached answers keep their types, and nobody
\* without a group is shown anything (retrieval/pipeline.py, retrieval/cache.py).
THEOREM RetrievalTypeCorrect == RetrievalSpec => []RetrievalTypeOK
<1>1. RetrievalInv => RetrievalTypeOK
  BY DEF RetrievalInv
<1> QED
  BY RetrievalAlways, <1>1, PTL

\* Whatever an answer cites was granted to a group of the user's: by keyword
\* no longer ago than a cached answer lives, by vector at some time
\* (pipeline.py:155-190, cache.py:34-110, hybrid_search.py:107-190).
THEOREM CitationsGranted == RetrievalSpec => []CitedWasGranted
<1>1. RetrievalInv => CitedWasGranted
  <2> SUFFICES ASSUME RetrievalInv, NEW q \in Askers, query[q].step = "answered",
                      NEW c \in query[q].found
               PROVE  IF c.layer = "keyword"
                      THEN \E g \in query[q].groups : since[c.file][g] <= CacheTTL
                      ELSE shared[c.file] \cap query[q].groups # {}
    BY DEF CitedWasGranted
  <2>1. /\ Fit(c, query[q].groups, 0) /\ c \in Sources /\ query[q].groups \in SUBSET Circles
        /\ \A d \in Files, g \in Circles : since[d][g] \in Nat
    BY SoundNow, Fields, RetrievalAssumption DEF Sound, RetrievalInv, QueryStates
  <2> QED
    BY <2>1 DEF Fit, Sources
<1> QED
  BY RetrievalAlways, <1>1, PTL

\* A document at rest has the point of its text, however many ingests and
\* reembeddings of one version overlapped; unless, since an ingest last began
\* alone, one was cut short or two writers held different versions
\* (tasks/ingest.py:130-180, indexer.py:160-219).
THEOREM PointsMatchTexts == RetrievalSpec => []PointMatchesText
<1>1. RetrievalInv => PointMatchesText
  BY DEF RetrievalInv, SameEdition, EvenAt, PointMatchesText
<1> QED
  BY RetrievalAlways, <1>1, PTL
==============================================================================
