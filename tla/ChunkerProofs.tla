---------------------------- MODULE ChunkerProofs ----------------------------
(***************************************************************************)
(* The chunks of a document, read one after the other, are its text, for   *)
(* any sections, cap and overlap.                                          *)
(***************************************************************************)
EXTENDS Chunker, FiniteSetTheorems, WellFoundedInduction, TLAPS

LEMMA LeastNumber ==
  ASSUME NEW S \in SUBSET Nat, S # {}
  PROVE  \E n \in S : \A m \in S : n <= m
<1>1. PICK n \in S : \A m \in S : ~(<<m, n>> \in OpToRel(<, Nat))
  BY WFMin, NatLessThanWellFounded
<1>2. ASSUME NEW m \in S PROVE n <= m
  <2>1. ~(<<m, n>> \in {ss \in Nat \X Nat : ss[1] < ss[2]})
    BY <1>1 DEF OpToRel
  <2>2. <<m, n>> \in Nat \X Nat /\ <<m, n>>[1] = m /\ <<m, n>>[2] = n
    OBVIOUS
  <2>3. ~(m < n)
    BY <2>1, <2>2
  <2> QED
    BY <2>3
<1> QED
  BY <1>2

LEMMA GreatestNumber ==
  ASSUME NEW bound \in Nat, NEW S \in SUBSET (0..bound), S # {}
  PROVE  \E n \in S : \A m \in S : m <= n
<1> DEFINE far == {bound - m : m \in S}
<1>1. far \in SUBSET Nat /\ far # {}
  <2>1. \A m \in S : m \in 0..bound /\ bound - m \in Nat
    OBVIOUS
  <2> QED
    BY <2>1
<1>2. PICK f \in far : \A g \in far : f <= g
  BY <1>1, LeastNumber
<1>3. PICK n \in S : f = bound - n
  BY <1>2
<1>4. \A m \in S : m <= n
  BY <1>2, <1>3
<1> QED
  BY <1>4

(***************************************************************************)
(* The ends of a text.                                                     *)
(***************************************************************************)
LEMMA Places ==
  ASSUME NEW bound \in Nat, NEW t \in SUBSET (1..bound)
  PROVE  IsFiniteSet(t) /\ t \subseteq Nat /\ t \subseteq 0..bound
<1>1. 1 \in Int /\ bound \in Int
  OBVIOUS
<1>2. IsFiniteSet(1..bound)
  BY <1>1, FS_Interval
<1>3. t \subseteq 1..bound /\ IsFiniteSet(t)
  BY <1>2, FS_Subset
<1>4. ASSUME NEW i \in t PROVE i \in Nat /\ i \in 0..bound
  BY <1>3
<1> QED
  BY <1>3, <1>4

\* The last n places of a text are no more than n.
LEMMA LastIsShort ==
  ASSUME NEW bound \in Nat, NEW t \in SUBSET (1..bound), NEW n \in Nat
  PROVE  IsFiniteSet(LastOf(n, t)) /\ Cardinality(LastOf(n, t)) <= n
<1> DEFINE F == LastOf(n, t)
<1>1. IsFiniteSet(t) /\ F \subseteq t /\ IsFiniteSet(F) /\ t \subseteq Nat /\ t \subseteq 0..bound
  BY Places, FS_Subset DEF LastOf
<1>2. CASE F = {}
  BY <1>1, <1>2, FS_EmptySet
<1>3. CASE F # {}
  <2>1. F \in SUBSET Nat
    BY <1>1
  <2>2. PICK e \in F : \A i \in F : e <= i
    BY <1>3, <2>1, LeastNumber
  <2> DEFINE since == {j \in t : j >= e}
  <2>3. F \subseteq since /\ IsFiniteSet(since) /\ Cardinality(since) <= n
    BY <1>1, <2>2, FS_Subset DEF LastOf
  <2>4. Cardinality(F) <= Cardinality(since)
    BY <2>3, FS_Subset
  <2>5. Cardinality(F) \in Nat /\ Cardinality(since) \in Nat
    BY <1>1, <2>3, FS_CardinalityType
  <2> HIDE DEF since, F
  <2> QED
    BY <1>1, <2>3, <2>4, <2>5 DEF F
<1> QED
  BY <1>2, <1>3

\* What is in front of a place of the first characters is one of them.
LEMMA HardCutIsFront ==
  ASSUME NEW bound \in Nat, NEW t \in SUBSET (1..bound), MaxTokens \in Nat,
         NEW i \in HardCut(t), NEW j \in t, j < i
  PROVE  j \in HardCut(t)
<1> DEFINE less == {k \in t : k <= j /\ Token(k) # "more"}
           more == {k \in t : k <= i /\ Token(k) # "more"}
<1>1. IsFiniteSet(t) /\ t \subseteq Nat
  BY Places
<1>2. i \in t /\ IsFiniteSet(more) /\ Cardinality(more) <= MaxTokens
  BY <1>1, FS_Subset DEF HardCut
<1>3. less \subseteq more /\ IsFiniteSet(less)
  <2>1. ASSUME NEW k \in less PROVE k \in more
    <3>1. k \in Nat /\ i \in Nat /\ j \in Nat
      BY <1>1, <1>2
    <3> QED
      BY <3>1
  <2> QED
    BY <1>2, <2>1, FS_Subset
<1>4. Cardinality(less) <= Cardinality(more)
  BY <1>2, <1>3, FS_Subset
<1>5. Cardinality(less) \in Nat /\ Cardinality(more) \in Nat
  BY <1>2, <1>3, FS_CardinalityType
<1>6. Cardinality(less) <= MaxTokens
  <2> HIDE DEF less, more
  <2> QED
    BY <1>2, <1>4, <1>5
<1> QED
  BY <1>6 DEF HardCut

\* What is behind a last place is one too.
LEMMA LastIsBack ==
  ASSUME NEW bound \in Nat, NEW t \in SUBSET (1..bound), NEW n \in Nat,
         NEW i \in LastOf(n, t), NEW j \in t, i < j
  PROVE  j \in LastOf(n, t)
<1> DEFINE less == {k \in t : k >= j}
           more == {k \in t : k >= i}
<1>1. IsFiniteSet(t) /\ t \subseteq Nat
  BY Places
<1>2. i \in t /\ IsFiniteSet(more) /\ Cardinality(more) <= n
  BY <1>1, FS_Subset DEF LastOf
<1>3. less \subseteq more /\ IsFiniteSet(less)
  <2>1. ASSUME NEW k \in less PROVE k \in more
    <3>1. k \in Nat /\ i \in Nat /\ j \in Nat
      BY <1>1, <1>2
    <3> QED
      BY <3>1
  <2> QED
    BY <1>2, <2>1, FS_Subset
<1>4. Cardinality(less) <= Cardinality(more)
  BY <1>2, <1>3, FS_Subset
<1>5. Cardinality(less) \in Nat /\ Cardinality(more) \in Nat
  BY <1>2, <1>3, FS_CardinalityType
<1>6. Cardinality(less) <= n
  <2> HIDE DEF less, more
  <2> QED
    BY <1>2, <1>4, <1>5
<1> QED
  BY <1>6 DEF LastOf

\* A text that fits is its own first places, and what is put behind a tail
\* is not cut off with it.
LEMMA FittingIsLast ==
  ASSUME NEW bound \in Nat, NEW t \in SUBSET (1..bound), NEW p \in SUBSET t, NEW n \in Nat,
         Cardinality(p) <= n, \A i \in p, j \in t \ p : j < i
  PROVE  p \subseteq LastOf(n, t)
<1> SUFFICES ASSUME NEW i \in p PROVE Cardinality({j \in t : j >= i}) <= n
  BY DEF LastOf
<1> DEFINE since == {j \in t : j >= i}
<1>1. IsFiniteSet(t) /\ t \subseteq Nat
  BY Places
<1>0. IsFiniteSet(p) /\ since \subseteq p
  <2>1. ASSUME NEW j \in since PROVE j \in p
    <3>1. j \in Nat /\ i \in Nat
      BY <1>1
    <3> QED
      BY <3>1
  <2>2. IsFiniteSet(p)
    BY <1>1, FS_Subset
  <2> QED
    BY <2>1, <2>2
<1>2. IsFiniteSet(since) /\ Cardinality(since) <= Cardinality(p)
  BY <1>0, FS_Subset
<1>3. Cardinality(since) \in Nat /\ Cardinality(p) \in Nat
  BY <1>0, <1>2, FS_CardinalityType
<1> HIDE DEF since
<1>4. Cardinality(since) <= n
  BY <1>2, <1>3
<1> QED
  BY <1>4 DEF since

(***************************************************************************)
(* The invariant.                                                          *)
(***************************************************************************)
Chunked == Covered(here, Len(chunks))

\* What is under way is cut out of one section, and no chunk is ahead of it.
InPlace ==
  /\ splits # <<>> => here <= Len(sections)
  /\ splits = <<>> => tail = {}
  /\ here <= Len(sections) =>
       /\ tail \subseteq DOMAIN sections[here]
       /\ \A k \in DOMAIN splits : splits[k] \subseteq DOMAIN sections[here]
  /\ \A c \in DOMAIN chunks : /\ chunks[c].section <= here
                              /\ splits = <<>> => chunks[c].section < here

\* What the calls have left lies behind what is chunked, and the more so the
\* further out the call.
InOrder ==
  \A k \in DOMAIN splits : \A i \in splits[k] :
    /\ \A m \in DOMAIN splits : \A j \in splits[m] : k < m => j < i
    /\ \A j \in tail : j < i
    /\ \A j \in Chunked : j < i

\* A letter is chunked or still in one of the texts left.
NothingLost ==
  splits # <<>> /\ here \notin overfull =>
    \A i \in Letters(here) : i \in Chunked \/ \E k \in DOMAIN splits : i \in splits[k]

\* The tail has the last letters that are chunked, and none else.
TailIsLast ==
  /\ Cardinality(tail) <= Overlap
  /\ splits # <<>> /\ here \notin overfull => \A i \in tail \cap Letters(here) :
       i \in Chunked /\ \A k \in Chunked : k > i => k \in tail

ChunkInv == ChunkTypeOK /\ InPlace /\ InOrder /\ NothingLost /\ TailIsLast /\ ChunkedRight

LEMMA SeqFacts ==
  ASSUME NEW S, NEW s \in Seq(S)
  PROVE  Len(s) \in Nat /\ DOMAIN s = 1..Len(s) /\ \A c \in 1..Len(s) : s[c] \in S
OBVIOUS

LEMMA HereFacts ==
  ASSUME ChunkTypeOK, here <= Len(sections)
  PROVE  /\ here \in DOMAIN sections /\ here \in 1..Len(sections)
         /\ sections[here] \in Seq(Tokens) /\ Len(sections[here]) \in Nat
         /\ DOMAIN sections[here] = 1..Len(sections[here])
         /\ \A i \in DOMAIN sections[here] : i \in Nat /\ Token(i) \in Tokens
         /\ Letters(here) = {i \in DOMAIN sections[here] : Token(i) \in Ink}
<1>1. here \in 1..Len(sections) /\ DOMAIN sections = 1..Len(sections)
  BY DEF ChunkTypeOK
<1>2. sections[here] \in Seq(Tokens)
  BY <1>1 DEF ChunkTypeOK
<1> QED
  BY <1>1, <1>2 DEF Token, Letters

\* A section's letters survive all that is cut away.
LEMMA LettersAreInk ==
  ASSUME ChunkTypeOK, here <= Len(sections), NEW i \in Letters(here)
  PROVE  /\ i \in DOMAIN sections[here] /\ i \in Nat /\ Token(i) \notin Blank
         /\ \A d \in DOMAIN Separators : Token(i) # Separators[d]
BY HereFacts DEF Ink, Blank, Separators

LEMMA StripKeeps ==
  ASSUME ChunkTypeOK, here <= Len(sections), NEW t \in SUBSET DOMAIN sections[here]
  PROVE  /\ Strip(t) \subseteq t
         /\ Strip(t) \cap Letters(here) = t \cap Letters(here)
<1>1. Strip(t) \subseteq t
  BY DEF Strip
<1>2. ASSUME NEW i \in t, i \in Letters(here) PROVE i \in Strip(t)
  <2>1. i \in Nat /\ Token(i) \notin Blank
    BY <1>2, LettersAreInk
  <2> QED
    BY <1>2, <2>1 DEF Strip
<1> QED
  BY <1>1, <1>2

\* One chunk more leaves those before it as they are.
LEMMA OneChunkMore ==
  ASSUME ChunkTypeOK, UNCHANGED sections, here <= Len(sections),
         NEW t \in SUBSET Nat, Emit(t)
  PROVE  /\ Len(chunks') = Len(chunks) + 1 /\ Len(chunks) \in Nat
         /\ DOMAIN chunks = 1..Len(chunks) /\ DOMAIN chunks' = 1..Len(chunks) + 1
         /\ \A c \in 1..Len(chunks) : chunks'[c] = chunks[c]
         /\ chunks'[Len(chunks) + 1] = [section |-> here, text |-> t]
         /\ chunks' \in Seq([section : 1..Len(sections), text : SUBSET Nat])
<1>1. chunks \in Seq([section : 1..Len(sections), text : SUBSET Nat])
  BY DEF ChunkTypeOK
<1>2. [section |-> here, text |-> t] \in [section : 1..Len(sections), text : SUBSET Nat]
  BY HereFacts
<1> QED
  BY <1>1, <1>2 DEF Emit

LEMMA CoveredMore ==
  ASSUME ChunkTypeOK, UNCHANGED sections, here <= Len(sections),
         NEW t \in SUBSET Nat, Emit(t), NEW n, n = Len(chunks), NEW h, h = here
  PROVE  /\ \A s : \A m \in 0..n : Covered(s, m)' = Covered(s, m)
         /\ \A s : s # h => Covered(s, n + 1)' = Covered(s, n)
         /\ Covered(h, n + 1)' = Chunked \cup (t \cap Letters(h))
<1>1. /\ n \in Nat /\ \A c \in 1..n : chunks'[c] = chunks[c]
      /\ chunks'[n + 1] = [section |-> h, text |-> t]
  BY OneChunkMore
<1>2. \A s : Letters(s)' = Letters(s)
  BY DEF Letters
<1>3. \A s, m : Covered(s, m)' =
        {i \in Letters(s) : \E c \in 1..m : chunks'[c].section = s /\ i \in chunks'[c].text}
  BY <1>2 DEF Covered
<1>4. ASSUME NEW s, NEW m \in 0..n PROVE Covered(s, m)' = Covered(s, m)
  <2>1. \A c \in 1..m : chunks'[c] = chunks[c]
    BY <1>1
  <2> QED
    BY <1>3, <2>1 DEF Covered
<1>5. 1..(n + 1) = (1..n) \cup {n + 1}
  BY <1>1
<1>6. chunks'[n + 1].section = h /\ chunks'[n + 1].text = t
  BY <1>1
<1>7. ASSUME NEW s, s # h PROVE Covered(s, n + 1)' = Covered(s, n)
  <2>1. \A i : (\E c \in 1..(n + 1) : chunks'[c].section = s /\ i \in chunks'[c].text)
             <=> (\E c \in 1..n : chunks[c].section = s /\ i \in chunks[c].text)
    BY <1>1, <1>5, <1>6, <1>7
  <2>2. Covered(s, n + 1)' =
        {i \in Letters(s) : \E c \in 1..(n + 1) : chunks'[c].section = s /\ i \in chunks'[c].text}
    BY <1>3
  <2> QED
    BY <2>1, <2>2 DEF Covered
<1>8. Covered(h, n + 1)' = Covered(h, n) \cup (t \cap Letters(h))
  <2>1. \A i : (\E c \in 1..(n + 1) : chunks'[c].section = h /\ i \in chunks'[c].text)
             <=> i \in t \/ \E c \in 1..n : chunks[c].section = h /\ i \in chunks[c].text
    BY <1>1, <1>5, <1>6
  <2>2. Covered(h, n + 1)' =
        {i \in Letters(h) : \E c \in 1..(n + 1) : chunks'[c].section = h /\ i \in chunks'[c].text}
    BY <1>3
  <2> QED
    BY <2>1, <2>2 DEF Covered
<1> QED
  BY <1>4, <1>7, <1>8 DEF Chunked

\* A chunk that goes on right, put behind chunks that do.
LEMMA RightMore ==
  ASSUME ChunkTypeOK, UNCHANGED sections, here <= Len(sections), ChunkedRight,
         NEW t \in SUBSET Nat, Emit(t), overfull \subseteq overfull',
         here \notin overfull' =>
           /\ Cardinality(t) \in 1..MaxTokens
           /\ Cardinality(t \cap Letters(here) \cap Chunked) <= Overlap
           /\ \A i \in t \cap Letters(here) :
                /\ \A k \in Letters(here) : k < i => k \in Chunked \cup t
                /\ \A k \in Chunked : k > i => k \in t
  PROVE  \A c \in DOMAIN chunks' : chunks'[c].section \notin overfull' => GoesOn(c)'
<1> SUFFICES ASSUME NEW c \in DOMAIN chunks', chunks'[c].section \notin overfull'
             PROVE  GoesOn(c)'
  OBVIOUS
<1> PICK n, h : n = Len(chunks) /\ h = here
  OBVIOUS
<1>0. /\ n \in Nat /\ c \in 1..n + 1 /\ DOMAIN chunks = 1..n
      /\ \A d \in 1..n : chunks'[d] = chunks[d]
      /\ chunks'[n + 1] = [section |-> h, text |-> t]
  BY OneChunkMore
<1>1. \A s : Letters(s)' = Letters(s)
  BY DEF Letters
<1>2. \A s : \A m \in 0..n : Covered(s, m)' = Covered(s, m)
  BY CoveredMore
<1>3. CASE c \in 1..n
  <2>1. chunks'[c] = chunks[c] /\ c - 1 \in 0..n /\ c \in DOMAIN chunks
    BY <1>0, <1>3
  <2> PICK s : s = chunks[c].section
    OBVIOUS
  <2>3. Covered(s, c - 1)' = Covered(s, c - 1) /\ Letters(s)' = Letters(s)
    BY <1>1, <1>2, <2>1
  <2>4. GoesOn(c)
    BY <2>1 DEF ChunkedRight
  <2> QED
    BY <2>1, <2>3, <2>4 DEF GoesOn
<1>4. CASE c = n + 1
  <2>1. chunks'[c].section = h /\ chunks'[c].text = t /\ c - 1 = n
    BY <1>0, <1>4
  <2>2. Covered(h, c - 1)' = Chunked /\ Letters(h)' = Letters(h)
    BY <1>0, <1>1, <1>2, <2>1 DEF Chunked
  <2> DEFINE letters == t \cap Letters(h)
  <2>4. here \notin overfull'
    BY <2>1
  <2>3. /\ Cardinality(t) \in 1..MaxTokens
        /\ Cardinality(letters \cap Chunked) <= Overlap
        /\ \A i \in letters : /\ \A k \in Letters(h) : k < i => k \in Chunked \cup letters
                              /\ \A k \in Chunked : k > i => k \in letters
    <3>1. Chunked \subseteq Letters(h)
      BY DEF Chunked, Covered
    <3> QED
      BY <2>4, <3>1
  <2> HIDE DEF letters
  <2> QED
    BY <2>1, <2>2, <2>3 DEF GoesOn, letters
<1> QED
  BY <1>0, <1>3, <1>4

(***************************************************************************)
(* The steps.                                                              *)
(***************************************************************************)
LEMMA ChunkStartInv ==
  ASSUME NEW parsed \in Seq(Seq(Tokens)), ChunkStart(parsed)
  PROVE  ChunkInv
<1>1. /\ sections \in Seq(Seq(Tokens)) /\ here = 1 /\ splits = <<>> /\ tail = {} /\ chunks = <<>>
      /\ overfull = {} /\ Len(sections) \in Nat
  BY DEF ChunkStart
<1>2. DOMAIN splits = {} /\ DOMAIN chunks = {}
  BY <1>1
<1>3. ChunkTypeOK
  BY <1>1 DEF ChunkTypeOK
<1>4. TailIsLast
  BY <1>1, FS_EmptySet, ChunkerAssumption DEF TailIsLast
<1> QED
  BY <1>1, <1>2, <1>3, <1>4 DEF ChunkInv, InPlace, InOrder, NothingLost, ChunkedRight

\* A section that is blank or fits is done; of one that is split, nothing is
\* chunked yet.
LEMMA TakeSectionKeeps == ASSUME ChunkInv, TakeSection PROVE ChunkInv'
<1> DEFINE text == Strip(DOMAIN sections[here])
<1>0. /\ ChunkTypeOK /\ InPlace /\ InOrder /\ NothingLost /\ TailIsLast /\ ChunkedRight
      /\ here <= Len(sections) /\ splits = <<>> /\ tail = {}
      /\ UNCHANGED <<sections, tail, overfull>>
  BY DEF ChunkInv, TakeSection, InPlace
<1>1. /\ text \subseteq DOMAIN sections[here]
      /\ text \cap Letters(here) = Letters(here)
      /\ text \in SUBSET Nat /\ IsFiniteSet(text) /\ here \in 1..Len(sections)
      /\ Len(sections) \in Nat
  <2>1. text \subseteq DOMAIN sections[here] /\ text \cap Letters(here) = Letters(here)
    BY <1>0, StripKeeps, HereFacts
  <2>2. Len(sections[here]) \in Nat /\ text \in SUBSET (1..Len(sections[here]))
    BY <1>0, <2>1, HereFacts
  <2>3. text \subseteq Nat /\ IsFiniteSet(text)
    <3> PICK bound \in Nat : text \in SUBSET (1..bound)
      BY <2>2
    <3> HIDE DEF text
    <3> QED
      BY Places
  <2> QED
    BY <1>0, <2>1, <2>3, HereFacts DEF ChunkTypeOK
<1> HIDE DEF text
<1>2. PICK n, h : n = Len(chunks) /\ h = here
  OBVIOUS
<1>3. n \in Nat /\ DOMAIN chunks = 1..n /\ \A c \in 1..n : chunks[c].section \in 1..h - 1
  <2>0. chunks \in Seq([section : 1..Len(sections), text : SUBSET Nat])
    BY <1>0 DEF ChunkTypeOK
  <2>1. /\ n \in Nat /\ DOMAIN chunks = 1..n
        /\ \A c \in 1..n : chunks[c] \in [section : 1..Len(sections), text : SUBSET Nat]
    BY <1>2, <2>0, SeqFacts
  <2>2. \A c \in 1..n : chunks[c].section \in Nat \ {0} /\ chunks[c].section < h
    BY <1>0, <1>1, <1>2, <2>1 DEF InPlace
  <2>3. h \in Nat
    BY <1>1, <1>2
  <2> QED
    BY <2>1, <2>2, <2>3
<1>4. Chunked = {}
  BY <1>2, <1>3 DEF Chunked, Covered
<1>5. \A s : Letters(s)' = Letters(s)
  BY <1>0 DEF Letters
<1>6. CASE Fits(text)
  <2>1. here' = h + 1 /\ splits' = <<>> /\ DOMAIN splits' = {}
        /\ IF text = {} THEN UNCHANGED chunks ELSE Emit(text)
    BY <1>0, <1>2, <1>6 DEF TakeSection, text
  <2>2. /\ chunks' \in Seq([section : 1..Len(sections), text : SUBSET Nat])
        /\ \A c \in DOMAIN chunks' : chunks'[c].section \in 1..h
        /\ \A c \in DOMAIN chunks' : chunks'[c].section \notin overfull => GoesOn(c)'
        /\ \A s \in (1..h) \ overfull : Covered(s, Len(chunks))' = Letters(s)
    <3>1. CASE text = {}
      <4>1. UNCHANGED chunks
        BY <2>1, <3>1
      <4>2. \A s, m : Covered(s, m)' = Covered(s, m)
        BY <1>5, <4>1 DEF Covered
      <4>3. \A c \in DOMAIN chunks' : chunks'[c].section \notin overfull => GoesOn(c)'
        BY <1>0, <1>5, <4>1, <4>2 DEF GoesOn, ChunkedRight
      <4>4. ASSUME NEW s \in (1..h) \ overfull PROVE Covered(s, Len(chunks)) = Letters(s)
        <5>1. CASE s = h
          BY <1>1, <1>2, <1>4, <3>1, <5>1 DEF Chunked
        <5>2. CASE s # h
          <6>1. s \in (1..here - 1) \ overfull
            BY <1>1, <1>2, <5>2
          <6> QED
            BY <1>0, <6>1 DEF ChunkedRight
        <5> QED
          BY <5>1, <5>2
      <4>5. \A s \in (1..h) \ overfull : Covered(s, Len(chunks))' = Letters(s)
        BY <4>1, <4>2, <4>4
      <4>6. \A c \in DOMAIN chunks' : chunks'[c].section \in 1..h
        BY <1>1, <1>2, <1>3, <4>1
      <4> QED
        BY <1>0, <4>1, <4>3, <4>5, <4>6 DEF ChunkTypeOK
    <3>2. CASE text # {}
      <4>1. Emit(text)
        BY <2>1, <3>2
      <4>2. /\ Len(chunks') = n + 1 /\ DOMAIN chunks' = 1..n + 1
            /\ \A c \in 1..n : chunks'[c] = chunks[c]
            /\ chunks'[n + 1] = [section |-> h, text |-> text]
            /\ chunks' \in Seq([section : 1..Len(sections), text : SUBSET Nat])
        BY <1>0, <1>1, <1>2, <4>1, OneChunkMore
      <4>3. \A c \in DOMAIN chunks' : chunks'[c].section \notin overfull => GoesOn(c)'
        <5>1. Cardinality(text) \in 1..MaxTokens
          <6>1. Cardinality(text) \in Nat /\ Cardinality(text) # 0
            BY <1>1, <3>2, FS_CardinalityType, FS_EmptySet
          <6> QED
            BY <1>6, <6>1, ChunkerAssumption DEF Fits
        <5>2. Cardinality(text \cap Letters(here) \cap Chunked) <= Overlap
          BY <1>4, FS_EmptySet, ChunkerAssumption
        <5> QED
          BY <1>0, <1>1, <1>4, <4>1, <5>1, <5>2, RightMore
      <4>4. ASSUME NEW s \in (1..h) \ overfull PROVE Covered(s, n + 1)' = Letters(s)
        <5>1. CASE s = h
          <6>1. Covered(h, n + 1)' = Chunked \cup (text \cap Letters(h))
            BY <1>0, <1>1, <1>2, <4>1, CoveredMore
          <6> QED
            BY <1>1, <1>2, <1>4, <5>1, <6>1
        <5>2. CASE s # h
          <6>1. s \in (1..here - 1) \ overfull
            BY <1>1, <1>2, <5>2
          <6>2. Covered(s, n + 1)' = Covered(s, n)
            BY <1>0, <1>1, <1>2, <4>1, <5>2, CoveredMore
          <6> QED
            BY <1>0, <1>2, <6>1, <6>2 DEF ChunkedRight
        <5> QED
          BY <5>1, <5>2
      <4>5. \A s \in (1..h) \ overfull : Covered(s, Len(chunks))' = Letters(s)
        BY <4>2, <4>4
      <4>6. ASSUME NEW c \in DOMAIN chunks' PROVE chunks'[c].section \in 1..h
        <5>1. CASE c \in 1..n
          BY <1>1, <1>2, <1>3, <4>2, <5>1
        <5>2. CASE c = n + 1
          BY <1>1, <1>2, <4>2, <5>2
        <5> QED
          BY <1>3, <4>2, <5>1, <5>2
      <4> QED
        BY <4>2, <4>3, <4>5, <4>6
    <3> QED
      BY <3>1, <3>2
  <2>3. ChunkTypeOK'
    BY <1>0, <1>1, <1>2, <2>1, <2>2 DEF ChunkTypeOK
  <2>4. InPlace'
    BY <1>0, <1>1, <1>2, <2>1, <2>2 DEF InPlace
  <2>5. InOrder' /\ NothingLost'
    BY <2>1 DEF InOrder, NothingLost
  <2>6. TailIsLast'
    BY <1>0, <2>1 DEF TailIsLast
  <2>7. ChunkedRight'
    <3>1. here' - 1 = h
      BY <1>1, <1>2, <2>1
    <3> QED
      BY <1>0, <1>5, <2>2, <3>1 DEF ChunkedRight
  <2> QED
    BY <2>3, <2>4, <2>5, <2>6, <2>7 DEF ChunkInv
<1>7. CASE ~Fits(text)
  <2>1. UNCHANGED <<here, chunks>> /\ splits' = <<text>>
    BY <1>0, <1>7 DEF TakeSection, text
  <2>2. DOMAIN splits' = {1} /\ splits'[1] = text /\ splits' # <<>> /\ splits' \in Seq(SUBSET Nat)
    BY <1>1, <2>1
  <2>3. \A s, m : Covered(s, m)' = Covered(s, m)
    BY <1>5, <2>1 DEF Covered
  <2>4. Chunked' = {}
    BY <1>4, <2>1, <2>3 DEF Chunked
  <2>5. ChunkTypeOK'
    BY <1>0, <2>1, <2>2 DEF ChunkTypeOK
  <2>6. InPlace'
    BY <1>0, <1>1, <1>2, <1>3, <2>1, <2>2 DEF InPlace
  <2>7. InOrder'
    BY <1>0, <2>2, <2>4 DEF InOrder
  <2>8. NothingLost'
    BY <1>1, <1>5, <2>1, <2>2 DEF NothingLost
  <2>9. TailIsLast'
    BY <1>0, <2>1 DEF TailIsLast
  <2>10. ChunkedRight'
    BY <1>0, <1>5, <2>1, <2>3 DEF ChunkedRight, GoesOn
  <2> QED
    BY <2>5, <2>6, <2>7, <2>8, <2>9, <2>10 DEF ChunkInv
<1> QED
  BY <1>6, <1>7

\* A split loses no letter, and what is flushed was in front.
LEMMA SplitOnce ==
  ASSUME ChunkTypeOK, here <= Len(sections), NEW t \in SUBSET DOMAIN sections[here],
         NEW d \in DOMAIN Separators, NEW sep, sep = Separators[d]
  PROVE  /\ Flushed(t, sep) \subseteq t /\ Unflushed(t, sep) \subseteq t
         /\ \A i \in Unflushed(t, sep) : \A j \in Flushed(t, sep) : j < i
         /\ \A i \in t \cap Letters(here) : i \in Flushed(t, sep) \cup Unflushed(t, sep)
<1> DEFINE ends == {i \in Begun(t, sep) : i + 1 \notin t \/ Token(i + 1) = sep}
           fitting == {e \in ends : Fits({i \in Begun(t, sep) : i <= e})}
<1>1. Begun(t, sep) \subseteq t /\ t \subseteq Nat
  BY HereFacts DEF Begun
<1>2. ends \subseteq Nat /\ fitting \subseteq Nat
  BY <1>1
<1>3. Flushed(t, sep) = {i \in Begun(t, sep) : \/ \E e \in fitting : i <= e
                                               \/ fitting = {} /\ \A e \in ends : i <= e}
  BY DEF Flushed
<1> HIDE DEF ends, fitting
<1>4. Flushed(t, sep) \subseteq t
  BY <1>1, <1>3
<1>5. /\ Unflushed(t, sep) \subseteq t
      /\ \A i \in Unflushed(t, sep) : \A j \in Flushed(t, sep) : j < i
  BY DEF Unflushed, Begun
<1>6. ASSUME NEW i \in t, i \in Letters(here), i \notin Flushed(t, sep)
      PROVE  i \in Unflushed(t, sep)
  <2>1. i \in Nat /\ Token(i) # sep
    BY <1>6, LettersAreInk
  <2>2. i \in Begun(t, sep)
    BY <1>6, <2>1 DEF Begun
  <2>3. ASSUME NEW j \in Flushed(t, sep) PROVE j < i
    <3>1. j \in Nat
      BY <1>1, <1>4
    <3> SUFFICES ASSUME i <= j PROVE FALSE
      BY <2>1, <3>1
    <3>2. CASE \E e \in fitting : j <= e
      BY <1>2, <1>3, <1>6, <2>1, <2>2, <3>1, <3>2
    <3>3. CASE fitting = {} /\ \A e \in ends : j <= e
      BY <1>2, <1>3, <1>6, <2>1, <2>2, <3>1, <3>3
    <3> QED
      BY <1>3, <3>2, <3>3
  <2> QED
    BY <1>6, <2>1, <2>3 DEF Unflushed, Begun
<1> QED
  BY <1>4, <1>5, <1>6

\* What a call has left is divided between it and the one it makes.
LEMMA SplitKeeps == ASSUME ChunkInv, SplitRecursive PROVE ChunkInv'
<1> PICK d, sep, h : d = Depth /\ sep = Separators[d] /\ h = here
  OBVIOUS
<1> DEFINE front == Flushed(Text, sep)
           rest == Unflushed(Text, sep)
<1>0. /\ ChunkTypeOK /\ InPlace /\ InOrder /\ NothingLost /\ TailIsLast /\ ChunkedRight
      /\ UNCHANGED <<sections, here, tail, chunks, overfull>> /\ splits # <<>> /\ here <= Len(sections)
      /\ splits \in Seq(SUBSET Nat) /\ d <= Len(Separators)
      /\ splits' = Append([splits EXCEPT ![d] = rest], front)
  BY DEF ChunkInv, SplitRecursive, InPlace, ChunkTypeOK, Text
<1>1. d \in Nat \ {0} /\ DOMAIN splits = 1..d /\ Text = splits[d] /\ d \in DOMAIN Separators
  <2>1. Len(splits) \in Nat /\ DOMAIN splits = 1..Len(splits) /\ Len(splits) # 0
    BY <1>0
  <2> QED
    BY <1>0, <2>1 DEF Depth, Text, Separators
<1>2. Text \subseteq DOMAIN sections[here]
  BY <1>0, <1>1 DEF InPlace
<1>3. /\ front \subseteq Text /\ rest \subseteq Text
      /\ \A i \in rest : \A j \in front : j < i
      /\ \A i \in Text \cap Letters(here) : i \in front \cup rest
  BY <1>0, <1>1, <1>2, SplitOnce
<1>4. Text \in SUBSET Nat /\ front \in SUBSET Nat /\ rest \in SUBSET Nat
  BY <1>0, <1>1, <1>3
<1> HIDE DEF front, rest
<1>5. /\ splits' \in Seq(SUBSET Nat) /\ DOMAIN splits' = 1..d + 1 /\ splits' # <<>>
      /\ \A k \in 1..d - 1 : splits'[k] = splits[k]
      /\ splits'[d] = rest /\ splits'[d + 1] = front
  <2> DEFINE left == [splits EXCEPT ![d] = rest]
  <2>1. /\ left \in Seq(SUBSET Nat) /\ Len(left) = d
        /\ \A k \in 1..d - 1 : left[k] = splits[k]
        /\ left[d] = rest
    BY <1>0, <1>1, <1>4 DEF Depth
  <2> HIDE DEF left
  <2>2. splits' = Append(left, front)
    BY <1>0 DEF left
  <2> QED
    BY <1>1, <1>4, <2>1, <2>2
<1>6. \A k \in 1..d + 1 : k \in 1..d - 1 \/ k = d \/ k = d + 1
  BY <1>1
<1>7. ASSUME NEW k \in DOMAIN splits'
      PROVE  \E m \in DOMAIN splits : splits'[k] \subseteq splits[m]
  <2>1. k \in 1..d - 1 => k \in DOMAIN splits /\ splits'[k] = splits[k]
    BY <1>1, <1>5
  <2>2. k = d \/ k = d + 1 => splits'[k] \subseteq splits[d] /\ d \in DOMAIN splits
    BY <1>1, <1>3, <1>5
  <2> QED
    BY <1>5, <1>6, <2>1, <2>2
<1>8. /\ \A s : Letters(s)' = Letters(s)
      /\ \A s, m : Covered(s, m)' = Covered(s, m)
      /\ Chunked' = Chunked
  BY <1>0 DEF Letters, Covered, Chunked
<1>9. ChunkTypeOK'
  BY <1>0, <1>5 DEF ChunkTypeOK
<1>10. InPlace'
  BY <1>0, <1>5, <1>7 DEF InPlace
<1>11. InOrder'
  <2> SUFFICES ASSUME NEW k \in DOMAIN splits', NEW i \in splits'[k]
               PROVE  /\ \A m \in DOMAIN splits' : \A j \in splits'[m] : k < m => j < i
                      /\ \A j \in tail : j < i
                      /\ \A j \in Chunked : j < i
    BY <1>0, <1>8 DEF InOrder
  <2>1. (\A j \in tail : j < i) /\ (\A j \in Chunked : j < i)
    BY <1>0, <1>7 DEF InOrder
  <2>2. ASSUME NEW m \in DOMAIN splits', NEW j \in splits'[m], k < m PROVE j < i
    <3>1. CASE k = d
      <4>1. m = d + 1
        BY <1>1, <1>5, <2>2, <3>1
      <4> QED
        BY <1>3, <1>5, <3>1, <4>1
    <3>2. CASE k \in 1..d - 1
      <4>1. k \in DOMAIN splits /\ i \in splits[k]
        BY <1>1, <1>5, <3>2
      <4>2. CASE m \in 1..d - 1
        BY <1>0, <1>1, <1>5, <2>2, <4>1, <4>2 DEF InOrder
      <4>3. CASE m = d \/ m = d + 1
        <5>1. j \in splits[d] /\ d \in DOMAIN splits /\ k < d
          BY <1>1, <1>3, <1>5, <3>2, <4>3
        <5> QED
          BY <1>0, <4>1, <5>1 DEF InOrder
      <4> QED
        BY <1>5, <1>6, <4>2, <4>3
    <3>3. k # d + 1
      BY <1>1, <1>5, <2>2
    <3> QED
      BY <1>5, <1>6, <3>1, <3>2, <3>3
  <2> QED
    BY <2>1, <2>2
<1>12. NothingLost'
  <2> SUFFICES ASSUME here \notin overfull, NEW i \in Letters(here), i \notin Chunked
               PROVE  \E k \in DOMAIN splits' : i \in splits'[k]
    BY <1>0, <1>8 DEF NothingLost
  <2>1. PICK k \in DOMAIN splits : i \in splits[k]
    BY <1>0 DEF NothingLost
  <2>2. CASE k = d
    <3>1. d \in DOMAIN splits' /\ d + 1 \in DOMAIN splits'
      BY <1>1, <1>5
    <3>2. i \in front \cup rest
      BY <1>1, <1>3, <2>1, <2>2
    <3> QED
      BY <1>5, <3>1, <3>2
  <2>3. CASE k # d
    <3>1. k \in 1..d - 1 /\ k \in DOMAIN splits'
      BY <1>1, <1>5, <2>3
    <3> QED
      BY <1>5, <2>1, <3>1
  <2> QED
    BY <2>2, <2>3
<1>13. TailIsLast' /\ ChunkedRight'
  BY <1>0, <1>8 DEF TailIsLast, ChunkedRight, GoesOn
<1> QED
  BY <1>9, <1>10, <1>11, <1>12, <1>13 DEF ChunkInv

\* An empty call ends; with the outermost one the section is done.
LEMMA EndOfSplitKeeps == ASSUME ChunkInv, EndOfSplit PROVE ChunkInv'
<1> PICK d, h : d = Depth /\ h = here
  OBVIOUS
<1>0. /\ ChunkTypeOK /\ InPlace /\ InOrder /\ NothingLost /\ TailIsLast /\ ChunkedRight
      /\ UNCHANGED <<sections, chunks, overfull>> /\ splits # <<>> /\ here <= Len(sections)
      /\ splits \in Seq(SUBSET Nat) /\ Text = {}
      /\ splits' = SubSeq(splits, 1, d - 1)
      /\ IF d = 1 THEN here' = here + 1 /\ tail' = {} ELSE UNCHANGED <<here, tail>>
  BY DEF ChunkInv, EndOfSplit, InPlace, ChunkTypeOK
<1>1. d \in Nat \ {0} /\ DOMAIN splits = 1..d /\ splits[d] = {}
  <2>1. Len(splits) \in Nat /\ DOMAIN splits = 1..Len(splits) /\ Len(splits) # 0
    BY <1>0
  <2> QED
    BY <1>0, <2>1 DEF Depth, Text
<1>2. /\ splits' \in Seq(SUBSET Nat) /\ DOMAIN splits' = 1..d - 1
      /\ \A k \in 1..d - 1 : splits'[k] = splits[k] /\ k \in DOMAIN splits
  BY <1>0, <1>1 DEF Depth
<1>3. /\ \A s : Letters(s)' = Letters(s)
      /\ \A s, m : Covered(s, m)' = Covered(s, m)
  BY <1>0 DEF Letters, Covered
<1>4. h \in 1..Len(sections) /\ Len(sections) \in Nat
  BY <1>0, HereFacts DEF ChunkTypeOK
<1>5. \A c \in DOMAIN chunks : chunks[c].section \notin overfull => GoesOn(c)'
  BY <1>0, <1>3 DEF ChunkedRight, GoesOn
<1>6. CASE d = 1
  <2>1. here' = h + 1 /\ tail' = {} /\ splits' = <<>> /\ DOMAIN splits' = {}
    BY <1>0, <1>2, <1>6
  <2>2. ChunkTypeOK'
    BY <1>0, <1>2, <1>4, <2>1 DEF ChunkTypeOK
  <2>3. InPlace'
    <3>1. ASSUME NEW c \in DOMAIN chunks PROVE chunks[c].section < h + 1 /\ chunks[c].section <= h + 1
      <4>0. chunks \in Seq([section : 1..Len(sections), text : SUBSET Nat])
        BY <1>0 DEF ChunkTypeOK
      <4>1. chunks[c].section \in 1..Len(sections)
        <5>1. chunks[c] \in [section : 1..Len(sections), text : SUBSET Nat]
          BY <4>0, SeqFacts
        <5> QED
          BY <5>1
      <4> QED
        BY <1>0, <1>4, <4>1 DEF InPlace
    <3> QED
      BY <1>0, <2>1, <3>1 DEF InPlace
  <2>4. InOrder' /\ NothingLost'
    BY <2>1 DEF InOrder, NothingLost
  <2>5. TailIsLast'
    BY <2>1, FS_EmptySet, ChunkerAssumption DEF TailIsLast
  <2>6. ChunkedRight'
    <3>1. h \notin overfull => Chunked = Letters(h)
      BY <1>0, <1>1, <1>6 DEF NothingLost, Chunked, Covered
    <3>2. ASSUME NEW s \in (1..h) \ overfull PROVE Covered(s, Len(chunks)) = Letters(s)
      <4>1. CASE s = h
        BY <3>1, <4>1 DEF Chunked
      <4>2. CASE s # h
        <5>1. s \in (1..here - 1) \ overfull
          BY <1>4, <4>2
        <5> QED
          BY <1>0, <5>1 DEF ChunkedRight
      <4> QED
        BY <4>1, <4>2
    <3>3. \A s \in (1..h) \ overfull : Covered(s, Len(chunks))' = Letters(s)'
      BY <1>0, <1>3, <3>2
    <3>4. here' - 1 = h
      BY <1>4, <2>1
    <3> QED
      BY <1>0, <1>5, <3>3, <3>4 DEF ChunkedRight
  <2> QED
    BY <2>2, <2>3, <2>4, <2>5, <2>6 DEF ChunkInv
<1>7. CASE d # 1
  <2>1. UNCHANGED <<here, tail>> /\ splits' # <<>> /\ Chunked' = Chunked
    BY <1>0, <1>1, <1>2, <1>3, <1>7 DEF Chunked
  <2>2. ChunkTypeOK'
    BY <1>0, <1>2, <2>1 DEF ChunkTypeOK
  <2>3. InPlace'
    BY <1>0, <1>2, <2>1 DEF InPlace
  <2>4. InOrder'
    BY <1>0, <1>2, <2>1 DEF InOrder
  <2>5. NothingLost'
    <3> SUFFICES ASSUME here \notin overfull, NEW i \in Letters(here), i \notin Chunked
                 PROVE  \E k \in DOMAIN splits' : i \in splits'[k]
      BY <1>0, <1>3, <2>1 DEF NothingLost
    <3>1. PICK k \in DOMAIN splits : i \in splits[k]
      BY <1>0 DEF NothingLost
    <3>2. k \in 1..d - 1
      BY <1>1, <3>1
    <3> QED
      BY <1>2, <3>1, <3>2
  <2>6. TailIsLast' /\ ChunkedRight'
    BY <1>0, <1>3, <1>5, <2>1 DEF TailIsLast, ChunkedRight
  <2> QED
    BY <2>2, <2>3, <2>4, <2>5, <2>6 DEF ChunkInv
<1> QED
  BY <1>6, <1>7

\* What TakePiece makes of the tail and the next piece.  Of a piece that fits,
\* all letters, behind the last ones of the tail.
NextPiece == HardCut(Text)
NextText(seam) ==
  Strip(IF tail = {} THEN NextPiece ELSE TrimToTokens(tail \cup NextPiece, seam))

LEMMA PieceFacts ==
  ASSUME ChunkInv, splits # <<>>
  PROVE  /\ Depth \in DOMAIN splits /\ NextPiece \subseteq Text
         /\ NextPiece \subseteq DOMAIN sections[here] /\ tail \subseteq DOMAIN sections[here]
         /\ \A i \in NextPiece : \A j \in tail \cup Chunked : j < i
         /\ \A i \in Text \ NextPiece : \A j \in NextPiece : j < i
         /\ \A seam : NextText(seam) \subseteq tail \cup NextPiece
<1> PICK d, piece : d = Depth /\ piece = NextPiece
  OBVIOUS
<1>0. /\ ChunkTypeOK /\ InPlace /\ InOrder /\ here <= Len(sections)
      /\ splits \in Seq(SUBSET Nat) /\ MaxTokens \in Nat
  BY ChunkerAssumption DEF ChunkInv, InPlace, ChunkTypeOK
<1>1. d \in DOMAIN splits /\ Text = splits[d]
  BY <1>0 DEF Depth, Text
<1>2. PICK bound \in Nat : DOMAIN sections[here] = 1..bound
  BY <1>0, HereFacts
<1>3. Text \in SUBSET (1..bound) /\ tail \in SUBSET (1..bound)
  BY <1>0, <1>1, <1>2 DEF InPlace
<1>4. piece \subseteq Text
  BY DEF HardCut, NextPiece
<1>5. \A i \in piece : \A j \in tail \cup Chunked : j < i
  BY <1>0, <1>1, <1>4 DEF InOrder
<1>6. ASSUME NEW i \in Text \ piece, NEW j \in piece PROVE j < i
  <2>1. i \in Nat /\ j \in Nat /\ i # j
    BY <1>3, <1>4
  <2>2. ~(i < j)
    BY <1>0, <1>3, <1>6, HardCutIsFront DEF NextPiece
  <2> QED
    BY <2>1, <2>2
<1>7. \A seam : NextText(seam) \subseteq tail \cup NextPiece
  BY DEF NextText, Strip, TrimToTokens, LastOf
<1> QED
  BY <1>1, <1>2, <1>3, <1>4, <1>5, <1>6, <1>7

LEMMA FittingPiece ==
  ASSUME ChunkInv, splits # <<>>, NEW seam \in 0..MaxTokens,
         Cardinality(NextPiece) + seam <= MaxTokens
  PROVE  /\ NextPiece \cap Letters(here) \subseteq NextText(seam)
         /\ \A i \in NextText(seam) \cap Letters(here) :
              \A k \in (tail \cup NextPiece) \cap Letters(here) : k > i => k \in NextText(seam)
         /\ IsFiniteSet(NextText(seam)) /\ Cardinality(NextText(seam)) <= MaxTokens
<1> PICK piece, text : piece = NextPiece /\ text = NextText(seam)
  OBVIOUS
<1>0. ChunkTypeOK /\ here <= Len(sections) /\ MaxTokens \in Nat
  BY ChunkerAssumption DEF ChunkInv, InPlace
<1>1. /\ piece \subseteq DOMAIN sections[here] /\ tail \subseteq DOMAIN sections[here]
      /\ \A i \in piece : \A j \in tail : j < i
  BY PieceFacts
<1>2. PICK bound \in Nat : DOMAIN sections[here] = 1..bound
  BY <1>0, HereFacts
<1> DEFINE both == tail \cup piece
           last == IF tail = {} THEN piece ELSE TrimToTokens(both, seam)
           size == MaxTokens - seam
<1>3. /\ both \in SUBSET (1..bound) /\ piece \in SUBSET both /\ IsFiniteSet(piece)
      /\ size \in Nat /\ size <= MaxTokens
      /\ Cardinality(piece) \in Nat /\ Cardinality(piece) <= size
  <2>1. both \in SUBSET (1..bound) /\ piece \in SUBSET (1..bound)
    BY <1>1, <1>2
  <2>2. IsFiniteSet(piece)
    BY <2>1, Places
  <2>3. Cardinality(piece) \in Nat
    BY <2>2, FS_CardinalityType
  <2> QED
    BY <1>0, <2>1, <2>2, <2>3
<1> HIDE DEF both, size
<1>4. /\ last \subseteq both /\ IsFiniteSet(last) /\ Cardinality(last) <= size
      /\ piece \subseteq last
      /\ \A i \in last, k \in both : i < k => k \in last
  <2>1. CASE tail = {}
    BY <1>3, <2>1 DEF both
  <2>2. CASE tail # {}
    <3>1. last = LastOf(size, both)
      BY <2>2 DEF TrimToTokens, size
    <3> HIDE DEF last
    <3>2. \A i \in piece, j \in both \ piece : j < i
      BY <1>1 DEF both
    <3>3. IsFiniteSet(last) /\ Cardinality(last) <= size /\ last \subseteq both
      BY <1>3, <3>1, LastIsShort DEF LastOf
    <3>4. piece \subseteq last
      BY <1>3, <3>1, <3>2, FittingIsLast
    <3>5. \A i \in last, k \in both : i < k => k \in last
      BY <1>3, <3>1, LastIsBack
    <3> QED
      BY <3>3, <3>4, <3>5
  <2> QED
    BY <2>1, <2>2
<1>5. text = Strip(last)
  BY DEF NextText, both
<1> HIDE DEF last
<1>6. text \subseteq last /\ text \cap Letters(here) = last \cap Letters(here)
  <2>1. last \in SUBSET DOMAIN sections[here]
    BY <1>2, <1>3, <1>4
  <2> QED
    BY <1>0, <1>5, <2>1, StripKeeps
<1>7. IsFiniteSet(text) /\ Cardinality(text) <= MaxTokens
  <2>1. IsFiniteSet(text) /\ Cardinality(text) <= Cardinality(last)
    BY <1>4, <1>6, FS_Subset
  <2>2. Cardinality(text) \in Nat /\ Cardinality(last) \in Nat
    BY <1>4, <2>1, FS_CardinalityType
  <2> QED
    BY <1>0, <1>3, <1>4, <2>1, <2>2
<1>8. ASSUME NEW i \in text \cap Letters(here), NEW k \in (tail \cup piece) \cap Letters(here), k > i
      PROVE  k \in text
  <2>1. i \in last /\ k \in both /\ i \in Nat /\ k \in Nat
    BY <1>3, <1>4, <1>6 DEF both
  <2>2. k \in last
    BY <1>4, <1>8, <2>1
  <2> QED
    BY <1>6, <2>2
<1> QED
  BY <1>4, <1>6, <1>7, <1>8

\* The next chunk goes on where those before it end.
LEMMA TakePieceKeeps == ASSUME ChunkInv, TakePiece PROVE ChunkInv'
<1> PICK seam \in 0..MaxTokens :
      /\ splits' = [splits EXCEPT ![Depth] = @ \ NextPiece]
      /\ IF NextText(seam) = {} THEN UNCHANGED <<chunks, tail>>
         ELSE Emit(NextText(seam)) /\ tail' = TailForOverlap(NextText(seam))
      /\ overfull' = IF Cardinality(NextPiece) + seam <= MaxTokens
                     THEN overfull ELSE overfull \cup {here}
  <2>1. (IF tail = {} THEN {0} ELSE 0..Seam) \subseteq 0..MaxTokens
    BY ChunkerAssumption
  <2> QED
    BY <2>1 DEF TakePiece, NextPiece, NextText
<1> PICK d, h, n, piece, text :
      d = Depth /\ h = here /\ n = Len(chunks) /\ piece = NextPiece /\ text = NextText(seam)
  OBVIOUS
<1>0. /\ ChunkTypeOK /\ InPlace /\ InOrder /\ NothingLost /\ TailIsLast /\ ChunkedRight
      /\ UNCHANGED <<sections, here>> /\ splits # <<>> /\ here <= Len(sections)
      /\ splits \in Seq(SUBSET Nat) /\ splits' = [splits EXCEPT ![d] = @ \ piece]
      /\ IF text = {} THEN UNCHANGED <<chunks, tail>>
         ELSE Emit(text) /\ tail' = TailForOverlap(text)
      /\ overfull \subseteq overfull' /\ overfull' \subseteq Nat
      /\ here \notin overfull' =>
           here \notin overfull /\ Cardinality(piece) + seam <= MaxTokens
  <2>1. /\ ChunkTypeOK /\ InPlace /\ InOrder /\ NothingLost /\ TailIsLast /\ ChunkedRight
        /\ UNCHANGED <<sections, here>> /\ splits # <<>> /\ here <= Len(sections)
    BY DEF ChunkInv, TakePiece, InPlace
  <2>2. splits \in Seq(SUBSET Nat) /\ overfull \subseteq Nat /\ here \in Nat
    BY <2>1, HereFacts DEF ChunkTypeOK
  <2>3. overfull' = IF Cardinality(piece) + seam <= MaxTokens
                    THEN overfull ELSE overfull \cup {here}
    OBVIOUS
  <2>4. /\ overfull \subseteq overfull' /\ overfull' \subseteq Nat
        /\ here \notin overfull' =>
             here \notin overfull /\ Cardinality(piece) + seam <= MaxTokens
    BY <2>2, <2>3
  <2> QED
    BY <2>1, <2>2, <2>4
<1>1. /\ d \in DOMAIN splits /\ Text = splits[d] /\ piece \subseteq Text
      /\ piece \subseteq DOMAIN sections[here] /\ tail \subseteq DOMAIN sections[here]
      /\ \A i \in piece : \A j \in tail \cup Chunked : j < i
      /\ \A i \in Text \ piece : \A j \in piece : j < i
      /\ text \subseteq tail \cup piece
      /\ here \notin overfull' =>
           /\ piece \cap Letters(here) \subseteq text
           /\ \A i \in text \cap Letters(here) : \A k \in (tail \cup piece) \cap Letters(here) :
                k > i => k \in text
           /\ IsFiniteSet(text) /\ Cardinality(text) <= MaxTokens
  <2>1. splits # <<>>
    BY <1>0
  <2> QED
    BY <1>0, <2>1, PieceFacts, FittingPiece DEF Text
<1>2. /\ splits' \in Seq(SUBSET Nat) /\ DOMAIN splits' = DOMAIN splits /\ splits' # <<>>
      /\ DOMAIN splits = 1..d /\ d \in Nat
      /\ splits'[d] = splits[d] \ piece
      /\ \A k \in DOMAIN splits : k # d => splits'[k] = splits[k]
      /\ \A k \in DOMAIN splits : splits'[k] \subseteq splits[k]
  <2>1. splits[d] \ piece \in SUBSET Nat
    BY <1>0, <1>1
  <2>2. DOMAIN splits = 1..d /\ d \in Nat
    BY <1>0 DEF Depth
  <2> QED
    BY <1>0, <1>1, <2>1, <2>2
<1>3. \A s : Letters(s)' = Letters(s)
  BY <1>0 DEF Letters
<1>4. Chunked \subseteq Letters(here) /\ \A i \in Letters(here) : i \in Nat
  BY <1>0, HereFacts DEF Chunked, Covered
<1>5. text \in SUBSET Nat /\ text \subseteq DOMAIN sections[here]
  <2>1. \A i \in DOMAIN sections[here] : i \in Nat
    BY <1>0, HereFacts
  <2> QED
    BY <1>1, <2>1
\* What is left lies behind the piece too.
<1>6. ASSUME NEW k \in DOMAIN splits, NEW i \in splits'[k], NEW j \in piece PROVE j < i
  <2>1. CASE k = d
    BY <1>1, <1>2, <1>6, <2>1
  <2>2. CASE k # d
    <3>1. k < d /\ i \in splits[k] /\ j \in splits[d]
      BY <1>1, <1>2, <1>6, <2>2
    <3> QED
      BY <1>0, <1>1, <3>1 DEF InOrder
  <2> QED
    BY <2>1, <2>2
\* A letter in front of the piece is chunked.
<1>7. ASSUME here \notin overfull', NEW i \in piece, NEW k \in Letters(here), k < i PROVE k \in Chunked \cup piece
  <2> SUFFICES ASSUME k \notin Chunked, k \notin piece PROVE FALSE
    OBVIOUS
  <2>1. PICK m \in DOMAIN splits : k \in splits[m]
    BY <1>0, <1>7 DEF NothingLost
  <2>2. k \in splits'[m]
    BY <1>2, <2>1
  <2>3. i < k
    BY <1>6, <2>2
  <2>4. i \in Nat /\ k \in Nat
    BY <1>0, <1>1, <1>4, HereFacts
  <2> QED
    BY <1>7, <2>3, <2>4
<1>8. CASE text = {}
  <2>1. UNCHANGED <<chunks, tail>> /\ Chunked' = Chunked
    BY <1>0, <1>1, <1>8 DEF Chunked, Covered, Letters
  <2>2. ChunkTypeOK' /\ InPlace'
    BY <1>0, <1>2, <2>1 DEF ChunkTypeOK, InPlace
  <2>3. InOrder'
    BY <1>0, <1>2, <2>1 DEF InOrder
  <2>4. NothingLost'
    <3> SUFFICES ASSUME here \notin overfull', NEW i \in Letters(here), i \notin Chunked
                 PROVE  \E k \in DOMAIN splits' : i \in splits'[k]
      BY <1>0, <1>3, <2>1 DEF NothingLost
    <3>1. PICK k \in DOMAIN splits : i \in splits[k]
      BY <1>0 DEF NothingLost
    <3>2. i \notin piece
      BY <1>1, <1>8
    <3> QED
      BY <1>2, <3>1, <3>2
  <2>5. \A s, m : Covered(s, m)' = Covered(s, m)
    BY <1>3, <2>1 DEF Covered
  <2>6. TailIsLast' /\ ChunkedRight'
    BY <1>0, <1>3, <2>1, <2>5 DEF TailIsLast, ChunkedRight, GoesOn
  <2> QED
    BY <2>2, <2>3, <2>4, <2>6 DEF ChunkInv
<1>9. CASE text # {}
  <2>1. Emit(text) /\ tail' = LastOf(Overlap, text)
    BY <1>0, <1>9 DEF TailForOverlap
  <2>2. /\ Len(chunks') = n + 1 /\ n \in Nat /\ DOMAIN chunks = 1..n
        /\ DOMAIN chunks' = 1..n + 1
        /\ \A c \in 1..n : chunks'[c] = chunks[c]
        /\ chunks'[n + 1] = [section |-> h, text |-> text]
        /\ chunks' \in Seq([section : 1..Len(sections), text : SUBSET Nat])
    BY <1>0, <1>5, <2>1, OneChunkMore
  <2>3. /\ \A s : s # h => Covered(s, n + 1)' = Covered(s, n)
        /\ Covered(h, n + 1)' = Chunked \cup (text \cap Letters(h))
    BY <1>0, <1>5, <2>1, CoveredMore
  <2>4. Chunked' = Chunked \cup (text \cap Letters(here))
    BY <1>0, <2>2, <2>3 DEF Chunked
  <2>5. here \notin overfull' => tail \cap Letters(here) \subseteq Chunked
    BY <1>0 DEF TailIsLast
  <2>6. here \notin overfull' => Chunked' = Chunked \cup (piece \cap Letters(here))
    BY <1>1, <2>4, <2>5
  \* What is chunked and lies behind a letter of the chunk is in the chunk.
  <2>7. ASSUME here \notin overfull', NEW i \in text \cap Letters(here), NEW k \in Chunked, k > i
        PROVE  k \in text
    <3>1. CASE i \in piece
      <4>1. k < i /\ i \in Nat /\ k \in Nat
        BY <1>1, <1>4, <3>1
      <4> QED
        BY <2>7, <4>1
    <3>2. CASE i \in tail
      <4>1. k \in tail
        BY <1>0, <2>7, <3>2 DEF TailIsLast
      <4> QED
        BY <1>1, <1>4, <2>7, <4>1
    <3> QED
      BY <1>1, <3>1, <3>2
  <2>8. \A c \in DOMAIN chunks' : chunks'[c].section \notin overfull' => GoesOn(c)'
    <3>1. ASSUME here \notin overfull' PROVE Cardinality(text) \in 1..MaxTokens
      <4>1. Cardinality(text) \in Nat /\ Cardinality(text) # 0
        BY <1>1, <1>9, <3>1, FS_CardinalityType, FS_EmptySet
      <4>2. MaxTokens \in Nat /\ Cardinality(text) <= MaxTokens
        BY <1>1, <3>1, ChunkerAssumption
      <4> QED
        BY <4>1, <4>2
    <3>2. Cardinality(text \cap Letters(here) \cap Chunked) <= Overlap
      <4>1. text \cap Letters(here) \cap Chunked \subseteq tail
        <5> SUFFICES ASSUME NEW i \in piece, i \in Chunked PROVE FALSE
          BY <1>1
        <5> QED
          BY <1>1, <1>4
      <4>2. IsFiniteSet(tail)
        <5> PICK bound \in Nat : DOMAIN sections[here] = 1..bound
          BY <1>0, HereFacts
        <5> QED
          BY <1>1, Places
      <4>3. /\ Cardinality(text \cap Letters(here) \cap Chunked) <= Cardinality(tail)
            /\ IsFiniteSet(text \cap Letters(here) \cap Chunked)
        BY <4>1, <4>2, FS_Subset
      <4>4. /\ Cardinality(text \cap Letters(here) \cap Chunked) \in Nat
            /\ Cardinality(tail) \in Nat
        BY <4>2, <4>3, FS_CardinalityType
      <4> QED
        BY <1>0, <4>3, <4>4, ChunkerAssumption DEF TailIsLast
    <3>3. ASSUME here \notin overfull', NEW i \in text \cap Letters(here), NEW k \in Letters(here), k < i
          PROVE  k \in Chunked \cup text
      <4>1. CASE i \in piece
        BY <1>1, <1>7, <3>3, <4>1
      <4>2. CASE i \in tail
        \* i is chunked, and what is left lies behind it.
        <5> SUFFICES ASSUME k \notin Chunked PROVE FALSE
          OBVIOUS
        <5>1. i \in Chunked
          BY <2>5, <3>3, <4>2
        <5>2. PICK m \in DOMAIN splits : k \in splits[m]
          BY <1>0, <3>3 DEF NothingLost
        <5>3. i < k /\ i \in Nat /\ k \in Nat
          BY <1>0, <1>4, <5>1, <5>2 DEF InOrder
        <5> QED
          BY <3>3, <5>3
      <4> QED
        BY <1>1, <4>1, <4>2
    <3> QED
      BY <1>0, <1>5, <2>1, <2>7, <3>1, <3>2, <3>3, RightMore
  <2>9. tail' \subseteq text /\ tail' \subseteq Nat
    BY <1>5, <2>1 DEF LastOf
  <2>10. ChunkTypeOK'
    BY <1>0, <1>2, <2>2, <2>9 DEF ChunkTypeOK
  <2>11. InPlace'
    <3>1. ASSUME NEW c \in DOMAIN chunks' PROVE chunks'[c].section <= here
      <4>1. CASE c \in 1..n
        BY <1>0, <2>2, <4>1 DEF InPlace
      <4>2. CASE c = n + 1
        BY <1>0, <2>2, <4>2, HereFacts
      <4> QED
        BY <2>2, <4>1, <4>2
    <3>2. \A k \in DOMAIN splits' : splits'[k] \subseteq DOMAIN sections[here]
      BY <1>0, <1>2 DEF InPlace
    <3> QED
      BY <1>0, <1>2, <1>5, <2>9, <3>1, <3>2 DEF InPlace
  <2>12. InOrder'
    <3> SUFFICES ASSUME NEW k \in DOMAIN splits, NEW i \in splits'[k]
                 PROVE  /\ \A m \in DOMAIN splits : \A j \in splits'[m] : k < m => j < i
                        /\ \A j \in tail' : j < i
                        /\ \A j \in Chunked' : j < i
      BY <1>2 DEF InOrder
    <3>1. i \in splits[k]
      BY <1>2
    <3>2. \A m \in DOMAIN splits : \A j \in splits'[m] : k < m => j < i
      BY <1>0, <1>2, <3>1 DEF InOrder
    <3>3. /\ \A j \in piece : j < i
          /\ \A j \in tail \cup Chunked : j < i
      BY <1>0, <1>6, <3>1 DEF InOrder
    <3> QED
      BY <1>1, <2>4, <2>9, <3>2, <3>3
  <2>13. NothingLost'
    <3> SUFFICES ASSUME here \notin overfull', NEW i \in Letters(here), i \notin Chunked'
                 PROVE  \E k \in DOMAIN splits' : i \in splits'[k]
      BY <1>0, <1>3 DEF NothingLost
    <3>1. i \notin Chunked /\ i \notin piece
      BY <2>6
    <3>2. PICK k \in DOMAIN splits : i \in splits[k]
      BY <1>0, <3>1 DEF NothingLost
    <3> QED
      BY <1>2, <3>1, <3>2
  <2>14. TailIsLast'
    <3>1. PICK bound \in Nat : text \in SUBSET (1..bound)
      BY <1>0, <1>5, HereFacts
    <3>0. Overlap \in Nat
      BY ChunkerAssumption
    <3>2. Cardinality(tail') <= Overlap
      BY <2>1, <3>0, <3>1, LastIsShort
    <3>3. ASSUME here \notin overfull', NEW i \in tail' \cap Letters(here)
          PROVE  i \in Chunked' /\ \A k \in Chunked' : k > i => k \in tail'
      <4>1. i \in text \cap Letters(here) /\ i \in Chunked'
        BY <2>4, <2>9
      <4>2. ASSUME NEW k \in Chunked', k > i PROVE k \in tail'
        <5>1. k \in text
          BY <2>4, <2>7, <3>3, <4>1, <4>2
        <5>2. i < k
          BY <3>1, <4>1, <4>2, <5>1
        <5> QED
          BY <2>1, <3>0, <3>1, <4>1, <5>1, <5>2, LastIsBack
      <4> QED
        BY <4>1, <4>2
    <3> QED
      BY <1>0, <1>3, <3>2, <3>3 DEF TailIsLast
  <2>15. ChunkedRight'
    <3>1. ASSUME NEW s \in (1..here - 1) \ overfull' PROVE Covered(s, Len(chunks))' = Letters(s)
      <4>1. s # h
        BY <1>0, HereFacts
      <4>2. Covered(s, n + 1)' = Covered(s, n)
        BY <2>3, <4>1
      <4> QED
        BY <1>0, <2>2, <4>2 DEF ChunkedRight
    <3> QED
      BY <1>0, <1>3, <2>8, <3>1 DEF ChunkedRight
  <2> QED
    BY <2>10, <2>11, <2>12, <2>13, <2>14, <2>15 DEF ChunkInv
<1> QED
  BY <1>8, <1>9

LEMMA ChunkStep == ChunkInv /\ [ChunkNext]_chunkVars => ChunkInv'
<1> SUFFICES ASSUME ChunkInv, [ChunkNext]_chunkVars PROVE ChunkInv'
  OBVIOUS
<1>1. ASSUME UNCHANGED chunkVars PROVE ChunkInv'
  <2>1. UNCHANGED <<sections, here, splits, tail, chunks, overfull>>
    BY <1>1 DEF chunkVars
  <2>2. /\ \A s : Letters(s)' = Letters(s)
        /\ \A s, m : Covered(s, m)' = Covered(s, m)
        /\ Chunked' = Chunked
    BY <2>1 DEF Chunked, Covered, Letters
  <2>3. ChunkTypeOK' /\ InPlace'
    BY <2>1 DEF ChunkInv, ChunkTypeOK, InPlace
  <2>4. InOrder' /\ NothingLost' /\ TailIsLast'
    BY <2>1, <2>2 DEF ChunkInv, InOrder, NothingLost, TailIsLast
  <2>5. ChunkedRight'
    BY <2>1, <2>2 DEF ChunkInv, ChunkedRight, GoesOn
  <2> QED
    BY <2>3, <2>4, <2>5 DEF ChunkInv
<1> QED
  BY <1>1, TakeSectionKeeps, SplitKeeps, TakePieceKeeps, EndOfSplitKeeps DEF ChunkNext
==============================================================================
