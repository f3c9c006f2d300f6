-------------------------------- MODULE Chunker --------------------------------
(***************************************************************************)
(* chunk_by_sections of pipeline/chunker.py.  A section is a sequence of   *)
(* tokens.  A character is a letter and the tokens it takes "more", or a   *)
(* separator, of which three kinds stand for the eight of the code: blank  *)
(* ones that are tried first (paragraphs, lines), marks that are not blank *)
(* (the end of a sentence) and blank ones tried last.  A text cut out of   *)
(* it is the set of its places, which are always read in their order.      *)
(* Several characters in one token, of which a cut by characters makes     *)
(* lighter pieces, are left out.  Encoded behind the tail of the piece     *)
(* before, the words at the seam may take more tokens than they did alone. *)
(***************************************************************************)
EXTENDS Integers, FiniteSets, Sequences

CONSTANTS MaxTokens, \* max_tokens, less than the code's 1024
          Overlap,   \* overlap_tokens
          Seam,      \* tokens a seam may take more
          MaxLength  \* Bound: tokens of a document

ASSUME ChunkerAssumption ==
  /\ MaxTokens \in Nat \ {0} /\ Overlap \in 0..(MaxTokens - 1)
  /\ Seam \in 0..MaxTokens /\ MaxLength \in Nat

VARIABLES sections, \* the parsed document
          here,     \* the section under way
          splits,   \* what the calls of _split_recursive, outermost first, have left
          tail,     \* prev_tail
          chunks,   \* the chunks so far, each with its section
          overfull  \* history: sections with a piece that is more than max_tokens

chunkVars == <<sections, here, splits, tail, chunks, overfull>>

Ink == {"letter", "more"}
Separators == <<"break", "stop", "space">>
Blank == {"break", "space"}
Tokens == Ink \cup {"break", "stop", "space"}

\* What a character takes more comes right behind it.
WellFormed(t) == \A i \in DOMAIN t : t[i] = "more" => i > 1 /\ t[i - 1] \in Ink

ChunkStart(parsed) ==
  /\ sections = parsed
  /\ here = 1 /\ splits = <<>> /\ tail = {} /\ chunks = <<>> /\ overfull = {}

ChunkInit ==
  \E n \in 0..MaxLength : \E t \in [1..n -> Tokens], u \in [1..MaxLength - n -> Tokens] :
    WellFormed(t) /\ WellFormed(u) /\ ChunkStart(<<t, u>>)
------------------------------------------------------------------------------
Token(i) == sections[here][i]
Fits(t) == Cardinality(t) <= MaxTokens

FirstOf(n, t) == {i \in t : Cardinality({j \in t : j <= i}) <= n}
LastOf(n, t) == {i \in t : Cardinality({j \in t : j >= i}) <= n}

Strip(t) ==
  {i \in t : /\ \E j \in t : j <= i /\ Token(j) \notin Blank
             /\ \E j \in t : j >= i /\ Token(j) \notin Blank}

\* The last resort: the first max_tokens characters, whatever they weigh.
HardCut(t) == {i \in t : Cardinality({j \in t : j <= i /\ Token(j) # "more"}) <= MaxTokens}

\* Plausible slip: what is too long is cut at its end.
TrimEnd(t, seam) == FirstOf(MaxTokens - seam, t)

\* Of a text that takes that many tokens more.
TrimToTokens(t, seam) == LastOf(MaxTokens - seam, t)
TailForOverlap(t) == LastOf(Overlap, t)

\* An empty buffer takes no separator: those in front of a piece fall away.
Begun(t, sep) == {i \in t : \E j \in t : j <= i /\ Token(j) # sep}

\* What is flushed first when t is split at sep: as many pieces put together
\* again as fit, and one at least.
Flushed(t, sep) ==
  LET ends == {i \in Begun(t, sep) : i + 1 \notin t \/ Token(i + 1) = sep}
      fitting == {e \in ends : Fits({i \in Begun(t, sep) : i <= e})}
  IN {i \in Begun(t, sep) : \/ \E e \in fitting : i <= e
                            \/ fitting = {} /\ \A e \in ends : i <= e}

\* What is left: the separator at the flush goes into neither of the two.
Unflushed(t, sep) == Begun({i \in t : \A j \in Flushed(t, sep) : j < i}, sep)
------------------------------------------------------------------------------
Emit(t) == chunks' = Append(chunks, [section |-> here, text |-> t])

\* A section that is blank, that fits, or that is split.
TakeSection ==
  /\ here <= Len(sections) /\ splits = <<>>
  /\ LET text == Strip(DOMAIN sections[here])
     IN IF Fits(text)
        THEN /\ IF text = {} THEN UNCHANGED chunks ELSE Emit(text)
             /\ here' = here + 1 /\ UNCHANGED splits
        ELSE splits' = <<text>> /\ UNCHANGED <<here, chunks>>
  /\ UNCHANGED <<sections, tail, overfull>>

Depth == Len(splits)
Text == splits[Depth]

\* What does not fit is split at the separator of its depth, and what is
\* flushed goes one deeper.
SplitRecursive ==
  /\ splits # <<>> /\ ~Fits(Text) /\ Depth <= Len(Separators)
  /\ LET sep == Separators[Depth]
     IN splits' = Append([splits EXCEPT ![Depth] = Unflushed(@, sep)], Flushed(Text, sep))
  /\ UNCHANGED <<sections, here, tail, chunks, overfull>>

\* The next piece, behind the tail of the one before, if there is one, and cut
\* to size then, unless that leaves nothing but blanks.  Pieces are listed
\* before they are looked at, which makes no difference.
TakePiece ==
  /\ splits # <<>> /\ Text # {}
  /\ Fits(Text) \/ Depth > Len(Separators)
  /\ \E seam \in IF tail = {} THEN {0} ELSE 0..Seam :
       LET piece == HardCut(Text)
           text == Strip(IF tail = {} THEN piece ELSE TrimToTokens(tail \cup piece, seam))
       IN /\ splits' = [splits EXCEPT ![Depth] = @ \ piece]
          /\ IF text = {} THEN UNCHANGED <<chunks, tail>>
             ELSE Emit(text) /\ tail' = TailForOverlap(text)
          /\ overfull' = IF Cardinality(piece) + seam <= MaxTokens
                         THEN overfull ELSE overfull \cup {here}
  /\ UNCHANGED <<sections, here>>

\* A call has nothing left; with the outermost one the section ends.
EndOfSplit ==
  /\ splits # <<>> /\ Text = {}
  /\ splits' = SubSeq(splits, 1, Depth - 1)
  /\ IF Depth = 1 THEN here' = here + 1 /\ tail' = {} ELSE UNCHANGED <<here, tail>>
  /\ UNCHANGED <<sections, chunks, overfull>>

ChunkNext == TakeSection \/ SplitRecursive \/ TakePiece \/ EndOfSplit
------------------------------------------------------------------------------
ChunkTypeOK ==
  /\ sections \in Seq(Seq(Tokens)) /\ here \in 1..Len(sections) + 1
  /\ splits \in Seq(SUBSET Nat) /\ tail \subseteq Nat
  /\ chunks \in Seq([section : 1..Len(sections), text : SUBSET Nat])
  /\ overfull \subseteq Nat

Letters(s) == {i \in DOMAIN sections[s] : sections[s][i] \in Ink}

\* The letters of section s in the first n chunks.
Covered(s, n) == {i \in Letters(s) :
                    \E c \in 1..n : chunks[c].section = s /\ i \in chunks[c].text}

\* A chunk is within the hard cap, and its letters are a run of its section's
\* that goes on where the chunks before it end, but for the overlap.
GoesOn(c) ==
  LET s == chunks[c].section
      letters == chunks[c].text \cap Letters(s)
      before == Covered(s, c - 1)
  IN /\ Cardinality(chunks[c].text) \in 1..MaxTokens
     /\ Cardinality(letters \cap before) <= Overlap
     /\ \A i \in letters : /\ \A k \in Letters(s) : k < i => k \in before \cup letters
                           /\ \A k \in before : k > i => k \in letters

\* Cut by whatever separators and laid over each other, the chunks are
\* within the cap and read one after the other are the text of each section
\* (pipeline/chunker.py:56-142, 157-193), but for a section with a piece that
\* is more than the cap: cut by characters that take several tokens, or full
\* to the brim before its words at the seam were encoded anew.
ChunkedRight ==
  /\ \A c \in DOMAIN chunks : chunks[c].section \notin overfull => GoesOn(c)
  /\ \A s \in (1..here - 1) \ overfull : Covered(s, Len(chunks)) = Letters(s)

\* chunker.py:67: max_tokens is a "hard cap - chunks must not exceed this".
CapIsHard == \A c \in DOMAIN chunks : Cardinality(chunks[c].text) <= MaxTokens

\* chunker.py:120: what is trimmed of a piece is the "overlap tail".
NoLetterTrimmed == \A s \in 1..here - 1 : Covered(s, Len(chunks)) = Letters(s)
==============================================================================
