--------------------------- MODULE ChunkerProofs ---------------------------
(***************************************************************************)
(* For every document, configuration and element size:                     *)
(*                                                                         *)
(* ChunksFit: what the structural chunkers yield, and the group they have  *)
(* open, stays within max_tokens, plus the carried tail for the hybrid     *)
(* one.  It is inductive once an empty group is known to count no tokens   *)
(* (the first element of a group is not compared with the limit together   *)
(* with it) and the chunkers are known to run only on a configuration that *)
(* parse_size_config accepted.  A tail is bounded by its choice, an        *)
(* overflowing group by the comparison that closes it, and a piece of an   *)
(* oversized element by the step it is cut with.                           *)
(*                                                                         *)
(* ChunksCoverTheDocument: elements follow each other without a gap, and   *)
(* the open group is the end of the document.  Chunks are lists of         *)
(* consecutive elements; each meets the one before it, and the open group, *)
(* or the window at index, meets the last of them.  So what is yielded     *)
(* next neither skips a token nor repeats more than the overlap, and every *)
(* element read is in a chunk or still in the group.                       *)
(***************************************************************************)
EXTENDS Chunker, Integers, SequenceTheorems, WellFoundedInduction, TLAPS

Parts      == [element : Nat, at : Int, tokens : Int]
Candidates == [parts : Seq(Parts), tokens : Int, ordinal : Int]

Fit(s, limit) == \A i \in 1..Len(s) : s[i].tokens <= limit

\* The chunkers run on an accepted configuration, and their state is typed
Typed ==
  /\ size \in [max_tokens : Nat, overlap_tokens : Nat, oversized : {"split", "fail"}]
  /\ chunker \in {"hierarchical", "hybrid", "line_based"}
  /\ doc \in Seq([heading : Headings, at : Int, tokens : Int])
  /\ position \in Nat
  /\ group \in Seq(Parts)
  /\ group_tokens \in Int
  /\ Structural => chunks \in Seq(Candidates)
  /\ status # "new" /\ status # "rejected" => ValidSize
  /\ status = "windows" => ~Structural

\* What makes ChunksFit inductive
FitInv ==
  /\ Typed
  /\ group = <<>> /\ Structural => group_tokens = 0
  /\ ChunksFit

-----------------------------------------------------------------------------
\* How many pieces an element is cut into is a natural number.
LEMMA PiecesAreCounted == ASSUME NEW a \in Nat, NEW b \in Nat, b > 0 PROVE a \div b \in Nat
OBVIOUS

\* A set of natural numbers that is not empty has a least element.
LEMMA LeastElement == ASSUME NEW T \in SUBSET Nat, T # {} PROVE \E x \in T : \A y \in T : x <= y
<1> DEFINE R == {p \in Nat \X Nat : p[1] < p[2]}
<1>1. IsWellFoundedOn(OpToRel(<, Nat), Nat)
  BY NatLessThanWellFounded
<1>2. OpToRel(<, Nat) = R
  BY DEF OpToRel
<1>3. PICK x \in T : \A y \in T : ~(<<y, x>> \in R)
  <2>1. IsWellFoundedOn(R, Nat)
    BY <1>1, <1>2
  <2> HIDE DEF R
  <2> QED BY <2>1, WFMin
<1>4. ASSUME NEW y \in T PROVE x <= y
  <2>1. y \in Nat /\ x \in Nat
    OBVIOUS
  <2>2. <<y, x>> \in Nat \X Nat => ~(<<y, x>>[1] < <<y, x>>[2])
    BY <1>3
  <2> QED BY <2>1, <2>2
<1> QED BY <1>4

\* The tokens of a run of parts are an integer.
LEMMA SpanIsInt == ASSUME NEW parts \in Seq(Parts) PROVE Span(parts) \in Int
<1>1. CASE parts = <<>>
  BY <1>1 DEF Span
<1>2. CASE parts # <<>>
  <2>1. parts[1] \in Parts /\ parts[Len(parts)] \in Parts
    BY <1>2
  <2> QED BY <1>2, <2>1 DEF Span, Parts
<1> QED BY <1>1, <1>2

\* _overlap_tail: the tail is a run of parts with at most overlap_tokens
\* tokens.
LEMMA TailFits ==
  ASSUME Typed
  PROVE  _overlap_tail \in Seq(Parts) /\ Span(_overlap_tail) <= size.overlap_tokens
<1>1. CASE size.overlap_tokens = 0 \/ TailStarts = {}
  BY <1>1 DEF _overlap_tail, Span, Typed
<1>2. CASE size.overlap_tokens # 0 /\ TailStarts # {}
  <2> DEFINE k == CHOOSE k \in TailStarts : \A j \in TailStarts : k <= j
             tail == SubSeq(group, k, Len(group))
  <2>1. TailStarts \in SUBSET Nat
    BY DEF TailStarts
  <2>2. k \in TailStarts
    BY <1>2, <2>1, LeastElement
  <2>3. k \in 1..Len(group) /\ Span(tail) <= size.overlap_tokens
    BY <2>2 DEF TailStarts
  <2>4. Len(group) \in Nat /\ \A i \in 1..Len(group) : group[i] \in Parts
    BY DEF Typed
  <2>5. tail \in Seq(Parts)
    <3> HIDE DEF k
    <3>1. k \in Int /\ \A i \in k..Len(group) : group[i] \in Parts
      BY <2>3, <2>4
    <3> QED BY <2>4, <3>1, SubSeqProperties
  <2>6. _overlap_tail = tail
    BY <1>2 DEF _overlap_tail
  <2> QED BY <2>3, <2>5, <2>6
<1> QED BY <1>1, <1>2

\* split_oversized: every piece is a part with at most max_tokens tokens.
LEMMA PiecesFit ==
  ASSUME Typed, ValidSize, NEW part \in Parts, part.tokens \in Nat
  PROVE  split_oversized(part) \in Seq(Parts) /\ Fit(split_oversized(part), size.max_tokens)
<1> DEFINE mx == size.max_tokens
           pieces == (part.tokens + mx - 1) \div mx
           piece(i) == [element |-> part.element, at |-> part.at + (i - 1) * mx,
                        tokens |-> Least(mx, part.tokens - (i - 1) * mx)]
<1>1. mx \in Nat /\ mx > 0
  BY DEF Typed, ValidSize
<1>2. pieces \in Nat
  <2>1. part.tokens + mx - 1 \in Nat
    BY <1>1
  <2> QED BY <1>1, <2>1, PiecesAreCounted
<1>3. ASSUME NEW i \in 1..pieces PROVE piece(i) \in Parts /\ piece(i).tokens <= mx
  <2>1. i \in Nat
    BY <1>2
  <2>2. (i - 1) * mx \in Int
    BY <1>1, <2>1
  <2> QED BY <1>1, <2>2 DEF Parts, Least
<1>4. split_oversized(part) = [i \in 1..pieces |-> piece(i)]
  BY DEF split_oversized
<1> HIDE DEF pieces, piece
<1> QED BY <1>2, <1>3, <1>4 DEF Fit

\* What yielding the open group adds is a candidate within the limit.
LEMMA YieldedFits ==
  ASSUME FitInv, Structural, ValidSize
  PROVE  Yielded \in Seq(Candidates) /\ Fit(Yielded, Limit)
<1>1. chunks \in Seq(Candidates) /\ Fit(chunks, Limit) /\ group_tokens <= Limit
  BY DEF FitInv, Typed, ChunksFit, Fit
<1>2. CASE group = <<>>
  BY <1>1, <1>2 DEF Yielded
<1>3. CASE group # <<>>
  <2> DEFINE new == build_candidate(group, group_tokens, Len(chunks))
  <2>1. new \in Candidates /\ new.tokens <= Limit
    BY <1>1 DEF build_candidate, Candidates, FitInv, Typed
  <2>2. Yielded = Append(chunks, new)
    BY <1>3 DEF Yielded
  <2> HIDE DEF new
  <2> QED BY <1>1, <2>1, <2>2 DEF Fit
<1> QED BY <1>2, <1>3

\* The next element is a part of the document.
LEMMA PartIsTyped ==
  ASSUME Typed, NEW t \in TokenCounts
  PROVE  Part(Len(doc) + 1, t) \in Parts /\ Part(Len(doc) + 1, t).tokens = t /\ t \in Nat
BY CountsAssumption DEF Typed, Part, Parts

-----------------------------------------------------------------------------
\* The configurations a run starts from satisfy the invariant.
LEMMA FitInit == ChunkInit => FitInv
<1> SUFFICES ASSUME ChunkInit PROVE FitInv
  OBVIOUS
<1>1. /\ size \in [max_tokens : Nat, overlap_tokens : Nat, oversized : {"split", "fail"}]
      /\ chunker \in {"hierarchical", "hybrid", "line_based"}
  BY SizesAssumption DEF ChunkInit
<1>2. Typed
  BY <1>1 DEF ChunkInit, Typed
<1>3. ChunksFit
  BY <1>1 DEF ChunkInit, ChunksFit, Limit
<1> QED BY <1>2, <1>3 DEF ChunkInit, FitInv

\* take_item: an element that fits joins the group, or closes it and opens
\* one behind the tail.
LEMMA TakeItemFits ==
  ASSUME FitInv, NEW h \in Headings, NEW t \in TokenCounts, take_item(h, t)
  PROVE  FitInv'
<1> DEFINE tail    == IF chunker = "hybrid" THEN _overlap_tail ELSE <<>>
           carried == IF ~Overflows(t) THEN group ELSE tail
           item    == Part(Len(doc) + 1, t)
<1>1. Structural /\ ValidSize /\ Typed /\ t <= size.max_tokens /\ status = "reading"
  BY DEF take_item, NextElement, FitInv, Typed, Structural
<1>2. item \in Parts /\ t \in Nat
  BY <1>1, PartIsTyped
<1>3. Yielded \in Seq(Candidates) /\ Fit(Yielded, Limit)
  BY <1>1, YieldedFits
<1>4. tail \in Seq(Parts) /\ Span(tail) \in Int /\ Span(tail) + t <= Limit
  <2>1. CASE chunker = "hybrid"
    <3>1. tail \in Seq(Parts) /\ Span(tail) <= size.overlap_tokens
      BY <1>1, <2>1, TailFits
    <3>2. Span(tail) \in Int
      BY <3>1, SpanIsInt
    <3> HIDE DEF tail
    <3> QED BY <1>1, <1>2, <2>1, <3>1, <3>2 DEF Typed, Limit
  <2>2. CASE chunker # "hybrid"
    BY <1>1, <1>2, <2>2 DEF Typed, Limit, Span
  <2> QED BY <2>1, <2>2
<1>5. carried \in Seq(Parts)
  BY <1>1, <1>4 DEF Typed
<1>6. /\ group' = Append(carried, item)
      /\ group_tokens' = (IF Overflows(t) THEN Span(carried) ELSE group_tokens) + t
      /\ chunks' = IF Overflows(t) THEN Yielded ELSE chunks
      /\ UNCHANGED <<chunker, size, index, kept, status>>
  BY DEF take_item
<1>7. group_tokens' \in Int /\ group_tokens' <= Limit
  <2>1. CASE Overflows(t)
    <3>1. group_tokens' = Span(tail) + t
      BY <1>6, <2>1
    <3> HIDE DEF tail
    <3> QED BY <1>2, <1>4, <3>1
  <2>2. CASE ~Overflows(t)
    BY <1>1, <1>2, <1>6, <2>2 DEF Overflows, FitInv, Typed, Limit
  <2> QED BY <2>1, <2>2
<1>8. chunks' \in Seq(Candidates) /\ Fit(chunks', Limit)
  BY <1>1, <1>3, <1>6 DEF FitInv, Typed, ChunksFit, Fit
<1>9. group' \in Seq(Parts) /\ group' # <<>>
  <2> HIDE DEF carried, item
  <2> QED BY <1>2, <1>5, <1>6
<1>10. doc' \in Seq([heading : Headings, at : Int, tokens : Int]) /\ position' \in Nat
  BY <1>1, <1>2 DEF take_item, Position, Typed
<1>11. Typed'
  BY <1>1, <1>6, <1>7, <1>8, <1>9, <1>10 DEF Typed, Structural, ValidSize
<1>12. ChunksFit'
  BY <1>1, <1>6, <1>7, <1>8 DEF ChunksFit, Fit, Limit
<1> QED BY <1>9, <1>11, <1>12 DEF FitInv

\* take_oversized: the open group and the pieces are yielded, or the group
\* alone before the chunker raises.
LEMMA TakeOversizedFits ==
  ASSUME FitInv, NEW h \in Headings, NEW t \in TokenCounts, take_oversized(h, t)
  PROVE  FitInv'
<1> DEFINE pieces == split_oversized(Part(Len(doc) + 1, t))
           cut    == [i \in 1..Len(pieces) |->
                        build_candidate(<<pieces[i]>>, pieces[i].tokens, Len(Yielded) + i - 1)]
<1>1. Structural /\ ValidSize /\ Typed /\ status = "reading"
  BY DEF take_oversized, NextElement, FitInv, Typed, Structural
<1>2. pieces \in Seq(Parts) /\ Fit(pieces, size.max_tokens)
  BY <1>1, PartIsTyped, PiecesFit
<1>3. Yielded \in Seq(Candidates) /\ Fit(Yielded, Limit)
  BY <1>1, YieldedFits
<1>4. cut \in Seq(Candidates) /\ Fit(cut, Limit)
  <2>1. size.max_tokens <= Limit /\ size.max_tokens \in Nat /\ Limit \in Nat
    BY <1>1 DEF Typed, Limit
  <2>2. Len(pieces) \in Nat /\ Len(Yielded) \in Nat
    BY <1>2, <1>3
  <2>3. ASSUME NEW i \in 1..Len(pieces)
        PROVE  /\ pieces[i] \in Parts
               /\ pieces[i].tokens \in Int /\ pieces[i].tokens <= Limit
    <3>1. pieces[i] \in Parts /\ pieces[i].tokens <= size.max_tokens
      BY <1>2, <2>3 DEF Fit
    <3> QED BY <2>1, <3>1 DEF Parts
  <2>4. ASSUME NEW i \in 1..Len(pieces)
        PROVE  cut[i] \in Candidates /\ cut[i].tokens <= Limit
    <3> HIDE DEF pieces
    <3> QED BY <2>2, <2>3, <2>4 DEF build_candidate, Candidates
  <2> HIDE DEF pieces
  <2>5. Len(cut) = Len(pieces) /\ cut \in Seq(Candidates)
    BY <2>2, <2>4
  <2> QED BY <2>4, <2>5 DEF Fit
<1>5. chunks' \in Seq(Candidates) /\ Fit(chunks', Limit)
  <2>1. CASE chunks' = Yielded
    BY <1>3, <2>1
  <2>2. CASE chunks' = Yielded \o cut
    <3> HIDE DEF cut
    <3> QED BY <1>3, <1>4, <2>2 DEF Fit
  <2> QED BY <2>1, <2>2 DEF take_oversized
<1>6. doc' \in Seq([heading : Headings, at : Int, tokens : Int]) /\ position' \in Nat
  BY <1>1, PartIsTyped DEF take_oversized, Position, Typed
<1>7. Typed'
  BY <1>1, <1>5, <1>6 DEF take_oversized, Typed, Structural, ValidSize
<1>8. ChunksFit' /\ group_tokens' = 0
  BY <1>1, <1>5 DEF take_oversized, Typed, ChunksFit, Fit, Limit
<1> QED BY <1>7, <1>8 DEF FitInv

\* end_section: the group is yielded and a new section starts without one.
LEMMA EndSectionFits == ASSUME FitInv, end_section PROVE FitInv'
<1>1. Structural /\ ValidSize /\ Typed
  BY DEF end_section, FitInv, Typed, Structural
<1>2. Yielded \in Seq(Candidates) /\ Fit(Yielded, Limit)
  BY <1>1, YieldedFits
<1>3. Typed'
  BY <1>1, <1>2 DEF end_section, Typed, Structural, ValidSize, Parts
<1>4. ChunksFit' /\ group_tokens' = 0
  BY <1>1, <1>2 DEF end_section, Typed, ChunksFit, Fit, Limit
<1> QED BY <1>3, <1>4 DEF FitInv

\* The steps of the line_based chunker concern no structural one.
LEMMA LineBasedFits ==
  ASSUME FitInv, read_all \/ window \/ last_window
                 \/ \E h \in Headings, t \in TokenCounts : read_element(h, t)
  PROVE  FitInv'
<1> USE DEF FitInv
<1>1. ASSUME NEW h \in Headings, NEW t \in TokenCounts, read_element(h, t) PROVE FitInv'
  <2>1. Part(Len(doc) + 1, t) \in Parts /\ t \in Nat
    BY PartIsTyped
  <2>2. Typed' /\ ~Structural'
    BY <1>1, <2>1 DEF read_element, Position, Typed, Structural, ValidSize
  <2> QED BY <2>2 DEF ChunksFit
<1>2. CASE read_all
  BY <1>2 DEF read_all, Typed, Structural, ValidSize, ChunksFit
<1>3. CASE window
  BY <1>3 DEF window, Typed, Structural, ValidSize, ChunksFit
<1>4. CASE last_window
  BY <1>4 DEF last_window, Typed, Structural, ValidSize, ChunksFit
<1> QED BY <1>1, <1>2, <1>3, <1>4

\* Every step of a chunker keeps the invariant.
LEMMA FitStep == ASSUME FitInv, [ChunkNext]_chunkVars PROVE FitInv'
<1>1. CASE parse_size_config
  BY <1>1 DEF parse_size_config, FitInv, Typed, ChunksFit, Limit, Structural, ValidSize
<1>2. ASSUME NEW h \in Headings, NEW t \in TokenCounts, take_item(h, t) PROVE FitInv'
  BY <1>2, TakeItemFits
<1>3. ASSUME NEW h \in Headings, NEW t \in TokenCounts, take_oversized(h, t) PROVE FitInv'
  BY <1>3, TakeOversizedFits
<1>4. CASE end_section
  BY <1>4, EndSectionFits
<1>5. CASE end_document \/ drop_empty_candidates
  BY <1>5 DEF end_document, drop_empty_candidates, FitInv, Typed, ChunksFit, Limit, Structural, ValidSize
<1>6. CASE read_all \/ window \/ last_window
           \/ \E h \in Headings, t \in TokenCounts : read_element(h, t)
  BY <1>6, LineBasedFits
<1>7. CASE UNCHANGED chunkVars
  BY <1>7 DEF chunkVars, FitInv, Typed, ChunksFit, Limit, Structural, ValidSize
<1> QED BY <1>1, <1>2, <1>3, <1>4, <1>5, <1>6, <1>7 DEF ChunkNext, iterate_chunks

\* hierarchical.py and hybrid.py: for every document and every accepted
\* configuration, no chunk has more than max_tokens tokens, plus
\* overlap_tokens for the hybrid chunker's carried tail.
THEOREM StructuralChunksFit == ChunkSpec => []ChunksFit
<1>1. FitInv => ChunksFit
  BY DEF FitInv
<1> QED BY <1>1, FitInit, FitStep, PTL DEF ChunkSpec

-----------------------------------------------------------------------------
(* What makes ChunksCoverTheDocument inductive *)

Elements   == [heading : Headings, at : Nat, tokens : Nat]
TextParts  == [element : Nat, at : Nat, tokens : Nat]
TextChunks == [parts : Seq(TextParts), tokens : Nat, ordinal : Nat]

End(n)   == doc[n].at + doc[n].tokens
Whole(n) == [element |-> n, at |-> doc[n].at, tokens |-> doc[n].tokens]

\* Elements a to b as parts
Run(a, b) == [i \in 1..(b - a + 1) |-> Whole(a + i - 1)]

LastPart(c) == c.parts[Len(c.parts)]
Latest      == chunks[Len(chunks)]
Open        == build_candidate(group, group_tokens, Len(chunks))

\* Elements follow each other without a gap
DocInv ==
  /\ doc \in Seq(Elements) /\ position \in Nat
  /\ doc = <<>> => position = 0
  /\ doc # <<>> => doc[1].at = 0 /\ End(Len(doc)) = position
  /\ \A n \in 1..Len(doc) : End(n) <= position
  /\ \A m, n \in 1..Len(doc) : m < n => End(m) <= doc[n].at
  /\ \A m, n \in 1..Len(doc) : n = m + 1 => doc[n].at = End(m)

\* The open group is the end of the document
OpenInv ==
  /\ Len(group) \in 0..Len(doc) /\ group = Run(Len(doc) - Len(group) + 1, Len(doc))
  /\ ~Structural => Len(group) = Len(doc) /\ status # "failed"
  /\ status \in {"new", "rejected"} => doc = <<>> /\ chunks = <<>>
  /\ Structural =>
       /\ group_tokens = Span(group)
       /\ \A n \in (Len(doc) - Len(group) + 1)..Len(doc) :
            doc[n].heading = doc[Len(doc)].heading /\ doc[n].tokens <= size.max_tokens
       /\ IF between THEN group = <<>> ELSE doc # <<>>
       /\ status \in {"done", "kept"} => between

\* A chunk by itself, and two neighbours
IsChunk(c) ==
  /\ c.parts # <<>> /\ IsRun(c)
  /\ \A k \in 1..Len(c.parts) : c.parts[k].element \in 1..Len(doc)
  /\ Structural => doc[c.parts[1].element].heading = doc[LastPart(c).element].heading

Meets(c, d) ==
  /\ First(c) <= First(d) /\ First(d) <= Past(c) /\ Past(c) <= Past(d)
  /\ chunker = "hierarchical" => First(d) = Past(c)
  /\ chunker = "hybrid" => Past(c) - First(d) <= size.overlap_tokens /\ LastPart(d) # LastPart(c)
  /\ Structural => BoundaryIsNeeded(c, d)

\* Chunks in order, the first of which has ordinal n
InOrder(s, n) ==
  /\ s \in Seq(TextChunks)
  /\ \A i \in 1..Len(s) : IsChunk(s[i]) /\ s[i].ordinal = n + i - 1
  /\ \A i \in 1..(Len(s) - 1) : Meets(s[i], s[i + 1])

ListInv ==
  /\ InOrder(chunks, 0)
  /\ status = "kept" => kept = {i \in 1..Len(chunks) : chunks[i].tokens > 0}

\* Element n is in one of these chunks, and that has text
HasText(c, n) == c.tokens > 0 /\ \E k \in 1..Len(c.parts) : c.parts[k].element = n
Covers(s, n)  == \E i \in 1..Len(s) : HasText(s[i], n)

\* Chunks that reach from the first token read to the last
Reach(s) ==
  /\ s # <<>> /\ First(s[1]) = 0 /\ Past(s[Len(s)]) = position
  /\ LastPart(s[Len(s)]).element = Len(doc)

InGroup(n) == Len(doc) - Len(group) < n

\* Where the open group, or the next one, joins the chunks
JoinInv ==
  Structural /\ status # "failed" =>
    /\ chunks = <<>> => IF group = <<>> THEN doc = <<>> ELSE group[1].at = 0
    /\ chunks # <<>> => First(chunks[1]) = 0
    /\ chunks # <<>> /\ group = <<>> => Reach(chunks) /\ (~between => IsPiece(LastPart(Latest)))
    /\ chunks # <<>> /\ group # <<>> => Meets(Latest, Open)
    /\ \A n \in 1..Len(doc) : doc[n].tokens > 0 => Covers(chunks, n) \/ InGroup(n)

Stride == size.max_tokens - size.overlap_tokens

\* The elements a window that starts at token s + 1 takes
Taken(s) == Contributing(s + 1, Least(s + size.max_tokens, position))

\* Where the next window joins the chunks
LineInv ==
  /\ index \in Nat
  /\ ~Structural =>
       /\ status \in {"new", "reading", "rejected"} => chunks = <<>> /\ index = 0
       /\ chunks = <<>> => index = 0
       /\ chunks # <<>> =>
            /\ First(chunks[1]) = 0
            /\ index - Stride >= 0 /\ index - Stride < position
            /\ Latest.parts = Taken(index - Stride)
       /\ \A n \in 1..Len(doc) : doc[n].tokens > 0 /\ doc[n].at < index => Covers(chunks, n)
       /\ status \in {"done", "kept"} => index >= position

CoverInv == FitInv /\ DocInv /\ OpenInv /\ ListInv /\ JoinInv /\ LineInv

-----------------------------------------------------------------------------
(* Runs of the document *)

\* Positions are numbers, and grow with the elements.
LEMMA DocFacts ==
  ASSUME DocInv
  PROVE  /\ Len(doc) \in Nat
         /\ \A n \in 1..Len(doc) :
              doc[n] \in Elements /\ doc[n].at \in Nat /\ doc[n].tokens \in Nat /\ End(n) \in Nat
              /\ End(n) = doc[n].at + doc[n].tokens /\ doc[n].at <= End(n) /\ End(n) <= position
         /\ \A m, n \in 1..Len(doc) : m <= n => doc[m].at <= doc[n].at /\ End(m) <= End(n)
         /\ \A m, n \in 1..Len(doc) : m < n => End(m) <= doc[n].at
         /\ \A m \in 1..(Len(doc) - 1) : doc[m + 1].at = End(m)
<1>1. Len(doc) \in Nat /\ \A n \in 1..Len(doc) : doc[n] \in Elements
  BY DEF DocInv
<1>2. ASSUME NEW n \in 1..Len(doc)
      PROVE  /\ doc[n].at \in Nat /\ doc[n].tokens \in Nat /\ End(n) \in Nat
             /\ End(n) = doc[n].at + doc[n].tokens /\ doc[n].at <= End(n) /\ End(n) <= position
  <2>1. doc[n].at \in Nat /\ doc[n].tokens \in Nat
    BY <1>1 DEF Elements
  <2>2. End(n) = doc[n].at + doc[n].tokens
    BY DEF End
  <2>3. End(n) <= position
    BY DEF DocInv
  <2> QED BY <2>1, <2>2, <2>3
<1>3. ASSUME NEW m \in 1..Len(doc), NEW n \in 1..Len(doc), m < n PROVE End(m) <= doc[n].at
  BY <1>3, Zenon DEF DocInv
<1>4. ASSUME NEW m \in 1..Len(doc), NEW n \in 1..Len(doc), m <= n
      PROVE  doc[m].at <= doc[n].at /\ End(m) <= End(n)
  <2>1. CASE m = n
    BY <1>2, <2>1
  <2>2. CASE m < n
    BY <1>2, <1>3, <2>2
  <2> QED BY <1>1, <1>4, <2>1, <2>2
<1>5. ASSUME NEW m \in 1..(Len(doc) - 1) PROVE doc[m + 1].at = End(m)
  <2>1. m \in 1..Len(doc) /\ m + 1 \in 1..Len(doc)
    BY <1>1
  <2> QED BY <2>1, Zenon DEF DocInv
<1> QED BY <1>1, <1>2, <1>3, <1>4, <1>5

\* A run is a list of parts, one for each of its elements.
LEMMA RunFacts ==
  ASSUME DocInv, NEW a \in 1..Len(doc), NEW b \in a..Len(doc)
  PROVE  /\ Run(a, b) \in Seq(TextParts) /\ Run(a, b) # <<>>
         /\ Len(Run(a, b)) = b - a + 1
         /\ \A i \in 1..(b - a + 1) : Run(a, b)[i] = Whole(a + i - 1)
         /\ Run(a, b)[1] = Whole(a) /\ Run(a, b)[b - a + 1] = Whole(b)
<1>1. Len(doc) \in Nat /\ a \in Nat /\ b \in Nat /\ \A n \in 1..Len(doc) : doc[n] \in Elements
  BY DEF DocInv
<1>2. ASSUME NEW n \in 1..Len(doc) PROVE Whole(n) \in TextParts
  BY <1>1 DEF Whole, TextParts, Elements
<1>3. ASSUME NEW i \in 1..(b - a + 1) PROVE a + i - 1 \in 1..Len(doc)
  BY <1>1
<1> DEFINE r == Run(a, b)
<1>4. r = [i \in 1..(b - a + 1) |-> Whole(a + i - 1)]
  BY DEF Run
<1>5. b - a + 1 \in Nat /\ 1 \in 1..(b - a + 1) /\ b - a + 1 \in 1..(b - a + 1) /\ a + 1 - 1 = a /\ a + (b - a + 1) - 1 = b
  BY <1>1
<1> HIDE DEF r
<1>6. \A i \in 1..(b - a + 1) : r[i] = Whole(a + i - 1) /\ r[i] \in TextParts
  BY <1>2, <1>3, <1>4
<1>7. r \in Seq(TextParts) /\ Len(r) = b - a + 1
  BY <1>4, <1>5, <1>6
<1>8. r # <<>>
  BY <1>5, <1>7
<1>9. r[1] = Whole(a) /\ r[b - a + 1] = Whole(b)
  BY <1>5, <1>6
<1> QED BY <1>6, <1>7, <1>8, <1>9 DEF r

\* Its tokens are those from its first element to its last.
LEMMA RunSpan ==
  ASSUME DocInv, NEW a \in 1..Len(doc), NEW b \in a..Len(doc)
  PROVE  /\ Span(Run(a, b)) = End(b) - doc[a].at
         /\ Span(Run(a, b)) \in Nat
         /\ \A n \in a..b : doc[n].tokens <= Span(Run(a, b))
<1>1. /\ Run(a, b) # <<>> /\ Len(Run(a, b)) = b - a + 1
      /\ Run(a, b)[1] = Whole(a) /\ Run(a, b)[b - a + 1] = Whole(b)
  BY RunFacts
<1>2. Len(doc) \in Nat /\ a \in Nat /\ b \in Nat /\ b \in 1..Len(doc)
  BY DocFacts
<1>3. \A n \in 1..Len(doc) : /\ doc[n].at \in Nat /\ doc[n].tokens \in Nat /\ End(n) \in Nat
                              /\ End(n) = doc[n].at + doc[n].tokens
  BY DocFacts
<1>4. Span(Run(a, b)) = End(b) - doc[a].at
  <2> DEFINE r == Run(a, b)
  <2> HIDE DEF r
  <2>1. r # <<>> /\ r[Len(r)] = Whole(b) /\ r[1] = Whole(a)
    BY <1>1, Zenon DEF r
  <2>2. Span(r) = doc[b].at + doc[b].tokens - doc[a].at
    BY <2>1 DEF Span, Whole
  <2>3. End(b) = doc[b].at + doc[b].tokens
    BY DEF End
  <2>4. Span(r) = End(b) - doc[a].at
    <3>1. doc[b].at \in Nat /\ doc[b].tokens \in Nat /\ doc[a].at \in Nat /\ End(b) \in Nat
      BY <1>2, <1>3
    <3> QED BY <2>2, <2>3, <3>1
  <2> QED BY <2>4 DEF r
<1>5. \A m, n \in 1..Len(doc) : m <= n => doc[m].at <= doc[n].at /\ End(m) <= End(n)
  BY DocFacts
<1>6. ASSUME NEW n \in a..b PROVE doc[n].tokens <= End(b) - doc[a].at
  <2>1. n \in 1..Len(doc) /\ a <= n /\ n <= b
    BY <1>2
  <2>2. doc[a].at <= doc[n].at /\ End(n) <= End(b)
    BY <1>2, <1>5, <2>1
  <2>3. doc[n].tokens = End(n) - doc[n].at /\ End(n) \in Nat /\ End(b) \in Nat /\ doc[n].at \in Nat /\ doc[a].at \in Nat
    BY <1>2, <1>3, <2>1
  <2>4. End(n) - doc[n].at <= End(b) - doc[n].at /\ End(b) - doc[n].at <= End(b) - doc[a].at
    BY <2>2, <2>3
  <2> QED BY <2>3, <2>4
<1>7. End(b) - doc[a].at \in Nat
  <2>1. doc[a].at <= doc[b].at
    BY <1>2, <1>5
  <2>2. doc[a].at \in Nat /\ doc[b].at \in Nat /\ doc[b].tokens \in Nat /\ End(b) = doc[b].at + doc[b].tokens
    BY <1>2, <1>3
  <2> QED BY <2>1, <2>2
<1> QED BY <1>4, <1>6, <1>7

\* A candidate made of a run, and what its tokens are
LEMMA RunIsChunk ==
  ASSUME DocInv, NEW a \in 1..Len(doc), NEW b \in a..Len(doc), NEW ordinal \in Nat,
         Structural => doc[a].heading = doc[b].heading
  PROVE  LET c == build_candidate(Run(a, b), Span(Run(a, b)), ordinal)
         IN /\ c \in TextChunks /\ IsChunk(c) /\ c.ordinal = ordinal
            /\ First(c) = doc[a].at /\ Past(c) = End(b) /\ LastPart(c) = Whole(b)
            /\ c.tokens = Span(Run(a, b)) /\ c.parts = Run(a, b)
<1> DEFINE r == Run(a, b)
           c == build_candidate(r, Span(r), ordinal)
<1>1. /\ r \in Seq(TextParts) /\ r # <<>> /\ Len(r) = b - a + 1
      /\ \A i \in 1..(b - a + 1) : r[i] = Whole(a + i - 1)
      /\ r[1] = Whole(a) /\ r[b - a + 1] = Whole(b)
  BY RunFacts
<1>2. Span(r) = End(b) - doc[a].at /\ Span(r) \in Nat
  BY RunSpan
<1> HIDE DEF r
<1>3. c.parts = r /\ c.tokens = Span(r) /\ c.ordinal = ordinal /\ c \in TextChunks
  BY <1>1, <1>2 DEF build_candidate, TextChunks
<1> HIDE DEF c
<1>4. Len(doc) \in Nat /\ a \in Nat /\ b \in Nat /\ a \in 1..Len(doc) /\ b \in 1..Len(doc) /\ b - a + 1 \in Nat /\ b - a + 1 >= 1
  BY DocFacts
<1>5. ASSUME NEW i \in 1..(b - a)
      PROVE  r[i + 1].at = r[i].at + r[i].tokens /\ r[i + 1].element = r[i].element + 1
  <2>1. i \in 1..(b - a + 1) /\ i + 1 \in 1..(b - a + 1) /\ a + i - 1 \in 1..Len(doc) /\ a + i \in 1..Len(doc)
    BY <1>4
  <2>2. r[i] = Whole(a + i - 1) /\ r[i + 1] = Whole(a + i)
    BY <1>1, <1>4, <2>1
  <2>4. a + i = (a + i - 1) + 1 /\ a + i - 1 \in 1..(Len(doc) - 1)
    BY <1>4
  <2>3. doc[a + i].at = doc[a + i - 1].at + doc[a + i - 1].tokens
    BY <2>1, <2>4, DocFacts
  <2> QED BY <2>2, <2>3, <2>4 DEF Whole
<1>6. IsRun(c)
  <2>1. Len(r) - 1 = b - a
    BY <1>1, <1>4
  <2> QED BY <1>3, <1>5, <2>1 DEF IsRun
<1>7. \A i \in 1..Len(r) : r[i].element \in 1..Len(doc)
  <2>1. ASSUME NEW i \in 1..(b - a + 1) PROVE r[i].element \in 1..Len(doc)
    <3>1. a + i - 1 \in 1..Len(doc) /\ r[i] = Whole(a + i - 1)
      BY <1>1, <1>4
    <3> QED BY <3>1 DEF Whole
  <2> QED BY <1>1, <2>1
<1>8. First(c) = doc[a].at /\ LastPart(c) = Whole(b) /\ c.parts[1] = Whole(a)
  <2>1. c.parts[1] = Whole(a) /\ LastPart(c) = Whole(b)
    BY <1>1, <1>3 DEF LastPart
  <2> QED BY <2>1 DEF First, Whole
<1>9. Past(c) = End(b)
  <2>1. doc[a].at \in Nat /\ End(b) \in Nat
    BY <1>4, DocFacts
  <2> QED BY <1>2, <1>3, <1>8, <2>1 DEF Past
<1>10. IsChunk(c)
  <2>1. c.parts[1].element = a /\ LastPart(c).element = b
    BY <1>8 DEF Whole
  <2> QED BY <1>1, <1>3, <1>6, <1>7, <2>1 DEF IsChunk
<1> QED BY <1>3, <1>8, <1>9, <1>10 DEF c, r

\* The end of a run is a run.
LEMMA EndOfRun ==
  ASSUME DocInv, NEW a \in 1..Len(doc), NEW b \in a..Len(doc), NEW k \in 1..(b - a + 1)
  PROVE  SubSeq(Run(a, b), k, b - a + 1) = Run(a + k - 1, b)
<1> DEFINE r == Run(a, b)
           e == a + k - 1
           s == SubSeq(r, k, b - a + 1)
           t == Run(e, b)
<1>1. Len(doc) \in Nat /\ a \in Nat /\ b \in Nat /\ k \in Nat /\ k <= b - a + 1
  BY DEF DocInv
<1>2. r \in Seq(TextParts) /\ Len(r) = b - a + 1 /\ \A i \in 1..(b - a + 1) : r[i] = Whole(a + i - 1)
  BY RunFacts
<1>3. e \in 1..Len(doc) /\ b \in e..Len(doc) /\ b - e + 1 = (b - a + 1) - k + 1
  BY <1>1
<1>4. t \in Seq(TextParts) /\ Len(t) = b - e + 1 /\ \A i \in 1..(b - e + 1) : t[i] = Whole(e + i - 1)
  <2> HIDE DEF e
  <2> QED BY <1>3, RunFacts
<1>5. /\ s \in Seq(TextParts) /\ Len(s) = (b - a + 1) - k + 1
      /\ \A i \in 1..((b - a + 1) - k + 1) : s[i] = r[k + i - 1]
  <2> HIDE DEF r
  <2>1. k \in Int /\ b - a + 1 \in Int /\ \A i \in k..(b - a + 1) : r[i] \in TextParts
    BY <1>1, <1>2
  <2> QED BY <1>1, <2>1, SubSeqProperties
<1>6. ASSUME NEW i \in 1..Len(s) PROVE s[i] = t[i]
  <2>1. i \in 1..(b - e + 1) /\ k + i - 1 \in 1..(b - a + 1) /\ a + (k + i - 1) - 1 = e + i - 1
    BY <1>1, <1>3, <1>5
  <2>2. t[i] = Whole(e + i - 1) /\ s[i] = r[k + i - 1]
    BY <1>3, <1>4, <1>5, <2>1
  <2>3. r[k + i - 1] = Whole(a + (k + i - 1) - 1)
    <3> HIDE DEF r
    <3> QED BY <1>2, <2>1
  <2> QED BY <2>1, <2>2, <2>3
<1> HIDE DEF r, e, s, t
<1>7. s = t
  BY <1>3, <1>4, <1>5, <1>6, SeqEqual
<1> QED BY <1>7 DEF r, e, s, t

-----------------------------------------------------------------------------
(* Lists of chunks *)

\* Two lists of chunks that meet are one.
ListsJoin ==
  \A s, t, n :
    n \in Nat /\ InOrder(s, n) /\ InOrder(t, n + Len(s)) /\ (s # <<>> /\ t # <<>> => Meets(s[Len(s)], t[1]))
      => InOrder(s \o t, n)

LEMMA Joined == ListsJoin
<1> SUFFICES ASSUME NEW s, NEW t, NEW n \in Nat, InOrder(s, n), InOrder(t, n + Len(s)),
                    s # <<>> /\ t # <<>> => Meets(s[Len(s)], t[1])
             PROVE  InOrder(s \o t, n)
  BY DEF ListsJoin
<1> DEFINE u == s \o t
           m == Len(s)
<1>1. s \in Seq(TextChunks) /\ t \in Seq(TextChunks)
  BY Zenon DEF InOrder
<1>2. /\ m \in Nat /\ Len(t) \in Nat /\ u \in Seq(TextChunks) /\ Len(u) = m + Len(t)
      /\ \A i \in 1..m : u[i] = s[i]
      /\ \A i \in 1..Len(t) : u[m + i] = t[i]
  <2>1. /\ u \in Seq(TextChunks) /\ Len(u) = m + Len(t)
        /\ \A i \in 1..(m + Len(t)) : u[i] = IF i <= m THEN s[i] ELSE t[i - m]
    BY <1>1, ConcatProperties
  <2>2. m \in Nat /\ Len(t) \in Nat
    BY <1>1
  <2> HIDE DEF u, m
  <2>3. ASSUME NEW i \in 1..m PROVE u[i] = s[i]
    BY <2>1, <2>2
  <2>4. ASSUME NEW i \in 1..Len(t) PROVE u[m + i] = t[i]
    <3>1. m + i \in 1..(m + Len(t)) /\ ~(m + i <= m) /\ (m + i) - m = i
      BY <2>2
    <3> QED BY <2>1, <3>1
  <2> QED BY <2>1, <2>2, <2>3, <2>4
<1> HIDE DEF u
<1>3. ASSUME NEW i \in 1..Len(u) PROVE IsChunk(u[i]) /\ u[i].ordinal = n + i - 1
  <2>1. CASE i \in 1..m
    <3>1. u[i] = s[i]
      BY <1>2, <2>1
    <3> QED BY <2>1, <3>1 DEF InOrder
  <2>2. CASE i \notin 1..m
    <3> DEFINE j == i - m
    <3>1. j \in 1..Len(t) /\ i = m + j /\ n + i - 1 = (n + m) + j - 1
      BY <1>2, <2>2
    <3>2. u[i] = t[j]
      BY <1>2, <3>1
    <3>3. IsChunk(t[j]) /\ t[j].ordinal = (n + m) + j - 1
      <4> HIDE DEF j
      <4> QED BY <3>1, Zenon DEF InOrder
    <3> QED BY <3>1, <3>2, <3>3
  <2> QED BY <2>1, <2>2
<1>4. ASSUME NEW i \in 1..(Len(u) - 1) PROVE Meets(u[i], u[i + 1])
  <2>1. CASE i \in 1..(m - 1)
    <3>1. i \in 1..m /\ i + 1 \in 1..m
      BY <1>2, <2>1
    <3>2. Meets(s[i], s[i + 1])
      BY <2>1, Zenon DEF InOrder
    <3> QED BY <1>2, <3>1, <3>2
  <2>2. CASE i = m
    <3>1. m \in 1..m /\ 1 \in 1..Len(t) /\ s # <<>> /\ t # <<>>
      BY <1>1, <1>2, <2>2
    <3> QED BY <1>2, <2>2, <3>1
  <2>3. CASE i > m
    <3> DEFINE j == i - m
    <3>1. j \in 1..(Len(t) - 1) /\ j \in 1..Len(t) /\ j + 1 \in 1..Len(t) /\ i = m + j /\ i + 1 = m + (j + 1)
      BY <1>2, <2>3
    <3>2. u[i] = t[j] /\ u[i + 1] = t[j + 1]
      <4> HIDE DEF j
      <4>1. u[m + j] = t[j] /\ u[m + (j + 1)] = t[j + 1]
        BY <1>2, <3>1
      <4> QED BY <3>1, <4>1, Zenon
    <3>3. Meets(t[j], t[j + 1])
      <4> HIDE DEF j
      <4> QED BY <3>1, Zenon DEF InOrder
    <3> QED BY <3>2, <3>3
  <2> QED BY <1>2, <2>1, <2>2, <2>3
<1> QED BY <1>2, <1>3, <1>4, Zenon DEF InOrder, u

\* One chunk
LEMMA Single ==
  \A d, n : n \in Nat /\ d \in TextChunks /\ IsChunk(d) /\ d.ordinal = n => InOrder(<<d>>, n)
<1> SUFFICES ASSUME NEW d \in TextChunks, NEW n \in Nat, IsChunk(d), d.ordinal = n PROVE InOrder(<<d>>, n)
  OBVIOUS
<1> DEFINE s == <<d>>
<1>1. s \in Seq(TextChunks) /\ Len(s) = 1 /\ s[1] = d
  OBVIOUS
<1> HIDE DEF s
<1>2. \A i \in 1..Len(s) : i = 1
  BY <1>1
<1>3. \A i \in 1..(Len(s) - 1) : FALSE
  BY <1>1
<1>4. n + 1 - 1 = n
  OBVIOUS
<1>5. InOrder(s, n)
  BY <1>1, <1>2, <1>3, <1>4 DEF InOrder
<1> QED BY <1>5 DEF s

\* A chunk behind the others
LEMMA OneMore ==
  \A s, d : InOrder(s, 0) /\ d \in TextChunks /\ IsChunk(d) /\ d.ordinal = Len(s) /\ (s # <<>> => Meets(s[Len(s)], d))
    => InOrder(Append(s, d), 0)
<1> SUFFICES ASSUME NEW s, InOrder(s, 0), NEW d \in TextChunks, IsChunk(d), d.ordinal = Len(s),
                    s # <<>> => Meets(s[Len(s)], d)
             PROVE  InOrder(Append(s, d), 0)
  OBVIOUS
<1>1. s \in Seq(TextChunks) /\ Len(s) \in Nat
  <2>1. s \in Seq(TextChunks)
    BY Zenon DEF InOrder
  <2> QED BY <2>1
<1> DEFINE t == <<d>>
<1>2. t[1] = d /\ t # <<>>
  OBVIOUS
<1>3. InOrder(t, 0 + Len(s))
  <2>1. 0 + Len(s) = Len(s)
    BY <1>1
  <2> QED BY <1>1, <2>1, Single
<1>4. Append(s, d) = s \o t
  BY <1>1, AppendIsConcat
<1> HIDE DEF t
<1>5. InOrder(s \o t, 0)
  BY <1>2, <1>3, Joined DEF ListsJoin
<1> QED BY <1>4, <1>5

\* What is covered stays covered.
LEMMA CoversMore ==
  ASSUME NEW s \in Seq(TextChunks), NEW t \in Seq(TextChunks), NEW n, Covers(s, n) \/ Covers(t, n)
  PROVE  Covers(s \o t, n)
<1> DEFINE u == s \o t
<1>1. /\ Len(s) \in Nat /\ Len(t) \in Nat /\ Len(u) = Len(s) + Len(t)
      /\ \A i \in 1..(Len(s) + Len(t)) : u[i] = IF i <= Len(s) THEN s[i] ELSE t[i - Len(s)]
  BY ConcatProperties
<1> HIDE DEF u
<1>2. ASSUME NEW i \in 1..Len(s) PROVE i \in 1..Len(u) /\ u[i] = s[i]
  BY <1>1
<1>3. ASSUME NEW i \in 1..Len(t) PROVE Len(s) + i \in 1..Len(u) /\ u[Len(s) + i] = t[i]
  <2>1. Len(s) + i \in 1..(Len(s) + Len(t)) /\ ~(Len(s) + i <= Len(s)) /\ (Len(s) + i) - Len(s) = i
    BY <1>1
  <2> QED BY <1>1, <2>1
<1>4. CASE Covers(s, n)
  BY <1>2, <1>4 DEF Covers, u
<1>5. CASE Covers(t, n)
  BY <1>3, <1>5 DEF Covers, u
<1> QED BY <1>4, <1>5

-----------------------------------------------------------------------------
(* The document grows *)

\* position_elements: the next element starts where the last one ended.
LEMMA DocGrows ==
  ASSUME DocInv, NEW h \in Headings, NEW t \in TokenCounts, Position(h, t)
  PROVE  /\ DocInv' /\ t \in Nat /\ position' = position + t
         /\ Len(doc') = Len(doc) + 1 /\ Len(doc) \in Nat
         /\ \A n \in 1..Len(doc) : doc'[n] = doc[n]
         /\ doc'[Len(doc) + 1] = [heading |-> h, at |-> position, tokens |-> t]
<1> DEFINE e == [heading |-> h, at |-> position, tokens |-> t]
           m == Len(doc)
<1>1. t \in Nat /\ position \in Nat /\ m \in Nat /\ doc \in Seq(Elements)
  BY CountsAssumption DEF DocInv
<1>2. e \in Elements /\ doc' = Append(doc, e) /\ position' = position + t
  BY <1>1 DEF Elements, Position
<1>3. /\ doc' \in Seq(Elements) /\ Len(doc') = m + 1
      /\ \A n \in 1..m : doc'[n] = doc[n]
      /\ doc'[m + 1] = e
  <2> HIDE DEF e
  <2> QED BY <1>1, <1>2, AppendProperties
<1>4. /\ doc'[m + 1].at = position /\ doc'[m + 1].tokens = t
      /\ \A n : n = m + 1 => End(n)' = position + t
  BY <1>3 DEF End
<1>5. \A n \in 1..m : End(n)' = End(n)
  BY <1>3 DEF End
<1>6. \A n \in 1..m : End(n) \in Nat /\ End(n) <= position
  BY DocFacts
<1>7. \A n \in 1..(m + 1) : n \in 1..m \/ n = m + 1
  BY <1>1
<1>8. \A n \in 1..(m + 1) : End(n)' <= position'
  BY <1>1, <1>2, <1>4, <1>5, <1>6, <1>7
<1>9. ASSUME NEW k \in 1..(m + 1), NEW n \in 1..(m + 1), k < n PROVE End(k)' <= doc'[n].at
  <2>1. k \in 1..m
    BY <1>1, <1>9
  <2>2. CASE n = m + 1
    BY <1>4, <1>5, <1>6, <2>1, <2>2
  <2>3. CASE n \in 1..m
    <3>1. End(k) <= doc[n].at
      BY <1>9, <2>1, <2>3, DocFacts
    <3> QED BY <1>3, <1>5, <2>1, <2>3, <3>1
  <2> QED BY <1>7, <2>2, <2>3
<1>10. m # 0 => End(m) = position
  BY <1>1 DEF DocInv
<1>11. ASSUME NEW k \in 1..(m + 1), NEW n \in 1..(m + 1), n = k + 1 PROVE doc'[n].at = End(k)'
  <2>1. k \in 1..m
    BY <1>1, <1>11
  <2>2. CASE n = m + 1
    <3>1. k = m /\ m # 0
      BY <1>1, <1>11, <2>1, <2>2
    <3> QED BY <1>4, <1>5, <1>10, <2>1, <2>2, <3>1
  <2>3. CASE n \in 1..m
    <3>1. k \in 1..(m - 1)
      BY <1>1, <1>11, <2>3
    <3>2. doc[n].at = End(k)
      BY <1>11, <3>1, DocFacts
    <3> QED BY <1>3, <1>5, <2>1, <2>3, <3>2
  <2> QED BY <1>7, <2>2, <2>3
<1>12. doc' # <<>> /\ doc'[1].at = 0 /\ End(Len(doc))' = position'
  <2>1. doc' # <<>>
    BY <1>1, <1>3
  <2>2. doc'[1].at = 0
    <3>1. CASE m = 0
      <4>1. doc = <<>> /\ position = 0
        BY <1>1, <3>1 DEF DocInv
      <4> QED BY <1>4, <3>1, <4>1
    <3>2. CASE m # 0
      <4>1. doc # <<>> /\ 1 \in 1..m
        BY <1>1, <3>2
      <4>2. doc[1].at = 0
        BY <4>1, Zenon DEF DocInv
      <4> QED BY <1>3, <4>1, <4>2
    <3> QED BY <3>1, <3>2
  <2>3. \A n : n = m + 1 => End(n)' = position'
    BY <1>2, <1>4
  <2>4. End(Len(doc))' = position'
    BY <1>3, <2>3
  <2> QED BY <2>1, <2>2, <2>4
<1>13. position' \in Nat
  BY <1>1, <1>2
<1> HIDE DEF e, m
<1>14. DocInv'
  BY <1>3, <1>8, <1>9, <1>11, <1>12, <1>13 DEF DocInv
<1> QED BY <1>1, <1>2, <1>3, <1>14 DEF e, m

\* What was cut before stays a chunk.
LEMMA ChunksStay ==
  ASSUME \A n \in 1..Len(doc) : n \in 1..Len(doc') /\ doc'[n] = doc[n],
         chunker' = chunker, size' = size
  PROVE  /\ \A c : IsChunk(c) /\ c.parts \in Seq(TextParts) => IsChunk(c)'
         /\ \A c, d : IsChunk(c) /\ IsChunk(d) /\ c.parts \in Seq(TextParts) /\ d.parts \in Seq(TextParts) /\ Meets(c, d)
                         => Meets(c, d)'
         /\ \A s, n : InOrder(s, n) => InOrder(s, n)'
<1>1. ASSUME NEW c, IsChunk(c), c.parts \in Seq(TextParts) PROVE LastPart(c).element \in 1..Len(doc)
  <2> DEFINE p == c.parts
  <2>1. p # <<>> /\ p \in Seq(TextParts) /\ \A k \in 1..Len(p) : p[k].element \in 1..Len(doc)
    BY <1>1 DEF IsChunk
  <2>2. Len(p) \in 1..Len(p)
    <3> HIDE DEF p
    <3> QED BY <2>1
  <2> QED BY <2>1, <2>2 DEF LastPart
<1>2. ASSUME NEW c, IsChunk(c), c.parts \in Seq(TextParts) PROVE IsChunk(c)'
  <2> DEFINE p == c.parts
             f == p[1].element
             g == LastPart(c).element
  <2>1. p # <<>> /\ p \in Seq(TextParts) /\ \A k \in 1..Len(p) : p[k].element \in 1..Len(doc)
    BY <1>2 DEF IsChunk
  <2>2. f \in 1..Len(doc)
    <3>1. 1 \in 1..Len(p)
      <4> HIDE DEF p
      <4> QED BY <2>1
    <3> QED BY <2>1, <3>1
  <2>3. g \in 1..Len(doc)
    BY <1>1, <1>2
  <2>4. \A k \in 1..Len(p) : p[k].element \in 1..Len(doc')
    BY <2>1
  <2>5. IsRun(c)'
    BY <1>2 DEF IsChunk, IsRun, Span
  <2>6. Structural' => doc'[f].heading = doc'[g].heading
    <3>1. Structural => doc[f].heading = doc[g].heading
      BY <1>2, Zenon DEF IsChunk
    <3>2. Structural' <=> Structural
      BY DEF Structural
    <3> HIDE DEF f, g
    <3> QED BY <2>2, <2>3, <3>1, <3>2
  <2> QED BY <2>1, <2>4, <2>5, <2>6, Zenon DEF IsChunk, LastPart
<1>3. ASSUME NEW c, NEW d, IsChunk(c), c.parts \in Seq(TextParts), IsChunk(d), d.parts \in Seq(TextParts),
             BoundaryIsNeeded(c, d)
      PROVE  BoundaryIsNeeded(c, d)'
  <2> DEFINE p == LastPart(c)
             q == LastPart(d)
  <2>1. p.element \in 1..Len(doc) /\ q.element \in 1..Len(doc)
    BY <1>1, <1>3
  <2>2. doc'[p.element] = doc[p.element] /\ doc'[q.element] = doc[q.element]
    BY <2>1
  <2>3. Past(c)' = Past(c) /\ Past(d)' = Past(d)
    BY DEF Past, First
  <2> QED BY <1>3, <2>2, <2>3 DEF BoundaryIsNeeded, IsPiece, LastPart
<1>4. ASSUME NEW c, NEW d, IsChunk(c), c.parts \in Seq(TextParts), IsChunk(d), d.parts \in Seq(TextParts),
             Meets(c, d)
      PROVE  Meets(c, d)'
  <2>1. Structural => BoundaryIsNeeded(c, d)
    BY <1>4, Zenon DEF Meets
  <2>2. Structural' => BoundaryIsNeeded(c, d)'
    BY <1>3, <1>4, <2>1 DEF Structural
  <2> QED BY <1>4, <2>2 DEF Meets, Past, First, LastPart
<1>5. ASSUME NEW s, NEW n, InOrder(s, n) PROVE InOrder(s, n)'
  <2>1. s \in Seq(TextChunks)
    BY <1>5, Zenon DEF InOrder
  <2>2. Len(s) \in Nat /\ \A i \in 1..Len(s) : s[i].parts \in Seq(TextParts)
    <3>1. \A c \in TextChunks : c.parts \in Seq(TextParts)
      BY DEF TextChunks
    <3>2. Len(s) \in Nat /\ \A i \in 1..Len(s) : s[i] \in TextChunks
      BY <2>1
    <3> QED BY <3>1, <3>2
  <2>3. \A i \in 1..Len(s) : IsChunk(s[i])' /\ s[i].ordinal = n + i - 1
    BY <1>2, <1>5, <2>2 DEF InOrder
  <2>4. ASSUME NEW i \in 1..(Len(s) - 1) PROVE Meets(s[i], s[i + 1])'
    <3>1. i \in 1..Len(s) /\ i + 1 \in 1..Len(s)
      BY <2>2
    <3>2. Meets(s[i], s[i + 1]) /\ IsChunk(s[i]) /\ IsChunk(s[i + 1])
      BY <1>5, <3>1, Zenon DEF InOrder
    <3> QED BY <1>4, <2>2, <3>1, <3>2
  <2> QED BY <2>1, <2>3, <2>4, Zenon DEF InOrder
<1> QED BY <1>2, <1>4, <1>5, Zenon

-----------------------------------------------------------------------------
(* The open group *)

\* First element of the open group
Start == Len(doc) - Len(group) + 1

\* The group is a run that a chunk can be made of.
LEMMA OpenFacts ==
  DocInv /\ OpenInv /\ Structural /\ group # <<>> /\ Len(chunks) \in Nat =>
    /\ Start \in 1..Len(doc) /\ doc # <<>> /\ group[1].at = doc[Start].at
    /\ Open \in TextChunks /\ IsChunk(Open) /\ Open.ordinal = Len(chunks) /\ Open.tokens = group_tokens
    /\ First(Open) = doc[Start].at /\ Past(Open) = position /\ LastPart(Open) = Whole(Len(doc))
    /\ group_tokens = position - doc[Start].at
    /\ \A n \in Start..Len(doc) : doc[n].tokens > 0 => HasText(Open, n)
<1> SUFFICES ASSUME DocInv, OpenInv, Structural, group # <<>>, Len(chunks) \in Nat
             PROVE  /\ Start \in 1..Len(doc) /\ doc # <<>> /\ group[1].at = doc[Start].at
                    /\ Open \in TextChunks /\ IsChunk(Open) /\ Open.ordinal = Len(chunks) /\ Open.tokens = group_tokens
                    /\ First(Open) = doc[Start].at /\ Past(Open) = position /\ LastPart(Open) = Whole(Len(doc))
                    /\ group_tokens = position - doc[Start].at
                    /\ \A n \in Start..Len(doc) : doc[n].tokens > 0 => HasText(Open, n)
  OBVIOUS
<1> DEFINE L == Len(doc)
           r == Run(Start, L)
<1>1. L \in Nat /\ Len(group) \in 0..L /\ group = r /\ group_tokens = Span(group)
  BY DocFacts DEF OpenInv, Start
<1>2. Len(group) # 0
  <2> DEFINE e == L - Start + 1
  <2>1. SUFFICES ASSUME Len(group) = 0 PROVE FALSE
    OBVIOUS
  <2>2. r = [i \in 1..e |-> Whole(Start + i - 1)] /\ e = 0
    BY <1>1, <2>1 DEF Run, Start
  <2>3. r = <<>>
    <3> HIDE DEF e, r
    <3> QED BY <2>2
  <2> QED BY <1>1, <2>3
<1>3. Start \in 1..L /\ L \in Start..L
  BY <1>1, <1>2 DEF Start
<1>4. Structural => doc[Start].heading = doc[L].heading
  BY <1>1, <1>3 DEF OpenInv, Start
<1>5. Open = build_candidate(r, Span(r), Len(chunks))
  BY <1>1 DEF Open
<1>6. /\ Open \in TextChunks /\ IsChunk(Open) /\ Open.ordinal = Len(chunks)
      /\ First(Open) = doc[Start].at /\ Past(Open) = End(L) /\ LastPart(Open) = Whole(L)
      /\ Open.tokens = Span(r) /\ Open.parts = r
  BY <1>3, <1>4, <1>5, RunIsChunk
<1>7. /\ Len(r) = L - Start + 1 /\ r[1] = Whole(Start)
      /\ \A i \in 1..(L - Start + 1) : r[i] = Whole(Start + i - 1)
  BY <1>3, RunFacts
<1>8. /\ Span(r) = End(L) - doc[Start].at
      /\ Span(r) \in Nat
      /\ \A n \in Start..L : doc[n].tokens <= Span(r)
  BY <1>3, RunSpan
<1>9. doc # <<>> /\ End(L) = position
  <2>1. doc # <<>>
    BY <1>1, <1>3
  <2> QED BY <2>1 DEF DocInv
<1>10. group[1].at = doc[Start].at
  <2>1. group[1] = Whole(Start)
    BY <1>1, <1>7, Zenon
  <2> QED BY <2>1 DEF Whole
<1>11. ASSUME NEW n \in Start..L, doc[n].tokens > 0 PROVE HasText(Open, n)
  <2>1. Open.tokens > 0
    <3>1. n \in 1..L
      BY <1>1, <1>3
    <3>2. doc[n].tokens \in Nat
      BY <3>1, DocFacts
    <3> HIDE DEF r
    <3> QED BY <1>6, <1>8, <1>11, <3>2
  <2> DEFINE k == n - Start + 1
  <2>2. k \in 1..(L - Start + 1) /\ Start + k - 1 = n
    BY <1>1, <1>3
  <2>3. k \in 1..Len(r) /\ r[k] = Whole(n)
    <3> HIDE DEF r, k
    <3> QED BY <1>7, <2>2
  <2>4. Whole(n).element = n
    BY DEF Whole
  <2> HIDE DEF k, r
  <2> QED BY <1>6, <2>1, <2>3, <2>4 DEF HasText
<1> HIDE DEF r
<1> QED BY <1>1, <1>3, <1>6, <1>8, <1>9, <1>10, <1>11

\* Yielding the open group completes what the chunks reach.
LEMMA YieldedFacts ==
  ASSUME CoverInv, Structural, status = "reading"
  PROVE  /\ InOrder(Yielded, 0) /\ Yielded \in Seq(TextChunks)
         /\ doc = <<>> => Yielded = <<>>
         /\ doc # <<>> => Reach(Yielded)
         /\ \A n \in 1..Len(doc) : doc[n].tokens > 0 => Covers(Yielded, n)
         /\ group = <<>> => Yielded = chunks
         /\ group # <<>> => Yielded = Append(chunks, Open) /\ Len(Yielded) = Len(chunks) + 1 /\ Yielded[Len(Yielded)] = Open
<1>1. DocInv /\ OpenInv /\ InOrder(chunks, 0)
  BY DEF CoverInv, ListInv
<1>2. chunks \in Seq(TextChunks) /\ Len(chunks) \in Nat
  <2>1. chunks \in Seq(TextChunks)
    BY <1>1, Zenon DEF InOrder
  <2> QED BY <2>1
<1>3. /\ chunks = <<>> => IF group = <<>> THEN doc = <<>> ELSE group[1].at = 0
      /\ chunks # <<>> => First(chunks[1]) = 0
      /\ chunks # <<>> /\ group = <<>> => Reach(chunks)
      /\ chunks # <<>> /\ group # <<>> => Meets(Latest, Open)
      /\ \A n \in 1..Len(doc) : doc[n].tokens > 0 => Covers(chunks, n) \/ InGroup(n)
  <2>1. status # "failed"
    OBVIOUS
  <2> QED BY <2>1, Zenon DEF CoverInv, JoinInv
<1>4. CASE group = <<>>
  <2>1. Yielded = chunks
    BY <1>4 DEF Yielded
  <2>2. doc # <<>> => chunks # <<>>
    BY <1>3, <1>4
  <2>3. doc = <<>> => chunks = <<>>
    <3>1. SUFFICES ASSUME doc = <<>>, chunks # <<>> PROVE FALSE
      OBVIOUS
    <3>2. LastPart(Latest).element = 0
      BY <1>3, <1>4, <3>1 DEF Reach, Latest
    <3>3. Len(chunks) \in 1..Len(chunks) /\ Latest \in TextChunks
      BY <1>2, <3>1 DEF Latest
    <3>4. IsChunk(Latest)
      BY <1>1, <3>3 DEF InOrder, Latest
    <3> DEFINE p == Latest.parts
    <3>5. p \in Seq(TextParts)
      BY <3>3 DEF TextChunks
    <3>6. p # <<>> /\ \A k \in 1..Len(p) : p[k].element \in 1..Len(doc)
      BY <3>4 DEF IsChunk
    <3>7. 1 \in 1..Len(p) /\ Len(doc) = 0
      <4> HIDE DEF p
      <4> QED BY <3>1, <3>5, <3>6
    <3>8. p[1].element \in 1..0
      <4> HIDE DEF p
      <4> QED BY <3>6, <3>7
    <3> HIDE DEF p
    <3> QED BY <3>8
  <2>4. \A n \in 1..Len(doc) : ~InGroup(n)
    <3>1. Len(doc) \in Nat /\ Len(group) = 0
      BY <1>1, <1>4, DocFacts
    <3> QED BY <3>1 DEF InGroup
  <2> QED BY <1>1, <1>2, <1>3, <1>4, <2>1, <2>2, <2>3, <2>4
<1>5. CASE group # <<>>
  <2>1. /\ Start \in 1..Len(doc) /\ doc # <<>> /\ group[1].at = doc[Start].at
        /\ Open \in TextChunks /\ IsChunk(Open) /\ Open.ordinal = Len(chunks) /\ Open.tokens = group_tokens
        /\ First(Open) = doc[Start].at /\ Past(Open) = position /\ LastPart(Open) = Whole(Len(doc))
        /\ \A n \in Start..Len(doc) : doc[n].tokens > 0 => HasText(Open, n)
    BY <1>1, <1>2, <1>5, OpenFacts
  <2>2. Yielded = Append(chunks, Open)
    BY <1>5 DEF Yielded, Open
  <2>3. InOrder(Yielded, 0)
    BY <1>1, <1>3, <1>5, <2>1, <2>2, OneMore DEF Latest
  <2>4. /\ Yielded \in Seq(TextChunks) /\ Yielded # <<>> /\ Len(Yielded) = Len(chunks) + 1
        /\ \A i \in 1..Len(chunks) : Yielded[i] = chunks[i]
        /\ Yielded[Len(chunks) + 1] = Open
    BY <1>2, <2>1, <2>2, AppendProperties
  <2>5. First(Yielded[1]) = 0
    <3>1. CASE chunks = <<>>
      <4>1. Yielded[1] = Open
        BY <2>4, <3>1
      <4> QED BY <1>3, <1>5, <2>1, <3>1, <4>1
    <3>2. CASE chunks # <<>>
      <4>1. 1 \in 1..Len(chunks)
        BY <1>2, <3>2
      <4> QED BY <1>3, <2>4, <3>2, <4>1
    <3> QED BY <3>1, <3>2
  <2>6. Reach(Yielded)
    <3>1. Whole(Len(doc)).element = Len(doc)
      BY DEF Whole
    <3>2. Yielded[Len(Yielded)] = Open
      BY <2>4
    <3> QED BY <2>1, <2>4, <2>5, <3>1, <3>2, Zenon DEF Reach
  <2>7. ASSUME NEW n \in 1..Len(doc), doc[n].tokens > 0 PROVE Covers(Yielded, n)
    <3>1. CASE Covers(chunks, n)
      <4>1. PICK i \in 1..Len(chunks) : HasText(chunks[i], n)
        BY <3>1 DEF Covers
      <4>2. i \in 1..Len(Yielded) /\ Yielded[i] = chunks[i]
        BY <1>2, <2>4
      <4> QED BY <4>1, <4>2 DEF Covers
    <3>2. CASE InGroup(n)
      <4>1. n \in Start..Len(doc)
        <5>1. Len(doc) \in Nat /\ Len(group) \in 0..Len(doc)
          BY <1>1, DocFacts DEF OpenInv
        <5> QED BY <3>2, <5>1 DEF InGroup, Start
      <4>2. Len(chunks) + 1 \in 1..Len(Yielded) /\ HasText(Yielded[Len(chunks) + 1], n)
        BY <1>2, <2>1, <2>4, <2>7, <4>1
      <4> QED BY <4>2 DEF Covers
    <3> QED BY <1>3, <2>7, <3>1, <3>2
  <2> QED BY <1>5, <2>1, <2>2, <2>3, <2>4, <2>6, <2>7
<1> QED BY <1>4, <1>5

\* A run up to the end of the document, which may be empty
LEMMA LastRun ==
  ASSUME DocInv, NEW a \in 1..(Len(doc) + 1)
  PROVE  /\ Run(a, Len(doc)) \in Seq(TextParts) /\ Len(Run(a, Len(doc))) = Len(doc) - a + 1
         /\ \A i \in 1..(Len(doc) - a + 1) : Run(a, Len(doc))[i] = Whole(a + i - 1)
         /\ a = Len(doc) + 1 => Run(a, Len(doc)) = <<>>
         /\ Span(Run(a, Len(doc))) = position - (IF a = Len(doc) + 1 THEN position ELSE doc[a].at)
<1>1. Len(doc) \in Nat /\ position \in Nat
  BY DEF DocInv
<1>2. CASE a = Len(doc) + 1
  <2> DEFINE e == Len(doc) - a + 1
  <2>1. e = 0 /\ Run(a, Len(doc)) = [i \in 1..e |-> Whole(a + i - 1)]
    BY <1>1, <1>2 DEF Run
  <2>2. Run(a, Len(doc)) = <<>>
    <3> HIDE DEF e
    <3> QED BY <2>1
  <2> DEFINE r == Run(a, Len(doc))
             none == <<>>
  <2>3. none \in Seq(TextParts) /\ Len(none) = 0 /\ Span(none) = 0
    BY DEF Span
  <2>4. \A i \in 1..(Len(doc) - a + 1) : FALSE
    BY <1>1, <1>2
  <2>5. r = none /\ Len(doc) - a + 1 = 0
    BY <2>1, <2>2
  <2> HIDE DEF none, r, e
  <2>6. r \in Seq(TextParts) /\ Len(r) = Len(doc) - a + 1 /\ Span(r) = 0
    BY <2>3, <2>5
  <2>7. 0 = position - position
    BY <1>1
  <2>8. Span(r) = position - (IF a = Len(doc) + 1 THEN position ELSE doc[a].at)
    BY <1>2, <2>6, <2>7
  <2> QED BY <2>2, <2>4, <2>6, <2>8 DEF r
<1>3. CASE a # Len(doc) + 1
  <2>1. a \in 1..Len(doc) /\ Len(doc) \in a..Len(doc) /\ doc # <<>>
    BY <1>1, <1>3
  <2>2. End(Len(doc)) = position
    BY <2>1 DEF DocInv
  <2>3. Span(Run(a, Len(doc))) = position - doc[a].at
    BY <2>1, <2>2, RunSpan
  <2> QED BY <1>3, <2>1, <2>3, RunFacts
<1> QED BY <1>2, <1>3

\* The new element continues it.
LEMMA RunGrows ==
  ASSUME DocInv, NEW h \in Headings, NEW t \in TokenCounts, Position(h, t), NEW a \in 1..(Len(doc) + 1)
  PROVE  \A b : b = Len(doc) + 1 => Append(Run(a, Len(doc)), Part(Len(doc) + 1, t)) = Run(a, b)'
<1> SUFFICES ASSUME NEW b, b = Len(doc) + 1
             PROVE  Append(Run(a, Len(doc)), Part(Len(doc) + 1, t)) = Run(a, b)'
  OBVIOUS
<1> DEFINE L == Len(doc)
           r == Run(a, L)
           e == Part(L + 1, t)
           s == Append(r, e)
           m == L - a + 1
<1>1. /\ t \in Nat /\ Len(doc') = L + 1 /\ L \in Nat /\ position \in Nat
      /\ \A n \in 1..L : doc'[n] = doc[n]
      /\ doc'[L + 1] = [heading |-> h, at |-> position, tokens |-> t]
  BY DocGrows DEF DocInv
<1>2. r \in Seq(TextParts) /\ Len(r) = m /\ \A i \in 1..m : r[i] = Whole(a + i - 1)
  BY LastRun
<1>3. e \in TextParts
  BY <1>1 DEF Part, TextParts
<1>4. \A n : n = L + 1 => Whole(n)' = e
  BY <1>1 DEF Whole, Part
<1>5. \A n \in 1..L : Whole(n)' = Whole(n)
  BY <1>1 DEF Whole
<1>6. m \in Nat /\ a \in Nat
  BY <1>1
<1> HIDE DEF r, e
<1>7. /\ s \in Seq(TextParts) /\ Len(s) = m + 1 /\ s[m + 1] = e
      /\ \A i \in 1..m : s[i] = r[i]
  BY <1>2, <1>3, AppendProperties
<1>8. ASSUME NEW i \in 1..(m + 1) PROVE s[i] = Whole(a + i - 1)'
  <2>1. CASE i = m + 1
    <3>1. \A n : n = a + i - 1 => n = L + 1
      BY <1>1, <1>6, <2>1
    <3> QED BY <1>4, <1>7, <2>1, <3>1
  <2>2. CASE i \in 1..m
    <3>1. a + i - 1 \in 1..L
      BY <1>1, <1>6, <2>2
    <3> QED BY <1>2, <1>5, <1>7, <2>2, <3>1
  <2>3. i = m + 1 \/ i \in 1..m
    <3> HIDE DEF m
    <3> QED BY <1>6
  <2> QED BY <2>1, <2>2, <2>3
<1>9. s = [i \in 1..(m + 1) |-> s[i]]
  <2> HIDE DEF s, m
  <2> QED BY <1>6, <1>7
<1>10. b - a + 1 = m + 1
  BY <1>1, <1>6
<1>11. Run(a, b)' = [i \in 1..(m + 1) |-> Whole(a + i - 1)']
  BY <1>10 DEF Run
<1> HIDE DEF s, m
<1>12. s = [i \in 1..(m + 1) |-> Whole(a + i - 1)']
  BY <1>8, <1>9
<1> QED BY <1>11, <1>12 DEF s, e, r

\* _overlap_tail: a tail is the end of the open group.
LEMMA TailIsRun ==
  ASSUME CoverInv, Structural, group # <<>>, Len(chunks) \in Nat
  PROVE  \E e \in Start..(Len(doc) + 1) :
           _overlap_tail = Run(e, Len(doc)) /\ Span(Run(e, Len(doc))) <= size.overlap_tokens
<1> DEFINE L == Len(doc)
<1>1. DocInv /\ OpenInv /\ Typed
  BY DEF CoverInv, FitInv
<1>2. Start \in 1..L
  BY <1>1, OpenFacts
<1>3. L \in Nat /\ group = Run(Start, L) /\ Len(group) \in 0..L
  BY <1>1, DocFacts DEF OpenInv, Start
<1>4. _overlap_tail \in Seq(Parts) /\ Span(_overlap_tail) <= size.overlap_tokens
  BY <1>1, TailFits
<1>5. CASE size.overlap_tokens = 0 \/ TailStarts = {}
  <2>1. _overlap_tail = <<>>
    BY <1>5 DEF _overlap_tail
  <2>2. L + 1 \in Start..(L + 1) /\ L + 1 \in 1..(L + 1)
    BY <1>2, <1>3
  <2>3. Run(L + 1, L) = <<>>
    BY <1>1, <2>2, LastRun
  <2> QED BY <1>4, <2>1, <2>2, <2>3
<1>6. CASE size.overlap_tokens # 0 /\ TailStarts # {}
  <2> DEFINE k == CHOOSE k \in TailStarts : \A j \in TailStarts : k <= j
             e == Start + k - 1
  <2>1. _overlap_tail = SubSeq(group, k, Len(group))
    BY <1>6 DEF _overlap_tail
  <2>2. k \in TailStarts
    <3>1. TailStarts \in SUBSET Nat
      BY DEF TailStarts
    <3> QED BY <1>6, <3>1, LeastElement
  <2>3. k \in 1..Len(group)
    BY <2>2 DEF TailStarts
  <2> HIDE DEF k
  <2>4. Len(group) = L - Start + 1 /\ L \in Start..L
    BY <1>2, <1>3 DEF Start
  <2>5. SubSeq(group, k, Len(group)) = Run(e, L)
    BY <1>1, <1>2, <1>3, <2>3, <2>4, EndOfRun
  <2>6. e \in Start..(L + 1)
    BY <1>2, <1>3, <2>3, <2>4
  <2> QED BY <1>4, <2>1, <2>5, <2>6
<1> QED BY <1>5, <1>6

\* A group that starts at start and ends with an element of t tokens under
\* heading h may follow this chunk.
Awaits(c, start, h, t) ==
  /\ c.tokens \in Nat /\ First(c) \in Nat /\ LastPart(c).element \in 1..Len(doc)
  /\ First(c) <= start /\ start <= Past(c) /\ Past(c) <= position
  /\ chunker = "hierarchical" => start = Past(c)
  /\ chunker = "hybrid" => Past(c) - start <= size.overlap_tokens
  /\ \/ IsPiece(LastPart(c))
     \/ doc[LastPart(c).element].heading # h
     \/ c.tokens + position + t - Past(c) > size.max_tokens

\* A group that ends with the new element meets the chunk before it.
LEMMA ItemMeets ==
  ASSUME NEW c, NEW d, NEW h, NEW t \in Nat, position \in Nat, size.max_tokens \in Nat,
         chunker' = chunker, size' = size,
         \A n \in 1..Len(doc) : doc'[n] = doc[n],
         First(d) \in Nat, LastPart(d).element = Len(doc) + 1, doc'[Len(doc) + 1].heading = h,
         Past(d) = position + t,
         Awaits(c, First(d), h, t)
  PROVE  Meets(c, d)'
<1> USE DEF Awaits
<1> DEFINE p == LastPart(c)
           q == LastPart(d)
<1>1. Past(c) = First(c) + c.tokens /\ Past(c) \in Nat
  BY DEF Past
<1>2. p # q
  <2>1. p.element # q.element
    <3> DEFINE n == p.element
    <3> HIDE DEF p, q
    <3>1. Len(doc) \in Int \/ Len(doc) \notin Int
      OBVIOUS
    <3> QED BY DEF p, q
  <2> QED BY <2>1
<1>3. doc'[p.element] = doc[p.element]
  OBVIOUS
<1>4. BoundaryIsNeeded(c, d)'
  <2>1. CASE IsPiece(p)
    BY <1>3, <2>1 DEF BoundaryIsNeeded, IsPiece, LastPart
  <2>2. CASE doc[p.element].heading # h
    BY <1>3, <2>2 DEF BoundaryIsNeeded, LastPart
  <2>3. CASE c.tokens + position + t - Past(c) > size.max_tokens
    <3>1. c.tokens + (position + t) - Past(c) > size.max_tokens
      BY <1>1, <2>3
    <3>2. c.tokens + Past(d) - Past(c) > size.max_tokens
      BY <3>1
    <3>3. First(c)' = First(c) /\ Past(c)' = Past(c) /\ Past(d)' = Past(d)
      BY DEF First, Past
    <3> QED BY <3>2, <3>3 DEF BoundaryIsNeeded
  <2> QED BY <2>1, <2>2, <2>3
<1>5. Past(c) <= Past(d)
  BY <1>1
<1> QED BY <1>2, <1>4, <1>5 DEF Meets, First, Past, LastPart

\* The same of every such run.
LEMMA LastRuns ==
  DocInv =>
    \A a \in 1..(Len(doc) + 1) :
      /\ Len(Run(a, Len(doc))) = Len(doc) - a + 1
      /\ a # Len(doc) + 1 => Span(Run(a, Len(doc))) = position - doc[a].at
<1> SUFFICES ASSUME DocInv, NEW a \in 1..(Len(doc) + 1)
             PROVE  /\ Len(Run(a, Len(doc))) = Len(doc) - a + 1
                    /\ a # Len(doc) + 1 => Span(Run(a, Len(doc))) = position - doc[a].at
  OBVIOUS
<1> QED BY LastRun

\* take_item: the open group is the carried tail, or what it was, and the
\* new element.
LEMMA ItemGroup ==
  ASSUME CoverInv, NEW h \in Headings, NEW t \in TokenCounts, take_item(h, t)
  PROVE  \E e \in Start..(Len(doc) + 1) :
           /\ e \in 1..(Len(doc) + 1) /\ Len(group') = Len(doc) + 2 - e /\ group' = Run(Start, Len(doc))'
           /\ group_tokens' = Span(group)'
           /\ doc'[e].at = IF e = Len(doc) + 1 THEN position ELSE doc[e].at
           /\ ~Overflows(t) => e = Start
           /\ Overflows(t) /\ chunker = "hierarchical" => e = Len(doc) + 1
           /\ Overflows(t) /\ chunker = "hybrid" => position - doc'[e].at <= size.overlap_tokens
<1> DEFINE L == Len(doc)
           carried == IF ~Overflows(t) THEN group ELSE IF chunker = "hybrid" THEN _overlap_tail ELSE <<>>
           at(e) == IF e = L + 1 THEN position ELSE doc[e].at
           ok(e) == /\ carried = Run(e, L)
                    /\ ~Overflows(t) => e = Start
                    /\ Overflows(t) /\ chunker = "hierarchical" => e = L + 1
                    /\ Overflows(t) /\ chunker = "hybrid" => Span(Run(e, L)) <= size.overlap_tokens
<1>1. /\ DocInv /\ OpenInv /\ Typed /\ Structural /\ InOrder(chunks, 0)
      /\ chunker \in {"hierarchical", "hybrid"}
  <2>1. chunker \in {"hierarchical", "hybrid", "line_based"} /\ chunker # "line_based"
    BY DEF CoverInv, FitInv, Typed, take_item
  <2> QED BY <2>1 DEF CoverInv, ListInv, FitInv, Structural
<1>2. Position(h, t) /\ group' = Append(carried, Part(L + 1, t))
      /\ group_tokens' = (IF Overflows(t) THEN Span(carried) ELSE group_tokens) + t
  BY DEF take_item
<1>3. /\ DocInv' /\ t \in Nat /\ position' = position + t /\ Len(doc') = L + 1 /\ L \in Nat
      /\ \A n \in 1..L : doc'[n] = doc[n]
      /\ doc'[L + 1] = [heading |-> h, at |-> position, tokens |-> t]
  BY <1>1, <1>2, DocGrows
<1>4. position \in Nat /\ Len(chunks) \in Nat
  <2>1. chunks \in Seq(TextChunks)
    BY <1>1, Zenon DEF InOrder
  <2> QED BY <1>1, <2>1 DEF DocInv
<1>5. Len(group) \in 0..L /\ group = Run(Start, L) /\ group_tokens = Span(group)
  BY <1>1 DEF OpenInv, Start
<1>6. Start \in 1..(L + 1)
  BY <1>3, <1>5 DEF Start
<1>7. \E e \in Start..(L + 1) : ok(e)
  <2>1. CASE ~Overflows(t)
    <3>1. Start \in Start..(L + 1)
      BY <1>3, <1>6
    <3>2. ok(Start)
      BY <1>5, <2>1
    <3> HIDE DEF ok
    <3> QED BY <3>1, <3>2
  <2>2. CASE Overflows(t) /\ chunker = "hybrid"
    <3>1. group # <<>>
      BY <2>2 DEF Overflows
    <3>2. PICK e \in Start..(L + 1) :
            _overlap_tail = Run(e, L) /\ Span(Run(e, L)) <= size.overlap_tokens
      BY <1>1, <1>4, <3>1, TailIsRun
    <3>3. ok(e)
      BY <2>2, <3>2
    <3> HIDE DEF ok
    <3> QED BY <3>3
  <2>3. CASE Overflows(t) /\ chunker = "hierarchical"
    <3>1. L + 1 \in Start..(L + 1) /\ L + 1 \in 1..(L + 1)
      BY <1>3, <1>6
    <3>2. Run(L + 1, L) = <<>>
      BY <1>1, <3>1, LastRun
    <3>3. ok(L + 1)
      BY <2>3, <3>2
    <3> HIDE DEF ok
    <3> QED BY <3>1, <3>3
  <2> QED BY <1>1, <2>1, <2>2, <2>3
<1>8. PICK e \in Start..(L + 1) : ok(e)
  BY <1>7
<1>9. e \in 1..(L + 1) /\ e \in Nat /\ Start \in Nat
  BY <1>3, <1>6
<1>10. Append(Run(e, L), Part(L + 1, t)) = Run(e, Len(doc))'
  <2>1. \A b : b = L + 1 => Append(Run(e, L), Part(L + 1, t)) = Run(e, b)'
    BY <1>1, <1>2, <1>9, RunGrows
  <2>2. \A b : b = L + 1 => Run(e, b)' = Run(e, Len(doc))'
    BY <1>3 DEF Run
  <2> QED BY <2>1, <2>2
<1>11. group' = Run(e, Len(doc))'
  <2> HIDE DEF carried
  <2> QED BY <1>2, <1>8, <1>10
<1>12. e \in 1..Len(doc') /\ Len(doc') \in e..Len(doc')
  BY <1>3, <1>9
<1>13. \A a \in 1..(Len(doc') + 1) :
         /\ Len(Run(a, Len(doc))') = Len(doc') - a + 1
         /\ a # Len(doc') + 1 => Span(Run(a, Len(doc)))' = position' - doc'[a].at
  <2>1. (DocInv =>
           \A a \in 1..(Len(doc) + 1) :
             /\ Len(Run(a, Len(doc))) = Len(doc) - a + 1
             /\ a # Len(doc) + 1 => Span(Run(a, Len(doc))) = position - doc[a].at)'
    BY LastRuns, PTL
  <2> QED BY <1>3, <2>1
<1>14. Len(group') = L + 2 - e
  <2>1. e \in 1..(Len(doc') + 1) /\ (L + 1) - e + 1 = L + 2 - e
    BY <1>3, <1>9
  <2> QED BY <1>3, <1>11, <1>13, <2>1
<1>15. Start' = e
  <2>1. Start' = Len(doc') - Len(group') + 1
    BY DEF Start
  <2> QED BY <1>3, <1>9, <1>14, <2>1
<1>16. group' = Run(Start, Len(doc))'
  BY <1>11, <1>15 DEF Run
<1>17. doc'[e].at = at(e) /\ at(e) \in Nat
  <2>1. CASE e = L + 1
    BY <1>3, <1>4, <2>1
  <2>2. CASE e # L + 1
    <3>1. e \in 1..L
      BY <1>3, <1>9, <2>2
    <3> QED BY <1>1, <1>3, <2>2, <3>1, DocFacts
  <2> QED BY <2>1, <2>2
<1>18. Span(Run(e, L)) = position - at(e)
  <2> HIDE DEF ok, carried
  <2> QED BY <1>1, <1>9, LastRun
<1>19. group_tokens' = Span(Run(e, L)) + t
  <2>1. CASE Overflows(t)
    BY <1>2, <1>8, <2>1
  <2>2. CASE ~Overflows(t)
    BY <1>2, <1>5, <1>8, <2>2
  <2> QED BY <2>1, <2>2
<1>20. group_tokens' = position' - doc'[e].at
  <2> HIDE DEF at
  <2> QED BY <1>3, <1>4, <1>17, <1>18, <1>19
<1>21. Span(group)' = position' - doc'[e].at
  <2>1. e \in 1..(Len(doc') + 1) /\ e # Len(doc') + 1
    BY <1>3, <1>9
  <2>2. Span(Run(e, Len(doc)))' = position' - doc'[e].at
    BY <1>13, <2>1
  <2> QED BY <1>11, <2>2 DEF Span
<1>22. Overflows(t) /\ chunker = "hybrid" => position - doc'[e].at <= size.overlap_tokens
  <2> HIDE DEF at
  <2> QED BY <1>8, <1>17, <1>18
<1>23. /\ ~Overflows(t) => e = Start
       /\ Overflows(t) /\ chunker = "hierarchical" => e = L + 1
  BY <1>8
<1> HIDE DEF carried, ok
<1> QED BY <1>9, <1>14, <1>16, <1>17, <1>20, <1>21, <1>22, <1>23

\* take_item: it joins the chunks.
LEMMA TakeItemMeets ==
  ASSUME CoverInv, NEW h \in Headings, NEW t \in TokenCounts, take_item(h, t), OpenInv',
         NEW e \in Start..(Len(doc) + 1),
         doc'[e].at = IF e = Len(doc) + 1 THEN position ELSE doc[e].at,
         ~Overflows(t) => e = Start,
         Overflows(t) /\ chunker = "hierarchical" => e = Len(doc) + 1,
         Overflows(t) /\ chunker = "hybrid" => position - doc'[e].at <= size.overlap_tokens,
         NEW c, chunks' # <<>>, c = chunks'[Len(chunks')],
         NEW d, d \in TextChunks, First(d) = doc'[e].at, Past(d) = position + t, LastPart(d).element = Len(doc) + 1
  PROVE  Meets(c, d)'
<1> DEFINE L == Len(doc)
<1>1. /\ DocInv /\ OpenInv /\ Typed /\ Structural /\ InOrder(chunks, 0) /\ status = "reading" /\ ValidSize
      /\ chunker' = chunker /\ size' = size /\ size.max_tokens \in Nat /\ size.overlap_tokens \in Nat
      /\ t <= size.max_tokens /\ Position(h, t)
  BY DEF CoverInv, ListInv, FitInv, Structural, take_item, NextElement, Typed
<1>2. /\ t \in Nat /\ L \in Nat
      /\ \A n \in 1..L : doc'[n] = doc[n]
      /\ doc'[L + 1] = [heading |-> h, at |-> position, tokens |-> t]
  BY <1>1, DocGrows
<1>3. position \in Nat /\ chunks \in Seq(TextChunks) /\ Len(chunks) \in Nat
  <2>1. chunks \in Seq(TextChunks)
    BY <1>1, Zenon DEF InOrder
  <2> QED BY <1>1, <2>1 DEF DocInv
<1>4. between = (doc = <<>> \/ doc[L].heading # h)
  BY DEF take_item, NextElement
<1>5. /\ group_tokens = Span(group)
      /\ \A n \in (L - Len(group) + 1)..L : doc[n].heading = doc[L].heading /\ doc[n].tokens <= size.max_tokens
      /\ IF between THEN group = <<>> ELSE doc # <<>>
      /\ Len(group) \in 0..L
  BY <1>1 DEF OpenInv
<1>6. /\ chunks # <<>> /\ group = <<>> => Reach(chunks) /\ (~between => IsPiece(LastPart(Latest)))
      /\ chunks # <<>> /\ group # <<>> => Meets(Latest, Open)
  <2>1. status # "failed"
    BY <1>1
  <2> QED BY <1>1, <2>1, Zenon DEF CoverInv, JoinInv
<1>7. \A x \in TextChunks : IsChunk(x) =>
        LastPart(x).element \in 1..L /\ x.tokens \in Nat /\ First(x) \in Nat /\ Past(x) \in Nat /\ Past(x) = First(x) + x.tokens
  <2>1. SUFFICES ASSUME NEW x \in TextChunks, IsChunk(x)
                 PROVE  LastPart(x).element \in 1..L /\ x.tokens \in Nat /\ First(x) \in Nat /\ Past(x) \in Nat /\ Past(x) = First(x) + x.tokens
    OBVIOUS
  <2> DEFINE p == x.parts
  <2>2. p \in Seq(TextParts) /\ p # <<>> /\ x.tokens \in Nat /\ \A k \in 1..Len(p) : p[k].element \in 1..L
    BY <2>1 DEF IsChunk, TextChunks
  <2>3. 1 \in 1..Len(p) /\ Len(p) \in 1..Len(p) /\ p[1] \in TextParts
    <3> HIDE DEF p
    <3> QED BY <2>2
  <2>4. LastPart(x).element \in 1..L
    BY <2>2, <2>3 DEF LastPart
  <2>5. First(x) \in Nat
    BY <2>3 DEF First, TextParts
  <2> QED BY <2>2, <2>4, <2>5 DEF Past
<1>8. doc'[e].at \in Nat /\ First(d) \in Nat
  <2>1. CASE e = L + 1
    BY <1>3, <2>1
  <2>2. CASE e # L + 1
    <3>1. e \in 1..L
      BY <1>2, <1>5, <2>2 DEF Start
    <3> QED BY <1>1, <2>2, <3>1, DocFacts
  <2> QED BY <2>1, <2>2
<1>9. SUFFICES
        /\ c.tokens \in Nat /\ First(c) \in Nat /\ LastPart(c).element \in 1..L
        /\ First(c) <= First(d) /\ First(d) <= Past(c) /\ Past(c) <= position
        /\ chunker = "hierarchical" => First(d) = Past(c)
        /\ chunker = "hybrid" => Past(c) - First(d) <= size.overlap_tokens
        /\ \/ IsPiece(LastPart(c))
           \/ doc[LastPart(c).element].heading # h
           \/ c.tokens + position + t - Past(c) > size.max_tokens
  <2>1. doc'[L + 1].heading = h
    BY <1>2
  <2>2. Awaits(c, First(d), h, t)
    BY <1>9, Zenon DEF Awaits
  <2>3. /\ chunker' = chunker /\ size' = size /\ size.max_tokens \in Nat /\ t \in Nat /\ position \in Nat
        /\ First(d) \in Nat /\ \A n \in 1..Len(doc) : doc'[n] = doc[n]
    BY <1>1, <1>2, <1>3, <1>8
  <2> QED BY <2>1, <2>2, <2>3, ItemMeets
<1>10. CASE ~Overflows(t) /\ group # <<>>
  <2>1. c = Latest /\ chunks # <<>> /\ Latest \in TextChunks /\ IsChunk(Latest)
    <3>1. c = Latest /\ chunks # <<>>
      BY <1>10 DEF take_item, Latest
    <3>2. Len(chunks) \in 1..Len(chunks)
      BY <1>3, <3>1
    <3> QED BY <1>1, <1>3, <3>1, <3>2 DEF InOrder, Latest
  <2>2. Meets(c, Open)
    BY <1>6, <1>10, <2>1
  <2>3. /\ Start \in 1..L /\ Open \in TextChunks /\ IsChunk(Open)
        /\ First(Open) = doc[Start].at /\ Past(Open) = position /\ LastPart(Open) = Whole(L)
    BY <1>1, <1>3, <1>10, OpenFacts
  <2>4. e = Start /\ e \in 1..L /\ First(d) = First(Open)
    BY <1>2, <1>10, <2>3
  <2>5. /\ c.tokens \in Nat /\ First(c) \in Nat /\ Past(c) \in Nat /\ LastPart(c).element \in 1..L /\ Past(c) = First(c) + c.tokens
    BY <1>7, <2>1
  <2>6. /\ First(c) <= First(d) /\ First(d) <= Past(c) /\ Past(c) <= position
        /\ chunker = "hierarchical" => First(d) = Past(c)
        /\ chunker = "hybrid" => Past(c) - First(d) <= size.overlap_tokens
    BY <2>2, <2>3, <2>4, Zenon DEF Meets
  <2>7. doc[L].heading = h /\ ~(doc[L].tokens > size.max_tokens)
    <3>1. L \in (L - Len(group) + 1)..L
      BY <1>2, <2>3 DEF Start
    <3>2. doc[L].tokens \in Nat
      BY <1>1, <1>2, <2>3, DocFacts
    <3>3. ~between /\ doc # <<>>
      BY <1>5, <1>10, Zenon
    <3>4. doc[L].heading = h
      BY <1>4, <3>3, Zenon
    <3>5. doc[L].tokens <= size.max_tokens
      BY <1>5, <3>1
    <3>6. size.max_tokens \in Nat
      BY <1>1
    <3> QED BY <3>2, <3>4, <3>5, <3>6
  <2>8. BoundaryIsNeeded(c, Open)
    BY <1>1, <2>2, Zenon DEF Meets
  <2>9. LastPart(Open).element = L
    BY <2>3 DEF Whole
  <2>10. \/ IsPiece(LastPart(c))
         \/ doc[LastPart(c).element].heading # h
         \/ c.tokens + Past(Open) - Past(c) > size.max_tokens
    BY <2>7, <2>8, <2>9 DEF BoundaryIsNeeded, IsPiece, LastPart
  <2>11. c.tokens + Past(Open) - Past(c) > size.max_tokens => c.tokens + position + t - Past(c) > size.max_tokens
    <3>1. t \in Nat /\ position \in Nat /\ size.max_tokens \in Nat /\ c.tokens \in Nat /\ Past(c) \in Nat
      BY <1>1, <1>2, <1>3, <2>5
    <3>2. \A p, q, m, k \in Nat : k + position - q > m => k + position + t - q > m
      BY <3>1
    <3> QED BY <2>3, <3>1, <3>2
  <2> QED BY <2>5, <2>6, <2>10, <2>11
<1>11. CASE group = <<>>
  <2>1. c = Latest /\ chunks # <<>> /\ Latest \in TextChunks /\ IsChunk(Latest)
    <3>1. c = Latest /\ chunks # <<>>
      BY <1>11 DEF take_item, Latest, Overflows
    <3>2. Len(chunks) \in 1..Len(chunks)
      BY <1>3, <3>1
    <3> QED BY <1>1, <1>3, <3>1, <3>2 DEF InOrder, Latest
  <2>2. /\ c.tokens \in Nat /\ First(c) \in Nat /\ Past(c) \in Nat /\ LastPart(c).element \in 1..L /\ Past(c) = First(c) + c.tokens
    BY <1>7, <2>1
  <2>3. Past(c) = position /\ LastPart(c).element = L /\ (~between => IsPiece(LastPart(c)))
    BY <1>6, <1>11, <2>1 DEF Reach, Latest
  <2>4. e = L + 1 /\ First(d) = position
    <3>1. Len(group) = 0 /\ ~Overflows(t)
      BY <1>11 DEF Overflows
    <3> QED BY <1>2, <3>1 DEF Start
  <2>5. IsPiece(LastPart(c)) \/ doc[LastPart(c).element].heading # h
    <3>1. doc # <<>>
      BY <1>2, <2>2
    <3> QED BY <1>4, <2>3, <3>1
  <2>6. First(c) <= position /\ position - position <= size.overlap_tokens /\ position <= position
    BY <1>1, <1>3, <2>2, <2>3
  <2> QED BY <2>2, <2>3, <2>4, <2>5, <2>6
<1>12. CASE Overflows(t)
  <2>1. group # <<>> /\ group_tokens + t > size.max_tokens
    BY <1>12 DEF Overflows
  <2>2. /\ Start \in 1..L /\ Open \in TextChunks /\ IsChunk(Open) /\ Open.tokens = group_tokens
        /\ First(Open) = doc[Start].at /\ Past(Open) = position /\ LastPart(Open) = Whole(L)
    BY <1>1, <1>3, <2>1, OpenFacts
  <2>3. c = Open
    <3>1. chunks' = Append(chunks, Open)
      BY <1>12, <2>1 DEF take_item, Yielded, Open
    <3>2. Len(chunks') = Len(chunks) + 1 /\ chunks'[Len(chunks) + 1] = Open
      BY <1>3, <2>2, <3>1, AppendProperties
    <3> QED BY <3>2
  <2>4. /\ c.tokens \in Nat /\ First(c) \in Nat /\ Past(c) \in Nat /\ LastPart(c).element \in 1..L /\ Past(c) = First(c) + c.tokens
    BY <1>7, <2>2, <2>3
  <2>5. First(c) <= First(d) /\ First(d) <= position
    <3>1. CASE e = L + 1
      BY <1>3, <2>2, <2>3, <2>4, <3>1
    <3>2. CASE e # L + 1
      <4>1. e \in 1..L /\ Start <= e
        BY <1>2, <2>2, <3>2
      <4>2. doc[Start].at <= doc[e].at /\ doc[e].at <= End(e) /\ End(e) <= position
        BY <1>1, <2>2, <4>1, DocFacts
      <4>3. doc[e].at \in Nat /\ End(e) \in Nat
        BY <1>1, <4>1, DocFacts
      <4> QED BY <1>3, <2>2, <2>3, <3>2, <4>2, <4>3
    <3> QED BY <3>1, <3>2
  <2>6. chunker = "hierarchical" => First(d) = Past(c)
    BY <1>12, <2>2, <2>3
  <2>7. chunker = "hybrid" => Past(c) - First(d) <= size.overlap_tokens
    BY <1>12, <2>2, <2>3
  <2>8. c.tokens + position + t - Past(c) > size.max_tokens
    <3>1. c.tokens + t > size.max_tokens /\ Past(c) = position
      BY <2>1, <2>2, <2>3
    <3> QED BY <1>1, <1>2, <1>3, <2>4, <3>1
  <2>9. position <= position
    BY <1>3
  <2> QED BY <2>2, <2>3, <2>4, <2>5, <2>6, <2>7, <2>8, <2>9
<1> QED BY <1>10, <1>11, <1>12

\* Where the open group starts and ends
LEMMA OpenEnds ==
  DocInv /\ OpenInv /\ Structural /\ group # <<>> /\ Len(chunks) \in Nat =>
    /\ Open \in TextChunks /\ First(Open) = doc[Start].at /\ Past(Open) = position
    /\ LastPart(Open).element = Len(doc)
    /\ group[1].at = doc[Start].at
BY OpenFacts DEF Whole

\* take_item keeps the invariant.
LEMMA TakeItemCovers ==
  ASSUME CoverInv, NEW h \in Headings, NEW t \in TokenCounts, take_item(h, t)
  PROVE  CoverInv'
<1> DEFINE L == Len(doc)
<1>1. /\ DocInv /\ OpenInv /\ Typed /\ Structural /\ InOrder(chunks, 0) /\ status = "reading"
      /\ chunker' = chunker /\ size' = size /\ status' = status /\ index' = index
      /\ size.max_tokens \in Nat
      /\ t <= size.max_tokens /\ Position(h, t) /\ Structural' /\ index \in Nat /\ between' = FALSE
  BY DEF CoverInv, ListInv, FitInv, Structural, take_item, NextElement, Typed, LineInv, Position
<1>2. /\ DocInv' /\ t \in Nat /\ L \in Nat /\ Len(doc') = L + 1 /\ position' = position + t
      /\ \A n \in 1..L : doc'[n] = doc[n]
      /\ doc'[L + 1] = [heading |-> h, at |-> position, tokens |-> t]
  BY <1>1, DocGrows
<1>3. position \in Nat /\ chunks \in Seq(TextChunks) /\ Len(chunks) \in Nat
  <2>1. chunks \in Seq(TextChunks)
    BY <1>1, Zenon DEF InOrder
  <2> QED BY <1>1, <2>1 DEF DocInv
<1>4. FitInv'
  BY TakeItemFits DEF CoverInv
<1>5. PICK e \in Start..(L + 1) :
           /\ e \in 1..(L + 1) /\ Len(group') = L + 2 - e /\ group' = Run(Start, Len(doc))'
           /\ group_tokens' = Span(group)'
           /\ doc'[e].at = IF e = L + 1 THEN position ELSE doc[e].at
           /\ ~Overflows(t) => e = Start
           /\ Overflows(t) /\ chunker = "hierarchical" => e = L + 1
           /\ Overflows(t) /\ chunker = "hybrid" => position - doc'[e].at <= size.overlap_tokens
  BY ItemGroup
<1>6. Start' = e /\ e \in Nat /\ e <= L + 1 /\ Len(group) \in 0..L /\ Start \in 1..(L + 1)
  <2>1. Len(group) \in 0..L
    BY <1>1 DEF OpenInv
  <2>2. Start = L - Len(group) + 1 /\ Start' = Len(doc') - Len(group') + 1
    BY DEF Start
  <2>3. Start \in 1..(L + 1) /\ e \in Nat /\ e <= L + 1
    BY <1>2, <1>5, <2>1, <2>2
  <2>4. Start' = (L + 1) - (L + 2 - e) + 1
    BY <1>2, <1>5, <2>2, Zenon
  <2> QED BY <1>2, <2>1, <2>3, <2>4
<1>7. group' # <<>> /\ doc' # <<>>
  <2>1. Len(group') # 0 /\ Len(doc') # 0
    BY <1>2, <1>5, <1>6
  <2> QED BY <2>1
<1>8. \A n \in e..(L + 1) : doc'[n].heading = h /\ doc'[n].tokens <= size.max_tokens
  <2>1. SUFFICES ASSUME NEW n \in e..(L + 1), n # L + 1
                 PROVE  doc'[n].heading = h /\ doc'[n].tokens <= size.max_tokens
    BY <1>1, <1>2
  <2>2. n \in Start..L /\ n \in 1..L /\ Len(group) # 0
    <3>1. e >= Start /\ Start \in Nat /\ n <= L /\ n >= e
      BY <1>2, <1>5, <1>6, <2>1
    <3>2. Start = L - Len(group) + 1 /\ Len(group) \in Nat
      BY <1>6 DEF Start
    <3> QED BY <1>2, <1>6, <3>1, <3>2
  <2>3. /\ doc[n].heading = doc[L].heading /\ doc[n].tokens <= size.max_tokens
        /\ IF between THEN group = <<>> ELSE doc # <<>>
    BY <1>1, <2>2 DEF OpenInv, Start
  <2>4. ~between /\ doc # <<>>
    <3>1. group # <<>>
      BY <2>2
    <3> QED BY <2>3, <3>1, Zenon
  <2>5. between = (doc = <<>> \/ doc[L].heading # h)
    BY DEF take_item, NextElement
  <2>6. doc[L].heading = h
    BY <2>4, <2>5, Zenon
  <2> QED BY <1>2, <2>2, <2>3, <2>6
<1>9. OpenInv'
  <2>1. Len(group') \in 0..Len(doc')
    BY <1>2, <1>5, <1>6
  <2>2. group' = Run(Len(doc) - Len(group) + 1, Len(doc))'
    BY <1>5 DEF Start
  <2>3. \A n \in Start'..Len(doc') : doc'[n].heading = doc'[Len(doc')].heading /\ doc'[n].tokens <= size'.max_tokens
    <3>1. L + 1 \in e..(L + 1)
      BY <1>2, <1>6
    <3> QED BY <1>1, <1>2, <1>6, <1>8, <3>1
  <2>4. \A n \in (Len(doc') - Len(group') + 1)..Len(doc') :
            doc'[n].heading = doc'[Len(doc')].heading /\ doc'[n].tokens <= size'.max_tokens
    BY <2>3 DEF Start
  <2> QED BY <1>1, <1>5, <1>7, <2>1, <2>2, <2>4 DEF OpenInv
<1>10. /\ chunks' = IF Overflows(t) THEN Yielded ELSE chunks
       /\ Overflows(t) => group # <<>> /\ doc # <<>>
  <2>1. chunks' = IF Overflows(t) THEN Yielded ELSE chunks
    BY DEF take_item
  <2>2. group # <<>> => doc # <<>>
    BY <1>1, <1>3, OpenFacts
  <2> QED BY <2>1, <2>2 DEF Overflows
<1>11. /\ InOrder(Yielded, 0) /\ Yielded \in Seq(TextChunks)
       /\ doc # <<>> => Reach(Yielded)
       /\ \A n \in 1..L : doc[n].tokens > 0 => Covers(Yielded, n)
  BY <1>1, YieldedFacts
<1>12. ListInv'
  <2>1. \A s, n : InOrder(s, n) => InOrder(s, n)'
    BY <1>1, <1>2, ChunksStay
  <2>2. InOrder(chunks', 0)
    BY <1>1, <1>10, <1>11, Zenon
  <2>3. InOrder(chunks, 0)'
    BY <2>1, <2>2
  <2> QED BY <1>1, <2>3 DEF ListInv
<1>13. JoinInv'
  <2> DEFINE at(n) == IF n = L + 1 THEN position ELSE doc[n].at
  <2>1. /\ chunks = <<>> => IF group = <<>> THEN doc = <<>> ELSE group[1].at = 0
        /\ chunks # <<>> => First(chunks[1]) = 0
        /\ \A n \in 1..L : doc[n].tokens > 0 => Covers(chunks, n) \/ InGroup(n)
    <3>1. status # "failed"
      BY <1>1
    <3> QED BY <1>1, <3>1, Zenon DEF CoverInv, JoinInv
  <2>2. ~Overflows(t) \/ (chunks' # <<>> /\ Reach(chunks'))
    BY <1>10, <1>11 DEF Reach
  <2>3. \A m : m = Len(chunks') =>
          /\ Open' \in TextChunks /\ First(Open)' = doc'[e].at
          /\ Past(Open)' = position + t /\ LastPart(Open)'.element = L + 1
          /\ group'[1].at = doc'[e].at
    <3>1. Len(chunks') \in Nat
      <4>1. chunks' \in Seq(TextChunks)
        BY <1>3, <1>10, <1>11
      <4> QED BY <4>1
    <3>2. (DocInv /\ OpenInv /\ Structural /\ group # <<>> /\ Len(chunks) \in Nat =>
             /\ Open \in TextChunks /\ First(Open) = doc[Start].at /\ Past(Open) = position
             /\ LastPart(Open).element = Len(doc)
             /\ group[1].at = doc[Start].at)'
      BY OpenEnds, PTL
    <3> QED BY <1>1, <1>2, <1>6, <1>7, <1>9, <3>1, <3>2
  <2>4. chunks' = <<>> => group'[1].at = 0
    <3>1. SUFFICES ASSUME chunks' = <<>> PROVE group'[1].at = 0
      OBVIOUS
    <3>2. ~Overflows(t) /\ chunks = <<>> /\ e = Start /\ group'[1].at = doc'[e].at
      BY <1>5, <1>10, <2>2, <2>3, <3>1
    <3>3. CASE group = <<>>
      <4>1. doc = <<>> /\ position = 0
        BY <1>1, <2>1, <3>2, <3>3 DEF DocInv
      <4>2. e = L + 1
        BY <1>2, <3>2, <3>3 DEF Start
      <4> QED BY <1>5, <3>2, <4>1, <4>2
    <3>4. CASE group # <<>>
      <4>1. group[1].at = doc[Start].at /\ Start \in 1..L
        BY <1>1, <1>3, <3>4, OpenFacts
      <4>2. Start # L + 1
        BY <1>2, <4>1
      <4> QED BY <1>5, <2>1, <3>2, <3>4, <4>1, <4>2
    <3> QED BY <3>3, <3>4
  <2>5. chunks' # <<>> => First(chunks'[1]) = 0
    BY <1>10, <2>1, <2>2 DEF Reach
  <2>6. chunks' # <<>> => Meets(Latest, Open)'
    <3>1. SUFFICES ASSUME chunks' # <<>> PROVE Meets(Latest, Open)'
      OBVIOUS
    <3>2. \A c, d : c = chunks'[Len(chunks')] /\ d = Open' => Meets(c, d)'
      <4>1. SUFFICES ASSUME NEW c, NEW d, c = chunks'[Len(chunks')], d = Open' PROVE Meets(c, d)'
        OBVIOUS
      <4>2. d \in TextChunks /\ First(d) = doc'[e].at /\ Past(d) = position + t /\ LastPart(d).element = L + 1
        BY <2>3, <4>1 DEF First, Past, LastPart
      <4> QED BY <1>5, <1>9, <3>1, <4>1, <4>2, TakeItemMeets
    <3> QED BY <3>2 DEF Latest
  <2>7. \A n \in 1..Len(doc') : doc'[n].tokens > 0 => Covers(chunks', n) \/ InGroup(n)'
    <3>1. SUFFICES ASSUME NEW n \in 1..(L + 1), doc'[n].tokens > 0, n < e PROVE Covers(chunks', n)
      <4>1. \A n \in 1..(L + 1) : InGroup(n)' <=> ~(n < e)
        BY <1>2, <1>5, <1>6 DEF InGroup
      <4> QED BY <1>2, <3>1, <4>1
    <3>2. n \in 1..L /\ doc[n].tokens > 0
      BY <1>2, <1>6, <3>1
    <3>3. CASE Overflows(t)
      BY <1>10, <1>11, <3>2, <3>3
    <3>4. CASE ~Overflows(t)
      <4>1. ~InGroup(n)
        <5>1. Start = L - Len(group) + 1 /\ n < Start /\ Len(group) \in Nat
          BY <1>5, <1>6, <3>1, <3>4 DEF Start
        <5> QED BY <1>2, <3>2, <5>1 DEF InGroup
      <4> QED BY <1>10, <2>1, <3>2, <3>4, <4>1
    <3> QED BY <3>3, <3>4
  <2> QED BY <1>7, <2>4, <2>5, <2>6, <2>7 DEF JoinInv, Covers, HasText, First
<1>14. LineInv'
  BY <1>1 DEF LineInv
<1> QED BY <1>2, <1>4, <1>9, <1>12, <1>13, <1>14 DEF CoverInv

-----------------------------------------------------------------------------
(* Oversized elements *)

\* A product with a natural number grows with the other factor.
LEMMA ProductGrows ==
  ASSUME NEW a \in Nat, NEW b \in Nat, NEW m \in Nat, a <= b
  PROVE  a * m \in Nat /\ a * m <= b * m
<1>1. a * m \in Nat /\ b * m \in Nat /\ (b - a) * m \in Nat /\ b - a \in Nat
  OBVIOUS
<1>2. b * m = a * m + (b - a) * m
  OBVIOUS
<1> QED BY <1>1, <1>2

\* Division that rounds up
LEMMA RoundsUp ==
  ASSUME NEW t \in Nat, NEW m \in Nat, m > 0, t > 0
  PROVE  \A k : k = (t + m - 1) \div m => k \in Nat /\ k >= 1 /\ t <= k * m /\ (k - 1) * m < t
<1> SUFFICES ASSUME NEW k, k = (t + m - 1) \div m
             PROVE  k \in Nat /\ k >= 1 /\ t <= k * m /\ (k - 1) * m < t
  OBVIOUS
<1> DEFINE d == t + m - 1
<1>1. d \in Nat /\ d >= m
  OBVIOUS
<1>2. k \in Nat
  BY <1>1, PiecesAreCounted
<1>3. k * m <= d /\ d < (k + 1) * m
  <2> HIDE DEF d
  <2>1. d = m * (d \div m) + (d % m) /\ d % m \in 0..(m - 1)
    BY <1>1
  <2> QED BY <1>1, <1>2, <2>1 DEF d
<1>4. (k + 1) * m = k * m + m /\ (k - 1) * m = k * m - m /\ k * m \in Nat
  BY <1>2
<1>5. k # 0
  BY <1>1, <1>3, <1>4
<1> QED BY <1>2, <1>3, <1>4, <1>5

\* split_oversized: the pieces have text, follow each other and end where
\* the element does.
LEMMA CutUp ==
  ASSUME NEW m \in Nat, m > 0, NEW t \in Nat, t > 0
  PROVE  \A k : k = (t + m - 1) \div m =>
           /\ k \in Nat /\ k >= 1
           /\ \A i \in 1..k : (i - 1) * m \in Nat /\ Least(m, t - (i - 1) * m) \in Nat /\ Least(m, t - (i - 1) * m) > 0
           /\ \A i \in 1..(k - 1) : (i - 1) * m + Least(m, t - (i - 1) * m) = ((i + 1) - 1) * m
           /\ (k - 1) * m + Least(m, t - (k - 1) * m) = t
<1> SUFFICES ASSUME NEW k, k = (t + m - 1) \div m
             PROVE  /\ k \in Nat /\ k >= 1
                    /\ \A i \in 1..k : (i - 1) * m \in Nat /\ Least(m, t - (i - 1) * m) \in Nat /\ Least(m, t - (i - 1) * m) > 0
                    /\ \A i \in 1..(k - 1) : (i - 1) * m + Least(m, t - (i - 1) * m) = ((i + 1) - 1) * m
                    /\ (k - 1) * m + Least(m, t - (k - 1) * m) = t
  OBVIOUS
<1>1. k \in Nat /\ k >= 1 /\ t <= k * m /\ (k - 1) * m < t
  BY RoundsUp
<1>2. k * m = (k - 1) * m + m /\ (k - 1) * m \in Nat
  BY <1>1
<1>3. ASSUME NEW i \in 1..k PROVE (i - 1) * m \in Nat /\ (i - 1) * m < t
  <2>1. i - 1 \in Nat /\ k - 1 \in Nat /\ i - 1 <= k - 1
    BY <1>1
  <2> QED BY <1>1, <1>2, <2>1, ProductGrows
<1>4. ASSUME NEW i \in 1..k PROVE Least(m, t - (i - 1) * m) \in Nat /\ Least(m, t - (i - 1) * m) > 0
  <2> DEFINE x == (i - 1) * m
  <2>1. x \in Nat /\ x < t
    BY <1>3
  <2> HIDE DEF x
  <2>2. Least(m, t - x) \in Nat /\ Least(m, t - x) > 0
    BY <2>1 DEF Least
  <2> QED BY <2>2 DEF x
<1>5. ASSUME NEW i \in 1..(k - 1) PROVE (i - 1) * m + Least(m, t - (i - 1) * m) = ((i + 1) - 1) * m
  <2> DEFINE x == (i - 1) * m
             y == ((i + 1) - 1) * m
  <2>1. i \in 1..k /\ i + 1 \in 1..k /\ i \in Nat
    BY <1>1
  <2>2. x \in Nat /\ y \in Nat /\ y < t
    BY <1>3, <2>1
  <2>3. y = x + m
    BY <2>1
  <2> HIDE DEF x, y
  <2>4. x + Least(m, t - x) = y
    BY <2>2, <2>3 DEF Least
  <2> QED BY <2>4 DEF x, y
<1>6. (k - 1) * m + Least(m, t - (k - 1) * m) = t
  <2> DEFINE x == (k - 1) * m
  <2>1. x \in Nat /\ x < t /\ t <= x + m
    BY <1>1, <1>2
  <2> HIDE DEF x
  <2>2. x + Least(m, t - x) = t
    BY <2>1 DEF Least
  <2> QED BY <2>2 DEF x
<1> QED BY <1>1, <1>3, <1>4, <1>5, <1>6

\* A piece meets what ends where it starts.
LEMMA PieceMeets ==
  size.overlap_tokens \in Nat =>
    \A c, d :
      /\ First(c) \in Nat /\ c.tokens \in Nat /\ d.tokens \in Nat /\ First(d) = Past(c)
      /\ LastPart(d) # LastPart(c) /\ IsPiece(LastPart(d))
      => Meets(c, d)
<1> SUFFICES ASSUME size.overlap_tokens \in Nat, NEW c, NEW d,
                    First(c) \in Nat, c.tokens \in Nat, d.tokens \in Nat, First(d) = Past(c),
                    LastPart(d) # LastPart(c), IsPiece(LastPart(d))
             PROVE  Meets(c, d)
  OBVIOUS
<1>1. Past(c) = First(c) + c.tokens /\ Past(d) = First(d) + d.tokens
  BY DEF Past
<1>2. BoundaryIsNeeded(c, d)
  BY DEF BoundaryIsNeeded, LastPart
<1>3. /\ First(c) <= First(d) /\ First(d) <= Past(c) /\ Past(c) <= Past(d)
      /\ Past(c) - First(d) <= size.overlap_tokens
  BY <1>1
<1> QED BY <1>2, <1>3, Zenon DEF Meets

\* A piece is a chunk.
LEMMA PieceIsChunk ==
  \A part \in TextParts, q \in Nat :
    part.element \in 1..Len(doc) =>
      \A c : c = build_candidate(<<part>>, part.tokens, q) =>
      /\ c \in TextChunks /\ IsChunk(c) /\ c.ordinal = q /\ c.tokens = part.tokens
      /\ First(c) = part.at /\ LastPart(c) = part /\ Past(c) = part.at + part.tokens
<1> SUFFICES ASSUME NEW part \in TextParts, NEW n \in Nat, part.element \in 1..Len(doc),
                    NEW c, c = build_candidate(<<part>>, part.tokens, n)
             PROVE  /\ c \in TextChunks /\ IsChunk(c) /\ c.ordinal = n /\ c.tokens = part.tokens
                    /\ First(c) = part.at /\ LastPart(c) = part /\ Past(c) = part.at + part.tokens
  OBVIOUS
<1> DEFINE p == <<part>>
<1>1. p \in Seq(TextParts) /\ Len(p) = 1 /\ p[1] = part /\ p # <<>>
  OBVIOUS
<1>2. part.at \in Nat /\ part.tokens \in Nat
  BY DEF TextParts
<1> HIDE DEF p
<1>3. c.parts = p /\ c.tokens = part.tokens /\ c.ordinal = n /\ c \in TextChunks
  BY <1>1, <1>2 DEF build_candidate, TextChunks
<1>4. First(c) = part.at /\ LastPart(c) = part /\ Past(c) = part.at + part.tokens
  BY <1>1, <1>3 DEF First, LastPart, Past
<1>5. Span(p) = part.at + part.tokens - part.at
  BY <1>1 DEF Span
<1>6. IsRun(c)
  <2>1. \A i \in 1..(Len(p) - 1) : FALSE
    BY <1>1
  <2>2. Span(p) = part.tokens
    BY <1>2, <1>5
  <2> QED BY <1>3, <2>1, <2>2 DEF IsRun
<1>7. \A k \in 1..Len(p) : p[k] = part
  BY <1>1
<1>8. IsChunk(c)
  BY <1>1, <1>3, <1>4, <1>6, <1>7 DEF IsChunk
<1> QED BY <1>3, <1>4, <1>8

\* The candidates of the pieces, the first of which has ordinal n
Cut(pieces, n) == [i \in 1..Len(pieces) |-> build_candidate(<<pieces[i]>>, pieces[i].tokens, n + i - 1)]

\* These chunks are pieces of the element at the cursor, which has t tokens.
Pieces(s, t) ==
  /\ s \in Seq(TextChunks) /\ s # <<>>
  /\ First(s[1]) = position /\ Past(s[Len(s)]) = position + t
  /\ s[1].tokens \in Nat /\ HasText(s[1], Len(doc) + 1)
  /\ \A i \in 1..Len(s) : LastPart(s[i]).element = Len(doc) + 1

\* take_oversized: the pieces are chunks in order that cover the element.
LEMMA CutChunks ==
  ASSUME CoverInv, NEW h \in Headings, NEW t \in TokenCounts, take_oversized(h, t), NEW n \in Nat,
         NEW pieces, pieces = split_oversized(Part(Len(doc) + 1, t)),
         NEW s, s = Cut(pieces, n)
  PROVE  InOrder(s, n)' /\ Pieces(s, t)
<1> DEFINE L == Len(doc)
           m == size.max_tokens
           k == (t + m - 1) \div m
           at(i) == (i - 1) * m
           len(i) == Least(m, t - (i - 1) * m)
<1>1. /\ DocInv /\ Typed /\ Position(h, t) /\ size' = size
      /\ m \in Nat /\ size.overlap_tokens \in Nat /\ m > 0 /\ t > m
  BY DEF CoverInv, FitInv, take_oversized, NextElement, Typed, ValidSize
<1>2. /\ DocInv' /\ t \in Nat /\ L \in Nat /\ Len(doc') = L + 1 /\ position' = position + t
      /\ doc'[L + 1] = [heading |-> h, at |-> position, tokens |-> t]
  BY <1>1, DocGrows
<1>3. position \in Nat
  BY <1>1 DEF DocInv
<1>4. /\ k \in Nat /\ k >= 1
      /\ \A i \in 1..k : at(i) \in Nat /\ len(i) \in Nat /\ len(i) > 0
      /\ \A i \in 1..(k - 1) : at(i) + len(i) = at(i + 1)
      /\ at(k) + len(k) = t
  <2>1. t > 0
    BY <1>1, <1>2
  <2>2. m \in Nat /\ m > 0 /\ t \in Nat
    BY <1>1, <1>2
  <2>3. \A j : j = (t + m - 1) \div m =>
           /\ j \in Nat /\ j >= 1
           /\ \A i \in 1..j : (i - 1) * m \in Nat /\ Least(m, t - (i - 1) * m) \in Nat /\ Least(m, t - (i - 1) * m) > 0
           /\ \A i \in 1..(j - 1) : (i - 1) * m + Least(m, t - (i - 1) * m) = ((i + 1) - 1) * m
           /\ (j - 1) * m + Least(m, t - (j - 1) * m) = t
    <3> HIDE DEF m
    <3> QED BY <2>1, <2>2, CutUp
  <2> QED BY <2>3, Zenon
<1>5. at(1) = 0
  <2>1. (1 - 1) * m = 0
    BY <1>1
  <2> QED BY <2>1
<1>6. pieces = [i \in 1..k |-> [element |-> L + 1, at |-> position + at(i), tokens |-> len(i)]]
  BY DEF split_oversized, Part
<1>7. size.overlap_tokens \in Nat /\ size'.overlap_tokens \in Nat /\ size'.max_tokens = m
  BY <1>1
<1> HIDE DEF k, at, len
<1>8. Len(pieces) = k /\ \A i \in 1..k :
        /\ pieces[i] \in TextParts /\ pieces[i].element = L + 1
        /\ pieces[i].at = position + at(i) /\ pieces[i].tokens = len(i)
  <2>1. Len(pieces) = k
    BY <1>4, <1>6
  <2>2. ASSUME NEW i \in 1..k
        PROVE  /\ pieces[i] \in TextParts /\ pieces[i].element = L + 1
               /\ pieces[i].at = position + at(i) /\ pieces[i].tokens = len(i)
    <3>1. pieces[i] = [element |-> L + 1, at |-> position + at(i), tokens |-> len(i)]
      BY <1>6
    <3>2. L + 1 \in Nat /\ position + at(i) \in Nat /\ len(i) \in Nat
      <4>1. at(i) \in Nat /\ len(i) \in Nat
        BY <1>4
      <4> QED BY <1>2, <1>3, <4>1
    <3> QED BY <3>1, <3>2 DEF TextParts
  <2> QED BY <2>1, <2>2
<1>9. \A i \in 1..k :
        /\ s[i] \in TextChunks /\ IsChunk(s[i])' /\ s[i].ordinal = n + i - 1 /\ s[i].tokens = len(i)
        /\ First(s[i]) = position + at(i) /\ LastPart(s[i]) = pieces[i] /\ Past(s[i]) = position + at(i) + len(i)
        /\ s[i].parts = <<pieces[i]>>
  <2>1. SUFFICES ASSUME NEW i \in 1..k
                 PROVE  /\ s[i] \in TextChunks /\ IsChunk(s[i])' /\ s[i].ordinal = n + i - 1 /\ s[i].tokens = len(i)
                        /\ First(s[i]) = position + at(i) /\ LastPart(s[i]) = pieces[i]
                        /\ Past(s[i]) = position + at(i) + len(i) /\ s[i].parts = <<pieces[i]>>
    OBVIOUS
  <2>2. s[i] = build_candidate(<<pieces[i]>>, pieces[i].tokens, n + i - 1)
    BY <1>8 DEF Cut
  <2>3. n + i - 1 \in Nat /\ L + 1 \in 1..(L + 1)
    BY <1>2, <1>4
  <2>4. (\A part \in TextParts, q \in Nat :
           part.element \in 1..Len(doc) =>
             \A c : c = build_candidate(<<part>>, part.tokens, q) =>
             /\ c \in TextChunks /\ IsChunk(c) /\ c.ordinal = q /\ c.tokens = part.tokens
             /\ First(c) = part.at /\ LastPart(c) = part /\ Past(c) = part.at + part.tokens)'
    BY PieceIsChunk, PTL
  <2>5. /\ s[i] \in TextChunks /\ IsChunk(s[i])' /\ s[i].ordinal = n + i - 1 /\ s[i].tokens = pieces[i].tokens
        /\ First(s[i])' = pieces[i].at /\ LastPart(s[i])' = pieces[i] /\ Past(s[i])' = pieces[i].at + pieces[i].tokens
    BY <1>2, <1>8, <2>2, <2>3, <2>4
  <2>6. First(s[i])' = First(s[i]) /\ LastPart(s[i])' = LastPart(s[i]) /\ Past(s[i])' = Past(s[i])
    BY DEF First, LastPart, Past
  <2>7. s[i].parts = <<pieces[i]>>
    BY <2>2 DEF build_candidate
  <2> QED BY <1>8, <2>5, <2>6, <2>7
<1>10. s \in Seq(TextChunks) /\ Len(s) = k /\ s # <<>>
  <2>1. s \in Seq(TextChunks) /\ Len(s) = k
    <3>1. s = [i \in 1..k |-> s[i]]
      BY <1>8 DEF Cut
    <3>2. \A i \in 1..k : s[i] \in TextChunks
      BY <1>9
    <3>3. \A f : k \in Nat /\ f = [i \in 1..k |-> f[i]] /\ (\A i \in 1..k : f[i] \in TextChunks)
                   => f \in Seq(TextChunks) /\ Len(f) = k
      OBVIOUS
    <3> QED BY <1>4, <3>1, <3>2, <3>3, Zenon
  <2>2. k # 0
    BY <1>4
  <2> QED BY <2>1, <2>2
<1>11. ASSUME NEW i \in 1..(k - 1) PROVE Meets(s[i], s[i + 1])'
  <2>1. i \in 1..k /\ i + 1 \in 1..k
    BY <1>4
  <2>2. /\ at(i) \in Nat /\ len(i) \in Nat /\ len(i) > 0 /\ len(i + 1) \in Nat /\ at(i) + len(i) = at(i + 1)
    BY <1>4, <2>1
  <2>3. /\ First(s[i]) \in Nat /\ s[i].tokens \in Nat /\ s[i + 1].tokens \in Nat /\ First(s[i + 1]) = Past(s[i])
    <3>1. /\ First(s[i]) = position + at(i) /\ Past(s[i]) = position + at(i) + len(i) /\ s[i].tokens = len(i)
          /\ First(s[i + 1]) = position + at(i + 1) /\ s[i + 1].tokens = len(i + 1)
      BY <1>9, <2>1, Zenon
    <3>2. position + at(i) \in Nat /\ position + at(i) + len(i) = position + at(i + 1)
      BY <1>3, <2>2
    <3> QED BY <2>2, <3>1, <3>2, Zenon
  <2>4. LastPart(s[i + 1]) # LastPart(s[i])
    <3>1. pieces[i + 1].at # pieces[i].at
      <4>1. pieces[i + 1].at = position + at(i + 1) /\ pieces[i].at = position + at(i)
        BY <1>8, <2>1, Zenon
      <4> QED BY <1>3, <2>2, <4>1
    <3> QED BY <1>9, <2>1, <3>1
  <2>5. IsPiece(LastPart(s[i + 1]))'
    <3>1. LastPart(s[i + 1]).element = L + 1
      <4>1. LastPart(s[i + 1]) = pieces[i + 1]
        BY <1>9, <2>1, Zenon
      <4>2. pieces[i + 1].element = L + 1
        BY <1>8, <2>1, Zenon
      <4> QED BY <4>1, <4>2
    <3>2. \A x : x = L + 1 => doc'[x].tokens > size'.max_tokens
      BY <1>1, <1>2
    <3> QED BY <3>1, <3>2 DEF IsPiece, LastPart
  <2>6. (size.overlap_tokens \in Nat =>
           \A c, d :
             /\ First(c) \in Nat /\ c.tokens \in Nat /\ d.tokens \in Nat /\ First(d) = Past(c)
             /\ LastPart(d) # LastPart(c) /\ IsPiece(LastPart(d))
             => Meets(c, d))'
    BY PieceMeets, PTL
  <2>7. /\ First(s[i])' = First(s[i]) /\ LastPart(s[i])' = LastPart(s[i]) /\ Past(s[i])' = Past(s[i])
        /\ First(s[i + 1])' = First(s[i + 1]) /\ LastPart(s[i + 1])' = LastPart(s[i + 1])
    BY DEF First, LastPart, Past
  <2> QED BY <1>7, <2>3, <2>4, <2>5, <2>6, <2>7
<1>12. InOrder(s, n)'
  BY <1>9, <1>10, <1>11 DEF InOrder
<1>13. 1 \in 1..k /\ k \in 1..k
  BY <1>4
<1>14. First(s[1]) = position /\ Past(s[Len(s)]) = position + t
  <2>1. First(s[1]) = position + at(1) /\ Past(s[k]) = position + at(k) + len(k) /\ at(k) \in Nat /\ len(k) \in Nat
    BY <1>4, <1>9, <1>13
  <2>2. t \in Nat /\ at(k) + len(k) = t
    BY <1>2, <1>4
  <2>3. position + at(1) = position /\ position + at(k) + len(k) = position + t
    BY <1>3, <1>5, <2>1, <2>2
  <2> QED BY <1>10, <2>1, <2>3, Zenon
<1>15. s[1].tokens \in Nat /\ HasText(s[1], L + 1)
  <2> DEFINE one == <<pieces[1]>>
  <2>1. s[1].tokens \in Nat /\ s[1].tokens > 0 /\ s[1].parts = one /\ pieces[1].element = L + 1
    BY <1>4, <1>8, <1>9, <1>13
  <2>2. one[1] = pieces[1] /\ 1 \in 1..Len(one)
    OBVIOUS
  <2> HIDE DEF one
  <2> QED BY <2>1, <2>2 DEF HasText
<1>16. \A i \in 1..Len(s) : LastPart(s[i]).element = L + 1
  <2>1. SUFFICES ASSUME NEW i \in 1..k PROVE LastPart(s[i]).element = L + 1
    BY <1>10
  <2>2. LastPart(s[i]) = pieces[i]
    BY <1>9
  <2>3. pieces[i].element = L + 1
    BY <1>8
  <2> QED BY <2>2, <2>3
<1> QED BY <1>10, <1>12, <1>14, <1>15, <1>16 DEF Pieces

\* The run of an empty group
LEMMA EmptyRun == DocInv /\ Len(group) = 0 => Run(Len(doc) - Len(group) + 1, Len(doc)) = <<>>
<1> DEFINE a == Len(doc) - Len(group) + 1
<1> SUFFICES ASSUME DocInv, Len(group) = 0 PROVE Run(a, Len(doc)) = <<>>
  OBVIOUS
<1>1. a = Len(doc) + 1 /\ a \in 1..(Len(doc) + 1)
  BY DocFacts
<1> HIDE DEF a
<1> QED BY <1>1, LastRun

\* take_oversized keeps the invariant.
LEMMA TakeOversizedCovers ==
  ASSUME CoverInv, NEW h \in Headings, NEW t \in TokenCounts, take_oversized(h, t)
  PROVE  CoverInv'
<1> DEFINE L == Len(doc)
<1>1. /\ DocInv /\ OpenInv /\ Typed /\ Structural /\ InOrder(chunks, 0) /\ status = "reading"
      /\ chunker' = chunker /\ size' = size /\ index' = index /\ index \in Nat
      /\ size.max_tokens \in Nat /\ size.overlap_tokens \in Nat
      /\ t > size.max_tokens /\ Position(h, t) /\ Structural' /\ between' = FALSE
      /\ group' = <<>> /\ group_tokens' = 0
  BY DEF CoverInv, ListInv, FitInv, Structural, take_oversized, NextElement, Typed, LineInv, Position
<1>2. /\ DocInv' /\ t \in Nat /\ L \in Nat /\ Len(doc') = L + 1 /\ position' = position + t
      /\ \A n \in 1..L : doc'[n] = doc[n]
      /\ doc'[L + 1] = [heading |-> h, at |-> position, tokens |-> t]
  BY <1>1, DocGrows
<1>3. FitInv'
  BY TakeOversizedFits DEF CoverInv
<1>4. PICK n, pieces, cut :
        /\ n = Len(Yielded) /\ pieces = split_oversized(Part(L + 1, t))
        /\ cut = Cut(pieces, n)
        /\ (status' = "failed" /\ chunks' = Yielded) \/ (status' = "reading" /\ chunks' = Yielded \o cut)
  <2> DEFINE P == split_oversized(Part(Len(doc) + 1, t))
             N == Len(Yielded)
             C == [i \in 1..Len(P) |-> build_candidate(<<P[i]>>, P[i].tokens, N + i - 1)]
  <2>1. (status' = "failed" /\ chunks' = Yielded) \/ (status' = status /\ chunks' = Yielded \o C)
    <3>1. CASE size.oversized = "fail" /\ status' = "failed" /\ chunks' = Yielded
      BY <3>1
    <3>2. CASE size.oversized = "split" /\ chunks' = Yielded \o C /\ UNCHANGED status
      BY <3>2
    <3> QED BY <3>1, <3>2 DEF take_oversized
  <2>2. (status' = "failed" /\ chunks' = Yielded) \/ (status' = "reading" /\ chunks' = Yielded \o C)
    <3> HIDE DEF C
    <3> QED BY <1>1, <2>1
  <2>3. \E n, pieces, cut :
          /\ n = N /\ pieces = P /\ cut = Cut(pieces, n)
          /\ cut = C
    <3> HIDE DEF P, N
    <3> QED BY DEF Cut
  <2> HIDE DEF C
  <2> QED BY <2>2, <2>3, Zenon
<1>5. position \in Nat /\ (doc = <<>> => position = 0)
  BY <1>1 DEF DocInv
<1>6. /\ InOrder(Yielded, 0) /\ Yielded \in Seq(TextChunks) /\ Len(Yielded) \in Nat
      /\ doc = <<>> => Yielded = <<>>
      /\ doc # <<>> => Reach(Yielded)
      /\ \A x \in 1..L : doc[x].tokens > 0 => Covers(Yielded, x)
  <2>1. Yielded \in Seq(TextChunks)
    BY <1>1, YieldedFacts
  <2>2. Len(Yielded) \in Nat
    BY <2>1
  <2> QED BY <1>1, <2>1, <2>2, YieldedFacts
<1>7. /\ cut \in Seq(TextChunks) /\ cut # <<>> /\ InOrder(cut, n)'
      /\ First(cut[1]) = position /\ Past(cut[Len(cut)]) = position + t
      /\ cut[1].tokens \in Nat /\ HasText(cut[1], L + 1)
      /\ \A i \in 1..Len(cut) : LastPart(cut[i]).element = L + 1
  <2>1. n \in Nat
    BY <1>4, <1>6
  <2>2. /\ pieces = split_oversized(Part(Len(doc) + 1, t))
        /\ cut = Cut(pieces, n)
    BY <1>4
  <2>3. InOrder(cut, n)' /\ Pieces(cut, t)
    BY <2>1, <2>2, CutChunks
  <2> QED BY <2>3 DEF Pieces
<1>8. OpenInv'
  <2>1. Run(Len(doc) - Len(group) + 1, Len(doc))' = <<>>
    <3>1. (DocInv /\ Len(group) = 0 => Run(Len(doc) - Len(group) + 1, Len(doc)) = <<>>)'
      BY EmptyRun, PTL
    <3>2. Len(group') = 0
      BY <1>1
    <3> QED BY <1>2, <3>1, <3>2
  <2> QED BY <1>1, <1>2, <1>4, <2>1 DEF OpenInv, Span
<1>9. PICK y : y = Yielded
  OBVIOUS
<1>10. y \in Seq(TextChunks) /\ Len(y) \in Nat /\ InOrder(y, 0)'
  <2>1. \A s, i : InOrder(s, i) => InOrder(s, i)'
    BY <1>1, <1>2, ChunksStay
  <2>2. InOrder(y, 0)
    BY <1>6, <1>9
  <2> QED BY <1>6, <1>9, <2>1, <2>2
<1>11. 1 \in 1..Len(cut) /\ Len(cut) \in 1..Len(cut) /\ Len(cut) \in Nat
  BY <1>7
<1>12. ASSUME y # <<>> PROVE Meets(y[Len(y)], cut[1])'
  <2> DEFINE b == y[Len(y)]
             e == cut[1]
  <2>1. doc # <<>> /\ Past(b) = position /\ LastPart(b).element = L
    BY <1>6, <1>9, <1>12 DEF Reach
  <2>2. b \in TextChunks /\ IsChunk(b) /\ e \in TextChunks
    <3>1. Len(y) \in 1..Len(y)
      BY <1>10, <1>12
    <3>2. IsChunk(y[Len(y)])
      BY <1>6, <1>9, <3>1 DEF InOrder
    <3> QED BY <1>7, <1>10, <1>11, <3>1, <3>2
  <2>3. LastPart(e).element = L + 1
    BY <1>7, <1>11
  <2> HIDE DEF b, e
  <2>4. b.tokens \in Nat /\ First(b) \in Nat /\ e.tokens \in Nat
    <3> DEFINE p == b.parts
    <3>1. b.tokens \in Nat /\ e.tokens \in Nat /\ p \in Seq(TextParts) /\ p # <<>>
      BY <2>2 DEF TextChunks, IsChunk
    <3>2. p[1] \in TextParts
      <4> HIDE DEF p
      <4> QED BY <3>1
    <3> QED BY <3>1, <3>2 DEF First, TextParts
  <2>5. LastPart(e) # LastPart(b)
    BY <1>2, <2>1, <2>3
  <2>6. IsPiece(LastPart(e))'
    <3>1. \A x : x = L + 1 => doc'[x].tokens > size'.max_tokens
      BY <1>1, <1>2
    <3> QED BY <2>3, <3>1 DEF IsPiece, LastPart
  <2>7. First(e) = Past(b)
    BY <1>7, <2>1 DEF e
  <2>8. (size.overlap_tokens \in Nat =>
           \A c, d :
             /\ First(c) \in Nat /\ c.tokens \in Nat /\ d.tokens \in Nat /\ First(d) = Past(c)
             /\ LastPart(d) # LastPart(c) /\ IsPiece(LastPart(d))
             => Meets(c, d))'
    BY PieceMeets, PTL
  <2>9. \A u, v : u = b /\ v = e => Meets(u, v)'
    <3>1. SUFFICES ASSUME NEW u, NEW v, u = b, v = e PROVE Meets(u, v)'
      OBVIOUS
    <3>2. /\ First(u)' = First(u) /\ LastPart(u)' = LastPart(u) /\ Past(u)' = Past(u)
          /\ First(v)' = First(v) /\ LastPart(v)' = LastPart(v)
      BY DEF First, LastPart, Past
    <3>3. IsPiece(LastPart(v))'
      BY <2>6, <3>1
    <3>4. size'.overlap_tokens \in Nat
      BY <1>1
    <3> QED BY <2>4, <2>5, <2>7, <2>8, <3>1, <3>2, <3>3, <3>4
  <2> QED BY <2>9 DEF b, e
<1>13. InOrder(y \o cut, 0)'
  <2>1. ListsJoin'
    BY Joined, PTL
  <2>2. n = 0 + Len(y)
    BY <1>4, <1>9, <1>10
  <2>3. \A s, v, k :
          /\ k \in Nat /\ InOrder(s, k)' /\ InOrder(v, k + Len(s))'
          /\ (s # <<>> /\ v # <<>> => Meets(s[Len(s)], v[1])')
          => InOrder(s \o v, k)'
    BY <2>1 DEF ListsJoin
  <2> QED BY <1>7, <1>10, <1>12, <2>2, <2>3
<1>14. ListInv'
  <2>1. InOrder(chunks, 0)'
    <3>1. chunks' = y \/ chunks' = y \o cut
      BY <1>4, <1>9
    <3>2. \A s : s = chunks' => InOrder(s, 0)'
      BY <1>10, <1>13, <3>1
    <3> QED BY <3>2
  <2>2. status' # "kept"
    BY <1>4
  <2> QED BY <2>1, <2>2 DEF ListInv
<1>15. JoinInv'
  <2>1. SUFFICES ASSUME status' # "failed" PROVE JoinInv'
    BY DEF JoinInv
  <2>2. status' = "reading" /\ chunks' = y \o cut
    BY <1>4, <1>9, <2>1
  <2> DEFINE u == y \o cut
  <2>3. /\ Len(u) = Len(y) + Len(cut) /\ u # <<>>
        /\ y # <<>> => u[1] = y[1]
        /\ y = <<>> => u[1] = cut[1]
        /\ u[Len(u)] = cut[Len(cut)]
    <3>1. /\ Len(u) = Len(y) + Len(cut) /\ u \in Seq(TextChunks)
          /\ \A i \in 1..(Len(y) + Len(cut)) : u[i] = IF i <= Len(y) THEN y[i] ELSE cut[i - Len(y)]
      BY <1>7, <1>10, ConcatProperties
    <3>2. Len(cut) >= 1 /\ (y # <<>> => Len(y) >= 1) /\ (y = <<>> => Len(y) = 0)
      BY <1>7, <1>10, <1>11
    <3> HIDE DEF u
    <3>3. u # <<>>
      BY <1>10, <1>11, <3>1, <3>2
    <3>4. 1 \in 1..(Len(y) + Len(cut)) /\ Len(u) \in 1..(Len(y) + Len(cut))
      BY <1>10, <1>11, <3>1, <3>2
    <3>5. /\ y # <<>> => u[1] = y[1]
          /\ y = <<>> => u[1] = cut[1]
      BY <1>10, <3>1, <3>2, <3>4
    <3>6. u[Len(u)] = cut[Len(cut)]
      BY <1>10, <1>11, <3>1, <3>2, <3>4
    <3> QED BY <3>1, <3>3, <3>5, <3>6
  <2> HIDE DEF u
  <2>4. First(u[1]) = 0
    <3>1. y # <<>> => First(y[1]) = 0
      BY <1>6, <1>9 DEF Reach
    <3>2. y = <<>> => position = 0
      BY <1>5, <1>6, <1>9 DEF Reach
    <3> QED BY <1>7, <2>3, <3>1, <3>2
  <2>5. Past(u[Len(u)]) = position' /\ LastPart(u[Len(u)]).element = Len(doc')
    BY <1>2, <1>7, <1>11, <2>3
  <2>6. \A v : v = u => Reach(v)'
    BY <2>3, <2>4, <2>5 DEF Reach, First, Past, LastPart
  <2>7. IsPiece(LastPart(u[Len(u)]))'
    <3>1. \A x : x = L + 1 => doc'[x].tokens > size'.max_tokens
      BY <1>1, <1>2
    <3> QED BY <1>2, <2>5, <3>1 DEF IsPiece, LastPart
  <2>8. \A x \in 1..Len(doc') : doc'[x].tokens > 0 => Covers(u, x)
    <3>1. SUFFICES ASSUME NEW x \in 1..(L + 1), doc'[x].tokens > 0 PROVE Covers(y, x) \/ Covers(cut, x)
      BY <1>2, <1>7, <1>10, CoversMore DEF u
    <3>2. CASE x = L + 1
      BY <1>7, <1>11, <3>2 DEF Covers
    <3>3. CASE x # L + 1
      <4>1. x \in 1..L
        BY <1>2, <3>3
      <4> QED BY <1>2, <1>6, <1>9, <3>1, <4>1
    <3> QED BY <3>2, <3>3
  <2>9. chunks' = u
    BY <2>2 DEF u
  <2>10. Reach(chunks)'
    BY <2>6, <2>9
  <2>11. IsPiece(LastPart(Latest))'
    BY <2>7, <2>9 DEF Latest, IsPiece, LastPart
  <2>12. \A x \in 1..Len(doc') : doc'[x].tokens > 0 => Covers(chunks, x)'
    BY <2>8, <2>9 DEF Covers, HasText
  <2>13. chunks' # <<>> /\ First(chunks'[1]) = 0
    BY <2>3, <2>4, <2>9
  <2> QED BY <1>1, <2>10, <2>11, <2>12, <2>13 DEF JoinInv, First
<1>16. LineInv'
  BY <1>1 DEF LineInv
<1> QED BY <1>2, <1>3, <1>8, <1>15, <1>16, <1>14 DEF CoverInv

-----------------------------------------------------------------------------
(* Sections and the end of the document *)

\* end_section keeps the invariant.
LEMMA EndSectionCovers == ASSUME CoverInv, end_section PROVE CoverInv'
<1>1. /\ DocInv /\ OpenInv /\ Structural /\ status = "reading" /\ ~between /\ index \in Nat
      /\ UNCHANGED <<chunker, size, kept, doc, position, index, status>>
      /\ group' = <<>> /\ group_tokens' = 0 /\ between' = TRUE /\ chunks' = Yielded /\ Structural'
  BY DEF CoverInv, ListInv, Structural, end_section, LineInv
<1>2. FitInv'
  BY EndSectionFits DEF CoverInv
<1>3. DocInv' /\ Len(doc) \in Nat
  BY <1>1, DocFacts DEF DocInv, End
<1>4. doc # <<>>
  <2>1. IF between THEN group = <<>> ELSE doc # <<>>
    BY <1>1 DEF OpenInv
  <2> QED BY <1>1, <2>1, Zenon
<1>5. /\ InOrder(Yielded, 0) /\ Yielded # <<>> /\ Reach(Yielded)
      /\ \A n \in 1..Len(doc) : doc[n].tokens > 0 => Covers(Yielded, n)
  BY <1>1, <1>4, YieldedFacts DEF Reach
<1>6. OpenInv'
  <2>1. (DocInv /\ Len(group) = 0 => Run(Len(doc) - Len(group) + 1, Len(doc)) = <<>>)'
    BY EmptyRun, PTL
  <2>2. Len(group') = 0 /\ Len(group') \in 0..Len(doc')
    BY <1>1, <1>3
  <2>3. group' = Run(Len(doc) - Len(group) + 1, Len(doc))'
    BY <1>1, <1>3, <2>1, <2>2
  <2>4. \A n \in (Len(doc') - Len(group') + 1)..Len(doc') : FALSE
    BY <1>1, <1>3, <2>2
  <2> QED BY <1>1, <2>2, <2>3, <2>4 DEF OpenInv, Span
<1>7. ListInv'
  <2>1. \A n \in 1..Len(doc) : n \in 1..Len(doc') /\ doc'[n] = doc[n]
    BY <1>1
  <2>2. \A s, n : InOrder(s, n) => InOrder(s, n)'
    BY <1>1, <2>1, ChunksStay
  <2>3. InOrder(chunks', 0)
    BY <1>1, <1>5
  <2>4. InOrder(chunks, 0)'
    BY <2>2, <2>3
  <2> QED BY <1>1, <2>4 DEF ListInv
<1>8. JoinInv'
  <2>1. Reach(chunks)' /\ chunks' # <<>> /\ First(chunks'[1]) = 0
    BY <1>1, <1>5 DEF Reach, First, Past, LastPart
  <2>2. \A n \in 1..Len(doc') : doc'[n].tokens > 0 => Covers(chunks, n)'
    BY <1>1, <1>5 DEF Covers, HasText
  <2> QED BY <1>1, <2>1, <2>2 DEF JoinInv, First
<1>9. LineInv'
  BY <1>1 DEF LineInv
<1> QED BY <1>2, <1>3, <1>6, <1>7, <1>8, <1>9 DEF CoverInv

\* A step that changes the status alone keeps what is known of the document
\* and of the chunks.
LEMMA StatusCovers ==
  ASSUME CoverInv, UNCHANGED <<chunker, size, doc, position, between, group, group_tokens, index, chunks>>
  PROVE  DocInv' /\ InOrder(chunks, 0)' /\ (status # "failed" => JoinInv')
<1>1. DocInv'
  BY DEF CoverInv, DocInv, End
<1>2. InOrder(chunks, 0)'
  <2>1. \A n \in 1..Len(doc) : n \in 1..Len(doc') /\ doc'[n] = doc[n]
    OBVIOUS
  <2>2. \A s, n : InOrder(s, n) => InOrder(s, n)'
    BY <2>1, ChunksStay
  <2>3. InOrder(chunks', 0)
    BY DEF CoverInv, ListInv
  <2> QED BY <2>2, <2>3
<1>3. ASSUME status # "failed" PROVE JoinInv'
  <2>1. Structural =>
          /\ chunks = <<>> => IF group = <<>> THEN doc = <<>> ELSE group[1].at = 0
          /\ chunks # <<>> => First(chunks[1]) = 0
          /\ chunks # <<>> /\ group = <<>> => Reach(chunks) /\ (~between => IsPiece(LastPart(Latest)))
          /\ chunks # <<>> /\ group # <<>> => Meets(Latest, Open)
          /\ \A n \in 1..Len(doc) : doc[n].tokens > 0 => Covers(chunks, n) \/ InGroup(n)
    BY <1>3, Zenon DEF CoverInv, JoinInv
  <2>2. /\ Structural' <=> Structural
        /\ Reach(chunks)' <=> Reach(chunks)
        /\ IsPiece(LastPart(Latest))' <=> IsPiece(LastPart(Latest))
        /\ First(chunks[1])' = First(chunks[1])
    BY DEF Structural, Reach, First, Past, LastPart, IsPiece, Latest
  <2>3. Meets(Latest, Open)' <=> Meets(Latest, Open)
    BY DEF Meets, Latest, Open, First, Past, LastPart, build_candidate, BoundaryIsNeeded, IsPiece, Structural
  <2>4. \A n : (Covers(chunks, n)' <=> Covers(chunks, n)) /\ (InGroup(n)' <=> InGroup(n))
    BY DEF Covers, HasText, InGroup
  <2> QED BY <2>1, <2>2, <2>3, <2>4 DEF JoinInv
<1> QED BY <1>1, <1>2, <1>3

\* parse_size_config, end_document, read_all, last_window,
\* drop_empty_candidates and a step that changes nothing do.
LEMMA StatusStepCovers ==
  ASSUME CoverInv,
         \/ parse_size_config \/ end_document \/ read_all \/ last_window \/ drop_empty_candidates
         \/ UNCHANGED chunkVars
  PROVE  CoverInv'
<1>1. /\ UNCHANGED <<chunker, size, doc, position, between, group, group_tokens, index, chunks>>
      /\ \/ status = "new" /\ status' \in {"reading", "rejected"}
         \/ status = "reading" /\ status' = "done" /\ between /\ Structural
         \/ status = "reading" /\ status' = "windows" /\ ~Structural
         \/ status = "windows" /\ status' = "done" /\ index >= position /\ ~Structural
         \/ status = "done" /\ status' = "kept" /\ kept' = {i \in 1..Len(chunks) : chunks[i].tokens > 0}
         \/ status' = status /\ kept' = kept
  BY DEF parse_size_config, end_document, read_all, last_window, drop_empty_candidates, Structural, chunkVars,
         CoverInv, FitInv, Typed
<1>2. DocInv' /\ InOrder(chunks, 0)' /\ JoinInv'
  <2>1. CASE status # "failed"
    BY <1>1, <2>1, StatusCovers
  <2>2. CASE status = "failed"
    BY <1>1, <2>2, StatusCovers DEF JoinInv
  <2> QED BY <2>1, <2>2
<1>3. FitInv'
  BY FitStep DEF CoverInv, ChunkNext, iterate_chunks
<1>4. OpenInv'
  <2>1. Run(Len(doc) - Len(group) + 1, Len(doc))' = Run(Len(doc) - Len(group) + 1, Len(doc))
    BY <1>1 DEF Run, Whole
  <2>2. Structural' <=> Structural
    BY <1>1 DEF Structural
  <2>3. OpenInv
    BY DEF CoverInv
  <2> QED BY <1>1, <2>1, <2>2, <2>3 DEF OpenInv, Span
<1>5. ListInv'
  BY <1>1, <1>2 DEF ListInv, CoverInv
<1>6. LineInv'
  <2>1. /\ Structural' <=> Structural
        /\ First(chunks[1])' = First(chunks[1]) /\ Latest' = Latest /\ Stride' = Stride
    BY <1>1 DEF Structural, First, Latest, Stride
  <2>2. \A s : Taken(s)' = Taken(s)
    BY <1>1 DEF Taken, Contributing
  <2>3. \A n : Covers(chunks, n)' <=> Covers(chunks, n)
    BY <1>1 DEF Covers, HasText
  <2>4. LineInv
    BY DEF CoverInv
  <2> QED BY <1>1, <2>1, <2>2, <2>3, <2>4 DEF LineInv
<1> QED BY <1>2, <1>3, <1>4, <1>5, <1>6 DEF CoverInv

-----------------------------------------------------------------------------
(* line_based *)

\* A part of a run is a run.
LEMMA SliceOfRun ==
  ASSUME DocInv, NEW a \in 1..Len(doc), NEW b \in a..Len(doc)
  PROVE  SubSeq(Run(1, Len(doc)), a, b) = Run(a, b)
<1> DEFINE L == Len(doc)
           r == Run(1, L)
           s == SubSeq(r, a, b)
           t == Run(a, b)
<1>1. L \in Nat /\ a \in Nat /\ b \in Nat /\ a <= b /\ b <= L /\ 1 \in 1..L /\ L \in 1..L
  BY DEF DocInv
<1>2. r \in Seq(TextParts) /\ Len(r) = L /\ \A i \in 1..L : r[i] = Whole(i)
  <2>1. /\ Run(1, L) \in Seq(TextParts) /\ Len(Run(1, L)) = L - 1 + 1
        /\ \A i \in 1..(L - 1 + 1) : Run(1, L)[i] = Whole(1 + i - 1)
    BY <1>1, RunFacts
  <2>2. L - 1 + 1 = L /\ \A i \in 1..L : 1 + i - 1 = i
    BY <1>1
  <2> QED BY <2>1, <2>2
<1>3. t \in Seq(TextParts) /\ Len(t) = b - a + 1 /\ \A i \in 1..(b - a + 1) : t[i] = Whole(a + i - 1)
  BY RunFacts
<1>4. /\ s \in Seq(TextParts) /\ Len(s) = b - a + 1
      /\ \A i \in 1..(b - a + 1) : s[i] = r[a + i - 1]
  <2> HIDE DEF r
  <2>1. a \in Int /\ b \in Int /\ \A i \in a..b : r[i] \in TextParts
    BY <1>1, <1>2
  <2> QED BY <1>1, <2>1, SubSeqProperties
<1>5. ASSUME NEW i \in 1..Len(s) PROVE s[i] = t[i]
  <2>1. i \in 1..(b - a + 1) /\ a + i - 1 \in 1..L
    BY <1>1, <1>4
  <2>2. s[i] = r[a + i - 1] /\ t[i] = Whole(a + i - 1)
    BY <1>3, <1>4, <2>1
  <2>3. r[a + i - 1] = Whole(a + i - 1)
    <3> HIDE DEF r
    <3> QED BY <1>2, <2>1
  <2> QED BY <2>2, <2>3
<1> HIDE DEF r, s, t
<1>6. s = t
  BY <1>3, <1>4, <1>5, SeqEqual
<1> QED BY <1>6 DEF r, s, t

\* Element n holds token x.
Holds(n, x) == doc[n].at < x /\ x <= End(n)

\* Every token is held by an element, and by one only; a later token by a
\* later one.
LEMMA TokenIsHeld ==
  ASSUME DocInv, NEW x \in 1..position
  PROVE  \E n \in 1..Len(doc) : Holds(n, x)
<1> DEFINE T == {n \in 1..Len(doc) : x <= End(n)}
<1>1. doc # <<>> /\ Len(doc) \in 1..Len(doc) /\ End(Len(doc)) = position /\ doc[1].at = 0
      /\ Len(doc) \in Nat /\ x \in Nat /\ position \in Nat
  <2>1. position \in Nat /\ (doc = <<>> => position = 0)
        /\ (doc # <<>> => doc[1].at = 0 /\ End(Len(doc)) = position)
    BY DEF DocInv
  <2>2. Len(doc) \in Nat /\ (doc # <<>> => Len(doc) # 0)
    BY DEF DocInv
  <2> QED BY <2>1, <2>2
<1>2. Len(doc) \in T /\ T \in SUBSET Nat
  <2>1. x <= End(Len(doc))
    BY <1>1
  <2> QED BY <1>1, <2>1
<1>3. PICK n \in T : \A k \in T : n <= k
  BY <1>2, LeastElement
<1>4. n \in 1..Len(doc) /\ x <= End(n)
  BY <1>3
<1>5. doc[n].at < x
  <2>1. CASE n = 1
    BY <1>1, <2>1
  <2>2. CASE n # 1
    <3>1. n - 1 \in 1..(Len(doc) - 1) /\ n - 1 \in 1..Len(doc) /\ (n - 1) + 1 = n /\ ~(n <= n - 1)
      BY <1>1, <1>4, <2>2
    <3>2. ~(x <= End(n - 1))
      BY <1>3, <3>1
    <3>3. End(n - 1) \in Nat /\ doc[n].at = End(n - 1)
      BY <3>1, DocFacts
    <3> QED BY <1>1, <3>2, <3>3
  <2> QED BY <2>1, <2>2
<1> QED BY <1>4, <1>5 DEF Holds

LEMMA HoldersInOrder ==
  ASSUME DocInv, NEW x \in Nat, NEW y \in Nat, x <= y, NEW m \in 1..Len(doc), NEW n \in 1..Len(doc),
         Holds(m, x), Holds(n, y)
  PROVE  m <= n
<1>1. ASSUME n < m PROVE FALSE
  <2>1. End(n) <= doc[m].at /\ End(n) \in Nat /\ doc[m].at \in Nat
    BY <1>1, DocFacts
  <2> QED BY <2>1 DEF Holds
<1>2. m \in Nat /\ n \in Nat
  BY DocFacts
<1> QED BY <1>1, <1>2

\* A window takes a run, from the element that holds its first token to the
\* one that holds its last.
LEMMA WindowIsRun ==
  ASSUME CoverInv, ~Structural, NEW s \in Nat, s < position, ValidSize
  PROVE  \E a \in 1..Len(doc) : \E b \in a..Len(doc) :
           /\ Taken(s) = Run(a, b)
           /\ Holds(a, s + 1) /\ Holds(b, Least(s + size.max_tokens, position))
           /\ b \in 1..Len(doc) /\ Least(s + size.max_tokens, position) \in 1..position
           /\ s + 1 <= Least(s + size.max_tokens, position)
<1> DEFINE L == Len(doc)
           last == Least(s + size.max_tokens, position)
           from == CHOOSE n \in 1..Len(group) : group[n].at < s + 1 /\ s + 1 <= group[n].at + group[n].tokens
           to == CHOOSE n \in 1..Len(group) : group[n].at < last /\ last <= group[n].at + group[n].tokens
<1>1. DocInv /\ position \in Nat /\ L \in Nat /\ size.max_tokens \in Nat /\ size.max_tokens > 0
  <2>1. DocInv /\ size.max_tokens \in Nat /\ size.max_tokens > 0
    BY DEF CoverInv, FitInv, Typed, ValidSize
  <2> QED BY <2>1, DocFacts DEF DocInv
<1>2. s + 1 \in 1..position /\ last \in 1..position /\ s + 1 <= last
  BY <1>1 DEF Least
<1>3. group = Run(1, L) /\ Len(group) = L
  <2>1. Len(group) = L /\ group = Run(L - Len(group) + 1, L)
    BY DEF CoverInv, OpenInv
  <2>2. L - L + 1 = 1
    BY <1>1
  <2> QED BY <2>1, <2>2
<1>4. L # 0
  <2>1. \E n \in 1..L : Holds(n, s + 1)
    BY <1>1, <1>2, TokenIsHeld
  <2> QED BY <1>1, <2>1
<1>5. \A n \in 1..L : group[n] = Whole(n)
  <2>1. 1 \in 1..L /\ L \in 1..L
    BY <1>1, <1>4
  <2>2. \A i \in 1..(L - 1 + 1) : Run(1, L)[i] = Whole(1 + i - 1)
    BY <1>1, <2>1, RunFacts
  <2>3. L - 1 + 1 = L /\ \A i \in 1..L : 1 + i - 1 = i
    BY <1>1
  <2> QED BY <1>3, <2>2, <2>3
<1>6. \A n \in 1..L : \A x : (group[n].at < x /\ x <= group[n].at + group[n].tokens) <=> Holds(n, x)
  <2>1. ASSUME NEW n \in 1..L
        PROVE  group[n].at = doc[n].at /\ group[n].at + group[n].tokens = End(n)
    <3>1. group[n] = Whole(n)
      BY <1>5
    <3> QED BY <3>1 DEF Whole, End
  <2> QED BY <2>1, Zenon DEF Holds
<1> HIDE DEF last
<1>7. from \in 1..L /\ Holds(from, s + 1)
  <2>1. \E n \in 1..L : Holds(n, s + 1)
    BY <1>1, <1>2, TokenIsHeld
  <2>2. \E n \in 1..Len(group) : group[n].at < s + 1 /\ s + 1 <= group[n].at + group[n].tokens
    BY <1>3, <1>6, <2>1
  <2>3. from \in 1..Len(group) /\ group[from].at < s + 1 /\ s + 1 <= group[from].at + group[from].tokens
    BY <2>2, Zenon
  <2> HIDE DEF from
  <2> QED BY <1>3, <1>6, <2>3
<1>8. to \in 1..L /\ Holds(to, last)
  <2>1. \E n \in 1..L : Holds(n, last)
    BY <1>1, <1>2, TokenIsHeld
  <2>2. \E n \in 1..Len(group) : group[n].at < last /\ last <= group[n].at + group[n].tokens
    BY <1>3, <1>6, <2>1
  <2>3. to \in 1..Len(group) /\ group[to].at < last /\ last <= group[to].at + group[to].tokens
    BY <2>2, Zenon
  <2> HIDE DEF to
  <2> QED BY <1>3, <1>6, <2>3
<1>9. Taken(s) = SubSeq(group, from, to)
  BY DEF Taken, Contributing, last
<1> HIDE DEF from, to
<1>10. to \in from..L
  <2>1. from <= to
    <3>1. s + 1 \in Nat /\ last \in Nat
      BY <1>1, <1>2
    <3> QED BY <1>1, <1>2, <1>7, <1>8, <3>1, HoldersInOrder
  <2> QED BY <1>1, <1>7, <1>8, <2>1
<1>11. Taken(s) = Run(from, to)
  BY <1>1, <1>3, <1>7, <1>9, <1>10, SliceOfRun
<1> QED BY <1>2, <1>7, <1>8, <1>10, <1>11 DEF last

\* read_element: the whole document is one group.
LEMMA ReadElementCovers ==
  ASSUME CoverInv, NEW h \in Headings, NEW t \in TokenCounts, read_element(h, t)
  PROVE  CoverInv'
<1> DEFINE L == Len(doc)
<1>1. /\ DocInv /\ OpenInv /\ ~Structural /\ InOrder(chunks, 0) /\ status = "reading"
      /\ UNCHANGED <<chunker, size, kept, group_tokens, index, chunks, status>>
      /\ Position(h, t) /\ ~Structural' /\ group' = Append(group, Part(L + 1, t))
      /\ chunks = <<>> /\ index = 0
  BY DEF CoverInv, ListInv, Structural, read_element, LineInv
<1>2. /\ DocInv' /\ t \in Nat /\ L \in Nat /\ Len(doc') = L + 1 /\ position' = position + t
      /\ \A n \in 1..L : doc'[n] = doc[n]
  BY <1>1, DocGrows
<1>3. FitInv'
  BY LineBasedFits DEF CoverInv
<1>4. group = Run(1, L) /\ Len(group) = L
  <2>1. Len(group) = L /\ group = Run(L - Len(group) + 1, L)
    BY <1>1 DEF OpenInv
  <2>2. L - L + 1 = 1
    BY <1>2
  <2> QED BY <2>1, <2>2
<1>5. group' = Run(1, Len(doc))' /\ Len(group') = L + 1
  <2>1. 1 \in 1..(L + 1)
    BY <1>2
  <2>2. \A b : b = L + 1 => Append(Run(1, L), Part(L + 1, t)) = Run(1, b)'
    BY <1>1, <2>1, RunGrows
  <2>3. \A b : b = L + 1 => Run(1, b)' = Run(1, Len(doc))'
    BY <1>2 DEF Run
  <2>4. group' = Run(1, Len(doc))'
    BY <1>1, <1>4, <2>2, <2>3
  <2>5. (DocInv => \A a \in 1..(Len(doc) + 1) :
           /\ Len(Run(a, Len(doc))) = Len(doc) - a + 1
           /\ a # Len(doc) + 1 => Span(Run(a, Len(doc))) = position - doc[a].at)'
    BY LastRuns, PTL
  <2>6. 1 \in 1..(Len(doc') + 1) /\ Len(doc') - 1 + 1 = L + 1
    BY <1>2
  <2> QED BY <1>2, <2>4, <2>5, <2>6
<1>6. OpenInv'
  <2>1. Len(doc') - Len(group') + 1 = 1 /\ Len(group') \in 0..Len(doc')
    BY <1>2, <1>5
  <2>2. group' = Run(Len(doc) - Len(group) + 1, Len(doc))'
    BY <1>5, <2>1 DEF Run
  <2> QED BY <1>1, <1>2, <1>5, <2>1, <2>2 DEF OpenInv
<1>7. ListInv'
  <2>1. \A s, n : InOrder(s, n) => InOrder(s, n)'
    BY <1>1, <1>2, ChunksStay
  <2>2. InOrder(chunks', 0)
    BY <1>1
  <2>3. InOrder(chunks, 0)'
    BY <2>1, <2>2
  <2> QED BY <1>1, <2>3 DEF ListInv
<1>8. JoinInv'
  BY <1>1 DEF JoinInv
<1>9. LineInv'
  <2>1. \A n \in 1..Len(doc') : doc'[n].at \in Nat
    <3>1. doc' \in Seq(Elements)
      BY <1>2 DEF DocInv
    <3>2. \A n \in 1..Len(doc') : doc'[n] \in Elements
      BY <3>1
    <3> QED BY <3>2 DEF Elements
  <2>2. \A n \in 1..Len(doc') : ~(doc'[n].at < 0)
    BY <2>1
  <2> QED BY <1>1, <2>2 DEF LineInv
<1> QED BY <1>2, <1>3, <1>6, <1>7, <1>8, <1>9 DEF CoverInv

\* window: a window meets the one before it and takes every element up to
\* where the next one starts.
LEMMA WindowCovers == ASSUME CoverInv, window PROVE CoverInv'
<1> DEFINE L == Len(doc)
           last == Least(index + size.max_tokens, position)
           parts == Taken(index)
           c == build_candidate(parts, Span(parts), Len(chunks))
<1>1. /\ DocInv /\ Typed /\ OpenInv /\ ~Structural /\ ValidSize /\ InOrder(chunks, 0) /\ status = "windows"
      /\ index \in Nat /\ index < position /\ chunker = "line_based" /\ ~Structural'
      /\ UNCHANGED <<chunker, size, kept, doc, position, between, group, group_tokens, status>>
      /\ index' = index + Stride
  BY DEF CoverInv, ListInv, FitInv, Typed, Structural, window, LineInv, Stride
<1>2. chunks' = Append(chunks, c)
  BY DEF window, Taken
<1>3. /\ size.max_tokens \in Nat /\ size.overlap_tokens \in Nat /\ Stride \in Nat /\ Stride > 0
      /\ Stride <= size.max_tokens /\ L \in Nat /\ position \in Nat
  BY <1>1, DocFacts DEF Typed, ValidSize, Stride, DocInv
<1>4. chunks \in Seq(TextChunks) /\ Len(chunks) \in Nat
  <2>1. chunks \in Seq(TextChunks)
    BY <1>1, Zenon DEF InOrder
  <2> QED BY <2>1
<1>5. PICK a \in 1..L : \E b \in a..L :
        /\ parts = Run(a, b)
        /\ Holds(a, index + 1) /\ Holds(b, last)
        /\ b \in 1..L /\ last \in 1..position /\ index + 1 <= last
  BY <1>1, WindowIsRun
<1>6. PICK b \in a..L :
        /\ parts = Run(a, b)
        /\ Holds(a, index + 1) /\ Holds(b, last)
        /\ b \in 1..L /\ last \in 1..position /\ index + 1 <= last
  BY <1>5
<1>7. /\ c \in TextChunks /\ IsChunk(c) /\ c.ordinal = Len(chunks)
      /\ First(c) = doc[a].at /\ Past(c) = End(b) /\ c.tokens = Span(Run(a, b)) /\ c.parts = Run(a, b)
  <2>1. c = build_candidate(Run(a, b), Span(Run(a, b)), Len(chunks))
    BY <1>6
  <2> HIDE DEF c
  <2> QED BY <1>1, <1>4, <1>6, <2>1, RunIsChunk
<1> HIDE DEF c, last
<1>8. /\ doc[a].at \in Nat /\ End(a) \in Nat /\ doc[b].at \in Nat /\ End(b) \in Nat
      /\ doc[a].at <= index /\ index < End(a) /\ doc[b].at < last /\ last <= End(b)
      /\ a \in Nat /\ b \in Nat /\ a <= b /\ last \in Nat
  <2>1. /\ doc[a].at \in Nat /\ End(a) \in Nat /\ doc[b].at \in Nat /\ End(b) \in Nat /\ last \in Nat
        /\ a \in Nat /\ b \in Nat /\ a <= b
    BY <1>1, <1>3, <1>6, DocFacts
  <2>2. doc[a].at < index + 1 /\ index + 1 <= End(a) /\ doc[b].at < last /\ last <= End(b)
    BY <1>6, Zenon DEF Holds
  <2> QED BY <1>1, <2>1, <2>2
<1>9. /\ chunks = <<>> => index = 0
      /\ chunks # <<>> =>
           /\ First(chunks[1]) = 0
           /\ index - Stride >= 0 /\ index - Stride < position
           /\ Latest.parts = Taken(index - Stride)
      /\ \A n \in 1..L : doc[n].tokens > 0 /\ doc[n].at < index => Covers(chunks, n)
  BY <1>1, Zenon DEF CoverInv, LineInv
<1>10. ASSUME chunks # <<>> PROVE Meets(chunks[Len(chunks)], c)
  <2> DEFINE s == index - Stride
             end == Least(s + size.max_tokens, position)
             p == Latest
  <2>1. s \in Nat /\ s < position /\ p.parts = Taken(s) /\ s < index
    BY <1>1, <1>3, <1>9, <1>10
  <2> HIDE DEF s
  <2>2. PICK x \in 1..L : \E y \in x..L :
          /\ Taken(s) = Run(x, y) /\ Holds(x, s + 1) /\ Holds(y, end)
          /\ y \in 1..L /\ end \in 1..position
    BY <1>1, <2>1, WindowIsRun
  <2>3. PICK y \in x..L :
          /\ Taken(s) = Run(x, y) /\ Holds(x, s + 1) /\ Holds(y, end)
          /\ y \in 1..L /\ end \in 1..position
    BY <2>2
  <2>4. end <= last /\ index <= end
    <3>1. index <= s + size.max_tokens /\ s \in Nat
      BY <1>1, <1>3, <2>1 DEF s
    <3> QED BY <1>1, <1>3, <2>1, <3>1 DEF Least, last
  <2>5. p \in TextChunks /\ IsChunk(p) /\ p = chunks[Len(chunks)]
    <3>1. Len(chunks) \in 1..Len(chunks)
      BY <1>4, <1>10
    <3> QED BY <1>1, <1>4, <3>1 DEF InOrder, Latest
  <2> HIDE DEF p, end
  <2>6. First(p) = doc[x].at /\ Past(p) = End(y) /\ doc[x].at \in Nat /\ End(y) \in Nat
    <3>1. p.tokens = Span(Run(x, y)) /\ p.parts = Run(x, y)
      BY <2>1, <2>3, <2>5 DEF IsChunk, IsRun
    <3>2. Run(x, y)[1] = Whole(x) /\ Span(Run(x, y)) = End(y) - doc[x].at
      BY <1>1, <2>3, RunFacts, RunSpan
    <3>3. First(p) = doc[x].at
      BY <3>1, <3>2 DEF First, Whole
    <3>4. doc[x].at \in Nat /\ End(y) \in Nat
      BY <1>1, <2>3, DocFacts
    <3> QED BY <3>1, <3>2, <3>3, <3>4 DEF Past
  <2>7. First(p) <= First(c)
    <3>1. x <= a
      <4>1. s + 1 \in Nat /\ index + 1 \in Nat /\ s + 1 <= index + 1
        BY <1>1, <2>1
      <4> QED BY <1>1, <1>6, <2>3, <4>1, HoldersInOrder
    <3>2. doc[x].at <= doc[a].at
      BY <1>1, <3>1, DocFacts
    <3> QED BY <1>7, <2>6, <3>2
  <2>8. end <= End(y) /\ doc[y].at < end /\ end \in Nat
    BY <1>3, <2>3 DEF Holds
  <2>9. First(c) <= Past(p)
    <3>1. doc[a].at \in Nat /\ index \in Nat /\ doc[a].at <= index
      BY <1>1, <1>8
    <3>2. doc[a].at <= End(y)
      BY <2>4, <2>6, <2>8, <3>1
    <3> QED BY <1>7, <2>6, <3>2
  <2>10. Past(p) <= Past(c)
    <3>1. y <= b
      BY <1>1, <1>6, <1>8, <2>3, <2>4, <2>8, HoldersInOrder
    <3>2. End(y) <= End(b)
      BY <1>1, <1>6, <2>3, <3>1, DocFacts
    <3> QED BY <1>7, <2>6, <3>2
  <2> QED BY <1>1, <2>5, <2>7, <2>9, <2>10 DEF Meets
<1>11. InOrder(chunks', 0)
  BY <1>1, <1>2, <1>7, <1>10, OneMore
<1>12. /\ chunks' \in Seq(TextChunks) /\ Len(chunks') = Len(chunks) + 1 /\ chunks' # <<>>
       /\ \A i \in 1..Len(chunks) : chunks'[i] = chunks[i]
       /\ chunks'[Len(chunks) + 1] = c
  BY <1>2, <1>4, <1>7, AppendProperties
<1>13. First(chunks'[1]) = 0
  <2>1. CASE chunks = <<>>
    <3>1. chunks'[1] = c /\ index = 0
      BY <1>9, <1>12, <2>1
    <3> QED BY <1>7, <1>8, <3>1
  <2>2. CASE chunks # <<>>
    <3>1. 1 \in 1..Len(chunks)
      BY <1>4, <2>2
    <3> QED BY <1>9, <1>12, <2>2, <3>1
  <2> QED BY <2>1, <2>2
<1>14. ASSUME NEW n \in 1..L, doc[n].tokens > 0, doc[n].at < index + Stride PROVE Covers(chunks', n)
  <2>1. doc[n].at \in Nat /\ doc[n].tokens \in Nat /\ End(n) \in Nat /\ End(n) = doc[n].at + doc[n].tokens
        /\ End(n) <= position /\ n \in Nat
    BY <1>1, DocFacts
  <2>2. CASE doc[n].at < index
    <3>1. PICK i \in 1..Len(chunks) : HasText(chunks[i], n)
      BY <1>9, <1>14, <2>2 DEF Covers
    <3>2. i \in 1..Len(chunks') /\ chunks'[i] = chunks[i]
      BY <1>4, <1>12
    <3> QED BY <3>1, <3>2 DEF Covers
  <2>3. CASE ~(doc[n].at < index)
    <3>1. a <= n
      <4>1. ASSUME n < a PROVE FALSE
        <5>1. End(n) <= doc[a].at
          BY <1>1, <4>1, DocFacts
        <5>2. doc[a].at <= index /\ doc[a].at \in Nat /\ index \in Nat
          BY <1>1, <1>8
        <5>3. doc[n].tokens > 0
          BY <1>14
        <5> QED BY <2>1, <2>3, <5>1, <5>2, <5>3
      <4> QED BY <1>8, <2>1, <4>1
    <3>2. n <= b
      <4>1. ASSUME b < n PROVE FALSE
        <5>1. End(b) <= doc[n].at
          BY <1>1, <1>6, <4>1, DocFacts
        <5>2. last = index + size.max_tokens \/ last = position
          BY DEF last, Least
        <5>3. doc[n].at < index + size.max_tokens /\ doc[n].at < position
          <6>1. doc[n].tokens > 0 /\ doc[n].at < index + Stride
            BY <1>14
          <6>2. index \in Nat /\ Stride \in Nat /\ Stride <= size.max_tokens /\ size.max_tokens \in Nat
                /\ position \in Nat
            BY <1>1, <1>3
          <6>3. doc[n].at \in Nat /\ doc[n].tokens \in Nat /\ doc[n].at + doc[n].tokens <= position
            BY <2>1
          <6>4. doc[n].at < position
            BY <6>1, <6>2, <6>3
          <6>5. index + Stride <= index + size.max_tokens
            BY <6>2
          <6>6. doc[n].at < index + size.max_tokens
            BY <6>1, <6>2, <6>3, <6>5
          <6> QED BY <6>4, <6>6
        <5>4. last <= End(b) /\ End(b) \in Nat /\ last \in Nat /\ doc[n].at \in Nat
          BY <1>8, <2>1
        <5>5. doc[n].at < last
          BY <5>2, <5>3, Zenon
        <5> QED BY <5>1, <5>4, <5>5
      <4> QED BY <1>8, <2>1, <4>1
    <3>3. n \in a..b
      BY <1>8, <2>1, <3>1, <3>2
    <3>4. c.tokens > 0
      <4>1. doc[n].tokens <= Span(Run(a, b)) /\ Span(Run(a, b)) \in Nat
        BY <1>1, <1>6, <3>3, RunSpan
      <4> QED BY <1>7, <1>14, <2>1, <4>1
    <3> DEFINE k == n - a + 1
    <3>5. k \in 1..(b - a + 1) /\ a + k - 1 = n
      BY <1>8, <3>3
    <3>6. k \in 1..Len(Run(a, b)) /\ Run(a, b)[k] = Whole(n)
      <4>1. Len(Run(a, b)) = b - a + 1 /\ \A i \in 1..(b - a + 1) : Run(a, b)[i] = Whole(a + i - 1)
        BY <1>1, <1>6, RunFacts
      <4> HIDE DEF k
      <4> QED BY <3>5, <4>1
    <3>7. HasText(c, n)
      <4> HIDE DEF k
      <4>1. Whole(n).element = n
        BY DEF Whole
      <4> QED BY <1>7, <3>4, <3>6, <4>1 DEF HasText
    <3>8. Len(chunks) + 1 \in 1..Len(chunks')
      BY <1>4, <1>12
    <3> QED BY <1>12, <3>7, <3>8 DEF Covers
  <2> QED BY <2>2, <2>3
<1>15. ListInv'
  <2>1. \A n \in 1..Len(doc) : n \in 1..Len(doc') /\ doc'[n] = doc[n]
    BY <1>1
  <2>2. \A s, n : InOrder(s, n) => InOrder(s, n)'
    BY <1>1, <2>1, ChunksStay
  <2>3. InOrder(chunks, 0)'
    BY <1>11, <2>2
  <2> QED BY <1>1, <2>3 DEF ListInv
<1>16. DocInv'
  BY <1>1 DEF DocInv, End
<1>17. OpenInv'
  <2>1. Run(Len(doc) - Len(group) + 1, Len(doc))' = Run(Len(doc) - Len(group) + 1, Len(doc))
    BY <1>1 DEF Run, Whole
  <2> QED BY <1>1, <2>1 DEF OpenInv
<1>18. FitInv'
  BY LineBasedFits DEF CoverInv
<1>19. JoinInv'
  BY <1>1 DEF JoinInv
<1>20. LineInv'
  <2>1. index' \in Nat /\ index' - Stride = index /\ Stride' = Stride
    <3>1. Stride' = Stride
      BY <1>1 DEF Stride
    <3>2. index' \in Nat /\ index' - Stride = index
      BY <1>1, <1>3
    <3> QED BY <3>1, <3>2
  <2>2. Latest.parts' = Taken(index - Stride)'
    <3>1. Latest' = c
      BY <1>12 DEF Latest
    <3>2. \A s : Taken(s)' = Taken(s)
      BY <1>1 DEF Taken, Contributing
    <3>3. \A s : s = index => Taken(index - Stride)' = Taken(s)'
      BY <2>1
    <3> QED BY <1>6, <1>7, <3>1, <3>2, <3>3
  <2>3. \A n \in 1..Len(doc') : doc'[n].tokens > 0 /\ doc'[n].at < index' => Covers(chunks, n)'
    BY <1>1, <1>14 DEF Covers, HasText
  <2>4. First(chunks[1])' = 0
    BY <1>13 DEF First
  <2>5. index' - Stride' >= 0 /\ index' - Stride' < position'
    BY <1>1, <1>3, <2>1
  <2> QED BY <1>1, <1>12, <2>1, <2>2, <2>3, <2>4, <2>5 DEF LineInv
<1> QED BY <1>15, <1>16, <1>17, <1>18, <1>19, <1>20 DEF CoverInv

-----------------------------------------------------------------------------
(* The property *)

\* Before anything is read the invariant holds.
LEMMA CoverInit == ChunkInit => CoverInv
<1> SUFFICES ASSUME ChunkInit PROVE CoverInv
  OBVIOUS
<1> DEFINE none == <<>>
<1>1. /\ doc = none /\ position = 0 /\ between = TRUE /\ group = none /\ group_tokens = 0 /\ index = 0
      /\ chunks = none /\ status = "new"
  BY DEF ChunkInit
<1>2. Len(none) = 0 /\ none \in Seq(Elements) /\ none \in Seq(TextChunks) /\ Span(none) = 0
  BY DEF Span
<1>3. FitInv
  BY FitInit
<1> HIDE DEF none
<1>4. \A i \in 1..Len(none) : FALSE
  BY <1>2
<1>5. DocInv
  BY <1>1, <1>2, <1>4 DEF DocInv, none
<1>6. OpenInv
  <2>1. Run(Len(doc) - Len(group) + 1, Len(doc)) = none
    BY <1>1, <1>2, <1>5, EmptyRun DEF none
  <2>2. \A n \in (Len(doc) - Len(group) + 1)..Len(doc) : FALSE
    BY <1>1, <1>2
  <2>3. Len(group) \in 0..Len(doc) /\ Len(group) = Len(doc)
    BY <1>1, <1>2
  <2> QED BY <1>1, <1>2, <2>1, <2>2, <2>3 DEF OpenInv, none
<1>7. ListInv
  <2>1. \A i \in 1..(Len(none) - 1) : FALSE
    BY <1>2
  <2>2. InOrder(none, 0)
    BY <1>2, <1>4, <2>1 DEF InOrder
  <2> QED BY <1>1, <2>2 DEF ListInv
<1>8. JoinInv
  BY <1>1, <1>4 DEF JoinInv, none
<1>9. LineInv
  BY <1>1, <1>4 DEF LineInv, none
<1> QED BY <1>3, <1>5, <1>6, <1>7, <1>8, <1>9 DEF CoverInv

\* Every step keeps it.
LEMMA CoverStep == ASSUME CoverInv, [ChunkNext]_chunkVars PROVE CoverInv'
<1>1. ASSUME NEW h \in Headings, NEW t \in TokenCounts, take_item(h, t) PROVE CoverInv'
  BY <1>1, TakeItemCovers
<1>2. ASSUME NEW h \in Headings, NEW t \in TokenCounts, take_oversized(h, t) PROVE CoverInv'
  BY <1>2, TakeOversizedCovers
<1>3. ASSUME NEW h \in Headings, NEW t \in TokenCounts, read_element(h, t) PROVE CoverInv'
  BY <1>3, ReadElementCovers
<1>4. CASE end_section
  BY <1>4, EndSectionCovers
<1>5. CASE window
  BY <1>5, WindowCovers
<1>6. CASE \/ parse_size_config \/ end_document \/ read_all \/ last_window \/ drop_empty_candidates
           \/ UNCHANGED chunkVars
  BY <1>6, StatusStepCovers
<1> QED BY <1>1, <1>2, <1>3, <1>4, <1>5, <1>6 DEF ChunkNext, iterate_chunks

\* Once all is read, the chunks reach from the first token to the last.
LEMMA AllIsReached ==
  ASSUME CoverInv, status \in {"done", "kept"}
  PROVE  /\ position > 0 => chunks # <<>> /\ First(chunks[1]) = 0 /\ Past(chunks[Len(chunks)]) = position
         /\ \A n \in 1..Len(doc) : doc[n].tokens > 0 => Covers(chunks, n)
<1>1. /\ DocInv /\ OpenInv /\ InOrder(chunks, 0) /\ status # "failed" /\ position \in Nat /\ Len(doc) \in Nat
      /\ (doc = <<>> => position = 0)
  BY DocFacts DEF CoverInv, ListInv, DocInv
<1>2. CASE Structural
  <2>1. group = <<>> /\ Len(group) = 0
    <3>1. between /\ IF between THEN group = <<>> ELSE doc # <<>>
      BY <1>1, <1>2, Zenon DEF OpenInv
    <3>2. group = <<>>
      BY <3>1, Zenon
    <3> QED BY <3>2
  <2>2. /\ chunks = <<>> => doc = <<>>
        /\ chunks # <<>> => Reach(chunks)
        /\ \A n \in 1..Len(doc) : doc[n].tokens > 0 => Covers(chunks, n) \/ InGroup(n)
    BY <1>1, <1>2, <2>1 DEF CoverInv, JoinInv
  <2>3. \A n \in 1..Len(doc) : ~InGroup(n)
    BY <1>1, <2>1 DEF InGroup
  <2> QED BY <1>1, <2>2, <2>3 DEF Reach
<1>3. CASE ~Structural
  <2>1. /\ index \in Nat /\ index >= position
        /\ chunks = <<>> => index = 0
        /\ chunks # <<>> =>
             /\ First(chunks[1]) = 0
             /\ index - Stride >= 0 /\ index - Stride < position
             /\ Latest.parts = Taken(index - Stride)
        /\ \A n \in 1..Len(doc) : doc[n].tokens > 0 /\ doc[n].at < index => Covers(chunks, n)
    BY <1>3, Zenon DEF CoverInv, LineInv
  <2>2. \A n \in 1..Len(doc) : doc[n].tokens > 0 => doc[n].at < index
    <3>1. SUFFICES ASSUME NEW n \in 1..Len(doc), doc[n].tokens > 0 PROVE doc[n].at < index
      OBVIOUS
    <3>2. doc[n].at \in Nat /\ doc[n].tokens \in Nat /\ End(n) = doc[n].at + doc[n].tokens /\ End(n) <= position
      BY <1>1, DocFacts
    <3> QED BY <1>1, <2>1, <3>1, <3>2
  <2>3. ASSUME position > 0 PROVE chunks # <<>> /\ First(chunks[1]) = 0 /\ Past(chunks[Len(chunks)]) = position
    <3> DEFINE s == index - Stride
               end == Least(s + size.max_tokens, position)
               p == Latest
    <3>1. chunks # <<>>
      BY <1>1, <2>1, <2>3
    <3>2. /\ size.max_tokens \in Nat /\ size.overlap_tokens \in Nat /\ ValidSize /\ Stride \in Nat
          /\ Stride <= size.max_tokens
      <4>1. size.max_tokens \in Nat /\ size.overlap_tokens \in Nat /\ ValidSize
        BY DEF CoverInv, FitInv, Typed
      <4> QED BY <4>1 DEF ValidSize, Stride
    <3>3. s \in Nat /\ s < position /\ p.parts = Taken(s) /\ end = position
      <4>1. s \in Nat /\ s < position /\ p.parts = Taken(s)
        BY <2>1, <3>1, <3>2
      <4>2. position <= s + size.max_tokens
        BY <1>1, <2>1, <3>2
      <4> HIDE DEF s
      <4> QED BY <1>1, <3>2, <4>1, <4>2 DEF Least
    <3> HIDE DEF s
    <3>4. PICK x \in 1..Len(doc) : \E y \in x..Len(doc) :
            /\ Taken(s) = Run(x, y) /\ Holds(x, s + 1) /\ Holds(y, end)
            /\ y \in 1..Len(doc) /\ end \in 1..position
      BY <1>3, <3>2, <3>3, WindowIsRun
    <3>5. PICK y \in x..Len(doc) :
            /\ Taken(s) = Run(x, y) /\ Holds(x, s + 1) /\ Holds(y, end)
            /\ y \in 1..Len(doc) /\ end \in 1..position
      BY <3>4
    <3>6. IsChunk(p) /\ p = chunks[Len(chunks)]
      <4>1. chunks \in Seq(TextChunks)
        BY <1>1, Zenon DEF InOrder
      <4>2. Len(chunks) \in 1..Len(chunks)
        BY <3>1, <4>1
      <4> QED BY <1>1, <4>2 DEF InOrder, Latest
    <3> HIDE DEF p, end
    <3>7. Past(p) = End(y)
      <4>1. p.tokens = Span(Run(x, y)) /\ p.parts = Run(x, y)
        BY <3>3, <3>5, <3>6 DEF IsChunk, IsRun
      <4>2. Run(x, y)[1] = Whole(x) /\ Span(Run(x, y)) = End(y) - doc[x].at
        BY <1>1, <3>5, RunFacts, RunSpan
      <4>3. First(p) = doc[x].at
        BY <4>1, <4>2 DEF First, Whole
      <4>4. doc[x].at \in Nat /\ End(y) \in Nat
        BY <1>1, <3>5, DocFacts
      <4> QED BY <4>1, <4>2, <4>3, <4>4 DEF Past
    <3>8. End(y) = position
      <4>1. End(y) <= position /\ End(y) \in Nat
        BY <1>1, <3>5, DocFacts
      <4>2. end <= End(y)
        BY <3>5, Zenon DEF Holds
      <4> QED BY <1>1, <3>3, <4>1, <4>2
    <3> QED BY <2>1, <3>1, <3>6, <3>7, <3>8
  <2> QED BY <2>1, <2>2, <2>3
<1> QED BY <1>2, <1>3

\* The invariant is enough.
LEMMA CoverIsEnough == CoverInv => ChunksCoverTheDocument
<1> SUFFICES ASSUME CoverInv PROVE ChunksCoverTheDocument
  OBVIOUS
<1>1. /\ chunks \in Seq(TextChunks)
      /\ \A i \in 1..Len(chunks) : IsChunk(chunks[i]) /\ chunks[i].ordinal = i - 1
      /\ \A i \in 1..(Len(chunks) - 1) : Meets(chunks[i], chunks[i + 1])
  <2>1. /\ chunks \in Seq(TextChunks)
        /\ \A i \in 1..Len(chunks) : IsChunk(chunks[i]) /\ chunks[i].ordinal = 0 + i - 1
        /\ \A i \in 1..(Len(chunks) - 1) : Meets(chunks[i], chunks[i + 1])
    BY Zenon DEF CoverInv, ListInv, InOrder
  <2>2. Len(chunks) \in Nat /\ \A i \in 1..Len(chunks) : 0 + i - 1 = i - 1
    BY <2>1
  <2> QED BY <2>1, <2>2
<1>2. \A i \in 1..Len(chunks) : IsRun(chunks[i])
  BY <1>1 DEF IsChunk
<1>3. ASSUME NEW i \in 1..(Len(chunks) - 1)
      PROVE  LET c == chunks[i]  d == chunks[i + 1] IN
             /\ First(c) <= First(d) /\ First(d) <= Past(c) /\ Past(c) <= Past(d)
             /\ c.ordinal < d.ordinal
             /\ chunker = "hierarchical" => First(d) = Past(c)
             /\ chunker = "hybrid" =>
                  /\ Past(c) - First(d) <= size.overlap_tokens
                  /\ d.parts[Len(d.parts)] # c.parts[Len(c.parts)]
             /\ Structural => BoundaryIsNeeded(c, d)
  <2>1. Meets(chunks[i], chunks[i + 1])
    BY <1>1
  <2>2. chunks[i].ordinal < chunks[i + 1].ordinal
    <3>1. Len(chunks) \in Nat
      BY <1>1
    <3>2. i \in 1..Len(chunks) /\ i + 1 \in 1..Len(chunks)
      BY <3>1
    <3>3. chunks[i].ordinal = i - 1 /\ chunks[i + 1].ordinal = (i + 1) - 1
      BY <1>1, <3>2
    <3> QED BY <3>1, <3>3
  <2> QED BY <2>1, <2>2, Zenon DEF Meets, LastPart
<1>4. ASSUME Structural, NEW i \in 1..Len(chunks)
      PROVE  LET p == chunks[i].parts IN doc[p[1].element].heading = doc[p[Len(p)].element].heading
  <2>1. IsChunk(chunks[i])
    BY <1>1
  <2> QED BY <1>4, <2>1, Zenon DEF IsChunk, LastPart
<1>5. ASSUME status = "kept", NEW n \in 1..Len(doc), doc[n].tokens > 0
      PROVE  \E i \in kept : \E k \in 1..Len(chunks[i].parts) : chunks[i].parts[k].element = n
  <2>1. Covers(chunks, n)
    BY <1>5, AllIsReached
  <2>2. kept = {i \in 1..Len(chunks) : chunks[i].tokens > 0}
    BY <1>5 DEF CoverInv, ListInv
  <2> QED BY <2>1, <2>2 DEF Covers, HasText
<1>6. status \in {"done", "kept"} /\ position > 0 =>
        chunks # <<>> /\ First(chunks[1]) = 0 /\ Past(chunks[Len(chunks)]) = position
  BY AllIsReached
<1> QED BY <1>2, <1>3, <1>4, <1>5, <1>6, Zenon DEF ChunksCoverTheDocument

\* hierarchical.py, hybrid.py and line_based.py: for every document and every
\* accepted configuration, no part of the document is lost, reordered or
\* repeated beyond the overlap, and no boundary of a structural chunk is
\* without a cause.
THEOREM DocumentIsCovered == ChunkSpec => []ChunksCoverTheDocument
BY CoverInit, CoverStep, CoverIsEnough, PTL DEF ChunkSpec

=============================================================================
