------------------------------ MODULE Chunker ------------------------------
(***************************************************************************)
(* The chunkers of pipeline/chunkers: hierarchical and hybrid walk the     *)
(* elements section by section and close a group when the next element     *)
(* would not fit, hybrid carrying a tail of the closed group over;         *)
(* line_based slides a window over the tokens of the whole text and takes  *)
(* every element the window touches.                                       *)
(*                                                                         *)
(* An element is a number of tokens under a heading path, and is           *)
(* positioned by the tokens before it in the document (the code positions  *)
(* it by characters); a part is an element or a piece of one.  The         *)
(* document is read as it is chunked: every element is a choice.           *)
(***************************************************************************)
EXTENDS Naturals, Sequences

CONSTANTS
  Headings,       \* heading paths
  TokenCounts,    \* how many tokens an element may have
  Sizes,          \* max_tokens of the configurations tried
  MaxElements     \* bound: elements of a document

ASSUME CountsAssumption == TokenCounts \subseteq Nat
ASSUME SizesAssumption  == Sizes \subseteq Nat
ASSUME ElementsAssumption == MaxElements \in Nat

VARIABLES
  chunker,        \* which chunker the configuration names
  size,           \* [max_tokens, overlap_tokens, oversized]
  doc,            \* the elements read so far, positioned
  position,       \* tokens read so far
  between,        \* the walk is between two sections
  group,          \* the parts of the open group
  group_tokens,
  index,          \* line_based: the window's first token
  chunks,         \* the candidates yielded
  kept,           \* which of them the build keeps
  status          \* "new", "reading", "windows", "done", "kept", "rejected", "failed"

chunkVars == <<chunker, size, doc, position, between, group, group_tokens, index, chunks, kept, status>>

ChunkInit ==
  /\ chunker \in {"hierarchical", "hybrid", "line_based"}
  /\ size \in [max_tokens : Sizes, overlap_tokens : Sizes, oversized : {"split", "fail"}]
  /\ doc = <<>>
  /\ position = 0
  /\ between = TRUE
  /\ group = <<>>
  /\ group_tokens = 0
  /\ index = 0
  /\ chunks = <<>>
  /\ kept = {}
  /\ status = "new"

\* parse_size_config: a positive maximum, an overlap strictly below it
ValidSize == size.max_tokens > 0 /\ size.overlap_tokens < size.max_tokens

parse_size_config ==
  /\ status = "new"
  /\ status' = IF ValidSize THEN "reading" ELSE "rejected"
  /\ UNCHANGED <<chunker, size, kept, doc, position, between, group, group_tokens, index, chunks>>

-----------------------------------------------------------------------------
\* position_elements: element n of the document, at the cursor
Part(n, t) == [element |-> n, at |-> position, tokens |-> t]

\* Tokens of a run of parts, from where it starts to where it ends
Span(parts) ==
  IF parts = <<>> THEN 0
  ELSE parts[Len(parts)].at + parts[Len(parts)].tokens - parts[1].at

\* build_candidate (a table header it repeats is not counted)
build_candidate(parts, tokens, ordinal) == [parts |-> parts, tokens |-> tokens, ordinal |-> ordinal]

\* What yielding the open group adds to the chunks
Yielded == IF group = <<>> THEN chunks ELSE Append(chunks, build_candidate(group, group_tokens, Len(chunks)))

Least(a, b) == IF a <= b THEN a ELSE b

\* split_oversized: pieces of max_tokens tokens, the last one shorter
split_oversized(part) ==
  LET m == size.max_tokens
      pieces == (part.tokens + m - 1) \div m IN
  [i \in 1..pieces |->
     [element |-> part.element, at |-> part.at + (i - 1) * m,
      tokens |-> Least(m, part.tokens - (i - 1) * m)]]

\* _overlap_tail: the longest run of whole parts at the group's end with at
\* most overlap_tokens tokens
TailStarts == {k \in 1..Len(group) : Span(SubSeq(group, k, Len(group))) <= size.overlap_tokens}

_overlap_tail ==
  IF size.overlap_tokens = 0 \/ TailStarts = {} THEN <<>>
  ELSE SubSeq(group, CHOOSE k \in TailStarts : \A j \in TailStarts : k <= j, Len(group))

\* Mutant: the hierarchical chunker compares the item alone
Overflows_alone(t) == group # <<>> /\ t > size.max_tokens

\* The next item does not fit into the open group
Overflows(t) == group # <<>> /\ group_tokens + t > size.max_tokens

\* The element at the cursor: a new one of the section under way, or the
\* first of a section with another heading path
NextElement(h) ==
  /\ status = "reading"
  /\ Len(doc) < MaxElements
  /\ between = (doc = <<>> \/ doc[Len(doc)].heading # h)

Position(h, t) ==
  /\ doc' = Append(doc, [heading |-> h, at |-> position, tokens |-> t])
  /\ position' = position + t
  /\ between' = FALSE

\* An element that fits: the group is closed first if there is no room
take_item(h, t) ==
  /\ NextElement(h)
  /\ chunker # "line_based"
  /\ t <= size.max_tokens
  /\ Position(h, t)
  /\ LET carried == IF ~Overflows(t) THEN group
                    ELSE IF chunker = "hybrid" THEN _overlap_tail ELSE <<>> IN
     /\ chunks' = IF Overflows(t) THEN Yielded ELSE chunks
     /\ group' = Append(carried, Part(Len(doc) + 1, t))
     /\ group_tokens' = (IF Overflows(t) THEN Span(carried) ELSE group_tokens) + t
  /\ UNCHANGED <<chunker, size, kept, index, status>>

\* An element above max_tokens: the group is closed, then the element is
\* split or the chunker raises OversizedElementError
take_oversized(h, t) ==
  /\ NextElement(h)
  /\ chunker # "line_based"
  /\ t > size.max_tokens
  /\ Position(h, t)
  /\ group' = <<>>
  /\ group_tokens' = 0
  /\ \/ /\ size.oversized = "fail"
        /\ status' = "failed"
        /\ chunks' = Yielded
     \/ /\ size.oversized = "split"
        /\ chunks' = Yielded \o
             LET pieces == split_oversized(Part(Len(doc) + 1, t)) IN
             [i \in 1..Len(pieces) |->
                build_candidate(<<pieces[i]>>, pieces[i].tokens, Len(Yielded) + i - 1)]
        /\ UNCHANGED status
  /\ UNCHANGED <<chunker, size, kept, index>>

\* Mutant: the last group of a section is dropped
end_section_silent ==
  /\ status = "reading"
  /\ ~between
  /\ chunker # "line_based"
  /\ group' = <<>>
  /\ group_tokens' = 0
  /\ between' = TRUE
  /\ UNCHANGED <<chunker, size, kept, doc, position, index, chunks, status>>

\* group_by_heading_path: the section ends and yields what is left of it
end_section ==
  /\ status = "reading"
  /\ ~between
  /\ chunker # "line_based"
  /\ chunks' = Yielded
  /\ group' = <<>>
  /\ group_tokens' = 0
  /\ between' = TRUE
  /\ UNCHANGED <<chunker, size, kept, doc, position, index, status>>

end_document ==
  /\ status = "reading"
  /\ between
  /\ chunker # "line_based"
  /\ status' = "done"
  /\ UNCHANGED <<chunker, size, kept, doc, position, between, group, group_tokens, index, chunks>>

-----------------------------------------------------------------------------
\* line_based: the document is read whole, whatever its headings
read_element(h, t) ==
  /\ status = "reading"
  /\ Len(doc) < MaxElements
  /\ chunker = "line_based"
  /\ Position(h, t)
  /\ group' = Append(group, Part(Len(doc) + 1, t))
  /\ UNCHANGED <<chunker, size, kept, group_tokens, index, chunks, status>>

read_all ==
  /\ status = "reading"
  /\ chunker = "line_based"
  /\ status' = "windows"
  /\ UNCHANGED <<chunker, size, kept, doc, position, between, group, group_tokens, index, chunks>>

\* The elements a window of tokens touches, those between the first and the
\* last included even when they hold no token
Contributing(first, last) ==
  LET has(p, x) == p.at < x /\ x <= p.at + p.tokens
      from == CHOOSE n \in 1..Len(group) : has(group[n], first)
      to   == CHOOSE n \in 1..Len(group) : has(group[n], last) IN
  SubSeq(group, from, to)

\* One window; the next starts max_tokens - overlap_tokens further on
window ==
  /\ status = "windows"
  /\ index < position
  /\ LET parts == Contributing(index + 1, Least(index + size.max_tokens, position)) IN
     chunks' = Append(chunks, build_candidate(parts, Span(parts), Len(chunks)))
  /\ index' = index + (size.max_tokens - size.overlap_tokens)
  /\ UNCHANGED <<chunker, size, kept, doc, position, between, group, group_tokens, status>>

last_window ==
  /\ status = "windows"
  /\ index >= position
  /\ status' = "done"
  /\ UNCHANGED <<chunker, size, kept, doc, position, between, group, group_tokens, index, chunks>>

\* The build keeps the candidates that are not whitespace only; the others'
\* ordinals stay unused
drop_empty_candidates ==
  /\ status = "done"
  /\ kept' = {i \in 1..Len(chunks) : chunks[i].tokens > 0}
  /\ status' = "kept"
  /\ UNCHANGED <<chunker, size, doc, position, between, group, group_tokens, index, chunks>>

iterate_chunks ==
  \/ \E h \in Headings, t \in TokenCounts :
       take_item(h, t) \/ take_oversized(h, t) \/ read_element(h, t)
  \/ end_section \/ end_document
  \/ read_all \/ window \/ last_window

ChunkNext == parse_size_config \/ iterate_chunks \/ drop_empty_candidates

ChunkSpec == ChunkInit /\ [][ChunkNext]_chunkVars

-----------------------------------------------------------------------------
(* Properties *)

First(c) == c.parts[1].at
Past(c)  == First(c) + c.tokens
Structural == chunker # "line_based"

\* A chunk is a run of the document: its parts follow each other without a
\* gap and its tokens are what they add up to.
IsRun(c) ==
  /\ \A i \in 1..(Len(c.parts) - 1) :
       /\ c.parts[i + 1].at = c.parts[i].at + c.parts[i].tokens
       /\ c.parts[i + 1].element = c.parts[i].element + 1
  /\ c.tokens = Span(c.parts)

IsPiece(part) == doc[part.element].tokens > size.max_tokens

\* group_by_heading_path: "a chunk boundary is only ever placed at a size
\* limit or a change of structural parent"; two neighbours of one section,
\* neither a piece of a split element, would not have fitted together
BoundaryIsNeeded(c, d) ==
  LET p == c.parts[Len(c.parts)]  q == d.parts[Len(d.parts)] IN
  \/ IsPiece(p) \/ IsPiece(q)
  \/ doc[p.element].heading # doc[q.element].heading
  \/ c.tokens + Past(d) - Past(c) > size.max_tokens

\* Nothing of a document is lost, repeated beyond the overlap or reordered:
\* the chunks are runs that meet from the first token to the last, in order;
\* hierarchical ones never overlap, hybrid ones by at most overlap_tokens and
\* never without new text; structural ones stay inside one section and are
\* not cut needlessly, ordinals are distinct, and every element with text is
\* in a chunk that is kept.
ChunksCoverTheDocument ==
  /\ \A i \in 1..Len(chunks) : IsRun(chunks[i])
  /\ \A i \in 1..(Len(chunks) - 1) : LET c == chunks[i]  d == chunks[i + 1] IN
       /\ First(c) <= First(d) /\ First(d) <= Past(c) /\ Past(c) <= Past(d)
       /\ c.ordinal < d.ordinal
       /\ chunker = "hierarchical" => First(d) = Past(c)
       /\ chunker = "hybrid" =>
            /\ Past(c) - First(d) <= size.overlap_tokens
            /\ d.parts[Len(d.parts)] # c.parts[Len(c.parts)]
       /\ Structural => BoundaryIsNeeded(c, d)
  /\ Structural => \A i \in 1..Len(chunks) : LET p == chunks[i].parts IN
       doc[p[1].element].heading = doc[p[Len(p)].element].heading
  /\ status \in {"done", "kept"} /\ position > 0 =>
       chunks # <<>> /\ First(chunks[1]) = 0 /\ Past(chunks[Len(chunks)]) = position
  /\ status = "kept" => \A n \in 1..Len(doc) : doc[n].tokens > 0 =>
       \E i \in kept : \E k \in 1..Len(chunks[i].parts) : chunks[i].parts[k].element = n

\* What a chunk may hold: max_tokens for the hierarchical chunker, and the
\* carried tail on top of it for the hybrid one.
Limit == size.max_tokens + IF chunker = "hybrid" THEN size.overlap_tokens ELSE 0

\* No structural chunk is above its limit, and neither is the open group.
ChunksFit ==
  Structural /\ ValidSize =>
    /\ group_tokens <= Limit
    /\ \A i \in 1..Len(chunks) : chunks[i].tokens <= Limit

=============================================================================
