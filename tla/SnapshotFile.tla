---------------------------- MODULE SnapshotFile ----------------------------
(***************************************************************************)
(* The .ndjson.zst snapshot file of connectors/ndjson.py: a header line,   *)
(* one line per point in the order of the pass, and a trailer line with    *)
(* the count, the pass's completeness and a hash over the point lines.     *)
(* A file is a record of the lines it has: whether the header is there,    *)
(* the point lines, the trailer if any, and whether its last line is cut   *)
(* short.  The content hash is collision free: it is the hashed lines.     *)
(***************************************************************************)
EXTENDS Naturals, Sequences

NoTrailer == [point_count |-> 0, completeness |-> "none", content_hash |-> <<>>]

\* The file as open("wb") and the first write leave it
HeaderOnly == [header |-> TRUE, body |-> <<>>, trailer |-> NoTrailer, torn |-> FALSE]

NoFile == [HeaderOnly EXCEPT !.header = FALSE]

\* write_snapshot: the point lines of the points yielded so far
WithPoints(f, pts) == [f EXCEPT !.body = pts]

\* The trailer, written after the last point: the counted and hashed lines
\* and what consistency_provider says of the pass
WithTrailer(f, complete) ==
  [f EXCEPT !.trailer = [point_count |-> Len(f.body), completeness |-> complete, content_hash |-> f.body]]

\* The first n point lines of a file, the last one perhaps cut short
Cut(f, n, t) == [f EXCEPT !.body = SubSeq(f.body, 1, n), !.torn = t, !.trailer = NoTrailer]

\* What a reader finds of a file whose writer died while it was open: the
\* lines that reached the disk
Remains(f) == {NoFile} \cup {Cut(f, n, t) : n \in 0..Len(f.body), t \in BOOLEAN}

-----------------------------------------------------------------------------
\* _finalize: the last line parses as a trailer that matches the lines read
_finalize(f) ==
  /\ f.trailer # NoTrailer
  /\ f.trailer.point_count = Len(f.body)
  /\ f.trailer.content_hash = f.body

\* Mutant of accepts: the reader compares the counts and not the hash
accepts_any_lines(f) ==
  /\ f.header
  /\ ~f.torn
  /\ f.trailer # NoTrailer
  /\ f.trailer.point_count = Len(f.body)

\* SnapshotReader, read to its end without a SnapshotIntegrityError
accepts(f) ==
  /\ f.header
  /\ ~f.torn
  /\ _finalize(f)

\* NdjsonConnector.iterate_points: the lines after the one whose id is the
\* checkpoint; every line is skipped when no id is
Replay(f, checkpoint, none) ==
  IF checkpoint = none THEN f.body
  ELSE LET at == {i \in 1..Len(f.body) : f.body[i] = checkpoint} IN
       IF at = {} THEN <<>>
       ELSE SubSeq(f.body, (CHOOSE i \in at : \A k \in at : i <= k) + 1, Len(f.body))
=============================================================================
