----------------------------- MODULE QdrantScan -----------------------------
(***************************************************************************)
(* The iterate_points passes of connectors/qdrant.py.  A pass takes a      *)
(* start count from the collection's schema, scrolls page by page from an  *)
(* offset, and probes the count again at the end.  Every page is a         *)
(* separate HTTP request, so the collection may change between any two,    *)
(* and every request may fail and be retried up to max_retries times.      *)
(***************************************************************************)
EXTENDS VectorTarget

CONSTANT MaxRetries   \* max_retries

ASSUME RetriesAssumption == MaxRetries \in Nat

VARIABLES
  pc,            \* where the pass is
  attempt,       \* failed tries of the request under way
  checkpoint,    \* what the pass resumes from, NoPoint for a fresh pass
  offset,        \* the scroll request's offset
  yielded,       \* the points yielded, in order
  start_count, end_count,
  completeness,
  passes

scanVars == <<pc, attempt, checkpoint, offset, yielded, start_count, end_count, completeness, passes>>
vars == <<targetVars, scanVars>>

NoPoint == 0

\* A count the server did not report (None): no collection is that large
NoCount == Cardinality(Points) + 1

Init ==
  /\ TargetInit
  /\ pc = "inspect"
  /\ attempt = 0
  /\ checkpoint = NoPoint
  /\ offset = NoPoint
  /\ yielded = <<>>
  /\ start_count = NoCount
  /\ end_count = NoCount
  /\ completeness = "none"
  /\ passes = 1

-----------------------------------------------------------------------------
\* A transport error or a 5xx answer that is tried again
RetryRequest ==
  /\ pc \in {"inspect", "scroll", "probe"}
  /\ attempt < MaxRetries
  /\ attempt' = attempt + 1
  /\ UNCHANGED <<pc, checkpoint, offset, yielded, start_count, end_count, completeness, passes>>
  /\ UNCHANGED targetVars

\* The last try fails, or the server refuses: the pass raises
RequestFails ==
  /\ pc \in {"inspect", "scroll", "probe"}
  /\ pc' = "raised"
  /\ UNCHANGED <<attempt, checkpoint, offset, yielded, start_count, end_count, completeness, passes>>
  /\ UNCHANGED targetVars

\* inspect_target_schema: the count it caches is the pass's start count
inspect_target_schema ==
  /\ pc = "inspect"
  /\ \E n \in {Cardinality(points), NoCount} : start_count' = n
  /\ offset' = checkpoint
  /\ attempt' = 0
  /\ pc' = "scroll"
  /\ WatchFromHere
  /\ UNCHANGED <<checkpoint, yielded, end_count, completeness, passes>>

\* What the scroll endpoint has from an offset on; the offset is inclusive
From(o) == {p \in points : p >= o}

\* Mutant: the offset is counted in points
scroll_by_position ==
  LET page == {p \in points : Cardinality({q \in points : q < p}) \in Len(yielded)..(Len(yielded) + PageSize - 1)} IN
  /\ pc = "scroll"
  /\ yielded' = yielded \o Ascending(page)
  /\ attempt' = 0
  /\ \/ /\ Len(yielded') < Cardinality(points)
        /\ UNCHANGED pc
     \/ /\ Len(yielded') >= Cardinality(points)
        /\ pc' = "probe"
  /\ UNCHANGED <<offset, checkpoint, start_count, end_count, completeness, passes>>
  /\ UNCHANGED targetVars

\* One scroll request and the points it yields; next_page_offset is the first
\* point after the page, none when the page ends the collection
scroll ==
  LET page == FirstOf(From(offset), PageSize)
      rest == From(offset) \ page IN
  /\ pc = "scroll"
  /\ yielded' = yielded \o Ascending(page)
  /\ attempt' = 0
  /\ \/ /\ rest # {}
        /\ \E p \in rest : (\A q \in rest : p <= q) /\ offset' = p
        /\ UNCHANGED pc
     \/ /\ rest = {}
        /\ pc' = "probe"
        /\ UNCHANGED offset
  /\ UNCHANGED <<checkpoint, start_count, end_count, completeness, passes>>
  /\ UNCHANGED targetVars

\* Mutant: an unknown count is taken for drift
Judge_unknown(n) == IF start_count = NoCount \/ n = NoCount \/ start_count # n THEN "incomplete" ELSE "complete"

\* Completeness from the two counts; an unknown count is not held against it
Judge(n) ==
  IF start_count # NoCount /\ n # NoCount /\ start_count # n THEN "incomplete" ELSE "complete"

\* _fetch_points_count, None on an HTTP error, and the verdict
probe ==
  /\ pc = "probe"
  /\ \E n \in {Cardinality(points), NoCount} :
       /\ end_count' = n
       /\ completeness' = Judge(n)
  /\ attempt' = 0
  /\ pc' = "done"
  /\ UNCHANGED <<checkpoint, offset, yielded, start_count, passes>>
  /\ UNCHANGED targetVars

\* The next pass over the target, from checkpoint c
Restart(c) ==
  /\ passes < MaxPasses
  /\ passes' = passes + 1
  /\ checkpoint' = c
  /\ yielded' = <<>>
  /\ start_count' = NoCount
  /\ end_count' = NoCount
  /\ completeness' = "none"
  /\ attempt' = 0
  /\ pc' = "inspect"
  /\ UNCHANGED offset
  /\ UNCHANGED targetVars

iterate_points == inspect_target_schema \/ scroll \/ probe

-----------------------------------------------------------------------------
(* Properties *)

\* No point is yielded twice and the ids ascend, whatever is inserted,
\* deleted or put back between pages and however often a page is retried.
EachPointOnce == \A i, k \in 1..Len(yielded) : i < k => yielded[i] < yielded[k]

\* A finished pass has every point from the checkpoint on that the target
\* held throughout, and nothing the target did not hold during the pass.
SteadyPointsYielded ==
  pc \in {"probe", "done"} =>
    /\ \A p \in steady : p >= checkpoint => \E i \in 1..Len(yielded) : yielded[i] = p
    /\ \A i \in 1..Len(yielded) : yielded[i] \in everHeld

\* If nobody writes during a fresh pass, it is an exact copy and is called
\* complete, whichever requests were retried and whichever counts the server
\* left out.
QuietPassIsExact ==
  pc = "done" /\ quiet /\ checkpoint = NoPoint => yielded = Ascending(points) /\ completeness = "complete"

=============================================================================
