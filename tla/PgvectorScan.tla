---------------------------- MODULE PgvectorScan ----------------------------
(***************************************************************************)
(* One iterate_points pass of connectors/pgvector.py and the passes that   *)
(* `ragledger snapshot --resume` starts after it: count the rows, declare  *)
(* a server-side cursor in primary key order, fetch it batch by batch,     *)
(* count again.  Under REPEATABLE READ the count and the cursor see the    *)
(* transaction's one snapshot; otherwise each statement has its own, and a *)
(* cursor keeps the one of its declaration.                                *)
(***************************************************************************)
EXTENDS VectorTarget

VARIABLES
  strict,        \* configuration: consistency = "repeatable_read"
  compositeKey,  \* configuration: several key columns, so an id is an object
  pc,
  checkpoint,    \* what the pass resumes from, NoPoint for a fresh pass
  txView,        \* the rows the transaction's snapshot shows (strict only)
  cursor,        \* the rows the open cursor has still to deliver
  yielded,
  start_count, end_count, completeness, passes

config == <<strict, compositeKey>>
scanVars == <<config, pc, checkpoint, txView, cursor, yielded, start_count, end_count, completeness, passes>>
vars == <<targetVars, scanVars>>

NoPoint == 0

Init ==
  /\ TargetInit
  /\ strict \in BOOLEAN
  /\ compositeKey \in BOOLEAN
  /\ pc = "count"
  /\ checkpoint = NoPoint
  /\ txView = {}
  /\ cursor = {}
  /\ yielded = <<>>
  /\ start_count = 0
  /\ end_count = 0
  /\ completeness = "none"
  /\ passes = 1

-----------------------------------------------------------------------------
\* rollback, then _count_rows: the first statement of a new transaction
count_rows ==
  /\ pc = "count"
  /\ start_count' = Cardinality(points)
  /\ txView' = IF strict THEN points ELSE {}
  /\ pc' = "declare"
  /\ WatchFromHere
  /\ UNCHANGED <<config, checkpoint, cursor, yielded, end_count, completeness, passes>>

\* What the next statement of the pass sees
Visible == IF strict THEN txView ELSE points

\* Mutant: the transaction that counted is ended before the cursor is opened
declare_cursor_new_tx ==
  /\ pc = "declare"
  /\ cursor' = {p \in points : p > checkpoint}
  /\ pc' = "fetch"
  /\ UNCHANGED <<config, checkpoint, txView, yielded, start_count, end_count, completeness, passes>>
  /\ UNCHANGED targetVars

\* _build_query and execute: the rows after the checkpoint
declare_cursor ==
  /\ pc = "declare"
  /\ checkpoint = NoPoint \/ compositeKey
  /\ cursor' = {p \in Visible : p > checkpoint}
  /\ pc' = "fetch"
  /\ UNCHANGED <<config, checkpoint, txView, yielded, start_count, end_count, completeness, passes>>
  /\ UNCHANGED targetVars

\* _build_query: a checkpoint that is not an object is a ConnectorConfigError
reject_checkpoint ==
  /\ pc = "declare"
  /\ checkpoint # NoPoint /\ ~compositeKey
  /\ pc' = "rejected"
  /\ UNCHANGED <<config, checkpoint, txView, cursor, yielded, start_count, end_count, completeness, passes>>
  /\ UNCHANGED targetVars

\* One batch; an empty one ends the loop
fetchmany ==
  /\ pc = "fetch"
  /\ \/ /\ cursor # {}
        /\ yielded' = yielded \o Ascending(FirstOf(cursor, PageSize))
        /\ cursor' = cursor \ FirstOf(cursor, PageSize)
        /\ UNCHANGED pc
     \/ /\ cursor = {}
        /\ pc' = "finish"
        /\ UNCHANGED <<yielded, cursor>>
  /\ UNCHANGED <<config, checkpoint, txView, start_count, end_count, completeness, passes>>
  /\ UNCHANGED targetVars

\* Strict: no second probe.  Otherwise commit, count again and compare.
finish ==
  /\ pc = "finish"
  /\ end_count' = IF strict THEN start_count ELSE Cardinality(points)
  /\ completeness' = IF end_count' = start_count THEN "complete" ELSE "incomplete"
  /\ pc' = "done"
  /\ UNCHANGED <<config, checkpoint, txView, cursor, yielded, start_count, passes>>
  /\ UNCHANGED targetVars

\* A statement times out or the connection is lost
statement_fails ==
  /\ pc \in {"count", "declare", "fetch", "finish"}
  /\ pc' = "raised"
  /\ UNCHANGED <<config, checkpoint, txView, cursor, yielded, start_count, end_count, completeness, passes>>
  /\ UNCHANGED targetVars

\* The next pass over the table, from checkpoint c
Restart(c) ==
  /\ passes < MaxPasses
  /\ passes' = passes + 1
  /\ checkpoint' = c
  /\ yielded' = <<>>
  /\ completeness' = "none"
  /\ pc' = "count"
  /\ UNCHANGED <<config, txView, cursor, start_count, end_count>>
  /\ UNCHANGED targetVars

\* The sidecar holds the last row's id; --resume passes it as checkpoint
resume ==
  /\ pc = "done"
  /\ yielded # <<>>
  /\ Restart(yielded[Len(yielded)])

iterate_points == count_rows \/ declare_cursor \/ fetchmany \/ finish

Next ==
  \/ iterate_points
  \/ reject_checkpoint
  \/ statement_fails
  \/ resume
  \/ Mutate /\ UNCHANGED scanVars

Spec == Init /\ [][Next]_vars

-----------------------------------------------------------------------------
(* Properties *)

\* STRICT_CONSISTENT: "no concurrent write can be observed as a partial or
\* duplicated read": a strict pass delivers exactly the rows after its
\* checkpoint of the one state its start count was taken in.
StrictPassIsSnapshot ==
  strict /\ pc = "done" =>
    /\ yielded = Ascending({p \in txView : p > checkpoint})
    /\ checkpoint = NoPoint => start_count = Len(yielded) /\ end_count = Len(yielded)

\* Whatever the mode, a finished pass has every row after its checkpoint that
\* the table held throughout, each once, and none the table did not hold.
SteadyRowsOnce ==
  pc \in {"finish", "done"} =>
    /\ \A p \in steady : p > checkpoint => \E i \in 1..Len(yielded) : yielded[i] = p
    /\ \A i \in 1..Len(yielded) : yielded[i] \in everHeld
    /\ \A i, k \in 1..Len(yielded) : i < k => yielded[i] < yielded[k]

\* snapshot --resume: "Reuse the checkpoint sidecar next to --output from a
\* previous run": the sidecar one run wrote is accepted by the next.
ResumeIsAccepted == pc # "rejected"

=============================================================================
