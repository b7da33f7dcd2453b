------------------------------ MODULE Snapshot ------------------------------
(***************************************************************************)
(* A capture: a connector's pass streamed into a snapshot file.  The       *)
(* command `ragledger snapshot` (cli/commands/snapshot_cmd.py) writes      *)
(* --output in place, saves the last point's id in a sidecar and may start *)
(* the next pass there (--resume); the worker's run_snapshot_job           *)
(* (server/handlers.py) writes a temporary file, puts it in the artifact   *)
(* store and completes the InventorySnapshot row.  The target changes      *)
(* while the pass reads it, requests and statements fail, the process may  *)
(* die anywhere, and a finished file may be damaged before it is read.     *)
(* The pass is QdrantScan's or PgvectorScan's: the two share the variables *)
(* that say what was yielded.                                              *)
(***************************************************************************)
EXTENDS QdrantScan, SnapshotFile

CONSTANT MaxDamage   \* bound: damages in a behaviour
ASSUME DamageAssumption == MaxDamage \in Nat

VARIABLES
  strict, compositeKey, txView, cursor,   \* PgvectorScan's own
  target,     \* configuration: the target's type
  via,        \* who captures: the command line or a worker
  connector,  \* "none", "connected", "refused": the connection to the target
  writer,     \* "before", "open", "sealed", "over": the capture's file
  out,        \* the file at --output, or in the temporary directory
  sidecar,    \* the checkpoint next to --output, NoPoint if there is none
  row,        \* the InventorySnapshot row and the artifact it names
  damage,
  captured,   \* history: the pass the file at out was sealed with
  since,      \* history: points held since the first pass the sidecar builds on
  delivered   \* history: the points of the files those passes finished

P == INSTANCE PgvectorScan

pgvectorVars == <<strict, compositeKey, txView, cursor>>
qdrantVars == <<attempt, offset>>
passVars == <<scanVars, pgvectorVars>>
history == <<captured, since, delivered>>
captureVars == <<target, via, connector, writer, out, sidecar, row, damage, history>>
allVars == <<targetVars, passVars, captureVars>>

NoPass == [points |-> <<>>, completeness |-> "none"]
NewRow == [status |-> "running", point_count |-> 0, content_hash |-> <<>>, artifact |-> NoFile, checkpoint |-> NoPoint]

CaptureInit ==
  /\ target \in {"qdrant", "pgvector"}
  /\ via \in {"cli", "server"}
  /\ connector = "none"
  /\ writer = "before"
  /\ out = NoFile
  /\ sidecar = NoPoint
  /\ row = NewRow
  /\ damage = 0
  /\ captured = NoPass
  /\ since = {}
  /\ delivered = {}

SnapshotInit ==
  /\ CaptureInit
  /\ \/ target = "qdrant" /\ Init /\ strict = FALSE /\ compositeKey = FALSE /\ txView = {} /\ cursor = {}
     \/ target = "pgvector" /\ P!Init /\ attempt = 0 /\ offset = NoPoint

-----------------------------------------------------------------------------
\* Credentials reach a connector as the name of an environment variable.
\* QdrantConnector resolves it when it is built, PgvectorConnector keeps the
\* name until it connects.
captures(type) == type = "qdrant"

\* The variable is set while the connector is built; the worker's, which has
\* the decrypted credential, is unset right after, the command's stays
set_afterwards == via = "cli"

\* _ensure_connection finds the credential on first use
resolves == captures(target) \/ set_afterwards

\* The connector is built and test_connection connects it.  A name that is
\* not set any more is a ConnectorConfigError, which test_connection does not
\* catch; the queue retries the job.
connect ==
  /\ writer = "before"
  /\ connector = "none"
  /\ \/ /\ resolves
        /\ connector' = "connected"
        /\ UNCHANGED <<writer, pc>>
     \/ /\ ~resolves
        /\ connector' = "refused"
        /\ writer' = "over"
        /\ pc' = "raised"
  /\ UNCHANGED <<target, via, out, sidecar, row, damage, history, targetVars, pgvectorVars>>
  /\ UNCHANGED <<attempt, checkpoint, offset, yielded, start_count, end_count, completeness, passes>>

\* The pass starts reading points once the output is open
open_output ==
  /\ writer = "before"
  /\ connector = "connected"
  /\ pc = IF target = "qdrant" THEN "scroll" ELSE "count"
  /\ writer' = "open"
  /\ out' = HeaderOnly
  /\ captured' = NoPass
  /\ UNCHANGED <<target, via, connector, sidecar, row, damage, since, delivered>>
  /\ UNCHANGED <<targetVars, passVars>>

\* _tracked_points: a step of the pass, its points written as they come
_tracked_points ==
  /\ connector = "connected"
  /\ \/ /\ target = "qdrant"
        /\ writer = IF pc = "inspect" THEN "before" ELSE "open"
        /\ iterate_points \/ RetryRequest
        /\ UNCHANGED pgvectorVars
     \/ /\ target = "pgvector"
        /\ writer = "open"
        /\ P!iterate_points
        /\ UNCHANGED qdrantVars
  /\ out' = IF writer = "open" THEN WithPoints(out, yielded') ELSE out
  /\ UNCHANGED <<target, via, connector, writer, sidecar, row, damage, history>>

\* Mutant of Raise: the sidecar is saved when the pass raises, too
Raise_saves_sidecar ==
  /\ writer \in {"before", "open"} /\ connector = "connected"
  /\ \/ target = "qdrant" /\ RequestFails /\ UNCHANGED pgvectorVars
     \/ target = "pgvector" /\ (P!statement_fails \/ P!reject_checkpoint) /\ UNCHANGED qdrantVars
  /\ writer' = "over"
  /\ connector' = "none"
  /\ sidecar' = IF yielded = <<>> THEN sidecar ELSE yielded[Len(yielded)]
  /\ since' = IF checkpoint = NoPoint THEN steady ELSE since
  /\ delivered' = IF checkpoint = NoPoint THEN {} ELSE delivered
  /\ UNCHANGED <<target, via, out, row, damage, captured>>

\* The pass raises (a request fails for good, a statement times out, the
\* checkpoint is refused, check_cancellation): the writer is closed by its
\* context manager with no trailer
Raise ==
  /\ writer \in {"before", "open"}
  /\ connector = "connected"
  /\ \/ /\ target = "qdrant"
        /\ RequestFails
        /\ UNCHANGED pgvectorVars
     \/ /\ target = "pgvector"
        /\ P!statement_fails \/ P!reject_checkpoint
        /\ UNCHANGED qdrantVars
  /\ writer' = "over"
  /\ connector' = "none"
  /\ UNCHANGED <<target, via, out, sidecar, row, damage, history>>

\* The end of write_snapshot: the trailer
write_snapshot ==
  /\ writer = "open"
  /\ pc = "done"
  /\ writer' = "sealed"
  /\ out' = WithTrailer(out, completeness)
  /\ captured' = [points |-> yielded, completeness |-> completeness]
  /\ UNCHANGED <<target, via, connector, sidecar, row, damage, since, delivered>>
  /\ UNCHANGED <<targetVars, passVars>>

\* The last point's id, when there is one; the old one stays otherwise
LastPoint == IF yielded = <<>> THEN sidecar ELSE yielded[Len(yielded)]

\* The end of `ragledger snapshot`: the sidecar is written last
save_sidecar ==
  /\ via = "cli"
  /\ writer = "sealed"
  /\ writer' = "over"
  /\ connector' = "none"
  /\ sidecar' = LastPoint
  /\ since' = IF checkpoint = NoPoint THEN steady ELSE since
  /\ delivered' = {yielded[i] : i \in 1..Len(yielded)} \cup IF checkpoint = NoPoint THEN {} ELSE delivered
  /\ UNCHANGED <<target, via, out, row, damage, captured>>
  /\ UNCHANGED <<targetVars, passVars>>

\* The end of run_snapshot_job: the file is put in the store, the row is
\* completed from the trailer and the pass
complete_row ==
  /\ via = "server"
  /\ writer = "sealed"
  /\ writer' = "over"
  /\ connector' = "none"
  /\ row' = [status |-> IF completeness = "complete" THEN "completed" ELSE "incomplete",
             point_count |-> out.trailer.point_count,
             content_hash |-> out.trailer.content_hash,
             artifact |-> out,
             checkpoint |-> IF yielded = <<>> THEN NoPoint ELSE yielded[Len(yielded)]]
  /\ out' = NoFile
  /\ captured' = NoPass
  /\ UNCHANGED <<target, via, sidecar, damage, since, delivered>>
  /\ UNCHANGED <<targetVars, passVars>>

-----------------------------------------------------------------------------
\* The process dies: an open file keeps some of its lines; a worker's
\* temporary file is never looked at again and its transaction is undone
Die ==
  /\ writer \in {"before", "open", "sealed"}
  /\ pc' = "raised"
  /\ writer' = "over"
  /\ connector' = "none"
  /\ \/ via = "cli" /\ writer = "open" /\ out' \in Remains(out)
     \/ (via = "server" \/ writer # "open") /\ out' = IF via = "server" THEN NoFile ELSE out
  /\ UNCHANGED <<target, via, sidecar, row, damage, history>>
  /\ UNCHANGED <<targetVars, attempt, checkpoint, offset, yielded, start_count, end_count, completeness, passes>>
  /\ UNCHANGED pgvectorVars

LineRemoved(f, i) == WithPoints(f, SubSeq(f.body, 1, i - 1) \o SubSeq(f.body, i + 1, Len(f.body)))

LineEdited(f, i, p) == WithPoints(f, [f.body EXCEPT ![i] = p])

\* A finished file is damaged: cut, or a point line removed or edited
Damaged(f) ==
  Remains(f)
    \cup {LineRemoved(f, i) : i \in 1..Len(f.body)}
    \cup {LineEdited(f, i, p) : i \in 1..Len(f.body), p \in Points}

Damage ==
  /\ via = "cli"
  /\ writer = "over"
  /\ damage < MaxDamage
  /\ damage' = damage + 1
  /\ out' \in Damaged(out)
  /\ UNCHANGED <<target, via, connector, writer, sidecar, row, history>>
  /\ UNCHANGED <<targetVars, passVars>>

\* The command is run again, with --resume or without; the queue retries a
\* job whose row was not completed, from no checkpoint
Again ==
  /\ writer = "over"
  /\ via = "server" => row.status = "running"
  /\ writer' = "before"
  /\ connector' = "none"
  /\ \E c \in {NoPoint} \cup IF via = "cli" THEN {sidecar} ELSE {} :
       \/ target = "qdrant" /\ Restart(c) /\ UNCHANGED pgvectorVars
       \/ target = "pgvector" /\ P!Restart(c) /\ UNCHANGED qdrantVars
  /\ UNCHANGED <<target, via, out, sidecar, row, damage, history>>

\* Somebody writes to the target, until the last pass is over
TargetChanges ==
  /\ writer # "over" \/ passes < MaxPasses
  /\ Mutate
  /\ since' = since \cap points'
  /\ UNCHANGED passVars
  /\ UNCHANGED <<target, via, connector, writer, out, sidecar, row, damage, captured, delivered>>

capture == connect \/ open_output \/ _tracked_points \/ write_snapshot \/ save_sidecar \/ complete_row

SnapshotNext == capture \/ Raise \/ Die \/ Damage \/ Again \/ TargetChanges

SnapshotSpec == SnapshotInit /\ [][SnapshotNext]_allVars

-----------------------------------------------------------------------------
(* Properties *)

\* Whatever the connector, whatever is written between its requests and
\* however often they are retried: a pass yields no point twice, and one that
\* finishes has every point past its checkpoint that the target held
\* throughout and none it did not hold.
SteadyPointsOnce ==
  /\ EachPointOnce
  /\ target = "qdrant" => SteadyPointsYielded
  /\ target = "pgvector" => P!SteadyRowsOnce

\* STRICT_CONSISTENT: a repeatable read pass delivers the rows of one state
\* of the table, the one its start count was taken in.
StrictPassIsSnapshot == target = "pgvector" => P!StrictPassIsSnapshot

\* The file is the pass: a file SnapshotReader accepts holds the points and
\* the completeness of the last pass that finished into it, however the
\* process died and whichever lines were cut or edited; the row agrees with
\* the artifact it names; a replay resumed after any line has the rest.
AcceptedFileIsThePass ==
  /\ accepts(out) => out.body = captured.points /\ out.trailer.completeness = captured.completeness
  /\ row.status # "running" =>
       /\ accepts(row.artifact)
       /\ row.content_hash = row.artifact.body
       /\ row.point_count = Len(row.artifact.body)
       /\ (row.status = "completed") = (row.artifact.trailer.completeness = "complete")
  /\ \A i \in 1..Len(captured.points) :
       accepts(out) => Replay(out, captured.points[i], NoPoint) = SubSeq(captured.points, i + 1, Len(captured.points))

\* --resume never skips: every point the target has held since the chain of
\* captures began and that lies before the sidecar's checkpoint is in a file
\* some finished run of the chain wrote, whichever runs failed in between.
ResumeSkipsNothing == \A p \in since : p <= sidecar => p \in delivered

\* _connector_for_target: "both connectors capture the resolved value, not
\* the variable name": a connector finds its credential when it connects.
CredentialIsCaptured == connector # "refused"

=============================================================================
