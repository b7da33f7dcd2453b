------------------------------ MODULE Reconcile ------------------------------
(***************************************************************************)
(* One reconciliation (reconcile/engine.py), run by the reconcile command  *)
(* or by a reconcile job, over both paths: reconcile_small_data in memory, *)
(* reconcile_big_data with sorted run files in a work directory.  The join *)
(* loop, stream_merge_join, is taken item by item, reads its runs through  *)
(* heapq.merge and writes its leftovers through _ChunkedRunWriter.  The    *)
(* process may be killed anywhere and started again.                       *)
(***************************************************************************)
EXTENDS Findings

CONSTANTS
  Inputs,        \* what there is to reconcile: manifest, snapshot, policy
  ChunkSize,     \* items per run file
  MaxInMemory,   \* max_in_memory_points
  MaxCrashes     \* bound: kills

ASSUME ReconcileAssumption ==
  ChunkSize \in Nat \ {0} /\ MaxInMemory \in Nat /\ MaxCrashes \in Nat

\* Bindings and points come in lists and have ids; a point id is never missing
ASSUME IdsAssumption ==
  \A i \in Inputs :
    /\ i.manifest.bindings \in Seq(Members(i.manifest.bindings))
    /\ \A b \in Members(i.manifest.bindings) : b.point_id \in Nat \ {None} /\ b.embedding_id \in Nat
    /\ \A e \in DOMAIN i.manifest.embeddings : i.manifest.embeddings[e].chunk \in Nat
    /\ i.observed \in Seq(Members(i.observed))
    /\ \A o \in Members(i.observed) :
         o.point_id \in Nat \ {None} /\ o.embedding_id \in Nat /\ o.chunk_id \in Nat

VARIABLES
  in,          \* the input
  forced,      \* --big-data
  given,       \* --work-dir: every attempt has the same directory
  mode,        \* the path taken: "small" or "big"
  pc,
  level,       \* the round's matching level
  es, os,      \* runs of the round: expected, observed
  eAt, oAt,    \* what the round has still to read of each of them
  eOut, oOut,  \* where leftovers go
  eGroup, oGroup,
  matched, duplicates,
  disk,        \* run files in the work directories
  attempt,
  result, verdict

inputVars == <<in, forced, given>>
groupVars == <<eGroup, oGroup>>
runVars   == <<es, os, eAt, oAt, eOut, oOut>>
endVars   == <<result, verdict>>
vars == <<inputVars, mode, pc, level, runVars, groupVars, matched, duplicates, disk, attempt, endVars>>

NoResult == [short_circuited |-> FALSE]

Writer == [buffer |-> <<>>, runs |-> <<>>]

Init ==
  /\ in \in Inputs
  /\ forced \in BOOLEAN /\ given \in BOOLEAN
  /\ mode = "small" /\ pc = "begin" /\ level = POINT_ID
  /\ es = <<>> /\ os = <<>> /\ eAt = <<>> /\ oAt = <<>> /\ eOut = Writer /\ oOut = Writer
  /\ eGroup = <<>> /\ oGroup = <<>> /\ matched = <<>> /\ duplicates = {}
  /\ disk = {} /\ attempt = 1
  /\ result = NoResult /\ verdict = "none"

expected == resolve_expected_points(in.manifest)

-----------------------------------------------------------------------------
(* _ChunkedRunWriter: a run is its name and its lines.  In memory the      *)
(* writer is a list, and sorting it makes its only run.                    *)

flush(w, side, l) ==
  IF w.buffer = <<>> THEN w
  ELSE [buffer |-> <<>>,
        runs |-> Append(w.runs, [name  |-> <<attempt, side, l, Len(w.runs)>>,
                                 lines |-> sorted(l, w.buffer)])]

add(w, side, l, item) ==
  LET v == [w EXCEPT !.buffer = Append(@, item)]
  IN IF mode = "big" /\ Len(v.buffer) >= ChunkSize THEN flush(v, side, l) ELSE v

Names(runs) == {runs[i].name : i \in DOMAIN runs}

Lines(runs) == [i \in DOMAIN runs |-> runs[i].lines]

\* What a step's writers leave on disk
Spilled(files) == IF mode = "big" THEN disk' = disk \cup files ELSE UNCHANGED disk

(* heapq.merge: the smallest head, of equal ones that of the first run     *)

Alive(at) == {i \in DOMAIN at : at[i] # <<>>}

\* Mutant: of equal heads that of the last run
HeadRun_last(at) ==
  CHOOSE i \in Alive(at) : \A j \in Alive(at) :
    /\ ~sorts_before(level, at[j][1], at[i][1])
    /\ j > i => sorts_before(level, at[i][1], at[j][1])

HeadRun(at) ==
  CHOOSE i \in Alive(at) : \A j \in Alive(at) :
    /\ ~sorts_before(level, at[j][1], at[i][1])
    /\ j < i => sorts_before(level, at[i][1], at[j][1])

HeadOf(at) == at[HeadRun(at)][1]

Pop(at) == [at EXCEPT ![HeadRun(at)] = Tail(@)]

-----------------------------------------------------------------------------
\* _reset_work_dir: everything in this attempt's directory goes
reset_work_dir(files) == {f \in files : ~given /\ f[1] # attempt}

\* Preflight, then the path: the snapshot is read into memory unless it is
\* too large for that or --big-data was given
begin ==
  /\ pc = "begin"
  /\ IF preflight_fails(in, expected)
     THEN /\ result' = short_circuit_result(in)
          /\ pc' = "report"
          /\ UNCHANGED <<mode, eOut, oOut, disk>>
     ELSE /\ UNCHANGED result
          /\ IF ~forced /\ Len(in.observed) <= MaxInMemory
             THEN /\ mode' = "small"
                  /\ eOut' = [Writer EXCEPT !.buffer = expected]
                  /\ oOut' = [Writer EXCEPT !.buffer = in.observed]
                  /\ pc' = "round"
                  /\ UNCHANGED disk
             ELSE /\ mode' = "big"
                  /\ disk' = reset_work_dir(disk)
                  /\ pc' = "spill"
                  /\ UNCHANGED <<eOut, oOut>>
  /\ UNCHANGED <<inputVars, level, es, os, eAt, oAt, groupVars, matched, duplicates, attempt, verdict>>

Count(w) == Len(w.buffer) + Len(w.runs) * ChunkSize

\* Expected points first, then the observed ones as the connector yields them
spill ==
  /\ pc = "spill"
  /\ IF Count(eOut) < Len(expected)
     THEN /\ eOut' = add(eOut, "e", level, expected[Count(eOut) + 1])
          /\ UNCHANGED <<oOut, pc>>
     ELSE IF Count(oOut) < Len(in.observed)
     THEN /\ eOut' = flush(eOut, "e", level)
          /\ oOut' = add(oOut, "o", level, in.observed[Count(oOut) + 1])
          /\ UNCHANGED pc
     ELSE pc' = "round" /\ UNCHANGED <<eOut, oOut>>
  /\ Spilled(Names(eOut'.runs) \cup Names(oOut'.runs))
  /\ UNCHANGED <<inputVars, mode, level, es, os, eAt, oAt, groupVars, matched, duplicates, attempt, endVars>>

\* The writers are finished and their runs are the round's input
start_round ==
  /\ pc = "round"
  /\ es' = flush(eOut, "e", level).runs
  /\ os' = flush(oOut, "o", level).runs
  /\ eAt' = Lines(es') /\ oAt' = Lines(os')
  /\ eOut' = Writer /\ oOut' = Writer
  /\ Spilled(Names(es') \cup Names(os'))
  /\ pc' = "join"
  /\ UNCHANGED <<inputVars, mode, level, groupVars, matched, duplicates, attempt, endVars>>

\* Mutant: leftovers are sorted by the level they were left over from
left_over_same_level(w, side, item) ==
  IF level = CHUNK_ID THEN [w EXCEPT !.buffer = Append(@, item)] ELSE add(w, side, level, item)

\* on_leftover_expected, on_leftover_observed: the next round's writer, which
\* sorts by the next level, or after the last round a list
left_over(w, side, item) ==
  IF level = CHUNK_ID THEN [w EXCEPT !.buffer = Append(@, item)] ELSE add(w, side, level + 1, item)

eKey == key(level, HeadOf(eAt))
oKey == key(level, HeadOf(oAt))

\* No expected item left to match, or none with this key
leftover_expected ==
  /\ pc = "join" /\ Alive(eAt) # {}
  /\ \/ Alive(oAt) = {}
     \/ eKey = None
     \/ Alive(oAt) # {} /\ oKey # None /\ eKey < oKey
  /\ eOut' = left_over(eOut, "e", HeadOf(eAt))
  /\ eAt' = Pop(eAt)
  /\ Spilled(Names(eOut'.runs))
  /\ UNCHANGED <<inputVars, mode, pc, level, es, os, oAt, oOut, groupVars, matched, duplicates, attempt, endVars>>

\* Mutant: a missing key is not looked for
leftover_observed_no_none ==
  /\ pc = "join" /\ Alive(oAt) # {}
  /\ \/ Alive(eAt) = {}
     \/ Alive(eAt) # {} /\ eKey # None /\ oKey # None /\ eKey > oKey
  /\ oOut' = left_over(oOut, "o", HeadOf(oAt))
  /\ oAt' = Pop(oAt)
  /\ Spilled(Names(oOut'.runs))
  /\ UNCHANGED <<inputVars, mode, pc, level, es, os, eAt, eOut, groupVars, matched, duplicates, attempt, endVars>>

leftover_observed ==
  /\ pc = "join" /\ Alive(oAt) # {}
  /\ \/ Alive(eAt) = {}
     \/ Alive(eAt) # {} /\ eKey # None /\ (oKey = None \/ eKey > oKey)
  /\ oOut' = left_over(oOut, "o", HeadOf(oAt))
  /\ oAt' = Pop(oAt)
  /\ Spilled(Names(oOut'.runs))
  /\ UNCHANGED <<inputVars, mode, pc, level, es, os, eAt, eOut, groupVars, matched, duplicates, attempt, endVars>>

\* Equal keys: both groups are gathered
open_group ==
  /\ pc = "join" /\ Alive(eAt) # {} /\ Alive(oAt) # {}
  /\ eKey = oKey /\ eKey # None
  /\ eGroup' = <<HeadOf(eAt)>> /\ eAt' = Pop(eAt)
  /\ oGroup' = <<HeadOf(oAt)>> /\ oAt' = Pop(oAt)
  /\ pc' = "group"
  /\ UNCHANGED <<inputVars, mode, level, es, os, eOut, oOut, matched, duplicates, disk, attempt, endVars>>

GroupKey == key(level, eGroup[1])
MoreE == Alive(eAt) # {} /\ eKey = GroupKey
MoreO == Alive(oAt) # {} /\ oKey = GroupKey

grow_group ==
  /\ pc = "group"
  /\ \/ /\ MoreE
        /\ eGroup' = Append(eGroup, HeadOf(eAt)) /\ eAt' = Pop(eAt)
        /\ UNCHANGED <<oGroup, oAt>>
     \/ /\ ~MoreE /\ MoreO
        /\ oGroup' = Append(oGroup, HeadOf(oAt)) /\ oAt' = Pop(oAt)
        /\ UNCHANGED <<eGroup, eAt>>
  /\ UNCHANGED <<inputVars, mode, pc, level, es, os, eOut, oOut, matched, duplicates, disk, attempt, endVars>>

Lesser(m, n) == IF m <= n THEN m ELSE n

\* Mutant: only a surplus counts as a duplicate
close_group_surplus ==
  LET n == Lesser(Len(eGroup), Len(oGroup))
  IN
  /\ pc = "group" /\ ~MoreE /\ ~MoreO
  /\ matched' = matched \o
       [i \in 1..n |-> [expected |-> eGroup[i], observed |-> oGroup[i], level |-> level]]
  /\ eGroup' = SubSeq(eGroup, n + 1, Len(eGroup))
  /\ oGroup' = SubSeq(oGroup, n + 1, Len(oGroup))
  /\ duplicates' = IF Len(oGroup) > Len(eGroup)
                   THEN duplicates \cup {[level |-> level, key |-> GroupKey]} ELSE duplicates
  /\ pc' = IF Len(eGroup) = Len(oGroup) THEN "join" ELSE "surplus"
  /\ UNCHANGED <<inputVars, mode, level, runVars, disk, attempt, endVars>>

\* First with first; several observed points with one key are reported
close_group ==
  LET n == Lesser(Len(eGroup), Len(oGroup))
  IN
  /\ pc = "group" /\ ~MoreE /\ ~MoreO
  /\ matched' = matched \o
       [i \in 1..n |-> [expected |-> eGroup[i], observed |-> oGroup[i], level |-> level]]
  /\ eGroup' = SubSeq(eGroup, n + 1, Len(eGroup))
  /\ oGroup' = SubSeq(oGroup, n + 1, Len(oGroup))
  /\ duplicates' = IF Len(oGroup) > 1
                   THEN duplicates \cup {[level |-> level, key |-> GroupKey]} ELSE duplicates
  /\ pc' = IF Len(eGroup) = Len(oGroup) THEN "join" ELSE "surplus"
  /\ UNCHANGED <<inputVars, mode, level, runVars, disk, attempt, endVars>>

\* What one side has more of is left over
surplus ==
  /\ pc = "surplus"
  /\ IF eGroup # <<>>
     THEN /\ eOut' = left_over(eOut, "e", Head(eGroup)) /\ eGroup' = Tail(eGroup)
          /\ UNCHANGED <<oOut, oGroup>>
     ELSE /\ oOut' = left_over(oOut, "o", Head(oGroup)) /\ oGroup' = Tail(oGroup)
          /\ UNCHANGED <<eOut, eGroup>>
  /\ Spilled(Names(eOut'.runs) \cup Names(oOut'.runs))
  /\ pc' = IF Len(eGroup) + Len(oGroup) = 1 THEN "join" ELSE "surplus"
  /\ UNCHANGED <<inputVars, mode, level, es, os, eAt, oAt, matched, duplicates, attempt, endVars>>

\* Both streams are read: their files go, the leftovers are the next round's
\* input, or the outcome
Outcome == [matched |-> matched, missing |-> eOut.buffer, orphan |-> oOut.buffer, duplicates |-> duplicates]

end_round ==
  LET kept == disk \ (Names(es) \cup Names(os))
  IN
  /\ pc = "join" /\ Alive(eAt) = {} /\ Alive(oAt) = {}
  /\ es' = <<>> /\ os' = <<>> /\ eAt' = <<>> /\ oAt' = <<>>
  /\ IF level = CHUNK_ID
     THEN /\ result' = finalize(in, expected, Outcome)
          /\ disk' = IF mode = "big" THEN reset_work_dir(kept) ELSE disk
          /\ pc' = "report"
          /\ UNCHANGED level
     ELSE /\ level' = level + 1
          /\ disk' = kept
          /\ pc' = "round"
          /\ UNCHANGED result
  /\ UNCHANGED <<inputVars, mode, eOut, oOut, groupVars, matched, duplicates, attempt, verdict>>

\* The policy and the exit code
report ==
  /\ pc = "report"
  /\ verdict' = evaluate_policy(in.policy, result)
  /\ pc' = "done"
  /\ UNCHANGED <<inputVars, mode, level, runVars, groupVars, matched, duplicates, disk, attempt, result>>

Busy == pc \notin {"crashed", "done"}

\* The process is killed, or reading the snapshot raises
Crash ==
  /\ Busy /\ attempt <= MaxCrashes
  /\ pc' = "crashed"
  /\ es' = <<>> /\ os' = <<>> /\ eAt' = <<>> /\ oAt' = <<>> /\ eOut' = Writer /\ oOut' = Writer
  /\ eGroup' = <<>> /\ oGroup' = <<>> /\ matched' = <<>> /\ duplicates' = {}
  /\ level' = POINT_ID /\ result' = NoResult
  /\ UNCHANGED <<inputVars, mode, disk, attempt, verdict>>

\* The command or the job is run again
Restart ==
  /\ pc = "crashed"
  /\ attempt' = attempt + 1
  /\ pc' = "begin"
  /\ UNCHANGED <<inputVars, mode, level, runVars, groupVars, matched, duplicates, disk, endVars>>

stream_merge_join ==
  leftover_expected \/ leftover_observed \/ open_group \/ grow_group \/ close_group \/ surplus

Step == begin \/ spill \/ start_round \/ stream_merge_join \/ end_round \/ report

Next == Step \/ Crash \/ Restart

Spec == Init /\ [][Next]_vars

\* A process that is not killed goes on, and a killed one is started again
FairSpec == Spec /\ WF_vars(Step) /\ WF_vars(Restart)

-----------------------------------------------------------------------------
(* Properties *)

Judged == pc \in {"report", "done"} /\ ~result.short_circuited

missing == Members(eOut.buffer)
orphan  == Members(oOut.buffer)

\* A writer of the big path never holds a full chunk, and the files a round
\* reads are on disk.
RunFilesHold ==
  mode = "big" =>
    /\ level # CHUNK_ID => Len(eOut.buffer) < ChunkSize /\ Len(oOut.buffer) < ChunkSize
    /\ Names(es) \cup Names(os) \subseteq disk

SameKey(l, e, o) == key(l, e) = key(l, o) /\ key(l, e) # None

ExpectedLevel(e) ==
  IF e \in missing THEN CHUNK_ID + 1 ELSE (CHOOSE p \in Members(matched) : p.expected = e).level

ObservedLevel(o) ==
  IF o \in orphan THEN CHUNK_ID + 1 ELSE (CHOOSE p \in Members(matched) : p.observed = o).level

\* match_all_levels and reconcile_big_data: every expected and every observed
\* point ends in exactly one place, a pair shares the key of its level, and
\* two points that were both still open after a level do not share its key.
MatchingIsSound ==
  Judged =>
    /\ Members(expected) = {p.expected : p \in Members(matched)} \cup missing
    /\ Members(in.observed) = {p.observed : p \in Members(matched)} \cup orphan
    /\ Len(expected) = Len(matched) + Len(eOut.buffer)
    /\ Len(in.observed) = Len(matched) + Len(oOut.buffer)
    /\ \A p \in Members(matched) : SameKey(p.level, p.expected, p.observed)
    /\ \A e \in Members(expected), o \in Members(in.observed), l \in CLOSING_LEVELS :
         l < ExpectedLevel(e) /\ l < ObservedLevel(o) => ~SameKey(l, e, o)

\* The items at some places of a list, in order
ItemsAt(s, D) ==
  [k \in 1..Cardinality(D) |-> s[CHOOSE i \in D : Cardinality({j \in D : j <= i}) = k]]

\* Among the items of its key, the how manieth this one is
Nth(l, s, i) == Cardinality({j \in 1..i : key(l, s[j]) = key(l, s[i])})

\* Within one key the first goes with the first
Partners(l, s, t, i, j) == SameKey(l, s[i], t[j]) /\ Nth(l, s, i) = Nth(l, t, j)

Alone(l, s, t) == {i \in DOMAIN s : \A j \in DOMAIN t : ~Partners(l, s, t, i, j)}

\* Reference: a level on whole lists
Round(st, l) ==
  LET e == sorted(l, st.e)
      o == sorted(l, st.o)
      pairs == {p \in (DOMAIN e) \X (DOMAIN o) : Partners(l, e, o, p[1], p[2])}
  IN [e |-> ItemsAt(e, Alone(l, e, o)),
      o |-> ItemsAt(o, Alone(l, o, e)),
      matched |-> st.matched \cup
        {[expected |-> e[p[1]], observed |-> o[p[2]], level |-> l] : p \in pairs}]

Reference ==
  Round(Round(Round([e |-> expected, o |-> in.observed, matched |-> {}], POINT_ID), EMBEDDING_ID), CHUNK_ID)

\* _reset_work_dir: a run that ends leaves no file in its work directory, not
\* even those of killed attempts; only directories nobody passes again keep
\* what a killed attempt left.
LitterOnlyFromKilledAttempts ==
  pc = "done" => \A f \in disk : ~given /\ f[1] < attempt

\* stream_merge_join: "what guarantees they produce identical matches for the
\* same logical input": both paths, with any runs and after any restart, end
\* with the matching the reference makes, leftovers in the same order, and the
\* big one holds its bounds and its work directory on the way there.
PathsAgree ==
  /\ Judged => /\ Members(matched) = Reference.matched
               /\ eOut.buffer = Reference.e /\ oOut.buffer = Reference.o
  /\ RunFilesHold
  /\ LitterOnlyFromKilledAttempts

\* A point id observed twice is reported, if anything expects it.
DuplicatesReported ==
  Judged =>
    \A i, j \in DOMAIN in.observed :
      LET id == in.observed[i].point_id IN
      i < j /\ in.observed[j].point_id = id /\ (\E e \in Members(expected) : e.point_id = id)
        => \E f \in result.findings : f.code = "DUPLICATE_POINT_ID" /\ f.subject = id

StrictPolicy(p) == p.given /\ {Medium, High, Critical} \subseteq p.fail_on

\* From the join to the gate: under a policy that fails on every severity the
\* engine uses, exit code 0 means that manifest and index agree:
\* one point per binding with the payload, tenant and ACL it declares, and
\* nothing else, read from complete inputs.
StrictPassMeansAgreement ==
  Judged /\ pc = "done" /\ StrictPolicy(in.policy) /\ exit_code_for(verdict) = 0 =>
    /\ missing = {} /\ orphan = {}
    /\ in.manifest.status = "complete" /\ in.completeness # "incomplete"
    /\ \A p \in Members(matched) :
         LET e == p.expected
             o == p.observed
         IN /\ o.payload_hash = e.payload_hash
            /\ e.acl # NoAcl => o.acl = e.acl
            /\ e.tenant # None => o.tenant = e.tenant
            /\ e.source_id \in DOMAIN in.manifest.sources \ {None} =>
                 o.source_version_id \in {None, in.manifest.sources[e.source_id]}

DistinctIds ==
  \A i, j \in DOMAIN in.observed : in.observed[i].point_id = in.observed[j].point_id => i = j

\* build_remediation_plan: with distinct point ids, what it proposes to delete
\* is a point left over from every level, under an id that no binding expects.
DeletesOnlyOrphans ==
  Judged /\ DistinctIds =>
    \A a \in build_remediation_plan(result.findings) :
      a.action = "delete_point_candidate" =>
        /\ a.candidates \subseteq {<<"point", o.point_id>> : o \in orphan}
        /\ \A e \in Members(expected) : <<"point", e.point_id>> \notin a.candidates

\* A reconciliation that is restarted after a kill comes to a verdict.
EveryReconciliationEnds == <>(pc = "done")

=============================================================================
