--------------------------- MODULE Reconciliations ---------------------------
(***************************************************************************)
(* Reconciliation rows, from the request that creates one to the records   *)
(* its job leaves: server/api/reconcile_routes.py and run_reconcile_job of *)
(* server/handlers.py over the tables of db/models/reconciliation.py and   *)
(* the policy_evaluations of db/models/policy.py.                          *)
(*                                                                         *)
(* The engine (module Reconcile) is a function of the manifest, the        *)
(* captured points and the policy document, and a report carries no time,  *)
(* so Found and Verdict stand for it and a report is named by its inputs.  *)
(* Attempts of one job never overlap (JobQueue!HandlersSerialized), but    *)
(* one that lost its lease before it began may run after another is done.  *)
(***************************************************************************)
EXTENDS Policies, Targets, Manifests

CONSTANTS
  Found,        \* per manifest hash and capture: the fingerprints found
  Verdict,      \* per document and number of findings: the policy's verdict
  MaxAttempts   \* bound: attempts of a reconciliation's job

Verdicts == {"PASS", "WARN", "FAIL", "INCONCLUSIVE"}

ASSUME EngineAssumption ==
  /\ DOMAIN Found = Hashes \X Captures
  /\ Verdict \in [Documents \X {0, 1} -> Verdicts]
  /\ MaxAttempts \in Nat

VARIABLES
  reconciliations,  \* per reconciliation: its inputs, state and report
  findings,         \* the finding rows
  evaluations,      \* the policy evaluation rows
  reports,          \* the report artifacts in the store
  work              \* per reconciliation: its job's attempts, and the one under way

reconciliationVars == <<reconciliations, findings, evaluations, reports, work>>

-----------------------------------------------------------------------------
(* Creating one *)

\* 404 for a row of another workspace, 409 for a snapshot without artifact;
\* the policy's latest revision is pinned
CreateReconciliationRead(r, m, s, p) ==
  LET refused == \/ manifests[m].ws # req[r].ws
                 \/ snapshots[s].ws # req[r].ws \/ snapshots[s].artifact_ref = "null"
                 \/ p # None /\ policies[p].ws # req[r].ws IN
  /\ At(r, "authed", "reconciliation.create")
  /\ \/ refused /\ Refuse(r)
     \/ /\ ~refused
        /\ Loaded(r, [ws |-> req[r].ws, manifest |-> m, snapshot |-> s,
                      revision |-> IF p = None THEN None ELSE latest_revision(p),
                      state |-> "pending", report_artifact |-> None])
        /\ UNCHANGED <<users, workspaces, tokens, audit>>
  /\ UNCHANGED reconciliationVars

NoWork == [attempts |-> 0, at |-> "idle", inputs |-> None]

\* Mutant: no foreign key to the snapshot
create_reconciliation_unchecked(r) ==
  /\ At(r, "ready", "reconciliation.create")
  /\ reconciliations' = Insert(reconciliations, r, req[r].seen)
  /\ work' = Insert(work, r, NoWork)
  /\ Commit(r, r)
  /\ UNCHANGED <<users, workspaces, tokens, findings, evaluations, reports>>

\* The foreign key needs the snapshot, which a target's deletion may have
\* taken; manifests and revisions are never deleted
create_reconciliation(r) ==
  LET row == req[r].seen IN
  /\ At(r, "ready", "reconciliation.create")
  /\ \/ row.snapshot \notin DOMAIN snapshots /\ RollBack(r) /\ UNCHANGED <<reconciliations, work>>
     \/ /\ row.snapshot \in DOMAIN snapshots
        /\ reconciliations' = Insert(reconciliations, r, row)
        /\ work' = Insert(work, r, NoWork)
        /\ Commit(r, r)
        /\ UNCHANGED <<users, workspaces, tokens>>
  /\ UNCHANGED <<findings, evaluations, reports>>

\* The snapshots that a target's deletion cannot take
Pinned == {reconciliations[x].snapshot : x \in DOMAIN reconciliations}

-----------------------------------------------------------------------------
(* run_reconcile_job *)

\* The report the engine, the policy and the remediation plan come to
Report(hash, capture, document) ==
  LET fingerprints == Found[<<hash, capture>>] IN
  [result |-> <<hash, capture>>, findings |-> fingerprints, document |-> document,
   verdict |-> IF document = None THEN "PASS"
               ELSE Verdict[<<document, IF fingerprints = {} THEN 0 ELSE 1>>]]

\* An attempt loads the rows, sets RUNNING without committing, and reads the
\* manifest's artifact, the pinned revision and the snapshot's file; a flagged
\* job stops at check_cancellation
StartAttempt(x) ==
  LET row == reconciliations[x] IN
  /\ work[x].at = "idle" /\ work[x].attempts < MaxAttempts
  /\ row.state # "cancelled"
  /\ work' = [work EXCEPT ![x] =
       [attempts |-> @.attempts + 1, at |-> "running",
        inputs |-> Report(manifests[row.manifest].artifact_ref.signing_view,
                          snapshots[row.snapshot].capture,
                          IF row.revision = None THEN None ELSE row.revision.document)]]
  /\ UNCHANGED <<requestVars, reconciliations, findings, evaluations, reports>>

\* The report goes to the artifact store, outside the transaction
PutReport(x) ==
  /\ work[x].at = "running"
  /\ reports' = reports \cup {work[x].inputs}
  /\ work' = [work EXCEPT ![x].at = "stored"]
  /\ UNCHANGED <<requestVars, reconciliations, findings, evaluations>>

FindingsOf(x) == {f \in findings : f.reconciliation = x}

\* Mutant: only FAIL gates as a failure
gate_lenient(verdict) == CASE verdict = "PASS" -> "pass" [] verdict = "FAIL" -> "fail" [] OTHER -> "warn"

\* The gate has no fourth value: INCONCLUSIVE is a failure
gate(verdict) == CASE verdict = "PASS" -> "pass" [] verdict = "WARN" -> "warn" [] OTHER -> "fail"

\* Finding rows, unique per fingerprint, the evaluation if a revision is
\* pinned, state and summary: one transaction
run_reconcile_job(x) ==
  LET row    == reconciliations[x]
      report == work[x].inputs
      taken  == {f.fingerprint : f \in FindingsOf(x)} \cap report.findings
      rows   == {[reconciliation |-> x, fingerprint |-> f, report |-> report] : f \in report.findings} IN
  /\ work[x].at = "stored"
  /\ work' = [work EXCEPT ![x].at = "idle", ![x].inputs = None]
  /\ \/ taken # {} /\ UNCHANGED <<reconciliations, findings, evaluations>>
     \/ /\ taken = {}
        /\ findings' = findings \cup rows
        /\ evaluations' = evaluations \cup
             IF row.revision = None THEN {}
             ELSE {[reconciliation |-> x, attempt |-> work[x].attempts, revision |-> row.revision,
                    result |-> gate(report.verdict)]}
        /\ reconciliations' = [reconciliations EXCEPT ![x].state = "completed",
                                                      ![x].report_artifact = report]
  /\ UNCHANGED <<requestVars, reports>>

\* The attempt fails, its worker dies, or it meets a cancellation, whose
\* finalizer marks a row that is not final; the transaction is undone
AbandonAttempt(x) ==
  /\ work[x].at # "idle"
  /\ work' = [work EXCEPT ![x].at = "idle", ![x].inputs = None]
  /\ \/ UNCHANGED reconciliations
     \/ /\ reconciliations[x].state = "pending"
        /\ reconciliations' = [reconciliations EXCEPT ![x].state = "cancelled"]
  /\ UNCHANGED <<requestVars, findings, evaluations, reports>>

-----------------------------------------------------------------------------
(* Reading the report *)

\* _load_report, for :evaluate-policy (which writes no evaluation) and the
\* remediation plan: 404, 409 before it is completed, 500 without its report
ReadReport(r, x, op) ==
  LET row == reconciliations[x] IN
  /\ At(r, "authed", op)
  /\ \/ (row.ws # req[r].ws \/ row.state # "completed") /\ Refuse(r)
     \/ /\ row.ws = req[r].ws /\ row.state = "completed"
        /\ IF row.report_artifact \in reports THEN Nothing(r) ELSE RollBack(r)
  /\ UNCHANGED reconciliationVars

evaluate_policy_endpoint(r, x) == ReadReport(r, x, "reconciliation.evaluate")

get_remediation_plan(r, x) == ReadReport(r, x, "reconciliation.plan")

ReconciliationNext ==
  \/ \E r \in Requests :
       \/ \E m \in DOMAIN manifests, s \in DOMAIN snapshots, p \in DOMAIN policies \cup {None} :
            CreateReconciliationRead(r, m, s, p)
       \/ create_reconciliation(r)
       \/ \E x \in DOMAIN reconciliations : evaluate_policy_endpoint(r, x) \/ get_remediation_plan(r, x)
  \/ \E x \in DOMAIN reconciliations :
       StartAttempt(x) \/ PutReport(x) \/ run_reconcile_job(x) \/ AbandonAttempt(x)

-----------------------------------------------------------------------------
(* Properties *)

\* A reconciliation and its records are one: a completed one has its report
\* in the store, of its own manifest, snapshot and pinned revision, its
\* finding rows are that report's findings, and every evaluation is of that
\* revision and passes only what the verdict passes; one that is not
\* completed has neither, whichever attempts died, were cancelled or ran
\* again.
RecordsAreWhole ==
  \A x \in DOMAIN reconciliations :
    LET row  == reconciliations[x]
        runs == {e \in evaluations : e.reconciliation = x} IN
    /\ row.state = "completed" =>
         /\ row.report_artifact \in reports
         /\ row.report_artifact.result =
              <<manifests[row.manifest].manifest_hash, snapshots[row.snapshot].capture>>
         /\ {f.fingerprint : f \in FindingsOf(x)} = row.report_artifact.findings
         /\ \A f \in FindingsOf(x) : f.report = row.report_artifact
         /\ (runs # {}) = (row.revision # None)
         /\ \A e \in runs :
              /\ e.revision = row.revision /\ row.report_artifact.document = e.revision.document
              /\ (e.result = "pass") = (row.report_artifact.verdict = "PASS")
              /\ row.report_artifact.verdict \in {"FAIL", "INCONCLUSIVE"} => e.result = "fail"
    /\ row.state # "completed" => FindingsOf(x) = {} /\ runs = {}

=============================================================================
