------------------------------ MODULE Registry ------------------------------
(***************************************************************************)
(* The server's registry: the requests of server/api over the tables they  *)
(* share, with the jobs that write to the same rows.  A build refers to a  *)
(* collection and a config, so creating one is composed here.              *)
(***************************************************************************)
EXTENDS Reconciliations, Sources

VARIABLE
  scene             \* the operations this behaviour's requests may call

CONSTANT Scenes     \* operations that work on the same rows, and how many are called

ASSUME ScenesAssumption == \A s \in Scenes : s.ops \subseteq Ops /\ s.calls \in Nat

\* The ids of the rows an instance in use starts with
Seed == "seed"

Names == {Seed, "second", "admin", "other", "guest"}

\* uuid4: a request's rows have ids of their own; NULL is no id, and neither
\* names the other the error of a credential that does not open
ASSUME FreshIds ==
  /\ Requests \cap Names = {} /\ None \notin Requests \cup Names
  /\ "CredentialDecryptionError" \notin Requests

vars == <<requestVars, policyVars, targetVars, manifestVars, sourceVars, reconciliationVars, scene>>

-----------------------------------------------------------------------------
(* An instance nobody claimed yet, and one in use: a workspace with an admin *)
(* token and a token for everything else, a policy at revision 1, a target   *)
(* with a finished snapshot, a scanned collection, a config, and a finished  *)
(* build with its manifest; and a second workspace, as two bootstraps that   *)
(* overlap leave it, with a token and a collection of the same namespace     *)
(* that was not scanned yet.                                                 *)

ASSUME ScannedAssumption == Seed \in Scanned

OtherScopes == {"sources", "builds", "targets", "snapshots", "reconciliations", "policies"}

FreshInstance ==
  /\ users = {} /\ workspaces = <<>> /\ tokens = <<>>
  /\ policies = <<>> /\ revisions = {}
  /\ targets = <<>> /\ snapshots = <<>>
  /\ manifests = <<>> /\ builds = <<>>
  /\ collections = <<>> /\ configs = <<>>
  /\ assets = [c \in Scanned |-> <<>>] /\ versions = {}

Only(row) == [x \in {Seed} |-> row]

Some(S) == CHOOSE x \in S : TRUE

UsedInstance ==
  /\ users = {"a", "b"}
  /\ workspaces = [ws \in {Seed, "second"} |-> IF ws = Seed THEN "a" ELSE "b"]
  /\ tokens = [t \in {"admin", "other", "guest"} |->
       CASE t = "admin" -> Token(Seed, {"admin"}, "null")
         [] t = "other" -> Token(Seed, OtherScopes, "null")
         [] t = "guest" -> Token("second", {"admin"}, "null")]
  /\ policies = Only([ws |-> Seed, name |-> Some(PolicyNames)])
  /\ revisions = {Revision(Seed, Seed, 1, Some(Documents))}
  /\ \E endpoint \in {Some({e \in Endpoints : url_allowed(e)})} :
       targets = Only([ws |-> Seed, endpoint_redacted |-> endpoint,
                       allowlist_decision |-> decision(endpoint),
                       credential_ciphertext |-> [credential |-> Seed, key_id |-> 1],
                       credential_key_id |-> 1, credential_version |-> 1])
  /\ \E capture \in IF "reconciliation.evaluate" \in scene.ops THEN Captures ELSE {Some(Captures)} :
       snapshots = Only([ws |-> Seed, target |-> Seed, artifact_ref |-> "set", capture |-> capture])
  /\ manifests = Only([ws |-> Seed, manifest_hash |-> Some(Hashes),
                       artifact_ref |-> Envelope(Some(Hashes), {}), signed |-> FALSE])
  /\ builds = Only([ws |-> Seed, collection |-> Seed, config |-> Seed, state |-> "completed",
                    manifest_hash |-> Some(Hashes), existing |-> FALSE])
  /\ collections = [c \in {Seed, "second"} |-> [ws |-> c, namespace |-> Some(Namespaces)]]
  /\ configs = Only([ws |-> Seed, hash |-> Some(ConfigHashes)])
  /\ assets = [c \in Scanned |-> IF c = Seed THEN [f \in Present(c) |-> "active"] ELSE <<>>]
  /\ versions = {Version(Seed, f, tree[Seed][f]) : f \in Present(Seed)}

Init ==
  /\ req = [r \in Requests |-> NewRequest]
  /\ audit = {}
  /\ signatures = {} /\ keyFile = 1
  /\ tree = [c \in Scanned |->
                [f \in Files |-> IF \A g \in Files : f <= g THEN Some(Contents) ELSE "gone"]]
  /\ scans = <<>> /\ edits = 0
  /\ keyring = {1}
  /\ reconciliations = <<>> /\ work = <<>>
  /\ findings = {} /\ evaluations = {} /\ reports = {}
  /\ scene \in Scenes
  /\ IF "auth.bootstrap" \in scene.ops THEN FreshInstance ELSE UsedInstance

-----------------------------------------------------------------------------
(* Build rows *)

\* Mutant: the config is found by its id alone
CreateBuildRead_any_config(r, c, p) ==
  /\ At(r, "authed", "build.create")
  /\ \/ collections[c].ws # req[r].ws /\ Refuse(r)
     \/ /\ collections[c].ws = req[r].ws
        /\ Loaded(r, [collection |-> c, config |-> p])
        /\ UNCHANGED <<users, workspaces, tokens, audit>>
  /\ UNCHANGED <<policyVars, targetVars, manifestVars, sourceVars, reconciliationVars>>

\* 404 for a collection or a config of another workspace
CreateBuildRead(r, c, p) ==
  /\ At(r, "authed", "build.create")
  /\ \/ (collections[c].ws # req[r].ws \/ configs[p].ws # req[r].ws) /\ Refuse(r)
     \/ /\ collections[c].ws = req[r].ws /\ configs[p].ws = req[r].ws
        /\ Loaded(r, [collection |-> c, config |-> p])
        /\ UNCHANGED <<users, workspaces, tokens, audit>>
  /\ UNCHANGED <<policyVars, targetVars, manifestVars, sourceVars, reconciliationVars>>

\* Collections and configs are never deleted: the foreign keys hold
create_build(r) ==
  /\ At(r, "ready", "build.create")
  /\ builds' = Insert(builds, r,
       [ws |-> req[r].ws, collection |-> req[r].seen.collection, config |-> req[r].seen.config,
        state |-> "pending", manifest_hash |-> None, existing |-> FALSE])
  /\ Commit(r, r)
  /\ UNCHANGED <<users, workspaces, tokens, policyVars, targetVars, manifests, signatures,
                 keyFile, sourceVars, reconciliationVars>>

BuildRowNext ==
  \E r \in Requests :
    \/ \E c \in DOMAIN collections, p \in DOMAIN configs : CreateBuildRead(r, c, p)
    \/ create_build(r)

\* Keys and files change, and reconciliations run, where the scene's operations
\* depend on them
InScene ==
  /\ edits' = edits \/ "source_collection.scan" \in scene.ops
  /\ keyFile' = keyFile \/ "manifest.sign" \in scene.ops
  /\ keyring' = keyring \/ "target.update" \in scene.ops
  /\ (\A x \in DOMAIN work' : work'[x].at = "idle") \/ "reconciliation.evaluate" \in scene.ops
  /\ Cardinality({r \in Requests : req'[r].pc # "new"}) <= scene.calls

Next ==
  /\ \/ /\ RequestNext(scene.ops)
        /\ UNCHANGED <<policyVars, targetVars, manifestVars, sourceVars, reconciliationVars>>
     \/ /\ PolicyNext
        /\ UNCHANGED <<targetVars, manifestVars, sourceVars, reconciliationVars>>
     \/ /\ TargetNext(Pinned)
        /\ UNCHANGED <<policyVars, manifestVars, sourceVars, reconciliationVars>>
     \/ /\ ManifestNext
        /\ UNCHANGED <<policyVars, targetVars, sourceVars, reconciliationVars>>
     \/ /\ SourceNext
        /\ UNCHANGED <<policyVars, targetVars, manifestVars, reconciliationVars>>
     \/ /\ ReconciliationNext
        /\ UNCHANGED <<policyVars, targetVars, manifestVars, sourceVars>>
     \/ BuildRowNext
  /\ InScene
  /\ UNCHANGED scene

Spec == Init /\ [][Next]_vars

-----------------------------------------------------------------------------
(* Properties *)

EventsOf(action) == {e \in audit : e.action = action}

\* What a reconciliation was created from stays: its snapshot, with an
\* artifact, the snapshot's target, its manifest, and the policy revision it
\* pinned, number and document alike, whatever is revised or deleted after
\* the request read them; what its job left is whole and of those inputs; the
\* revisions of a policy stay numbered 1, 2, ... when two edits read the same
\* latest one; and a target's credential opens under the key that sealed it.
ReferencesStand ==
  /\ RevisionsAreNumbered
  /\ RecordsAreWhole
  /\ CredentialsOpen
  /\ \A x \in DOMAIN reconciliations :
       LET row == reconciliations[x] IN
       /\ row.snapshot \in DOMAIN snapshots
       /\ snapshots[row.snapshot].artifact_ref = "set"
       /\ snapshots[row.snapshot].target \in DOMAIN targets
       /\ row.manifest \in DOMAIN manifests
       /\ row.revision # None => row.revision \in revisions

\* The workspace of the token a request was sent with
CallerOf(r) == tokens[req[r].tok].ws

\* The rows of a table that a step inserts, changes or deletes
Touched(old, new) ==
  {x \in DOMAIN old \cup DOMAIN new :
     x \in DOMAIN old /\ x \in DOMAIN new => old[x] # new[x]}

\* Such a row is, before and after, of workspace ws
TouchedIn(ws, old, new) ==
  \A x \in Touched(old, new) :
    (x \in DOMAIN old => old[x].ws = ws) /\ (x \in DOMAIN new => new[x].ws = ws)

\* The rows an operation's audit event names one of
NamedBy(op) ==
  CASE op = "workspace.update" -> [ws \in DOMAIN workspaces |-> [ws |-> ws]]
    [] op \in {"api_token.create", "api_token.revoke"} -> tokens
    [] op \in {"policy.create", "policy.revise"} -> policies
    [] op \in {"target.create", "target.update", "target.delete"} -> targets
    [] op = "snapshot.create" -> snapshots
    [] op = "manifest.sign" -> manifests
    [] op = "reconciliation.create" -> reconciliations
    [] op \in {"source_collection.create", "source_collection.scan"} -> collections
    [] op = "pipeline_config.create" -> configs
    [] op = "build.create" -> builds

\* A request that commits touches its caller's rows alone, and its event names
\* none of another workspace
CommitsApart(r) ==
  LET ws == CallerOf(r) IN
  /\ TouchedIn(ws, tokens, tokens') /\ TouchedIn(ws, policies, policies')
  /\ TouchedIn(ws, targets, targets') /\ TouchedIn(ws, snapshots, snapshots')
  /\ TouchedIn(ws, manifests, manifests') /\ TouchedIn(ws, builds, builds')
  /\ TouchedIn(ws, collections, collections') /\ TouchedIn(ws, configs, configs')
  /\ TouchedIn(ws, reconciliations, reconciliations')
  /\ \A v \in revisions' \ revisions : v.ws = ws
  /\ \A s \in signatures' \ signatures : manifests[s.manifest].ws = ws
  /\ \A e \in audit' \ audit :
       e.entity \in DOMAIN NamedBy(e.action) => NamedBy(e.action)[e.entity].ws = ws

\* Every row refers to rows of its own workspace, and those a token made, or
\* whose credential it set, are of the token's
RowsAreApart ==
  /\ \A e \in EventsOf("api_token.revoke") : tokens[e.entity].ws = CallerOf(e.request)
  /\ \A v \in revisions : policies[v.policy].ws = v.ws
  /\ \A t \in DOMAIN targets :
       LET caller == targets[t].credential_ciphertext.credential IN
       caller \in Requests => CallerOf(caller) = targets[t].ws
  /\ \A x \in DOMAIN snapshots : targets[snapshots[x].target].ws = snapshots[x].ws
  /\ \A b \in DOMAIN builds :
       {collections[builds[b].collection].ws, configs[builds[b].config].ws} = {builds[b].ws}
  /\ \A s \in signatures : CallerOf(s.by) = manifests[s.manifest].ws
  /\ \A x \in DOMAIN reconciliations :
       LET row == reconciliations[x] IN
       /\ {row.ws, manifests[row.manifest].ws, snapshots[row.snapshot].ws} = {CallerOf(x)}
       /\ row.revision # None => row.revision.ws = CallerOf(x)

\* Workspaces are apart, though handlers load rows by bare primary key and
\* identities such as names, documents and manifest hashes recur across
\* workspaces: whatever row a request inserts, changes or deletes, a deleted
\* target's snapshots among them, and whatever row its event names, the
\* columns it changes modelled or not, is of its token's own workspace; and
\* no row, of a build, snapshot, revision, signature or reconciliation,
\* refers to one of another workspace.  A source version is not among them:
\* its lookup crosses workspaces (Sources!CheckVersion).
WorkspacesAreApart ==
  [][/\ RowsAreApart'
     /\ \A r \in Requests :
          req[r].pc # "done" /\ req'[r].pc = "done" /\ req[r].op # "auth.bootstrap" => CommitsApart(r)]_vars

\* The rows requests inserted
Inserted(table) == DOMAIN table \cap Requests

\* The audit log and the tables tell the same story: every change a request
\* committed left its event, every event's change is there (or undone by a
\* later delete that has its own), and a request that was refused, failed or
\* found nothing to do left neither.
AuditTellsTheTruth ==
  /\ {e.request : e \in audit} = {r \in Requests : req[r].pc = "done"}
  /\ Inserted(tokens) = {e.entity : e \in EventsOf("auth.bootstrap") \cup EventsOf("api_token.create")}
  /\ {t \in DOMAIN tokens : tokens[t].revoked_at = "set"}
       \subseteq {e.entity : e \in EventsOf("api_token.revoke")}
  /\ Inserted(policies) = {e.entity : e \in EventsOf("policy.create")}
  /\ \A p \in DOMAIN policies :
       Cardinality(RevisionsOf(p)) = 1 + Cardinality({e \in EventsOf("policy.revise") : e.entity = p})
  /\ \A e \in EventsOf("target.delete") : e.entity \notin DOMAIN targets
  /\ Inserted(targets) = {e.entity : e \in EventsOf("target.create")}
                           \ {e.entity : e \in EventsOf("target.delete")}
  /\ {s.by : s \in signatures} = {e.request : e \in EventsOf("manifest.sign")}
  /\ Inserted(reconciliations) = {e.entity : e \in EventsOf("reconciliation.create")}
  /\ Inserted(collections) = {e.entity : e \in EventsOf("source_collection.create")}
  /\ Inserted(snapshots) \subseteq {e.entity : e \in EventsOf("snapshot.create")}
  /\ Inserted(configs) = {e.entity : e \in EventsOf("pipeline_config.create")}
  /\ Inserted(builds) = {e.entity : e \in EventsOf("build.create")}

\* Revoking a token is final: no request's own write to the row, such as the
\* last use of a request that had loaded it before, takes the revocation back,
\* and a request that arrives afterwards gets nowhere.
RevocationIsFinal ==
  [][\A t \in DOMAIN tokens : tokens[t].revoked_at = "set" =>
       /\ tokens'[t].revoked_at = "set"
       /\ \A r \in Requests : req[r].pc = "new" => req'[r].tok # t]_vars

=============================================================================
