--------------------------- MODULE RegistryProofs ---------------------------
(***************************************************************************)
(* Theorems about the server's registry, for any number of requests, rows, *)
(* keys, documents, files and attempts.  A handler's read and its commit   *)
(* are apart, so every part of the invariant says what is still true of    *)
(* the rows a request has loaded when it comes to write.                   *)
(***************************************************************************)
EXTENDS Registry, FiniteSetTheorems, TLAPS

-----------------------------------------------------------------------------
(* The inductive invariant *)

\* A row's id is never reused: the request that inserts it ends with that
Known(x) == x \in Requests => req[x].pc = "done"

\* What a request is at any step
Row(pc, op, tok, ws, seen) == [pc |-> pc, op |-> op, tok |-> tok, ws |-> ws, seen |-> seen]

RequestInv ==
  /\ DOMAIN req = Requests
  /\ \A r \in Requests : req[r] = Row(req[r].pc, req[r].op, req[r].tok, req[r].ws, req[r].seen)
  /\ \A r \in Requests : req[r].pc = "new" => req[r] = NewRequest

\* A request past authentication that is not the bootstrap
Called(r) == req[r].pc \in {"identified", "authed", "ready", "done"} /\ req[r].op # "auth.bootstrap"

TokenColumns == {"ws", "scopes", "expires_at", "revoked_at", "last_used_at"}

TokenInv ==
  /\ \A t \in DOMAIN tokens : t \in Requests \cup Names /\ Known(t) /\ DOMAIN tokens[t] = TokenColumns
  /\ \A r \in Requests : Called(r) =>
       /\ req[r].tok \in DOMAIN tokens
       /\ req[r].pc # "identified" => tokens[req[r].tok].ws = req[r].ws
  /\ \A r \in Requests : At(r, "ready", "api_token.revoke") =>
       req[r].seen.token \in DOMAIN tokens /\ tokens[req[r].seen.token].ws = req[r].ws
  /\ \A e \in audit : e.request \in Requests /\ req[e.request].pc = "done" /\ e.action = req[e.request].op
  /\ \A e \in EventsOf("api_token.revoke") :
       e.entity \in DOMAIN tokens /\ tokens[e.entity].ws = req[e.request].ws

PolicyInv ==
  /\ IsFiniteSet(revisions)
  /\ \A p \in DOMAIN policies : Known(p)
  /\ \A v \in revisions : v.policy \in DOMAIN policies /\ policies[v.policy].ws = v.ws
  /\ RevisionsAreNumbered
  /\ \A r \in Requests : At(r, "ready", "policy.revise") =>
       LET v == req[r].seen.revision IN
       /\ v.policy \in DOMAIN policies /\ policies[v.policy].ws = v.ws
       /\ v.number \in 1..(Cardinality(RevisionsOf(v.policy)) + 1)

TargetColumns ==
  {"ws", "endpoint_redacted", "allowlist_decision", "credential_ciphertext", "credential_key_id",
   "credential_version"}

\* A ciphertext that opens, of a credential a request of the workspace brought
Sealed(c, ws) ==
  /\ c.key_id \in keyring
  /\ c.credential \in Requests \cup Names
  /\ c.credential \in Requests =>
       Called(c.credential) /\ req[c.credential].pc = "done" /\ req[c.credential].ws = ws

\* The versions of the keys are 1, 2, ...
KeyInv == \E n \in Nat \ {0} : keyring = 1..n

TargetInv ==
  /\ KeyInv
  /\ \A t \in DOMAIN targets :
       Known(t) /\ DOMAIN targets[t] = TargetColumns /\ Sealed(targets[t].credential_ciphertext, targets[t].ws)
  /\ \A r \in Requests : req[r].pc = "ready" =>
       /\ req[r].op \in {"target.update", "target.delete", "snapshot.create"} =>
            LET t == req[r].seen.target IN Known(t) /\ (t \in DOMAIN targets => targets[t].ws = req[r].ws)
       /\ req[r].op = "target.update" =>
            LET row == req[r].seen.row  new == req[r].seen.new IN
            /\ DOMAIN row = TargetColumns /\ DOMAIN new = TargetColumns /\ new.ws = row.ws
            /\ \/ new.credential_ciphertext = row.credential_ciphertext
               \/ new.credential_ciphertext.credential = r /\ new.credential_ciphertext.key_id \in keyring

SnapshotColumns == {"ws", "target", "artifact_ref", "capture"}

SnapshotInv ==
  \A x \in DOMAIN snapshots :
    /\ Known(x) /\ DOMAIN snapshots[x] = SnapshotColumns /\ snapshots[x].artifact_ref \in {"null", "set"}
    /\ snapshots[x].target \in DOMAIN targets
    /\ targets[snapshots[x].target].ws = snapshots[x].ws

Mirrored(m, sigs) == \A s \in sigs : [manifest |-> m, key_id |-> s.key_id, by |-> s.by] \in signatures

\* An artifact is the envelope of its row's hash, and its signatures have rows
Whole(m, h, envelope) ==
  envelope = Envelope(h, envelope.signatures) /\ Mirrored(m, envelope.signatures)

BuildColumns == {"ws", "collection", "config", "state", "manifest_hash", "existing"}

BuildInv ==
  \A b \in DOMAIN builds :
    /\ Known(b) /\ DOMAIN builds[b] = BuildColumns
    /\ builds[b].state # "completed" => b \notin DOMAIN manifests
    /\ builds[b].state = "completed" \/ (builds[b].state = "selected" /\ builds[b].existing) =>
         ManifestOf(builds[b].ws, builds[b].manifest_hash) # {}

ManifestInv ==
  /\ DOMAIN manifests \subseteq DOMAIN builds
  /\ \A m, n \in DOMAIN manifests :
       manifests[m].ws = manifests[n].ws /\ manifests[m].manifest_hash = manifests[n].manifest_hash => m = n
  /\ \A m \in DOMAIN manifests :
       /\ DOMAIN manifests[m] = {"ws", "manifest_hash", "artifact_ref", "signed"}
       /\ Whole(m, manifests[m].manifest_hash, manifests[m].artifact_ref)
       /\ manifests[m].signed \in BOOLEAN
       /\ manifests[m].signed <=> manifests[m].artifact_ref.signatures # {}
  /\ \A s \in signatures :
       /\ s.manifest \in DOMAIN manifests /\ s.by \in Requests
       /\ Called(s.by) /\ req[s.by].pc = "done" /\ req[s.by].ws = manifests[s.manifest].ws
  /\ \A r \in Requests : At(r, "ready", "manifest.sign") =>
       LET m == req[r].seen.manifest IN
       /\ m \in DOMAIN manifests /\ manifests[m].ws = req[r].ws
       /\ Whole(m, manifests[m].manifest_hash, req[r].seen.envelope)

\* The rows a reconciliation row refers to, if its snapshot is there
Refers(row) ==
  /\ row.manifest \in DOMAIN manifests /\ manifests[row.manifest].ws = row.ws
  /\ row.snapshot \in DOMAIN snapshots =>
       snapshots[row.snapshot].artifact_ref = "set" /\ snapshots[row.snapshot].ws = row.ws
  /\ row.revision # None => row.revision \in revisions /\ row.revision.ws = row.ws

ReconciliationColumns == {"ws", "manifest", "snapshot", "revision", "state", "report_artifact"}

\* The report a reconciliation comes to, whichever attempt writes it
ReportOf(row) ==
  Report(manifests[row.manifest].manifest_hash, snapshots[row.snapshot].capture,
         IF row.revision = None THEN None ELSE row.revision.document)

ReconciliationInv ==
  /\ \A x \in DOMAIN reconciliations :
       LET row == reconciliations[x] IN
       /\ x \in Requests /\ Called(x) /\ req[x].pc = "done" /\ req[x].ws = row.ws
       /\ DOMAIN row = ReconciliationColumns
       /\ Refers(row) /\ row.snapshot \in DOMAIN snapshots
  /\ \A r \in Requests : At(r, "ready", "reconciliation.create") =>
       LET row == req[r].seen IN
       /\ DOMAIN row = ReconciliationColumns
       /\ row.ws = req[r].ws /\ row.state = "pending" /\ Refers(row) /\ Known(row.snapshot)

WorkInv ==
  /\ DOMAIN work = DOMAIN reconciliations
  /\ \A x \in DOMAIN work :
       /\ DOMAIN work[x] = {"attempts", "at", "inputs"}
       /\ work[x].at # "idle" => work[x].inputs = ReportOf(reconciliations[x])
       /\ work[x].at = "stored" => work[x].inputs \in reports
  /\ \A x \in DOMAIN reconciliations : reconciliations[x].state = "completed" =>
       reconciliations[x].report_artifact = ReportOf(reconciliations[x])
  /\ \A f \in findings : f.reconciliation \in DOMAIN reconciliations
  /\ \A e \in evaluations : e.reconciliation \in DOMAIN reconciliations
  /\ RecordsAreWhole

\* A collection and a config that a build of workspace ws may refer to
Uses(c, p, ws) ==
  /\ c \in DOMAIN collections /\ collections[c].ws = ws
  /\ p \in DOMAIN configs /\ configs[p].ws = ws

\* What a request is about to insert is its own workspace's, and so is what
\* that refers to
Own(r) ==
  /\ req[r].op = "policy.revise" => req[r].seen.revision.ws = req[r].ws
  /\ req[r].op \in {"source_collection.create", "pipeline_config.create"} => req[r].seen.ws = req[r].ws
  /\ req[r].op = "build.create" => Uses(req[r].seen.collection, req[r].seen.config, req[r].ws)

OwnInv ==
  /\ \A c \in DOMAIN collections : Known(c)
  /\ \A p \in DOMAIN configs : Known(p)
  /\ \A b \in DOMAIN builds : Uses(builds[b].collection, builds[b].config, builds[b].ws)
  /\ \A r \in Requests : req[r].pc = "ready" => Own(r)

RegistryInv ==
  /\ RequestInv /\ TokenInv /\ PolicyInv /\ TargetInv /\ SnapshotInv
  /\ BuildInv /\ ManifestInv /\ ReconciliationInv /\ WorkInv /\ OwnInv
-----------------------------------------------------------------------------
(* Steps of requests *)

Becomes(r, q) == req' = [x \in Requests |-> IF x = r THEN q ELSE req[x]]

\* Answered without a change
Ended(a) == Row(a, "none", None, None, NoRows)

\* One step further, for the same caller
With(r, pc, seen) == Row(pc, req[r].op, req[r].tok, req[r].ws, seen)

\* What a handler of one of these operations may do to the requests' own tables
HandlerStep(ops) ==
  /\ UNCHANGED <<users, workspaces, tokens>>
  /\ \/ req' = req /\ audit' = audit
     \/ \E r \in Requests :
          /\ req[r].pc \in {"authed", "ready"} /\ req[r].op \in ops
          /\ \/ \E a \in {"same", "refused", "failed"} : Becomes(r, Ended(a)) /\ audit' = audit
             \/ \E rows : Becomes(r, With(r, "ready", rows)) /\ audit' = audit
             \/ \E entity : Becomes(r, With(r, "done", NoRows)) /\ record(r, entity)

\* What a step leaves alone that is none of these operations'
Foreign(ops) ==
  \A x \in Requests :
    req[x].pc = "done" \/ (req'[x].pc = "ready" /\ req'[x].op \in ops) => req'[x] = req[x]

\* The fields of a row
LEMMA RowFields ==
  ASSUME NEW pc, NEW op, NEW tok, NEW ws, NEW seen
  PROVE  /\ Row(pc, op, tok, ws, seen).pc = pc /\ Row(pc, op, tok, ws, seen).op = op
         /\ Row(pc, op, tok, ws, seen).tok = tok /\ Row(pc, op, tok, ws, seen).ws = ws
         /\ Row(pc, op, tok, ws, seen).seen = seen
BY DEF Row

\* An answer ends the request, a read takes it one step further
LEMMA AnswerForms ==
  ASSUME RequestInv, NEW r \in Requests
  PROVE  /\ \A a \in {"same", "refused", "failed"} : Answer(r, a) => Becomes(r, Ended(a))
         /\ Answer(r, "done") => Becomes(r, With(r, "done", NoRows))
         /\ \A rows : Loaded(r, rows) => Becomes(r, With(r, "ready", rows))
<1> DEFINE q == req[r]
<1>1. DOMAIN req = Requests /\ q = Row(q.pc, q.op, q.tok, q.ws, q.seen)
  BY DEF RequestInv
<1>2. \A a : [NewRequest EXCEPT !.pc = a] = Ended(a)
  BY DEF NewRequest, Ended, Row
<1>3. ASSUME NEW a, NEW rows
      PROVE  [q EXCEPT !.pc = a, !.seen = rows] = With(r, a, rows)
  <2>1. PICK pc, op, tok, ws, seen : q = Row(pc, op, tok, ws, seen)
    BY <1>1
  <2>2. op = q.op /\ tok = q.tok /\ ws = q.ws
    BY <2>1, RowFields
  <2>3. [Row(pc, op, tok, ws, seen) EXCEPT !.pc = a] = Row(a, op, tok, ws, seen)
    BY DEF Row
  <2>4. [Row(a, op, tok, ws, seen) EXCEPT !.seen = rows] = Row(a, op, tok, ws, rows)
    BY DEF Row
  <2> QED BY ONLY <2>1, <2>2, <2>3, <2>4 DEF With
<1>5. ASSUME NEW a \in {"same", "refused", "failed"}, Answer(r, a) PROVE Becomes(r, Ended(a))
  BY <1>1, <1>2, <1>5 DEF Answer, Becomes
<1>6. ASSUME Answer(r, "done") PROVE Becomes(r, With(r, "done", NoRows))
  BY <1>1, <1>3, <1>6 DEF Answer, Becomes
<1>7. ASSUME NEW rows, Loaded(r, rows) PROVE Becomes(r, With(r, "ready", rows))
  <2>1. req' = [req EXCEPT ![r] = [@ EXCEPT !.pc = "ready", !.seen = rows]]
    BY <1>1, <1>7 DEF Loaded, Row
  <2> QED BY <1>1, <1>3, <2>1 DEF Becomes
<1> QED BY <1>5, <1>6, <1>7
\* One request moves, the others stay
LEMMA BecomesFacts ==
  ASSUME NEW r \in Requests, NEW q, Becomes(r, q)
  PROVE  DOMAIN req' = Requests /\ req'[r] = q /\ \A x \in Requests \ {r} : req'[x] = req[x]
BY DEF Becomes

\* A handler that refuses, finds nothing to do, reads, or commits, is a step
\* of a handler
LEMMA HandlerForms ==
  ASSUME RequestInv, NEW r \in Requests, NEW ops, req[r].pc \in {"authed", "ready"}, req[r].op \in ops
  PROVE  /\ Refuse(r) \/ Nothing(r) \/ RollBack(r) => HandlerStep(ops)
         /\ \A rows : Loaded(r, rows) /\ UNCHANGED <<users, workspaces, tokens, audit>> => HandlerStep(ops)
         /\ \A entity : Commit(r, entity) /\ UNCHANGED <<users, workspaces, tokens>> => HandlerStep(ops)
<1>1. ASSUME Refuse(r) \/ Nothing(r) \/ RollBack(r) PROVE HandlerStep(ops)
  <2>1. \E a \in {"same", "refused", "failed"} : Becomes(r, Ended(a))
    BY <1>1, AnswerForms DEF Refuse, Nothing, RollBack
  <2>2. UNCHANGED <<users, workspaces, tokens, audit>>
    BY <1>1 DEF Refuse, Nothing, RollBack
  <2> QED BY <2>1, <2>2 DEF HandlerStep
<1>2. ASSUME NEW rows, Loaded(r, rows), UNCHANGED <<users, workspaces, tokens, audit>> PROVE HandlerStep(ops)
  <2>1. Becomes(r, With(r, "ready", rows))
    BY <1>2, AnswerForms
  <2> QED BY <1>2, <2>1 DEF HandlerStep
<1>3. ASSUME NEW entity, Commit(r, entity), UNCHANGED <<users, workspaces, tokens>> PROVE HandlerStep(ops)
  <2>1. Becomes(r, With(r, "done", NoRows)) /\ record(r, entity)
    BY <1>3, AnswerForms DEF Commit
  <2> QED BY <1>3, <2>1 DEF HandlerStep
<1> QED BY <1>1, <1>2, <1>3

\* A handler's step is none of the other operations'
LEMMA HandlerIsForeign ==
  ASSUME RequestInv, NEW ops, NEW others, ops \cap others = {}, HandlerStep(ops)
  PROVE  Foreign(others)
<1>1. CASE req' = req
  BY <1>1 DEF Foreign
<1>2. ASSUME NEW r \in Requests, req[r].pc \in {"authed", "ready"}, req[r].op \in ops,
             NEW q, Becomes(r, q), q.pc = "ready" => q.op = req[r].op
      PROVE  Foreign(others)
  BY <1>2, BecomesFacts DEF Foreign
<1>3. \A a : Ended(a).pc = a
  BY RowFields DEF Ended
<1>4. \A r, pc, seen : With(r, pc, seen).op = req[r].op
  BY RowFields DEF With
<1>5. ASSUME NEW r \in Requests, req[r].pc \in {"authed", "ready"}, req[r].op \in ops,
             \/ \E a \in {"same", "refused", "failed"} : Becomes(r, Ended(a))
             \/ \E rows : Becomes(r, With(r, "ready", rows))
             \/ Becomes(r, With(r, "done", NoRows))
      PROVE  Foreign(others)
  <2>1. ASSUME NEW a \in {"same", "refused", "failed"}, Becomes(r, Ended(a)) PROVE Foreign(others)
    <3>1. Ended(a).pc # "ready"
      BY <1>3
    <3> QED BY <1>2, <1>5, <2>1, <3>1
  <2>2. ASSUME NEW rows, Becomes(r, With(r, "ready", rows)) PROVE Foreign(others)
    BY <1>2, <1>4, <1>5, <2>2
  <2>3. ASSUME Becomes(r, With(r, "done", NoRows)) PROVE Foreign(others)
    BY <1>2, <1>4, <1>5, <2>3
  <2> QED BY <1>5, <2>1, <2>2, <2>3
<1> QED BY <1>1, <1>5 DEF HandlerStep

\* Requests keep their form
LEMMA RequestsKept ==
  ASSUME RequestInv, NEW r \in Requests, NEW pc, NEW op, NEW tok, NEW ws, NEW seen,
         Becomes(r, Row(pc, op, tok, ws, seen)), pc # "new"
  PROVE  RequestInv'
<1> DEFINE q == Row(pc, op, tok, ws, seen)
<1>1. DOMAIN req' = Requests /\ req'[r] = q /\ \A x \in Requests \ {r} : req'[x] = req[x]
  BY BecomesFacts
<1>2. q = Row(q.pc, q.op, q.tok, q.ws, q.seen) /\ q.pc # "new"
  BY DEF Row
<1>3. ASSUME NEW x \in Requests
      PROVE  /\ req'[x] = Row(req'[x].pc, req'[x].op, req'[x].tok, req'[x].ws, req'[x].seen)
             /\ req'[x].pc = "new" => req'[x] = NewRequest
  <2>1. CASE x = r
    BY <1>1, <1>2, <2>1
  <2>2. CASE x # r
    BY <1>1, <2>2 DEF RequestInv
  <2> QED BY <2>1, <2>2
<1> QED BY <1>1, <1>3 DEF RequestInv, NewRequest, NoRows

\* A handler keeps the form of the requests
LEMMA HandlerRequests ==
  ASSUME RequestInv, NEW ops, HandlerStep(ops)
  PROVE  RequestInv'
<1>1. CASE req' = req
  BY <1>1 DEF RequestInv, NewRequest, NoRows
<1>2. ASSUME NEW r \in Requests, NEW a \in {"same", "refused", "failed"}, Becomes(r, Ended(a)) PROVE RequestInv'
  BY <1>2, RequestsKept DEF Ended
<1>3. ASSUME NEW r \in Requests, NEW rows, Becomes(r, With(r, "ready", rows)) PROVE RequestInv'
  BY <1>3, RequestsKept DEF With
<1>4. ASSUME NEW r \in Requests, Becomes(r, With(r, "done", NoRows)) PROVE RequestInv'
  BY <1>4, RequestsKept DEF With
<1> QED BY <1>1, <1>2, <1>3, <1>4 DEF HandlerStep
\* Ids stay known, and what is done stays done
LEMMA KnownStays ==
  ASSUME NEW ops, Foreign(ops)
  PROVE  /\ \A x : Known(x) => Known(x)'
         /\ \A x \in Requests : req[x].pc = "done" => req'[x] = req[x]
         /\ \A x \in Requests, op \in ops : At(x, "ready", op)' => req'[x] = req[x] /\ At(x, "ready", op)
<1>1. \A x \in Requests : req[x].pc = "done" => req'[x] = req[x]
  BY DEF Foreign
<1>2. \A x : Known(x) => Known(x)'
  BY <1>1 DEF Known
<1>3. \A x \in Requests, op \in ops : At(x, "ready", op)' => req'[x] = req[x] /\ At(x, "ready", op)
  BY DEF Foreign, At
<1> QED BY <1>1, <1>2, <1>3

TokenOps == {"auth.bootstrap", "api_token.create", "api_token.revoke"}

\* The token facts do not depend on the other handlers
LEMMA HandlerTokens ==
  ASSUME RequestInv, TokenInv, NEW ops, ops \cap TokenOps = {}, HandlerStep(ops)
  PROVE  TokenInv'
<1>1. tokens' = tokens
  BY DEF HandlerStep
<1>2. Foreign(TokenOps)
  BY HandlerIsForeign
<1>3. /\ \A x : Known(x) => Known(x)'
      /\ \A x \in Requests : req[x].pc = "done" => req'[x] = req[x]
      /\ \A x \in Requests : At(x, "ready", "api_token.revoke")' => req'[x] = req[x] /\ At(x, "ready", "api_token.revoke")
  BY <1>2, KnownStays DEF TokenOps
<1>4. \A t \in DOMAIN tokens' : t \in Requests \cup Names /\ Known(t)' /\ DOMAIN tokens'[t] = TokenColumns
  BY <1>1, <1>3 DEF TokenInv
<1>5. ASSUME NEW x \in Requests, Called(x)'
      PROVE  req'[x].tok \in DOMAIN tokens' /\ (req'[x].pc # "identified" => tokens'[req'[x].tok].ws = req'[x].ws)
  <2>1. CASE req'[x] = req[x]
    BY <1>1, <1>5, <2>1 DEF TokenInv, Called
  <2>2. CASE req'[x] # req[x]
    <3>1. PICK r \in Requests :
            /\ req[r].pc \in {"authed", "ready"} /\ req[r].op \in ops
            /\ \/ \E a \in {"same", "refused", "failed"} : Becomes(r, Ended(a))
               \/ \E rows : Becomes(r, With(r, "ready", rows))
               \/ Becomes(r, With(r, "done", NoRows))
      BY <2>2 DEF HandlerStep
    <3>2. x = r
      BY <2>2, <3>1, BecomesFacts
    <3>3. req'[r].pc \notin {"same", "refused", "failed"}
      BY <1>5, <3>2 DEF Called
    <3>4. \A a \in {"same", "refused", "failed"} : ~Becomes(r, Ended(a))
      BY <3>3, BecomesFacts, RowFields DEF Ended
    <3>5. PICK pc, rows : req'[r] = With(r, pc, rows)
      BY <3>1, <3>4, BecomesFacts
    <3>6. req'[r].op = req[r].op /\ req'[r].tok = req[r].tok /\ req'[r].ws = req[r].ws
      BY <3>5, RowFields DEF With
    <3>7. Called(r) /\ req[r].pc # "identified"
      BY <3>1 DEF Called, TokenOps
    <3> QED BY <1>1, <3>2, <3>6, <3>7 DEF TokenInv
  <2> QED BY <2>1, <2>2
<1>6. \A x \in Requests : At(x, "ready", "api_token.revoke")' =>
        req'[x].seen.token \in DOMAIN tokens' /\ tokens'[req'[x].seen.token].ws = req'[x].ws
  BY <1>1, <1>3 DEF TokenInv
<1>7. ASSUME NEW e \in audit'
      PROVE  /\ e.request \in Requests /\ req'[e.request].pc = "done" /\ e.action = req'[e.request].op
             /\ e.action = "api_token.revoke" =>
                  e.entity \in DOMAIN tokens' /\ tokens'[e.entity].ws = req'[e.request].ws
  <2>1. CASE e \in audit
    BY <1>1, <1>3, <2>1 DEF TokenInv, EventsOf
  <2>2. CASE e \notin audit
    <3>1. PICK r, entity :
            /\ r \in Requests /\ req[r].op \in ops /\ Becomes(r, With(r, "done", NoRows)) /\ record(r, entity)
      BY <2>2 DEF HandlerStep
    <3>2. e = [request |-> r, actor |-> req[r].tok, action |-> req[r].op, entity |-> entity]
      BY <2>2, <3>1 DEF record
    <3>3. req'[r].pc = "done" /\ req'[r].op = req[r].op
      BY <3>1, BecomesFacts, RowFields DEF With
    <3> QED BY <3>1, <3>2, <3>3 DEF TokenOps
  <2> QED BY <2>1, <2>2
<1> QED BY <1>4, <1>5, <1>6, <1>7 DEF TokenInv, EventsOf
-----------------------------------------------------------------------------
(* Requests: tokens *)

\* Rows of tokens are added by requests that end with that, and keep their
\* workspace
TokensGrow(r) ==
  /\ \A t \in DOMAIN tokens :
       t \in DOMAIN tokens' /\ tokens'[t].ws = tokens[t].ws /\ DOMAIN tokens'[t] = TokenColumns
  /\ \A t \in DOMAIN tokens' \ DOMAIN tokens : t = r /\ req'[r].pc = "done" /\ DOMAIN tokens'[t] = TokenColumns

\* A step of one request keeps the token facts if its own are right
LEMMA TokenStep ==
  ASSUME RequestInv, TokenInv, NEW r \in Requests, NEW q, Becomes(r, q), req[r].pc # "done", TokensGrow(r),
         Called(r)' => q.tok \in DOMAIN tokens' /\ (q.pc # "identified" => tokens'[q.tok].ws = q.ws),
         At(r, "ready", "api_token.revoke")' => q.seen.token \in DOMAIN tokens' /\ tokens'[q.seen.token].ws = q.ws,
         \/ audit' = audit
         \/ \E entity : /\ record(r, entity) /\ q.pc = "done" /\ q.op = req[r].op
                        /\ q.op = "api_token.revoke" => entity \in DOMAIN tokens' /\ tokens'[entity].ws = q.ws
  PROVE  TokenInv'
<1>1. req'[r] = q /\ \A x \in Requests \ {r} : req'[x] = req[x]
  BY BecomesFacts
<1>2. \A x : Known(x) => Known(x)'
  BY <1>1 DEF Known
<1>3. \A t \in DOMAIN tokens' : t \in Requests \cup Names /\ Known(t)' /\ DOMAIN tokens'[t] = TokenColumns
  <2>1. ASSUME NEW t \in DOMAIN tokens' PROVE t \in Requests \cup Names /\ Known(t)' /\ DOMAIN tokens'[t] = TokenColumns
    <3>1. CASE t \in DOMAIN tokens
      BY <1>2, <3>1 DEF TokenInv, TokensGrow
    <3>2. CASE t \notin DOMAIN tokens
      BY <3>2 DEF TokensGrow, Known
    <3> QED BY <3>1, <3>2
  <2> QED BY <2>1
<1>4. ASSUME NEW x \in Requests, Called(x)'
      PROVE  req'[x].tok \in DOMAIN tokens' /\ (req'[x].pc # "identified" => tokens'[req'[x].tok].ws = req'[x].ws)
  <2>1. CASE x = r
    BY <1>1, <1>4, <2>1
  <2>2. CASE x # r
    BY <1>1, <1>4, <2>2 DEF TokenInv, Called, TokensGrow
  <2> QED BY <2>1, <2>2
<1>5. ASSUME NEW x \in Requests, At(x, "ready", "api_token.revoke")'
      PROVE  req'[x].seen.token \in DOMAIN tokens' /\ tokens'[req'[x].seen.token].ws = req'[x].ws
  <2>1. CASE x = r
    BY <1>1, <1>5, <2>1
  <2>2. CASE x # r
    BY <1>1, <1>5, <2>2 DEF TokenInv, At, TokensGrow
  <2> QED BY <2>1, <2>2
<1>6. ASSUME NEW e \in audit'
      PROVE  /\ e.request \in Requests /\ req'[e.request].pc = "done" /\ e.action = req'[e.request].op
             /\ e.action = "api_token.revoke" =>
                  e.entity \in DOMAIN tokens' /\ tokens'[e.entity].ws = req'[e.request].ws
  <2>1. CASE e \in audit
    <3>1. e.request \in Requests /\ req[e.request].pc = "done"
      BY <2>1 DEF TokenInv
    <3>2. req'[e.request] = req[e.request]
      BY <1>1, <3>1
    <3> QED BY <2>1, <3>1, <3>2 DEF TokenInv, TokensGrow, EventsOf
  <2>2. CASE e \notin audit
    <3>1. PICK entity : /\ record(r, entity) /\ q.pc = "done" /\ q.op = req[r].op
                        /\ q.op = "api_token.revoke" => entity \in DOMAIN tokens' /\ tokens'[entity].ws = q.ws
      BY <2>2
    <3>2. e = [request |-> r, actor |-> req[r].tok, action |-> req[r].op, entity |-> entity]
      BY <2>2, <3>1 DEF record
    <3> QED BY <1>1, <3>1, <3>2
  <2> QED BY <2>1, <2>2
<1> QED BY <1>3, <1>4, <1>5, <1>6 DEF TokenInv, EventsOf

\* A table that is not written, a row that is inserted, a column that is set
LEMMA TokenWrites ==
  ASSUME TokenInv, NEW r \in Requests
  PROVE  /\ tokens' = tokens => TokensGrow(r)
         /\ \A ws, scopes, expires :
              /\ tokens' = Insert(tokens, r, Token(ws, scopes, expires)) /\ req'[r].pc = "done" /\ r \notin DOMAIN tokens
              => TokensGrow(r) /\ r \in DOMAIN tokens' /\ tokens'[r].ws = ws
         /\ \A t \in DOMAIN tokens :
              \/ tokens' = [tokens EXCEPT ![t].last_used_at = "set"]
              \/ tokens' = [tokens EXCEPT ![t].revoked_at = "set"]
              \/ tokens' = [tokens EXCEPT ![t].expires_at = "past"]
              => TokensGrow(r) /\ DOMAIN tokens' = DOMAIN tokens
<1>1. \A t \in DOMAIN tokens : DOMAIN tokens[t] = TokenColumns
  BY DEF TokenInv
<1>2. ASSUME tokens' = tokens PROVE TokensGrow(r)
  BY <1>1, <1>2 DEF TokensGrow
<1>3. ASSUME NEW ws, NEW scopes, NEW expires, tokens' = Insert(tokens, r, Token(ws, scopes, expires)),
             req'[r].pc = "done", r \notin DOMAIN tokens
      PROVE  TokensGrow(r) /\ r \in DOMAIN tokens' /\ tokens'[r].ws = ws
  <2>1. DOMAIN Token(ws, scopes, expires) = TokenColumns /\ Token(ws, scopes, expires).ws = ws
    BY DEF Token, TokenColumns
  <2>2. DOMAIN tokens' = DOMAIN tokens \cup {r} /\ tokens'[r] = Token(ws, scopes, expires)
        /\ \A t \in DOMAIN tokens : tokens'[t] = tokens[t]
    BY <1>3 DEF Insert
  <2> QED BY <1>1, <1>3, <2>1, <2>2 DEF TokensGrow
<1>4. ASSUME NEW t \in DOMAIN tokens,
             \/ tokens' = [tokens EXCEPT ![t].last_used_at = "set"]
             \/ tokens' = [tokens EXCEPT ![t].revoked_at = "set"]
             \/ tokens' = [tokens EXCEPT ![t].expires_at = "past"]
      PROVE  TokensGrow(r) /\ DOMAIN tokens' = DOMAIN tokens
  <2>1. DOMAIN tokens' = DOMAIN tokens /\ \A x \in DOMAIN tokens \ {t} : tokens'[x] = tokens[x]
    BY <1>4
  <2>2. DOMAIN tokens'[t] = TokenColumns /\ tokens'[t].ws = tokens[t].ws
    BY <1>1, <1>4 DEF TokenColumns
  <2> QED BY <1>1, <2>1, <2>2 DEF TokensGrow
<1> QED BY <1>2, <1>3, <1>4
\* A request that moves without one of these operations' rows
LEMMA MoveIsForeign ==
  ASSUME NEW r \in Requests, NEW q, Becomes(r, q), req[r].pc # "done", NEW ops, q.pc = "ready" => q.op \notin ops
  PROVE  Foreign(ops)
BY BecomesFacts DEF Foreign

\* Refused, without a trace
LEMMA EndStep ==
  ASSUME RequestInv, TokenInv, NEW r \in Requests, NEW a \in {"same", "refused", "failed"},
         Becomes(r, Ended(a)), req[r].pc # "done", TokensGrow(r), audit' = audit, NEW ops
  PROVE  RequestInv' /\ TokenInv' /\ Foreign(ops)
<1>1. Ended(a).pc = a
  BY RowFields DEF Ended
<1>2. req'[r].pc = a
  BY <1>1, BecomesFacts
<1>3. ~Called(r)' /\ ~At(r, "ready", "api_token.revoke")'
  BY <1>2 DEF Called, At
<1>4. TokenInv'
  BY <1>3, TokenStep
<1>5. RequestInv'
  BY RequestsKept DEF Ended
<1>6. Foreign(ops)
  BY <1>1, MoveIsForeign
<1> QED BY <1>4, <1>5, <1>6

\* authenticate writes nothing
LEMMA AuthenticateStep ==
  ASSUME RequestInv, TokenInv, NEW r \in Requests, NEW op, NEW t \in DOMAIN tokens, NEW ws, authenticate(r, op, t, ws),
         NEW ops
  PROVE  RequestInv' /\ TokenInv' /\ Foreign(ops)
<1> DEFINE q == Row("identified", op, t, ws, tokens[t])
<1>1. Becomes(r, q) /\ req[r].pc = "new" /\ tokens' = tokens /\ audit' = audit
  BY DEF authenticate, RequestInv, Becomes, Row
<1>2. q.pc = "identified" /\ q.tok = t
  BY RowFields
<1>3. req'[r] = q
  BY <1>1, BecomesFacts
<1>4. TokensGrow(r)
  BY <1>1, TokenWrites
<1>5. TokenInv'
  <2>1. ~At(r, "ready", "api_token.revoke")'
    BY <1>2, <1>3 DEF At
  <2> HIDE DEF q
  <2> QED BY <1>1, <1>2, <1>4, <2>1, TokenStep
<1>6. RequestInv'
  BY <1>1, RequestsKept
<1>7. Foreign(ops)
  <2> HIDE DEF q
  <2> QED BY <1>1, <1>2, MoveIsForeign
<1> QED BY <1>5, <1>6, <1>7

\* require_scope leaves a request whose workspace is its token's
LEMMA RequireScopeStep ==
  ASSUME RequestInv, TokenInv, NEW r \in Requests, require_scope(r), NEW ops
  PROVE  RequestInv' /\ TokenInv' /\ Foreign(ops)
<1> DEFINE q == With(r, "authed", NoRows)
           t == req[r].tok
<1>1. /\ req[r].pc = "identified" /\ audit' = audit
      /\ tokens' = [tokens EXCEPT ![t].last_used_at = "set"]
      /\ \/ tokens[t].ws = req[r].ws /\ req' = [req EXCEPT ![r].pc = "authed", ![r].seen = NoRows]
         \/ Answer(r, "refused")
  BY DEF require_scope
<1>2. \/ tokens[t].ws = req[r].ws /\ Becomes(r, q)
      \/ Becomes(r, Ended("refused"))
  <2>1. CASE Answer(r, "refused")
    BY <2>1, AnswerForms
  <2>2. CASE tokens[t].ws = req[r].ws /\ req' = [req EXCEPT ![r].pc = "authed", ![r].seen = NoRows]
    <3>1. DOMAIN req = Requests
      BY DEF RequestInv
    <3>2. PICK pc, op, tok, ws, seen : req[r] = Row(pc, op, tok, ws, seen)
      BY DEF RequestInv
    <3>3. op = req[r].op /\ tok = req[r].tok /\ ws = req[r].ws
      BY <3>2, RowFields
    <3>4. req' = [req EXCEPT ![r] = [@ EXCEPT !.pc = "authed", !.seen = NoRows]]
      BY <2>2, <3>1, <3>2 DEF Row
    <3>5. [Row(pc, op, tok, ws, seen) EXCEPT !.pc = "authed"] = Row("authed", op, tok, ws, seen)
      BY DEF Row
    <3>6. [Row("authed", op, tok, ws, seen) EXCEPT !.seen = NoRows] = Row("authed", op, tok, ws, NoRows)
      BY DEF Row
    <3>7. [req[r] EXCEPT !.pc = "authed", !.seen = NoRows] = q
      BY ONLY <3>2, <3>3, <3>5, <3>6 DEF With
    <3> QED BY <2>2, <3>1, <3>4, <3>7 DEF Becomes
  <2> QED BY <1>1, <2>1, <2>2
<1>3. TokensGrow(r)
  <2>1. CASE t \in DOMAIN tokens
    BY <1>1, <2>1, TokenWrites
  <2>2. CASE t \notin DOMAIN tokens
    <3>1. tokens' = [x \in DOMAIN tokens |-> tokens[x]]
      BY <1>1, <2>2
    <3> QED BY <3>1 DEF TokensGrow, TokenInv
  <2> QED BY <2>1, <2>2
<1>4. CASE Becomes(r, Ended("refused"))
  BY <1>1, <1>3, <1>4, EndStep
<1>5. CASE tokens[t].ws = req[r].ws /\ Becomes(r, q)
  <2>1. q.pc = "authed" /\ q.tok = t /\ q.ws = req[r].ws /\ q.op = req[r].op
    BY RowFields DEF With
  <2>2. req'[r] = q
    BY <1>5, BecomesFacts
  <2>3. ~At(r, "ready", "api_token.revoke")'
    BY <2>1, <2>2 DEF At
  <2>4. Foreign(ops)
    <3> HIDE DEF q
    <3> QED BY <1>1, <1>5, <2>1, MoveIsForeign
  <2>5. RequestInv'
    BY <1>5, RequestsKept DEF With
  <2>6. ASSUME Called(r)' PROVE t \in DOMAIN tokens' /\ tokens'[t].ws = req[r].ws
    <3>1. Called(r)
      BY <1>1, <2>1, <2>2, <2>6 DEF Called
    <3>2. t \in DOMAIN tokens
      BY <3>1 DEF TokenInv
    <3> QED BY <1>3, <1>5, <3>2 DEF TokensGrow
  <2>7. TokenInv'
    <3> HIDE DEF q
    <3> QED BY <1>1, <1>3, <1>5, <2>1, <2>3, <2>6, TokenStep
  <2> QED BY <2>4, <2>5, <2>7
<1> QED BY <1>2, <1>5, <1>4
\* bootstrap: the request becomes the id of its workspace and its token
LEMMA BootstrapStep ==
  ASSUME RequestInv, TokenInv, NEW r \in Requests, (\E email : BootstrapRead(r, email)) \/ bootstrap(r),
         NEW ops, ops \cap TokenOps = {}
  PROVE  RequestInv' /\ TokenInv' /\ Foreign(ops)
<1>1. CASE Refuse(r) /\ req[r].pc = "new"
  <2>1. Becomes(r, Ended("refused")) /\ tokens' = tokens /\ audit' = audit
    BY <1>1, AnswerForms DEF Refuse
  <2>2. TokensGrow(r)
    BY <2>1, TokenWrites
  <2> QED BY <1>1, <2>1, <2>2, EndStep
<1>2. ASSUME NEW email, req[r].pc = "new", UNCHANGED <<tokens, audit>>,
             req' = [req EXCEPT ![r].pc = "ready", ![r].op = "auth.bootstrap", ![r].seen = [email |-> email]]
      PROVE  RequestInv' /\ TokenInv' /\ Foreign(ops)
  <2> DEFINE q == Row("ready", "auth.bootstrap", None, None, [email |-> email])
  <2>1. DOMAIN req = Requests /\ req[r] = Row("new", "none", None, None, NoRows)
    BY <1>2 DEF RequestInv, NewRequest, Row
  <2>2. Becomes(r, q)
    BY <1>2, <2>1 DEF Becomes, Row
  <2>3. q.pc = "ready" /\ q.op = "auth.bootstrap" /\ req'[r] = q
    BY <2>2, RowFields, BecomesFacts
  <2>4. RequestInv'
    BY <2>2, RequestsKept
  <2>5. TokensGrow(r)
    BY <1>2, TokenWrites
  <2>6. ~Called(r)' /\ ~At(r, "ready", "api_token.revoke")'
    BY <2>3 DEF Called, At
  <2> HIDE DEF q
  <2>7. TokenInv'
    BY <1>2, <2>2, <2>5, <2>6, TokenStep
  <2>8. Foreign(ops)
    BY <1>2, <2>2, <2>3, MoveIsForeign DEF TokenOps
  <2> QED BY <2>4, <2>7, <2>8
<1>3. CASE bootstrap(r) /\ RollBack(r)
  <2>1. Becomes(r, Ended("failed")) /\ tokens' = tokens /\ audit' = audit /\ req[r].pc = "ready"
    BY <1>3, AnswerForms DEF RollBack, bootstrap, At
  <2>2. TokensGrow(r)
    BY <2>1, TokenWrites
  <2> QED BY <2>1, <2>2, EndStep
<1>4. CASE At(r, "ready", "auth.bootstrap") /\ tokens' = Insert(tokens, r, Token(r, {"admin"}, "null")) /\ Commit(r, r)
  <2> DEFINE q == With(r, "done", NoRows)
  <2>1. Becomes(r, q) /\ record(r, r)
    BY <1>4, AnswerForms DEF Commit
  <2>2. q.pc = "done" /\ q.op = req[r].op /\ req'[r] = q
    BY <2>1, RowFields, BecomesFacts DEF With
  <2>3. req[r].pc = "ready" /\ req[r].op = "auth.bootstrap"
    BY <1>4 DEF At
  <2>4. r \notin DOMAIN tokens
    BY <2>3 DEF TokenInv, Known
  <2>5. TokensGrow(r)
    BY <1>4, <2>2, <2>4, TokenWrites
  <2>6. ~Called(r)' /\ ~At(r, "ready", "api_token.revoke")'
    BY <2>2, <2>3 DEF Called, At
  <2>7. RequestInv'
    BY <2>1, RequestsKept DEF With
  <2> HIDE DEF q
  <2>8. TokenInv'
    BY <2>1, <2>2, <2>3, <2>5, <2>6, TokenStep
  <2>9. Foreign(ops)
    BY <2>1, <2>2, <2>3, MoveIsForeign
  <2> QED BY <2>7, <2>8, <2>9
<1>5. ASSUME NEW email, BootstrapRead(r, email) PROVE RequestInv' /\ TokenInv' /\ Foreign(ops)
  BY <1>1, <1>2, <1>5 DEF BootstrapRead
<1>6. CASE bootstrap(r)
  BY <1>3, <1>4, <1>6 DEF bootstrap
<1> QED BY <1>5, <1>6

\* The handlers for workspaces and tokens: a revocation is of the caller's workspace
LEMMA TokenHandlerStep ==
  ASSUME RequestInv, TokenInv, NEW r \in Requests, NEW ops, ops \cap (TokenOps \cup {"workspace.update"}) = {},
         \/ update_workspace(r)
         \/ \E scopes, expires : create_api_token(r, scopes, expires)
         \/ \E t \in DOMAIN tokens : RevokeRead(r, t)
         \/ revoke_api_token(r)
  PROVE  RequestInv' /\ TokenInv' /\ Foreign(ops)
<1>1. ASSUME req[r].pc \in {"authed", "ready"}, Refuse(r) \/ Nothing(r)
      PROVE  RequestInv' /\ TokenInv' /\ Foreign(ops)
  <2>1. PICK a \in {"same", "refused", "failed"} : Becomes(r, Ended(a))
    BY <1>1, AnswerForms DEF Refuse, Nothing
  <2>2. tokens' = tokens /\ audit' = audit
    BY <1>1 DEF Refuse, Nothing
  <2>3. TokensGrow(r)
    BY <2>2, TokenWrites
  <2> QED BY <1>1, <2>1, <2>2, <2>3, EndStep
<1>2. ASSUME NEW pc \in {"ready", "done"}, NEW rows, Becomes(r, With(r, pc, rows)),
             req[r].pc \in {"authed", "ready"}, req[r].op \in {"workspace.update", "api_token.create", "api_token.revoke"},
             TokensGrow(r),
             pc = "ready" => rows.token \in DOMAIN tokens /\ tokens[rows.token].ws = req[r].ws,
             \/ audit' = audit
             \/ \E entity : /\ record(r, entity) /\ pc = "done"
                            /\ req[r].op = "api_token.revoke" => entity \in DOMAIN tokens /\ tokens[entity].ws = req[r].ws
      PROVE  RequestInv' /\ TokenInv' /\ Foreign(ops)
  <2> DEFINE q == With(r, pc, rows)
  <2>1. /\ q.pc = pc /\ q.op = req[r].op /\ q.tok = req[r].tok /\ q.ws = req[r].ws /\ q.seen = rows
        /\ req'[r] = q
    BY <1>2, RowFields, BecomesFacts DEF With
  <2>2. RequestInv'
    BY <1>2, RequestsKept DEF With
  <2> HIDE DEF q
  <2>3. Foreign(ops)
    BY <1>2, <2>1, MoveIsForeign DEF TokenOps, q
  <2>4. Called(r) /\ req[r].pc # "identified"
    BY <1>2 DEF Called
  <2>5. q.tok \in DOMAIN tokens' /\ tokens'[q.tok].ws = q.ws
    BY <1>2, <2>1, <2>4 DEF TokenInv, TokensGrow
  <2>6. At(r, "ready", "api_token.revoke")' => q.seen.token \in DOMAIN tokens' /\ tokens'[q.seen.token].ws = q.ws
    BY <1>2, <2>1 DEF At, TokensGrow
  <2>7. \/ audit' = audit
        \/ \E entity : /\ record(r, entity) /\ q.pc = "done" /\ q.op = req[r].op
                       /\ q.op = "api_token.revoke" => entity \in DOMAIN tokens' /\ tokens'[entity].ws = q.ws
    BY <1>2, <2>1 DEF TokensGrow
  <2>8. TokenInv'
    BY <1>2, <2>5, <2>6, <2>7, TokenStep DEF q
  <2> QED BY <2>2, <2>3, <2>8
<1>3. ASSUME NEW entity, Commit(r, entity) PROVE Becomes(r, With(r, "done", NoRows)) /\ record(r, entity) /\ req'[r].pc = "done"
  BY <1>3, AnswerForms, BecomesFacts, RowFields DEF Commit, With
<1>4. CASE update_workspace(r)
  <2>1. req[r].pc = "authed" /\ req[r].op = "workspace.update" /\ tokens' = tokens /\ Commit(r, req[r].ws)
    BY <1>4 DEF update_workspace, At
  <2>2. TokensGrow(r)
    BY <2>1, TokenWrites
  <2> QED BY <1>2, <1>3, <2>1, <2>2
<1>5. ASSUME NEW scopes, NEW expires, create_api_token(r, scopes, expires)
      PROVE  RequestInv' /\ TokenInv' /\ Foreign(ops)
  <2>1. req[r].pc = "authed" /\ req[r].op = "api_token.create"
    BY <1>5 DEF create_api_token, At
  <2>2. CASE Refuse(r)
    BY <1>1, <2>1, <2>2
  <2>3. CASE tokens' = Insert(tokens, r, Token(req[r].ws, scopes, expires)) /\ Commit(r, r)
    <3>1. r \notin DOMAIN tokens
      BY <2>1 DEF TokenInv, Known
    <3>2. req'[r].pc = "done"
      BY <1>3, <2>3
    <3>3. TokensGrow(r)
      BY <2>3, <3>1, <3>2, TokenWrites
    <3> QED BY <1>2, <1>3, <2>1, <2>3, <3>3
  <2> QED BY <1>5, <2>2, <2>3 DEF create_api_token
<1>6. ASSUME NEW t \in DOMAIN tokens, RevokeRead(r, t) PROVE RequestInv' /\ TokenInv' /\ Foreign(ops)
  <2>1. req[r].pc = "authed" /\ req[r].op = "api_token.revoke"
    BY <1>6 DEF RevokeRead, At
  <2>2. CASE Refuse(r) \/ Nothing(r)
    BY <1>1, <2>1, <2>2
  <2>3. CASE tokens[t].ws = req[r].ws /\ Loaded(r, [token |-> t]) /\ UNCHANGED <<users, workspaces, tokens, audit>>
    <3>1. Becomes(r, With(r, "ready", [token |-> t]))
      BY <2>3, AnswerForms
    <3>2. TokensGrow(r)
      BY <2>3, TokenWrites
    <3>3. [token |-> t].token = t
      OBVIOUS
    <3> QED BY <1>2, <2>1, <2>3, <3>1, <3>2, <3>3
  <2> QED BY <1>6, <2>2, <2>3 DEF RevokeRead
<1>7. CASE revoke_api_token(r)
  <2> DEFINE t == req[r].seen.token
  <2>1. /\ At(r, "ready", "api_token.revoke") /\ req[r].pc = "ready" /\ req[r].op = "api_token.revoke"
        /\ tokens' = [tokens EXCEPT ![t].revoked_at = "set"] /\ Commit(r, t)
    BY <1>7 DEF revoke_api_token, At
  <2>2. t \in DOMAIN tokens /\ tokens[t].ws = req[r].ws
    BY <2>1 DEF TokenInv
  <2>3. TokensGrow(r)
    BY <2>1, <2>2, TokenWrites
  <2> HIDE DEF t
  <2> QED BY <1>2, <1>3, <2>1, <2>2, <2>3
<1> QED BY <1>4, <1>5, <1>6, <1>7
\* The clock
LEMMA TokenExpiresStep ==
  ASSUME RequestInv, TokenInv, NEW t \in DOMAIN tokens, TokenExpires(t), NEW ops
  PROVE  RequestInv' /\ TokenInv' /\ Foreign(ops)
<1>1. req' = req /\ audit' = audit /\ tokens' = [tokens EXCEPT ![t].expires_at = "past"]
  BY DEF TokenExpires
<1>2. RequestInv' /\ Foreign(ops)
  BY <1>1 DEF RequestInv, Foreign, NewRequest, NoRows
<1>3. DOMAIN tokens' = DOMAIN tokens /\ \A x \in DOMAIN tokens \ {t} : tokens'[x] = tokens[x]
  BY <1>1
<1>4. DOMAIN tokens'[t] = TokenColumns /\ tokens'[t].ws = tokens[t].ws
  BY <1>1 DEF TokenInv, TokenColumns
<1>5. \A x \in DOMAIN tokens : DOMAIN tokens'[x] = TokenColumns /\ tokens'[x].ws = tokens[x].ws
  BY <1>3, <1>4 DEF TokenInv
<1>6. TokenInv'
  BY <1>1, <1>3, <1>5 DEF TokenInv, Known, Called, At, EventsOf
<1> QED BY <1>2, <1>6

RequestOps == TokenOps \cup {"workspace.update"}

\* All of module Requests
LEMMA RequestNextStep ==
  ASSUME RequestInv, TokenInv, NEW called, RequestNext(called), NEW ops, ops \cap RequestOps = {}
  PROVE  RequestInv' /\ TokenInv' /\ Foreign(ops)
<1>1. ops \cap TokenOps = {}
  BY DEF RequestOps
<1>2. ASSUME NEW r \in Requests, RefuseUnknown(r) PROVE RequestInv' /\ TokenInv' /\ Foreign(ops)
  <2>1. Becomes(r, Ended("refused")) /\ tokens' = tokens /\ audit' = audit /\ req[r].pc = "new"
    BY <1>2, AnswerForms DEF RefuseUnknown, Refuse
  <2>2. TokensGrow(r)
    BY <2>1, TokenWrites
  <2> QED BY <2>1, <2>2, EndStep
<1>3. ASSUME NEW r \in Requests, \E op \in called \ {"auth.bootstrap"}, t \in DOMAIN tokens, ws \in DOMAIN workspaces :
                                   authenticate(r, op, t, ws)
      PROVE  RequestInv' /\ TokenInv' /\ Foreign(ops)
  BY <1>3, AuthenticateStep
<1>4. ASSUME NEW r \in Requests, require_scope(r) PROVE RequestInv' /\ TokenInv' /\ Foreign(ops)
  BY <1>4, RequireScopeStep
<1>5. ASSUME NEW r \in Requests, (\E email : BootstrapRead(r, email)) \/ bootstrap(r)
      PROVE  RequestInv' /\ TokenInv' /\ Foreign(ops)
  BY <1>1, <1>5, BootstrapStep
<1>6. ASSUME NEW r \in Requests,
             \/ update_workspace(r)
             \/ \E scopes, expires : create_api_token(r, scopes, expires)
             \/ \E t \in DOMAIN tokens : RevokeRead(r, t)
             \/ revoke_api_token(r)
      PROVE  RequestInv' /\ TokenInv' /\ Foreign(ops)
  BY <1>6, TokenHandlerStep DEF RequestOps
<1>7. ASSUME NEW t \in DOMAIN tokens, TokenExpires(t) PROVE RequestInv' /\ TokenInv' /\ Foreign(ops)
  BY <1>7, TokenExpiresStep
<1> QED BY <1>2, <1>3, <1>4, <1>5, <1>6, <1>7 DEF RequestNext

-----------------------------------------------------------------------------
(* The handlers of the other modules leave the requests' tables to HandlerStep *)

PolicyOps == {"policy.create", "policy.revise"}
TargetOps == {"target.create", "target.update", "target.delete", "snapshot.create"}
ManifestOps == {"manifest.sign", "manifest.verify"}
SourceOps == {"source_collection.create", "source_collection.scan", "pipeline_config.create"}
ReconciliationOps == {"reconciliation.create", "reconciliation.evaluate", "reconciliation.plan"}

\* What every such handler does: its guard names a step and an operation
LEMMA PolicyHandlers == ASSUME RequestInv, PolicyNext PROVE HandlerStep(PolicyOps)
<1>1. ASSUME NEW r \in Requests, NEW name, NEW document, CreatePolicyRead(r, name, document) PROVE HandlerStep(PolicyOps)
  BY <1>1, HandlerForms DEF CreatePolicyRead, At, PolicyOps
<1>2. ASSUME NEW r \in Requests, create_policy(r) PROVE HandlerStep(PolicyOps)
  BY <1>2, HandlerForms DEF create_policy, At, PolicyOps
<1>3. ASSUME NEW r \in Requests, NEW p, NEW document, CreateRevisionRead(r, p, document) PROVE HandlerStep(PolicyOps)
  BY <1>3, HandlerForms DEF CreateRevisionRead, At, PolicyOps
<1>4. ASSUME NEW r \in Requests, create_policy_revision(r) PROVE HandlerStep(PolicyOps)
  BY <1>4, HandlerForms DEF create_policy_revision, At, PolicyOps
<1> QED BY <1>1, <1>2, <1>3, <1>4 DEF PolicyNext

\* The handlers for targets and snapshot rows; a snapshot's job and a new key
\* touch no request
LEMMA TargetHandlers == ASSUME RequestInv, NEW pinned, TargetNext(pinned) PROVE HandlerStep(TargetOps)
<1>1. ASSUME NEW r \in Requests, NEW endpoint, create_target(r, endpoint) PROVE HandlerStep(TargetOps)
  BY <1>1, HandlerForms DEF create_target, At, TargetOps
<1>2. ASSUME NEW r \in Requests, NEW t, NEW changed, NEW endpoint, UpdateTargetRead(r, t, changed, endpoint)
      PROVE  HandlerStep(TargetOps)
  BY <1>2, HandlerForms DEF UpdateTargetRead, At, TargetOps
<1>3. ASSUME NEW r \in Requests, update_target(r) PROVE HandlerStep(TargetOps)
  BY <1>3, HandlerForms DEF update_target, At, TargetOps
<1>4. ASSUME NEW r \in Requests, NEW t, DeleteTargetRead(r, t) PROVE HandlerStep(TargetOps)
  BY <1>4, HandlerForms DEF DeleteTargetRead, At, TargetOps
<1>5. ASSUME NEW r \in Requests, delete_target(r, pinned) PROVE HandlerStep(TargetOps)
  BY <1>5, HandlerForms DEF delete_target, At, TargetOps
<1>6. ASSUME NEW r \in Requests, NEW t, CreateSnapshotRead(r, t) PROVE HandlerStep(TargetOps)
  BY <1>6, HandlerForms DEF CreateSnapshotRead, At, TargetOps
<1>7. ASSUME NEW r \in Requests, create_snapshot(r) PROVE HandlerStep(TargetOps)
  BY <1>7, HandlerForms DEF create_snapshot, At, TargetOps
<1>8. ASSUME NEW s, NEW capture, SnapshotStored(s, capture) PROVE HandlerStep(TargetOps)
  BY <1>8 DEF SnapshotStored, HandlerStep, requestVars
<1>9. ASSUME AddEncryptionKey PROVE HandlerStep(TargetOps)
  BY <1>9 DEF AddEncryptionKey, HandlerStep, requestVars
<1> QED BY <1>1, <1>2, <1>3, <1>4, <1>5, <1>6, <1>7, <1>8, <1>9 DEF TargetNext

\* The handlers for signatures; builds and the key file touch no request
LEMMA ManifestHandlers == ASSUME RequestInv, ManifestNext PROVE HandlerStep(ManifestOps)
<1>1. ASSUME NEW b, NEW h, SelectExisting(b, h) PROVE HandlerStep(ManifestOps)
  BY <1>1 DEF SelectExisting, HandlerStep, requestVars
<1>2. ASSUME NEW b, run_build_job(b) PROVE HandlerStep(ManifestOps)
  BY <1>2 DEF run_build_job, HandlerStep, requestVars
<1>3. ASSUME RotateKey PROVE HandlerStep(ManifestOps)
  BY <1>3 DEF RotateKey, HandlerStep, requestVars
<1>4. ASSUME NEW r \in Requests, NEW m, SignRead(r, m) PROVE HandlerStep(ManifestOps)
  BY <1>4, HandlerForms DEF SignRead, At, ManifestOps
<1>5. ASSUME NEW r \in Requests, NEW m, verify_manifest_endpoint(r, m) PROVE HandlerStep(ManifestOps)
  BY <1>5, HandlerForms DEF verify_manifest_endpoint, At, ManifestOps
<1>6. ASSUME NEW r \in Requests, sign_manifest_endpoint(r) PROVE HandlerStep(ManifestOps)
  BY <1>6, HandlerForms DEF sign_manifest_endpoint, At, ManifestOps
<1> QED BY <1>1, <1>2, <1>3, <1>4, <1>5, <1>6 DEF ManifestNext

\* The handlers for collections and configs; scans and edits touch no request
LEMMA SourceHandlers == ASSUME RequestInv, SourceNext PROVE HandlerStep(SourceOps)
<1>1. ASSUME NEW r \in Requests, NEW ns, NEW root_ok, CreateCollectionRead(r, ns, root_ok) PROVE HandlerStep(SourceOps)
  BY <1>1, HandlerForms DEF CreateCollectionRead, At, SourceOps
<1>2. ASSUME NEW r \in Requests, create_source_collection(r) PROVE HandlerStep(SourceOps)
  BY <1>2, HandlerForms DEF create_source_collection, At, SourceOps
<1>3. ASSUME NEW r \in Requests, NEW hash, CreateConfigRead(r, hash) PROVE HandlerStep(SourceOps)
  BY <1>3, HandlerForms DEF CreateConfigRead, At, SourceOps
<1>4. ASSUME NEW r \in Requests, create_pipeline_config(r) PROVE HandlerStep(SourceOps)
  BY <1>4, HandlerForms DEF create_pipeline_config, At, SourceOps
<1>5. ASSUME NEW r \in Requests, NEW c, scan_source_collection(r, c) PROVE HandlerStep(SourceOps)
  BY <1>5, HandlerForms DEF scan_source_collection, At, SourceOps
<1>6. ASSUME NEW s, Discover(s) \/ LoadAssets(s) \/ CheckVersion(s) \/ run_scan_job(s) PROVE HandlerStep(SourceOps)
  BY <1>6 DEF Discover, LoadAssets, CheckVersion, run_scan_job, HandlerStep, requestVars
<1>7. ASSUME NEW c, NEW f, NEW content, EditTree(c, f, content) PROVE HandlerStep(SourceOps)
  BY <1>7 DEF EditTree, HandlerStep, requestVars
<1> QED BY <1>1, <1>2, <1>3, <1>4, <1>5, <1>6, <1>7 DEF SourceNext

\* The handlers for reconciliations; their jobs touch no request
LEMMA ReconciliationHandlers == ASSUME RequestInv, ReconciliationNext PROVE HandlerStep(ReconciliationOps)
<1>1. ASSUME NEW r \in Requests, NEW m, NEW s, NEW p, CreateReconciliationRead(r, m, s, p) PROVE HandlerStep(ReconciliationOps)
  BY <1>1, HandlerForms DEF CreateReconciliationRead, At, ReconciliationOps
<1>2. ASSUME NEW r \in Requests, create_reconciliation(r) PROVE HandlerStep(ReconciliationOps)
  BY <1>2, HandlerForms DEF create_reconciliation, At, ReconciliationOps
<1>3. ASSUME NEW r \in Requests, NEW x, evaluate_policy_endpoint(r, x) PROVE HandlerStep(ReconciliationOps)
  BY <1>3, HandlerForms DEF evaluate_policy_endpoint, ReadReport, At, ReconciliationOps
<1>4. ASSUME NEW r \in Requests, NEW x, get_remediation_plan(r, x) PROVE HandlerStep(ReconciliationOps)
  BY <1>4, HandlerForms DEF get_remediation_plan, ReadReport, At, ReconciliationOps
<1>5. ASSUME NEW x, StartAttempt(x) \/ PutReport(x) \/ run_reconcile_job(x) \/ AbandonAttempt(x)
      PROVE  HandlerStep(ReconciliationOps)
  BY <1>5 DEF StartAttempt, PutReport, run_reconcile_job, AbandonAttempt, HandlerStep, requestVars
<1> QED BY <1>1, <1>2, <1>3, <1>4, <1>5 DEF ReconciliationNext

\* Build rows
LEMMA BuildRowHandlers == ASSUME RequestInv, BuildRowNext PROVE HandlerStep({"build.create"})
<1>1. ASSUME NEW r \in Requests, NEW c, NEW p, CreateBuildRead(r, c, p) PROVE HandlerStep({"build.create"})
  BY <1>1, HandlerForms DEF CreateBuildRead, At
<1>2. ASSUME NEW r \in Requests, create_build(r) PROVE HandlerStep({"build.create"})
  BY <1>2, HandlerForms DEF create_build, At
<1> QED BY <1>1, <1>2 DEF BuildRowNext
-----------------------------------------------------------------------------
(* Callers: what every other part rests on *)

\* Requests and tokens, whatever is called
CallInv == RequestInv /\ TokenInv

\* Every step is one of the modules', beside the others' tables
LEMMA CallStep == ASSUME CallInv, [Next]_vars PROVE CallInv'
<1> USE DEF CallInv
<1>1. ASSUME NEW ops, HandlerStep(ops), ops \cap TokenOps = {} PROVE CallInv'
  BY <1>1, HandlerRequests, HandlerTokens
<1>2. CASE RequestNext(scene.ops)
  <2>1. {} \cap RequestOps = {}
    OBVIOUS
  <2> QED BY <1>2, <2>1, RequestNextStep
<1>3. CASE PolicyNext
  BY <1>1, <1>3, PolicyHandlers DEF PolicyOps, TokenOps
<1>4. CASE TargetNext(Pinned)
  BY <1>1, <1>4, TargetHandlers DEF TargetOps, TokenOps
<1>5. CASE ManifestNext
  BY <1>1, <1>5, ManifestHandlers DEF ManifestOps, TokenOps
<1>6. CASE SourceNext
  BY <1>1, <1>6, SourceHandlers DEF SourceOps, TokenOps
<1>7. CASE ReconciliationNext
  BY <1>1, <1>7, ReconciliationHandlers DEF ReconciliationOps, TokenOps
<1>8. CASE BuildRowNext
  BY <1>1, <1>8, BuildRowHandlers DEF TokenOps
<1>9. CASE UNCHANGED vars
  <2>1. HandlerStep({})
    BY <1>9 DEF vars, requestVars, HandlerStep
  <2> QED BY <1>1, <2>1
<1> QED BY <1>2, <1>3, <1>4, <1>5, <1>6, <1>7, <1>8, <1>9 DEF Next

\* Both instances start with it
LEMMA CallInit == Init => CallInv
<1> SUFFICES ASSUME Init PROVE CallInv
  OBVIOUS
<1>1. req = [r \in Requests |-> NewRequest] /\ audit = {}
  BY DEF Init
<1>2. NewRequest = Row("new", "none", None, None, NoRows)
  BY DEF NewRequest, Row
<1>3. \A r \in Requests : req[r].pc = "new" /\ req[r] = Row(req[r].pc, req[r].op, req[r].tok, req[r].ws, req[r].seen)
  BY <1>1, <1>2, RowFields
<1>4. RequestInv
  BY <1>1, <1>3 DEF RequestInv
<1>5. \A t \in DOMAIN tokens : t \in Names /\ DOMAIN tokens[t] = TokenColumns
  <2>1. CASE FreshInstance
    BY <2>1 DEF FreshInstance
  <2>2. CASE UsedInstance
    <3>1. \A ws, scopes, expires : DOMAIN Token(ws, scopes, expires) = TokenColumns
      BY DEF Token, TokenColumns
    <3>2. DOMAIN tokens = {"admin", "other", "guest"}
      BY <2>2 DEF UsedInstance
    <3>3. \A t \in {"admin", "other", "guest"} : \E ws, scopes, expires : tokens[t] = Token(ws, scopes, expires)
      BY <2>2 DEF UsedInstance
    <3> QED BY <3>1, <3>2, <3>3 DEF Names
  <2> QED BY <2>1, <2>2 DEF Init
<1>6. \A t \in DOMAIN tokens : Known(t)
  BY <1>5, FreshIds DEF Known
<1>7. TokenInv
  BY <1>1, <1>3, <1>5, <1>6 DEF TokenInv, Called, At, EventsOf
<1> QED BY <1>4, <1>7 DEF CallInv

\* No column but revoked_at is ever set on a row with a revocation in it
LEMMA RevocationStep ==
  ASSUME CallInv, [Next]_vars, NEW t \in DOMAIN tokens, tokens[t].revoked_at = "set"
  PROVE  tokens'[t].revoked_at = "set" /\ \A r \in Requests : req[r].pc = "new" => req'[r].tok # t
<1>1. RequestInv /\ TokenInv
  BY DEF CallInv
<1>2. t # None /\ t \in Requests \cup Names /\ DOMAIN tokens[t] = TokenColumns
  BY <1>1, FreshIds DEF TokenInv
<1>3. \A r \in Requests : req[r].pc = "new" => req[r].tok = None
  BY <1>1 DEF RequestInv, NewRequest
<1> DEFINE Kept == tokens'[t].revoked_at = "set"
           Apart(r) == req[r].pc = "new" => req'[r].tok # t
<1>4. ASSUME NEW ops, HandlerStep(ops) PROVE Kept /\ \A r \in Requests : Apart(r)
  <2>1. tokens' = tokens
    BY <1>4 DEF HandlerStep
  <2>2. ASSUME NEW r \in Requests, req[r].pc = "new" PROVE req'[r] = req[r]
    BY <1>4, <2>2, BecomesFacts DEF HandlerStep
  <2> QED BY <1>2, <1>3, <2>1, <2>2
<1>5. ASSUME NEW r \in Requests, NEW q, Becomes(r, q), req[r].pc = "new" => q.tok # t PROVE \A x \in Requests : Apart(x)
  BY <1>2, <1>3, <1>5, BecomesFacts
<1>6. ASSUME NEW r \in Requests, \E a \in {"same", "refused", "failed"} : Becomes(r, Ended(a))
      PROVE  \A x \in Requests : Apart(x)
  <2>1. \A a : Ended(a).tok = None
    BY RowFields DEF Ended
  <2> QED BY <1>2, <1>5, <1>6, <2>1
<1>7. ASSUME NEW r \in Requests, Refuse(r) \/ Nothing(r) \/ RollBack(r) PROVE Kept /\ \A x \in Requests : Apart(x)
  <2>1. \E a \in {"same", "refused", "failed"} : Becomes(r, Ended(a))
    BY <1>1, <1>7, AnswerForms DEF Refuse, Nothing, RollBack
  <2>2. tokens' = tokens
    BY <1>7 DEF Refuse, Nothing, RollBack
  <2> QED BY <1>6, <2>1, <2>2
<1>8. ASSUME NEW r \in Requests, req[r].pc # "new", \E pc, rows : Becomes(r, With(r, pc, rows)) PROVE \A x \in Requests : Apart(x)
  BY <1>5, <1>8
<1>9. ASSUME NEW r \in Requests, NEW entity, Commit(r, entity), req[r].pc # "new" PROVE \A x \in Requests : Apart(x)
  BY <1>1, <1>8, <1>9, AnswerForms DEF Commit
<1>10. ASSUME NEW r \in Requests, req[r].pc # "done", NEW ws, NEW scopes, NEW expires,
              tokens' = Insert(tokens, r, Token(ws, scopes, expires))
       PROVE  Kept
  <2>1. t # r
    BY <1>1, <1>10 DEF TokenInv, Known
  <2> QED BY <1>10, <2>1 DEF Insert
<1>11. ASSUME NEW u,
              \/ tokens' = [tokens EXCEPT ![u].last_used_at = "set"]
              \/ tokens' = [tokens EXCEPT ![u].revoked_at = "set"]
              \/ tokens' = [tokens EXCEPT ![u].expires_at = "past"]
       PROVE  Kept
  BY <1>2, <1>11 DEF TokenColumns
<1>12. CASE RequestNext(scene.ops)
  <2>1. ASSUME NEW r \in Requests, RefuseUnknown(r) PROVE Kept /\ \A x \in Requests : Apart(x)
    BY <1>7, <2>1 DEF RefuseUnknown
  <2>2. ASSUME NEW r \in Requests, NEW op, NEW u \in DOMAIN tokens, NEW ws, authenticate(r, op, u, ws)
        PROVE  Kept /\ \A x \in Requests : Apart(x)
    <3>1. u # t /\ tokens' = tokens
      BY <2>2 DEF authenticate
    <3>2. Becomes(r, Row("identified", op, u, ws, tokens[u]))
      BY <1>1, <2>2 DEF authenticate, RequestInv, Becomes, Row
    <3>3. Row("identified", op, u, ws, tokens[u]).tok = u
      BY RowFields
    <3> QED BY <1>5, <3>1, <3>2, <3>3
  <2>3. ASSUME NEW r \in Requests, require_scope(r) PROVE Kept /\ \A x \in Requests : Apart(x)
    <3>1. req[r].pc # "new" /\ tokens' = [tokens EXCEPT ![req[r].tok].last_used_at = "set"]
      BY <2>3 DEF require_scope
    <3>2. \A x \in Requests \ {r} : req'[x] = req[x]
      BY <1>1, <2>3 DEF require_scope, Answer, RequestInv
    <3> QED BY <1>2, <1>3, <1>11, <3>1, <3>2
  <2>4. ASSUME NEW r \in Requests, NEW email, BootstrapRead(r, email) PROVE Kept /\ \A x \in Requests : Apart(x)
    <3>1. CASE Refuse(r)
      BY <1>7, <3>1
    <3>2. CASE req' = [req EXCEPT ![r].pc = "ready", ![r].op = "auth.bootstrap", ![r].seen = [email |-> email]]
               /\ tokens' = tokens /\ req[r].pc = "new"
      <4>1. req[r] = Row("new", "none", None, None, NoRows) /\ DOMAIN req = Requests
        BY <1>1, <3>2 DEF RequestInv, NewRequest, Row
      <4>2. Becomes(r, Row("ready", "auth.bootstrap", None, None, [email |-> email]))
        BY <3>2, <4>1 DEF Becomes, Row
      <4>3. Row("ready", "auth.bootstrap", None, None, [email |-> email]).tok = None
        BY RowFields
      <4> QED BY <1>2, <1>5, <3>2, <4>2, <4>3
    <3> QED BY <2>4, <3>1, <3>2 DEF BootstrapRead
  <2>5. ASSUME NEW r \in Requests, bootstrap(r) PROVE Kept /\ \A x \in Requests : Apart(x)
    <3>1. req[r].pc = "ready"
      BY <2>5 DEF bootstrap, At
    <3>2. CASE RollBack(r)
      BY <1>7, <3>2
    <3>3. CASE tokens' = Insert(tokens, r, Token(r, {"admin"}, "null")) /\ Commit(r, r)
      BY <1>9, <1>10, <3>1, <3>3
    <3> QED BY <2>5, <3>2, <3>3 DEF bootstrap
  <2>6. ASSUME NEW r \in Requests, update_workspace(r) PROVE Kept /\ \A x \in Requests : Apart(x)
    BY <1>9, <2>6 DEF update_workspace, At
  <2>7. ASSUME NEW r \in Requests, NEW scopes, NEW expires, create_api_token(r, scopes, expires)
        PROVE  Kept /\ \A x \in Requests : Apart(x)
    <3>1. req[r].pc = "authed"
      BY <2>7 DEF create_api_token, At
    <3>2. CASE Refuse(r)
      BY <1>7, <3>2
    <3>3. CASE tokens' = Insert(tokens, r, Token(req[r].ws, scopes, expires)) /\ Commit(r, r)
      BY <1>9, <1>10, <3>1, <3>3
    <3> QED BY <2>7, <3>2, <3>3 DEF create_api_token
  <2>8. ASSUME NEW r \in Requests, NEW u, RevokeRead(r, u) PROVE Kept /\ \A x \in Requests : Apart(x)
    <3>1. req[r].pc = "authed"
      BY <2>8 DEF RevokeRead, At
    <3>2. CASE Refuse(r) \/ Nothing(r)
      BY <1>7, <3>2
    <3>3. CASE Loaded(r, [token |-> u]) /\ tokens' = tokens
      <4>1. Becomes(r, With(r, "ready", [token |-> u]))
        BY <1>1, <3>3, AnswerForms
      <4> QED BY <1>8, <3>1, <3>3, <4>1
    <3> QED BY <2>8, <3>2, <3>3 DEF RevokeRead
  <2>9. ASSUME NEW r \in Requests, revoke_api_token(r) PROVE Kept /\ \A x \in Requests : Apart(x)
    <3>1. req[r].pc = "ready" /\ Commit(r, req[r].seen.token)
          /\ tokens' = [tokens EXCEPT ![req[r].seen.token].revoked_at = "set"]
      BY <2>9 DEF revoke_api_token, At
    <3> QED BY <1>9, <1>11, <3>1
  <2>10. ASSUME NEW u, TokenExpires(u) PROVE Kept /\ \A x \in Requests : Apart(x)
    BY <1>2, <1>3, <1>11, <2>10 DEF TokenExpires
  <2> QED BY <1>12, <2>1, <2>2, <2>3, <2>4, <2>5, <2>6, <2>7, <2>8, <2>9, <2>10 DEF RequestNext
<1>13. CASE PolicyNext \/ TargetNext(Pinned) \/ ManifestNext \/ SourceNext \/ ReconciliationNext \/ BuildRowNext
  BY <1>1, <1>4, <1>13, PolicyHandlers, TargetHandlers, ManifestHandlers, SourceHandlers, ReconciliationHandlers,
     BuildRowHandlers
<1>14. CASE UNCHANGED vars
  BY <1>2, <1>3, <1>14 DEF vars, requestVars
<1> QED BY <1>12, <1>13, <1>14 DEF Next

\* Revoking a token is final, for any number of requests and tokens: the last
\* use that another request commits afterwards writes one column only.
THEOREM RevocationStands == Spec => RevocationIsFinal
<1>1. CallInv /\ [Next]_vars => CallInv'
  BY CallStep
<1>2. CallInv /\ [Next]_vars =>
        [\A t \in DOMAIN tokens : tokens[t].revoked_at = "set" =>
           /\ tokens'[t].revoked_at = "set"
           /\ \A r \in Requests : req[r].pc = "new" => req'[r].tok # t]_vars
  BY RevocationStep
<1> QED BY <1>1, <1>2, CallInit, PTL DEF Spec, RevocationIsFinal
-----------------------------------------------------------------------------
(* Policies *)

\* RevisionsOf, of a given table
RevisionsIn(rows, p) == {v \in rows : v.policy = p}

\* Nobody else writes policies
LEMMA PolicyFrame ==
  ASSUME PolicyInv, Foreign(PolicyOps), UNCHANGED policyVars
  PROVE  PolicyInv'
<1>1. /\ \A x : Known(x) => Known(x)'
      /\ \A x \in Requests : At(x, "ready", "policy.revise")' => req'[x] = req[x] /\ At(x, "ready", "policy.revise")
  BY KnownStays DEF PolicyOps
<1>2. policies' = policies /\ revisions' = revisions
  BY DEF policyVars
<1>3. \A p : RevisionsOf(p)' = RevisionsOf(p)
  BY <1>2 DEF RevisionsOf
<1>4. RevisionsAreNumbered'
  BY <1>2, <1>3 DEF PolicyInv, RevisionsAreNumbered
<1>5. ASSUME NEW r \in Requests, At(r, "ready", "policy.revise")'
      PROVE  LET v == req'[r].seen.revision IN
             /\ v.policy \in DOMAIN policies' /\ policies'[v.policy].ws = v.ws
             /\ v.number \in 1..(Cardinality(RevisionsIn(revisions', v.policy)) + 1)
  BY <1>1, <1>2, <1>5 DEF PolicyInv, RevisionsOf, RevisionsIn
<1> QED BY <1>1, <1>2, <1>4, <1>5 DEF PolicyInv, RevisionsOf, RevisionsIn

\* The revisions of a policy are finitely many, and one has the highest number
LEMMA LatestRevision ==
  ASSUME PolicyInv, NEW p \in DOMAIN policies
  PROVE  /\ IsFiniteSet(RevisionsOf(p)) /\ Cardinality(RevisionsOf(p)) \in Nat /\ Cardinality(RevisionsOf(p)) > 0
         /\ latest_revision(p) \in RevisionsOf(p)
         /\ latest_revision(p).number \in 1..Cardinality(RevisionsOf(p))
         /\ \A v \in RevisionsOf(p) : v.number \in 1..Cardinality(RevisionsOf(p))
<1> DEFINE R == RevisionsOf(p)
           n == Cardinality(R)
<1>1. IsFiniteSet(R)
  BY FS_Subset DEF PolicyInv, RevisionsOf
<1>2. n \in Nat
  BY <1>1, FS_CardinalityType
<1>3. {v.number : v \in R} = 1..n /\ R # {}
  BY DEF PolicyInv, RevisionsAreNumbered
<1>4. n > 0
  BY <1>1, <1>2, <1>3, FS_EmptySet
<1>5. \A v \in R : v.number \in 1..n
  BY <1>3
<1>6. n \in 1..n
  BY <1>2, <1>4
<1> HIDE DEF R, n
<1>7. PICK v \in R : v.number = n
  BY <1>3, <1>6
<1>8. \A u \in R : u.number <= v.number
  BY <1>2, <1>5, <1>7
<1>9. latest_revision(p) \in R
  BY <1>7, <1>8 DEF latest_revision, R
<1> QED BY <1>1, <1>2, <1>4, <1>5, <1>9 DEF R, n

\* The acting request aside, nobody's rows change hands
LEMMA PolicyRows ==
  ASSUME RequestInv, PolicyInv, NEW r \in Requests, req[r].pc # "done", NEW q, Becomes(r, q), NEW v,
         \A p \in DOMAIN policies : p \in DOMAIN policies' /\ policies'[p] = policies[p],
         \A p \in DOMAIN policies' \ DOMAIN policies : p = r /\ q.pc = "done",
         revisions' \in {revisions, revisions \cup {v}},
         revisions' # revisions => v.policy \in DOMAIN policies' /\ policies'[v.policy].ws = v.ws,
         RevisionsAreNumbered',
         q.pc = "ready" /\ q.op = "policy.revise" =>
           LET u == q.seen.revision IN
           /\ u.policy \in DOMAIN policies /\ policies[u.policy].ws = u.ws
           /\ u.number \in 1..(Cardinality(RevisionsOf(u.policy)) + 1)
  PROVE  PolicyInv'
<1>1. req'[r] = q /\ \A x \in Requests \ {r} : req'[x] = req[x]
  BY BecomesFacts
<1>2. \A x : Known(x) => Known(x)'
  BY <1>1 DEF Known
<1>3. \A p \in DOMAIN policies' : Known(p)'
  BY <1>1, <1>2 DEF PolicyInv, Known
<1>4. IsFiniteSet(revisions')
  BY FS_AddElement DEF PolicyInv
<1>5. \A u \in revisions' : u.policy \in DOMAIN policies' /\ policies'[u.policy].ws = u.ws
  BY DEF PolicyInv
<1>6. ASSUME NEW p \in DOMAIN policies
      PROVE  /\ Cardinality(RevisionsOf(p)) \in Nat /\ Cardinality(RevisionsIn(revisions', p)) \in Nat
             /\ Cardinality(RevisionsOf(p)) <= Cardinality(RevisionsIn(revisions', p))
  <2>1. RevisionsOf(p) \subseteq RevisionsIn(revisions', p)
    BY DEF RevisionsOf, RevisionsIn
  <2>2. IsFiniteSet(RevisionsIn(revisions', p))
    BY <1>4, FS_Subset DEF RevisionsIn
  <2> QED BY <2>1, <2>2, FS_Subset, FS_CardinalityType
<1>7. ASSUME NEW x \in Requests, At(x, "ready", "policy.revise")'
      PROVE  LET u == req'[x].seen.revision IN
             /\ u.policy \in DOMAIN policies' /\ policies'[u.policy].ws = u.ws
             /\ u.number \in 1..(Cardinality(RevisionsIn(revisions', u.policy)) + 1)
  <2> DEFINE u == req'[x].seen.revision
  <2>1. u.policy \in DOMAIN policies /\ policies[u.policy].ws = u.ws
        /\ u.number \in 1..(Cardinality(RevisionsOf(u.policy)) + 1)
    <3>1. CASE x = r
      BY <1>1, <1>7, <3>1 DEF At
    <3>2. CASE x # r
      BY <1>1, <1>7, <3>2 DEF At, PolicyInv
    <3> QED BY <3>1, <3>2
  <2> HIDE DEF u
  <2>2. u.number \in 1..(Cardinality(RevisionsIn(revisions', u.policy)) + 1)
    BY <1>6, <2>1
  <2> QED BY <2>1, <2>2 DEF u
<1> QED BY <1>3, <1>4, <1>5, <1>7 DEF PolicyInv, RevisionsOf, RevisionsIn
\* A request that only reads, or gives up, leaves the policies as they are
LEMMA PolicyReads ==
  ASSUME RequestInv, PolicyInv, NEW r \in Requests, req[r].pc \in {"authed", "ready"}, UNCHANGED policyVars,
         \/ Refuse(r) \/ Nothing(r) \/ RollBack(r)
         \/ \E rows : /\ Loaded(r, rows)
                      /\ req[r].op = "policy.revise" =>
                           LET u == rows.revision IN
                           /\ u.policy \in DOMAIN policies /\ policies[u.policy].ws = u.ws
                           /\ u.number \in 1..(Cardinality(RevisionsOf(u.policy)) + 1)
  PROVE  PolicyInv'
<1>1. policies' = policies /\ revisions' = revisions
  BY DEF policyVars
<1>2. RevisionsAreNumbered'
  BY <1>1 DEF PolicyInv, RevisionsAreNumbered, RevisionsOf
<1>3. ASSUME NEW a \in {"same", "refused", "failed"}, Becomes(r, Ended(a)) PROVE PolicyInv'
  <2>1. Ended(a).pc # "ready"
    BY RowFields DEF Ended
  <2> QED BY <1>1, <1>2, <1>3, <2>1, PolicyRows
<1>4. ASSUME NEW rows, Loaded(r, rows),
             req[r].op = "policy.revise" =>
               LET u == rows.revision IN
               /\ u.policy \in DOMAIN policies /\ policies[u.policy].ws = u.ws
               /\ u.number \in 1..(Cardinality(RevisionsOf(u.policy)) + 1)
      PROVE  PolicyInv'
  <2> DEFINE q == With(r, "ready", rows)
  <2>1. Becomes(r, q)
    BY <1>4, AnswerForms
  <2>2. q.pc = "ready" /\ q.op = req[r].op /\ q.seen = rows
    BY RowFields DEF With
  <2> HIDE DEF q
  <2> QED BY <1>1, <1>2, <1>4, <2>1, <2>2, PolicyRows
<1>5. Refuse(r) \/ Nothing(r) \/ RollBack(r) => \E a \in {"same", "refused", "failed"} : Becomes(r, Ended(a))
  BY AnswerForms DEF Refuse, Nothing, RollBack
<1> QED BY <1>3, <1>4, <1>5

\* Policies: two edits of one policy cannot both take the next number
LEMMA PolicyStep == ASSUME RequestInv, PolicyInv, PolicyNext PROVE PolicyInv'
<1>1. ASSUME NEW r \in Requests, NEW name, NEW document, CreatePolicyRead(r, name, document) PROVE PolicyInv'
  <2>1. req[r].pc = "authed" /\ req[r].op = "policy.create" /\ UNCHANGED policyVars
    BY <1>1 DEF CreatePolicyRead, At
  <2>2. Refuse(r) \/ \E rows : Loaded(r, rows)
    BY <1>1 DEF CreatePolicyRead
  <2> QED BY <2>1, <2>2, PolicyReads
<1>2. ASSUME NEW r \in Requests, create_policy(r) PROVE PolicyInv'
  <2> DEFINE v == Revision(req[r].ws, r, 1, req[r].seen.document)
             row == [ws |-> req[r].ws, name |-> req[r].seen.name]
             q == With(r, "done", NoRows)
  <2>1. req[r].pc = "ready"
    BY <1>2 DEF create_policy, At
  <2>2. CASE RollBack(r) /\ UNCHANGED policyVars
    BY <2>1, <2>2, PolicyReads
  <2>3. CASE policies' = Insert(policies, r, row) /\ revisions' = revisions \cup {v} /\ Commit(r, r)
    <3>1. Becomes(r, q) /\ q.pc = "done"
      BY <2>3, AnswerForms, RowFields DEF Commit, With
    <3>2. r \notin DOMAIN policies
      BY <2>1 DEF PolicyInv, Known
    <3>3. DOMAIN policies' = DOMAIN policies \cup {r} /\ policies'[r] = row /\ \A p \in DOMAIN policies : policies'[p] = policies[p]
      BY <2>3, <3>2 DEF Insert
    <3>4. v.policy = r /\ v.ws = req[r].ws /\ v.number = 1 /\ row.ws = req[r].ws
      BY DEF Revision
    <3> HIDE DEF v, row, q
    <3>5. \A p \in DOMAIN policies : RevisionsIn(revisions', p) = RevisionsIn(revisions, p)
      BY <2>3, <3>2, <3>4 DEF RevisionsIn
    <3>6. RevisionsIn(revisions', r) = {v}
      BY <2>3, <3>2, <3>4 DEF RevisionsIn, PolicyInv
    <3>7. Cardinality({v}) = 1 /\ {u.number : u \in {v}} = 1..1
      BY <3>4, FS_Singleton
    <3>8. RevisionsAreNumbered'
      <4>1. ASSUME NEW p \in DOMAIN policies'
            PROVE  /\ {u.number : u \in RevisionsIn(revisions', p)} = 1..Cardinality(RevisionsIn(revisions', p))
                   /\ RevisionsIn(revisions', p) # {}
        <5>1. CASE p = r
          BY <3>6, <3>7, <5>1
        <5>2. CASE p # r
          <6>1. p \in DOMAIN policies
            BY <3>3, <5>2
          <6> QED BY <3>5, <6>1 DEF PolicyInv, RevisionsAreNumbered, RevisionsIn, RevisionsOf
        <5> QED BY <5>1, <5>2
      <4> QED BY <4>1 DEF RevisionsAreNumbered, RevisionsIn, RevisionsOf
    <3> QED BY <2>1, <2>3, <3>1, <3>3, <3>4, <3>8, PolicyRows
  <2> QED BY <1>2, <2>2, <2>3 DEF create_policy
<1>3. ASSUME NEW r \in Requests, NEW p \in DOMAIN policies, NEW document, CreateRevisionRead(r, p, document) PROVE PolicyInv'
  <2> DEFINE latest == latest_revision(p)
             v == Revision(req[r].ws, p, latest.number + 1, document)
  <2>1. req[r].pc = "authed" /\ UNCHANGED policyVars
    BY <1>3 DEF CreateRevisionRead, At
  <2>2. CASE Refuse(r) \/ Nothing(r)
    BY <2>1, <2>2, PolicyReads
  <2>3. CASE policies[p].ws = req[r].ws /\ Loaded(r, [revision |-> v])
    <3>1. Cardinality(RevisionsOf(p)) \in Nat /\ latest.number \in 1..Cardinality(RevisionsOf(p))
      BY LatestRevision
    <3>2. v.policy = p /\ v.ws = req[r].ws /\ v.number = latest.number + 1
      BY DEF Revision
    <3>3. [revision |-> v].revision = v
      OBVIOUS
    <3> HIDE DEF v, latest
    <3>4. v.number \in 1..(Cardinality(RevisionsOf(v.policy)) + 1)
      BY <3>1, <3>2
    <3> QED BY <2>1, <2>3, <3>2, <3>3, <3>4, PolicyReads
  <2> QED BY <1>3, <2>2, <2>3 DEF CreateRevisionRead
<1>4. ASSUME NEW r \in Requests, create_policy_revision(r) PROVE PolicyInv'
  <2> DEFINE v == req[r].seen.revision
             p == v.policy
             q == With(r, "done", NoRows)
             n == Cardinality(RevisionsIn(revisions, p))
  <2>1. req[r].pc = "ready" /\ At(r, "ready", "policy.revise") /\ policies' = policies
    BY <1>4 DEF create_policy_revision, At
  <2>2. CASE RollBack(r) /\ UNCHANGED revisions
    <3>1. UNCHANGED policyVars
      BY <2>1, <2>2 DEF policyVars
    <3> QED BY <2>1, <2>2, <3>1, PolicyReads
  <2>3. CASE ~RevisionTaken(v) /\ revisions' = revisions \cup {v} /\ Commit(r, p)
    <3>1. Becomes(r, q) /\ q.pc = "done"
      BY <2>3, AnswerForms, RowFields DEF Commit, With
    <3>2. p \in DOMAIN policies /\ policies[p].ws = v.ws /\ v.number \in 1..(n + 1)
      BY <2>1 DEF PolicyInv, RevisionsIn, RevisionsOf
    <3>3. \A u \in revisions : ~(u.policy = p /\ u.number = v.number)
      BY <2>3 DEF RevisionTaken
    <3> HIDE DEF v, p, q
    <3>4. IsFiniteSet(RevisionsIn(revisions, p)) /\ n \in Nat
      BY <3>2, LatestRevision DEF RevisionsIn, RevisionsOf
    <3>5. {u.number : u \in RevisionsIn(revisions, p)} = 1..n
      BY <3>2 DEF PolicyInv, RevisionsAreNumbered, RevisionsIn, RevisionsOf
    <3>6. v.number = n + 1 /\ v \notin RevisionsIn(revisions, p)
      <4>1. v.number \notin {u.number : u \in RevisionsIn(revisions, p)}
        BY <3>3 DEF RevisionsIn
      <4> HIDE DEF n
      <4> QED BY <3>2, <3>4, <3>5, <4>1
    <3>7. RevisionsIn(revisions', p) = RevisionsIn(revisions, p) \cup {v}
      BY <2>3 DEF RevisionsIn, p
    <3>8. Cardinality(RevisionsIn(revisions', p)) = n + 1
      BY <3>4, <3>6, <3>7, FS_AddElement
    <3>9. {u.number : u \in RevisionsIn(revisions', p)} = 1..(n + 1)
      <4> HIDE DEF n
      <4>1. {u.number : u \in RevisionsIn(revisions', p)} = {u.number : u \in RevisionsIn(revisions, p)} \cup {v.number}
        BY <3>7
      <4>2. 1..(n + 1) = (1..n) \cup {n + 1}
        BY <3>4
      <4> QED BY <3>5, <3>6, <4>1, <4>2
    <3>10. RevisionsAreNumbered'
      <4>1. ASSUME NEW x \in DOMAIN policies'
            PROVE  /\ {u.number : u \in RevisionsIn(revisions', x)} = 1..Cardinality(RevisionsIn(revisions', x))
                   /\ RevisionsIn(revisions', x) # {}
        <5>1. CASE x = p
          BY <3>7, <3>8, <3>9, <5>1
        <5>2. CASE x # p
          <6>1. RevisionsIn(revisions', x) = RevisionsIn(revisions, x)
            BY <2>3, <5>2 DEF RevisionsIn, p
          <6> QED BY <2>1, <6>1 DEF PolicyInv, RevisionsAreNumbered, RevisionsIn, RevisionsOf
        <5> QED BY <5>1, <5>2
      <4> QED BY <4>1 DEF RevisionsAreNumbered, RevisionsIn, RevisionsOf
    <3>11. v.policy = p
      BY DEF p
    <3> QED BY <2>1, <2>3, <3>1, <3>2, <3>10, <3>11, PolicyRows
  <2> QED BY <1>4, <2>2, <2>3 DEF create_policy_revision
<1> QED BY <1>1, <1>2, <1>3, <1>4 DEF PolicyNext
-----------------------------------------------------------------------------
(* Targets and snapshot rows *)

\* A key that seals is one that opens
LEMMA SealingKey == ASSUME KeyInv PROVE Max(keyring) \in keyring /\ keyring # {} /\ keyring \subseteq Nat
<1>1. PICK n \in Nat \ {0} : keyring = 1..n
  BY DEF KeyInv
<1>2. n \in keyring /\ \A y \in keyring : n >= y
  BY <1>1
<1>3. Max(keyring) \in keyring
  BY <1>2 DEF Max
<1> QED BY <1>1, <1>2, <1>3

\* What is sealed stays sealed
LEMMA SealedStays ==
  ASSUME \A x \in Requests : req[x].pc = "done" => req'[x] = req[x], keyring \subseteq keyring',
         NEW c, NEW ws, Sealed(c, ws)
  PROVE  Sealed(c, ws)'
BY DEF Sealed, Called

\* The rows a request has loaded of a target
LoadedTarget(r) ==
  /\ req[r].op \in {"target.update", "target.delete", "snapshot.create"} =>
       LET t == req[r].seen.target IN Known(t) /\ (t \in DOMAIN targets => targets[t].ws = req[r].ws)
  /\ req[r].op = "target.update" =>
       LET row == req[r].seen.row  new == req[r].seen.new IN
       /\ DOMAIN row = TargetColumns /\ DOMAIN new = TargetColumns /\ new.ws = row.ws
       /\ \/ new.credential_ciphertext = row.credential_ciphertext
          \/ new.credential_ciphertext.credential = r /\ new.credential_ciphertext.key_id \in keyring

\* A step that removes or adds rows, or changes columns but the workspace,
\* keeps what requests have loaded
LEMMA TargetRows ==
  ASSUME TargetInv, KeyInv', keyring \subseteq keyring',
         \A x \in Requests : req[x].pc = "done" => req'[x] = req[x],
         \A t \in DOMAIN targets' :
           \/ t \in DOMAIN targets /\ targets'[t].ws = targets[t].ws
           \/ t \in Requests /\ req[t].pc # "done" /\ req'[t].pc = "done",
         \A t \in DOMAIN targets' :
           DOMAIN targets'[t] = TargetColumns /\ Sealed(targets[t].credential_ciphertext, targets[t].ws)',
         \A x \in Requests : req'[x].pc = "ready" => req'[x] = req[x] \/ LoadedTarget(x)'
  PROVE  TargetInv'
<1>1. \A x : Known(x) => Known(x)'
  BY DEF Known
<1>2. \A t \in DOMAIN targets' : Known(t)'
  BY <1>1 DEF TargetInv, Known
<1>3. ASSUME NEW x \in Requests, req'[x].pc = "ready", req'[x] = req[x] PROVE LoadedTarget(x)'
  <2>1. LoadedTarget(x)
    BY <1>3 DEF TargetInv, LoadedTarget
  <2>2. ASSUME NEW t, Known(t), t \in DOMAIN targets => targets[t].ws = req[x].ws
        PROVE  Known(t)' /\ (t \in DOMAIN targets' => targets'[t].ws = req'[x].ws)
    BY <1>1, <1>3, <2>2 DEF Known
  <2> QED BY <1>3, <2>1, <2>2 DEF LoadedTarget
<1>4. \A x \in Requests : req'[x].pc = "ready" => LoadedTarget(x)'
  BY <1>3
<1> QED BY <1>2, <1>4 DEF TargetInv, LoadedTarget

\* Nobody else writes targets
LEMMA TargetFrame ==
  ASSUME TargetInv, Foreign(TargetOps), targets' = targets, keyring \subseteq keyring', KeyInv'
  PROVE  TargetInv'
<1>1. \A x \in Requests : req[x].pc = "done" => req'[x] = req[x]
  BY DEF Foreign
<1>2. \A t \in DOMAIN targets : DOMAIN targets[t] = TargetColumns /\ Sealed(targets[t].credential_ciphertext, targets[t].ws)'
  <2>1. ASSUME NEW t \in DOMAIN targets PROVE Sealed(targets[t].credential_ciphertext, targets[t].ws)'
    <3>1. ASSUME NEW c, NEW ws, c = targets[t].credential_ciphertext, ws = targets[t].ws PROVE Sealed(c, ws)'
      BY <1>1, <3>1, SealedStays DEF TargetInv
    <3> QED BY <3>1
  <2> QED BY <2>1 DEF TargetInv
<1>3. \A x \in Requests : req'[x].pc = "ready" => req'[x] = req[x] \/ LoadedTarget(x)'
  BY DEF Foreign, LoadedTarget, TargetOps
<1> QED BY <1>1, <1>2, <1>3, TargetRows
\* Old snapshot rows may get an artifact or go with their target, but a row
\* with an artifact stays as it is, the pinned ones stay, and new ones have new ids
SnapshotsKept(pinned) ==
  /\ \A x \in pinned : x \in DOMAIN snapshots => x \in DOMAIN snapshots'
  /\ \A x \in DOMAIN snapshots' :
       \/ /\ x \in DOMAIN snapshots /\ snapshots'[x].ws = snapshots[x].ws
          /\ snapshots[x].artifact_ref = "set" => snapshots'[x] = snapshots[x]
       \/ x \in Requests /\ req[x].pc # "done"

\* What a PATCH computes
LEMMA PatchedFacts ==
  ASSUME NEW r, NEW row, DOMAIN row = TargetColumns, NEW changed, NEW endpoint,
         NEW new, new = Patched(r, row, changed, endpoint)
  PROVE  /\ DOMAIN new = TargetColumns /\ new.ws = row.ws
         /\ new.credential_ciphertext \in {row.credential_ciphertext, encrypt_credential(r)}
BY DEF Patched, TargetColumns

\* What the UPDATE writes
LEMMA MergeFacts ==
  ASSUME NEW row, NEW loaded, NEW new, DOMAIN row = TargetColumns, NEW merged, merged = Merge(row, loaded, new)
  PROVE  /\ DOMAIN merged = TargetColumns
         /\ new.ws = loaded.ws => merged.ws = row.ws
         /\ \/ merged.credential_ciphertext = row.credential_ciphertext
            \/ /\ merged.credential_ciphertext = new.credential_ciphertext
               /\ new.credential_ciphertext # loaded.credential_ciphertext
BY DEF Merge, TargetColumns

\* Rows of other tables leave the snapshots alone
LEMMA SnapshotFrame ==
  ASSUME SnapshotInv, NEW ops, Foreign(ops), targets' = targets, snapshots' = snapshots, NEW pinned
  PROVE  SnapshotInv' /\ SnapshotsKept(pinned)
<1>1. \A x : Known(x) => Known(x)'
  BY KnownStays
<1> QED BY <1>1 DEF SnapshotInv, SnapshotsKept

\* A request that only reads, or gives up, leaves targets and snapshots as they are
LEMMA TargetReads ==
  ASSUME RequestInv, TargetInv, SnapshotInv, NEW r \in Requests, req[r].pc \in {"authed", "ready"},
         req[r].op \in TargetOps, UNCHANGED targetVars, NEW pinned,
         \/ Refuse(r) \/ Nothing(r) \/ RollBack(r)
         \/ \E rows : Loaded(r, rows) /\ (Becomes(r, With(r, "ready", rows)) => LoadedTarget(r)')
  PROVE  TargetInv' /\ SnapshotInv' /\ SnapshotsKept(pinned)
<1>1. targets' = targets /\ snapshots' = snapshots /\ keyring' = keyring
  BY DEF targetVars
<1>2. PICK q : Becomes(r, q) /\ (q.pc = "ready" => LoadedTarget(r)')
  <2>1. CASE Refuse(r) \/ Nothing(r) \/ RollBack(r)
    <3>1. PICK a \in {"same", "refused", "failed"} : Becomes(r, Ended(a))
      BY <2>1, AnswerForms DEF Refuse, Nothing, RollBack
    <3>2. Ended(a).pc # "ready"
      BY RowFields DEF Ended
    <3> QED BY <3>1, <3>2
  <2>2. ASSUME NEW rows, Loaded(r, rows), Becomes(r, With(r, "ready", rows)) => LoadedTarget(r)'
        PROVE  \E q : Becomes(r, q) /\ (q.pc = "ready" => LoadedTarget(r)')
    BY <2>2, AnswerForms
  <2> QED BY <2>1, <2>2
<1>3. req'[r] = q /\ \A x \in Requests \ {r} : req'[x] = req[x]
  BY <1>2, BecomesFacts
<1>4. Foreign({})
  BY <1>3 DEF Foreign
<1>5. \A x \in Requests : req[x].pc = "done" => req'[x] = req[x]
  BY <1>3
<1>6. \A t \in DOMAIN targets : DOMAIN targets[t] = TargetColumns /\ Sealed(targets[t].credential_ciphertext, targets[t].ws)'
  <2>1. ASSUME NEW t \in DOMAIN targets PROVE Sealed(targets[t].credential_ciphertext, targets[t].ws)'
    <3>1. ASSUME NEW c, NEW ws, c = targets[t].credential_ciphertext, ws = targets[t].ws PROVE Sealed(c, ws)'
      BY <1>1, <1>5, <3>1, SealedStays DEF TargetInv
    <3> QED BY <1>1, <3>1
  <2> QED BY <2>1 DEF TargetInv
<1>7. \A x \in Requests : req'[x].pc = "ready" => req'[x] = req[x] \/ LoadedTarget(x)'
  BY <1>2, <1>3
<1>8. KeyInv'
  BY <1>1 DEF TargetInv, KeyInv
<1>9. TargetInv'
  BY <1>1, <1>5, <1>6, <1>7, <1>8, TargetRows
<1> QED BY <1>1, <1>4, <1>9, SnapshotFrame
\* A commit of a request's, with the rows it wrote
LEMMA TargetCommit ==
  ASSUME RequestInv, TargetInv, SnapshotInv, NEW r \in Requests, NEW entity, Commit(r, entity),
         req[r].pc \in {"authed", "ready"}, req[r].op \in TargetOps, keyring' = keyring, NEW pinned,
         \A t \in DOMAIN targets' :
           \/ t \in DOMAIN targets /\ targets'[t] = targets[t]
           \/ /\ t = r \/ (t \in DOMAIN targets /\ targets'[t].ws = targets[t].ws)
              /\ DOMAIN targets'[t] = TargetColumns
              /\ \E c : /\ targets'[t].credential_ciphertext = c /\ c.key_id \in keyring
                        /\ \/ c.credential = r /\ targets'[t].ws = req[r].ws
                           \/ t \in DOMAIN targets /\ c = targets[t].credential_ciphertext,
         \A x \in DOMAIN snapshots' :
           /\ \/ x \in DOMAIN snapshots /\ snapshots'[x] = snapshots[x]
              \/ x = r /\ DOMAIN snapshots'[x] = SnapshotColumns /\ snapshots'[x].artifact_ref = "null"
           /\ snapshots'[x].target \in DOMAIN targets' /\ targets'[snapshots'[x].target].ws = snapshots'[x].ws,
         \A x \in pinned : x \in DOMAIN snapshots => x \in DOMAIN snapshots'
  PROVE  TargetInv' /\ SnapshotInv' /\ SnapshotsKept(pinned)
<1> DEFINE q == With(r, "done", NoRows)
<1>1. Becomes(r, q)
  BY AnswerForms DEF Commit
<1>2. q.pc = "done" /\ q.op = req[r].op /\ q.ws = req[r].ws
  BY RowFields DEF With
<1>3. req'[r] = q /\ \A x \in Requests \ {r} : req'[x] = req[x]
  BY <1>1, BecomesFacts
<1> HIDE DEF q
<1>4. \A x \in Requests : req[x].pc = "done" => req'[x] = req[x]
  BY <1>3
<1>5. Called(r)' /\ req'[r].pc = "done" /\ req'[r].ws = req[r].ws
  BY <1>2, <1>3 DEF Called, TargetOps
<1>6. \A x : Known(x) => Known(x)'
  BY <1>4 DEF Known
<1>7. ASSUME NEW t \in DOMAIN targets' PROVE DOMAIN targets'[t] = TargetColumns /\ Sealed(targets[t].credential_ciphertext, targets[t].ws)'
  <2>1. ASSUME NEW c, NEW ws, t \in DOMAIN targets, c = targets[t].credential_ciphertext, ws = targets[t].ws PROVE Sealed(c, ws)'
    BY <1>4, <2>1, SealedStays DEF TargetInv
  <2>2. CASE t \in DOMAIN targets /\ targets'[t] = targets[t]
    BY <2>1, <2>2 DEF TargetInv
  <2>3. ASSUME NEW c, targets'[t].credential_ciphertext = c, c.key_id \in keyring, c.credential = r, targets'[t].ws = req[r].ws
        PROVE  Sealed(targets[t].credential_ciphertext, targets[t].ws)'
    BY <1>5, <2>3 DEF Sealed
  <2>4. ASSUME t \in DOMAIN targets, targets'[t].ws = targets[t].ws,
               targets'[t].credential_ciphertext = targets[t].credential_ciphertext
        PROVE  Sealed(targets[t].credential_ciphertext, targets[t].ws)'
    BY <2>1, <2>4
  <2>5. t = r => t \notin DOMAIN targets
    BY DEF TargetInv, Known
  <2> QED BY <2>2, <2>3, <2>4, <2>5 DEF TargetInv
<1>8. \A t \in DOMAIN targets' :
        \/ t \in DOMAIN targets /\ targets'[t].ws = targets[t].ws
        \/ t \in Requests /\ req[t].pc # "done" /\ req'[t].pc = "done"
  BY <1>5
<1>9. \A x \in Requests : req'[x].pc = "ready" => req'[x] = req[x]
  BY <1>3, <1>5
<1>10. KeyInv'
  BY DEF TargetInv, KeyInv
<1>11. TargetInv'
  BY <1>4, <1>7, <1>8, <1>9, <1>10, TargetRows
<1>12. SnapshotInv'
  BY <1>5, <1>6 DEF SnapshotInv, Known
<1>13. SnapshotsKept(pinned)
  BY DEF SnapshotsKept
<1> QED BY <1>11, <1>12, <1>13

\* Targets and snapshots: whatever overlaps, a credential that is stored opens
\* and is of the workspace's, and a snapshot is of its target's workspace
LEMMA TargetStep ==
  ASSUME RequestInv, TargetInv, SnapshotInv, NEW pinned, TargetNext(pinned)
  PROVE  TargetInv' /\ SnapshotInv' /\ SnapshotsKept(pinned)
<1> DEFINE Goal == TargetInv' /\ SnapshotInv' /\ SnapshotsKept(pinned)
<1>1. Max(keyring) \in keyring /\ keyring # {}
  BY SealingKey DEF TargetInv
<1>2. \A r : encrypt_credential(r).key_id \in keyring /\ encrypt_credential(r).credential = r
  BY <1>1 DEF encrypt_credential
<1>3. \A x \in DOMAIN snapshots :
        snapshots[x].target \in DOMAIN targets /\ targets[snapshots[x].target].ws = snapshots[x].ws
  BY DEF SnapshotInv
<1>4. ASSUME NEW r \in Requests, NEW endpoint, create_target(r, endpoint) PROVE Goal
  <2>1. req[r].pc = "authed" /\ req[r].op \in TargetOps /\ UNCHANGED <<snapshots, keyring>>
    BY <1>4 DEF create_target, At, TargetOps
  <2>2. CASE Refuse(r) /\ UNCHANGED targets
    BY <2>1, <2>2, TargetReads DEF targetVars
  <2>3. CASE ~(Refuse(r) /\ UNCHANGED targets)
    <3> DEFINE row == [ws |-> req[r].ws, endpoint_redacted |-> endpoint,
                       allowlist_decision |-> decision(endpoint),
                       credential_ciphertext |-> encrypt_credential(r),
                       credential_key_id |-> encrypt_credential(r).key_id, credential_version |-> 1]
    <3>1. targets' = Insert(targets, r, row) /\ Commit(r, r)
      BY <1>4, <2>3 DEF create_target
    <3>2. DOMAIN row = TargetColumns /\ row.ws = req[r].ws /\ row.credential_ciphertext = encrypt_credential(r)
      BY DEF TargetColumns
    <3> HIDE DEF row
    <3>3. r \notin DOMAIN targets
      BY <2>1 DEF TargetInv, Known
    <3>4. DOMAIN targets' = DOMAIN targets \cup {r} /\ targets'[r] = row /\ \A t \in DOMAIN targets : targets'[t] = targets[t]
      BY <3>1, <3>3 DEF Insert
    <3> QED BY <1>2, <1>3, <2>1, <3>1, <3>2, <3>4, TargetCommit
  <2> QED BY <2>2, <2>3
<1>5. ASSUME NEW r \in Requests, NEW t \in DOMAIN targets, NEW changed, NEW endpoint, UpdateTargetRead(r, t, changed, endpoint)
      PROVE  Goal
  <2>1. req[r].pc = "authed" /\ req[r].op = "target.update" /\ UNCHANGED targetVars
    BY <1>5 DEF UpdateTargetRead, At
  <2>2. CASE Refuse(r) \/ Nothing(r)
    BY <2>1, <2>2, TargetReads DEF TargetOps
  <2>3. CASE ~(Refuse(r) \/ Nothing(r))
    <3> DEFINE new == Patched(r, targets[t], changed, endpoint)
               rows == [target |-> t, row |-> targets[t], new |-> new]
    <3>1. targets[t].ws = req[r].ws /\ Loaded(r, rows)
      BY <1>5, <2>3 DEF UpdateTargetRead
    <3>2. DOMAIN targets[t] = TargetColumns /\ Known(t)
      BY DEF TargetInv
    <3>3. /\ DOMAIN new = TargetColumns /\ new.ws = targets[t].ws
          /\ new.credential_ciphertext \in {targets[t].credential_ciphertext, encrypt_credential(r)}
      BY <3>2, PatchedFacts
    <3>4. rows.target = t /\ rows.row = targets[t] /\ rows.new = new
      OBVIOUS
    <3> HIDE DEF new, rows
    <3>5. ASSUME Becomes(r, With(r, "ready", rows)) PROVE LoadedTarget(r)'
      <4>1. req'[r].op = "target.update" /\ req'[r].ws = req[r].ws /\ req'[r].seen = rows
        BY <2>1, <3>5, BecomesFacts, RowFields DEF With
      <4>2. Known(t)'
        BY <2>1, <3>2, <3>5, BecomesFacts DEF Known
      <4> QED BY <1>2, <2>1, <3>1, <3>2, <3>3, <3>4, <4>1, <4>2 DEF LoadedTarget, targetVars
    <3> QED BY <2>1, <3>1, <3>5, TargetReads DEF TargetOps
  <2> QED BY <2>2, <2>3
<1>6. ASSUME NEW r \in Requests, update_target(r) PROVE Goal
  <2> DEFINE t == req[r].seen.target
             loaded == req[r].seen.row
             new == req[r].seen.new
             merged == Merge(targets[t], loaded, new)
  <2>1. req[r].pc = "ready" /\ req[r].op = "target.update" /\ UNCHANGED <<snapshots, keyring>>
    BY <1>6 DEF update_target, At
  <2>2. CASE RollBack(r) /\ UNCHANGED targets
    BY <2>1, <2>2, TargetReads DEF targetVars, TargetOps
  <2>3. CASE targets' = targets /\ Commit(r, t)
    <3>1. \A x \in DOMAIN snapshots' : x \in DOMAIN snapshots /\ snapshots'[x] = snapshots[x]
      BY <2>1
    <3> QED BY <1>3, <2>1, <2>3, <3>1, TargetCommit DEF TargetOps
  <2>4. CASE ~(RollBack(r) /\ UNCHANGED targets) /\ ~(targets' = targets /\ Commit(r, t))
    <3>1. t \in DOMAIN targets /\ targets' = [targets EXCEPT ![t] = merged] /\ Commit(r, t)
      BY <1>6, <2>4 DEF update_target
    <3>2. /\ targets[t].ws = req[r].ws /\ new.ws = loaded.ws
          /\ \/ new.credential_ciphertext = loaded.credential_ciphertext
             \/ new.credential_ciphertext.credential = r /\ new.credential_ciphertext.key_id \in keyring
      BY <2>1, <3>1 DEF TargetInv
    <3>3. DOMAIN targets[t] = TargetColumns /\ targets[t].credential_ciphertext.key_id \in keyring
      BY <3>1 DEF TargetInv, Sealed
    <3>4. /\ DOMAIN merged = TargetColumns
          /\ new.ws = loaded.ws => merged.ws = targets[t].ws
          /\ \/ merged.credential_ciphertext = targets[t].credential_ciphertext
             \/ /\ merged.credential_ciphertext = new.credential_ciphertext
                /\ new.credential_ciphertext # loaded.credential_ciphertext
      BY <3>3, MergeFacts
    <3> HIDE DEF t, loaded, new, merged
    <3>5. DOMAIN targets' = DOMAIN targets /\ targets'[t] = merged /\ \A x \in DOMAIN targets \ {t} : targets'[x] = targets[x]
      BY <3>1
    <3>6. \A x \in DOMAIN targets : targets'[x].ws = targets[x].ws
      BY <3>2, <3>4, <3>5
    <3>7. \A x \in DOMAIN targets' :
            \/ x \in DOMAIN targets /\ targets'[x] = targets[x]
            \/ /\ x \in DOMAIN targets /\ targets'[x].ws = targets[x].ws
               /\ DOMAIN targets'[x] = TargetColumns
               /\ \E c : /\ targets'[x].credential_ciphertext = c /\ c.key_id \in keyring
                         /\ \/ c.credential = r /\ targets'[x].ws = req[r].ws
                            \/ x \in DOMAIN targets /\ c = targets[x].credential_ciphertext
      BY <3>2, <3>3, <3>4, <3>5, <3>6
    <3> QED BY <1>3, <2>1, <3>1, <3>5, <3>6, <3>7, TargetCommit DEF TargetOps
  <2> QED BY <2>2, <2>3, <2>4
<1>7. ASSUME NEW r \in Requests, NEW t \in DOMAIN targets, DeleteTargetRead(r, t) \/ CreateSnapshotRead(r, t) PROVE Goal
  <2>1. req[r].pc = "authed" /\ req[r].op \in {"target.delete", "snapshot.create"} /\ UNCHANGED targetVars
    BY <1>7 DEF DeleteTargetRead, CreateSnapshotRead, At
  <2>2. CASE Refuse(r)
    BY <2>1, <2>2, TargetReads DEF TargetOps
  <2>3. CASE targets[t].ws = req[r].ws /\ Loaded(r, [target |-> t])
    <3>1. ASSUME Becomes(r, With(r, "ready", [target |-> t])) PROVE LoadedTarget(r)'
      <4>1. req'[r].op = req[r].op /\ req'[r].ws = req[r].ws /\ req'[r].seen = [target |-> t]
        BY <2>1, <3>1, BecomesFacts, RowFields DEF With
      <4>2. Known(t)'
        BY <2>1, <3>1, BecomesFacts DEF Known, TargetInv
      <4>3. req'[r].seen.target = t /\ targets' = targets
        BY <2>1, <4>1 DEF targetVars
      <4> QED BY <2>1, <2>3, <4>1, <4>2, <4>3 DEF LoadedTarget
    <3> QED BY <2>1, <2>3, <3>1, TargetReads DEF TargetOps
  <2> QED BY <1>7, <2>2, <2>3 DEF DeleteTargetRead, CreateSnapshotRead
<1>8. ASSUME NEW r \in Requests, delete_target(r, pinned) PROVE Goal
  <2> DEFINE t == req[r].seen.target
  <2>1. req[r].pc = "ready" /\ req[r].op \in TargetOps /\ keyring' = keyring
    BY <1>8 DEF delete_target, At, TargetOps
  <2>2. CASE RollBack(r) /\ UNCHANGED <<targets, snapshots>>
    BY <2>1, <2>2, TargetReads DEF targetVars
  <2>3. CASE ~(RollBack(r) /\ UNCHANGED <<targets, snapshots>>)
    <3>1. /\ SnapshotsOf(t) \cap pinned = {} /\ targets' = Delete(targets, {t})
          /\ snapshots' = Delete(snapshots, SnapshotsOf(t)) /\ Commit(r, t)
      BY <1>8, <2>3 DEF delete_target
    <3> HIDE DEF t
    <3>2. DOMAIN targets' = DOMAIN targets \ {t} /\ \A x \in DOMAIN targets' : targets'[x] = targets[x]
      BY <3>1 DEF Delete
    <3>3. /\ DOMAIN snapshots' = {x \in DOMAIN snapshots : snapshots[x].target # t}
          /\ \A x \in DOMAIN snapshots' : snapshots'[x] = snapshots[x]
      BY <3>1 DEF Delete, SnapshotsOf
    <3>4. \A x \in pinned : x \in DOMAIN snapshots => x \in DOMAIN snapshots'
      BY <3>1, <3>3 DEF SnapshotsOf
    <3>5. ASSUME NEW x \in DOMAIN snapshots'
          PROVE  /\ x \in DOMAIN snapshots /\ snapshots'[x] = snapshots[x]
                 /\ snapshots'[x].target \in DOMAIN targets' /\ targets'[snapshots'[x].target].ws = snapshots'[x].ws
      BY <1>3, <3>2, <3>3
    <3>6. \A x \in DOMAIN targets' : x \in DOMAIN targets /\ targets'[x] = targets[x]
      BY <3>2
    <3> QED BY <2>1, <3>1, <3>4, <3>5, <3>6, TargetCommit
  <2> QED BY <2>2, <2>3
<1>9. ASSUME NEW r \in Requests, create_snapshot(r) PROVE Goal
  <2> DEFINE t == req[r].seen.target
             row == [ws |-> req[r].ws, target |-> t, artifact_ref |-> "null", capture |-> None]
  <2>1. req[r].pc = "ready" /\ req[r].op = "snapshot.create" /\ keyring' = keyring /\ targets' = targets
    BY <1>9 DEF create_snapshot, At
  <2>2. CASE RollBack(r) /\ UNCHANGED snapshots
    BY <2>1, <2>2, TargetReads DEF targetVars, TargetOps
  <2>3. CASE ~(RollBack(r) /\ UNCHANGED snapshots)
    <3>1. t \in DOMAIN targets /\ snapshots' = Insert(snapshots, r, row) /\ Commit(r, r)
      BY <1>9, <2>3 DEF create_snapshot
    <3>2. targets[t].ws = req[r].ws
      BY <2>1, <3>1 DEF TargetInv
    <3>3. DOMAIN row = SnapshotColumns /\ row.artifact_ref = "null" /\ row.ws = req[r].ws /\ row.target = t
      BY DEF SnapshotColumns
    <3> HIDE DEF t, row
    <3>4. r \notin DOMAIN snapshots
      BY <2>1 DEF SnapshotInv, Known
    <3>5. /\ DOMAIN snapshots' = DOMAIN snapshots \cup {r} /\ snapshots'[r] = row
          /\ \A x \in DOMAIN snapshots : snapshots'[x] = snapshots[x]
      BY <3>1, <3>4 DEF Insert
    <3>6. \A x \in DOMAIN snapshots' :
            /\ \/ x \in DOMAIN snapshots /\ snapshots'[x] = snapshots[x]
               \/ x = r /\ DOMAIN snapshots'[x] = SnapshotColumns /\ snapshots'[x].artifact_ref = "null"
            /\ snapshots'[x].target \in DOMAIN targets' /\ targets'[snapshots'[x].target].ws = snapshots'[x].ws
      BY <1>3, <2>1, <3>1, <3>2, <3>3, <3>5
    <3>7. \A x \in pinned : x \in DOMAIN snapshots => x \in DOMAIN snapshots'
      BY <3>5
    <3>8. req[r].op \in TargetOps
      BY <2>1 DEF TargetOps
    <3> QED BY <2>1, <3>1, <3>6, <3>7, <3>8, TargetCommit
  <2> QED BY <2>2, <2>3
<1>10. ASSUME NEW s \in DOMAIN snapshots, NEW capture, SnapshotStored(s, capture) PROVE Goal
  <2>1. /\ req' = req /\ targets' = targets /\ keyring' = keyring /\ snapshots[s].artifact_ref = "null"
        /\ snapshots' = [snapshots EXCEPT ![s].artifact_ref = "set", ![s].capture = capture]
    BY <1>10 DEF SnapshotStored, requestVars
  <2>2. Foreign(TargetOps)
    BY <2>1 DEF Foreign
  <2>3. TargetInv'
    BY <2>1, <2>2, TargetFrame DEF TargetInv, KeyInv
  <2>4. DOMAIN snapshots' = DOMAIN snapshots /\ \A x \in DOMAIN snapshots \ {s} : snapshots'[x] = snapshots[x]
    BY <2>1
  <2>5. DOMAIN snapshots'[s] = SnapshotColumns /\ snapshots'[s].artifact_ref = "set" /\ snapshots'[s].ws = snapshots[s].ws /\ snapshots'[s].target = snapshots[s].target
    BY <2>1 DEF SnapshotInv, SnapshotColumns
  <2>6. SnapshotInv'
    BY <2>1, <2>4, <2>5 DEF SnapshotInv, Known
  <2>7. SnapshotsKept(pinned)
    BY <2>1, <2>4, <2>5 DEF SnapshotsKept
  <2> QED BY <2>3, <2>6, <2>7
<1>11. CASE AddEncryptionKey
  <2>1. /\ req' = req /\ targets' = targets /\ snapshots' = snapshots
        /\ keyring' = keyring \cup {Max(keyring) + 1}
    BY <1>1, <1>11 DEF AddEncryptionKey, requestVars
  <2>2. PICK n \in Nat \ {0} : keyring = 1..n
    BY DEF TargetInv, KeyInv
  <2>3. Max(keyring) = n
    <3>1. \A k \in keyring : k <= n
      BY <2>2
    <3>2. \E m \in keyring : \A k \in keyring : m >= k
      BY <2>2
    <3>3. \A k \in keyring : Max(keyring) >= k
      BY <3>2 DEF Max
    <3>4. n \in keyring
      BY <2>2
    <3> QED BY <1>1, <2>2, <3>1, <3>3, <3>4
  <2>4. keyring' = 1..(n + 1)
    BY <2>1, <2>2, <2>3
  <2>5. KeyInv' /\ keyring \subseteq keyring'
    BY <2>1, <2>4 DEF KeyInv
  <2>6. Foreign(TargetOps)
    BY <2>1 DEF Foreign
  <2>7. TargetInv'
    BY <2>1, <2>5, <2>6, TargetFrame
  <2> QED BY <2>1, <2>6, <2>7, SnapshotFrame
<1> QED BY <1>4, <1>5, <1>6, <1>7, <1>8, <1>9, <1>10, <1>11 DEF TargetNext
-----------------------------------------------------------------------------
(* Builds, manifests and signatures *)

\* Manifest rows stay, with their identity
ManifestsKept ==
  \A m \in DOMAIN manifests :
    /\ m \in DOMAIN manifests' /\ manifests'[m].ws = manifests[m].ws
    /\ manifests'[m].manifest_hash = manifests[m].manifest_hash

\* The row and the envelope a request has loaded to sign
LoadedManifest(r) ==
  LET m == req[r].seen.manifest IN
  /\ m \in DOMAIN manifests /\ manifests[m].ws = req[r].ws
  /\ Whole(m, manifests[m].manifest_hash, req[r].seen.envelope)

\* What is whole stays so when signatures are added
LEMMA WholeStays ==
  ASSUME signatures \subseteq signatures', NEW m, NEW h, NEW envelope, Whole(m, h, envelope)
  PROVE  Whole(m, h, envelope)'
BY DEF Whole, Mirrored

\* A hash that leads to a row keeps doing so
LEMMA ManifestOfStays ==
  ASSUME ManifestsKept, NEW ws, NEW h, ManifestOf(ws, h) # {}
  PROVE  ManifestOf(ws, h)' # {}
BY DEF ManifestsKept, ManifestOf

\* What a signer has loaded is still right after rows and signatures are added
LEMMA LoadedManifestStays ==
  ASSUME ManifestsKept, signatures \subseteq signatures', NEW r \in Requests, LoadedManifest(r), req'[r] = req[r]
  PROVE  LoadedManifest(r)'
<1> DEFINE m == req[r].seen.manifest
           h == manifests[m].manifest_hash
           e == req[r].seen.envelope
<1>1. m \in DOMAIN manifests /\ manifests[m].ws = req[r].ws /\ Whole(m, h, e)
  BY DEF LoadedManifest
<1>2. m \in DOMAIN manifests' /\ manifests'[m].ws = req[r].ws /\ manifests'[m].manifest_hash = h
  BY <1>1 DEF ManifestsKept
<1>3. ASSUME NEW n, NEW k, NEW f, n = m, k = h, f = e PROVE Whole(n, k, f)'
  BY <1>1, <1>3, WholeStays
<1>4. Whole(req[r].seen.manifest, manifests[req[r].seen.manifest].manifest_hash, req[r].seen.envelope)'
  BY <1>2, <1>3
<1> QED BY <1>2, <1>4 DEF LoadedManifest

\* The manifests after a step that leaves their tables alone
LEMMA ManifestRequests ==
  ASSUME ManifestInv, \A x \in Requests : req[x].pc = "done" => req'[x] = req[x],
         manifests' = manifests, signatures' = signatures, DOMAIN builds \subseteq DOMAIN builds',
         \A x \in Requests : At(x, "ready", "manifest.sign")' => req'[x] = req[x] \/ LoadedManifest(x)'
  PROVE  ManifestInv' /\ ManifestsKept
<1>1. ManifestsKept
  BY DEF ManifestsKept
<1>2. \A x \in Requests : At(x, "ready", "manifest.sign")' => LoadedManifest(x)'
  <2>1. ASSUME NEW x \in Requests, At(x, "ready", "manifest.sign")', req'[x] = req[x] PROVE LoadedManifest(x)'
    <3>1. LoadedManifest(x)
      BY <2>1 DEF At, ManifestInv, LoadedManifest
    <3> QED BY <1>1, <2>1, <3>1, LoadedManifestStays
  <2> QED BY <2>1
<1>3. \A s \in signatures :
        /\ s.manifest \in DOMAIN manifests /\ s.by \in Requests
        /\ Called(s.by)' /\ req'[s.by].pc = "done" /\ req'[s.by].ws = manifests[s.manifest].ws
  BY DEF ManifestInv, Called
<1>4. \A m \in DOMAIN manifests : Whole(m, manifests[m].manifest_hash, manifests[m].artifact_ref)'
  BY DEF ManifestInv, Whole, Mirrored
<1> QED BY <1>1, <1>2, <1>3, <1>4 DEF ManifestInv, LoadedManifest

\* Nobody else writes manifests
LEMMA ManifestFrame ==
  ASSUME ManifestInv, Foreign(ManifestOps), manifests' = manifests, signatures' = signatures,
         DOMAIN builds \subseteq DOMAIN builds'
  PROVE  ManifestInv' /\ ManifestsKept
<1>1. \A x \in Requests : req[x].pc = "done" => req'[x] = req[x]
  BY DEF Foreign
<1>2. \A x \in Requests : At(x, "ready", "manifest.sign")' => req'[x] = req[x]
  BY DEF Foreign, At, ManifestOps
<1> QED BY <1>1, <1>2, ManifestRequests

\* Builds are written by their own request and job
LEMMA BuildFrame ==
  ASSUME BuildInv, NEW ops, Foreign(ops), builds' = builds, DOMAIN manifests' = DOMAIN manifests, ManifestsKept
  PROVE  BuildInv'
<1>1. \A x : Known(x) => Known(x)'
  BY KnownStays
<1>2. ASSUME NEW b \in DOMAIN builds, ManifestOf(builds[b].ws, builds[b].manifest_hash) # {}
      PROVE  ManifestOf(builds[b].ws, builds[b].manifest_hash)' # {}
  <2>1. ASSUME NEW ws, NEW h, ws = builds[b].ws, h = builds[b].manifest_hash PROVE ManifestOf(ws, h)' # {}
    BY <1>2, <2>1, ManifestOfStays
  <2> QED BY <2>1
<1> QED BY <1>1, <1>2 DEF BuildInv
\* A step of one build keeps the others
LEMMA BuildRows ==
  ASSUME BuildInv, NEW b, \A x : Known(x) => Known(x)', ManifestsKept,
         DOMAIN builds' \subseteq DOMAIN builds \cup {b}, DOMAIN manifests' \subseteq DOMAIN manifests \cup {b},
         \A x \in DOMAIN builds \ {b} : builds'[x] = builds[x],
         Known(b)' /\ DOMAIN builds'[b] = BuildColumns,
         builds'[b].state # "completed" => b \notin DOMAIN manifests',
         builds'[b].state = "completed" \/ (builds'[b].state = "selected" /\ builds'[b].existing) =>
           ManifestOf(builds[b].ws, builds[b].manifest_hash)' # {}
  PROVE  BuildInv'
<1>1. ASSUME NEW x \in DOMAIN builds', x # b
      PROVE  /\ Known(x)' /\ DOMAIN builds'[x] = BuildColumns
             /\ builds'[x].state # "completed" => x \notin DOMAIN manifests'
             /\ builds'[x].state = "completed" \/ (builds'[x].state = "selected" /\ builds'[x].existing) =>
                  ManifestOf(builds[x].ws, builds[x].manifest_hash)' # {}
  <2>1. x \in DOMAIN builds /\ builds'[x] = builds[x]
    BY <1>1
  <2>2. ASSUME NEW ws, NEW h, ws = builds[x].ws, h = builds[x].manifest_hash, ManifestOf(ws, h) # {}
        PROVE  ManifestOf(ws, h)' # {}
    BY <2>2, ManifestOfStays
  <2>3. ManifestOf(builds[x].ws, builds[x].manifest_hash) # {} => ManifestOf(builds[x].ws, builds[x].manifest_hash)' # {}
    BY <2>1, <2>2
  <2> QED BY <1>1, <2>1, <2>3 DEF BuildInv, BuildColumns
<1> QED BY <1>1 DEF BuildInv, BuildColumns

\* Build rows: created by a request
LEMMA BuildRowStep ==
  ASSUME RequestInv, BuildInv, ManifestInv, BuildRowNext
  PROVE  BuildInv' /\ ManifestInv' /\ ManifestsKept
<1>1. Foreign(ManifestOps)
  BY BuildRowHandlers, HandlerIsForeign DEF ManifestOps
<1>2. ASSUME builds' = builds, manifests' = manifests, signatures' = signatures
      PROVE  BuildInv' /\ ManifestInv' /\ ManifestsKept
  BY <1>1, <1>2, ManifestFrame, BuildFrame
<1>3. ASSUME NEW r \in Requests, NEW c, NEW p, CreateBuildRead(r, c, p) PROVE BuildInv' /\ ManifestInv' /\ ManifestsKept
  BY <1>2, <1>3 DEF CreateBuildRead, manifestVars
<1>4. ASSUME NEW r \in Requests, create_build(r) PROVE BuildInv' /\ ManifestInv' /\ ManifestsKept
  <2> DEFINE row == [ws |-> req[r].ws, collection |-> req[r].seen.collection, config |-> req[r].seen.config,
                    state |-> "pending", manifest_hash |-> None, existing |-> FALSE]
  <2>1. req[r].pc = "ready" /\ manifests' = manifests /\ signatures' = signatures /\ builds' = Insert(builds, r, row) /\ Commit(r, r)
    BY <1>4 DEF create_build, At
  <2>2. r \notin DOMAIN builds /\ r \notin DOMAIN manifests
    BY <2>1 DEF BuildInv, Known, ManifestInv
  <2>3. DOMAIN row = BuildColumns /\ row.state = "pending"
    BY DEF BuildColumns
  <2> HIDE DEF row
  <2>4. DOMAIN builds' = DOMAIN builds \cup {r} /\ builds'[r] = row /\ \A x \in DOMAIN builds \ {r} : builds'[x] = builds[x]
    BY <2>1, <2>2 DEF Insert
  <2>5. ManifestInv' /\ ManifestsKept
    BY <1>1, <2>1, <2>4, ManifestFrame
  <2>6. Known(r)'
    BY <2>1, AnswerForms, BecomesFacts, RowFields DEF Commit, With, Known
  <2>7. \A x : Known(x) => Known(x)'
    BY <1>1, KnownStays
  <2>8. BuildInv'
    BY <2>1, <2>2, <2>3, <2>4, <2>5, <2>6, <2>7, BuildRows
  <2> QED BY <2>5, <2>8
<1> QED BY <1>3, <1>4 DEF BuildRowNext

\* What a signature makes of an envelope
LEMMA SignedEnvelope ==
  ASSUME NEW h, NEW envelope, envelope = Envelope(h, envelope.signatures), NEW key, NEW r
  PROVE  sign_manifest(envelope, key, r) = Envelope(h, envelope.signatures \cup {[key_id |-> key, by |-> r]})
<1>1. PICK sigs : envelope = Envelope(h, sigs) /\ sigs = envelope.signatures
  OBVIOUS
<1>2. Envelope(h, sigs).signing_view = h
  BY DEF Envelope
<1>3. [Envelope(h, sigs) EXCEPT !.manifest_hash = h] = Envelope(h, sigs)
  BY DEF Envelope
<1>4. \A s : [Envelope(h, sigs) EXCEPT !.signatures = s] = Envelope(h, s)
  BY DEF Envelope
<1>5. Envelope(h, sigs).signatures = sigs
  BY DEF Envelope
<1>6. sign_manifest(Envelope(h, sigs), key, r) =
        [[Envelope(h, sigs) EXCEPT !.manifest_hash = h] EXCEPT !.signatures = sigs \cup {[key_id |-> key, by |-> r]}]
  BY <1>2, <1>3, <1>5 DEF sign_manifest
<1> QED BY <1>1, <1>3, <1>4, <1>6

\* Envelopes by their parts
LEMMA EnvelopeParts ==
  ASSUME NEW h, NEW sigs
  PROVE  /\ Envelope(h, sigs).signing_view = h /\ Envelope(h, sigs).manifest_hash = h
         /\ Envelope(h, sigs).signatures = sigs
BY DEF Envelope
\* A build that comes to a manifest: one row per workspace and hash
LEMMA BuildJobStep ==
  ASSUME BuildInv, ManifestInv, NEW b \in DOMAIN builds,
         (\E h : SelectExisting(b, h)) \/ run_build_job(b)
  PROVE  BuildInv' /\ ManifestInv' /\ ManifestsKept
<1>1. req' = req /\ signatures' = signatures
  BY DEF SelectExisting, run_build_job, requestVars
<1>2. Foreign(ManifestOps) /\ (\A x : Known(x) => Known(x)') /\ Known(b)'
  BY <1>1 DEF Foreign, Known, BuildInv
<1>3. DOMAIN builds[b] = BuildColumns
  BY DEF BuildInv, BuildColumns
<1>4. ASSUME manifests' = manifests, DOMAIN builds' = DOMAIN builds, \A x \in DOMAIN builds \ {b} : builds'[x] = builds[x],
             builds[b].state # "completed", DOMAIN builds'[b] = BuildColumns,
             builds'[b].state = "completed" \/ (builds'[b].state = "selected" /\ builds'[b].existing) =>
               ManifestOf(builds'[b].ws, builds'[b].manifest_hash) # {}
      PROVE  BuildInv' /\ ManifestInv' /\ ManifestsKept
  <2>1. ManifestInv' /\ ManifestsKept
    BY <1>1, <1>2, <1>4, ManifestFrame
  <2>2. b \notin DOMAIN manifests'
    BY <1>4 DEF BuildInv
  <2>3. builds'[b].state = "completed" \/ (builds'[b].state = "selected" /\ builds'[b].existing) =>
          ManifestOf(builds[b].ws, builds[b].manifest_hash)' # {}
    BY <1>4 DEF ManifestOf
  <2>4. BuildInv'
    BY <1>2, <1>4, <2>1, <2>2, <2>3, BuildRows
  <2> QED BY <2>1, <2>4
<1>5. ASSUME NEW h, SelectExisting(b, h) PROVE BuildInv' /\ ManifestInv' /\ ManifestsKept
  <2> DEFINE found == ManifestOf(builds[b].ws, h) # {}
  <2>1. /\ builds[b].state = "pending" /\ manifests' = manifests
        /\ builds' = [builds EXCEPT ![b].state = "selected", ![b].manifest_hash = h, ![b].existing = found]
    BY <1>5 DEF SelectExisting
  <2> HIDE DEF found
  <2>2. DOMAIN builds' = DOMAIN builds /\ \A x \in DOMAIN builds \ {b} : builds'[x] = builds[x]
    BY <2>1
  <2>3. /\ DOMAIN builds'[b] = BuildColumns /\ builds'[b].ws = builds[b].ws /\ builds'[b].state = "selected"
        /\ builds'[b].manifest_hash = h
    BY <1>3, <2>1 DEF BuildColumns
  <2>4. builds'[b].existing = found
    BY <1>3, <2>1 DEF BuildColumns
  <2>5. builds'[b].existing => ManifestOf(builds'[b].ws, builds'[b].manifest_hash) # {}
    BY <2>3, <2>4 DEF found
  <2> QED BY <1>4, <2>1, <2>2, <2>3, <2>5
<1>6. CASE run_build_job(b)
  <2> DEFINE row == builds[b]
             new == [ws |-> row.ws, manifest_hash |-> row.manifest_hash,
                     artifact_ref |-> Envelope(row.manifest_hash, {}), signed |-> FALSE]
  <2>1. row.state = "selected"
    BY <1>6 DEF run_build_job
  <2>2. ASSUME builds' = [builds EXCEPT ![b].state = "completed"]
        PROVE  /\ DOMAIN builds' = DOMAIN builds /\ \A x \in DOMAIN builds \ {b} : builds'[x] = builds[x]
               /\ DOMAIN builds'[b] = BuildColumns /\ builds'[b].ws = row.ws /\ builds'[b].state = "completed"
               /\ builds'[b].manifest_hash = row.manifest_hash
    BY <1>3, <2>2 DEF BuildColumns
  <2>3. CASE row.existing /\ builds' = [builds EXCEPT ![b].state = "completed"] /\ manifests' = manifests
    <3>1. ManifestOf(row.ws, row.manifest_hash) # {}
      BY <2>1, <2>3 DEF BuildInv
    <3> QED BY <1>4, <2>1, <2>2, <2>3, <3>1
  <2>4. CASE builds' = [builds EXCEPT ![b].state = "pending", ![b].manifest_hash = None] /\ manifests' = manifests
    <3>1. /\ DOMAIN builds' = DOMAIN builds /\ \A x \in DOMAIN builds \ {b} : builds'[x] = builds[x]
          /\ DOMAIN builds'[b] = BuildColumns /\ builds'[b].state = "pending"
      BY <1>3, <2>4 DEF BuildColumns
    <3> QED BY <1>4, <2>1, <2>4, <3>1
  <2>5. CASE ManifestOf(row.ws, row.manifest_hash) = {} /\ manifests' = Insert(manifests, b, new)
             /\ builds' = [builds EXCEPT ![b].state = "completed"]
    <3>1. b \notin DOMAIN manifests
      BY <2>1 DEF BuildInv
    <3>2. /\ DOMAIN new = {"ws", "manifest_hash", "artifact_ref", "signed"} /\ new.ws = row.ws /\ new.signed = FALSE
          /\ new.manifest_hash = row.manifest_hash /\ new.artifact_ref = Envelope(row.manifest_hash, {})
      OBVIOUS
    <3> HIDE DEF new
    <3>3. /\ DOMAIN manifests' = DOMAIN manifests \cup {b} /\ manifests'[b] = new
          /\ \A m \in DOMAIN manifests : manifests'[m] = manifests[m]
      BY <2>5, <3>1 DEF Insert
    <3>4. ManifestsKept
      BY <3>3 DEF ManifestsKept
    <3>5. Whole(b, manifests[b].manifest_hash, manifests[b].artifact_ref)' /\ manifests'[b].artifact_ref.signatures = {}
      <4>1. ASSUME NEW h, NEW e, e = Envelope(h, {}) PROVE Whole(b, h, e)' /\ e.signatures = {}
        BY <4>1, EnvelopeParts DEF Whole, Mirrored
      <4>2. ASSUME NEW h, NEW e, e = Envelope(h, {}), manifests'[b].manifest_hash = h, manifests'[b].artifact_ref = e
            PROVE  Whole(b, manifests[b].manifest_hash, manifests[b].artifact_ref)' /\ manifests'[b].artifact_ref.signatures = {}
        BY <4>1, <4>2
      <4> QED BY <3>2, <3>3, <4>2
    <3>6. \A m \in DOMAIN manifests : Whole(m, manifests[m].manifest_hash, manifests[m].artifact_ref)'
      BY <1>1, <3>3 DEF ManifestInv, Whole, Mirrored
    <3>7. \A m \in DOMAIN manifests : ~(manifests[m].ws = row.ws /\ manifests[m].manifest_hash = row.manifest_hash)
      BY <2>5 DEF ManifestOf
    <3>8. \A m, n \in DOMAIN manifests' :
            manifests'[m].ws = manifests'[n].ws /\ manifests'[m].manifest_hash = manifests'[n].manifest_hash => m = n
      BY <3>2, <3>3, <3>7 DEF ManifestInv
    <3>9. \A m \in DOMAIN manifests' :
            /\ DOMAIN manifests'[m] = {"ws", "manifest_hash", "artifact_ref", "signed"}
            /\ Whole(m, manifests[m].manifest_hash, manifests[m].artifact_ref)'
            /\ manifests'[m].signed \in BOOLEAN
            /\ manifests'[m].signed <=> manifests'[m].artifact_ref.signatures # {}
      <4>1. DOMAIN manifests'[b] = {"ws", "manifest_hash", "artifact_ref", "signed"} /\ manifests'[b].signed = FALSE
        BY <3>2, <3>3
      <4>2. \A m \in DOMAIN manifests :
              /\ manifests[m].signed \in BOOLEAN
              /\ manifests[m].signed <=> manifests[m].artifact_ref.signatures # {}
              /\ DOMAIN manifests[m] = {"ws", "manifest_hash", "artifact_ref", "signed"}
        BY DEF ManifestInv
      <4> QED BY <3>3, <3>5, <3>6, <4>1, <4>2
    <3>10. DOMAIN manifests' \subseteq DOMAIN builds'
      BY <2>2, <2>5, <3>3 DEF ManifestInv
    <3>11. \A x \in Requests : At(x, "ready", "manifest.sign")' => LoadedManifest(x)'
      <4>1. ASSUME NEW x \in Requests, At(x, "ready", "manifest.sign")' PROVE LoadedManifest(x)'
        <5>1. LoadedManifest(x)
          BY <1>1, <4>1 DEF At, ManifestInv, LoadedManifest
        <5> QED BY <1>1, <3>4, <5>1, LoadedManifestStays
      <4> QED BY <4>1
    <3>12. \A s \in signatures' :
             /\ s.manifest \in DOMAIN manifests' /\ s.by \in Requests
             /\ Called(s.by)' /\ req'[s.by].pc = "done" /\ req'[s.by].ws = manifests'[s.manifest].ws
      BY <1>1, <3>3 DEF ManifestInv, Called
    <3>13. ManifestInv'
      BY <3>8, <3>9, <3>10, <3>11, <3>12 DEF ManifestInv, LoadedManifest
    <3>14. ManifestOf(builds[b].ws, builds[b].manifest_hash)' # {}
      BY <2>2, <2>5, <3>2, <3>3 DEF ManifestOf
    <3>15. BuildInv'
      BY <1>2, <2>2, <2>5, <3>3, <3>4, <3>14, BuildRows
    <3> QED BY <3>4, <3>13, <3>15
  <2> QED BY <1>6, <2>3, <2>4, <2>5 DEF run_build_job
<1> QED BY <1>5, <1>6
\* The tables of a signature's commit: the row, its envelope and the mirror
\* agree, also when the envelope was loaded before another signature's commit
LEMMA SignStep ==
  ASSUME RequestInv, ManifestInv, NEW r \in Requests, sign_manifest_endpoint(r)
  PROVE  ManifestInv' /\ ManifestsKept
<1> DEFINE m == req[r].seen.manifest
           h == manifests[m].manifest_hash
           envelope == req[r].seen.envelope
           key == req[r].seen.key_id
           signed == sign_manifest(envelope, key, r)
           s == [manifest |-> m, key_id |-> key, by |-> r]
<1>1. req[r].pc = "ready" /\ req[r].op = "manifest.sign" /\ builds' = builds
  BY DEF sign_manifest_endpoint, At
<1>2. CASE RollBack(r) /\ UNCHANGED <<manifests, signatures>>
  <2>1. HandlerStep(ManifestOps)
    BY <1>1, <1>2, HandlerForms DEF ManifestOps
  <2>2. Becomes(r, Ended("failed"))
    BY <1>2, AnswerForms DEF RollBack
  <2>3. req'[r].pc = "failed" /\ \A x \in Requests \ {r} : req'[x] = req[x]
    BY <2>2, BecomesFacts, RowFields DEF Ended
  <2>4. \A x \in Requests : req[x].pc = "done" => req'[x] = req[x]
    BY <1>1, <2>3
  <2>5. \A x \in Requests : At(x, "ready", "manifest.sign")' => req'[x] = req[x]
    BY <2>3 DEF At
  <2> QED BY <1>1, <1>2, <2>4, <2>5, ManifestRequests
<1>3. CASE ~(RollBack(r) /\ UNCHANGED <<manifests, signatures>>)
  <2>1. /\ manifests' = [manifests EXCEPT ![m].artifact_ref = signed, ![m].signed = TRUE]
        /\ signatures' = signatures \cup {s} /\ Commit(r, m)
    BY <1>3 DEF sign_manifest_endpoint
  <2>2. m \in DOMAIN manifests /\ manifests[m].ws = req[r].ws /\ Whole(m, h, envelope)
    BY <1>1 DEF ManifestInv, At
  <2>3. signed = Envelope(h, envelope.signatures \cup {[key_id |-> key, by |-> r]})
    BY <2>2, SignedEnvelope DEF Whole
  <2>4. /\ signed = Envelope(h, signed.signatures)
        /\ signed.signatures = envelope.signatures \cup {[key_id |-> key, by |-> r]}
    BY <2>3, EnvelopeParts
  <2>5. Mirrored(m, envelope.signatures)
    BY <2>2 DEF Whole
  <2>6. s.manifest = m /\ s.key_id = key /\ s.by = r
    OBVIOUS
  <2>7. Becomes(r, With(r, "done", NoRows))
    BY <2>1, AnswerForms DEF Commit
  <2>8. req'[r].pc = "done" /\ req'[r].op = req[r].op /\ req'[r].ws = req[r].ws /\ \A x \in Requests \ {r} : req'[x] = req[x]
    BY <2>7, BecomesFacts, RowFields DEF With
  <2>9. \A x \in envelope.signatures \cup {[key_id |-> key, by |-> r]} : [manifest |-> m, key_id |-> x.key_id, by |-> x.by] \in signatures'
    <3>1. \A x \in envelope.signatures : [manifest |-> m, key_id |-> x.key_id, by |-> x.by] \in signatures
      BY <2>5 DEF Mirrored
    <3>2. [manifest |-> m, key_id |-> [key_id |-> key, by |-> r].key_id, by |-> [key_id |-> key, by |-> r].by] = s
      OBVIOUS
    <3> HIDE DEF s, m, envelope, key
    <3> QED BY <2>1, <3>1, <3>2
  <2>10. DOMAIN manifests[m] = {"ws", "manifest_hash", "artifact_ref", "signed"}
    BY <2>2 DEF ManifestInv
  <2> HIDE DEF m, envelope, key, signed, s
  <2>11. DOMAIN manifests' = DOMAIN manifests /\ \A x \in DOMAIN manifests \ {m} : manifests'[x] = manifests[x]
    BY <2>1
  <2>12. /\ DOMAIN manifests'[m] = {"ws", "manifest_hash", "artifact_ref", "signed"}
         /\ manifests'[m].ws = manifests[m].ws /\ manifests'[m].manifest_hash = manifests[m].manifest_hash
         /\ manifests'[m].artifact_ref = signed
    BY <2>1, <2>2, <2>10
  <2>13. manifests'[m].signed = TRUE
    BY <2>1, <2>2, <2>10
  <2>14. ManifestsKept
    BY <2>11, <2>12 DEF ManifestsKept
  <2>15. ASSUME NEW n \in DOMAIN manifests'
         PROVE  Whole(n, manifests[n].manifest_hash, manifests[n].artifact_ref)'
    <3>1. ASSUME NEW k, NEW e, k = h, e = signed, n = m PROVE Whole(n, k, e)'
      BY <2>4, <2>9, <3>1 DEF Whole, Mirrored
    <3>2. CASE n = m
      BY <2>12, <3>1, <3>2
    <3>3. CASE n # m
      <4>1. Whole(n, manifests[n].manifest_hash, manifests[n].artifact_ref) /\ manifests'[n] = manifests[n]
        BY <2>11, <3>3 DEF ManifestInv
      <4>2. ASSUME NEW k, NEW e, k = manifests[n].manifest_hash, e = manifests[n].artifact_ref PROVE Whole(n, k, e)'
        BY <2>1, <4>1, <4>2, WholeStays
      <4> QED BY <4>1, <4>2
    <3> QED BY <3>2, <3>3
  <2>16. signed.signatures # {}
    BY <2>4
  <2>17. \A n \in DOMAIN manifests' :
           /\ DOMAIN manifests'[n] = {"ws", "manifest_hash", "artifact_ref", "signed"}
           /\ manifests'[n].signed \in BOOLEAN
           /\ manifests'[n].signed <=> manifests'[n].artifact_ref.signatures # {}
    <3>1. \A n \in DOMAIN manifests :
            /\ manifests[n].signed \in BOOLEAN
            /\ manifests[n].signed <=> manifests[n].artifact_ref.signatures # {}
            /\ DOMAIN manifests[n] = {"ws", "manifest_hash", "artifact_ref", "signed"}
      BY DEF ManifestInv
    <3>2. manifests'[m].artifact_ref.signatures # {}
      BY <2>12, <2>16
    <3>3. ASSUME NEW n \in DOMAIN manifests', n # m
          PROVE  /\ DOMAIN manifests'[n] = {"ws", "manifest_hash", "artifact_ref", "signed"}
                 /\ manifests'[n].signed \in BOOLEAN
                 /\ manifests'[n].signed <=> manifests'[n].artifact_ref.signatures # {}
      <4>1. n \in DOMAIN manifests /\ manifests'[n] = manifests[n]
        BY <2>11, <3>3
      <4> QED BY <3>1, <4>1
    <3> QED BY <2>12, <2>13, <3>2, <3>3
  <2>18. \A n, k \in DOMAIN manifests' :
           manifests'[n].ws = manifests'[k].ws /\ manifests'[n].manifest_hash = manifests'[k].manifest_hash => n = k
    BY <2>11, <2>14 DEF ManifestInv, ManifestsKept
  <2>19. ASSUME NEW x \in signatures'
         PROVE  /\ x.manifest \in DOMAIN manifests' /\ x.by \in Requests
                /\ Called(x.by)' /\ req'[x.by].pc = "done" /\ req'[x.by].ws = manifests'[x.manifest].ws
    <3>1. CASE x \in signatures
      <4>1. /\ x.manifest \in DOMAIN manifests /\ x.by \in Requests
            /\ Called(x.by) /\ req[x.by].pc = "done" /\ req[x.by].ws = manifests[x.manifest].ws
        BY <3>1 DEF ManifestInv
      <4>2. req'[x.by] = req[x.by]
        BY <1>1, <2>8, <4>1
      <4> QED BY <2>14, <4>1, <4>2 DEF Called, ManifestsKept
    <3>2. CASE x = s
      <4>1. Called(r)'
        BY <1>1, <2>8 DEF Called
      <4> QED BY <2>2, <2>6, <2>8, <2>11, <2>12, <3>2, <4>1
    <3> QED BY <2>1, <3>1, <3>2
  <2>20. \A x \in Requests : At(x, "ready", "manifest.sign")' => LoadedManifest(x)'
    <3>1. ASSUME NEW x \in Requests, At(x, "ready", "manifest.sign")' PROVE LoadedManifest(x)'
      <4>1. req'[x] = req[x]
        BY <2>8, <3>1 DEF At
      <4>2. LoadedManifest(x)
        BY <3>1, <4>1 DEF At, ManifestInv, LoadedManifest
      <4> QED BY <2>1, <2>14, <4>1, <4>2, LoadedManifestStays
    <3> QED BY <3>1
  <2>21. DOMAIN manifests' \subseteq DOMAIN builds'
    BY <1>1, <2>11 DEF ManifestInv
  <2>22. ManifestInv'
    BY <2>15, <2>17, <2>18, <2>19, <2>20, <2>21 DEF ManifestInv, LoadedManifest
  <2> QED BY <2>14, <2>22
<1> QED BY <1>2, <1>3

\* Manifests: a build and its row, a signature and its mirror
LEMMA ManifestStep ==
  ASSUME RequestInv, BuildInv, ManifestInv, ManifestNext
  PROVE  BuildInv' /\ ManifestInv' /\ ManifestsKept
<1>1. HandlerStep(ManifestOps)
  BY ManifestHandlers
<1>2. Foreign({})
  BY <1>1, HandlerIsForeign
<1>3. \A x \in Requests : req[x].pc = "done" => req'[x] = req[x]
  BY <1>2 DEF Foreign
<1>4. ASSUME NEW b \in DOMAIN builds, (\E h : SelectExisting(b, h)) \/ run_build_job(b)
      PROVE  BuildInv' /\ ManifestInv' /\ ManifestsKept
  BY <1>4, BuildJobStep
<1>5. ASSUME UNCHANGED <<manifests, signatures, builds>>,
             \A x \in Requests : At(x, "ready", "manifest.sign")' => req'[x] = req[x] \/ LoadedManifest(x)'
      PROVE  BuildInv' /\ ManifestInv' /\ ManifestsKept
  <2>1. ManifestInv' /\ ManifestsKept
    BY <1>3, <1>5, ManifestRequests
  <2> QED BY <1>2, <1>5, <2>1, BuildFrame
<1>6. CASE RotateKey
  BY <1>5, <1>6 DEF RotateKey, requestVars
<1>7. ASSUME NEW r \in Requests, Refuse(r) \/ Nothing(r), UNCHANGED manifestVars
      PROVE  BuildInv' /\ ManifestInv' /\ ManifestsKept
  <2>1. PICK a \in {"same", "refused", "failed"} : Becomes(r, Ended(a))
    BY <1>7, AnswerForms DEF Refuse, Nothing
  <2>2. req'[r].pc # "ready" /\ \A x \in Requests \ {r} : req'[x] = req[x]
    BY <2>1, BecomesFacts, RowFields DEF Ended
  <2> QED BY <1>5, <1>7, <2>2 DEF At, manifestVars
<1>8. ASSUME NEW r \in Requests, NEW m \in DOMAIN manifests, SignRead(r, m) PROVE BuildInv' /\ ManifestInv' /\ ManifestsKept
  <2> DEFINE rows == [manifest |-> m, envelope |-> manifests[m].artifact_ref, key_id |-> keyFile]
  <2>1. UNCHANGED manifestVars
    BY <1>8 DEF SignRead
  <2>2. CASE Refuse(r)
    BY <1>7, <2>1, <2>2
  <2>3. CASE manifests[m].ws = req[r].ws /\ Loaded(r, rows)
    <3>1. Becomes(r, With(r, "ready", rows))
      BY <2>3, AnswerForms
    <3>2. rows.manifest = m /\ rows.envelope = manifests[m].artifact_ref
      OBVIOUS
    <3> HIDE DEF rows
    <3>3. req'[r].ws = req[r].ws /\ req'[r].seen = rows /\ \A x \in Requests \ {r} : req'[x] = req[x]
      BY <3>1, BecomesFacts, RowFields DEF With
    <3>4. Whole(m, manifests[m].manifest_hash, manifests[m].artifact_ref)
      BY DEF ManifestInv
    <3>5. manifests' = manifests /\ signatures' = signatures
      BY <2>1 DEF manifestVars
    <3>6. LoadedManifest(r)'
      BY <2>3, <3>2, <3>3, <3>4, <3>5 DEF LoadedManifest, Whole, Mirrored
    <3> QED BY <1>5, <2>1, <3>3, <3>6 DEF manifestVars
  <2> QED BY <1>8, <2>2, <2>3 DEF SignRead
<1>9. ASSUME NEW r \in Requests, NEW m, verify_manifest_endpoint(r, m) PROVE BuildInv' /\ ManifestInv' /\ ManifestsKept
  BY <1>7, <1>9 DEF verify_manifest_endpoint
<1>10. ASSUME NEW r \in Requests, sign_manifest_endpoint(r) PROVE BuildInv' /\ ManifestInv' /\ ManifestsKept
  <2>1. ManifestInv' /\ ManifestsKept
    BY <1>10, SignStep
  <2>2. builds' = builds /\ DOMAIN manifests' = DOMAIN manifests
    BY <1>10 DEF sign_manifest_endpoint
  <2> QED BY <1>2, <2>1, <2>2, BuildFrame
<1> QED BY <1>4, <1>6, <1>8, <1>9, <1>10 DEF ManifestNext
-----------------------------------------------------------------------------
(* Reconciliations and what their jobs leave *)

\* The row a request has put together
LoadedReconciliation(r) ==
  LET row == req[r].seen IN
  /\ DOMAIN row = ReconciliationColumns
  /\ row.ws = req[r].ws /\ row.state = "pending" /\ Refers(row) /\ Known(row.snapshot)

\* The tables a reconciliation refers to may only grow, or lose what nobody pinned
InputsKept == SnapshotsKept(Pinned) /\ ManifestsKept /\ revisions \subseteq revisions'

\* What a row refers to stays, unless its snapshot goes
LEMMA RefersStays ==
  ASSUME InputsKept, NEW row, Refers(row), Known(row.snapshot)
  PROVE  Refers(row)'
<1>1. row.manifest \in DOMAIN manifests' /\ manifests'[row.manifest].ws = row.ws
  BY DEF InputsKept, ManifestsKept, Refers
<1>2. row.snapshot \in DOMAIN snapshots' => snapshots'[row.snapshot].artifact_ref = "set" /\ snapshots'[row.snapshot].ws = row.ws
  BY DEF InputsKept, SnapshotsKept, Refers, Known
<1>3. row.revision # None => row.revision \in revisions' /\ row.revision.ws = row.ws
  BY DEF InputsKept, Refers
<1> QED BY <1>1, <1>2, <1>3 DEF Refers

\* The inputs of a reconciliation are its own for good
LEMMA InputsStay ==
  ASSUME InputsKept, ReconciliationInv, SnapshotInv, NEW x \in DOMAIN reconciliations
  PROVE  LET row == reconciliations[x] IN
         /\ row.snapshot \in DOMAIN snapshots' /\ snapshots'[row.snapshot] = snapshots[row.snapshot]
         /\ row.manifest \in DOMAIN manifests
         /\ manifests'[row.manifest].manifest_hash = manifests[row.manifest].manifest_hash
         /\ Known(row.snapshot)
<1> DEFINE row == reconciliations[x]
<1>1. Refers(row) /\ row.snapshot \in DOMAIN snapshots /\ row.snapshot \in Pinned
  BY DEF ReconciliationInv, Pinned
<1>2. Known(row.snapshot)
  BY <1>1 DEF SnapshotInv
<1> HIDE DEF row
<1>3. row.snapshot \in DOMAIN snapshots' /\ snapshots'[row.snapshot] = snapshots[row.snapshot]
  BY <1>1, <1>2 DEF InputsKept, SnapshotsKept, Refers, Known
<1>4. row.manifest \in DOMAIN manifests /\ manifests'[row.manifest].manifest_hash = manifests[row.manifest].manifest_hash
  BY <1>1 DEF InputsKept, ManifestsKept, Refers
<1> QED BY <1>2, <1>3, <1>4 DEF row

\* Requests move, inputs stay, and the rows of reconciliations are left alone
LEMMA ReconciliationRequests ==
  ASSUME ReconciliationInv, WorkInv, SnapshotInv, InputsKept, UNCHANGED reconciliationVars,
         \A x \in Requests : req[x].pc = "done" => req'[x] = req[x],
         \A x \in Requests : At(x, "ready", "reconciliation.create")' => req'[x] = req[x] \/ LoadedReconciliation(x)'
  PROVE  ReconciliationInv' /\ WorkInv'
<1>1. /\ reconciliations' = reconciliations /\ findings' = findings /\ evaluations' = evaluations
      /\ reports' = reports /\ work' = work
  BY DEF reconciliationVars
<1>2. \A x : Known(x) => Known(x)'
  BY DEF Known
<1>3. ASSUME NEW x \in DOMAIN reconciliations
      PROVE  /\ Refers(reconciliations[x])' /\ reconciliations[x].snapshot \in DOMAIN snapshots'
             /\ Called(x)' /\ req'[x].pc = "done" /\ req'[x].ws = reconciliations[x].ws
  <2>1. /\ x \in Requests /\ Called(x) /\ req[x].pc = "done" /\ req[x].ws = reconciliations[x].ws
        /\ Refers(reconciliations[x])
    BY DEF ReconciliationInv
  <2>2. ASSUME NEW row, row = reconciliations[x] PROVE Refers(row)' /\ row.snapshot \in DOMAIN snapshots'
    BY <2>1, <2>2, InputsStay, RefersStays
  <2> QED BY <1>1, <2>1, <2>2 DEF Called
<1>4. ASSUME NEW r \in Requests, At(r, "ready", "reconciliation.create")' PROVE LoadedReconciliation(r)'
  <2>1. CASE req'[r] = req[r]
    <3>1. LoadedReconciliation(r)
      BY <1>4, <2>1 DEF At, ReconciliationInv, LoadedReconciliation
    <3>2. ASSUME NEW row, row = req[r].seen PROVE Refers(row)' /\ Known(row.snapshot)'
      BY <1>2, <3>1, <3>2, RefersStays DEF LoadedReconciliation
    <3> QED BY <2>1, <3>1, <3>2 DEF LoadedReconciliation
  <2> QED BY <1>4, <2>1
<1>5. ReconciliationInv'
  BY <1>1, <1>3, <1>4 DEF ReconciliationInv, LoadedReconciliation
<1>6. ASSUME NEW x \in DOMAIN reconciliations PROVE ReportOf(reconciliations[x])' = ReportOf(reconciliations[x])
  BY <1>1, InputsStay DEF ReportOf
<1>7. RecordsAreWhole'
  <2>1. \A x : FindingsOf(x)' = FindingsOf(x)
    BY <1>1 DEF FindingsOf
  <2>2. \A x \in DOMAIN reconciliations :
          /\ manifests'[reconciliations[x].manifest].manifest_hash = manifests[reconciliations[x].manifest].manifest_hash
          /\ snapshots'[reconciliations[x].snapshot] = snapshots[reconciliations[x].snapshot]
    BY InputsStay
  <2>3. RecordsAreWhole
    BY DEF WorkInv
  <2> QED BY <1>1, <2>1, <2>2, <2>3 DEF RecordsAreWhole
<1>8. WorkInv'
  BY <1>1, <1>6, <1>7 DEF WorkInv
<1> QED BY <1>5, <1>8

\* Nobody else writes reconciliations
LEMMA ReconciliationFrame ==
  ASSUME ReconciliationInv, WorkInv, SnapshotInv, InputsKept, Foreign(ReconciliationOps), UNCHANGED reconciliationVars
  PROVE  ReconciliationInv' /\ WorkInv'
<1>1. \A x \in Requests : req[x].pc = "done" => req'[x] = req[x]
  BY DEF Foreign
<1>2. \A x \in Requests : At(x, "ready", "reconciliation.create")' => req'[x] = req[x]
  BY DEF Foreign, At, ReconciliationOps
<1> QED BY <1>1, <1>2, ReconciliationRequests
\* Creating a reconciliation
LEMMA ReconciliationHandlerStep ==
  ASSUME RequestInv, PolicyInv, SnapshotInv, ManifestInv, ReconciliationInv, WorkInv, NEW r \in Requests,
         UNCHANGED <<policyVars, targetVars, manifestVars>>,
         \/ \E m \in DOMAIN manifests, s \in DOMAIN snapshots, p \in DOMAIN policies \cup {None} :
              CreateReconciliationRead(r, m, s, p)
         \/ create_reconciliation(r)
         \/ \E x : evaluate_policy_endpoint(r, x) \/ get_remediation_plan(r, x)
  PROVE  ReconciliationInv' /\ WorkInv'
<1>1. revisions' = revisions /\ snapshots' = snapshots /\ manifests' = manifests
  BY DEF policyVars, targetVars, manifestVars
<1>2. InputsKept
  BY <1>1 DEF InputsKept, SnapshotsKept, ManifestsKept
<1>3. ASSUME Refuse(r) \/ Nothing(r) \/ RollBack(r), UNCHANGED reconciliationVars, req[r].pc # "done"
      PROVE  ReconciliationInv' /\ WorkInv'
  <2>1. PICK a \in {"same", "refused", "failed"} : Becomes(r, Ended(a))
    BY <1>3, AnswerForms DEF Refuse, Nothing, RollBack
  <2>2. req'[r].pc # "ready" /\ \A x \in Requests \ {r} : req'[x] = req[x]
    BY <2>1, BecomesFacts, RowFields DEF Ended
  <2> QED BY <1>2, <1>3, <2>2, ReconciliationRequests DEF At
<1>4. ASSUME NEW x, evaluate_policy_endpoint(r, x) \/ get_remediation_plan(r, x) PROVE ReconciliationInv' /\ WorkInv'
  <2>1. ASSUME NEW op, ReadReport(r, x, op) PROVE ReconciliationInv' /\ WorkInv'
    <3>1. req[r].pc = "authed" /\ UNCHANGED reconciliationVars
      BY <2>1 DEF ReadReport, At
    <3>2. Refuse(r) \/ Nothing(r) \/ RollBack(r)
      BY <2>1 DEF ReadReport
    <3> QED BY <1>3, <3>1, <3>2
  <2> QED BY <1>4, <2>1 DEF evaluate_policy_endpoint, get_remediation_plan
<1>5. ASSUME NEW m \in DOMAIN manifests, NEW s \in DOMAIN snapshots, NEW p \in DOMAIN policies \cup {None},
             CreateReconciliationRead(r, m, s, p)
      PROVE  ReconciliationInv' /\ WorkInv'
  <2> DEFINE v == IF p = None THEN None ELSE latest_revision(p)
             row == [ws |-> req[r].ws, manifest |-> m, snapshot |-> s, revision |-> v,
                     state |-> "pending", report_artifact |-> None]
  <2>1. req[r].pc = "authed" /\ UNCHANGED reconciliationVars
    BY <1>5 DEF CreateReconciliationRead, At
  <2>2. CASE Refuse(r)
    BY <1>3, <2>1, <2>2
  <2>3. CASE ~Refuse(r)
    <3>1. /\ manifests[m].ws = req[r].ws /\ snapshots[s].ws = req[r].ws /\ snapshots[s].artifact_ref # "null"
          /\ p # None => policies[p].ws = req[r].ws
          /\ Loaded(r, row)
      BY <1>5, <2>3 DEF CreateReconciliationRead
    <3>2. v # None => v \in revisions /\ v.ws = req[r].ws
      <4>1. CASE p = None
        BY <4>1
      <4>2. CASE p # None
        <5>1. p \in DOMAIN policies
          BY <4>2
        <5>2. latest_revision(p) \in RevisionsOf(p)
          BY <5>1, LatestRevision
        <5>3. v = latest_revision(p) /\ v \in revisions /\ v.policy = p
          BY <4>2, <5>2 DEF RevisionsOf
        <5>4. v.ws = policies[p].ws
          BY <5>3 DEF PolicyInv
        <5> QED BY <3>1, <4>2, <5>3, <5>4
      <4> QED BY <4>1, <4>2
    <3>3. snapshots[s].artifact_ref = "set" /\ Known(s)
      BY <3>1 DEF SnapshotInv
    <3>4. /\ DOMAIN row = ReconciliationColumns /\ row.ws = req[r].ws /\ row.manifest = m /\ row.snapshot = s
          /\ row.revision = v /\ row.state = "pending"
      BY DEF ReconciliationColumns
    <3> HIDE DEF v, row
    <3>5. Becomes(r, With(r, "ready", row))
      BY <3>1, AnswerForms
    <3>6. req'[r].ws = req[r].ws /\ req'[r].seen = row /\ \A x \in Requests \ {r} : req'[x] = req[x]
      BY <3>5, BecomesFacts, RowFields DEF With
    <3>7. Known(s)'
      BY <2>1, <3>3, <3>6 DEF Known
    <3>8. LoadedReconciliation(r)'
      BY <1>1, <3>1, <3>2, <3>3, <3>4, <3>6, <3>7 DEF LoadedReconciliation, Refers
    <3> QED BY <1>2, <2>1, <3>6, <3>8, ReconciliationRequests
  <2> QED BY <2>2, <2>3
<1>6. CASE create_reconciliation(r)
  <2> DEFINE row == req[r].seen
  <2>1. /\ req[r].pc = "ready" /\ req[r].op = "reconciliation.create"
        /\ findings' = findings /\ evaluations' = evaluations /\ reports' = reports
    BY <1>6 DEF create_reconciliation, At
  <2>2. CASE RollBack(r) /\ UNCHANGED <<reconciliations, work>>
    BY <1>3, <2>1, <2>2 DEF reconciliationVars
  <2>3. CASE ~(RollBack(r) /\ UNCHANGED <<reconciliations, work>>)
    <3>1. /\ row.snapshot \in DOMAIN snapshots /\ reconciliations' = Insert(reconciliations, r, row)
          /\ work' = Insert(work, r, NoWork) /\ Commit(r, r)
      BY <1>6, <2>3 DEF create_reconciliation
    <3>2. DOMAIN row = ReconciliationColumns /\ row.ws = req[r].ws /\ row.state = "pending" /\ Refers(row)
      BY <2>1 DEF ReconciliationInv, At
    <3>3. r \notin DOMAIN reconciliations
      BY <2>1 DEF ReconciliationInv
    <3>4. DOMAIN NoWork = {"attempts", "at", "inputs"} /\ NoWork.at = "idle"
      BY DEF NoWork
    <3>5. Becomes(r, With(r, "done", NoRows))
      BY <3>1, AnswerForms DEF Commit
    <3>6. req'[r].pc = "done" /\ req'[r].op = req[r].op /\ req'[r].ws = req[r].ws /\ \A x \in Requests \ {r} : req'[x] = req[x]
      BY <3>5, BecomesFacts, RowFields DEF With
    <3> HIDE DEF row
    <3>7. /\ DOMAIN reconciliations' = DOMAIN reconciliations \cup {r} /\ reconciliations'[r] = row
          /\ \A x \in DOMAIN reconciliations : reconciliations'[x] = reconciliations[x]
      BY <3>1, <3>3 DEF Insert
    <3>8. DOMAIN work = DOMAIN reconciliations
      BY DEF WorkInv
    <3>9. /\ DOMAIN work' = DOMAIN reconciliations' /\ work'[r] = NoWork
          /\ \A x \in DOMAIN reconciliations : work'[x] = work[x]
      BY <3>1, <3>3, <3>7, <3>8 DEF Insert
    <3>10. \A x : Known(x) => Known(x)'
      BY <3>6 DEF Known
    <3>11. Called(r)'
      BY <2>1, <3>6 DEF Called
    <3>12. ASSUME NEW x \in DOMAIN reconciliations'
           PROVE  /\ x \in Requests /\ Called(x)' /\ req'[x].pc = "done" /\ req'[x].ws = reconciliations'[x].ws
                  /\ DOMAIN reconciliations'[x] = ReconciliationColumns
                  /\ Refers(reconciliations[x])' /\ reconciliations'[x].snapshot \in DOMAIN snapshots'
      <4>1. \A z : Refers(z) => Refers(z)'
        BY <1>1 DEF Refers
      <4>2. CASE x = r
        <5>1. \A z : z = row => Refers(z)'
          BY <3>2, <4>1
        <5> QED BY <1>1, <3>1, <3>2, <3>6, <3>7, <3>11, <4>2, <5>1
      <4>3. CASE x # r
        <5>1. x \in DOMAIN reconciliations /\ reconciliations'[x] = reconciliations[x]
          BY <3>7, <4>3
        <5>2. /\ x \in Requests /\ Called(x) /\ req[x].pc = "done" /\ req[x].ws = reconciliations[x].ws
              /\ DOMAIN reconciliations[x] = ReconciliationColumns
              /\ Refers(reconciliations[x]) /\ reconciliations[x].snapshot \in DOMAIN snapshots
          BY <5>1 DEF ReconciliationInv
        <5>3. req'[x] = req[x]
          BY <3>6, <4>3, <5>2
        <5>4. \A z : z = reconciliations[x] => Refers(z)'
          BY <4>1, <5>2
        <5> QED BY <1>1, <5>1, <5>2, <5>3, <5>4 DEF Called
      <4> QED BY <4>2, <4>3
    <3>13. ASSUME NEW x \in Requests, At(x, "ready", "reconciliation.create")' PROVE LoadedReconciliation(x)'
      <4>1. req'[x] = req[x]
        BY <3>6, <3>13 DEF At
      <4>2. LoadedReconciliation(x)
        BY <3>13, <4>1 DEF At, ReconciliationInv, LoadedReconciliation
      <4> QED BY <1>1, <3>10, <4>1, <4>2 DEF LoadedReconciliation, Refers
    <3>14. ReconciliationInv'
      BY <3>12, <3>13 DEF ReconciliationInv, LoadedReconciliation
    <3>15. \A x \in DOMAIN reconciliations : ReportOf(reconciliations[x])' = ReportOf(reconciliations[x])
      BY <1>1, <3>7 DEF ReportOf
    <3>16. FindingsOf(r) = {} /\ {e \in evaluations : e.reconciliation = r} = {} /\ \A x : FindingsOf(x)' = FindingsOf(x)
      BY <2>1, <3>3 DEF WorkInv, FindingsOf
    <3>17. RecordsAreWhole'
      <4>1. RecordsAreWhole
        BY DEF WorkInv
      <4> QED BY <1>1, <2>1, <3>2, <3>7, <3>16, <4>1 DEF RecordsAreWhole
    <3>18. WorkInv'
      BY <2>1, <3>2, <3>4, <3>7, <3>9, <3>15, <3>17 DEF WorkInv
    <3> QED BY <3>14, <3>18
  <2> QED BY <2>2, <2>3
<1> QED BY <1>4, <1>5, <1>6
\* A job's step writes no column that a report depends on
LEMMA JobKeepsInputs ==
  ASSUME ReconciliationInv, req' = req, UNCHANGED <<policyVars, targetVars, manifestVars>>,
         DOMAIN reconciliations' = DOMAIN reconciliations,
         \A x \in DOMAIN reconciliations :
           /\ DOMAIN reconciliations'[x] = ReconciliationColumns
           /\ reconciliations'[x].ws = reconciliations[x].ws /\ reconciliations'[x].manifest = reconciliations[x].manifest
           /\ reconciliations'[x].snapshot = reconciliations[x].snapshot
           /\ reconciliations'[x].revision = reconciliations[x].revision
  PROVE  /\ ReconciliationInv'
         /\ \A x \in DOMAIN reconciliations : ReportOf(reconciliations[x])' = ReportOf(reconciliations[x])
<1>1. revisions' = revisions /\ snapshots' = snapshots /\ manifests' = manifests
  BY DEF policyVars, targetVars, manifestVars
<1>2. \A x \in DOMAIN reconciliations : Refers(reconciliations[x])' /\ reconciliations'[x].snapshot \in DOMAIN snapshots'
  BY <1>1 DEF ReconciliationInv, Refers
<1>3. \A r \in Requests : At(r, "ready", "reconciliation.create")' => LoadedReconciliation(r)'
  BY <1>1 DEF At, ReconciliationInv, LoadedReconciliation, Refers, Known
<1>4. ReconciliationInv'
  BY <1>2, <1>3 DEF ReconciliationInv, LoadedReconciliation, Called
<1>5. \A x \in DOMAIN reconciliations : ReportOf(reconciliations[x])' = ReportOf(reconciliations[x])
  BY <1>1 DEF ReportOf
<1> QED BY <1>4, <1>5

\* What a report says of its inputs
LEMMA ReportFacts ==
  ASSUME NEW row
  PROVE  /\ ReportOf(row).result = <<manifests[row.manifest].manifest_hash, snapshots[row.snapshot].capture>>
         /\ row.revision # None => ReportOf(row).document = row.revision.document
BY DEF ReportOf, Report

\* The gate lets pass what the verdict passes, and fails what it could not decide
LEMMA GateFacts ==
  ASSUME NEW verdict
  PROVE  /\ (gate(verdict) = "pass") = (verdict = "PASS")
         /\ verdict \in {"FAIL", "INCONCLUSIVE"} => gate(verdict) = "fail"
BY DEF gate
\* Attempts that start, store their report or give up leave the records alone
LEMMA AttemptStep ==
  ASSUME ManifestInv, ReconciliationInv, WorkInv, UNCHANGED <<policyVars, targetVars, manifestVars>>,
         NEW x \in DOMAIN reconciliations, StartAttempt(x) \/ PutReport(x) \/ AbandonAttempt(x)
  PROVE  ReconciliationInv' /\ WorkInv'
<1>1. /\ req' = req /\ findings' = findings /\ evaluations' = evaluations /\ snapshots' = snapshots /\ manifests' = manifests
      /\ reports \subseteq reports'
  BY DEF StartAttempt, PutReport, AbandonAttempt, requestVars, targetVars, manifestVars
<1>2. x \in DOMAIN work /\ DOMAIN work = DOMAIN reconciliations /\ DOMAIN work[x] = {"attempts", "at", "inputs"}
  BY DEF WorkInv
<1>3. DOMAIN reconciliations[x] = ReconciliationColumns
  BY DEF ReconciliationInv
<1>4. /\ DOMAIN reconciliations' = DOMAIN reconciliations
      /\ \A y \in DOMAIN reconciliations \ {x} : reconciliations'[y] = reconciliations[y]
      /\ reconciliations'[x] # reconciliations[x] =>
           reconciliations[x].state = "pending" /\ reconciliations' = [reconciliations EXCEPT ![x].state = "cancelled"]
  BY DEF StartAttempt, PutReport, AbandonAttempt
<1>5. /\ DOMAIN reconciliations'[x] = ReconciliationColumns
      /\ reconciliations'[x].ws = reconciliations[x].ws /\ reconciliations'[x].manifest = reconciliations[x].manifest
      /\ reconciliations'[x].snapshot = reconciliations[x].snapshot
      /\ reconciliations'[x].revision = reconciliations[x].revision
      /\ reconciliations'[x].report_artifact = reconciliations[x].report_artifact
      /\ reconciliations'[x].state = "completed" <=> reconciliations[x].state = "completed"
  <2>1. CASE reconciliations'[x] = reconciliations[x]
    BY <1>3, <2>1
  <2>2. CASE reconciliations'[x] # reconciliations[x]
    BY <1>3, <1>4, <2>2 DEF ReconciliationColumns
  <2> QED BY <2>1, <2>2
<1>6. \A y \in DOMAIN reconciliations :
        /\ DOMAIN reconciliations'[y] = ReconciliationColumns
        /\ reconciliations'[y].ws = reconciliations[y].ws /\ reconciliations'[y].manifest = reconciliations[y].manifest
        /\ reconciliations'[y].snapshot = reconciliations[y].snapshot
        /\ reconciliations'[y].revision = reconciliations[y].revision
        /\ reconciliations'[y].report_artifact = reconciliations[y].report_artifact
        /\ reconciliations'[y].state = "completed" <=> reconciliations[y].state = "completed"
  BY <1>4, <1>5 DEF ReconciliationInv
<1>7. /\ ReconciliationInv'
      /\ \A y \in DOMAIN reconciliations : ReportOf(reconciliations[y])' = ReportOf(reconciliations[y])
  BY <1>1, <1>4, <1>6, JobKeepsInputs
<1>8. RecordsAreWhole'
  <2>1. RecordsAreWhole /\ \A y : FindingsOf(y)' = FindingsOf(y)
    BY <1>1 DEF WorkInv, FindingsOf
  <2> QED BY <1>1, <1>4, <1>6, <2>1 DEF RecordsAreWhole
<1>9. /\ DOMAIN work' = DOMAIN work /\ \A y \in DOMAIN work \ {x} : work'[y] = work[y]
      /\ DOMAIN work'[x] = {"attempts", "at", "inputs"}
      /\ work'[x].at # "idle" => work'[x].inputs = ReportOf(reconciliations[x])
      /\ work'[x].at = "stored" => work'[x].inputs \in reports'
  <2>1. CASE StartAttempt(x)
    <3> DEFINE row == reconciliations[x]
               inputs == Report(manifests[row.manifest].artifact_ref.signing_view, snapshots[row.snapshot].capture,
                                IF row.revision = None THEN None ELSE row.revision.document)
    <3>1. work' = [work EXCEPT ![x] = [attempts |-> work[x].attempts + 1, at |-> "running", inputs |-> inputs]]
      BY <1>2, <2>1 DEF StartAttempt
    <3>2. row.manifest \in DOMAIN manifests
      BY DEF ReconciliationInv, Refers
    <3>3. manifests[row.manifest].artifact_ref.signing_view = manifests[row.manifest].manifest_hash
      BY <3>2, EnvelopeParts DEF ManifestInv, Whole
    <3>4. inputs = ReportOf(row)
      BY <3>3 DEF ReportOf
    <3> HIDE DEF inputs, row
    <3> QED BY <1>2, <3>1, <3>4 DEF row
  <2>2. CASE PutReport(x)
    <3>1. /\ work[x].at = "running" /\ reports' = reports \cup {work[x].inputs}
          /\ work' = [work EXCEPT ![x].at = "stored"]
      BY <2>2 DEF PutReport
    <3>2. work[x].inputs = ReportOf(reconciliations[x])
      BY <1>2, <3>1 DEF WorkInv
    <3> QED BY <1>2, <3>1, <3>2
  <2>3. CASE AbandonAttempt(x)
    <3>1. work' = [work EXCEPT ![x].at = "idle", ![x].inputs = None]
      BY <2>3 DEF AbandonAttempt
    <3> QED BY <1>2, <3>1
  <2> QED BY <2>1, <2>2, <2>3
<1>10. \A y \in DOMAIN work :
         /\ work'[y].at # "idle" => work'[y].inputs = ReportOf(reconciliations[y])
         /\ work'[y].at = "stored" => work'[y].inputs \in reports'
         /\ DOMAIN work'[y] = {"attempts", "at", "inputs"}
  BY <1>1, <1>9 DEF WorkInv
<1>11. WorkInv'
  BY <1>1, <1>2, <1>4, <1>6, <1>7, <1>8, <1>9, <1>10 DEF WorkInv
<1> QED BY <1>7, <1>11
\* The job's commit: records and state together, and an attempt that runs
\* again comes to the records that are there
LEMMA CommitStep ==
  ASSUME ReconciliationInv, WorkInv, UNCHANGED <<policyVars, targetVars, manifestVars>>,
         NEW x \in DOMAIN reconciliations, run_reconcile_job(x)
  PROVE  ReconciliationInv' /\ WorkInv'
<1> DEFINE row == reconciliations[x]
           report == work[x].inputs
           rows == {[reconciliation |-> x, fingerprint |-> f, report |-> report] : f \in report.findings}
           result == [reconciliation |-> x, attempt |-> work[x].attempts, revision |-> row.revision,
                      result |-> gate(report.verdict)]
           added == IF row.revision = None THEN {} ELSE {result}
           runs(y) == {e \in evaluations : e.reconciliation = y}
<1>1. /\ req' = req /\ reports' = reports /\ snapshots' = snapshots /\ manifests' = manifests
      /\ work[x].at = "stored" /\ work' = [work EXCEPT ![x].at = "idle", ![x].inputs = None]
  BY DEF run_reconcile_job, requestVars, targetVars, manifestVars
<1>2. x \in DOMAIN work /\ DOMAIN work = DOMAIN reconciliations /\ DOMAIN work[x] = {"attempts", "at", "inputs"}
  BY DEF WorkInv
<1>3. report = ReportOf(row) /\ report \in reports
  BY <1>1, <1>2 DEF WorkInv
<1>4. DOMAIN row = ReconciliationColumns
  BY DEF ReconciliationInv
<1>5. /\ DOMAIN work' = DOMAIN work /\ \A y \in DOMAIN work \ {x} : work'[y] = work[y]
      /\ DOMAIN work'[x] = {"attempts", "at", "inputs"} /\ work'[x].at = "idle"
  BY <1>1, <1>2
<1>6. RecordsAreWhole
  BY DEF WorkInv
<1>7. CASE UNCHANGED <<reconciliations, findings, evaluations>>
  <2>1. /\ ReconciliationInv'
        /\ \A y \in DOMAIN reconciliations : ReportOf(reconciliations[y])' = ReportOf(reconciliations[y])
    BY <1>1, <1>7, JobKeepsInputs DEF ReconciliationInv
  <2>2. RecordsAreWhole'
    BY <1>1, <1>6, <1>7 DEF RecordsAreWhole, FindingsOf
  <2>3. WorkInv'
    BY <1>1, <1>2, <1>5, <1>7, <2>1, <2>2 DEF WorkInv
  <2> QED BY <2>1, <2>3
<1>8. CASE ~UNCHANGED <<reconciliations, findings, evaluations>>
  <2>1. /\ {f.fingerprint : f \in FindingsOf(x)} \cap report.findings = {}
        /\ findings' = findings \cup rows /\ evaluations' = evaluations \cup added
        /\ reconciliations' = [reconciliations EXCEPT ![x].state = "completed", ![x].report_artifact = report]
    BY <1>8 DEF run_reconcile_job
  <2>2. /\ report.result = <<manifests[row.manifest].manifest_hash, snapshots[row.snapshot].capture>>
        /\ row.revision # None => report.document = row.revision.document
    BY <1>3, ReportFacts
  <2>3. row.state = "completed" => row.report_artifact = report
    BY <1>3 DEF WorkInv
  <2> HIDE DEF report
  <2>4. \A f \in rows : f.reconciliation = x /\ f.report = report
    OBVIOUS
  <2>5. {f.fingerprint : f \in rows} = report.findings
    <3> DEFINE found == report.findings
    <3>1. ASSUME NEW g \in found PROVE [reconciliation |-> x, fingerprint |-> g, report |-> report] \in rows
      OBVIOUS
    <3>2. \A g \in found : g \in {f.fingerprint : f \in rows}
      <4>1. \A g : [reconciliation |-> x, fingerprint |-> g, report |-> report].fingerprint = g
        OBVIOUS
      <4> HIDE DEF rows, found
      <4> QED BY <3>1, <4>1
    <3>3. \A f \in rows : f.fingerprint \in found
      OBVIOUS
    <3> HIDE DEF rows
    <3> QED BY <3>2, <3>3
  <2>6. \A e \in added : e = result /\ row.revision # None
    OBVIOUS
  <2>7. /\ result.reconciliation = x /\ result.revision = row.revision
        /\ (result.result = "pass") = (report.verdict = "PASS")
        /\ report.verdict \in {"FAIL", "INCONCLUSIVE"} => result.result = "fail"
    <3>1. result.reconciliation = x /\ result.revision = row.revision /\ result.result = gate(report.verdict)
      OBVIOUS
    <3> HIDE DEF result
    <3> QED BY <3>1, GateFacts
  <2>8. row.revision # None => result \in added
    OBVIOUS
  <2> HIDE DEF rows, result, added
  <2>9. /\ DOMAIN reconciliations' = DOMAIN reconciliations
        /\ \A y \in DOMAIN reconciliations \ {x} : reconciliations'[y] = reconciliations[y]
    BY <2>1
  <2>10. /\ DOMAIN reconciliations'[x] = ReconciliationColumns
         /\ reconciliations'[x].ws = row.ws /\ reconciliations'[x].manifest = row.manifest
         /\ reconciliations'[x].snapshot = row.snapshot /\ reconciliations'[x].revision = row.revision
         /\ reconciliations'[x].state = "completed" /\ reconciliations'[x].report_artifact = report
    BY <1>4, <2>1 DEF ReconciliationColumns
  <2>11. /\ ReconciliationInv'
         /\ \A y \in DOMAIN reconciliations : ReportOf(reconciliations[y])' = ReportOf(reconciliations[y])
    BY <1>1, <2>9, <2>10, JobKeepsInputs DEF ReconciliationInv
  <2>12. FindingsOf(x)' = FindingsOf(x) \cup rows /\ \A y : y # x => FindingsOf(y)' = FindingsOf(y)
    BY <2>1, <2>4 DEF FindingsOf
  <2>13. runs(x)' = runs(x) \cup added /\ \A y : y # x => runs(y)' = runs(y)
    BY <2>1, <2>6, <2>7
  <2>14. /\ {f.fingerprint : f \in FindingsOf(x)'} = report.findings
         /\ \A f \in FindingsOf(x)' : f.report = report
    <3>1. CASE row.state = "completed"
      <4>1. {f.fingerprint : f \in FindingsOf(x)} = report.findings /\ \A f \in FindingsOf(x) : f.report = report
        BY <1>6, <2>3, <3>1 DEF RecordsAreWhole
      <4> QED BY <2>4, <2>5, <2>12, <4>1
    <3>2. CASE row.state # "completed"
      <4>1. FindingsOf(x) = {}
        BY <1>6, <3>2 DEF RecordsAreWhole
      <4> QED BY <2>4, <2>5, <2>12, <4>1
    <3> QED BY <3>1, <3>2
  <2>15. /\ (runs(x)' # {}) = (row.revision # None)
         /\ \A e \in runs(x)' :
              /\ e.revision = row.revision /\ report.document = e.revision.document
              /\ (e.result = "pass") = (report.verdict = "PASS")
              /\ report.verdict \in {"FAIL", "INCONCLUSIVE"} => e.result = "fail"
    <3>1. /\ row.revision = None => runs(x) = {}
          /\ \A e \in runs(x) :
               /\ e.revision = row.revision /\ report.document = e.revision.document
               /\ (e.result = "pass") = (report.verdict = "PASS")
               /\ report.verdict \in {"FAIL", "INCONCLUSIVE"} => e.result = "fail"
      <4>1. CASE row.state = "completed"
        BY <1>6, <2>3, <4>1 DEF RecordsAreWhole
      <4>2. CASE row.state # "completed"
        BY <1>6, <4>2 DEF RecordsAreWhole
      <4> QED BY <4>1, <4>2
    <3> HIDE DEF runs
    <3>2. \A e \in added :
            /\ e.revision = row.revision /\ report.document = e.revision.document
            /\ (e.result = "pass") = (report.verdict = "PASS")
            /\ report.verdict \in {"FAIL", "INCONCLUSIVE"} => e.result = "fail"
      BY <2>2, <2>6, <2>7
    <3>3. (runs(x)' # {}) <=> (row.revision # None)
      BY <2>6, <2>8, <2>13, <3>1
    <3> QED BY <2>13, <3>1, <3>2, <3>3
  <2>16. RecordsAreWhole'
    <3>1. ASSUME NEW y \in DOMAIN reconciliations, y # x
          PROVE  /\ reconciliations'[y] = reconciliations[y] /\ FindingsOf(y)' = FindingsOf(y)
                 /\ {e \in evaluations' : e.reconciliation = y} = {e \in evaluations : e.reconciliation = y}
      BY <2>9, <2>12, <2>13, <3>1
    <3>2. {e \in evaluations' : e.reconciliation = x} = runs(x)'
      OBVIOUS
    <3> HIDE DEF runs, row
    <3>3. x \in DOMAIN reconciliations' /\ report \in reports'
      BY <1>1, <1>3, <2>9
    <3> QED BY <1>1, <1>6, <2>2, <2>9, <2>10, <2>14, <2>15, <3>1, <3>2, <3>3 DEF RecordsAreWhole
  <2>17. \A y \in DOMAIN reconciliations : reconciliations'[y].state = "completed" =>
           reconciliations'[y].report_artifact = ReportOf(reconciliations[y])
    BY <1>3, <2>9, <2>10 DEF WorkInv
  <2>18. /\ \A f \in findings' : f.reconciliation \in DOMAIN reconciliations
         /\ \A e \in evaluations' : e.reconciliation \in DOMAIN reconciliations
    BY <2>1, <2>4, <2>6, <2>7 DEF WorkInv
  <2>19. WorkInv'
    BY <1>1, <1>2, <1>5, <2>9, <2>11, <2>16, <2>17, <2>18 DEF WorkInv
  <2> QED BY <2>11, <2>19
<1> QED BY <1>7, <1>8
\* Reconciliations: their rows, records and reports stay one
LEMMA ReconciliationStep ==
  ASSUME RequestInv, PolicyInv, SnapshotInv, ManifestInv, ReconciliationInv, WorkInv, ReconciliationNext,
         UNCHANGED <<policyVars, targetVars, manifestVars>>
  PROVE  ReconciliationInv' /\ WorkInv'
<1>1. ASSUME NEW r \in Requests,
             \/ \E m \in DOMAIN manifests, s \in DOMAIN snapshots, p \in DOMAIN policies \cup {None} :
                  CreateReconciliationRead(r, m, s, p)
             \/ create_reconciliation(r)
             \/ \E x : evaluate_policy_endpoint(r, x) \/ get_remediation_plan(r, x)
      PROVE  ReconciliationInv' /\ WorkInv'
  BY <1>1, ReconciliationHandlerStep
<1>2. ASSUME NEW x \in DOMAIN reconciliations, StartAttempt(x) \/ PutReport(x) \/ AbandonAttempt(x)
      PROVE  ReconciliationInv' /\ WorkInv'
  BY <1>2, AttemptStep
<1>3. ASSUME NEW x \in DOMAIN reconciliations, run_reconcile_job(x) PROVE ReconciliationInv' /\ WorkInv'
  BY <1>3, CommitStep
<1> QED BY <1>1, <1>2, <1>3 DEF ReconciliationNext

-----------------------------------------------------------------------------
(* The whole registry *)
-----------------------------------------------------------------------------
(* Collections, configs, and what builds refer to *)

OwnOps == {"policy.revise", "source_collection.create", "pipeline_config.create", "build.create"}

\* Rows of collections and configs stay as they are
SourcesKept ==
  /\ \A c \in DOMAIN collections : c \in DOMAIN collections' /\ collections'[c] = collections[c]
  /\ \A p \in DOMAIN configs : p \in DOMAIN configs' /\ configs'[p] = configs[p]

\* A step that adds rows, and lets requests load rows of their own
LEMMA OwnRows ==
  ASSUME OwnInv, SourcesKept, \A x : Known(x) => Known(x)',
         \A c \in DOMAIN collections' : c \in DOMAIN collections \/ Known(c)',
         \A p \in DOMAIN configs' : p \in DOMAIN configs \/ Known(p)',
         \A b \in DOMAIN builds' :
           \/ /\ b \in DOMAIN builds /\ builds'[b].ws = builds[b].ws
              /\ builds'[b].collection = builds[b].collection /\ builds'[b].config = builds[b].config
           \/ Uses(builds[b].collection, builds[b].config, builds[b].ws)',
         \A x \in Requests : req'[x].pc = "ready" => req'[x] = req[x] \/ Own(x)'
  PROVE  OwnInv'
<1>1. \A c, p, ws : Uses(c, p, ws) => Uses(c, p, ws)'
  BY DEF SourcesKept, Uses
<1>2. \A c \in DOMAIN collections' : Known(c)'
  BY DEF OwnInv
<1>3. \A p \in DOMAIN configs' : Known(p)'
  BY DEF OwnInv
<1>4. ASSUME NEW b \in DOMAIN builds' PROVE Uses(builds[b].collection, builds[b].config, builds[b].ws)'
  BY <1>1 DEF OwnInv
<1>5. ASSUME NEW x \in Requests, req'[x].pc = "ready", req'[x] = req[x] PROVE Own(x)'
  <2>1. Own(x)
    BY <1>5 DEF OwnInv
  <2> QED BY <1>1, <1>5, <2>1 DEF Own
<1> QED BY <1>2, <1>3, <1>4, <1>5 DEF OwnInv

\* Nobody else writes them
LEMMA OwnFrame ==
  ASSUME OwnInv, Foreign(OwnOps), collections' = collections, configs' = configs,
         \A b \in DOMAIN builds' :
           /\ b \in DOMAIN builds /\ builds'[b].ws = builds[b].ws
           /\ builds'[b].collection = builds[b].collection /\ builds'[b].config = builds[b].config
  PROVE  OwnInv' /\ SourcesKept
<1>1. SourcesKept
  BY DEF SourcesKept
<1>2. \A x : Known(x) => Known(x)'
  BY KnownStays
<1>3. \A x \in Requests : req'[x].pc = "ready" => req'[x] = req[x] \/ Own(x)'
  BY DEF Foreign, Own, OwnOps
<1> QED BY <1>1, <1>2, <1>3, OwnRows

\* A handler that answers, reads or commits, with what it inserts
LEMMA OwnHandler ==
  ASSUME RequestInv, OwnInv, NEW r \in Requests, req[r].pc \in {"authed", "ready"},
         \/ Refuse(r) \/ Nothing(r) \/ RollBack(r) \/ \E entity : Commit(r, entity)
         \/ \E rows : Loaded(r, rows) /\ (Becomes(r, With(r, "ready", rows)) => Own(r)'),
         \/ collections' = collections
         \/ \E row : collections' = Insert(collections, r, row) /\ req'[r].pc = "done",
         \/ configs' = configs
         \/ \E row : configs' = Insert(configs, r, row) /\ req'[r].pc = "done",
         \/ builds' = builds
         \/ \E row : /\ builds' = Insert(builds, r, row) /\ r \notin DOMAIN builds
                     /\ Uses(row.collection, row.config, row.ws) /\ UNCHANGED <<collections, configs>>
  PROVE  OwnInv' /\ SourcesKept
<1>1. PICK q : Becomes(r, q) /\ (q.pc = "ready" => Own(r)')
  <2>1. CASE Refuse(r) \/ Nothing(r) \/ RollBack(r)
    <3>1. PICK a \in {"same", "refused", "failed"} : Becomes(r, Ended(a))
      BY <2>1, AnswerForms DEF Refuse, Nothing, RollBack
    <3>2. Ended(a).pc # "ready"
      BY RowFields DEF Ended
    <3> QED BY <3>1, <3>2
  <2>2. ASSUME NEW rows, Loaded(r, rows), Becomes(r, With(r, "ready", rows)) => Own(r)'
        PROVE  \E q : Becomes(r, q) /\ (q.pc = "ready" => Own(r)')
    BY <2>2, AnswerForms
  <2>3. ASSUME NEW entity, Commit(r, entity) PROVE \E q : Becomes(r, q) /\ (q.pc = "ready" => Own(r)')
    <3>1. Becomes(r, With(r, "done", NoRows)) /\ With(r, "done", NoRows).pc = "done"
      BY <2>3, AnswerForms, RowFields DEF Commit, With
    <3> QED BY <3>1
  <2> QED BY <2>1, <2>2, <2>3
<1>2. req'[r] = q /\ \A x \in Requests \ {r} : req'[x] = req[x]
  BY <1>1, BecomesFacts
<1>3. \A x : Known(x) => Known(x)'
  BY <1>2 DEF Known
<1>4. \A x \in Requests : req'[x].pc = "ready" => req'[x] = req[x] \/ Own(x)'
  BY <1>1, <1>2
<1>5. r \notin DOMAIN collections /\ r \notin DOMAIN configs
  BY DEF OwnInv, Known
<1>6. /\ \A c \in DOMAIN collections : c \in DOMAIN collections' /\ collections'[c] = collections[c]
      /\ \A c \in DOMAIN collections' : c \in DOMAIN collections \/ Known(c)'
  BY <1>5 DEF Insert, Known
<1>7. /\ \A p \in DOMAIN configs : p \in DOMAIN configs' /\ configs'[p] = configs[p]
      /\ \A p \in DOMAIN configs' : p \in DOMAIN configs \/ Known(p)'
  BY <1>5 DEF Insert, Known
<1>8. ASSUME NEW b \in DOMAIN builds'
      PROVE  \/ /\ b \in DOMAIN builds /\ builds'[b].ws = builds[b].ws
                /\ builds'[b].collection = builds[b].collection /\ builds'[b].config = builds[b].config
             \/ Uses(builds[b].collection, builds[b].config, builds[b].ws)'
  <2>1. CASE builds' = builds
    BY <2>1
  <2>2. ASSUME NEW row, builds' = Insert(builds, r, row), Uses(row.collection, row.config, row.ws),
               UNCHANGED <<collections, configs>>
        PROVE  \/ /\ b \in DOMAIN builds /\ builds'[b].ws = builds[b].ws
                  /\ builds'[b].collection = builds[b].collection /\ builds'[b].config = builds[b].config
               \/ Uses(builds[b].collection, builds[b].config, builds[b].ws)'
    BY <2>2 DEF Insert, Uses
  <2> QED BY <2>1, <2>2
<1>9. SourcesKept
  BY <1>6, <1>7 DEF SourcesKept
<1> QED BY <1>3, <1>4, <1>6, <1>7, <1>8, <1>9, OwnRows

\* Policies: the revision a request is about to insert is its own workspace's
LEMMA OwnPolicies ==
  ASSUME RequestInv, OwnInv, PolicyNext, UNCHANGED <<collections, configs, builds>>
  PROVE  OwnInv' /\ SourcesKept
<1>1. ASSUME NEW r \in Requests, req[r].pc \in {"authed", "ready"}, req[r].op = "policy.create",
             \/ Refuse(r) \/ RollBack(r) \/ (\E rows : Loaded(r, rows)) \/ (\E entity : Commit(r, entity))
      PROVE  OwnInv' /\ SourcesKept
  <2>1. \A rows : Becomes(r, With(r, "ready", rows)) => Own(r)'
    BY <1>1, BecomesFacts, RowFields DEF With, Own
  <2> QED BY <1>1, <2>1, OwnHandler
<1>2. ASSUME NEW r \in Requests, NEW name, NEW document, CreatePolicyRead(r, name, document) PROVE OwnInv' /\ SourcesKept
  BY <1>1, <1>2 DEF CreatePolicyRead, At
<1>3. ASSUME NEW r \in Requests, create_policy(r) PROVE OwnInv' /\ SourcesKept
  BY <1>1, <1>3 DEF create_policy, At
<1>4. ASSUME NEW r \in Requests, NEW p, NEW document, CreateRevisionRead(r, p, document) PROVE OwnInv' /\ SourcesKept
  <2> DEFINE v == Revision(req[r].ws, p, latest_revision(p).number + 1, document)
  <2>1. req[r].pc = "authed" /\ req[r].op = "policy.revise"
    BY <1>4 DEF CreateRevisionRead, At
  <2>2. v.ws = req[r].ws /\ [revision |-> v].revision = v
    BY DEF Revision
  <2> HIDE DEF v
  <2>3. Becomes(r, With(r, "ready", [revision |-> v])) => Own(r)'
    BY <2>1, <2>2, BecomesFacts, RowFields DEF With, Own
  <2>4. Refuse(r) \/ Nothing(r) \/ Loaded(r, [revision |-> v])
    BY <1>4 DEF CreateRevisionRead, v
  <2> QED BY <2>1, <2>3, <2>4, OwnHandler
<1>5. ASSUME NEW r \in Requests, create_policy_revision(r) PROVE OwnInv' /\ SourcesKept
  <2>1. req[r].pc = "ready" /\ (RollBack(r) \/ \E entity : Commit(r, entity))
    BY <1>5 DEF create_policy_revision, At
  <2> QED BY <2>1, OwnHandler
<1> QED BY <1>2, <1>3, <1>4, <1>5 DEF PolicyNext

\* Collections and configs: a row is of the workspace of who inserts it
LEMMA OwnSources ==
  ASSUME RequestInv, OwnInv, SourceNext, UNCHANGED builds
  PROVE  OwnInv' /\ SourcesKept
<1>1. ASSUME NEW r \in Requests, req[r].pc = "authed", req[r].op \in SourceOps, NEW row, row.ws = req[r].ws,
             Refuse(r) \/ Nothing(r) \/ Loaded(r, row), UNCHANGED <<collections, configs>>
      PROVE  OwnInv' /\ SourcesKept
  <2>1. Becomes(r, With(r, "ready", row)) => Own(r)'
    BY <1>1, BecomesFacts, RowFields DEF With, Own, SourceOps
  <2> QED BY <1>1, <2>1, OwnHandler
<1>2. ASSUME NEW r \in Requests, NEW ns, NEW root_ok, CreateCollectionRead(r, ns, root_ok) PROVE OwnInv' /\ SourcesKept
  <2>1. [ws |-> req[r].ws, namespace |-> ns].ws = req[r].ws
    OBVIOUS
  <2>2. /\ req[r].pc = "authed" /\ req[r].op \in SourceOps /\ UNCHANGED <<collections, configs>>
        /\ Refuse(r) \/ Nothing(r) \/ Loaded(r, [ws |-> req[r].ws, namespace |-> ns])
    BY <1>2 DEF CreateCollectionRead, At, sourceVars, SourceOps
  <2> QED BY <1>1, <2>1, <2>2
<1>3. ASSUME NEW r \in Requests, NEW hash, CreateConfigRead(r, hash) PROVE OwnInv' /\ SourcesKept
  <2>1. [ws |-> req[r].ws, hash |-> hash].ws = req[r].ws
    OBVIOUS
  <2>2. /\ req[r].pc = "authed" /\ req[r].op \in SourceOps /\ UNCHANGED <<collections, configs>>
        /\ Refuse(r) \/ Nothing(r) \/ Loaded(r, [ws |-> req[r].ws, hash |-> hash])
    BY <1>3 DEF CreateConfigRead, At, sourceVars, SourceOps
  <2> QED BY <1>1, <2>1, <2>2
<1>4. ASSUME NEW r \in Requests PROVE \A entity : Commit(r, entity) => req'[r].pc = "done"
  BY AnswerForms, BecomesFacts, RowFields DEF Commit, With
<1>5. ASSUME NEW r \in Requests, create_source_collection(r) PROVE OwnInv' /\ SourcesKept
  <2>1. req[r].pc = "ready" /\ configs' = configs
    BY <1>5 DEF create_source_collection, At
  <2>2. \/ RollBack(r) /\ collections' = collections
        \/ Commit(r, r) /\ collections' = Insert(collections, r, req[r].seen)
    BY <1>5 DEF create_source_collection
  <2> QED BY <1>4, <2>1, <2>2, OwnHandler
<1>6. ASSUME NEW r \in Requests, create_pipeline_config(r) PROVE OwnInv' /\ SourcesKept
  <2>1. req[r].pc = "ready" /\ collections' = collections
    BY <1>6 DEF create_pipeline_config, At
  <2>2. \/ RollBack(r) /\ configs' = configs
        \/ Commit(r, r) /\ configs' = Insert(configs, r, req[r].seen)
    BY <1>6 DEF create_pipeline_config
  <2> QED BY <1>4, <2>1, <2>2, OwnHandler
<1>7. ASSUME NEW r \in Requests, NEW c, scan_source_collection(r, c) PROVE OwnInv' /\ SourcesKept
  <2>1. /\ req[r].pc = "authed" /\ UNCHANGED <<collections, configs>>
        /\ Refuse(r) \/ Commit(r, c)
    BY <1>7 DEF scan_source_collection, At
  <2> QED BY <2>1, OwnHandler
<1>8. ASSUME req' = req, UNCHANGED <<collections, configs>> PROVE OwnInv' /\ SourcesKept
  <2>1. Foreign(OwnOps)
    BY <1>8 DEF Foreign
  <2> QED BY <1>8, <2>1, OwnFrame
<1>9. ASSUME NEW s, Discover(s) \/ LoadAssets(s) \/ CheckVersion(s) \/ run_scan_job(s) PROVE OwnInv' /\ SourcesKept
  BY <1>8, <1>9 DEF Discover, LoadAssets, CheckVersion, run_scan_job, requestVars
<1>10. ASSUME NEW c, NEW f, NEW content, EditTree(c, f, content) PROVE OwnInv' /\ SourcesKept
  BY <1>8, <1>10 DEF EditTree, requestVars
<1> QED BY <1>2, <1>3, <1>5, <1>6, <1>7, <1>9, <1>10 DEF SourceNext

\* Build rows: both references are of the workspace when they are read, and
\* no row they name ever goes or changes
LEMMA OwnBuilds ==
  ASSUME RequestInv, BuildInv, OwnInv, BuildRowNext
  PROVE  OwnInv' /\ SourcesKept
<1>1. ASSUME NEW r \in Requests, NEW c \in DOMAIN collections, NEW p \in DOMAIN configs, CreateBuildRead(r, c, p)
      PROVE  OwnInv' /\ SourcesKept
  <2> DEFINE rows == [collection |-> c, config |-> p]
  <2>1. /\ req[r].pc = "authed" /\ req[r].op = "build.create"
        /\ UNCHANGED <<collections, configs, builds>>
    BY <1>1 DEF CreateBuildRead, At, sourceVars, manifestVars
  <2>2. rows.collection = c /\ rows.config = p
    OBVIOUS
  <2> HIDE DEF rows
  <2>3. CASE Refuse(r)
    BY <2>1, <2>3, OwnHandler
  <2>4. CASE collections[c].ws = req[r].ws /\ configs[p].ws = req[r].ws /\ Loaded(r, rows)
    <3>1. Becomes(r, With(r, "ready", rows)) => Own(r)'
      BY <2>1, <2>2, <2>4, BecomesFacts, RowFields DEF With, Own, Uses
    <3> QED BY <2>1, <2>4, <3>1, OwnHandler
  <2> QED BY <1>1, <2>3, <2>4 DEF CreateBuildRead, rows
<1>2. ASSUME NEW r \in Requests, create_build(r) PROVE OwnInv' /\ SourcesKept
  <2> DEFINE row == [ws |-> req[r].ws, collection |-> req[r].seen.collection, config |-> req[r].seen.config,
                     state |-> "pending", manifest_hash |-> None, existing |-> FALSE]
  <2>1. /\ req[r].pc = "ready" /\ req[r].op = "build.create" /\ Commit(r, r)
        /\ builds' = Insert(builds, r, row) /\ UNCHANGED <<collections, configs>>
    BY <1>2 DEF create_build, At, sourceVars
  <2>2. row.ws = req[r].ws /\ row.collection = req[r].seen.collection /\ row.config = req[r].seen.config
    OBVIOUS
  <2> HIDE DEF row
  <2>3. Uses(row.collection, row.config, row.ws)
    BY <2>1, <2>2 DEF OwnInv, Own
  <2>4. r \notin DOMAIN builds
    BY <2>1 DEF BuildInv, Known
  <2> QED BY <2>1, <2>3, <2>4, OwnHandler
<1> QED BY <1>1, <1>2 DEF BuildRowNext

\* A build's job writes other columns
LEMMA OwnJobs ==
  ASSUME RequestInv, BuildInv, OwnInv, ManifestNext, UNCHANGED <<collections, configs>>
  PROVE  OwnInv' /\ SourcesKept
<1>1. Foreign(OwnOps)
  BY ManifestHandlers, HandlerIsForeign DEF ManifestOps, OwnOps
<1>2. CASE builds' = builds
  BY <1>1, <1>2, OwnFrame
<1>3. ASSUME NEW b \in DOMAIN builds, (\E h : SelectExisting(b, h)) \/ run_build_job(b)
      PROVE  \A x \in DOMAIN builds' :
               /\ x \in DOMAIN builds /\ builds'[x].ws = builds[x].ws
               /\ builds'[x].collection = builds[x].collection /\ builds'[x].config = builds[x].config
  <2>1. DOMAIN builds[b] = BuildColumns
    BY DEF BuildInv
  <2>2. DOMAIN builds' = DOMAIN builds /\ \A x \in DOMAIN builds \ {b} : builds'[x] = builds[x]
    BY <1>3 DEF SelectExisting, run_build_job
  <2>3. /\ builds'[b].ws = builds[b].ws /\ builds'[b].collection = builds[b].collection
        /\ builds'[b].config = builds[b].config
    <3>1. ASSUME NEW h, SelectExisting(b, h)
          PROVE  /\ builds'[b].ws = builds[b].ws /\ builds'[b].collection = builds[b].collection
                 /\ builds'[b].config = builds[b].config
      <4> DEFINE found == ManifestOf(builds[b].ws, h) # {}
      <4>1. builds' = [builds EXCEPT ![b].state = "selected", ![b].manifest_hash = h, ![b].existing = found]
        BY <3>1 DEF SelectExisting
      <4> HIDE DEF found
      <4> QED BY <2>1, <4>1 DEF BuildColumns
    <3>2. CASE run_build_job(b)
      BY <2>1, <3>2 DEF run_build_job, BuildColumns
    <3> QED BY <1>3, <3>1, <3>2
  <2> QED BY <2>2, <2>3
<1>4. builds' = builds \/ \E b \in DOMAIN builds : (\E h : SelectExisting(b, h)) \/ run_build_job(b)
  BY DEF ManifestNext, RotateKey, SignRead, verify_manifest_endpoint, sign_manifest_endpoint, manifestVars
<1> QED BY <1>1, <1>2, <1>3, <1>4, OwnFrame

\* Both instances start with it
LEMMA RegistryInit == Init => RegistryInv
<1> SUFFICES ASSUME Init PROVE RegistryInv
  OBVIOUS
<1>1. RequestInv /\ TokenInv
  BY CallInit DEF CallInv
<1>2. req = [r \in Requests |-> NewRequest] /\ NewRequest.pc = "new"
  BY DEF Init, NewRequest
<1>3. \A r \in Requests : req[r].pc = "new"
  BY <1>2
<1>4. Seed \in Names /\ Seed \notin Requests /\ Known(Seed)
  BY FreshIds DEF Names, Known
<1>5. keyring = {1} /\ KeyInv
  <2>1. keyring = {1} /\ {1} = 1..1
    BY DEF Init
  <2> QED BY <2>1 DEF KeyInv
<1>6. signatures = {} /\ findings = {} /\ evaluations = {} /\ DOMAIN reconciliations = {} /\ DOMAIN work = {}
  BY DEF Init
<1>7. ReconciliationInv /\ WorkInv
  BY <1>3, <1>6 DEF ReconciliationInv, WorkInv, RecordsAreWhole, At
<1>8. CASE FreshInstance
  <2>1. DOMAIN policies = {} /\ revisions = {} /\ DOMAIN targets = {} /\ DOMAIN snapshots = {}
        /\ DOMAIN manifests = {} /\ DOMAIN builds = {}
    BY <1>8 DEF FreshInstance
  <2>2. PolicyInv
    BY <1>3, <2>1, FS_EmptySet DEF PolicyInv, RevisionsAreNumbered, At
  <2>3. TargetInv /\ SnapshotInv
    BY <1>3, <1>5, <2>1 DEF TargetInv, SnapshotInv
  <2>4. BuildInv /\ ManifestInv
    BY <1>3, <1>6, <2>1 DEF BuildInv, ManifestInv, At
  <2>5. DOMAIN collections = {} /\ DOMAIN configs = {}
    BY <1>8 DEF FreshInstance
  <2>6. OwnInv
    BY <1>3, <2>1, <2>5 DEF OwnInv
  <2> QED BY <1>1, <1>7, <2>2, <2>3, <2>4, <2>6 DEF RegistryInv
<1>9. CASE UsedInstance
  <2>1. PolicyInv
    <3> DEFINE v == Revision(Seed, Seed, 1, Some(Documents))
    <3>1. revisions = {v} /\ DOMAIN policies = {Seed} /\ policies[Seed].ws = Seed
      BY <1>9 DEF UsedInstance, Only
    <3>2. v.policy = Seed /\ v.ws = Seed /\ v.number = 1
      BY DEF Revision
    <3> HIDE DEF v
    <3>3. RevisionsOf(Seed) = {v}
      BY <3>1, <3>2 DEF RevisionsOf
    <3>4. IsFiniteSet({v}) /\ Cardinality({v}) = 1
      BY FS_Singleton
    <3>5. {u.number : u \in {v}} = 1..1
      BY <3>2
    <3>6. RevisionsAreNumbered
      BY <3>1, <3>3, <3>4, <3>5 DEF RevisionsAreNumbered
    <3> QED BY <1>3, <1>4, <3>1, <3>2, <3>4, <3>6 DEF PolicyInv, At
  <2>2. TargetInv
    <3>1. PICK endpoint :
            targets = Only([ws |-> Seed, endpoint_redacted |-> endpoint,
                            allowlist_decision |-> decision(endpoint),
                            credential_ciphertext |-> [credential |-> Seed, key_id |-> 1],
                            credential_key_id |-> 1, credential_version |-> 1])
      BY <1>9 DEF UsedInstance
    <3>2. /\ DOMAIN targets = {Seed} /\ DOMAIN targets[Seed] = TargetColumns /\ targets[Seed].ws = Seed
          /\ targets[Seed].credential_ciphertext = [credential |-> Seed, key_id |-> 1]
      BY <3>1 DEF Only, TargetColumns
    <3>3. Sealed(targets[Seed].credential_ciphertext, targets[Seed].ws)
      BY <1>4, <1>5, <3>2 DEF Sealed
    <3> QED BY <1>3, <1>4, <1>5, <3>2, <3>3 DEF TargetInv
  <2>3. SnapshotInv
    <3>1. PICK capture : snapshots = Only([ws |-> Seed, target |-> Seed, artifact_ref |-> "set", capture |-> capture])
      BY <1>9 DEF UsedInstance
    <3>2. /\ DOMAIN snapshots = {Seed} /\ DOMAIN snapshots[Seed] = SnapshotColumns /\ snapshots[Seed].ws = Seed
          /\ snapshots[Seed].target = Seed /\ snapshots[Seed].artifact_ref = "set"
      BY <3>1 DEF Only, SnapshotColumns
    <3>3. DOMAIN targets = {Seed} /\ targets[Seed].ws = Seed
      BY <1>9 DEF UsedInstance, Only
    <3> QED BY <1>4, <3>2, <3>3 DEF SnapshotInv
  <2>4. /\ DOMAIN manifests = {Seed} /\ DOMAIN manifests[Seed] = {"ws", "manifest_hash", "artifact_ref", "signed"}
        /\ manifests[Seed].ws = Seed /\ manifests[Seed].manifest_hash = Some(Hashes)
        /\ manifests[Seed].artifact_ref = Envelope(Some(Hashes), {}) /\ manifests[Seed].signed = FALSE
    BY <1>9 DEF UsedInstance, Only
  <2>5. /\ DOMAIN builds = {Seed} /\ DOMAIN builds[Seed] = BuildColumns
        /\ builds[Seed].ws = Seed /\ builds[Seed].state = "completed" /\ builds[Seed].manifest_hash = Some(Hashes)
    BY <1>9 DEF UsedInstance, Only, BuildColumns
  <2>6. BuildInv
    <3>1. Seed \in ManifestOf(builds[Seed].ws, builds[Seed].manifest_hash)
      BY <2>4, <2>5 DEF ManifestOf
    <3> QED BY <1>4, <2>5, <3>1 DEF BuildInv
  <2>7. ManifestInv
    <3>1. manifests[Seed].artifact_ref.signatures = {}
      BY <2>4, EnvelopeParts
    <3>2. Whole(Seed, manifests[Seed].manifest_hash, manifests[Seed].artifact_ref)
      BY <2>4, <3>1 DEF Whole, Mirrored
    <3> QED BY <1>3, <1>6, <2>4, <2>5, <3>1, <3>2 DEF ManifestInv, At
  <2>8. OwnInv
    <3>1. /\ DOMAIN collections = {Seed, "second"} /\ collections[Seed].ws = Seed
          /\ DOMAIN configs = {Seed} /\ configs[Seed].ws = Seed
      BY <1>9 DEF UsedInstance, Only
    <3>2. builds[Seed].collection = Seed /\ builds[Seed].config = Seed
      BY <1>9 DEF UsedInstance, Only
    <3>3. Known("second")
      BY FreshIds DEF Names, Known
    <3> QED BY <1>3, <1>4, <2>5, <3>1, <3>2, <3>3 DEF OwnInv, Uses
  <2> QED BY <1>1, <1>7, <2>1, <2>2, <2>3, <2>6, <2>7, <2>8 DEF RegistryInv
<1> QED BY <1>8, <1>9 DEF Init

\* Revisions are only added
LEMMA RevisionsStay == ASSUME PolicyNext PROVE revisions \subseteq revisions'
BY DEF PolicyNext, CreatePolicyRead, create_policy, CreateRevisionRead, create_policy_revision, policyVars

\* The operations of all handlers but those for tokens
HandlerOps == PolicyOps \cup TargetOps \cup ManifestOps \cup SourceOps \cup ReconciliationOps \cup {"build.create"}

\* Whatever is called, collections and configs stay, and what requests have
\* put together remains their own workspace's
LEMMA OwnStep == ASSUME RequestInv, TokenInv, BuildInv, OwnInv, [Next]_vars PROVE OwnInv' /\ SourcesKept
<1>1. ASSUME Foreign(OwnOps), UNCHANGED <<manifestVars, sourceVars>> PROVE OwnInv' /\ SourcesKept
  BY <1>1, OwnFrame DEF manifestVars, sourceVars
<1>2. CASE RequestNext(scene.ops) /\ UNCHANGED <<manifestVars, sourceVars>>
  <2>1. OwnOps \cap RequestOps = {}
    BY DEF OwnOps, RequestOps, TokenOps
  <2> QED BY <1>1, <1>2, <2>1, RequestNextStep
<1>3. CASE PolicyNext /\ UNCHANGED <<manifestVars, sourceVars>>
  BY <1>3, OwnPolicies DEF manifestVars, sourceVars
<1>4. CASE TargetNext(Pinned) /\ UNCHANGED <<manifestVars, sourceVars>>
  BY <1>1, <1>4, TargetHandlers, HandlerIsForeign DEF TargetOps, OwnOps
<1>5. CASE ManifestNext /\ UNCHANGED sourceVars
  BY <1>5, OwnJobs DEF sourceVars
<1>6. CASE SourceNext /\ UNCHANGED manifestVars
  BY <1>6, OwnSources DEF manifestVars
<1>7. CASE ReconciliationNext /\ UNCHANGED <<manifestVars, sourceVars>>
  BY <1>1, <1>7, ReconciliationHandlers, HandlerIsForeign DEF ReconciliationOps, OwnOps
<1>8. CASE BuildRowNext
  BY <1>8, OwnBuilds
<1>9. CASE UNCHANGED vars
  <2>1. Foreign(OwnOps) /\ UNCHANGED <<manifestVars, sourceVars>>
    BY <1>9 DEF vars, requestVars, Foreign
  <2> QED BY <1>1, <2>1
<1> QED BY <1>2, <1>3, <1>4, <1>5, <1>6, <1>7, <1>8, <1>9 DEF Next

\* Every step of every module keeps the whole invariant: its own part by that
\* module's lemma, the others because it leaves their tables alone
LEMMA RegistryStep == ASSUME RegistryInv, [Next]_vars PROVE RegistryInv'
<1>1. /\ RequestInv /\ TokenInv /\ PolicyInv /\ TargetInv /\ SnapshotInv
      /\ BuildInv /\ ManifestInv /\ ReconciliationInv /\ WorkInv /\ OwnInv
  BY DEF RegistryInv
<1>2. RequestInv' /\ TokenInv' /\ OwnInv'
  BY <1>1, CallStep, OwnStep DEF CallInv
<1>3. ASSUME Foreign(PolicyOps), UNCHANGED policyVars PROVE PolicyInv' /\ revisions \subseteq revisions'
  BY <1>1, <1>3, PolicyFrame DEF policyVars
<1>4. ASSUME Foreign(TargetOps), UNCHANGED targetVars PROVE TargetInv' /\ SnapshotInv' /\ SnapshotsKept(Pinned)
  <2>1. targets' = targets /\ snapshots' = snapshots /\ keyring' = keyring /\ KeyInv'
    BY <1>1, <1>4 DEF targetVars, TargetInv, KeyInv
  <2> QED BY <1>1, <1>4, <2>1, TargetFrame, SnapshotFrame
<1>5. ASSUME Foreign(ManifestOps), UNCHANGED manifestVars PROVE BuildInv' /\ ManifestInv' /\ ManifestsKept
  <2>1. builds' = builds /\ manifests' = manifests /\ signatures' = signatures
    BY <1>5 DEF manifestVars
  <2> QED BY <1>1, <1>5, <2>1, ManifestFrame, BuildFrame
<1>6. ASSUME Foreign(ReconciliationOps), UNCHANGED reconciliationVars, SnapshotsKept(Pinned), ManifestsKept,
             revisions \subseteq revisions'
      PROVE  ReconciliationInv' /\ WorkInv'
  BY <1>1, <1>6, ReconciliationFrame DEF InputsKept
<1>7. CASE RequestNext(scene.ops) /\ UNCHANGED <<policyVars, targetVars, manifestVars, sourceVars, reconciliationVars>>
  <2>1. HandlerOps \cap RequestOps = {}
    BY DEF HandlerOps, PolicyOps, TargetOps, ManifestOps, SourceOps, ReconciliationOps, RequestOps, TokenOps
  <2>2. Foreign(HandlerOps)
    BY <1>1, <1>7, <2>1, RequestNextStep
  <2>3. Foreign(PolicyOps) /\ Foreign(TargetOps) /\ Foreign(ManifestOps) /\ Foreign(ReconciliationOps)
    BY <2>2 DEF Foreign, HandlerOps
  <2> QED BY <1>2, <1>3, <1>4, <1>5, <1>6, <1>7, <2>3 DEF RegistryInv
<1>8. CASE PolicyNext /\ UNCHANGED <<targetVars, manifestVars, sourceVars, reconciliationVars>>
  <2>1. HandlerStep(PolicyOps)
    BY <1>1, <1>8, PolicyHandlers
  <2>2. Foreign(TargetOps) /\ Foreign(ManifestOps) /\ Foreign(ReconciliationOps)
    BY <1>1, <2>1, HandlerIsForeign DEF PolicyOps, TargetOps, ManifestOps, ReconciliationOps
  <2>3. PolicyInv' /\ revisions \subseteq revisions'
    BY <1>1, <1>8, PolicyStep, RevisionsStay
  <2> QED BY <1>2, <1>4, <1>5, <1>6, <1>8, <2>2, <2>3 DEF RegistryInv
<1>9. CASE TargetNext(Pinned) /\ UNCHANGED <<policyVars, manifestVars, sourceVars, reconciliationVars>>
  <2>1. HandlerStep(TargetOps)
    BY <1>1, <1>9, TargetHandlers
  <2>2. Foreign(PolicyOps) /\ Foreign(ManifestOps) /\ Foreign(ReconciliationOps)
    BY <1>1, <2>1, HandlerIsForeign DEF PolicyOps, TargetOps, ManifestOps, ReconciliationOps
  <2>3. TargetInv' /\ SnapshotInv' /\ SnapshotsKept(Pinned)
    BY <1>1, <1>9, TargetStep
  <2> QED BY <1>2, <1>3, <1>5, <1>6, <1>9, <2>2, <2>3 DEF RegistryInv
<1>10. CASE ManifestNext /\ UNCHANGED <<policyVars, targetVars, sourceVars, reconciliationVars>>
  <2>1. HandlerStep(ManifestOps)
    BY <1>1, <1>10, ManifestHandlers
  <2>2. Foreign(PolicyOps) /\ Foreign(TargetOps) /\ Foreign(ReconciliationOps)
    BY <1>1, <2>1, HandlerIsForeign DEF PolicyOps, TargetOps, ManifestOps, ReconciliationOps
  <2>3. BuildInv' /\ ManifestInv' /\ ManifestsKept
    BY <1>1, <1>10, ManifestStep
  <2> QED BY <1>2, <1>3, <1>4, <1>6, <1>10, <2>2, <2>3 DEF RegistryInv
<1>11. CASE SourceNext /\ UNCHANGED <<policyVars, targetVars, manifestVars, reconciliationVars>>
  <2>1. HandlerStep(SourceOps)
    BY <1>1, <1>11, SourceHandlers
  <2>2. Foreign(PolicyOps) /\ Foreign(TargetOps) /\ Foreign(ManifestOps) /\ Foreign(ReconciliationOps)
    BY <1>1, <2>1, HandlerIsForeign DEF PolicyOps, TargetOps, ManifestOps, SourceOps, ReconciliationOps
  <2> QED BY <1>2, <1>3, <1>4, <1>5, <1>6, <1>11, <2>2 DEF RegistryInv
<1>12. CASE ReconciliationNext /\ UNCHANGED <<policyVars, targetVars, manifestVars, sourceVars>>
  <2>1. HandlerStep(ReconciliationOps)
    BY <1>1, <1>12, ReconciliationHandlers
  <2>2. Foreign(PolicyOps) /\ Foreign(TargetOps) /\ Foreign(ManifestOps)
    BY <1>1, <2>1, HandlerIsForeign DEF PolicyOps, TargetOps, ManifestOps, ReconciliationOps
  <2>3. ReconciliationInv' /\ WorkInv'
    BY <1>1, <1>12, ReconciliationStep
  <2> QED BY <1>2, <1>3, <1>4, <1>5, <1>12, <2>2, <2>3 DEF RegistryInv
<1>13. CASE BuildRowNext
  <2>1. HandlerStep({"build.create"})
    BY <1>1, <1>13, BuildRowHandlers
  <2>2. Foreign(PolicyOps) /\ Foreign(TargetOps) /\ Foreign(ReconciliationOps)
    BY <1>1, <2>1, HandlerIsForeign DEF PolicyOps, TargetOps, ReconciliationOps
  <2>3. UNCHANGED <<policyVars, targetVars, reconciliationVars>>
    BY <1>13 DEF BuildRowNext, CreateBuildRead, create_build
  <2>4. BuildInv' /\ ManifestInv' /\ ManifestsKept
    BY <1>1, <1>13, BuildRowStep
  <2> QED BY <1>2, <1>3, <1>4, <1>6, <2>2, <2>3, <2>4 DEF RegistryInv
<1>14. CASE UNCHANGED vars
  <2>1. Foreign(PolicyOps) /\ Foreign(TargetOps) /\ Foreign(ManifestOps) /\ Foreign(ReconciliationOps)
    BY <1>14 DEF vars, requestVars, Foreign
  <2>2. UNCHANGED <<policyVars, targetVars, manifestVars, reconciliationVars>>
    BY <1>14 DEF vars
  <2> QED BY <1>2, <1>3, <1>4, <1>5, <1>6, <2>1, <2>2 DEF RegistryInv
<1> QED BY <1>7, <1>8, <1>9, <1>10, <1>11, <1>12, <1>13, <1>14 DEF Next
\* The invariant holds throughout
LEMMA RegistryInvariant == Spec => []RegistryInv
<1>1. RegistryInv /\ [Next]_vars => RegistryInv'
  BY RegistryStep
<1> QED BY <1>1, RegistryInit, PTL DEF Spec

\* Whatever a reconciliation was created from stays, its records are whole,
\* revisions are numbered without a gap, and credentials open, for any number
\* of overlapping requests, jobs and keys: what a request loaded may be stale
\* when it commits, but only in columns no other row refers to.
THEOREM ReferencesHold == Spec => []ReferencesStand
<1>1. RegistryInv => ReferencesStand
  <2> SUFFICES ASSUME RegistryInv PROVE ReferencesStand
    OBVIOUS
  <2>1. TargetInv /\ SnapshotInv /\ ReconciliationInv /\ WorkInv /\ PolicyInv
    BY DEF RegistryInv
  <2>2. RevisionsAreNumbered /\ RecordsAreWhole
    BY <2>1 DEF PolicyInv, WorkInv
  <2>3. CredentialsOpen
    <3>1. ASSUME NEW t \in DOMAIN targets PROVE decrypt_credential(targets[t]) # "CredentialDecryptionError"
      <4> DEFINE c == targets[t].credential_ciphertext
      <4>1. c.key_id \in keyring /\ c.credential \in Requests \cup Names
        BY <2>1 DEF TargetInv, Sealed
      <4>2. c.credential # "CredentialDecryptionError"
        BY <4>1, FreshIds DEF Names, Seed
      <4> QED BY <4>1, <4>2 DEF decrypt_credential
    <3> QED BY <3>1 DEF CredentialsOpen
  <2>4. ASSUME NEW x \in DOMAIN reconciliations
        PROVE  LET row == reconciliations[x] IN
               /\ row.snapshot \in DOMAIN snapshots
               /\ snapshots[row.snapshot].artifact_ref = "set"
               /\ snapshots[row.snapshot].target \in DOMAIN targets
               /\ row.manifest \in DOMAIN manifests
               /\ row.revision # None => row.revision \in revisions
    BY <2>1 DEF ReconciliationInv, SnapshotInv, Refers
  <2> QED BY <2>2, <2>3, <2>4 DEF ReferencesStand
<1> QED BY <1>1, RegistryInvariant, PTL

\* A request that was done is of its token's workspace
LEMMA CallersWorkspace ==
  ASSUME TokenInv, NEW r \in Requests, Called(r), req[r].pc = "done"
  PROVE  CallerOf(r) = req[r].ws
BY DEF TokenInv, CallerOf

-----------------------------------------------------------------------------
(* Workspaces *)

\* A request other than the bootstrap commits
Commits(x) == req[x].pc # "done" /\ req'[x].pc = "done" /\ req[x].op # "auth.bootstrap"

\* What a step writes to each module's tables is of workspace ws
TokensApart(ws) == TouchedIn(ws, tokens, tokens')

PoliciesApart(ws) == TouchedIn(ws, policies, policies') /\ \A v \in revisions' \ revisions : v.ws = ws

TargetsApart(ws) == TouchedIn(ws, targets, targets') /\ TouchedIn(ws, snapshots, snapshots')

ManifestsApart(ws) ==
  /\ TouchedIn(ws, manifests, manifests') /\ TouchedIn(ws, builds, builds')
  /\ \A s \in signatures' \ signatures : manifests[s.manifest].ws = ws

SourcesApart(ws) == TouchedIn(ws, collections, collections') /\ TouchedIn(ws, configs, configs')

ReconciliationsApart(ws) == TouchedIn(ws, reconciliations, reconciliations')

TablesApart(ws) ==
  /\ TokensApart(ws) /\ PoliciesApart(ws) /\ TargetsApart(ws)
  /\ ManifestsApart(ws) /\ SourcesApart(ws) /\ ReconciliationsApart(ws)

\* A table that is not written
LEMMA Untouched ==
  ASSUME NEW ws
  PROVE  /\ tokens' = tokens => TokensApart(ws)
         /\ UNCHANGED policyVars => PoliciesApart(ws)
         /\ UNCHANGED targetVars => TargetsApart(ws)
         /\ UNCHANGED manifestVars => ManifestsApart(ws)
         /\ UNCHANGED sourceVars => SourcesApart(ws)
         /\ UNCHANGED reconciliationVars => ReconciliationsApart(ws)
         /\ \A table : TouchedIn(ws, table, table)
<1>1. \A table : TouchedIn(ws, table, table)
  BY DEF TouchedIn, Touched
<1> QED BY <1>1 DEF TokensApart, PoliciesApart, TargetsApart, ManifestsApart, SourcesApart, ReconciliationsApart,
             policyVars, targetVars, manifestVars, sourceVars, reconciliationVars

\* A row that is inserted
LEMMA RowInserted ==
  ASSUME NEW ws, NEW table, NEW id, id \notin DOMAIN table, NEW row, row.ws = ws
  PROVE  TouchedIn(ws, table, Insert(table, id, row))
BY DEF TouchedIn, Touched, Insert

\* One row that changes, and keeps its workspace
LEMMA RowChanged ==
  ASSUME NEW ws, NEW old, NEW new, DOMAIN new = DOMAIN old, NEW id, \A x \in DOMAIN old \ {id} : new[x] = old[x],
         id \in DOMAIN old => old[id].ws = ws /\ new[id].ws = ws
  PROVE  TouchedIn(ws, old, new)
BY DEF TouchedIn, Touched

\* Rows that are deleted
LEMMA RowsDeleted ==
  ASSUME NEW ws, NEW table, NEW ids, \A x \in DOMAIN table \cap ids : table[x].ws = ws
  PROVE  TouchedIn(ws, table, Delete(table, ids))
BY DEF TouchedIn, Touched, Delete

\* The tables by the operations that name their rows
LEMMA NamedTables ==
  /\ NamedBy("workspace.update") = [ws \in DOMAIN workspaces |-> [ws |-> ws]]
  /\ NamedBy("api_token.create") = tokens /\ NamedBy("api_token.revoke") = tokens
  /\ NamedBy("policy.create") = policies /\ NamedBy("policy.revise") = policies
  /\ NamedBy("target.create") = targets /\ NamedBy("target.update") = targets /\ NamedBy("target.delete") = targets
  /\ NamedBy("snapshot.create") = snapshots /\ NamedBy("manifest.sign") = manifests
  /\ NamedBy("reconciliation.create") = reconciliations
  /\ NamedBy("source_collection.create") = collections /\ NamedBy("source_collection.scan") = collections
  /\ NamedBy("pipeline_config.create") = configs /\ NamedBy("build.create") = builds
BY DEF NamedBy

\* Of a handler's outcomes only its commit ends a request with a change; that
\* is apart if the rows written, and the row named, are of the caller's
LEMMA CommitIsApart ==
  ASSUME RequestInv, TokenInv, NEW r \in Requests, req[r].pc \in {"authed", "ready"}, req[r].op # "auth.bootstrap",
         NEW x \in Requests, Commits(x),
         \/ Refuse(r) \/ Nothing(r) \/ RollBack(r) \/ \E rows : Loaded(r, rows)
         \/ \E entity : /\ Commit(r, entity) /\ TablesApart(req[r].ws)
                        /\ entity \in DOMAIN NamedBy(req[r].op) => NamedBy(req[r].op)[entity].ws = req[r].ws
  PROVE  CommitsApart(x)
<1>1. ASSUME NEW q, Becomes(r, q), q.pc # "done" PROVE FALSE
  BY <1>1, BecomesFacts DEF Commits
<1>2. ~(Refuse(r) \/ Nothing(r) \/ RollBack(r))
  <2>1. \A a \in {"same", "refused", "failed"} : ~Becomes(r, Ended(a))
    BY <1>1, RowFields DEF Ended
  <2> QED BY <2>1, AnswerForms DEF Refuse, Nothing, RollBack
<1>3. ASSUME NEW rows PROVE ~Loaded(r, rows)
  <2>1. With(r, "ready", rows).pc = "ready"
    BY RowFields DEF With
  <2> QED BY <1>1, <2>1, AnswerForms
<1>4. PICK entity :
        /\ Commit(r, entity) /\ TablesApart(req[r].ws)
        /\ entity \in DOMAIN NamedBy(req[r].op) => NamedBy(req[r].op)[entity].ws = req[r].ws
  BY <1>2, <1>3
<1>5. x = r
  <2>1. PICK q : Becomes(r, q)
    BY <1>4, AnswerForms DEF Commit
  <2> QED BY <2>1, BecomesFacts DEF Commits
<1>6. CallerOf(r) = req[r].ws
  BY DEF TokenInv, Called, CallerOf
<1>7. ASSUME NEW e \in audit' \ audit
      PROVE  e.entity \in DOMAIN NamedBy(e.action) => NamedBy(e.action)[e.entity].ws = req[r].ws
  <2>1. e = [request |-> r, actor |-> req[r].tok, action |-> req[r].op, entity |-> entity]
    BY <1>4, <1>7 DEF Commit, record
  <2>2. e.action = req[r].op /\ e.entity = entity
    BY <2>1
  <2> QED BY <1>4, <2>2
<1> QED BY <1>4, <1>5, <1>6, <1>7 DEF CommitsApart, TablesApart, TokensApart, PoliciesApart, TargetsApart,
             ManifestsApart, SourcesApart, ReconciliationsApart

\* Tokens and the workspace itself
LEMMA RequestsApart ==
  ASSUME RegistryInv, NEW ops, RequestNext(ops),
         UNCHANGED <<policyVars, targetVars, manifestVars, sourceVars, reconciliationVars>>,
         NEW x \in Requests, Commits(x)
  PROVE  CommitsApart(x)
<1>1. RequestInv /\ TokenInv
  BY DEF RegistryInv
<1>2. \A ws : TokensApart(ws) => TablesApart(ws)
  BY Untouched DEF TablesApart
<1>3. ASSUME NEW r \in Requests, req'[r].pc # "done" \/ req[r].op = "auth.bootstrap", NEW q, Becomes(r, q) PROVE FALSE
  BY <1>3, BecomesFacts DEF Commits
<1>4. ASSUME NEW r \in Requests, RefuseUnknown(r) \/ (\E email : BootstrapRead(r, email)) \/ require_scope(r) PROVE FALSE
  <2>1. CASE Refuse(r) \/ Answer(r, "refused")
    <3>1. Becomes(r, Ended("refused"))
      BY <1>1, <2>1, AnswerForms DEF Refuse
    <3>2. req'[r].pc = "refused"
      BY <3>1, BecomesFacts, RowFields DEF Ended
    <3> QED BY <1>3, <3>1, <3>2
  <2>2. ASSUME NEW pc \in {"ready", "authed"}, NEW q, q.pc = pc, req' = [req EXCEPT ![r] = q] PROVE FALSE
    BY <1>1, <2>2 DEF Commits, RequestInv
  <2>3. CASE \E email : BootstrapRead(r, email) /\ ~Refuse(r)
    <3>1. PICK email : req' = [req EXCEPT ![r].pc = "ready", ![r].op = "auth.bootstrap", ![r].seen = [email |-> email]]
      BY <2>3 DEF BootstrapRead
    <3>2. DOMAIN req = Requests /\ "pc" \in DOMAIN req[r]
      BY <1>1 DEF RequestInv, Row
    <3>3. req'[r].pc = "ready" /\ \A y \in Requests \ {r} : req'[y] = req[y]
      BY <3>1, <3>2
    <3> QED BY <3>3 DEF Commits
  <2>4. CASE require_scope(r) /\ ~Answer(r, "refused")
    <3>1. req' = [req EXCEPT ![r].pc = "authed", ![r].seen = NoRows]
      BY <2>4 DEF require_scope
    <3>2. DOMAIN req = Requests /\ "pc" \in DOMAIN req[r]
      BY <1>1 DEF RequestInv, Row
    <3>3. req'[r].pc = "authed" /\ \A y \in Requests \ {r} : req'[y] = req[y]
      BY <3>1, <3>2
    <3> QED BY <3>3 DEF Commits
  <2> QED BY <1>4, <2>1, <2>3, <2>4 DEF RefuseUnknown
<1>5. ASSUME NEW r \in Requests, NEW op, NEW t, NEW ws, authenticate(r, op, t, ws) PROVE FALSE
  <2>1. req' = [req EXCEPT ![r] = Row("identified", op, t, ws, tokens[t])]
    BY <1>5 DEF authenticate, Row
  <2>2. req'[r].pc = "identified" /\ \A y \in Requests \ {r} : req'[y] = req[y]
    BY <1>1, <2>1, RowFields DEF RequestInv
  <2> QED BY <2>2 DEF Commits
<1>6. ASSUME NEW r \in Requests, bootstrap(r) PROVE FALSE
  <2>1. \E q : Becomes(r, q)
    BY <1>1, <1>6, AnswerForms DEF bootstrap, RollBack, Commit
  <2> QED BY <1>3, <1>6, <2>1 DEF bootstrap, At
<1>7. ASSUME NEW r \in Requests, update_workspace(r) PROVE CommitsApart(x)
  <2>1. /\ req[r].pc = "authed" /\ req[r].op = "workspace.update" /\ tokens' = tokens /\ Commit(r, req[r].ws)
    BY <1>7 DEF update_workspace, At
  <2>2. \A ws : ws \in DOMAIN NamedBy("workspace.update") => NamedBy("workspace.update")[ws].ws = ws
    BY NamedTables
  <2> QED BY <1>1, <1>2, <2>1, <2>2, Untouched, CommitIsApart
<1>8. ASSUME NEW r \in Requests, NEW scopes, NEW expires, create_api_token(r, scopes, expires) PROVE CommitsApart(x)
  <2>1. req[r].pc = "authed" /\ req[r].op = "api_token.create"
    BY <1>8 DEF create_api_token, At
  <2>2. CASE Refuse(r)
    BY <1>1, <2>1, <2>2, CommitIsApart
  <2>3. CASE ~Refuse(r)
    <3> DEFINE row == Token(req[r].ws, scopes, expires)
    <3>1. tokens' = Insert(tokens, r, row) /\ Commit(r, r)
      BY <1>8, <2>3 DEF create_api_token
    <3>2. row.ws = req[r].ws
      BY DEF Token
    <3> HIDE DEF row
    <3>3. r \notin DOMAIN tokens
      BY <1>1, <2>1 DEF TokenInv, Known
    <3>4. TokensApart(req[r].ws)
      BY <3>1, <3>2, <3>3, RowInserted DEF TokensApart
    <3>5. r \notin DOMAIN NamedBy(req[r].op)
      BY <2>1, <3>3, NamedTables
    <3> QED BY <1>1, <1>2, <2>1, <3>1, <3>4, <3>5, CommitIsApart
  <2> QED BY <2>2, <2>3
<1>9. ASSUME NEW r \in Requests, NEW t, RevokeRead(r, t) PROVE CommitsApart(x)
  BY <1>1, <1>9, CommitIsApart DEF RevokeRead, At
<1>10. ASSUME NEW r \in Requests, revoke_api_token(r) PROVE CommitsApart(x)
  <2> DEFINE t == req[r].seen.token
  <2>1. /\ req[r].pc = "ready" /\ req[r].op = "api_token.revoke" /\ tokens' = [tokens EXCEPT ![t].revoked_at = "set"]
        /\ Commit(r, t)
    BY <1>10 DEF revoke_api_token, At
  <2>2. t \in DOMAIN tokens /\ tokens[t].ws = req[r].ws /\ DOMAIN tokens[t] = TokenColumns
    BY <1>1, <2>1 DEF TokenInv, At
  <2> HIDE DEF t
  <2>3. DOMAIN tokens' = DOMAIN tokens /\ tokens'[t].ws = req[r].ws /\ \A y \in DOMAIN tokens \ {t} : tokens'[y] = tokens[y]
    BY <2>1, <2>2 DEF TokenColumns
  <2>4. TokensApart(req[r].ws)
    BY <2>2, <2>3, RowChanged DEF TokensApart
  <2>5. NamedBy(req[r].op)[t].ws = req[r].ws
    BY <2>1, <2>2, NamedTables
  <2> QED BY <1>1, <1>2, <2>1, <2>4, <2>5, CommitIsApart
<1>11. ASSUME NEW t, TokenExpires(t) PROVE FALSE
  BY <1>11 DEF TokenExpires, Commits
<1> QED BY <1>4, <1>5, <1>6, <1>7, <1>8, <1>9, <1>10, <1>11 DEF RequestNext

\* Policies: a revision goes to a policy of its own workspace, also when the
\* policy was read long before
LEMMA PolicyCommitsApart ==
  ASSUME RegistryInv, PolicyNext, UNCHANGED <<targetVars, manifestVars, sourceVars, reconciliationVars>>,
         NEW x \in Requests, Commits(x)
  PROVE  CommitsApart(x)
<1>1. RequestInv /\ TokenInv /\ PolicyInv /\ OwnInv
  BY DEF RegistryInv
<1>2. tokens' = tokens
  BY <1>1, PolicyHandlers DEF HandlerStep
<1>3. \A ws : PoliciesApart(ws) => TablesApart(ws)
  BY <1>2, Untouched DEF TablesApart
<1>4. ASSUME NEW r \in Requests, NEW name, NEW document, CreatePolicyRead(r, name, document) PROVE CommitsApart(x)
  BY <1>1, <1>4, CommitIsApart DEF CreatePolicyRead, At
<1>5. ASSUME NEW r \in Requests, create_policy(r) PROVE CommitsApart(x)
  <2> DEFINE v == Revision(req[r].ws, r, 1, req[r].seen.document)
             row == [ws |-> req[r].ws, name |-> req[r].seen.name]
  <2>1. req[r].pc = "ready" /\ req[r].op = "policy.create"
    BY <1>5 DEF create_policy, At
  <2>2. CASE RollBack(r)
    BY <1>1, <2>1, <2>2, CommitIsApart
  <2>3. CASE ~RollBack(r)
    <3>1. policies' = Insert(policies, r, row) /\ revisions' = revisions \cup {v} /\ Commit(r, r)
      BY <1>5, <2>3 DEF create_policy
    <3>2. row.ws = req[r].ws /\ v.ws = req[r].ws
      BY DEF Revision
    <3> HIDE DEF row, v
    <3>3. r \notin DOMAIN policies
      BY <1>1, <2>1 DEF PolicyInv, Known
    <3>4. PoliciesApart(req[r].ws)
      BY <3>1, <3>2, <3>3, RowInserted DEF PoliciesApart
    <3>5. r \notin DOMAIN NamedBy(req[r].op)
      BY <2>1, <3>3, NamedTables
    <3> QED BY <1>1, <1>3, <2>1, <3>1, <3>4, <3>5, CommitIsApart
  <2> QED BY <2>2, <2>3
<1>6. ASSUME NEW r \in Requests, NEW p, NEW document, CreateRevisionRead(r, p, document) PROVE CommitsApart(x)
  BY <1>1, <1>6, CommitIsApart DEF CreateRevisionRead, At
<1>7. ASSUME NEW r \in Requests, create_policy_revision(r) PROVE CommitsApart(x)
  <2> DEFINE v == req[r].seen.revision
  <2>1. req[r].pc = "ready" /\ req[r].op = "policy.revise" /\ policies' = policies
    BY <1>7 DEF create_policy_revision, At
  <2>2. CASE RollBack(r)
    BY <1>1, <2>1, <2>2, CommitIsApart
  <2>3. CASE ~RollBack(r)
    <3>1. revisions' = revisions \cup {v} /\ Commit(r, v.policy)
      BY <1>7, <2>3 DEF create_policy_revision
    <3>2. v.ws = req[r].ws /\ policies[v.policy].ws = v.ws
      BY <1>1, <2>1 DEF OwnInv, Own, PolicyInv, At
    <3> HIDE DEF v
    <3>3. PoliciesApart(req[r].ws)
      BY <2>1, <3>1, <3>2, Untouched DEF PoliciesApart
    <3>4. NamedBy(req[r].op)[v.policy].ws = req[r].ws
      BY <2>1, <3>2, NamedTables
    <3> QED BY <1>1, <1>3, <2>1, <3>1, <3>3, <3>4, CommitIsApart
  <2> QED BY <2>2, <2>3
<1> QED BY <1>4, <1>5, <1>6, <1>7 DEF PolicyNext

\* Targets: an UPDATE or a DELETE finds a row by the id a request has loaded
\* before, and cascades to snapshots of other requests
LEMMA TargetCommitsApart ==
  ASSUME RegistryInv, NEW pinned, TargetNext(pinned),
         UNCHANGED <<policyVars, manifestVars, sourceVars, reconciliationVars>>,
         NEW x \in Requests, Commits(x)
  PROVE  CommitsApart(x)
<1>1. RequestInv /\ TokenInv /\ TargetInv /\ SnapshotInv
  BY DEF RegistryInv
<1>2. tokens' = tokens
  BY <1>1, TargetHandlers DEF HandlerStep
<1>3. \A ws : TargetsApart(ws) => TablesApart(ws)
  BY <1>2, Untouched DEF TablesApart
<1>4. ASSUME NEW r \in Requests, NEW endpoint, create_target(r, endpoint) PROVE CommitsApart(x)
  <2> DEFINE row == [ws |-> req[r].ws, endpoint_redacted |-> endpoint,
                     allowlist_decision |-> decision(endpoint),
                     credential_ciphertext |-> encrypt_credential(r),
                     credential_key_id |-> encrypt_credential(r).key_id, credential_version |-> 1]
  <2>1. req[r].pc = "authed" /\ req[r].op = "target.create" /\ snapshots' = snapshots
    BY <1>4 DEF create_target, At
  <2>2. CASE Refuse(r)
    BY <1>1, <2>1, <2>2, CommitIsApart
  <2>3. CASE ~Refuse(r)
    <3>1. targets' = Insert(targets, r, row) /\ Commit(r, r)
      BY <1>4, <2>3 DEF create_target
    <3>2. row.ws = req[r].ws
      OBVIOUS
    <3> HIDE DEF row
    <3>3. r \notin DOMAIN targets
      BY <1>1, <2>1 DEF TargetInv, Known
    <3>4. TargetsApart(req[r].ws)
      BY <2>1, <3>1, <3>2, <3>3, RowInserted, Untouched DEF TargetsApart
    <3>5. r \notin DOMAIN NamedBy(req[r].op)
      BY <2>1, <3>3, NamedTables
    <3> QED BY <1>1, <1>3, <2>1, <3>1, <3>4, <3>5, CommitIsApart
  <2> QED BY <2>2, <2>3
<1>5. ASSUME NEW r \in Requests, NEW t, NEW changed, NEW endpoint, UpdateTargetRead(r, t, changed, endpoint)
      PROVE  CommitsApart(x)
  BY <1>1, <1>5, CommitIsApart DEF UpdateTargetRead, At
<1>6. ASSUME NEW r \in Requests, update_target(r) PROVE CommitsApart(x)
  <2> DEFINE t == req[r].seen.target
             merged == Merge(targets[t], req[r].seen.row, req[r].seen.new)
  <2>1. req[r].pc = "ready" /\ req[r].op = "target.update" /\ snapshots' = snapshots
    BY <1>6 DEF update_target, At
  <2>2. t \in DOMAIN targets => targets[t].ws = req[r].ws
    BY <1>1, <2>1 DEF TargetInv
  <2>3. t \in DOMAIN NamedBy(req[r].op) => NamedBy(req[r].op)[t].ws = req[r].ws
    BY <2>1, <2>2, NamedTables
  <2>4. CASE RollBack(r)
    BY <1>1, <2>1, <2>4, CommitIsApart
  <2>5. CASE Commit(r, t) /\ targets' = targets
    <3>1. TargetsApart(req[r].ws)
      BY <2>1, <2>5, Untouched DEF TargetsApart
    <3> QED BY <1>1, <1>3, <2>1, <2>3, <2>5, <3>1, CommitIsApart
  <2>6. CASE t \in DOMAIN targets /\ Commit(r, t) /\ targets' = [targets EXCEPT ![t] = merged]
    <3>1. DOMAIN targets[t] = TargetColumns /\ req[r].seen.new.ws = req[r].seen.row.ws
      BY <1>1, <2>1, <2>6 DEF TargetInv
    <3>2. merged.ws = req[r].ws
      BY <2>2, <2>6, <3>1, MergeFacts
    <3> HIDE DEF merged, t
    <3>3. DOMAIN targets' = DOMAIN targets /\ targets'[t].ws = req[r].ws /\ \A y \in DOMAIN targets \ {t} : targets'[y] = targets[y]
      BY <2>6, <3>2
    <3>4. TargetsApart(req[r].ws)
      BY <2>1, <2>2, <3>3, RowChanged, Untouched DEF TargetsApart
    <3> QED BY <1>1, <1>3, <2>1, <2>3, <2>6, <3>4, CommitIsApart
  <2> QED BY <1>6, <2>4, <2>5, <2>6 DEF update_target
<1>7. ASSUME NEW r \in Requests, NEW t, DeleteTargetRead(r, t) PROVE CommitsApart(x)
  BY <1>1, <1>7, CommitIsApart DEF DeleteTargetRead, At
<1>8. ASSUME NEW r \in Requests, delete_target(r, pinned) PROVE CommitsApart(x)
  <2> DEFINE t == req[r].seen.target
  <2>1. req[r].pc = "ready" /\ req[r].op = "target.delete"
    BY <1>8 DEF delete_target, At
  <2>2. t \in DOMAIN targets => targets[t].ws = req[r].ws
    BY <1>1, <2>1 DEF TargetInv
  <2>3. CASE RollBack(r)
    BY <1>1, <2>1, <2>3, CommitIsApart
  <2>4. CASE ~RollBack(r)
    <3>1. targets' = Delete(targets, {t}) /\ snapshots' = Delete(snapshots, SnapshotsOf(t)) /\ Commit(r, t)
      BY <1>8, <2>4 DEF delete_target
    <3>2. \A s \in DOMAIN snapshots \cap SnapshotsOf(t) : snapshots[s].ws = req[r].ws
      BY <1>1, <2>2 DEF SnapshotsOf, SnapshotInv
    <3> HIDE DEF t
    <3>3. TargetsApart(req[r].ws)
      BY <2>2, <3>1, <3>2, RowsDeleted DEF TargetsApart
    <3>4. t \in DOMAIN NamedBy(req[r].op) => NamedBy(req[r].op)[t].ws = req[r].ws
      BY <2>1, <2>2, NamedTables
    <3> QED BY <1>1, <1>3, <2>1, <3>1, <3>3, <3>4, CommitIsApart
  <2> QED BY <2>3, <2>4
<1>9. ASSUME NEW r \in Requests, NEW t, CreateSnapshotRead(r, t) PROVE CommitsApart(x)
  BY <1>1, <1>9, CommitIsApart DEF CreateSnapshotRead, At
<1>10. ASSUME NEW r \in Requests, create_snapshot(r) PROVE CommitsApart(x)
  <2> DEFINE row == [ws |-> req[r].ws, target |-> req[r].seen.target, artifact_ref |-> "null", capture |-> None]
  <2>1. req[r].pc = "ready" /\ req[r].op = "snapshot.create" /\ targets' = targets
    BY <1>10 DEF create_snapshot, At
  <2>2. CASE RollBack(r)
    BY <1>1, <2>1, <2>2, CommitIsApart
  <2>3. CASE ~RollBack(r)
    <3>1. snapshots' = Insert(snapshots, r, row) /\ Commit(r, r)
      BY <1>10, <2>3 DEF create_snapshot
    <3>2. row.ws = req[r].ws
      OBVIOUS
    <3> HIDE DEF row
    <3>3. r \notin DOMAIN snapshots
      BY <1>1, <2>1 DEF SnapshotInv, Known
    <3>4. TargetsApart(req[r].ws)
      BY <2>1, <3>1, <3>2, <3>3, RowInserted, Untouched DEF TargetsApart
    <3>5. r \notin DOMAIN NamedBy(req[r].op)
      BY <2>1, <3>3, NamedTables
    <3> QED BY <1>1, <1>3, <2>1, <3>1, <3>4, <3>5, CommitIsApart
  <2> QED BY <2>2, <2>3
<1>11. ASSUME NEW s, NEW capture, SnapshotStored(s, capture) PROVE FALSE
  BY <1>11 DEF SnapshotStored, requestVars, Commits
<1>12. ASSUME AddEncryptionKey PROVE FALSE
  BY <1>12 DEF AddEncryptionKey, requestVars, Commits
<1> QED BY <1>4, <1>5, <1>6, <1>7, <1>8, <1>9, <1>10, <1>11, <1>12 DEF TargetNext

\* Signatures: the row signed is the one read before
LEMMA ManifestCommitsApart ==
  ASSUME RegistryInv, ManifestNext, UNCHANGED <<policyVars, targetVars, sourceVars, reconciliationVars>>,
         NEW x \in Requests, Commits(x)
  PROVE  CommitsApart(x)
<1>1. RequestInv /\ TokenInv /\ ManifestInv
  BY DEF RegistryInv
<1>2. tokens' = tokens
  BY <1>1, ManifestHandlers DEF HandlerStep
<1>3. \A ws : ManifestsApart(ws) => TablesApart(ws)
  BY <1>2, Untouched DEF TablesApart
<1>4. ASSUME NEW r \in Requests, NEW m, SignRead(r, m) PROVE CommitsApart(x)
  BY <1>1, <1>4, CommitIsApart DEF SignRead, At
<1>5. ASSUME NEW r \in Requests, NEW m, verify_manifest_endpoint(r, m) PROVE CommitsApart(x)
  BY <1>1, <1>5, CommitIsApart DEF verify_manifest_endpoint, At
<1>6. ASSUME NEW r \in Requests, sign_manifest_endpoint(r) PROVE CommitsApart(x)
  <2> DEFINE m == req[r].seen.manifest
             s == [manifest |-> m, key_id |-> req[r].seen.key_id, by |-> r]
  <2>1. req[r].pc = "ready" /\ req[r].op = "manifest.sign" /\ builds' = builds
    BY <1>6 DEF sign_manifest_endpoint, At
  <2>2. m \in DOMAIN manifests /\ manifests[m].ws = req[r].ws
        /\ DOMAIN manifests[m] = {"ws", "manifest_hash", "artifact_ref", "signed"}
    BY <1>1, <2>1 DEF ManifestInv, At
  <2>3. CASE RollBack(r)
    BY <1>1, <2>1, <2>3, CommitIsApart
  <2>4. CASE ~RollBack(r)
    <3>1. /\ manifests' = [manifests EXCEPT
                ![m].artifact_ref = sign_manifest(req[r].seen.envelope, req[r].seen.key_id, r), ![m].signed = TRUE]
          /\ signatures' = signatures \cup {s} /\ Commit(r, m)
      BY <1>6, <2>4 DEF sign_manifest_endpoint
    <3>2. s.manifest = m
      OBVIOUS
    <3> HIDE DEF s, m
    <3>3. DOMAIN manifests' = DOMAIN manifests /\ manifests'[m].ws = req[r].ws
          /\ \A y \in DOMAIN manifests \ {m} : manifests'[y] = manifests[y]
      BY <2>2, <3>1
    <3>4. \A sig \in signatures' \ signatures : manifests[sig.manifest].ws = req[r].ws
      BY <2>2, <3>1, <3>2
    <3>5. ManifestsApart(req[r].ws)
      BY <2>1, <2>2, <3>3, <3>4, RowChanged, Untouched DEF ManifestsApart
    <3>6. NamedBy(req[r].op)[m].ws = req[r].ws
      BY <2>1, <2>2, NamedTables
    <3> QED BY <1>1, <1>3, <2>1, <3>1, <3>5, <3>6, CommitIsApart
  <2> QED BY <2>3, <2>4
<1>7. ASSUME NEW b, (\E h : SelectExisting(b, h)) \/ run_build_job(b) \/ RotateKey PROVE FALSE
  BY <1>7 DEF SelectExisting, run_build_job, RotateKey, requestVars, Commits
<1> QED BY <1>4, <1>5, <1>6, <1>7 DEF ManifestNext

\* Collections and configs
LEMMA SourceCommitsApart ==
  ASSUME RegistryInv, SourceNext, UNCHANGED <<policyVars, targetVars, manifestVars, reconciliationVars>>,
         NEW x \in Requests, Commits(x)
  PROVE  CommitsApart(x)
<1>1. RequestInv /\ TokenInv /\ OwnInv
  BY DEF RegistryInv
<1>2. tokens' = tokens
  BY <1>1, SourceHandlers DEF HandlerStep
<1>3. \A ws : SourcesApart(ws) => TablesApart(ws)
  BY <1>2, Untouched DEF TablesApart
<1>4. ASSUME NEW r \in Requests, NEW ns, NEW root_ok, CreateCollectionRead(r, ns, root_ok) PROVE CommitsApart(x)
  BY <1>1, <1>4, CommitIsApart DEF CreateCollectionRead, At
<1>5. ASSUME NEW r \in Requests, create_source_collection(r) PROVE CommitsApart(x)
  <2>1. req[r].pc = "ready" /\ req[r].op = "source_collection.create" /\ configs' = configs
    BY <1>5 DEF create_source_collection, At
  <2>2. CASE RollBack(r)
    BY <1>1, <2>1, <2>2, CommitIsApart
  <2>3. CASE ~RollBack(r)
    <3>1. collections' = Insert(collections, r, req[r].seen) /\ Commit(r, r)
      BY <1>5, <2>3 DEF create_source_collection
    <3>2. req[r].seen.ws = req[r].ws /\ r \notin DOMAIN collections
      BY <1>1, <2>1 DEF OwnInv, Own, Known
    <3>3. SourcesApart(req[r].ws)
      BY <2>1, <3>1, <3>2, RowInserted, Untouched DEF SourcesApart
    <3>4. r \notin DOMAIN NamedBy(req[r].op)
      BY <2>1, <3>2, NamedTables
    <3> QED BY <1>1, <1>3, <2>1, <3>1, <3>3, <3>4, CommitIsApart
  <2> QED BY <2>2, <2>3
<1>6. ASSUME NEW r \in Requests, NEW hash, CreateConfigRead(r, hash) PROVE CommitsApart(x)
  BY <1>1, <1>6, CommitIsApart DEF CreateConfigRead, At
<1>7. ASSUME NEW r \in Requests, create_pipeline_config(r) PROVE CommitsApart(x)
  <2>1. req[r].pc = "ready" /\ req[r].op = "pipeline_config.create" /\ collections' = collections
    BY <1>7 DEF create_pipeline_config, At
  <2>2. CASE RollBack(r)
    BY <1>1, <2>1, <2>2, CommitIsApart
  <2>3. CASE ~RollBack(r)
    <3>1. configs' = Insert(configs, r, req[r].seen) /\ Commit(r, r)
      BY <1>7, <2>3 DEF create_pipeline_config
    <3>2. req[r].seen.ws = req[r].ws /\ r \notin DOMAIN configs
      BY <1>1, <2>1 DEF OwnInv, Own, Known
    <3>3. SourcesApart(req[r].ws)
      BY <2>1, <3>1, <3>2, RowInserted, Untouched DEF SourcesApart
    <3>4. r \notin DOMAIN NamedBy(req[r].op)
      BY <2>1, <3>2, NamedTables
    <3> QED BY <1>1, <1>3, <2>1, <3>1, <3>3, <3>4, CommitIsApart
  <2> QED BY <2>2, <2>3
<1>8. ASSUME NEW r \in Requests, NEW c, scan_source_collection(r, c) PROVE CommitsApart(x)
  <2>1. req[r].pc = "authed" /\ req[r].op = "source_collection.scan" /\ collections' = collections /\ configs' = configs
    BY <1>8 DEF scan_source_collection, At
  <2>2. CASE Refuse(r)
    BY <1>1, <2>1, <2>2, CommitIsApart
  <2>3. CASE ~Refuse(r)
    <3>1. collections[c].ws = req[r].ws /\ Commit(r, c)
      BY <1>8, <2>3 DEF scan_source_collection
    <3>2. SourcesApart(req[r].ws)
      BY <2>1, Untouched DEF SourcesApart
    <3>3. NamedBy(req[r].op)[c].ws = req[r].ws
      BY <2>1, <3>1, NamedTables
    <3> QED BY <1>1, <1>3, <2>1, <3>1, <3>2, <3>3, CommitIsApart
  <2> QED BY <2>2, <2>3
<1>9. ASSUME NEW s, Discover(s) \/ LoadAssets(s) \/ CheckVersion(s) \/ run_scan_job(s) PROVE FALSE
  BY <1>9 DEF Discover, LoadAssets, CheckVersion, run_scan_job, requestVars, Commits
<1>10. ASSUME NEW c, NEW f, NEW content, EditTree(c, f, content) PROVE FALSE
  BY <1>10 DEF EditTree, requestVars, Commits
<1> QED BY <1>4, <1>5, <1>6, <1>7, <1>8, <1>9, <1>10 DEF SourceNext

\* Reconciliations
LEMMA ReconciliationCommitsApart ==
  ASSUME RegistryInv, ReconciliationNext, UNCHANGED <<policyVars, targetVars, manifestVars, sourceVars>>,
         NEW x \in Requests, Commits(x)
  PROVE  CommitsApart(x)
<1>1. RequestInv /\ TokenInv /\ ReconciliationInv
  BY DEF RegistryInv
<1>2. tokens' = tokens
  BY <1>1, ReconciliationHandlers DEF HandlerStep
<1>3. \A ws : ReconciliationsApart(ws) => TablesApart(ws)
  BY <1>2, Untouched DEF TablesApart
<1>4. ASSUME NEW r \in Requests, NEW m, NEW s, NEW p, CreateReconciliationRead(r, m, s, p) PROVE CommitsApart(x)
  BY <1>1, <1>4, CommitIsApart DEF CreateReconciliationRead, At
<1>5. ASSUME NEW r \in Requests, create_reconciliation(r) PROVE CommitsApart(x)
  <2>1. req[r].pc = "ready" /\ req[r].op = "reconciliation.create"
    BY <1>5 DEF create_reconciliation, At
  <2>2. CASE RollBack(r)
    BY <1>1, <2>1, <2>2, CommitIsApart
  <2>3. CASE ~RollBack(r)
    <3>1. reconciliations' = Insert(reconciliations, r, req[r].seen) /\ Commit(r, r)
      BY <1>5, <2>3 DEF create_reconciliation
    <3>2. req[r].seen.ws = req[r].ws /\ r \notin DOMAIN reconciliations
      BY <1>1, <2>1 DEF ReconciliationInv, At
    <3>3. ReconciliationsApart(req[r].ws)
      BY <3>1, <3>2, RowInserted DEF ReconciliationsApart
    <3>4. r \notin DOMAIN NamedBy(req[r].op)
      BY <2>1, <3>2, NamedTables
    <3> QED BY <1>1, <1>3, <2>1, <3>1, <3>3, <3>4, CommitIsApart
  <2> QED BY <2>2, <2>3
<1>6. ASSUME NEW r \in Requests, NEW y, evaluate_policy_endpoint(r, y) PROVE CommitsApart(x)
  BY <1>1, <1>6, CommitIsApart DEF evaluate_policy_endpoint, ReadReport, At
<1>7. ASSUME NEW r \in Requests, NEW y, get_remediation_plan(r, y) PROVE CommitsApart(x)
  BY <1>1, <1>7, CommitIsApart DEF get_remediation_plan, ReadReport, At
<1>8. ASSUME NEW y, StartAttempt(y) \/ PutReport(y) \/ run_reconcile_job(y) \/ AbandonAttempt(y) PROVE FALSE
  BY <1>8 DEF StartAttempt, PutReport, run_reconcile_job, AbandonAttempt, requestVars, Commits
<1> QED BY <1>4, <1>5, <1>6, <1>7, <1>8 DEF ReconciliationNext

\* Build rows
LEMMA BuildCommitsApart ==
  ASSUME RegistryInv, BuildRowNext, NEW x \in Requests, Commits(x)
  PROVE  CommitsApart(x)
<1>1. RequestInv /\ TokenInv /\ BuildInv
  BY DEF RegistryInv
<1>2. ASSUME NEW r \in Requests, NEW c, NEW p, CreateBuildRead(r, c, p) PROVE CommitsApart(x)
  BY <1>1, <1>2, CommitIsApart DEF CreateBuildRead, At
<1>3. ASSUME NEW r \in Requests, create_build(r) PROVE CommitsApart(x)
  <2> DEFINE row == [ws |-> req[r].ws, collection |-> req[r].seen.collection, config |-> req[r].seen.config,
                     state |-> "pending", manifest_hash |-> None, existing |-> FALSE]
  <2>1. req[r].pc = "ready" /\ req[r].op = "build.create" /\ builds' = Insert(builds, r, row) /\ Commit(r, r)
    BY <1>3 DEF create_build, At
  <2>2. /\ tokens' = tokens /\ manifests' = manifests /\ signatures' = signatures
        /\ UNCHANGED <<policyVars, targetVars, sourceVars, reconciliationVars>>
    BY <1>3 DEF create_build
  <2>3. row.ws = req[r].ws
    OBVIOUS
  <2> HIDE DEF row
  <2>4. r \notin DOMAIN builds
    BY <1>1, <2>1 DEF BuildInv, Known
  <2>5. ManifestsApart(req[r].ws)
    BY <2>1, <2>2, <2>3, <2>4, RowInserted, Untouched DEF ManifestsApart
  <2>6. TablesApart(req[r].ws)
    BY <2>2, <2>5, Untouched DEF TablesApart
  <2>7. r \notin DOMAIN NamedBy(req[r].op)
    BY <2>1, <2>4, NamedTables
  <2> QED BY <1>1, <2>1, <2>6, <2>7, CommitIsApart
<1> QED BY <1>2, <1>3 DEF BuildRowNext

\* Whichever handler commits
LEMMA StepsAreApart ==
  ASSUME RegistryInv, [Next]_vars, NEW x \in Requests, Commits(x)
  PROVE  CommitsApart(x)
<1>1. ASSUME UNCHANGED vars PROVE FALSE
  BY <1>1 DEF vars, requestVars, Commits
<1> QED BY <1>1, RequestsApart, PolicyCommitsApart, TargetCommitsApart, ManifestCommitsApart,
           SourceCommitsApart, ReconciliationCommitsApart, BuildCommitsApart DEF Next

\* What rows refer to
LEMMA RowsStayApart == RegistryInv => RowsAreApart
<1> SUFFICES ASSUME RegistryInv PROVE RowsAreApart
  OBVIOUS
<1>1. TokenInv /\ PolicyInv /\ TargetInv /\ SnapshotInv /\ ManifestInv /\ ReconciliationInv /\ OwnInv
  BY DEF RegistryInv
<1>2. ASSUME NEW e \in EventsOf("api_token.revoke") PROVE tokens[e.entity].ws = CallerOf(e.request)
  <2>1. e \in audit /\ e.action = "api_token.revoke"
    BY DEF EventsOf
  <2>2. e.request \in Requests /\ req[e.request].pc = "done" /\ req[e.request].op = "api_token.revoke"
    BY <1>1, <2>1 DEF TokenInv
  <2>3. Called(e.request) /\ tokens[e.entity].ws = req[e.request].ws
    BY <1>1, <2>2 DEF TokenInv, Called
  <2> QED BY <1>1, <2>2, <2>3, CallersWorkspace
<1>3. \A v \in revisions : policies[v.policy].ws = v.ws
  BY <1>1 DEF PolicyInv
<1>4. ASSUME NEW t \in DOMAIN targets, targets[t].credential_ciphertext.credential \in Requests
      PROVE  CallerOf(targets[t].credential_ciphertext.credential) = targets[t].ws
  <2> DEFINE r == targets[t].credential_ciphertext.credential
  <2>1. Called(r) /\ req[r].pc = "done" /\ req[r].ws = targets[t].ws
    BY <1>1, <1>4 DEF TargetInv, Sealed
  <2> QED BY <1>1, <1>4, <2>1, CallersWorkspace
<1>5. \A x \in DOMAIN snapshots : targets[snapshots[x].target].ws = snapshots[x].ws
  BY <1>1 DEF SnapshotInv
<1>6. ASSUME NEW s \in signatures PROVE CallerOf(s.by) = manifests[s.manifest].ws
  <2>1. s.by \in Requests /\ Called(s.by) /\ req[s.by].pc = "done" /\ req[s.by].ws = manifests[s.manifest].ws
    BY <1>1 DEF ManifestInv
  <2> QED BY <1>1, <2>1, CallersWorkspace
<1>7. ASSUME NEW x \in DOMAIN reconciliations
      PROVE  LET row == reconciliations[x] IN
             /\ {row.ws, manifests[row.manifest].ws, snapshots[row.snapshot].ws} = {CallerOf(x)}
             /\ row.revision # None => row.revision.ws = CallerOf(x)
  <2> DEFINE row == reconciliations[x]
  <2>1. /\ x \in Requests /\ Called(x) /\ req[x].pc = "done" /\ req[x].ws = row.ws
        /\ Refers(row) /\ row.snapshot \in DOMAIN snapshots
    BY <1>1 DEF ReconciliationInv
  <2>2. CallerOf(x) = row.ws
    BY <1>1, <2>1, CallersWorkspace
  <2>3. manifests[row.manifest].ws = row.ws /\ snapshots[row.snapshot].ws = row.ws
        /\ (row.revision # None => row.revision.ws = row.ws)
    BY <2>1 DEF Refers
  <2> QED BY <2>2, <2>3
<1>8. \A b \in DOMAIN builds :
        {collections[builds[b].collection].ws, configs[builds[b].config].ws} = {builds[b].ws}
  BY <1>1 DEF OwnInv, Uses
<1> QED BY <1>2, <1>3, <1>4, <1>5, <1>6, <1>7, <1>8 DEF RowsAreApart

\* Workspaces are apart: every row a commit inserts, changes or deletes, every
\* row its event names, and every row a build, a snapshot, a revision, a
\* signature or a reconciliation refers to, is of the workspace of the token it
\* was sent with, although handlers load rows by bare id, for any number of
\* workspaces, tokens and overlapping requests.
THEOREM WorkspacesStayApart == Spec => WorkspacesAreApart
<1>1. RegistryInv /\ [Next]_vars =>
        [\A r \in Requests :
           req[r].pc # "done" /\ req'[r].pc = "done" /\ req[r].op # "auth.bootstrap" => CommitsApart(r)]_vars
  BY StepsAreApart DEF Commits
<1>2. RowsAreApart' /\ [\A r \in Requests :
           req[r].pc # "done" /\ req'[r].pc = "done" /\ req[r].op # "auth.bootstrap" => CommitsApart(r)]_vars
        => [/\ RowsAreApart'
            /\ \A r \in Requests :
                 req[r].pc # "done" /\ req'[r].pc = "done" /\ req[r].op # "auth.bootstrap" => CommitsApart(r)]_vars
  OBVIOUS
<1>3. Spec => []RowsAreApart
  BY RegistryInvariant, RowsStayApart, PTL
<1> QED BY <1>1, <1>2, <1>3, RegistryInvariant, PTL DEF Spec, WorkspacesAreApart

\* A build leads to exactly one manifest of its workspace, and a manifest's
\* signed column, its artifact and the signature rows tell the same story,
\* for any number of builds, signers and keys.
THEOREM ManifestsHold == Spec => []ManifestsStand
<1>1. RegistryInv => ManifestsStand
  <2> SUFFICES ASSUME RegistryInv PROVE ManifestsStand
    OBVIOUS
  <2>1. BuildInv /\ ManifestInv
    BY DEF RegistryInv
  <2>2. ASSUME NEW m \in DOMAIN manifests
        PROVE  LET e == manifests[m].artifact_ref IN
               e.signing_view = manifests[m].manifest_hash /\ e.manifest_hash = manifests[m].manifest_hash
    BY <2>1, EnvelopeParts DEF ManifestInv, Whole
  <2>3. BuildsLeadToManifests
    <3>1. ASSUME NEW b \in DOMAIN builds, builds[b].state = "completed"
          PROVE  /\ Cardinality(ManifestOf(builds[b].ws, builds[b].manifest_hash)) = 1
                 /\ \A m \in ManifestOf(builds[b].ws, builds[b].manifest_hash) :
                      manifests[m].artifact_ref.signing_view = builds[b].manifest_hash
      <4> DEFINE M == ManifestOf(builds[b].ws, builds[b].manifest_hash)
      <4>1. M # {}
        BY <2>1, <3>1 DEF BuildInv
      <4>2. \A m, n \in M : m = n
        BY <2>1 DEF ManifestInv, ManifestOf
      <4>3. \A m \in M : m \in DOMAIN manifests /\ manifests[m].manifest_hash = builds[b].manifest_hash
        BY DEF ManifestOf
      <4> HIDE DEF M
      <4>4. PICK m : M = {m}
        BY <4>1, <4>2
      <4>5. Cardinality(M) = 1
        BY <4>4, FS_Singleton
      <4> QED BY <2>2, <4>3, <4>5 DEF M
    <3> QED BY <3>1 DEF BuildsLeadToManifests
  <2>4. SignedMeansVerifiable
    <3>1. ASSUME NEW m \in DOMAIN manifests
          PROVE  /\ manifests[m].signed <=> verify_manifest(m) \in {"VALID_TRUSTED", "VALID_UNTRUSTED"}
                 /\ \A s \in manifests[m].artifact_ref.signatures :
                      [manifest |-> m, key_id |-> s.key_id, by |-> s.by] \in signatures
      <4> DEFINE e == manifests[m].artifact_ref
                 results == statuses(e)
      <4>1. manifests[m].signed <=> e.signatures # {}
        BY <2>1 DEF ManifestInv
      <4>2. Mirrored(m, e.signatures)
        BY <2>1 DEF ManifestInv, Whole
      <4>3. results \subseteq {"valid", "unknown_key"} /\ (results = {} <=> e.signatures = {})
        BY DEF statuses
      <4>4. verify_manifest(m) = overall_status(TRUE, results)
        BY <2>2 DEF verify_manifest
      <4> HIDE DEF results
      <4>5. overall_status(TRUE, results) \in {"VALID_TRUSTED", "VALID_UNTRUSTED"} <=> results # {}
        <5>1. CASE results = {}
          BY <5>1 DEF overall_status
        <5>2. CASE results # {}
          <6>1. "valid" \in results \/ ("valid" \notin results /\ "unknown_key" \in results)
            BY <4>3, <5>2
          <6> QED BY <5>2, <6>1 DEF overall_status
        <5> QED BY <5>1, <5>2
      <4> QED BY <4>1, <4>2, <4>3, <4>4, <4>5 DEF Mirrored
    <3> QED BY <3>1 DEF SignedMeansVerifiable
  <2> QED BY <2>3, <2>4 DEF ManifestsStand
<1> QED BY <1>1, RegistryInvariant, PTL
-----------------------------------------------------------------------------
(* Scans of a collection *)

ScanColumns == {"pc", "collection", "records", "existing", "checked", "missing", "quiet"}

\* What a scan nobody overtook has read is what is there.  A version it found
\* is never deleted; one it missed may come with another collection's scan.
UpToDate(scan) ==
  LET c == scan.collection IN
  /\ scan.pc \in {"discovered", "checking"} => scan.records = [f \in Present(c) |-> tree[c][f]]
  /\ scan.pc = "checking" =>
       /\ scan.existing = assets[c]
       /\ \A f \in scan.checked \ scan.missing : VersionExists(version_id(c, f, scan.records[f]))

\* A scan's row; assets are never deleted
Scan(scan) ==
  /\ DOMAIN scan = ScanColumns /\ scan.pc \in {"queued", "discovered", "checking", "done"}
  /\ scan.collection \in Scanned /\ scan.collection \in DOMAIN collections
  /\ scan.pc \in {"queued", "discovered"} => scan.checked = {} /\ scan.missing = {}
  /\ scan.pc = "checking" => DOMAIN scan.existing \subseteq DOMAIN assets[scan.collection]
  /\ scan.quiet => UpToDate(scan)

Statuses(table) == \A f \in DOMAIN table : table[f] \in {"active", "tombstone"}

ScanInv ==
  /\ DOMAIN tree = Scanned /\ DOMAIN assets = Scanned
  /\ \A c \in Scanned : Statuses(assets[c])
  /\ DOMAIN scans \subseteq Requests
  /\ \A s \in DOMAIN scans : Scan(scans[s])

\* The columns of a scan that is queued, or done
LEMMA FreshScan ==
  ASSUME NEW c \in Scanned, c \in DOMAIN collections
  PROVE  /\ Scan(NewScan(c)) /\ NewScan(c).pc = "queued"
         /\ Scan(DoneScan(c)) /\ DoneScan(c).pc = "done" /\ DoneScan(c).collection = c
<1>1. /\ DOMAIN NewScan(c) = ScanColumns /\ NewScan(c).pc = "queued" /\ NewScan(c).collection = c
      /\ NewScan(c).checked = {} /\ NewScan(c).missing = {}
  BY DEF NewScan, ScanColumns
<1>2. DOMAIN DoneScan(c) = ScanColumns /\ DoneScan(c).pc = "done" /\ DoneScan(c).collection = c
  BY DEF NewScan, DoneScan, ScanColumns
<1> QED BY <1>1, <1>2 DEF Scan, UpToDate

\* Who is disturbed keeps its step and is not quiet; who is not, is queued,
\* done, another collection's or the one that disturbs
Disturbed(new, x, c) ==
  /\ DOMAIN new = DOMAIN scans
  /\ \A s \in DOMAIN scans :
       /\ Scan(new[s]) /\ new[s].pc = scans[s].pc /\ new[s].collection = scans[s].collection
       /\ s # x /\ new[s].collection = c /\ new[s].pc \in {"discovered", "checking"} => new[s].quiet = FALSE

LEMMA DisturbFacts == ASSUME ScanInv, NEW x, NEW c PROVE Disturbed(Disturb(x, c), x, c)
<1>1. DOMAIN Disturb(x, c) = DOMAIN scans
  BY DEF Disturb
<1>2. ASSUME NEW s \in DOMAIN scans
      PROVE  LET scan == Disturb(x, c)[s] IN
             /\ Scan(scan) /\ scan.pc = scans[s].pc /\ scan.collection = scans[s].collection
             /\ s # x /\ scan.collection = c /\ scan.pc \in {"discovered", "checking"} => scan.quiet = FALSE
  <2> DEFINE row == scans[s]
  <2>1. Scan(row) /\ DOMAIN row = ScanColumns
    BY DEF ScanInv, Scan
  <2>2. Disturb(x, c)[s] = IF s = x \/ row.collection # c \/ row.pc \in {"queued", "done"} THEN row
                           ELSE [row EXCEPT !.quiet = FALSE]
    BY DEF Disturb
  <2>3. CASE s = x \/ row.collection # c \/ row.pc \in {"queued", "done"}
    BY <2>1, <2>2, <2>3
  <2>4. CASE ~(s = x \/ row.collection # c \/ row.pc \in {"queued", "done"})
    <3> DEFINE new == [row EXCEPT !.quiet = FALSE]
    <3>1. Disturb(x, c)[s] = new
      BY <2>2, <2>4
    <3>2. /\ DOMAIN new = ScanColumns /\ new.pc = row.pc /\ new.collection = row.collection
          /\ new.records = row.records /\ new.existing = row.existing
          /\ new.checked = row.checked /\ new.missing = row.missing /\ new.quiet = FALSE
      BY <2>1 DEF ScanColumns
    <3> HIDE DEF new, row
    <3>3. Scan(new)
      BY <2>1, <3>2 DEF Scan
    <3> QED BY <3>1, <3>2, <3>3 DEF row
  <2> QED BY <2>3, <2>4
<1> QED BY <1>1, <1>2 DEF Disturbed

\* What a scan has read stays, unless somebody overtakes it
LEMMA ScanStays ==
  ASSUME SourcesKept, versions \subseteq versions', NEW scan, Scan(scan),
         DOMAIN assets[scan.collection] \subseteq DOMAIN assets'[scan.collection],
         \/ tree'[scan.collection] = tree[scan.collection] /\ assets'[scan.collection] = assets[scan.collection]
         \/ scan.quiet = FALSE
         \/ scan.pc \in {"queued", "done"}
  PROVE  Scan(scan)'
<1> DEFINE c == scan.collection
<1>1. c \in DOMAIN collections' /\ collections'[c] = collections[c]
  BY DEF Scan, SourcesKept
<1>2. ASSUME scan.quiet PROVE UpToDate(scan)'
  <2>1. UpToDate(scan)
    BY <1>2 DEF Scan
  <2>2. CASE scan.pc \in {"queued", "done"}
    BY <2>2 DEF UpToDate
  <2>3. CASE tree'[c] = tree[c] /\ assets'[c] = assets[c]
    <3>1. [f \in Present(c) |-> tree[c][f]] = [f \in Present(c)' |-> tree'[c][f]]
      BY <2>3 DEF Present
    <3>2. \A f, content : version_id(c, f, content)' = version_id(c, f, content)
      BY <1>1 DEF version_id
    <3>3. \A id : VersionExists(id) => VersionExists(id)'
      BY DEF VersionExists
    <3> QED BY <2>1, <2>3, <3>1, <3>2, <3>3 DEF UpToDate
  <2> QED BY <1>2, <2>2, <2>3
<1> QED BY <1>1, <1>2 DEF Scan

\* The tables a scan reads stay, and one scan goes on
LEMMA OneScanMoves ==
  ASSUME ScanInv, SourcesKept, UNCHANGED <<tree, assets, versions>>, NEW s \in Requests, NEW scan,
         scans' = [x \in DOMAIN scans \cup {s} |-> IF x = s THEN scan ELSE scans[x]],
         Scan(scan)
  PROVE  ScanInv'
<1>1. \A y : Scan(y) => Scan(y)'
  BY ScanStays
<1>2. \A x \in DOMAIN scans' : scans'[x] = IF x = s THEN scan ELSE scans[x]
  OBVIOUS
<1>3. \A x \in DOMAIN scans' : Scan(scans'[x])
  BY <1>2 DEF ScanInv
<1>4. \A x \in DOMAIN scans' : Scan(scans[x])'
  BY <1>1, <1>3
<1>5. DOMAIN scans' \subseteq Requests
  BY DEF ScanInv
<1> QED BY <1>4, <1>5 DEF ScanInv, Statuses

\* Discover, LoadAssets, CheckVersion
LEMMA ScanReads ==
  ASSUME ScanInv, SourcesKept, NEW s \in DOMAIN scans, Discover(s) \/ LoadAssets(s) \/ CheckVersion(s)
  PROVE  ScanInv' /\ \A x \in DOMAIN scans : scans'[x].pc = "done" => scans[x].pc = "done"
<1> DEFINE scan == scans[s]
           c == scan.collection
<1>1. UNCHANGED <<tree, assets, versions>> /\ DOMAIN scan = ScanColumns /\ s \in Requests /\ Scan(scan)
  BY DEF Discover, LoadAssets, CheckVersion, ScanInv, Scan
<1>2. ASSUME NEW new, scans' = [scans EXCEPT ![s] = new], Scan(new), new.pc # "done"
      PROVE  ScanInv' /\ \A x \in DOMAIN scans : scans'[x].pc = "done" => scans[x].pc = "done"
  <2>1. scans' = [x \in DOMAIN scans \cup {s} |-> IF x = s THEN new ELSE scans[x]]
    BY <1>2
  <2> QED BY <1>1, <1>2, <2>1, OneScanMoves
<1>3. CASE Discover(s)
  <2> DEFINE found == [f \in Present(c) |-> tree[c][f]]
             new == [[[scan EXCEPT !.pc = "discovered"] EXCEPT !.quiet = TRUE] EXCEPT !.records = found]
  <2>1. scans' = [scans EXCEPT ![s] = new] /\ scan.pc = "queued"
    <3>1. scans' = [scans EXCEPT ![s].pc = "discovered", ![s].quiet = TRUE, ![s].records = found]
      BY <1>3 DEF Discover
    <3> HIDE DEF found
    <3> QED BY <1>1, <1>3, <3>1 DEF Discover, ScanColumns
  <2>2. /\ DOMAIN new = ScanColumns /\ new.pc = "discovered" /\ new.collection = c
        /\ new.records = found /\ new.checked = scan.checked /\ new.missing = scan.missing
    <3> HIDE DEF found
    <3> QED BY <1>1 DEF ScanColumns
  <2> HIDE DEF new
  <2>3. UpToDate(new)
    BY <2>2 DEF UpToDate
  <2>4. Scan(new)
    BY <1>1, <2>1, <2>2, <2>3 DEF Scan
  <2> QED BY <1>2, <2>1, <2>2, <2>4
<1>4. CASE LoadAssets(s)
  <2> DEFINE new == [[scan EXCEPT !.pc = "checking"] EXCEPT !.existing = assets[c]]
  <2>1. scans' = [scans EXCEPT ![s] = new] /\ scan.pc = "discovered"
    BY <1>1, <1>4 DEF LoadAssets, ScanColumns
  <2>2. /\ DOMAIN new = ScanColumns /\ new.pc = "checking" /\ new.quiet = scan.quiet /\ new.collection = c
        /\ new.records = scan.records /\ new.existing = assets[c]
        /\ new.checked = scan.checked /\ new.missing = scan.missing
    BY <1>1 DEF ScanColumns
  <2> HIDE DEF new
  <2>3. ASSUME new.quiet PROVE UpToDate(new)
    <3>1. UpToDate(scan) /\ scan.checked = {} /\ scan.missing = {}
      BY <1>1, <2>1, <2>2, <2>3 DEF Scan
    <3> QED BY <2>1, <2>2, <3>1 DEF UpToDate
  <2>4. Scan(new)
    BY <1>1, <2>2, <2>3 DEF Scan
  <2> QED BY <1>2, <2>1, <2>2, <2>4
<1>5. CASE CheckVersion(s)
  <2>1. PICK f \in Unchecked(s) : scans' = [scans EXCEPT
            ![s].checked = @ \cup {f},
            ![s].missing = @ \cup (IF VersionExists(FoundId(s, f)) THEN {} ELSE {f})]
    BY <1>5 DEF CheckVersion
  <2> DEFINE more == IF VersionExists(FoundId(s, f)) THEN {} ELSE {f}
             new == [[scan EXCEPT !.checked = @ \cup {f}] EXCEPT !.missing = @ \cup more]
  <2>2. scans' = [scans EXCEPT ![s] = new] /\ scan.pc = "checking"
    <3>1. scans' = [scans EXCEPT ![s].checked = @ \cup {f}, ![s].missing = @ \cup more]
      BY <2>1
    <3> HIDE DEF more
    <3> QED BY <1>1, <1>5, <3>1 DEF CheckVersion, ScanColumns
  <2>3. /\ DOMAIN new = ScanColumns /\ new.pc = "checking" /\ new.quiet = scan.quiet /\ new.collection = c
        /\ new.records = scan.records /\ new.existing = scan.existing
        /\ new.checked = scan.checked \cup {f} /\ new.missing = scan.missing \cup more
    <3> HIDE DEF more
    <3> QED BY <1>1, <2>2 DEF ScanColumns
  <2> HIDE DEF new
  <2>4. ASSUME new.quiet PROVE UpToDate(new)
    <3>1. UpToDate(scan)
      BY <1>1, <2>3, <2>4 DEF Scan
    <3>2. \A g \in scan.checked \ scan.missing : VersionExists(version_id(c, g, scan.records[g]))
      BY <2>2, <3>1 DEF UpToDate
    <3>3. f \in more \/ VersionExists(version_id(c, f, scan.records[f]))
      BY DEF FoundId
    <3>4. \A g \in new.checked \ new.missing : VersionExists(version_id(c, g, new.records[g]))
      <4> HIDE DEF more
      <4> QED BY <2>3, <3>2, <3>3
    <3> QED BY <2>2, <2>3, <3>1, <3>4 DEF UpToDate
  <2>5. Scan(new)
    BY <1>1, <2>2, <2>3, <2>4 DEF Scan
  <2> QED BY <1>2, <2>2, <2>3, <2>5
<1> QED BY <1>3, <1>4, <1>5

\* Whoever changes what the others have read of a collection disturbs them
LEMMA ScansDisturbed ==
  ASSUME ScanInv, SourcesKept, versions \subseteq versions', NEW x, NEW c \in Scanned,
         DOMAIN scans' = DOMAIN scans,
         \A s \in DOMAIN scans : s # x => scans'[s] = Disturb(x, c)[s],
         x \in DOMAIN scans => c \in DOMAIN collections /\ scans'[x] = DoneScan(c),
         DOMAIN tree' = Scanned, DOMAIN assets' = Scanned,
         \A d \in Scanned \ {c} : tree'[d] = tree[d] /\ assets'[d] = assets[d],
         DOMAIN assets[c] \subseteq DOMAIN assets'[c], Statuses(assets'[c])
  PROVE  ScanInv'
<1>1. \A d \in Scanned : DOMAIN assets[d] \subseteq DOMAIN assets'[d]
  OBVIOUS
<1>2. ASSUME NEW s \in DOMAIN scans PROVE Scan(scans[s])'
  <2>1. ASSUME NEW scan, scan = scans'[s], Scan(scan),
               scan.collection # c \/ scan.quiet = FALSE \/ scan.pc \in {"queued", "done"}
        PROVE  Scan(scans[s])'
    <3>1. scan.collection \in Scanned
      BY <2>1 DEF Scan
    <3>2. Scan(scan)'
      BY <1>1, <2>1, <3>1, ScanStays
    <3> QED BY <2>1, <3>2
  <2>2. CASE s = x
    BY <2>1, <2>2, FreshScan
  <2>3. CASE s # x
    <3> DEFINE scan == Disturb(x, c)[s]
    <3>1. scan = scans'[s]
      BY <2>3
    <3>2. Scan(scan) /\ (scan.collection = c /\ scan.pc \in {"discovered", "checking"} => scan.quiet = FALSE)
      <4>1. Disturbed(Disturb(x, c), x, c)
        BY DisturbFacts
      <4> QED BY <2>3, <4>1 DEF Disturbed
    <3> HIDE DEF scan
    <3>3. scan.pc \in {"queued", "discovered", "checking", "done"}
      BY <3>2 DEF Scan
    <3> QED BY <2>1, <3>1, <3>2, <3>3
  <2> QED BY <2>2, <2>3
<1>3. \A d \in Scanned : Statuses(assets'[d])
  BY DEF ScanInv
<1> QED BY <1>2, <1>3 DEF ScanInv, Statuses

\* A queued job's row; a file that somebody edits
LEMMA ScansAround ==
  ASSUME ScanInv, SourcesKept
  PROVE  /\ \A r \in Requests : \A c \in Scanned \cap DOMAIN collections :
              scans' = Insert(scans, r, NewScan(c)) /\ UNCHANGED <<tree, assets, versions>> => ScanInv'
         /\ \A c \in Scanned : \A f, content : EditTree(c, f, content) => ScanInv'
<1>1. ASSUME NEW r \in Requests, NEW c \in Scanned \cap DOMAIN collections, scans' = Insert(scans, r, NewScan(c)),
             UNCHANGED <<tree, assets, versions>>
      PROVE  ScanInv'
  <2> QED BY <1>1, FreshScan, OneScanMoves DEF Insert
<1>2. ASSUME NEW c \in Scanned, NEW f, NEW content, EditTree(c, f, content) PROVE ScanInv'
  <2>1. None \notin DOMAIN scans
    BY FreshIds DEF ScanInv
  <2>2. /\ scans' = Disturb(None, c) /\ assets' = assets /\ versions' = versions
        /\ tree' = [tree EXCEPT ![c][f] = content]
    BY <1>2 DEF EditTree
  <2>3. DOMAIN scans' = DOMAIN scans
    <3>1. Disturbed(Disturb(None, c), None, c)
      BY DisturbFacts
    <3> QED BY <2>2, <3>1 DEF Disturbed
  <2>4. DOMAIN tree' = Scanned /\ DOMAIN assets' = Scanned /\ \A d \in Scanned \ {c} : tree'[d] = tree[d]
    BY <2>2 DEF ScanInv
  <2>5. Statuses(assets'[c])
    BY <2>2 DEF ScanInv
  <2> QED BY <2>1, <2>2, <2>3, <2>4, <2>5, ScansDisturbed
<1> QED BY <1>1, <1>2

\* The rows a commit writes
LEMMA ScannedRows ==
  ASSUME ScanInv, NEW s \in DOMAIN scans, scans[s].pc = "checking"
  PROVE  Statuses(ScannedAssets(s)) /\ DOMAIN assets[scans[s].collection] \subseteq DOMAIN ScannedAssets(s)
<1> DEFINE rows   == assets[scans[s].collection]
           found  == DOMAIN scans[s].records
           loaded == scans[s].existing
<1>1. Statuses(rows) /\ DOMAIN loaded \subseteq DOMAIN rows
  BY DEF ScanInv, Scan
<1>2. DOMAIN rows \subseteq DOMAIN ScannedAssets(s)
  BY DEF ScannedAssets
<1>3. ASSUME NEW f \in DOMAIN ScannedAssets(s) PROVE ScannedAssets(s)[f] \in {"active", "tombstone"}
  <2> DEFINE new == IF f \in found THEN "active" ELSE "tombstone"
  <2>1. f \in DOMAIN rows \cup found
    BY <1>3 DEF ScannedAssets
  <2>2. ScannedAssets(s)[f] = IF f \in DOMAIN loaded /\ loaded[f] = new THEN rows[f]
                              ELSE IF f \in DOMAIN loaded \cup found THEN new ELSE rows[f]
    BY <2>1 DEF ScannedAssets
  <2> HIDE DEF rows, found, loaded
  <2> QED BY <1>1, <2>1, <2>2 DEF Statuses
<1> QED BY <1>2, <1>3 DEF Statuses

\* The commit, or the conflict that queues the job again
LEMMA ScanEnds ==
  ASSUME ScanInv, SourcesKept, NEW s \in DOMAIN scans, run_scan_job(s)
  PROVE  ScanInv'
<1> DEFINE c == scans[s].collection
<1>1. c \in Scanned /\ c \in DOMAIN collections /\ s \in Requests
  BY DEF ScanInv, Scan
<1>2. CASE scans' = [scans EXCEPT ![s] = NewScan(c)] /\ UNCHANGED <<assets, versions>>
  <2>1. scans' = [x \in DOMAIN scans \cup {s} |-> IF x = s THEN NewScan(c) ELSE scans[x]]
    BY <1>2
  <2>2. tree' = tree
    BY DEF run_scan_job
  <2> HIDE DEF c
  <2> QED BY <1>1, <1>2, <2>1, <2>2, FreshScan, OneScanMoves
<1>3. CASE /\ assets' = [assets EXCEPT ![c] = ScannedAssets(s)] /\ versions' = versions \cup NewVersions(s)
           /\ scans' = [Disturb(s, c) EXCEPT ![s] = DoneScan(c)]
  <2>1. DOMAIN Disturb(s, c) = DOMAIN scans
    <3>1. Disturbed(Disturb(s, c), s, c)
      BY DisturbFacts
    <3> QED BY <3>1 DEF Disturbed
  <2>2. DOMAIN scans' = DOMAIN scans /\ scans'[s] = DoneScan(c)
        /\ \A x \in DOMAIN scans : x # s => scans'[x] = Disturb(s, c)[x]
    BY <1>3, <2>1
  <2>3. Statuses(ScannedAssets(s)) /\ DOMAIN assets[c] \subseteq DOMAIN ScannedAssets(s)
    BY ScannedRows DEF run_scan_job
  <2>4. tree' = tree /\ DOMAIN tree = Scanned /\ DOMAIN assets = Scanned
    BY DEF run_scan_job, ScanInv
  <2> HIDE DEF c
  <2>5. /\ DOMAIN assets' = Scanned /\ assets'[c] = ScannedAssets(s)
        /\ \A d \in Scanned \ {c} : assets'[d] = assets[d]
    BY <1>1, <1>3, <2>4
  <2>6. versions \subseteq versions'
    BY <1>3
  <2> QED BY <1>1, <2>2, <2>3, <2>4, <2>5, <2>6, ScansDisturbed
<1> QED BY <1>2, <1>3 DEF run_scan_job

\* What a commit without a conflict leaves, if nobody overtook the scan
LEMMA QuietCommit ==
  ASSUME ScanInv, NEW s \in DOMAIN scans, run_scan_job(s), ~ScanConflict(s), scans[s].quiet,
         NEW c, c = scans[s].collection
  PROVE  scans'[s].collection = c /\ ScannedTreeIsExact(c)'
<1> DEFINE scan == scans[s]
           id(f) == version_id(c, f, tree[c][f])
<1>1. /\ scan.records = [f \in Present(c) |-> tree[c][f]] /\ scan.existing = assets[c]
      /\ \A f \in scan.checked \ scan.missing : VersionExists(version_id(c, f, scan.records[f]))
  BY DEF UpToDate, ScanInv, Scan, run_scan_job
<1>2. c \in Scanned /\ c \in DOMAIN collections /\ DOMAIN assets = Scanned
  BY DEF ScanInv, Scan
<1>3. /\ assets' = [assets EXCEPT ![c] = ScannedAssets(s)] /\ tree' = tree /\ collections' = collections
      /\ versions' = versions \cup NewVersions(s)
      /\ scans' = [Disturb(s, c) EXCEPT ![s] = DoneScan(c)]
      /\ Unchecked(s) = {}
  BY DEF run_scan_job
<1>4. DOMAIN scan.records = Present(c) /\ \A f \in Present(c) : scan.records[f] = tree[c][f]
  BY <1>1
<1>5. Present(c) \subseteq scan.checked
  BY <1>3, <1>4 DEF Unchecked
<1>6. scans'[s].collection = c
  <2>1. Disturbed(Disturb(s, c), s, c)
    BY DisturbFacts
  <2>2. s \in DOMAIN Disturb(s, c)
    BY <2>1 DEF Disturbed
  <2> QED BY <1>2, <1>3, <2>2, FreshScan
<1>7. /\ DOMAIN ScannedAssets(s) = DOMAIN assets[c] \cup Present(c)
      /\ \A f \in DOMAIN assets[c] \cup Present(c) :
           ScannedAssets(s)[f] = IF f \in Present(c) THEN "active" ELSE "tombstone"
  BY <1>1, <1>4 DEF ScannedAssets
<1>8. \A f \in Present(c) : \E v \in versions' : v.portable_id = id(f)
  <2>1. ASSUME NEW f \in Present(c), f \notin scan.missing PROVE \E v \in versions' : v.portable_id = id(f)
    BY <1>1, <1>3, <1>4, <1>5, <2>1 DEF VersionExists
  <2>2. ASSUME NEW f \in Present(c), f \in scan.missing PROVE \E v \in versions' : v.portable_id = id(f)
    <3> DEFINE v == Version(c, f, scan.records[f])
    <3>1. v \in NewVersions(s)
      BY <2>2 DEF NewVersions
    <3>2. v.portable_id = id(f)
      BY <1>4 DEF Version
    <3> QED BY <1>3, <3>1, <3>2
  <2> QED BY <2>1, <2>2
<1>9. {f \in DOMAIN assets'[c] : assets'[c][f] = "active"} = Present(c)
  <2>1. assets'[c] = ScannedAssets(s)
    BY <1>2, <1>3
  <2> QED BY <1>7, <2>1
<1>10. Present(c)' = Present(c) /\ \A f \in Present(c) : VersionExists(version_id(c, f, tree[c][f]))'
  BY <1>3, <1>8 DEF Present, VersionExists, version_id
<1>11. ScannedTreeIsExact(c)'
  BY <1>9, <1>10 DEF ScannedTreeIsExact
<1> QED BY <1>6, <1>11

\* A scan that goes from checking to done has just committed
LEMMA ScanStep ==
  ASSUME ScanInv, SourcesKept, [Next]_vars
  PROVE  /\ ScanInv'
         /\ \A s \in DOMAIN scans : scans[s].pc = "checking" /\ scans'[s].pc = "done" =>
              run_scan_job(s) /\ ~ScanConflict(s)
<1> DEFINE Goal == /\ ScanInv'
                   /\ \A s \in DOMAIN scans : scans[s].pc = "checking" /\ scans'[s].pc = "done" =>
                        run_scan_job(s) /\ ~ScanConflict(s)
<1>1. ASSUME UNCHANGED scanVars PROVE Goal
  <2>1. UNCHANGED <<tree, assets, versions, scans>>
    BY <1>1 DEF scanVars
  <2>2. \A y : Scan(y) => Scan(y)'
    BY <2>1, ScanStays
  <2>3. \A x \in DOMAIN scans' : Scan(scans'[x])
    BY <2>1 DEF ScanInv
  <2>4. \A x \in DOMAIN scans' : Scan(scans[x])'
    BY <2>2, <2>3
  <2>5. ScanInv'
    BY <2>1, <2>4 DEF ScanInv, Statuses
  <2> QED BY <2>1, <2>5
<1>2. ASSUME NEW r \in Requests, NEW c \in Scanned \cap DOMAIN collections, scan_source_collection(r, c) PROVE Goal
  <2>1. UNCHANGED <<tree, assets, versions, edits>> /\ (scans' = scans \/ scans' = Insert(scans, r, NewScan(c)))
    BY <1>2 DEF scan_source_collection
  <2>2. CASE scans' = scans
    BY <1>1, <2>1, <2>2 DEF scanVars
  <2>3. CASE scans' = Insert(scans, r, NewScan(c))
    <3>1. ScanInv'
      BY <2>1, <2>3, ScansAround
    <3>2. \A s \in DOMAIN scans : scans'[s] = scans[s] \/ scans'[s] = NewScan(c)
      BY <2>3 DEF Insert
    <3> QED BY <3>1, <3>2, FreshScan
  <2> QED BY <2>1, <2>2, <2>3
<1>3. ASSUME NEW s \in DOMAIN scans, Discover(s) \/ LoadAssets(s) \/ CheckVersion(s) PROVE Goal
  BY <1>3, ScanReads
<1>4. ASSUME NEW s \in DOMAIN scans, run_scan_job(s) PROVE Goal
  <2> DEFINE c == scans[s].collection
  <2>1. ScanInv' /\ c \in Scanned /\ c \in DOMAIN collections
    BY <1>4, ScanEnds DEF ScanInv, Scan
  <2>2. CASE ScanConflict(s)
    <3>1. scans' = [scans EXCEPT ![s] = NewScan(c)]
      BY <1>4, <2>2 DEF run_scan_job
    <3> HIDE DEF c
    <3> QED BY <2>1, <3>1, FreshScan
  <2>3. CASE ~ScanConflict(s)
    <3>1. scans' = [Disturb(s, c) EXCEPT ![s] = DoneScan(c)]
      BY <1>4, <2>3 DEF run_scan_job
    <3>2. Disturbed(Disturb(s, c), s, c)
      BY DisturbFacts
    <3> HIDE DEF c
    <3>3. \A x \in DOMAIN scans : scans[x].pc = "checking" /\ scans'[x].pc = "done" => x = s
      <4>1. ASSUME NEW x \in DOMAIN scans, x # s PROVE scans'[x].pc = scans[x].pc
        BY <3>1, <3>2, <4>1 DEF Disturbed
      <4> QED BY <4>1
    <3> QED BY <1>4, <2>1, <2>3, <3>3
  <2> QED BY <2>2, <2>3
<1>5. ASSUME NEW c \in Scanned, NEW f, NEW content, EditTree(c, f, content) PROVE Goal
  <2>1. scans' = Disturb(None, c)
    BY <1>5 DEF EditTree
  <2>2. \A s \in DOMAIN scans : scans'[s].pc = scans[s].pc
    <3>1. Disturbed(Disturb(None, c), None, c)
      BY DisturbFacts
    <3> QED BY <2>1, <3>1 DEF Disturbed
  <2>3. ScanInv'
    BY <1>5, ScansAround
  <2> QED BY <2>2, <2>3
<1>6. CASE SourceNext
  <2>1. CASE \E r \in Requests :
       \/ \E ns \in Namespaces, root_ok \in BOOLEAN : CreateCollectionRead(r, ns, root_ok)
       \/ create_source_collection(r)
       \/ \E hash \in ConfigHashes : CreateConfigRead(r, hash)
       \/ create_pipeline_config(r)
    BY <1>1, <2>1 DEF CreateCollectionRead, create_source_collection, CreateConfigRead, create_pipeline_config, sourceVars, scanVars
  <2> QED BY <1>2, <1>3, <1>4, <1>5, <1>6, <2>1 DEF SourceNext
<1>7. CASE Next /\ ~SourceNext
  <2>1. UNCHANGED scanVars
    BY <1>7 DEF Next, BuildRowNext, CreateBuildRead, create_build, sourceVars, scanVars
  <2> QED BY <1>1, <2>1
<1>8. CASE UNCHANGED vars
  BY <1>1, <1>8 DEF vars, sourceVars, scanVars
<1> QED BY <1>6, <1>7, <1>8

\* run_scan_job: a scan that no edit and no other scan's commit to its
\* collection overtook leaves exactly the tree behind, for any number of
\* collections, workspaces, scans, files and edits.  A file's version may be
\* another workspace's row: the lookup asks for the portable id alone.
THEOREM QuietScansAreExact == Spec => QuietScanIsExact
<1>1. Init => ScanInv
  <2> SUFFICES ASSUME Init PROVE ScanInv
    OBVIOUS
  <2>1. DOMAIN scans = {} /\ DOMAIN tree = Scanned
    BY DEF Init
  <2>2. DOMAIN assets = Scanned /\ \A c \in Scanned : \A f \in DOMAIN assets[c] : assets[c][f] = "active"
    BY DEF Init, FreshInstance, UsedInstance
  <2> QED BY <2>1, <2>2 DEF ScanInv, Statuses
<1>2. RegistryInv /\ [Next]_vars => SourcesKept
  BY OwnStep DEF RegistryInv
<1>3. RegistryInv /\ ScanInv /\ [Next]_vars => ScanInv'
  BY <1>2, ScanStep
<1>4. RegistryInv /\ ScanInv /\ [Next]_vars =>
        [\A s \in DOMAIN scans :
           scans[s].pc = "checking" /\ scans'[s].pc = "done" /\ scans[s].quiet =>
             ScannedTreeIsExact(scans[s].collection)']_scanVars
  <2> SUFFICES ASSUME RegistryInv, ScanInv, [Next]_vars, NEW s \in DOMAIN scans,
                      scans[s].pc = "checking", scans'[s].pc = "done", scans[s].quiet
               PROVE  ScannedTreeIsExact(scans[s].collection)'
    OBVIOUS
  <2>1. run_scan_job(s) /\ ~ScanConflict(s)
    BY <1>2, ScanStep
  <2>2. PICK c : c = scans[s].collection
    OBVIOUS
  <2>3. scans'[s].collection = c /\ ScannedTreeIsExact(c)'
    BY <2>1, <2>2, QuietCommit
  <2> QED BY <2>3 DEF ScannedTreeIsExact, Present, VersionExists, version_id
<1> QED BY <1>1, <1>3, <1>4, RegistryInvariant, PTL DEF Spec, QuietScanIsExact
-----------------------------------------------------------------------------
(* The audit log *)

\* What the events of an action name, and what a step that records none leaves
Entities(a) == {e.entity : e \in EventsOf(a)}
Silent(ops) == \A a \in ops : EventsOf(a)' = EventsOf(a)

\* A request ends with an event or without one, and no event is recorded
\* otherwise
LogInv ==
  /\ IsFiniteSet(audit)
  /\ {e.request : e \in audit} = {r \in Requests : req[r].pc = "done"}

LogMoves(ops) ==
  \/ req' = req /\ audit' = audit
  \/ \E r \in Requests :
       /\ req[r].pc # "done" /\ \A x \in Requests \ {r} : req'[x] = req[x]
       /\ \/ req'[r].pc # "done" /\ audit' = audit
          \/ req'[r].pc = "done" /\ req[r].op \in ops /\ \E entity : record(r, entity)

TokenLog ==
  /\ Inserted(tokens) = Entities("auth.bootstrap") \cup Entities("api_token.create")
  /\ {t \in DOMAIN tokens : tokens[t].revoked_at = "set"} \subseteq Entities("api_token.revoke")

RevisedIn(p) == {e \in EventsOf("policy.revise") : e.entity = p}

PolicyLog ==
  /\ Inserted(policies) = Entities("policy.create")
  /\ Entities("policy.revise") \subseteq DOMAIN policies
  /\ \A p \in DOMAIN policies : Cardinality(RevisionsOf(p)) = 1 + Cardinality(RevisedIn(p))

TargetLog ==
  /\ \A t \in Entities("target.delete") : t \notin DOMAIN targets /\ Known(t)
  /\ Inserted(targets) = Entities("target.create") \ Entities("target.delete")
  /\ Inserted(snapshots) \subseteq Entities("snapshot.create")

ManifestLog == {s.by : s \in signatures} = {e.request : e \in EventsOf("manifest.sign")}

SourceLog ==
  /\ Inserted(collections) = Entities("source_collection.create")
  /\ Inserted(configs) = Entities("pipeline_config.create")

ReconciliationLog == Inserted(reconciliations) = Entities("reconciliation.create")

BuildLog == Inserted(builds) = Entities("build.create")

AuditInv ==
  LogInv /\ TokenLog /\ PolicyLog /\ TargetLog /\ ManifestLog /\ SourceLog /\ ReconciliationLog /\ BuildLog

\* One event more
LEMMA Recording ==
  ASSUME NEW r \in Requests, NEW entity, record(r, entity), NEW a, a = req[r].op
  PROVE  /\ Entities(a)' = Entities(a) \cup {entity}
         /\ {e.request : e \in EventsOf(a)'} = {e.request : e \in EventsOf(a)} \cup {r}
         /\ \A b : b # a => EventsOf(b)' = EventsOf(b)
<1> DEFINE new == [request |-> r, actor |-> req[r].tok, action |-> req[r].op, entity |-> entity]
<1>1. audit' = audit \cup {new} /\ new.action = a /\ new.entity = entity /\ new.request = r
  BY DEF record
<1> HIDE DEF new
<1>2. \A b : b # a => EventsOf(b)' = EventsOf(b)
  BY <1>1 DEF EventsOf
<1>3. EventsOf(a)' = EventsOf(a) \cup {new}
  BY <1>1 DEF EventsOf
<1> QED BY <1>1, <1>2, <1>3 DEF Entities

\* The operations that record an event of their own, and the others
LEMMA LogStep ==
  ASSUME RequestInv, LogInv, NEW ops, LogMoves(ops)
  PROVE  LogInv' /\ \A others : ops \cap others = {} => Silent(others)
<1>1. CASE req' = req /\ audit' = audit
  BY <1>1 DEF LogInv, Silent, EventsOf
<1>2. ASSUME NEW r \in Requests, req[r].pc # "done", \A x \in Requests \ {r} : req'[x] = req[x],
             req'[r].pc # "done", audit' = audit
      PROVE  LogInv' /\ \A others : Silent(others)
  BY <1>2 DEF LogInv, Silent, EventsOf
<1>3. ASSUME NEW r \in Requests, req[r].pc # "done", \A x \in Requests \ {r} : req'[x] = req[x],
             req'[r].pc = "done", req[r].op \in ops, NEW entity, record(r, entity)
      PROVE  LogInv' /\ \A others : ops \cap others = {} => Silent(others)
  <2> DEFINE new == [request |-> r, actor |-> req[r].tok, action |-> req[r].op, entity |-> entity]
  <2>1. audit' = audit \cup {new} /\ new.request = r
    BY <1>3 DEF record
  <2> HIDE DEF new
  <2>2. IsFiniteSet(audit')
    BY <2>1, FS_AddElement DEF LogInv
  <2>3. {e.request : e \in audit'} = {x \in Requests : req'[x].pc = "done"}
    BY <1>3, <2>1 DEF LogInv
  <2>4. ASSUME NEW others, ops \cap others = {} PROVE Silent(others)
    BY <1>3, <2>4, Recording DEF Silent
  <2> QED BY <2>2, <2>3, <2>4 DEF LogInv
<1> QED BY <1>1, <1>2, <1>3 DEF LogMoves

\* A handler ends its request with an event, or goes on without one
LEMMA HandlerLog ==
  ASSUME RequestInv, NEW ops, HandlerStep(ops)
  PROVE  LogMoves(ops)
<1>1. \A a : Ended(a).pc = a
  BY RowFields DEF Ended
<1>2. \A r, pc, seen : With(r, pc, seen).pc = pc
  BY RowFields DEF With
<1>3. CASE req' = req /\ audit' = audit
  BY <1>3 DEF LogMoves
<1>4. ASSUME NEW r \in Requests, req[r].pc \in {"authed", "ready"}, req[r].op \in ops,
             NEW a \in {"same", "refused", "failed"}, Becomes(r, Ended(a)), audit' = audit
      PROVE  LogMoves(ops)
  <2>1. req'[r].pc = a
    BY <1>1, <1>4, BecomesFacts
  <2> QED BY <1>4, <2>1, BecomesFacts DEF LogMoves
<1>5. ASSUME NEW r \in Requests, req[r].pc \in {"authed", "ready"}, req[r].op \in ops,
             NEW rows, Becomes(r, With(r, "ready", rows)), audit' = audit
      PROVE  LogMoves(ops)
  <2>1. req'[r].pc = "ready"
    BY <1>2, <1>5, BecomesFacts
  <2> QED BY <1>5, <2>1, BecomesFacts DEF LogMoves
<1>6. ASSUME NEW r \in Requests, req[r].pc \in {"authed", "ready"}, req[r].op \in ops,
             NEW entity, Becomes(r, With(r, "done", NoRows)), record(r, entity)
      PROVE  LogMoves(ops)
  <2>1. req'[r].pc = "done"
    BY <1>2, <1>6, BecomesFacts
  <2> QED BY <1>6, <2>1, BecomesFacts DEF LogMoves
<1> QED BY <1>3, <1>4, <1>5, <1>6 DEF HandlerStep


\* A request that moves on, or ends without a change, leaves no event
LEMMA Unlogged ==
  ASSUME NEW r \in Requests, req[r].pc # "done", NEW q, Becomes(r, q), q.pc # "done", audit' = audit, NEW ops
  PROVE  LogMoves(ops)
BY BecomesFacts DEF LogMoves

\* So does one that gives up
LEMMA Withdrawn ==
  ASSUME RequestInv, NEW r \in Requests, req[r].pc # "done", Refuse(r) \/ Nothing(r) \/ RollBack(r), NEW ops
  PROVE  LogMoves(ops) /\ audit' = audit /\ tokens' = tokens
<1>1. PICK a \in {"same", "refused", "failed"} : Becomes(r, Ended(a))
  BY AnswerForms DEF Refuse, Nothing, RollBack
<1>2. Ended(a).pc # "done"
  BY RowFields DEF Ended
<1>3. UNCHANGED <<tokens, audit>>
  BY DEF Refuse, Nothing, RollBack
<1> QED BY <1>1, <1>2, <1>3, Unlogged

\* One that commits leaves its own
LEMMA Committed ==
  ASSUME RequestInv, NEW r \in Requests, req[r].pc # "done", NEW entity, Commit(r, entity),
         NEW ops, NEW a \in ops, req[r].op = a
  PROVE  /\ LogMoves(ops)
         /\ Entities(a)' = Entities(a) \cup {entity}
         /\ {e.request : e \in EventsOf(a)'} = {e.request : e \in EventsOf(a)} \cup {r}
         /\ \A b : b # a => EventsOf(b)' = EventsOf(b)
<1>1. Becomes(r, With(r, "done", NoRows)) /\ record(r, entity)
  BY AnswerForms DEF Commit
<1>2. req'[r].pc = "done"
  BY <1>1, BecomesFacts, RowFields DEF With
<1>3. LogMoves(ops)
  BY <1>1, <1>2, BecomesFacts DEF LogMoves
<1> QED BY <1>1, <1>3, Recording

\* Tokens that are neither added nor revoked
LEMMA TokenLogKept ==
  ASSUME TokenLog, Silent(TokenOps), DOMAIN tokens' = DOMAIN tokens,
         \A t \in DOMAIN tokens : tokens'[t].revoked_at = tokens[t].revoked_at
  PROVE  TokenLog'
<1>1. \A a \in TokenOps : Entities(a)' = Entities(a)
  BY DEF Silent, Entities
<1> QED BY <1>1 DEF TokenLog, TokenOps, Inserted

\* The events of module Requests, and the tokens they are about
LEMMA TokenLogStep ==
  ASSUME RequestInv, TokenInv, TokenLog, NEW called, RequestNext(called)
  PROVE  LogMoves(RequestOps) /\ TokenLog'
<1> DEFINE Goal == LogMoves(RequestOps) /\ TokenLog'
<1>1. audit' = audit => Silent(TokenOps)
  BY DEF Silent, EventsOf
<1>2. audit' = audit /\ tokens' = tokens => TokenLog'
  BY <1>1, TokenLogKept
<1>3. ASSUME NEW t \in DOMAIN tokens, NEW column \in {"last_used_at", "expires_at"}, NEW value,
             tokens' = [tokens EXCEPT ![t][column] = value], audit' = audit
      PROVE  TokenLog'
  <2>1. DOMAIN tokens[t] = TokenColumns
    BY DEF TokenInv
  <2>2. tokens'[t] = [tokens[t] EXCEPT ![column] = value]
    BY <1>3
  <2>3. tokens'[t].revoked_at = tokens[t].revoked_at
    BY <2>1, <2>2 DEF TokenColumns
  <2>4. \A x \in DOMAIN tokens : tokens'[x].revoked_at = tokens[x].revoked_at
    BY <1>3, <2>3
  <2> QED BY <1>1, <1>3, <2>4, TokenLogKept
<1>4. ASSUME NEW r \in Requests, req[r].pc # "done", Refuse(r) \/ Nothing(r) \/ RollBack(r) PROVE Goal
  BY <1>2, <1>4, Withdrawn
<1>5. ASSUME NEW r \in Requests, RefuseUnknown(r) PROVE Goal
  BY <1>4, <1>5 DEF RefuseUnknown
<1>6. ASSUME NEW r \in Requests, NEW op, NEW t, NEW ws, authenticate(r, op, t, ws) PROVE Goal
  <2> DEFINE q == Row("identified", op, t, ws, tokens[t])
  <2>1. Becomes(r, q) /\ req[r].pc = "new" /\ tokens' = tokens /\ audit' = audit
    BY <1>6 DEF authenticate, RequestInv, Becomes, Row
  <2>2. q.pc = "identified"
    BY RowFields
  <2> HIDE DEF q
  <2> QED BY <1>2, <2>1, <2>2, Unlogged
<1>7. ASSUME NEW r \in Requests, require_scope(r) PROVE Goal
  <2>1. /\ req[r].pc = "identified" /\ audit' = audit
        /\ tokens' = [tokens EXCEPT ![req[r].tok].last_used_at = "set"]
    BY <1>7 DEF require_scope
  <2>2. TokenLog'
    <3>1. CASE req[r].tok \in DOMAIN tokens
      BY <1>3, <2>1, <3>1
    <3>2. CASE req[r].tok \notin DOMAIN tokens
      <4>1. DOMAIN tokens' = DOMAIN tokens /\ \A t \in DOMAIN tokens : tokens'[t] = tokens[t]
        BY <2>1, <3>2
      <4> QED BY <1>1, <2>1, <4>1, TokenLogKept
    <3> QED BY <3>1, <3>2
  <2>3. CASE Answer(r, "refused")
    <3>1. Becomes(r, Ended("refused"))
      BY <2>3, AnswerForms
    <3>2. Ended("refused").pc = "refused"
      BY RowFields DEF Ended
    <3> QED BY <2>1, <2>2, <3>1, <3>2, Unlogged
  <2>4. CASE req' = [req EXCEPT ![r].pc = "authed", ![r].seen = NoRows]
    <3>1. DOMAIN req = Requests
      BY DEF RequestInv
    <3>2. PICK pc, op, tok, ws, seen : req[r] = Row(pc, op, tok, ws, seen)
      BY DEF RequestInv
    <3>3. req'[r].pc = "authed"
      BY <2>4, <3>1, <3>2 DEF Row
    <3>4. \A x \in Requests \ {r} : req'[x] = req[x]
      BY <2>4, <3>1
    <3>5. LogMoves(RequestOps)
      BY <2>1, <3>3, <3>4 DEF LogMoves
    <3> QED BY <2>2, <3>5
  <2> QED BY <1>7, <2>3, <2>4 DEF require_scope
<1>8. ASSUME NEW r \in Requests, NEW email, BootstrapRead(r, email) PROVE Goal
  <2>1. req[r].pc = "new"
    BY <1>8 DEF BootstrapRead
  <2>2. CASE Refuse(r)
    BY <1>4, <2>1, <2>2
  <2>3. CASE /\ req' = [req EXCEPT ![r].pc = "ready", ![r].op = "auth.bootstrap", ![r].seen = [email |-> email]]
             /\ UNCHANGED <<users, workspaces, tokens, audit>>
    <3>1. DOMAIN req = Requests /\ req[r] = NewRequest
      BY <2>1 DEF RequestInv
    <3>2. req'[r].pc = "ready"
      BY <2>3, <3>1 DEF NewRequest
    <3>3. \A x \in Requests \ {r} : req'[x] = req[x]
      BY <2>3, <3>1
    <3>4. LogMoves(RequestOps)
      BY <2>1, <2>3, <3>2, <3>3 DEF LogMoves
    <3> QED BY <1>2, <2>3, <3>4
  <2> QED BY <1>8, <2>2, <2>3 DEF BootstrapRead
<1>9. ASSUME NEW r \in Requests, req[r].pc # "done", NEW a \in {"auth.bootstrap", "api_token.create"}, req[r].op = a,
             NEW ws, NEW scopes, NEW expires, tokens' = Insert(tokens, r, Token(ws, scopes, expires)), Commit(r, r)
      PROVE  Goal
  <2>1. a \in RequestOps
    BY <1>9 DEF RequestOps, TokenOps
  <2>2. /\ LogMoves(RequestOps) /\ Entities(a)' = Entities(a) \cup {r}
        /\ \A b : b # a => EventsOf(b)' = EventsOf(b)
    BY <1>9, <2>1, Committed
  <2>3. \A b : b # a => Entities(b)' = Entities(b)
    BY <2>2 DEF Entities
  <2>4. DOMAIN tokens' = DOMAIN tokens \cup {r}
    BY <1>9 DEF Insert
  <2>5. tokens'[r].revoked_at = "null" /\ \A t \in DOMAIN tokens \ {r} : tokens'[t] = tokens[t]
    BY <1>9 DEF Insert, Token
  <2>6. {t \in DOMAIN tokens' : tokens'[t].revoked_at = "set"} \subseteq {t \in DOMAIN tokens : tokens[t].revoked_at = "set"}
    BY <2>4, <2>5
  <2>7. Entities("api_token.revoke")' = Entities("api_token.revoke")
    BY <1>9, <2>3
  <2>8. Inserted(tokens') = Entities("auth.bootstrap")' \cup Entities("api_token.create")'
    <3>1. CASE a = "auth.bootstrap"
      BY <2>2, <2>3, <2>4, <3>1 DEF TokenLog, Inserted
    <3>2. CASE a = "api_token.create"
      BY <2>2, <2>3, <2>4, <3>2 DEF TokenLog, Inserted
    <3> QED BY <1>9, <3>1, <3>2
  <2> QED BY <2>2, <2>6, <2>7, <2>8 DEF TokenLog, Inserted
<1>10. ASSUME NEW r \in Requests, bootstrap(r) PROVE Goal
  <2>1. req[r].pc = "ready" /\ req[r].op = "auth.bootstrap"
    BY <1>10 DEF bootstrap, At
  <2>2. RollBack(r) \/ (tokens' = Insert(tokens, r, Token(r, {"admin"}, "null")) /\ Commit(r, r))
    BY <1>10 DEF bootstrap
  <2> QED BY <1>4, <1>9, <2>1, <2>2
<1>11. ASSUME NEW r \in Requests, update_workspace(r) PROVE Goal
  <2>1. req[r].pc # "done" /\ req[r].op = "workspace.update" /\ tokens' = tokens /\ Commit(r, req[r].ws)
    BY <1>11 DEF update_workspace, At
  <2>2. LogMoves(RequestOps) /\ \A b : b # "workspace.update" => EventsOf(b)' = EventsOf(b)
    BY <2>1, Committed DEF RequestOps
  <2>3. Silent(TokenOps)
    BY <2>2 DEF Silent, TokenOps
  <2> QED BY <2>1, <2>2, <2>3, TokenLogKept
<1>12. ASSUME NEW r \in Requests, NEW scopes, NEW expires, create_api_token(r, scopes, expires) PROVE Goal
  <2>1. req[r].pc = "authed" /\ req[r].op = "api_token.create"
    BY <1>12 DEF create_api_token, At
  <2>2. Refuse(r) \/ (tokens' = Insert(tokens, r, Token(req[r].ws, scopes, expires)) /\ Commit(r, r))
    BY <1>12 DEF create_api_token
  <2> QED BY <1>4, <1>9, <2>1, <2>2
<1>13. ASSUME NEW r \in Requests, NEW t, RevokeRead(r, t) PROVE Goal
  <2>1. req[r].pc = "authed"
    BY <1>13 DEF RevokeRead, At
  <2>2. CASE Loaded(r, [token |-> t]) /\ UNCHANGED <<users, workspaces, tokens, audit>>
    <3>1. Becomes(r, With(r, "ready", [token |-> t]))
      BY <2>2, AnswerForms
    <3>2. With(r, "ready", [token |-> t]).pc = "ready"
      BY RowFields DEF With
    <3> QED BY <1>2, <2>1, <2>2, <3>1, <3>2, Unlogged
  <2> QED BY <1>4, <1>13, <2>1, <2>2 DEF RevokeRead
<1>14. ASSUME NEW r \in Requests, revoke_api_token(r) PROVE Goal
  <2> DEFINE t == req[r].seen.token
  <2>1. /\ At(r, "ready", "api_token.revoke") /\ req[r].pc # "done" /\ req[r].op = "api_token.revoke"
        /\ tokens' = [tokens EXCEPT ![t].revoked_at = "set"] /\ Commit(r, t)
    BY <1>14 DEF revoke_api_token, At
  <2>2. PICK entity : entity = t
    OBVIOUS
  <2>3. "api_token.revoke" \in RequestOps
    BY DEF RequestOps, TokenOps
  <2>4. LogMoves(RequestOps) /\ Entities("api_token.revoke")' = Entities("api_token.revoke") \cup {entity}
    BY <2>1, <2>2, <2>3, Committed
  <2>5. \A b : b # "api_token.revoke" => Entities(b)' = Entities(b)
    <3>1. Commit(r, entity)
      BY <2>1, <2>2
    <3> HIDE DEF t
    <3>2. \A b : b # "api_token.revoke" => EventsOf(b)' = EventsOf(b)
      BY <2>1, <2>3, <3>1, Committed
    <3> QED BY <3>2 DEF Entities
  <2>6. DOMAIN tokens' = DOMAIN tokens /\ \A x \in DOMAIN tokens \ {t} : tokens'[x] = tokens[x]
    BY <2>1
  <2> HIDE DEF t
  <2> QED BY <2>4, <2>5, <2>6, <2>2 DEF TokenLog, Inserted
<1>15. ASSUME NEW t \in DOMAIN tokens, TokenExpires(t) PROVE Goal
  <2>1. req' = req /\ audit' = audit /\ tokens' = [tokens EXCEPT ![t].expires_at = "past"]
    BY <1>15 DEF TokenExpires
  <2> QED BY <1>3, <2>1 DEF LogMoves
<1> QED BY <1>5, <1>6, <1>7, <1>8, <1>10, <1>11, <1>12, <1>13, <1>14, <1>15 DEF RequestNext

\* A handler that writes no event
LEMMA Unwritten == ASSUME audit' = audit, NEW ops PROVE Silent(ops)
BY DEF Silent, EventsOf

\* The log of a table is kept by what writes neither
LEMMA PolicyLogKept == ASSUME PolicyLog, UNCHANGED policyVars, Silent(PolicyOps) PROVE PolicyLog'
<1>1. policies' = policies /\ \A p : RevisionsOf(p)' = RevisionsOf(p)
  BY DEF policyVars, RevisionsOf
<1>2. EventsOf("policy.revise")' = EventsOf("policy.revise")
  BY DEF Silent, PolicyOps
<1>3. \A p : RevisedIn(p)' = RevisedIn(p)
  BY <1>2 DEF RevisedIn
<1>4. Entities("policy.create")' = Entities("policy.create") /\ Entities("policy.revise")' = Entities("policy.revise")
  BY DEF Silent, PolicyOps, Entities
<1> QED BY <1>1, <1>3, <1>4 DEF PolicyLog, Inserted

\* Policies and their revisions
LEMMA PolicyLogStep ==
  ASSUME RequestInv, TokenInv, LogInv, PolicyInv, PolicyLog, PolicyNext
  PROVE  PolicyLog'
<1>1. audit' = audit /\ UNCHANGED policyVars => PolicyLog'
  BY Unwritten, PolicyLogKept
<1>2. ASSUME NEW r \in Requests, NEW name, NEW document, CreatePolicyRead(r, name, document) PROVE PolicyLog'
  BY <1>1, <1>2 DEF CreatePolicyRead, Refuse
<1>3. ASSUME NEW r \in Requests, NEW p, NEW document, CreateRevisionRead(r, p, document) PROVE PolicyLog'
  BY <1>1, <1>3 DEF CreateRevisionRead, Refuse, Nothing
<1>4. ASSUME NEW r \in Requests, create_policy(r) PROVE PolicyLog'
  <2> DEFINE v == Revision(req[r].ws, r, 1, req[r].seen.document)
             row == [ws |-> req[r].ws, name |-> req[r].seen.name]
  <2>1. req[r].pc = "ready" /\ req[r].op = "policy.create"
    BY <1>4 DEF create_policy, At
  <2>2. CASE RollBack(r) /\ UNCHANGED policyVars
    BY <1>1, <2>2 DEF RollBack
  <2>3. CASE policies' = Insert(policies, r, row) /\ revisions' = revisions \cup {v} /\ Commit(r, r)
    <3>1. v.policy = r
      BY DEF Revision
    <3> HIDE DEF v, row
    <3>2. r \notin DOMAIN policies
      BY <2>1 DEF PolicyInv, Known
    <3>3. DOMAIN policies' = DOMAIN policies \cup {r}
      BY <2>3 DEF Insert
    <3>4. "policy.create" \in PolicyOps
      BY DEF PolicyOps
    <3>5. Entities("policy.create")' = Entities("policy.create") \cup {r}
      BY <2>1, <2>3, <3>4, Committed
    <3>6. \A b : b # "policy.create" => EventsOf(b)' = EventsOf(b)
      BY <2>1, <2>3, <3>4, Committed
    <3>7. Entities("policy.revise")' = Entities("policy.revise") /\ \A p : RevisedIn(p)' = RevisedIn(p)
      BY <3>6 DEF Entities, RevisedIn
    <3>8. ASSUME NEW p \in DOMAIN policies PROVE RevisionsOf(p)' = RevisionsOf(p)
      BY <2>3, <3>1, <3>2, <3>8 DEF RevisionsOf
    <3>9. RevisionsOf(r)' = {v} /\ RevisedIn(r) = {}
      <4>1. RevisionsOf(r)' = {v}
        BY <2>3, <3>1, <3>2 DEF RevisionsOf, PolicyInv
      <4>2. RevisedIn(r) = {}
        BY <3>2 DEF PolicyLog, Entities, RevisedIn
      <4> QED BY <4>1, <4>2
    <3>10. ASSUME NEW p \in DOMAIN policies' PROVE Cardinality(RevisionsOf(p)') = 1 + Cardinality(RevisedIn(p)')
      <4>1. CASE p \in DOMAIN policies
        BY <3>7, <3>8, <4>1 DEF PolicyLog
      <4>2. CASE p = r
        <5>1. Cardinality({v}) = 1 /\ Cardinality({}) = 0
          BY FS_Singleton, FS_EmptySet
        <5>2. RevisionsOf(p)' = {v} /\ RevisedIn(p)' = {}
          BY <3>7, <3>9, <4>2
        <5> QED BY <5>1, <5>2
      <4> QED BY <3>3, <4>1, <4>2
    <3> QED BY <3>3, <3>5, <3>7, <3>10 DEF PolicyLog, Inserted
  <2> QED BY <1>4, <2>2, <2>3 DEF create_policy
<1>5. ASSUME NEW r \in Requests, create_policy_revision(r) PROVE PolicyLog'
  <2>1. PICK v, p : v = req[r].seen.revision /\ p = v.policy
    OBVIOUS
  <2>2. req[r].pc = "ready" /\ At(r, "ready", "policy.revise") /\ req[r].op = "policy.revise" /\ policies' = policies
    BY <1>5 DEF create_policy_revision, At
  <2>3. CASE RollBack(r) /\ UNCHANGED revisions
    BY <1>1, <2>2, <2>3 DEF RollBack, policyVars
  <2>4. CASE ~RevisionTaken(v) /\ revisions' = revisions \cup {v} /\ Commit(r, p)
    <3> DEFINE new == [request |-> r, actor |-> req[r].tok, action |-> req[r].op, entity |-> p]
    <3>1. p \in DOMAIN policies
      BY <2>1, <2>2 DEF PolicyInv
    <3>2. v \notin revisions
      BY <2>4 DEF RevisionTaken
    <3>3. audit' = audit \cup {new} /\ new.request = r /\ new.action = "policy.revise" /\ new.entity = p
      BY <2>2, <2>4 DEF Commit, record
    <3> HIDE DEF new
    <3>4. new \notin audit
      BY <2>2, <3>3 DEF TokenInv
    <3>5. RevisedIn(p)' = RevisedIn(p) \cup {new} /\ \A x : x # p => RevisedIn(x)' = RevisedIn(x)
      BY <3>3 DEF RevisedIn, EventsOf
    <3>6. RevisionsOf(p)' = RevisionsOf(p) \cup {v} /\ \A x : x # p => RevisionsOf(x)' = RevisionsOf(x)
      BY <2>1, <2>4 DEF RevisionsOf
    <3>7. IsFiniteSet(RevisedIn(p)) /\ IsFiniteSet(RevisionsOf(p)) /\ new \notin RevisedIn(p) /\ v \notin RevisionsOf(p)
      BY <3>2, <3>4, FS_Subset DEF LogInv, PolicyInv, RevisedIn, EventsOf, RevisionsOf
    <3>8. Cardinality(RevisionsOf(p)) = 1 + Cardinality(RevisedIn(p))
      BY <3>1 DEF PolicyLog
    <3>9. Cardinality(RevisionsOf(p)') = 1 + Cardinality(RevisedIn(p)')
      <4>1. Cardinality(RevisionsOf(p)) \in Nat /\ Cardinality(RevisedIn(p)) \in Nat
        BY <3>7, FS_CardinalityType
      <4>2. /\ Cardinality(RevisionsOf(p) \cup {v}) = Cardinality(RevisionsOf(p)) + 1
            /\ Cardinality(RevisedIn(p) \cup {new}) = Cardinality(RevisedIn(p)) + 1
        BY <3>7, FS_AddElement
      <4> QED BY <3>5, <3>6, <3>8, <4>1, <4>2
    <3>10. \A x \in DOMAIN policies' : Cardinality(RevisionsOf(x)') = 1 + Cardinality(RevisedIn(x)')
      BY <2>2, <3>5, <3>6, <3>9 DEF PolicyLog
    <3>11. Entities("policy.revise")' = Entities("policy.revise") \cup {p} /\ Entities("policy.create")' = Entities("policy.create")
      BY <3>3 DEF Entities, EventsOf
    <3> QED BY <2>2, <3>1, <3>10, <3>11 DEF PolicyLog, Inserted
  <2> QED BY <1>5, <2>1, <2>3, <2>4 DEF create_policy_revision
<1> QED BY <1>2, <1>3, <1>4, <1>5 DEF PolicyNext

\* What is done stays done
LEMMA LoggedStays == ASSUME NEW ops, LogMoves(ops), NEW x, Known(x) PROVE Known(x)'
BY DEF LogMoves, Known

\* Rows of targets and snapshots that nobody adds or deletes
LEMMA TargetLogKept ==
  ASSUME TargetLog, DOMAIN targets' = DOMAIN targets, DOMAIN snapshots' = DOMAIN snapshots, Silent(TargetOps),
         \A x : Known(x) => Known(x)'
  PROVE  TargetLog'
<1>1. \A a \in TargetOps : Entities(a)' = Entities(a)
  BY DEF Silent, Entities
<1> QED BY <1>1 DEF TargetLog, TargetOps, Inserted

\* Targets and snapshot rows
LEMMA TargetLogStep ==
  ASSUME RequestInv, TargetInv, TargetLog, NEW pinned, TargetNext(pinned)
  PROVE  TargetLog'
<1>1. \A x : Known(x) => Known(x)'
  BY TargetHandlers, HandlerLog, LoggedStays
<1>2. audit' = audit /\ DOMAIN targets' = DOMAIN targets /\ DOMAIN snapshots' = DOMAIN snapshots => TargetLog'
  BY <1>1, Unwritten, TargetLogKept
<1>3. ASSUME NEW r \in Requests, NEW endpoint, create_target(r, endpoint) PROVE TargetLog'
  <2>1. req[r].pc = "authed" /\ req[r].op = "target.create" /\ snapshots' = snapshots
    BY <1>3 DEF create_target, At
  <2>2. CASE Refuse(r) /\ UNCHANGED targets
    BY <1>2, <2>1, <2>2 DEF Refuse
  <2>3. CASE DOMAIN targets' = DOMAIN targets \cup {r} /\ Commit(r, r)
    <3>1. "target.create" \in TargetOps
      BY DEF TargetOps
    <3>2. Entities("target.create")' = Entities("target.create") \cup {r}
      BY <2>1, <2>3, <3>1, Committed
    <3>3. \A b : b # "target.create" => EventsOf(b)' = EventsOf(b)
      BY <2>1, <2>3, <3>1, Committed
    <3>4. Entities("target.delete")' = Entities("target.delete") /\ Entities("snapshot.create")' = Entities("snapshot.create")
      BY <3>3 DEF Entities
    <3>5. r \notin Entities("target.delete")
      BY <2>1 DEF TargetLog, Known
    <3> QED BY <1>1, <2>1, <2>3, <3>2, <3>4, <3>5 DEF TargetLog, Inserted
  <2>4. (Refuse(r) /\ UNCHANGED targets) \/ (DOMAIN targets' = DOMAIN targets \cup {r} /\ Commit(r, r))
    BY <1>3 DEF create_target, Insert
  <2> QED BY <2>2, <2>3, <2>4
<1>4. ASSUME NEW r \in Requests, NEW t, NEW changed, NEW endpoint, UpdateTargetRead(r, t, changed, endpoint)
      PROVE  TargetLog'
  <2>1. UNCHANGED <<audit, targets, snapshots>>
    BY <1>4 DEF UpdateTargetRead, Refuse, Nothing, targetVars
  <2> QED BY <1>2, <2>1
<1>5. ASSUME NEW r \in Requests, update_target(r) PROVE TargetLog'
  <2>1. PICK t : t = req[r].seen.target
    OBVIOUS
  <2>2. req[r].pc = "ready" /\ req[r].op = "target.update" /\ snapshots' = snapshots
    BY <1>5 DEF update_target, At
  <2>3. CASE RollBack(r) /\ UNCHANGED targets
    BY <1>2, <2>2, <2>3 DEF RollBack
  <2>4. CASE DOMAIN targets' = DOMAIN targets /\ Commit(r, t)
    <3>1. "target.update" \in TargetOps
      BY DEF TargetOps
    <3>2. \A b : b # "target.update" => EventsOf(b)' = EventsOf(b)
      BY <2>2, <2>4, <3>1, Committed
    <3>3. /\ Entities("target.delete")' = Entities("target.delete") /\ Entities("snapshot.create")' = Entities("snapshot.create")
          /\ Entities("target.create")' = Entities("target.create")
      BY <3>2 DEF Entities
    <3> QED BY <1>1, <2>2, <2>4, <3>3 DEF TargetLog, Inserted
  <2>5. (RollBack(r) /\ UNCHANGED targets) \/ (DOMAIN targets' = DOMAIN targets /\ Commit(r, t))
    BY <1>5, <2>1 DEF update_target
  <2> QED BY <2>3, <2>4, <2>5
<1>6. ASSUME NEW r \in Requests, NEW t, DeleteTargetRead(r, t) \/ CreateSnapshotRead(r, t) PROVE TargetLog'
  <2>1. UNCHANGED <<audit, targets, snapshots>>
    BY <1>6 DEF DeleteTargetRead, CreateSnapshotRead, Refuse, targetVars
  <2> QED BY <1>2, <2>1
<1>7. ASSUME NEW r \in Requests, delete_target(r, pinned) PROVE TargetLog'
  <2>1. PICK t : t = req[r].seen.target
    OBVIOUS
  <2>2. req[r].pc = "ready" /\ req[r].op = "target.delete"
    BY <1>7 DEF delete_target, At
  <2>3. CASE RollBack(r) /\ UNCHANGED <<targets, snapshots>>
    BY <1>2, <2>3 DEF RollBack
  <2>4. CASE DOMAIN targets' = DOMAIN targets \ {t} /\ DOMAIN snapshots' \subseteq DOMAIN snapshots /\ Commit(r, t)
    <3>1. "target.delete" \in TargetOps
      BY DEF TargetOps
    <3>2. req[r].pc # "done" /\ Commit(r, t)
      BY <2>2, <2>4
    <3>3. /\ Entities("target.delete")' = Entities("target.delete") \cup {t}
          /\ \A b : b # "target.delete" => EventsOf(b)' = EventsOf(b)
      BY <2>2, <3>1, <3>2, Committed
    <3>4. Entities("target.create")' = Entities("target.create") /\ Entities("snapshot.create")' = Entities("snapshot.create")
      BY <3>3 DEF Entities
    <3>5. Known(t)
      BY <2>1, <2>2 DEF TargetInv
    <3> QED BY <1>1, <2>4, <3>3, <3>4, <3>5 DEF TargetLog, Inserted
  <2>5. \/ RollBack(r) /\ UNCHANGED <<targets, snapshots>>
        \/ DOMAIN targets' = DOMAIN targets \ {t} /\ DOMAIN snapshots' \subseteq DOMAIN snapshots /\ Commit(r, t)
    BY <1>7, <2>1 DEF delete_target, Delete
  <2> QED BY <2>3, <2>4, <2>5
<1>8. ASSUME NEW r \in Requests, create_snapshot(r) PROVE TargetLog'
  <2>1. req[r].pc = "ready" /\ req[r].op = "snapshot.create" /\ targets' = targets
    BY <1>8 DEF create_snapshot, At
  <2>2. CASE RollBack(r) /\ UNCHANGED snapshots
    BY <1>2, <2>1, <2>2 DEF RollBack
  <2>3. CASE DOMAIN snapshots' = DOMAIN snapshots \cup {r} /\ Commit(r, r)
    <3>1. "snapshot.create" \in TargetOps
      BY DEF TargetOps
    <3>2. Entities("snapshot.create")' = Entities("snapshot.create") \cup {r}
      BY <2>1, <2>3, <3>1, Committed
    <3>3. \A b : b # "snapshot.create" => EventsOf(b)' = EventsOf(b)
      BY <2>1, <2>3, <3>1, Committed
    <3>4. Entities("target.delete")' = Entities("target.delete") /\ Entities("target.create")' = Entities("target.create")
      BY <3>3 DEF Entities
    <3> QED BY <1>1, <2>1, <2>3, <3>2, <3>4 DEF TargetLog, Inserted
  <2>4. (RollBack(r) /\ UNCHANGED snapshots) \/ (DOMAIN snapshots' = DOMAIN snapshots \cup {r} /\ Commit(r, r))
    BY <1>8 DEF create_snapshot, Insert
  <2> QED BY <2>2, <2>3, <2>4
<1>9. ASSUME NEW s, NEW capture, SnapshotStored(s, capture) PROVE TargetLog'
  BY <1>2, <1>9 DEF SnapshotStored, requestVars
<1>10. ASSUME AddEncryptionKey PROVE TargetLog'
  BY <1>2, <1>10 DEF AddEncryptionKey, requestVars
<1> QED BY <1>3, <1>4, <1>5, <1>6, <1>7, <1>8, <1>9, <1>10 DEF TargetNext

\* Signatures
LEMMA ManifestLogKept ==
  ASSUME ManifestLog, signatures' = signatures, EventsOf("manifest.sign")' = EventsOf("manifest.sign")
  PROVE  ManifestLog'
BY DEF ManifestLog

\* A signature's row and its event are written together, and builds sign nothing
LEMMA ManifestLogStep ==
  ASSUME RequestInv, ManifestLog, ManifestNext
  PROVE  ManifestLog' /\ DOMAIN builds' = DOMAIN builds
<1>1. audit' = audit /\ signatures' = signatures => ManifestLog'
  BY ManifestLogKept DEF EventsOf
<1>2. ASSUME NEW b, (\E h \in Hashes : SelectExisting(b, h)) \/ run_build_job(b) PROVE ManifestLog' /\ DOMAIN builds' = DOMAIN builds
  <2>1. UNCHANGED <<audit, signatures>> /\ DOMAIN builds' = DOMAIN builds
    BY <1>2 DEF SelectExisting, run_build_job, requestVars
  <2> QED BY <1>1, <2>1
<1>3. ASSUME RotateKey PROVE ManifestLog' /\ DOMAIN builds' = DOMAIN builds
  BY <1>1, <1>3 DEF RotateKey, requestVars
<1>4. ASSUME NEW r \in Requests, NEW m, SignRead(r, m) \/ verify_manifest_endpoint(r, m)
      PROVE  ManifestLog' /\ DOMAIN builds' = DOMAIN builds
  <2>1. UNCHANGED <<audit, signatures, builds>>
    BY <1>4 DEF SignRead, verify_manifest_endpoint, Refuse, Nothing, manifestVars
  <2> QED BY <1>1, <2>1
<1>5. ASSUME NEW r \in Requests, sign_manifest_endpoint(r) PROVE ManifestLog' /\ DOMAIN builds' = DOMAIN builds
  <2>1. PICK m, key : m = req[r].seen.manifest /\ key = req[r].seen.key_id
    OBVIOUS
  <2>2. req[r].pc = "ready" /\ req[r].op = "manifest.sign" /\ builds' = builds
    BY <1>5 DEF sign_manifest_endpoint, At
  <2>3. CASE RollBack(r) /\ UNCHANGED signatures
    BY <1>1, <2>2, <2>3 DEF RollBack
  <2>4. CASE signatures' = signatures \cup {[manifest |-> m, key_id |-> key, by |-> r]} /\ Commit(r, m)
    <3>1. "manifest.sign" \in ManifestOps
      BY DEF ManifestOps
    <3>2. {e.request : e \in EventsOf("manifest.sign")'} = {e.request : e \in EventsOf("manifest.sign")} \cup {r}
      BY <2>2, <2>4, <3>1, Committed
    <3>3. {s.by : s \in signatures'} = {s.by : s \in signatures} \cup {r}
      <4> DEFINE new == [manifest |-> m, key_id |-> key, by |-> r]
      <4>1. new.by = r /\ signatures' = signatures \cup {new}
        BY <2>4
      <4> HIDE DEF new
      <4> QED BY <4>1
    <3> QED BY <2>2, <3>2, <3>3 DEF ManifestLog
  <2>5. \/ RollBack(r) /\ UNCHANGED signatures
        \/ signatures' = signatures \cup {[manifest |-> m, key_id |-> key, by |-> r]} /\ Commit(r, m)
    BY <1>5, <2>1 DEF sign_manifest_endpoint
  <2> QED BY <2>3, <2>4, <2>5
<1> QED BY <1>2, <1>3, <1>4, <1>5 DEF ManifestNext

\* Collections and configs
LEMMA SourceLogKept ==
  ASSUME SourceLog, DOMAIN collections' = DOMAIN collections, DOMAIN configs' = DOMAIN configs,
         EventsOf("source_collection.create")' = EventsOf("source_collection.create"),
         EventsOf("pipeline_config.create")' = EventsOf("pipeline_config.create")
  PROVE  SourceLog'
BY DEF SourceLog, Inserted, Entities

\* Scans write no event but the one that queues them
LEMMA SourceLogStep == ASSUME RequestInv, SourceLog, SourceNext PROVE SourceLog'
<1>1. audit' = audit /\ collections' = collections /\ configs' = configs => SourceLog'
  BY SourceLogKept DEF EventsOf
<1>2. {"source_collection.create", "pipeline_config.create", "source_collection.scan"} \subseteq SourceOps
  BY DEF SourceOps
<1>3. ASSUME NEW r \in Requests, NEW ns, NEW root_ok, CreateCollectionRead(r, ns, root_ok) PROVE SourceLog'
  BY <1>1, <1>3 DEF CreateCollectionRead, Refuse, sourceVars
<1>4. ASSUME NEW r \in Requests, create_source_collection(r) PROVE SourceLog'
  <2>1. req[r].pc = "ready" /\ req[r].op = "source_collection.create" /\ configs' = configs
    BY <1>4 DEF create_source_collection, At
  <2>2. CASE RollBack(r) /\ UNCHANGED collections
    BY <1>1, <2>1, <2>2 DEF RollBack
  <2>3. CASE DOMAIN collections' = DOMAIN collections \cup {r} /\ Commit(r, r)
    <3>1. "source_collection.create" \in SourceOps
      BY <1>2
    <3>2. Entities("source_collection.create")' = Entities("source_collection.create") \cup {r}
      BY <2>1, <2>3, <3>1, Committed
    <3>3. \A b : b # "source_collection.create" => EventsOf(b)' = EventsOf(b)
      BY <2>1, <2>3, <3>1, Committed
    <3>4. Entities("pipeline_config.create")' = Entities("pipeline_config.create")
      BY <3>3 DEF Entities
    <3> QED BY <2>1, <2>3, <3>2, <3>4 DEF SourceLog, Inserted
  <2>4. (RollBack(r) /\ UNCHANGED collections) \/ (DOMAIN collections' = DOMAIN collections \cup {r} /\ Commit(r, r))
    BY <1>4 DEF create_source_collection, Insert
  <2> QED BY <2>2, <2>3, <2>4
<1>5. ASSUME NEW r \in Requests, NEW hash, CreateConfigRead(r, hash) PROVE SourceLog'
  BY <1>1, <1>5 DEF CreateConfigRead, Nothing, sourceVars
<1>6. ASSUME NEW r \in Requests, create_pipeline_config(r) PROVE SourceLog'
  <2>1. req[r].pc = "ready" /\ req[r].op = "pipeline_config.create" /\ collections' = collections
    BY <1>6 DEF create_pipeline_config, At
  <2>2. CASE RollBack(r) /\ UNCHANGED configs
    BY <1>1, <2>1, <2>2 DEF RollBack
  <2>3. CASE DOMAIN configs' = DOMAIN configs \cup {r} /\ Commit(r, r)
    <3>1. "pipeline_config.create" \in SourceOps
      BY <1>2
    <3>2. Entities("pipeline_config.create")' = Entities("pipeline_config.create") \cup {r}
      BY <2>1, <2>3, <3>1, Committed
    <3>3. \A b : b # "pipeline_config.create" => EventsOf(b)' = EventsOf(b)
      BY <2>1, <2>3, <3>1, Committed
    <3>4. Entities("source_collection.create")' = Entities("source_collection.create")
      BY <3>3 DEF Entities
    <3> QED BY <2>1, <2>3, <3>2, <3>4 DEF SourceLog, Inserted
  <2>4. (RollBack(r) /\ UNCHANGED configs) \/ (DOMAIN configs' = DOMAIN configs \cup {r} /\ Commit(r, r))
    BY <1>6 DEF create_pipeline_config, Insert
  <2> QED BY <2>2, <2>3, <2>4
<1>7. ASSUME NEW r \in Requests, NEW c, scan_source_collection(r, c) PROVE SourceLog'
  <2>1. req[r].pc = "authed" /\ req[r].op = "source_collection.scan" /\ collections' = collections /\ configs' = configs
    BY <1>7 DEF scan_source_collection, At
  <2>2. CASE Refuse(r)
    BY <1>1, <2>1, <2>2 DEF Refuse
  <2>3. CASE Commit(r, c)
    <3>1. "source_collection.scan" \in SourceOps
      BY <1>2
    <3>2. \A b : b # "source_collection.scan" => EventsOf(b)' = EventsOf(b)
      BY <2>1, <2>3, <3>1, Committed
    <3> QED BY <2>1, <3>2, SourceLogKept
  <2> QED BY <1>7, <2>2, <2>3 DEF scan_source_collection
<1>8. ASSUME NEW s, Discover(s) \/ LoadAssets(s) \/ CheckVersion(s) \/ run_scan_job(s) PROVE SourceLog'
  BY <1>1, <1>8 DEF Discover, LoadAssets, CheckVersion, run_scan_job, requestVars
<1>9. ASSUME NEW c, NEW f, NEW content, EditTree(c, f, content) PROVE SourceLog'
  BY <1>1, <1>9 DEF EditTree, requestVars
<1> QED BY <1>3, <1>4, <1>5, <1>6, <1>7, <1>8, <1>9 DEF SourceNext

\* Reconciliation rows
LEMMA ReconciliationLogKept ==
  ASSUME ReconciliationLog, DOMAIN reconciliations' = DOMAIN reconciliations,
         EventsOf("reconciliation.create")' = EventsOf("reconciliation.create")
  PROVE  ReconciliationLog'
BY DEF ReconciliationLog, Inserted, Entities

\* A reconciliation's job writes no event
LEMMA ReconciliationLogStep ==
  ASSUME RequestInv, ReconciliationLog, ReconciliationNext
  PROVE  ReconciliationLog'
<1>1. audit' = audit /\ DOMAIN reconciliations' = DOMAIN reconciliations => ReconciliationLog'
  BY ReconciliationLogKept DEF EventsOf
<1>2. ASSUME NEW r \in Requests, NEW m, NEW s, NEW p, CreateReconciliationRead(r, m, s, p) PROVE ReconciliationLog'
  BY <1>1, <1>2 DEF CreateReconciliationRead, Refuse, reconciliationVars
<1>3. ASSUME NEW r \in Requests, create_reconciliation(r) PROVE ReconciliationLog'
  <2>1. req[r].pc = "ready" /\ req[r].op = "reconciliation.create"
    BY <1>3 DEF create_reconciliation, At
  <2>2. CASE RollBack(r) /\ UNCHANGED reconciliations
    BY <1>1, <2>2 DEF RollBack
  <2>3. CASE DOMAIN reconciliations' = DOMAIN reconciliations \cup {r} /\ Commit(r, r)
    <3>1. "reconciliation.create" \in ReconciliationOps
      BY DEF ReconciliationOps
    <3>2. Entities("reconciliation.create")' = Entities("reconciliation.create") \cup {r}
      BY <2>1, <2>3, <3>1, Committed
    <3> QED BY <2>3, <3>2 DEF ReconciliationLog, Inserted
  <2>4. \/ RollBack(r) /\ UNCHANGED reconciliations
        \/ DOMAIN reconciliations' = DOMAIN reconciliations \cup {r} /\ Commit(r, r)
    BY <1>3 DEF create_reconciliation, Insert
  <2> QED BY <2>2, <2>3, <2>4
<1>4. ASSUME NEW r \in Requests, NEW x, evaluate_policy_endpoint(r, x) \/ get_remediation_plan(r, x) PROVE ReconciliationLog'
  <2>1. UNCHANGED <<audit, reconciliations>>
    BY <1>4 DEF evaluate_policy_endpoint, get_remediation_plan, ReadReport, Refuse, Nothing, RollBack, reconciliationVars
  <2> QED BY <1>1, <2>1
<1>5. ASSUME NEW x, StartAttempt(x) \/ PutReport(x) \/ run_reconcile_job(x) \/ AbandonAttempt(x) PROVE ReconciliationLog'
  <2>1. audit' = audit /\ DOMAIN reconciliations' = DOMAIN reconciliations
    BY <1>5 DEF StartAttempt, PutReport, run_reconcile_job, AbandonAttempt, requestVars
  <2> QED BY <1>1, <2>1
<1> QED BY <1>2, <1>3, <1>4, <1>5 DEF ReconciliationNext

\* Build rows
LEMMA BuildLogKept ==
  ASSUME BuildLog, DOMAIN builds' = DOMAIN builds, EventsOf("build.create")' = EventsOf("build.create")
  PROVE  BuildLog'
BY DEF BuildLog, Inserted, Entities

\* A build's row is written with its event
LEMMA BuildLogStep ==
  ASSUME RequestInv, BuildLog, BuildRowNext
  PROVE  BuildLog'
<1>1. audit' = audit /\ builds' = builds => BuildLog'
  BY BuildLogKept DEF EventsOf
<1>2. ASSUME NEW r \in Requests, NEW c, NEW p, CreateBuildRead(r, c, p) PROVE BuildLog'
  BY <1>1, <1>2 DEF CreateBuildRead, Refuse, manifestVars
<1>3. ASSUME NEW r \in Requests, create_build(r) PROVE BuildLog'
  <2>1. req[r].pc = "ready" /\ req[r].op = "build.create"
    BY <1>3 DEF create_build, At
  <2>2. DOMAIN builds' = DOMAIN builds \cup {r} /\ Commit(r, r)
    BY <1>3 DEF create_build, Insert
  <2>3. Entities("build.create")' = Entities("build.create") \cup {r}
    <3>1. "build.create" \in {"build.create"}
      OBVIOUS
    <3> QED BY <2>1, <2>2, <3>1, Committed
  <2> QED BY <2>2, <2>3 DEF BuildLog, Inserted
<1> QED BY <1>2, <1>3 DEF BuildRowNext

\* Both instances start with an empty log, beside rows no request inserted
LEMMA AuditInit == Init => AuditInv
<1> SUFFICES ASSUME Init PROVE AuditInv
  OBVIOUS
<1>1. audit = {} /\ req = [r \in Requests |-> NewRequest] /\ NewRequest.pc = "new" /\ signatures = {} /\ DOMAIN reconciliations = {}
  BY DEF Init, NewRequest
<1>2. \A a : EventsOf(a) = {} /\ Entities(a) = {}
  BY <1>1 DEF EventsOf, Entities
<1>3. LogInv /\ ManifestLog /\ ReconciliationLog
  BY <1>1, <1>2, FS_EmptySet DEF LogInv, ManifestLog, ReconciliationLog, Inserted
<1>4. Names \cap Requests = {} /\ {Seed, "second", "admin", "other", "guest"} \subseteq Names
  BY FreshIds DEF Names
<1>5. CASE FreshInstance
  <2>1. /\ DOMAIN tokens = {} /\ DOMAIN policies = {} /\ revisions = {} /\ DOMAIN targets = {}
        /\ DOMAIN snapshots = {} /\ DOMAIN builds = {} /\ DOMAIN collections = {} /\ DOMAIN configs = {}
    BY <1>5 DEF FreshInstance
  <2> QED BY <1>2, <1>3, <2>1
       DEF AuditInv, TokenLog, PolicyLog, TargetLog, SourceLog, BuildLog, Inserted
<1>6. CASE UsedInstance
  <2>1. /\ DOMAIN policies = {Seed} /\ DOMAIN targets = {Seed} /\ DOMAIN snapshots = {Seed}
        /\ DOMAIN builds = {Seed} /\ DOMAIN collections = {Seed, "second"} /\ DOMAIN configs = {Seed}
    BY <1>6 DEF UsedInstance, Only
  <2>2. TokenLog
    <3>1. DOMAIN tokens = {"admin", "other", "guest"} /\ \A t \in DOMAIN tokens : \E ws, scopes : tokens[t] = Token(ws, scopes, "null")
      BY <1>6 DEF UsedInstance
    <3>2. \A ws, scopes : Token(ws, scopes, "null").revoked_at = "null"
      BY DEF Token
    <3>3. \A t \in DOMAIN tokens : tokens[t].revoked_at = "null"
      BY <3>1, <3>2
    <3> QED BY <1>2, <1>4, <3>1, <3>3 DEF TokenLog, Inserted
  <2>3. PolicyLog
    <3> DEFINE v == Revision(Seed, Seed, 1, Some(Documents))
    <3>1. revisions = {v} /\ v.policy = Seed
      BY <1>6 DEF UsedInstance, Revision
    <3> HIDE DEF v
    <3>2. RevisionsOf(Seed) = {v} /\ RevisedIn(Seed) = {}
      BY <1>2, <3>1 DEF RevisionsOf, RevisedIn
    <3>3. Cardinality({v}) = 1 /\ Cardinality({}) = 0
      BY FS_Singleton, FS_EmptySet
    <3> QED BY <1>2, <1>4, <2>1, <3>2, <3>3 DEF PolicyLog, Inserted
  <2>4. TargetLog /\ SourceLog /\ BuildLog
    BY <1>2, <1>4, <2>1 DEF TargetLog, SourceLog, BuildLog, Inserted
  <2> QED BY <1>3, <2>2, <2>3, <2>4 DEF AuditInv
<1> QED BY <1>5, <1>6 DEF Init

\* Every step writes its event with its rows: the log of its own module by
\* that module's lemma, the others because neither rows nor events are theirs
LEMMA AuditStep == ASSUME RegistryInv, AuditInv, [Next]_vars PROVE AuditInv'
<1>1. /\ RequestInv /\ TokenInv /\ PolicyInv /\ TargetInv
      /\ LogInv /\ TokenLog /\ PolicyLog /\ TargetLog /\ ManifestLog /\ SourceLog /\ ReconciliationLog /\ BuildLog
  BY DEF RegistryInv, AuditInv
<1>2. ASSUME NEW ops, LogMoves(ops)
      PROVE  /\ LogInv' /\ \A x : Known(x) => Known(x)'
             /\ \A others : ops \cap others = {} => Silent(others)
  BY <1>1, <1>2, LogStep, LoggedStays
<1>3. ASSUME NEW ops, HandlerStep(ops) PROVE LogMoves(ops) /\ tokens' = tokens
  BY <1>1, <1>3, HandlerLog DEF HandlerStep
<1>4. ASSUME Silent(TokenOps), tokens' = tokens PROVE TokenLog'
  BY <1>1, <1>4, TokenLogKept
<1>5. ASSUME Silent(PolicyOps), UNCHANGED policyVars PROVE PolicyLog'
  BY <1>1, <1>5, PolicyLogKept
<1>6. ASSUME Silent(TargetOps), UNCHANGED targetVars, \A x : Known(x) => Known(x)' PROVE TargetLog'
  BY <1>1, <1>6, TargetLogKept DEF targetVars
<1>7. ASSUME Silent(ManifestOps), signatures' = signatures PROVE ManifestLog'
  BY <1>1, <1>7, ManifestLogKept DEF Silent, ManifestOps
<1>8. ASSUME Silent(SourceOps), UNCHANGED sourceVars PROVE SourceLog'
  BY <1>1, <1>8, SourceLogKept DEF Silent, SourceOps, sourceVars
<1>9. ASSUME Silent(ReconciliationOps), UNCHANGED reconciliationVars PROVE ReconciliationLog'
  BY <1>1, <1>9, ReconciliationLogKept DEF Silent, ReconciliationOps, reconciliationVars
<1>10. ASSUME Silent({"build.create"}), DOMAIN builds' = DOMAIN builds PROVE BuildLog'
  BY <1>1, <1>10, BuildLogKept DEF Silent
<1> USE DEF TokenOps, RequestOps, PolicyOps, TargetOps, ManifestOps, SourceOps, ReconciliationOps
<1>11. CASE RequestNext(scene.ops) /\ UNCHANGED <<policyVars, targetVars, manifestVars, sourceVars, reconciliationVars>>
  <2>1. LogMoves(RequestOps) /\ TokenLog'
    BY <1>1, <1>11, TokenLogStep
  <2>2. /\ Silent(PolicyOps) /\ Silent(TargetOps) /\ Silent(ManifestOps) /\ Silent(SourceOps)
        /\ Silent(ReconciliationOps) /\ Silent({"build.create"})
    BY <1>2, <2>1
  <2> QED BY <1>2, <1>5, <1>6, <1>7, <1>8, <1>9, <1>10, <1>11, <2>1, <2>2 DEF AuditInv, manifestVars
<1>12. CASE PolicyNext /\ UNCHANGED <<targetVars, manifestVars, sourceVars, reconciliationVars>>
  <2>1. LogMoves(PolicyOps) /\ tokens' = tokens /\ PolicyLog'
    BY <1>1, <1>3, <1>12, PolicyHandlers, PolicyLogStep
  <2>2. /\ Silent(TokenOps) /\ Silent(TargetOps) /\ Silent(ManifestOps) /\ Silent(SourceOps)
        /\ Silent(ReconciliationOps) /\ Silent({"build.create"})
    BY <1>2, <2>1
  <2> QED BY <1>2, <1>4, <1>6, <1>7, <1>8, <1>9, <1>10, <1>12, <2>1, <2>2 DEF AuditInv, manifestVars
<1>13. CASE TargetNext(Pinned) /\ UNCHANGED <<policyVars, manifestVars, sourceVars, reconciliationVars>>
  <2>1. LogMoves(TargetOps) /\ tokens' = tokens /\ TargetLog'
    BY <1>1, <1>3, <1>13, TargetHandlers, TargetLogStep
  <2>2. /\ Silent(TokenOps) /\ Silent(PolicyOps) /\ Silent(ManifestOps) /\ Silent(SourceOps)
        /\ Silent(ReconciliationOps) /\ Silent({"build.create"})
    BY <1>2, <2>1
  <2> QED BY <1>2, <1>4, <1>5, <1>7, <1>8, <1>9, <1>10, <1>13, <2>1, <2>2 DEF AuditInv, manifestVars
<1>14. CASE ManifestNext /\ UNCHANGED <<policyVars, targetVars, sourceVars, reconciliationVars>>
  <2>1. LogMoves(ManifestOps) /\ tokens' = tokens /\ ManifestLog' /\ DOMAIN builds' = DOMAIN builds
    BY <1>1, <1>3, <1>14, ManifestHandlers, ManifestLogStep
  <2>2. /\ Silent(TokenOps) /\ Silent(PolicyOps) /\ Silent(TargetOps) /\ Silent(SourceOps)
        /\ Silent(ReconciliationOps) /\ Silent({"build.create"})
    BY <1>2, <2>1
  <2> QED BY <1>2, <1>4, <1>5, <1>6, <1>8, <1>9, <1>10, <1>14, <2>1, <2>2 DEF AuditInv
<1>15. CASE SourceNext /\ UNCHANGED <<policyVars, targetVars, manifestVars, reconciliationVars>>
  <2>1. LogMoves(SourceOps) /\ tokens' = tokens /\ SourceLog'
    BY <1>1, <1>3, <1>15, SourceHandlers, SourceLogStep
  <2>2. /\ Silent(TokenOps) /\ Silent(PolicyOps) /\ Silent(TargetOps) /\ Silent(ManifestOps)
        /\ Silent(ReconciliationOps) /\ Silent({"build.create"})
    BY <1>2, <2>1
  <2> QED BY <1>2, <1>4, <1>5, <1>6, <1>7, <1>9, <1>10, <1>15, <2>1, <2>2 DEF AuditInv, manifestVars
<1>16. CASE ReconciliationNext /\ UNCHANGED <<policyVars, targetVars, manifestVars, sourceVars>>
  <2>1. LogMoves(ReconciliationOps) /\ tokens' = tokens /\ ReconciliationLog'
    BY <1>1, <1>3, <1>16, ReconciliationHandlers, ReconciliationLogStep
  <2>2. /\ Silent(TokenOps) /\ Silent(PolicyOps) /\ Silent(TargetOps) /\ Silent(ManifestOps) /\ Silent(SourceOps)
        /\ Silent({"build.create"})
    BY <1>2, <2>1
  <2> QED BY <1>2, <1>4, <1>5, <1>6, <1>7, <1>8, <1>10, <1>16, <2>1, <2>2 DEF AuditInv, manifestVars
<1>17. CASE BuildRowNext
  <2>1. LogMoves({"build.create"}) /\ tokens' = tokens /\ BuildLog'
    BY <1>1, <1>3, <1>17, BuildRowHandlers, BuildLogStep
  <2>2. /\ Silent(TokenOps) /\ Silent(PolicyOps) /\ Silent(TargetOps) /\ Silent(ManifestOps) /\ Silent(SourceOps)
        /\ Silent(ReconciliationOps)
    BY <1>2, <2>1
  <2>3. UNCHANGED <<policyVars, targetVars, signatures, sourceVars, reconciliationVars>>
    BY <1>17 DEF BuildRowNext, CreateBuildRead, create_build, manifestVars
  <2> QED BY <1>2, <1>4, <1>5, <1>6, <1>7, <1>8, <1>9, <2>1, <2>2, <2>3 DEF AuditInv
<1>18. CASE UNCHANGED vars
  <2>1. LogMoves({})
    BY <1>18 DEF LogMoves, vars, requestVars
  <2>2. /\ Silent(TokenOps) /\ Silent(PolicyOps) /\ Silent(TargetOps) /\ Silent(ManifestOps) /\ Silent(SourceOps)
        /\ Silent(ReconciliationOps) /\ Silent({"build.create"})
    BY <1>2, <2>1
  <2>3. UNCHANGED <<tokens, policyVars, targetVars, manifestVars, sourceVars, reconciliationVars>>
    BY <1>18 DEF vars, requestVars
  <2> QED BY <1>2, <1>4, <1>5, <1>6, <1>7, <1>8, <1>9, <1>10, <2>1, <2>2, <2>3 DEF AuditInv, manifestVars
<1> QED BY <1>11, <1>12, <1>13, <1>14, <1>15, <1>16, <1>17, <1>18 DEF Next

\* The audit log and the tables tell the same story, for any number of
\* overlapping requests: every committed change has its event, every event's
\* change is there, and what was refused, failed or found nothing left neither.
THEOREM AuditIsTrue == Spec => []AuditTellsTheTruth
<1>1. Init => RegistryInv /\ AuditInv
  BY RegistryInit, AuditInit
<1>2. (RegistryInv /\ AuditInv) /\ [Next]_vars => (RegistryInv /\ AuditInv)'
  BY RegistryStep, AuditStep
<1>3. RegistryInv /\ AuditInv => AuditTellsTheTruth
  <2> SUFFICES ASSUME AuditInv PROVE AuditTellsTheTruth
    OBVIOUS
  <2>1. \A a : Entities(a) = {e.entity : e \in EventsOf(a)}
    BY DEF Entities
  <2>2. /\ LogInv /\ TokenLog /\ PolicyLog /\ TargetLog /\ ManifestLog /\ SourceLog /\ ReconciliationLog /\ BuildLog
    BY DEF AuditInv
  <2>3. Inserted(tokens) = {e.entity : e \in EventsOf("auth.bootstrap") \cup EventsOf("api_token.create")}
    BY <2>2 DEF TokenLog, Entities
  <2>4. /\ {e.request : e \in audit} = {r \in Requests : req[r].pc = "done"}
        /\ {t \in DOMAIN tokens : tokens[t].revoked_at = "set"} \subseteq {e.entity : e \in EventsOf("api_token.revoke")}
    BY <2>1, <2>2 DEF LogInv, TokenLog
  <2>5. /\ Inserted(policies) = {e.entity : e \in EventsOf("policy.create")}
        /\ \A p \in DOMAIN policies :
             Cardinality(RevisionsOf(p)) = 1 + Cardinality({e \in EventsOf("policy.revise") : e.entity = p})
    BY <2>1, <2>2 DEF PolicyLog, RevisedIn
  <2>6. /\ \A e \in EventsOf("target.delete") : e.entity \notin DOMAIN targets
        /\ Inserted(targets) = {e.entity : e \in EventsOf("target.create")} \ {e.entity : e \in EventsOf("target.delete")}
        /\ Inserted(snapshots) \subseteq {e.entity : e \in EventsOf("snapshot.create")}
    <3>1. \A e \in EventsOf("target.delete") : e.entity \in Entities("target.delete")
      BY DEF Entities
    <3> QED BY <2>1, <2>2, <3>1 DEF TargetLog
  <2>7. /\ Inserted(collections) = {e.entity : e \in EventsOf("source_collection.create")}
        /\ Inserted(configs) = {e.entity : e \in EventsOf("pipeline_config.create")}
        /\ Inserted(reconciliations) = {e.entity : e \in EventsOf("reconciliation.create")}
        /\ Inserted(builds) = {e.entity : e \in EventsOf("build.create")}
        /\ {s.by : s \in signatures} = {e.request : e \in EventsOf("manifest.sign")}
    BY <2>1, <2>2 DEF SourceLog, ReconciliationLog, BuildLog, ManifestLog
  <2> QED BY <2>3, <2>4, <2>5, <2>6, <2>7 DEF AuditTellsTheTruth
<1> QED BY <1>1, <1>2, <1>3, PTL DEF Spec

=============================================================================
