------------------------------ MODULE Targets ------------------------------
(***************************************************************************)
(* Vector targets and their snapshot rows: server/api/routes.py and        *)
(* manifest_routes.py over server/db/models/targets.py, with the endpoint  *)
(* validation of server/ssrf.py and the credential columns that            *)
(* server/security.py fills.                                               *)
(***************************************************************************)
EXTENDS Requests, FiniteSetsExt

CONSTANTS
  Endpoints,           \* the endpoint URLs requests name
  Resolves,            \* per endpoint: the kinds of addresses its host resolves to
  AllowPrivate,        \* settings.allow_private_targets
  EncryptionKeys,      \* bound: APP_ENCRYPTION_KEY_V<n> variables, 1, 2, ...
  Captures             \* what a snapshot may find in a target

\* Kinds of addresses: _is_always_blocked, _is_private with and without a
\* matching PRIVATE_TARGET_CIDRS entry, and the rest
AddressKinds == {"blocked", "private_listed", "private_other", "public"}

ASSUME EndpointsAssumption == Resolves \in [Endpoints -> SUBSET AddressKinds]
ASSUME SettingsAssumption  == AllowPrivate \in BOOLEAN /\ EncryptionKeys \in Nat

VARIABLES
  targets,    \* per target: workspace, endpoint, decision, credential columns
  snapshots,  \* per snapshot row: its target, and the artifact if it has one
  keyring     \* the versions of the encryption keys that are configured

targetVars == <<targets, snapshots, keyring>>

-----------------------------------------------------------------------------
(* validate_target_url *)

Private == {"private_listed", "private_other"}

\* The host resolves, and every address it resolves to passes
url_allowed(endpoint) ==
  LET kinds == Resolves[endpoint] IN
  /\ kinds # {}
  /\ "blocked" \notin kinds
  /\ kinds \cap Private # {} => AllowPrivate /\ "private_other" \notin kinds

decision(endpoint) ==
  IF Resolves[endpoint] \cap Private # {} THEN "private_cidr_allowlisted" ELSE "public"

-----------------------------------------------------------------------------
(* Credentials *)

\* The key with the highest version seals; its id goes into the blob.  A
\* credential is named by the request that brought it.
encrypt_credential(r) == [credential |-> r, key_id |-> Max(keyring)]

\* Mutant: the key is looked up by the column, not by the blob's own key id
decrypt_credential_by_column(row) ==
  IF row.credential_key_id \in keyring /\ row.credential_key_id = row.credential_ciphertext.key_id
  THEN row.credential_ciphertext.credential ELSE "CredentialDecryptionError"

\* The key is looked up by the id in the blob
decrypt_credential(row) ==
  IF row.credential_ciphertext.key_id \in keyring
  THEN row.credential_ciphertext.credential ELSE "CredentialDecryptionError"

\* The processes restart with one more key; the old ones stay configured
AddEncryptionKey ==
  /\ Cardinality(keyring) < EncryptionKeys
  /\ keyring' = keyring \cup {IF keyring = {} THEN 1 ELSE Max(keyring) + 1}
  /\ UNCHANGED <<requestVars, targets, snapshots>>

-----------------------------------------------------------------------------
(* Targets *)

\* 422 for the endpoint, 503 without a key
create_target(r, endpoint) ==
  /\ At(r, "authed", "target.create")
  /\ \/ /\ ~url_allowed(endpoint) \/ keyring = {}
        /\ Refuse(r)
        /\ UNCHANGED targets
     \/ /\ url_allowed(endpoint) /\ keyring # {}
        /\ targets' = Insert(targets, r,
             [ws |-> req[r].ws, endpoint_redacted |-> endpoint,
              allowlist_decision |-> decision(endpoint),
              credential_ciphertext |-> encrypt_credential(r),
              credential_key_id |-> encrypt_credential(r).key_id, credential_version |-> 1])
        /\ Commit(r, r)
        /\ UNCHANGED <<users, workspaces, tokens>>
  /\ UNCHANGED <<snapshots, keyring>>

\* What a PATCH may set; another name or mapping is not modelled itself
Changes == SUBSET {"endpoint", "credential", "name_or_mapping"}

\* The columns row t gets, computed from the row as loaded
Patched(r, row, changed, endpoint) ==
  [row EXCEPT
     !.endpoint_redacted     = IF "endpoint" \in changed THEN endpoint ELSE @,
     !.allowlist_decision    = IF "endpoint" \in changed THEN decision(endpoint) ELSE @,
     !.credential_ciphertext = IF "credential" \in changed THEN encrypt_credential(r) ELSE @,
     !.credential_key_id     = IF "credential" \in changed THEN encrypt_credential(r).key_id ELSE @,
     !.credential_version    = IF "credential" \in changed THEN @ + 1 ELSE @]

\* Mutant: the row is found by its id alone
UpdateTargetRead_any_workspace(r, t, changed, endpoint) ==
  /\ At(r, "authed", "target.update")
  /\ Loaded(r, [target |-> t, row |-> targets[t],
                new |-> Patched(r, targets[t], changed, endpoint)])
  /\ UNCHANGED <<users, workspaces, tokens, audit, targetVars>>

\* 404, 422, 503, or nothing to do for an empty PATCH
UpdateTargetRead(r, t, changed, endpoint) ==
  LET refused == \/ targets[t].ws # req[r].ws
                 \/ "endpoint" \in changed /\ ~url_allowed(endpoint)
                 \/ "credential" \in changed /\ keyring = {} IN
  /\ At(r, "authed", "target.update")
  /\ \/ refused /\ Refuse(r)
     \/ ~refused /\ changed = {} /\ Nothing(r)
     \/ /\ ~refused /\ changed # {}
        /\ Loaded(r, [target |-> t, row |-> targets[t],
                      new |-> Patched(r, targets[t], changed, endpoint)])
        /\ UNCHANGED <<users, workspaces, tokens, audit>>
  /\ UNCHANGED targetVars

\* The ORM's UPDATE: the columns whose new value differs from the loaded one
Merge(row, loaded, new) ==
  [column \in DOMAIN row |-> IF new[column] = loaded[column] THEN row[column] ELSE new[column]]

\* An UPDATE of a row that is gone is a StaleDataError; a PATCH that repeats
\* what the row said, its name and mapping too, emits none and commits its event
update_target(r) ==
  LET rows == req[r].seen IN
  /\ At(r, "ready", "target.update")
  /\ \/ rows.target \notin DOMAIN targets /\ RollBack(r) /\ UNCHANGED targets
     \/ /\ rows.target \notin DOMAIN targets /\ rows.new = rows.row
        /\ Commit(r, rows.target)
        /\ UNCHANGED <<users, workspaces, tokens, targets>>
     \/ /\ rows.target \in DOMAIN targets
        /\ targets' = [targets EXCEPT ![rows.target] = Merge(@, rows.row, rows.new)]
        /\ Commit(r, rows.target)
        /\ UNCHANGED <<users, workspaces, tokens>>
  /\ UNCHANGED <<snapshots, keyring>>

\* Mutant: the row is found by its id alone
DeleteTargetRead_any_workspace(r, t) ==
  /\ At(r, "authed", "target.delete")
  /\ Loaded(r, [target |-> t])
  /\ UNCHANGED <<users, workspaces, tokens, audit, targetVars>>

DeleteTargetRead(r, t) ==
  /\ At(r, "authed", "target.delete")
  /\ \/ targets[t].ws # req[r].ws /\ Refuse(r)
     \/ /\ targets[t].ws = req[r].ws
        /\ Loaded(r, [target |-> t])
        /\ UNCHANGED <<users, workspaces, tokens, audit>>
  /\ UNCHANGED targetVars

SnapshotsOf(t) == {s \in DOMAIN snapshots : snapshots[s].target = t}

\* DELETE cascades to the snapshots, which a reconciliation restricts;
\* deleting a row that is gone already only draws a warning
delete_target(r, pinned) ==
  LET t == req[r].seen.target IN
  /\ At(r, "ready", "target.delete")
  /\ \/ SnapshotsOf(t) \cap pinned # {} /\ RollBack(r) /\ UNCHANGED <<targets, snapshots>>
     \/ /\ SnapshotsOf(t) \cap pinned = {}
        /\ targets'   = Delete(targets, {t})
        /\ snapshots' = Delete(snapshots, SnapshotsOf(t))
        /\ Commit(r, t)
        /\ UNCHANGED <<users, workspaces, tokens>>
  /\ UNCHANGED keyring

-----------------------------------------------------------------------------
(* Snapshot rows *)

CreateSnapshotRead(r, t) ==
  /\ At(r, "authed", "snapshot.create")
  /\ \/ targets[t].ws # req[r].ws /\ Refuse(r)
     \/ /\ targets[t].ws = req[r].ws
        /\ Loaded(r, [target |-> t])
        /\ UNCHANGED <<users, workspaces, tokens, audit>>
  /\ UNCHANGED targetVars

\* The row, without an artifact, and its job; the foreign key needs the target
create_snapshot(r) ==
  LET t == req[r].seen.target IN
  /\ At(r, "ready", "snapshot.create")
  /\ \/ t \notin DOMAIN targets /\ RollBack(r) /\ UNCHANGED snapshots
     \/ /\ t \in DOMAIN targets
        /\ snapshots' = Insert(snapshots, r, [ws |-> req[r].ws, target |-> t, artifact_ref |-> "null", capture |-> None])
        /\ Commit(r, r)
        /\ UNCHANGED <<users, workspaces, tokens>>
  /\ UNCHANGED <<targets, keyring>>

\* The snapshot's job opens the target's credential, captures and commits its
\* artifact; a row deleted before makes the job fail (the capture itself is
\* module Snapshot, the job JobQueue)
SnapshotStored(s, capture) ==
  /\ snapshots[s].artifact_ref = "null"
  /\ decrypt_credential(targets[snapshots[s].target]) # "CredentialDecryptionError"
  /\ snapshots' = [snapshots EXCEPT ![s].artifact_ref = "set", ![s].capture = capture]
  /\ UNCHANGED <<requestVars, targets, keyring>>

\* pinned: the snapshots that reconciliations refer to
TargetNext(pinned) ==
  \/ \E r \in Requests :
       \/ \E endpoint \in Endpoints : create_target(r, endpoint)
       \/ \E t \in DOMAIN targets, changed \in Changes, endpoint \in Endpoints :
            UpdateTargetRead(r, t, changed, endpoint)
       \/ update_target(r)
       \/ \E t \in DOMAIN targets : DeleteTargetRead(r, t)
       \/ delete_target(r, pinned)
       \/ \E t \in DOMAIN targets : CreateSnapshotRead(r, t)
       \/ create_snapshot(r)
  \/ \E s \in DOMAIN snapshots, capture \in Captures : SnapshotStored(s, capture)
  \/ AddEncryptionKey

-----------------------------------------------------------------------------
(* Properties *)

\* Every stored credential opens, whichever key sealed it: also when two
\* PATCHes around a new key leave the ciphertext of one and the key id column
\* of the other.
CredentialsOpen ==
  \A t \in DOMAIN targets : decrypt_credential(targets[t]) # "CredentialDecryptionError"

\* allowlist_decision records how endpoint_redacted was accepted.  Not an
\* invariant: two PATCHes that overlap may leave the endpoint of one and the
\* decision of the other, so no run keeps it.
DecisionDescribesEndpoint ==
  \A t \in DOMAIN targets :
    targets[t].allowlist_decision = decision(targets[t].endpoint_redacted)

=============================================================================
