----------------------------- MODULE Manifests -----------------------------
(***************************************************************************)
(* Manifest rows, from the build that inserts them to their signatures:    *)
(* run_build_job of server/handlers.py, the :sign and :verify endpoints of *)
(* server/api/manifest_routes.py and core/signing.py, over the tables of   *)
(* server/db/models/manifests.py and builds.py.                            *)
(*                                                                         *)
(* An artifact is content-addressed and never changes (module              *)
(* ArtifactStore), so artifact_ref is the envelope it names: the manifest  *)
(* hash, which excludes signatures, and the signatures attached to it.     *)
(* Ed25519 is deterministic: key and hash determine the signature bytes,   *)
(* and a signature record adds who signed when, here the request.          *)
(***************************************************************************)
EXTENDS Requests

CONSTANTS
  Hashes,        \* manifest hashes builds come to
  Keys,          \* contents the signing key file has had, in order: 1, 2, ...
  Trusted,       \* the keys of the trust store
  SigningEnabled \* MANIFEST_SIGNING_KEY_FILE is set

ASSUME KeysAssumption == Keys \in Nat \ {0} /\ Trusted \subseteq 1..Keys /\ SigningEnabled \in BOOLEAN

VARIABLES
  manifests,   \* per manifest row: workspace, hash, artifact, signed
  signatures,  \* the manifest_signatures rows
  builds,      \* per build: what it is of, its state, and its manifest's hash once it has one
  keyFile      \* the key the signing key file holds

manifestVars == <<manifests, signatures, builds, keyFile>>

\* signing_view: the digest of the content without integrity and signatures
Envelope(h, sigs) == [signing_view |-> h, manifest_hash |-> h, signatures |-> sigs]

-----------------------------------------------------------------------------
(* run_build_job *)

ManifestOf(ws, h) ==
  {m \in DOMAIN manifests : manifests[m].ws = ws /\ manifests[m].manifest_hash = h}

\* The pipeline has run and its manifest is in the store; is there a row?
SelectExisting(b, h) ==
  /\ builds[b].state = "pending"
  /\ builds' = [builds EXCEPT ![b].state = "selected", ![b].manifest_hash = h,
                              ![b].existing = ManifestOf(builds[b].ws, h) # {}]
  /\ UNCHANGED <<requestVars, manifests, signatures, keyFile>>

\* Mutant: the row is inserted without looking, and no constraint stops it
run_build_job_always_inserts(b) ==
  LET row == builds[b] IN
  /\ row.state = "selected"
  /\ manifests' = Insert(manifests, b,
       [ws |-> row.ws, manifest_hash |-> row.manifest_hash,
        artifact_ref |-> Envelope(row.manifest_hash, {}), signed |-> FALSE])
  /\ builds' = [builds EXCEPT ![b].state = "completed"]
  /\ UNCHANGED <<requestVars, signatures, keyFile>>

\* One manifest row per hash and workspace: kept if it was there, inserted if
\* not, and a row that came between fails the attempt, which is retried
run_build_job(b) ==
  LET row == builds[b] IN
  /\ row.state = "selected"
  /\ \/ /\ row.existing
        /\ builds' = [builds EXCEPT ![b].state = "completed"]
        /\ UNCHANGED manifests
     \/ /\ ~row.existing /\ ManifestOf(row.ws, row.manifest_hash) = {}
        /\ manifests' = Insert(manifests, b,
             [ws |-> row.ws, manifest_hash |-> row.manifest_hash,
              artifact_ref |-> Envelope(row.manifest_hash, {}), signed |-> FALSE])
        /\ builds' = [builds EXCEPT ![b].state = "completed"]
     \/ /\ ~row.existing /\ ManifestOf(row.ws, row.manifest_hash) # {}
        /\ builds' = [builds EXCEPT ![b].state = "pending", ![b].manifest_hash = None]
        /\ UNCHANGED manifests
  /\ UNCHANGED <<requestVars, signatures, keyFile>>

-----------------------------------------------------------------------------
(* Signing *)

\* The operator replaces the key file
RotateKey ==
  /\ keyFile < Keys
  /\ keyFile' = keyFile + 1
  /\ UNCHANGED <<requestVars, manifests, signatures, builds>>

\* 503, 404, or the envelope and the key as they are now; the signed copy
\* goes to the artifact store
SignRead(r, m) ==
  LET row == manifests[m] IN
  /\ At(r, "authed", "manifest.sign")
  /\ \/ (~SigningEnabled \/ row.ws # req[r].ws) /\ Refuse(r)
     \/ /\ SigningEnabled /\ row.ws = req[r].ws
        /\ Loaded(r, [manifest |-> m, envelope |-> row.artifact_ref, key_id |-> keyFile])
        /\ UNCHANGED <<users, workspaces, tokens, audit>>
  /\ UNCHANGED manifestVars

\* sign_manifest: the hash is recomputed, the record appended
sign_manifest(envelope, key, r) ==
  [envelope EXCEPT !.manifest_hash = envelope.signing_view,
                   !.signatures = @ \cup {[key_id |-> key, by |-> r]}]

\* The row points at the signed copy and the record is mirrored; a second
\* signature by the same key has the same bytes and is no new row
sign_manifest_endpoint(r) ==
  LET rows == req[r].seen
      taken == \E s \in signatures : s.manifest = rows.manifest /\ s.key_id = rows.key_id IN
  /\ At(r, "ready", "manifest.sign")
  /\ \/ taken /\ RollBack(r) /\ UNCHANGED <<manifests, signatures>>
     \/ /\ ~taken
        /\ manifests' = [manifests EXCEPT
             ![rows.manifest].artifact_ref = sign_manifest(rows.envelope, rows.key_id, r),
             ![rows.manifest].signed = TRUE]
        /\ signatures' = signatures \cup
             {[manifest |-> rows.manifest, key_id |-> rows.key_id, by |-> r]}
        /\ Commit(r, rows.manifest)
        /\ UNCHANGED <<users, workspaces, tokens>>
  /\ UNCHANGED <<builds, keyFile>>

-----------------------------------------------------------------------------
(* Verification *)

\* The status of every attached signature.  The server's own records verify
\* under the key they name, so INVALID needs a file from elsewhere.
statuses(envelope) ==
  {IF s.key_id \in Trusted THEN "valid" ELSE "unknown_key" : s \in envelope.signatures}

overall_status(hash_valid, results) ==
  CASE ~hash_valid                -> "INVALID"
    [] hash_valid /\ results = {} -> "INCOMPLETE"
    [] hash_valid /\ "valid" \in results -> "VALID_TRUSTED"
    [] hash_valid /\ results # {} /\ "valid" \notin results /\ "unknown_key" \in results
                                  -> "VALID_UNTRUSTED"
    [] OTHER                      -> "INVALID"

verify_manifest(m) ==
  LET envelope == manifests[m].artifact_ref IN
  overall_status(envelope.signing_view = envelope.manifest_hash, statuses(envelope))

\* :verify writes nothing
verify_manifest_endpoint(r, m) ==
  /\ At(r, "authed", "manifest.verify")
  /\ IF manifests[m].ws = req[r].ws THEN Nothing(r) ELSE Refuse(r)
  /\ UNCHANGED manifestVars

ManifestNext ==
  \/ \E b \in DOMAIN builds : (\E h \in Hashes : SelectExisting(b, h)) \/ run_build_job(b)
  \/ RotateKey
  \/ \E r \in Requests :
       \/ \E m \in DOMAIN manifests : SignRead(r, m) \/ verify_manifest_endpoint(r, m)
       \/ sign_manifest_endpoint(r)

-----------------------------------------------------------------------------
(* Properties *)

\* A build that completed leads to its manifest: its hash names exactly one
\* row of its workspace, however many builds came to that hash at once, and
\* the row's artifact has that hash.
BuildsLeadToManifests ==
  \A b \in DOMAIN builds :
    builds[b].state = "completed" =>
      /\ Cardinality(ManifestOf(builds[b].ws, builds[b].manifest_hash)) = 1
      /\ \A m \in ManifestOf(builds[b].ws, builds[b].manifest_hash) :
           manifests[m].artifact_ref.signing_view = builds[b].manifest_hash

\* The signed column says what :verify finds: a signed row's artifact carries a
\* signature and verifies, an unsigned row's carries none, also after a
\* rebuild of the same manifest; and every attached signature is mirrored by
\* a row, also when two requests sign the same envelope.
SignedMeansVerifiable ==
  \A m \in DOMAIN manifests :
    /\ manifests[m].signed <=> verify_manifest(m) \in {"VALID_TRUSTED", "VALID_UNTRUSTED"}
    /\ \A s \in manifests[m].artifact_ref.signatures :
         [manifest |-> m, key_id |-> s.key_id, by |-> s.by] \in signatures

\* A build leads to one manifest whose artifact and signatures are what its
\* row says, whichever builds, signers and key changes came in between.
ManifestsStand == BuildsLeadToManifests /\ SignedMeansVerifiable

\* Every signature the server recorded is attached to the manifest.  Not an
\* invariant: of two :sign requests around a key change the later commit drops
\* the signature of the earlier from the artifact, so no run keeps it.
SignaturesAreAttached ==
  \A s \in signatures :
    [key_id |-> s.key_id, by |-> s.by] \in manifests[s.manifest].artifact_ref.signatures

=============================================================================
