---------------------------- MODULE MCReconcile ----------------------------
(***************************************************************************)
(* Three families of inputs for Reconcile: small matching problems, single *)
(* pairs that differ in one attribute or two under every policy, and       *)
(* inputs that are incomplete or cannot match.                             *)
(***************************************************************************)
EXTENDS Reconcile, TLC

SeqsUpTo(S, n) == UNION {[1..k -> S] : k \in 0..n}

NoPolicy ==
  [given |-> FALSE, pii |-> FALSE, pii_deny |-> {}, pii_allow |-> {},
   licenses |-> FALSE, unknown |-> "allow", license_deny |-> {}, license_allow |-> {},
   signature_required |-> FALSE, full_required |-> FALSE, lineage_min |-> Unset,
   fail_on |-> {}, warn_on |-> {}, acl_min |-> Unset,
   stale_max |-> Unset, orphan_max |-> Unset, missing_max |-> Unset, rules |-> {}]

Strict == [NoPolicy EXCEPT !.given = TRUE, !.fail_on = {Medium, High, Critical}]

Ratios ==
  [NoPolicy EXCEPT !.given = TRUE, !.full_required = TRUE, !.lineage_min = 50, !.acl_min = 100,
                   !.stale_max = 0, !.orphan_max = 34, !.missing_max = 50, !.warn_on = {Medium}]

Governed ==
  [Strict EXCEPT !.pii = TRUE, !.pii_deny = {"email"}, !.pii_allow = {"name"},
                 !.licenses = TRUE, !.unknown = "warn", !.license_deny = {"GPL"},
                 !.signature_required = TRUE]

Ruled ==
  [NoPolicy EXCEPT !.given = TRUE, !.licenses = TRUE, !.unknown = "fail", !.license_allow = {"MIT"},
     !.rules = {[category |-> "severity", codes |-> {}, comparator |-> "gte",
                 threshold |-> 2, verdict_on_violation |-> "FAIL"],
                [category |-> "count", codes |-> {"PAYLOAD_DRIFT"}, comparator |-> "gt",
                 threshold |-> Unset, verdict_on_violation |-> "WARN"]}]

-----------------------------------------------------------------------------
\* Embedding 1 has chunk 1, the chunk of embedding 2 is not in the manifest
MatchManifest(bindings) ==
  [bindings |-> [i \in DOMAIN bindings |->
                   [id |-> i, here |-> TRUE, point_id |-> bindings[i][1], embedding_id |-> bindings[i][2],
                    payload_hash |-> 1, tenant |-> None, acl |-> NoAcl]],
   embeddings |-> [e \in {1, 2} |-> [chunk |-> e, dimension |-> 3, vector_hash |-> None]],
   chunks |-> (1 :> [version |-> 1, pii |-> {}, licenses |-> {}]),
   versions |-> (1 :> 1), sources |-> (1 :> 1), status |-> "complete", signed |-> FALSE]

Point(row, id, embedding, chunk) ==
  [row |-> row, point_id |-> id, embedding_id |-> embedding, chunk_id |-> chunk,
   source_id |-> None, source_version_id |-> None, tenant |-> None, acl |-> {},
   payload_hash |-> 1, dimensions |-> {3}, vector_hashes |-> {}]

Few  == {<<1, 0, 0>>, <<1, 1, 1>>, <<2, 0, 1>>}
More == Few \cup {<<2, 1, 1>>}

Input(manifest, observed, policy) ==
  [manifest |-> manifest, observed |-> observed, schema |-> {3},
   completeness |-> "complete", kind |-> "full", policy |-> policy]

MatchInputs ==
  {Input(MatchManifest(b), [i \in DOMAIN o |-> Point(i, o[i][1], o[i][2], o[i][3])], Strict) :
     b \in SeqsUpTo({<<1, 1>>, <<2, 1>>, <<2, 2>>}, 2), o \in SeqsUpTo(More, 2) \cup [1..3 -> Few]}

-----------------------------------------------------------------------------
\* One binding with everything declared, and a binding of another target
PairManifest(acl, tenant, pii, licenses) ==
  [bindings |-> <<[id |-> 1, here |-> FALSE, point_id |-> 2, embedding_id |-> 1,
                   payload_hash |-> 1, tenant |-> None, acl |-> NoAcl],
                  [id |-> 2, here |-> TRUE, point_id |-> 1, embedding_id |-> 1,
                   payload_hash |-> 1, tenant |-> tenant, acl |-> acl]>>,
   embeddings |-> (1 :> [chunk |-> 1, dimension |-> 3, vector_hash |-> 1]),
   chunks |-> (1 :> [version |-> 1, pii |-> pii, licenses |-> licenses]),
   versions |-> (1 :> 1), sources |-> (1 :> 1), status |-> "complete", signed |-> TRUE]

Faithful(row, id) ==
  [row |-> row, point_id |-> id, embedding_id |-> 1, chunk_id |-> 1, source_id |-> 1,
   source_version_id |-> 1, tenant |-> 1, acl |-> {1}, payload_hash |-> 1,
   dimensions |-> {3}, vector_hashes |-> {1}]

Drifted ==
  LET p == Faithful(1, 1)
  IN {[p EXCEPT !.tenant = t, !.acl = a, !.payload_hash = h] :
        t \in {None, 1, 2}, a \in {{}, {1}, {2}}, h \in {1, 2}}

Misplaced ==
  LET p == Faithful(1, 1)
  IN {[p EXCEPT !.source_version_id = v, !.chunk_id = c, !.source_id = s] :
             v \in {None, 1, 2}, c \in {None, 1, 2}, s \in {None, 1, 2}}
     \cup {[p EXCEPT !.dimensions = d, !.vector_hashes = v] : d \in {{}, {3}, {4}}, v \in {{}, {1}, {2}}}

Email == [type |-> "email", above |-> TRUE, certain |-> FALSE]
Phone == [type |-> "phone", above |-> TRUE, certain |-> TRUE]

Assertions == {<<{}, {}>>, <<{Email, Phone}, {}>>,
               <<{}, {[rank |-> 1, spdx |-> "NOASSERTION"]}>>,
               <<{}, {[rank |-> 1, spdx |-> "GPL"], [rank |-> 2, spdx |-> "MIT"]}>>}

PairInputs ==
  {Input(PairManifest(acl, 1, {}, {}), <<p>>, policy) :
     acl \in {NoAcl, {}, {1}, {1, 2}}, p \in Drifted, policy \in {NoPolicy, Strict, Ratios, Ruled}}
  \cup
  {Input(PairManifest({1}, 1, {}, {}), <<p>>, policy) :
     p \in Misplaced, policy \in {NoPolicy, Strict, Ratios, Ruled}}
  \cup
  {Input(PairManifest({1}, None, a[1], a[2]), <<Faithful(1, 1), p>>, policy) :
     a \in Assertions, p \in {Faithful(2, 2), [Faithful(2, 2) EXCEPT !.source_id = 2]},
     policy \in {Governed, Ruled}}

\* Incomplete on either side; a point that nothing identifies; a schema that
\* no expected dimension fits
OddInputs ==
  LET good == Input(PairManifest({1}, 1, {}, {}), <<Faithful(1, 1)>>, Strict)
  IN {[good EXCEPT !.policy = p] : p \in {NoPolicy, Strict, Ratios}}
     \cup {[good EXCEPT !.completeness = "incomplete", !.policy = p] : p \in {NoPolicy, Strict, Ratios}}
     \cup {[good EXCEPT !.manifest.status = "partial"]}
     \cup {[good EXCEPT !.observed = <<Point(1, 1, 0, 0), Point(2, 2, 0, 0)>>, !.policy = Ratios]}
     \cup {[good EXCEPT !.observed = <<>>, !.policy = Ratios]}
     \cup {[good EXCEPT !.schema = {4}, !.policy = p] : p \in {NoPolicy, Strict, Ratios}}

MCInputs == MatchInputs \cup PairInputs \cup OddInputs

=============================================================================
