------------------------------ MODULE Findings ------------------------------
(***************************************************************************)
(* What reconcile/engine.py makes of a matching, and what policy.py,       *)
(* remediation.py and report.py make of that: findings, ratios, a verdict, *)
(* candidates for repair and an exit code.  Pure operators; Reconcile uses *)
(* them in its last steps.                                                 *)
(*                                                                         *)
(* An observed point carries the number of its line (row), so that two     *)
(* findings with one fingerprint stay two.  Ratios are pairs of numbers,   *)
(* thresholds percentages.                                                 *)
(***************************************************************************)
EXTENDS Matching

Low == 0
Medium == 1
High == 2
Critical == 3

DEFAULT_SEVERITY(code) ==
  CASE code \in {"EMBEDDING_DIMENSION_MISMATCH", "DUPLICATE_POINT_ID", "ACL_MISSING",
                 "ACL_BROADER_THAN_SOURCE", "TENANT_MISSING", "TENANT_MISMATCH"} -> Critical
    [] code \in {"STALE_PARSE", "PAYLOAD_DRIFT", "SOURCE_METADATA_MISSING", "DUPLICATE_CONTENT",
                 "LICENSE_UNKNOWN", "UNVERIFIABLE_POINT"} -> Medium
    [] OTHER -> High

\* build_finding: code, subject and field are its fingerprint.  binding_id and
\* point_id are its locator, row tells apart findings of one fingerprint.
build_finding(code, subject, field) ==
  [code |-> code, subject |-> subject, field |-> field, row |-> 0,
   severity |-> DEFAULT_SEVERITY(code), binding_id |-> None, point_id |-> None]

-----------------------------------------------------------------------------
(* Matched pairs: pair.expected, pair.observed, pair.level                 *)

StaleCode(pair, sources) ==
  LET e == pair.expected
      o == pair.observed
  IN IF e.source_id = None \/ e.source_id \notin DOMAIN sources THEN {}
     ELSE IF o.source_version_id # None /\ o.source_version_id # sources[e.source_id]
          THEN {"STALE_SOURCE"}
     ELSE IF e.chunk_id # None /\ o.chunk_id # None /\ o.chunk_id # e.chunk_id
          THEN {"STALE_CHUNKING"}
     ELSE {}

VectorCodes(e, o) ==
  {c \in {"EMBEDDING_DIMENSION_MISMATCH", "VECTOR_HASH_MISMATCH"} :
     IF c = "VECTOR_HASH_MISMATCH"
     THEN e.vector_hash # None /\ o.vector_hashes # {} /\ e.vector_hash \notin o.vector_hashes
     ELSE e.dimension # None /\ o.dimensions # {} /\ e.dimension \notin o.dimensions}

TenantCode(e, o) ==
  IF e.tenant = None \/ o.tenant = e.tenant THEN {}
  ELSE IF o.tenant = None THEN {"TENANT_MISSING"} ELSE {"TENANT_MISMATCH"}

\* Mutant: an empty expected ACL is taken for none declared
AclCode_empty_undeclared(e, o) ==
  IF e.acl \in {NoAcl, {}} \/ o.acl = e.acl THEN {}
  ELSE IF o.acl = {} THEN {"ACL_MISSING"}
  ELSE IF o.acl \subseteq e.acl THEN {"ACL_MISMATCH"} ELSE {"ACL_BROADER_THAN_SOURCE"}

AclCode(e, o) ==
  IF e.acl = NoAcl \/ o.acl = e.acl THEN {}
  ELSE IF o.acl = {} THEN {"ACL_MISSING"}
  ELSE IF o.acl \subseteq e.acl THEN {"ACL_MISMATCH"} ELSE {"ACL_BROADER_THAN_SOURCE"}

\* The catch-all, unless something more telling was found
DriftCode(pair, sources) ==
  LET e == pair.expected
      o == pair.observed
  IN IF e.payload_hash # o.payload_hash
        /\ StaleCode(pair, sources) \cup AclCode(e, o) \cup TenantCode(e, o) = {}
     THEN {"PAYLOAD_DRIFT"} ELSE {}

\* _pii_violates over the chunk's scan: a scan result is a type and whether
\* its confidence is above max_confidence_allowed and above 0.9
pii_policy_findings(e, policy) ==
  {[build_finding("PII_POLICY_VIOLATION", e.binding_id, p.type) EXCEPT
      !.severity = IF p.certain THEN Critical ELSE High] :
     p \in {p \in e.pii : /\ policy.given /\ policy.pii /\ p.above
                          /\ \/ p.type \in policy.pii_deny
                             \/ policy.pii_allow # {} /\ p.type \notin policy.pii_allow}}

\* The license asserted by the method that counts most, a lower rank first
license_policy_findings(e, policy) ==
  LET effective == CHOOSE l \in e.licenses : \A k \in e.licenses : l.rank <= k.rank
      found(code, severity) ==
        {[build_finding(code, e.binding_id, "license") EXCEPT !.severity = severity]}
  IN IF ~policy.given \/ ~policy.licenses \/ e.licenses = {} THEN {}
     ELSE IF effective.spdx = "NOASSERTION"
          THEN IF policy.unknown = "allow" THEN {}
               ELSE found("LICENSE_UNKNOWN", IF policy.unknown = "fail" THEN High ELSE Medium)
     ELSE IF \/ effective.spdx \in policy.license_deny
             \/ policy.license_allow # {} /\ effective.spdx \notin policy.license_allow
          THEN found("LICENSE_POLICY_VIOLATION", High)
     ELSE {}

Codes(pair, sources) ==
  StaleCode(pair, sources) \cup VectorCodes(pair.expected, pair.observed)
    \cup TenantCode(pair.expected, pair.observed) \cup AclCode(pair.expected, pair.observed)
    \cup DriftCode(pair, sources)

\* _compare_matched_pair
compare_matched_pair(pair, sources, policy) ==
  LET e == pair.expected
      located == {[build_finding(c, e.binding_id, "pair") EXCEPT !.binding_id = e.binding_id] :
                    c \in Codes(pair, sources)}
      pii == {[f EXCEPT !.binding_id = e.binding_id] : f \in pii_policy_findings(e, policy)}
  IN {[f EXCEPT !.point_id = pair.observed.point_id] :
        f \in located \cup pii \cup license_policy_findings(e, policy)}

-----------------------------------------------------------------------------
(* Everything else                                                         *)

classify_missing(e) ==
  [build_finding("MISSING_IN_INDEX", e.binding_id, "point_id") EXCEPT
     !.binding_id = e.binding_id, !.point_id = e.point_id]

\* The code of a point nothing expects
OrphanCode(o, sources) ==
  IF {o.embedding_id, o.chunk_id, o.source_id, o.source_version_id} = {None}
  THEN "UNVERIFIABLE_POINT"
  ELSE IF o.source_id # None
       THEN IF o.source_id \notin DOMAIN sources THEN "ORPHAN_IN_INDEX"
            ELSE IF o.source_version_id # None /\ o.source_version_id # sources[o.source_id]
                 THEN "STALE_SOURCE" ELSE "STALE_CHUNKING"
  ELSE IF o.chunk_id # None \/ o.embedding_id # None THEN "SOURCE_METADATA_MISSING"
  ELSE "ORPHAN_IN_INDEX"

classify_orphan(o, sources) ==
  [build_finding(OrphanCode(o, sources), o.point_id, "orphan") EXCEPT
     !.point_id = o.point_id, !.row = o.row]

\* A group of observed points: its level and key
duplicate_finding(group) ==
  build_finding(IF group.level = POINT_ID THEN "DUPLICATE_POINT_ID" ELSE "DUPLICATE_CONTENT",
                group.key, group.level)

\* The manifest and snapshot as a whole
WholeFindings(in) ==
  {build_finding(c, None, "whole") :
     c \in {c \in {"MANIFEST_INCOMPLETE", "SNAPSHOT_INCOMPLETE"} :
              IF c = "MANIFEST_INCOMPLETE" THEN in.manifest.status # "complete"
              ELSE in.completeness = "incomplete"}}

StaleCodes == {"STALE_SOURCE", "STALE_PARSE", "STALE_CHUNKING"}
AclCodes   == {"ACL_MISSING", "ACL_BROADER_THAN_SOURCE", "ACL_MISMATCH"}

\* _finalize
finalize(in, expected, outcome) ==
  LET sources  == in.manifest.sources
      pairs    == Members(outcome.matched)
      orphans  == {classify_orphan(o, sources) : o \in Members(outcome.orphan)}
      stale    == {p \in pairs : Codes(p, sources) \cap StaleCodes # {}}
      required == {p \in pairs : p.expected.acl \notin {NoAcl, {}}}
      comply   == {p \in required : Codes(p, sources) \cap AclCodes = {}}
      observed == Len(in.observed)
  IN [findings |-> (UNION {compare_matched_pair(p, sources, in.policy) : p \in pairs})
                     \cup {classify_missing(e) : e \in Members(outcome.missing)} \cup orphans
                     \cup {duplicate_finding(g) : g \in outcome.duplicates} \cup WholeFindings(in),
      lineage  |-> <<observed - Cardinality({f \in orphans : f.code = "UNVERIFIABLE_POINT"}), observed>>,
      missing  |-> <<Len(outcome.missing), Len(expected)>>,
      orphan   |-> <<Len(outcome.orphan), observed>>,
      stale    |-> <<Cardinality(stale), Cardinality(pairs)>>,
      acl      |-> <<Cardinality(comply), Cardinality(required)>>,
      kind |-> in.kind, completeness |-> in.completeness,
      signed |-> in.manifest.signed, short_circuited |-> FALSE]

\* _preflight_schema_check: no dimension in common
preflight_fails(in, expected) ==
  LET dims == {e.dimension : e \in Members(expected)} \ {None}
  IN dims # {} /\ in.schema # {} /\ dims \cap in.schema = {}

\* _short_circuit_result
short_circuit_result(in) ==
  [findings |-> {build_finding("EMBEDDING_DIMENSION_MISMATCH", None, "dimension")},
   lineage |-> <<0, 0>>, missing |-> <<0, 0>>, orphan |-> <<0, 0>>, stale |-> <<0, 0>>, acl |-> <<0, 0>>,
   kind |-> in.kind, completeness |-> "incomplete",
   signed |-> in.manifest.signed, short_circuited |-> TRUE]

-----------------------------------------------------------------------------
(* evaluate_policy                                                         *)

Unset == -1

Gate(ok) == {IF ok THEN "PASS" ELSE "FAIL"}

\* A minimum on a ratio that does not apply is inconclusive, a maximum is void
AtLeast(r, min) ==
  IF min = Unset THEN {}
  ELSE IF r[2] = 0 THEN {"INCONCLUSIVE"} ELSE Gate(100 * r[1] >= min * r[2])

AtMost(r, max) == IF max = Unset \/ r[2] = 0 THEN {} ELSE Gate(100 * r[1] <= max * r[2])

evaluate_requirements(p, r) ==
  (IF p.signature_required THEN Gate(r.signed) ELSE {})
    \cup (IF p.full_required THEN Gate(r.kind = "full" /\ r.completeness = "complete") ELSE {})
    \cup AtLeast(r.lineage, p.lineage_min)

evaluate_findings_severity(p, r) ==
  LET any(S) == \E f \in r.findings : f.severity \in S
  IN Gate(~any(p.fail_on)) \cup (IF any(p.warn_on) THEN {"WARN"} ELSE {})

evaluate_licenses(p, r) ==
  IF p.licenses /\ p.unknown \in {"fail", "warn"} /\ \E f \in r.findings : f.code = "LICENSE_UNKNOWN"
  THEN {IF p.unknown = "fail" THEN "FAIL" ELSE "WARN"} ELSE {}

evaluate_drift(p, r) ==
  AtMost(r.stale, p.stale_max) \cup AtMost(r.orphan, p.orphan_max) \cup AtMost(r.missing, p.missing_max)

\* The number of selected findings against the threshold.  A severity rule
\* uses its threshold twice, as the least rank and as the number.
evaluate_rule(rule, r) ==
  LET chosen == {f \in r.findings :
                   /\ rule.codes # {} => f.code \in rule.codes
                   /\ rule.category = "severity" /\ rule.codes = {} /\ rule.threshold # Unset
                        => f.severity >= rule.threshold}
      value     == Cardinality(chosen)
      threshold == IF rule.threshold = Unset THEN 0 ELSE rule.threshold
      violated  == CASE rule.comparator = "lt"  -> value < threshold
                     [] rule.comparator = "lte" -> value <= threshold
                     [] rule.comparator = "gt"  -> value > threshold
                     [] rule.comparator = "gte" -> value >= threshold
                     [] rule.comparator = "eq"  -> value = threshold
  IN {IF violated THEN rule.verdict_on_violation ELSE "PASS"}

Gates(p, r) ==
  evaluate_requirements(p, r) \cup evaluate_findings_severity(p, r) \cup evaluate_licenses(p, r)
    \cup AtLeast(r.acl, p.acl_min) \cup evaluate_drift(p, r)
    \cup UNION {evaluate_rule(rule, r) : rule \in p.rules}

\* _worse over all of them
Worst(verdicts) ==
  IF "FAIL" \in verdicts THEN "FAIL"
  ELSE IF "INCONCLUSIVE" \in verdicts THEN "INCONCLUSIVE"
  ELSE IF "WARN" \in verdicts THEN "WARN" ELSE "PASS"

\* Without a policy the verdict is PASS
evaluate_policy(p, r) == IF p.given THEN Worst(Gates(p, r)) ELSE "PASS"

exit_code_for(verdict) == CASE verdict = "INCONCLUSIVE" -> 2 [] verdict = "FAIL" -> 1 [] OTHER -> 0

-----------------------------------------------------------------------------
(* build_remediation_plan                                                  *)

\* Mutant: drifted points are deleted to be written again
action_for_delete_drift(code) ==
  CASE code \in {"ORPHAN_IN_INDEX", "SOURCE_METADATA_MISSING", "PAYLOAD_DRIFT"} -> "delete_point_candidate"
    [] OTHER -> "review_required"

action_for(code) ==
  CASE code \in {"MISSING_IN_INDEX", "STALE_SOURCE", "STALE_PARSE", "STALE_CHUNKING",
                 "EMBEDDING_MODEL_MISMATCH"} -> "reindex_source"
    [] code \in {"ORPHAN_IN_INDEX", "DUPLICATE_POINT_ID", "DUPLICATE_CONTENT"} -> "delete_point_candidate"
    [] code \in {"PAYLOAD_DRIFT", "ACL_MISMATCH", "TENANT_MISMATCH", "ACL_MISSING",
                 "TENANT_MISSING", "ACL_BROADER_THAN_SOURCE"} -> "update_payload_candidate"
    [] code \in {"EMBEDDING_DIMENSION_MISMATCH", "TARGET_SCHEMA_DRIFT",
                 "MANIFEST_INCOMPLETE"} -> "full_rebuild_required"
    [] OTHER -> "review_required"

\* A binding if the finding has one, else its point
candidate_id(f) ==
  IF f.binding_id # None THEN {<<"binding", f.binding_id>>}
  ELSE IF f.point_id # None THEN {<<"point", f.point_id>>} ELSE {}

\* One action per code
build_remediation_plan(findings) ==
  {[code |-> c, action |-> action_for(c),
    candidates |-> UNION {candidate_id(f) : f \in {f \in findings : f.code = c}}] :
     c \in {f.code : f \in findings}}

=============================================================================
