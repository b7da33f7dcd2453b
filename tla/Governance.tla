----------------------------- MODULE Governance -----------------------------
(***************************************************************************)
(* The assertions a build makes about one source before its chunks         *)
(* (governance/acl.py, governance/license.py, called by _process_source of *)
(* pipeline/build.py in this order): access control entries, tenant,       *)
(* licenses.  Each step resolves declarative configuration for the         *)
(* source's path: what is stated for the path itself, else the first path  *)
(* rule that matches.  The SPDX validator reads its tokens one by one.     *)
(*                                                                         *)
(* An entry is a prefix and a principal; "A" and "a" are one principal in  *)
(* two cases.  A license expression is "mit", "apache" (two that           *)
(* validate) or "bad" (one that does not).                                 *)
(***************************************************************************)
EXTENDS Naturals, Sequences, FiniteSets

CONSTANTS
  EntrySets,     \* the entry sets a configuration may state
  Expressions,   \* the license expressions a candidate may state
  MaxSpdx        \* bound: tokens of an expression

ASSUME SpdxAssumption == MaxSpdx \in Nat

VARIABLES
  asserting,     \* "acl", "tenant", "license", "spdx", "asserted", "raised"
  acl,           \* the assertion made: its entries, {NoEntry} when there is none
  tenant,        \* the tenant declared, and whether a warning was recorded
  licenses,      \* the license assertions of the source
  stated,        \* history: license expression stated per method
  spdx,          \* the tokens read
  depth, expect_operand, verdict

licenseVars == <<licenses, stated>>
spdxVars == <<spdx, depth, expect_operand, verdict>>
governanceVars == <<asserting, acl, tenant, licenseVars, spdxVars>>

None == "none"
NoEntry == [prefix |-> None, id |-> None]
NOASSERTION == "NOASSERTION"

Methods == {"user_assertion", "sidecar", "frontmatter", "path_rule", "repository_default"}

_PRECEDENCE ==
  [user_assertion |-> 0, sidecar |-> 1, frontmatter |-> 2, path_rule |-> 3, repository_default |-> 4]

GovernanceInit ==
  /\ asserting \in {"acl", "spdx"}
  /\ acl = {NoEntry}
  /\ tenant = [value |-> None, warned |-> FALSE]
  /\ licenses = {}
  /\ stated = [m \in Methods |-> None]
  /\ spdx = <<>>
  /\ depth = 0
  /\ expect_operand = TRUE
  /\ verdict = "open"

\* What is stated for the path, else what the first matching rule states;
\* nothing stated is not the same as stated to be empty
Resolve(direct, rule, none) == IF direct # none THEN direct ELSE rule

-----------------------------------------------------------------------------
(* Access control entries *)

validate_acl_entry(e) == e.prefix \in {"PUBLIC", "USER:", "GROUP:"}

\* str.lower folds the whole entry, its prefix too
lower(e) ==
  [prefix |-> CASE e.prefix = "PUBLIC" -> "public" [] e.prefix = "USER:" -> "user:"
               [] e.prefix = "GROUP:" -> "group:" [] OTHER -> e.prefix,
   id     |-> IF e.id = "A" THEN "a" ELSE e.id]

\* A set of entries that all validate, folded if the configuration says so
normalize_acl_entries(entries, fold) == IF fold THEN {lower(e) : e \in entries} ELSE entries

AllValid(entries) == \A e \in entries : validate_acl_entry(e)

\* expected_acl_entries normalizes what is configured, build_acl_assertion
\* normalizes the result again; a set that does not validate raises, so
\* entries that were folded once always do
assert_acl ==
  /\ asserting = "acl"
  /\ \E direct \in EntrySets \cup {{NoEntry}}, rule \in EntrySets \cup {{NoEntry}}, fold \in BOOLEAN :
       LET entries == Resolve(direct, rule, {NoEntry})
           expected == normalize_acl_entries(entries, fold) IN
       \/ /\ entries = {NoEntry}
          /\ asserting' = "tenant"
          /\ UNCHANGED acl
       \/ /\ entries # {NoEntry}
          /\ AllValid(entries) /\ AllValid(expected)
          /\ asserting' = "tenant"
          /\ acl' = normalize_acl_entries(expected, fold)
       \/ /\ entries # {NoEntry}
          /\ ~AllValid(entries) \/ ~AllValid(expected)
          /\ asserting' = "raised"
          /\ UNCHANGED acl
  /\ UNCHANGED <<tenant, licenseVars, spdxVars>>

\* expected_tenant, and the warning when one is required and there is none
assert_tenant ==
  /\ asserting = "tenant"
  /\ \E direct \in {"t1", None}, rule \in {"t2", None}, required \in BOOLEAN :
       LET value == Resolve(direct, rule, None) IN
       tenant' = [value |-> value, warned |-> required /\ value = None]
  /\ asserting' = "license"
  /\ UNCHANGED <<acl, licenseVars, spdxVars>>

-----------------------------------------------------------------------------
(* Licenses *)

\* An expression that validate_spdx_expression refuses is NOASSERTION
Validated(x) == IF x = "bad" THEN NOASSERTION ELSE x

\* gather_candidates: at most one candidate per method; a declared license
\* hides the header, the first matching rule the later ones
Candidates(s) == {m \in Methods : s[m] # None}

\* Mutant: only the lower-ranked ones are told of the conflict
Assertions_hide(s) ==
  LET plain == IF Candidates(s) = {} THEN {<<"repository_default", NOASSERTION>>}
               ELSE {<<m, Validated(s[m])>> : m \in Candidates(s)}
      above(a) == {b \in plain : _PRECEDENCE[b[1]] < _PRECEDENCE[a[1]] /\ b[2] # a[2]} IN
  {[method |-> a[1], expression |-> a[2], conflicting |-> above(a)] : a \in plain}

\* One assertion per candidate, NOASSERTION when there is no candidate; if
\* they disagree, every one lists all the others
Assertions(s) ==
  LET plain == IF Candidates(s) = {} THEN {<<"repository_default", NOASSERTION>>}
               ELSE {<<m, Validated(s[m])>> : m \in Candidates(s)}
      disagree == Cardinality({a[2] : a \in plain}) > 1 IN
  {[method |-> a[1], expression |-> a[2], conflicting |-> IF disagree THEN plain \ {a} ELSE {}] : a \in plain}

\* evaluate_license, as the build calls it: it passes no sidecar
evaluate_license ==
  /\ asserting = "license"
  /\ \E user, declared, header, rule, default \in Expressions \cup {None} :
       stated' = [user_assertion |-> user, sidecar |-> None,
                  frontmatter |-> Resolve(declared, header, None),
                  path_rule |-> rule, repository_default |-> default]
  /\ licenses' = Assertions(stated')
  /\ asserting' = "asserted"
  /\ UNCHANGED <<acl, tenant, spdxVars>>

\* The one the source refers to
effective == CHOOSE a \in licenses : \A b \in licenses : _PRECEDENCE[a.method] <= _PRECEDENCE[b.method]

-----------------------------------------------------------------------------
(* validate_spdx_expression, over the tokens the expression is made of *)

Tokens == {"(", ")", "AND", "id", "unknown"}

\* The token fits what was read so far
Accept(k) ==
  \/ k = "(" /\ expect_operand /\ depth' = depth + 1 /\ UNCHANGED expect_operand
  \/ k = ")" /\ ~expect_operand /\ depth > 0 /\ depth' = depth - 1 /\ UNCHANGED expect_operand
  \/ k = "AND" /\ ~expect_operand /\ expect_operand' = TRUE /\ UNCHANGED depth
  \/ k = "id" /\ expect_operand /\ expect_operand' = FALSE /\ UNCHANGED depth

Fits(k) ==
  \/ k \in {"(", "id"} /\ expect_operand
  \/ k = ")" /\ ~expect_operand /\ depth > 0
  \/ k = "AND" /\ ~expect_operand

\* One turn of the loop: a token that does not fit refuses the expression
read_token(k) ==
  /\ asserting = "spdx"
  /\ verdict \in {"open", "refused"}
  /\ Len(spdx) < MaxSpdx
  /\ spdx' = Append(spdx, k)
  /\ \/ verdict = "open" /\ Accept(k) /\ UNCHANGED verdict
     \/ verdict = "open" /\ ~Fits(k) /\ verdict' = "refused" /\ UNCHANGED <<depth, expect_operand>>
     \/ verdict = "refused" /\ UNCHANGED <<depth, expect_operand, verdict>>
  /\ UNCHANGED <<asserting, acl, tenant, licenseVars>>

\* The end of the expression
end_expression ==
  /\ asserting = "spdx"
  /\ verdict = "open"
  /\ verdict' = IF depth = 0 /\ ~expect_operand THEN "valid" ELSE "invalid"
  /\ UNCHANGED <<asserting, acl, tenant, licenseVars, spdx, depth, expect_operand>>

validate_spdx_expression == (\E k \in Tokens : read_token(k)) \/ end_expression

GovernanceNext == assert_acl \/ assert_tenant \/ evaluate_license \/ validate_spdx_expression

GovernanceSpec == GovernanceInit /\ [][GovernanceNext]_governanceVars

-----------------------------------------------------------------------------
(* Properties *)

\* An expression in parentheses, and two with an operator between them
Enclosed(S)  == {<<"(">> \o x \o <<")">> : x \in S}
Joined(S, T) == {p[1] \o <<"AND">> \o p[2] : p \in S \X T}

\* The expressions of n tokens: an identifier, or made of shorter ones
Grammar[n \in 0..MaxSpdx] ==
  IF n = 0 THEN {}
  ELSE (IF n = 1 THEN {<<"id">>} ELSE {})
    \cup (IF n < 3 THEN {} ELSE Enclosed(Grammar[n - 2]))
    \cup UNION {Joined(Grammar[k], Grammar[n - 1 - k]) : k \in 1..(n - 2)}

\* The one-pass validator with a depth and a flag accepts exactly the
\* expressions of the grammar, and refuses early only what no continuation
\* could repair.
SpdxIsTheGrammar ==
  /\ verdict = "valid" => spdx \in Grammar[Len(spdx)]
  /\ verdict \in {"invalid", "refused"} => spdx \notin Grammar[Len(spdx)]

\* A conflict is never silently resolved: the assertion the source refers to
\* is the one of the most trusted method that stated a license, and it lists
\* every other assertion whenever two of them disagree, each of which lists
\* it in turn.
LicensesAreResolved ==
  asserting = "asserted" =>
    /\ \A m \in Candidates(stated) : _PRECEDENCE[effective.method] <= _PRECEDENCE[m]
    /\ effective.expression = (IF Candidates(stated) = {} THEN NOASSERTION ELSE Validated(stated[effective.method]))
    /\ \A a, b \in licenses : a.expression # b.expression =>
         <<b.method, b.expression>> \in a.conflicting
    /\ (\E a \in licenses : a.conflicting # {}) => Cardinality({a.expression : a \in licenses}) > 1

\* What a build asserts about a source: entries that validate (or it raises),
\* a license expression the grammar accepts, and no conflict left out.
AssertionsAreSound ==
  /\ acl # {NoEntry} => AllValid(acl)
  /\ SpdxIsTheGrammar
  /\ LicensesAreResolved

=============================================================================
