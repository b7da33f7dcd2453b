----------------------------- MODULE MCRegistry -----------------------------
(* An instance of Registry for TLC: scenes of operations that meet in the    *)
(* same rows.                                                                *)
EXTENDS Registry, TLC

Calls(n, ops) == [ops |-> ops, calls |-> n]

MCScenes ==
  { Calls(3, {"auth.bootstrap", "api_token.create", "api_token.revoke"}),
    Calls(3, {"api_token.create", "api_token.revoke", "workspace.update"}),
    Calls(3, {"policy.create", "policy.revise", "reconciliation.create"}),
    Calls(2, {"policy.revise", "reconciliation.create", "reconciliation.evaluate", "reconciliation.plan"}),
    Calls(3, {"target.create", "target.update", "target.delete"}),
    Calls(3, {"target.delete", "snapshot.create", "reconciliation.create"}),
    Calls(3, {"build.create", "manifest.sign", "manifest.verify"}),
    Calls(3, {"source_collection.create", "pipeline_config.create", "build.create"}),
    Calls(2, {"source_collection.scan"}) }

MCOps == UNION {s.ops : s \in MCScenes}

MCEndpoints == {"pub1", "pub2", "priv", "metadata"}

MCResolves ==
  [e \in MCEndpoints |->
     CASE e = "priv"     -> {"public", "private_listed"}
       [] e = "metadata" -> {"public", "blocked"}
       [] OTHER          -> {"public"}]

\* One capture agrees with every manifest; the other misses two chunks
MCFound == [x \in Hashes \X Captures |-> IF x[2] = "same" THEN {} ELSE {"f1", "f2"}]

MCVerdict ==
  [x \in Documents \X {0, 1} |->
     CASE x = <<"d1", 0>> -> "PASS"
       [] x = <<"d1", 1>> -> "FAIL"
       [] x = <<"d2", 0>> -> "INCONCLUSIVE"
       [] OTHER -> "WARN"]

RequestSymmetry == Permutations(Requests)
=============================================================================
