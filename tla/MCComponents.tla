---------------------------- MODULE MCComponents ----------------------------
(***************************************************************************)
(* The parts a build is made of that keep no state in common, checked      *)
(* side by side: the artifact store, the stage cache, the chunkers, the    *)
(* governance assertions and the PII scan.  A behaviour is a behaviour of  *)
(* one of them, named by part; the others stay in a fixed initial state.   *)
(***************************************************************************)
EXTENDS ArtifactStore, StageCache, Chunker, Governance, PiiScan

VARIABLE part

allVars == <<part, vars, cacheVars, chunkVars, governanceVars, piiVars>>

\* The entries a configuration may state: none, everybody, one principal in
\* two cases, and a prefix that is refused
Entry(p, i) == [prefix |-> p, id |-> i]
MCEntrySets == {{}, {Entry("PUBLIC", None)}, {Entry("USER:", "A"), Entry("USER:", "a")}, {Entry("DENY:", "a")}}

\* Stage 1 parses: its text's length depends on the time it took; 2 chunks
MCLengths == <<{2, 3}, {2}>>

-----------------------------------------------------------------------------
AtRest(p) ==
  /\ p # "artifacts" => digest = [w \in Writers |-> CHOOSE d \in Digests : TRUE]
  /\ p # "chunker" => chunker = "hybrid" /\ size = [max_tokens |-> 2, overlap_tokens |-> 0, oversized |-> "split"]
  /\ p # "governance" => asserting = "acl"
  /\ p # "pii" => mainThread = TRUE /\ bounded = [r \in 1..NRecognizers |-> TRUE] /\ matches = [s \in Scans |-> {}]

MCInit ==
  /\ part \in {"artifacts", "cache", "chunker", "governance", "pii"}
  /\ AtRest(part)
  /\ Init /\ CacheInit /\ ChunkInit /\ GovernanceInit /\ PiiInit

MCNext ==
  \/ /\ part = "artifacts"
     /\ Next
     /\ UNCHANGED <<part, cacheVars, chunkVars, governanceVars, piiVars>>
  \/ /\ part = "cache"
     /\ CacheNext
     /\ UNCHANGED <<part, vars, chunkVars, governanceVars, piiVars>>
  \/ /\ part = "chunker"
     /\ ChunkNext
     /\ UNCHANGED <<part, vars, cacheVars, governanceVars, piiVars>>
  \/ /\ part = "governance"
     /\ GovernanceNext
     /\ UNCHANGED <<part, vars, cacheVars, chunkVars, piiVars>>
  \/ /\ part = "pii"
     /\ PiiNext
     /\ UNCHANGED <<part, vars, cacheVars, chunkVars, governanceVars>>

\* StageCache's fairness, for the behaviours that are the cache's
BuildersRun ==
  \A b \in Builders :
    WF_allVars(part = "cache" /\ (cache_get(b) \/ cache_put(b))
                 /\ UNCHANGED <<part, vars, chunkVars, governanceVars, piiVars>>)

MCSpec == MCInit /\ [][MCNext]_allVars /\ BuildersRun

=============================================================================
