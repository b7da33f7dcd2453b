------------------------------ MODULE Matching ------------------------------
(***************************************************************************)
(* reconcile/matching.py without its join loop: expected points from a     *)
(* manifest, the key of a point at each closing level, and the order in    *)
(* which points are sorted.  Levels 4 and 5 only suggest, and nothing      *)
(* reads the suggestions, so they are left out.                            *)
(*                                                                         *)
(* Ids of every kind are positive numbers, in the order of the strings     *)
(* they stand for, and None is 0.  An ACL is a set of principals.          *)
(***************************************************************************)
EXTENDS Integers, Sequences, FiniteSets

None  == 0
NoAcl == {None}      \* no ACL declared, as opposed to an empty one

Members(s) == {s[i] : i \in DOMAIN s}

\* f.get(k)
Lookup(f, k, default) == IF k \in DOMAIN f THEN f[k] ELSE default

NoEmbedding == [chunk |-> None, dimension |-> None, vector_hash |-> None]
NoChunk     == [version |-> None, pii |-> {}, licenses |-> {}]

\* The binding joined with what the manifest knows of its embedding, chunk
\* and source.  manifest.versions gives a version's source id.
ExpectedPoint(manifest, b) ==
  LET embedding == Lookup(manifest.embeddings, b.embedding_id, NoEmbedding)
      chunk     == Lookup(manifest.chunks, embedding.chunk, NoChunk)
      known     == embedding.chunk \in DOMAIN manifest.chunks
      source    == Lookup(manifest.versions, chunk.version, None)
  IN [binding_id |-> b.id, point_id |-> b.point_id, embedding_id |-> b.embedding_id,
      dimension |-> embedding.dimension, vector_hash |-> embedding.vector_hash,
      chunk_id |-> IF known THEN embedding.chunk ELSE None,
      source_id |-> source,
      source_version_id |-> IF source = None THEN None ELSE chunk.version,
      payload_hash |-> b.payload_hash, tenant |-> b.tenant, acl |-> b.acl,
      pii |-> chunk.pii, licenses |-> chunk.licenses]

\* Bindings of other targets are left out
resolve_expected_points(manifest) ==
  LET mine   == {i \in DOMAIN manifest.bindings : manifest.bindings[i].here}
      nth(k) == CHOOSE i \in mine : Cardinality({j \in mine : j <= i}) = k
  IN [k \in 1..Cardinality(mine) |-> ExpectedPoint(manifest, manifest.bindings[nth(k)])]

-----------------------------------------------------------------------------
POINT_ID == 1
EMBEDDING_ID == 2
CHUNK_ID == 3

CLOSING_LEVELS == {POINT_ID, EMBEDDING_ID, CHUNK_ID}

\* expected_key and observed_key
key(level, item) ==
  CASE level = POINT_ID     -> item.point_id
    [] level = EMBEDDING_ID -> item.embedding_id
    [] level = CHUNK_ID     -> item.chunk_id

\* The order of expected_sort_key and observed_sort_key: None last
sorts_before(level, a, b) ==
  key(level, a) # None /\ (key(level, b) = None \/ key(level, a) < key(level, b))

\* Python's sorted: stable
sorted(level, s) ==
  LET place(i) == Cardinality({j \in DOMAIN s :
                     \/ sorts_before(level, s[j], s[i])
                     \/ j <= i /\ ~sorts_before(level, s[i], s[j])})
  IN [k \in DOMAIN s |-> s[CHOOSE i \in DOMAIN s : place(i) = k]]

=============================================================================
