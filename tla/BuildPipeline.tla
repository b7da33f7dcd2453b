---------------------------- MODULE BuildPipeline ----------------------------
(***************************************************************************)
(* Builds of one source tree, one after the other, over one stage cache:   *)
(* pipeline/discovery.py lists and hashes the files, pipeline/build.py     *)
(* reads each file again, parses, chunks and embeds it through the cache   *)
(* and assembles the manifest.  The tree's owner edits files at any time,  *)
(* a sandboxed parser may time out or die, the embedding provider may      *)
(* fail, and a build may be killed.                                        *)
(*                                                                         *)
(* A content stands for a file's bytes and for their hash, a document for  *)
(* its sequence of texts, a text for a chunk with its context and for its  *)
(* hash, a vector for the text it embeds.  Hashes are taken as injective.  *)
(* The cache is a map here; StageCache models its files.                   *)
(***************************************************************************)
EXTENDS Naturals, Sequences, FiniteSets

CONSTANTS
  Files,       \* paths a file may have, as numbers in URI order
  Contents,    \* what a file may contain
  Gone,        \* no file under that path
  ParseOf,     \* per content: what the parser makes of it
  Parseable,   \* pairs <<file, content>> whose media type has a parser
  TooLarge,    \* contents above max_file_bytes
  Blank,       \* a text with nothing but white space
  Blocked,     \* texts with an entity type the PII policy blocks
  MaxEdits,    \* bound: edits of the tree
  MaxBuilds    \* bound: builds

Fail == [status |-> "fail", document |-> <<>>]

ASSUME TreeAssumption ==
  /\ Files \subseteq Nat /\ IsFiniteSet(Files)
  /\ Gone \notin Contents /\ Parseable \subseteq Files \X Contents /\ TooLarge \subseteq Contents

\* The texts the parser may produce
Texts == UNION {{ParseOf[c].document[i] : i \in 1..Len(ParseOf[c].document)} : c \in Contents}

ASSUME ParseAssumption ==
  \A c \in Contents :
    /\ ParseOf[c] = Fail \/ ParseOf[c].status = "success"
    /\ ParseOf[c].document \in Seq(Texts)
ASSUME BuildBounds == MaxEdits \in Nat /\ MaxBuilds \in Nat

VARIABLES
  tree,        \* per file: its content, or Gone
  stamp,       \* per file: size and modification time, as a version number
  edits,
  parseCache, chunkCache, embedCache,   \* stage cache entries, by key
  store,       \* raw bytes in the artifact store
  pc,          \* where the build is
  todo,        \* files the current pass over the sources has still to do
  found,       \* per discovered file: its content_hash
  before,      \* the stat taken before hashing
  attempt,     \* failed tries of the current stat pair or embedding call
  bytes,       \* what the current source's file held when it was read
  chunks,      \* the current source's chunks that await their embedding
  draft,       \* _BuildState
  manifest,    \* the last build's manifest
  previous,    \* previous_sources: active files of an earlier manifest
  builds,
  calm,        \* history: since the build began no file was edited and
               \* no parser was stopped
  suspect      \* history: hashes a source's file did not match when it was
               \* read, and hashes whose parser was stopped by the sandbox

treeVars   == <<tree, stamp, edits>>
cacheVars  == <<parseCache, chunkCache, embedCache, store>>
buildVars  == <<pc, todo, found, before, attempt, bytes, chunks, draft>>
resultVars == <<manifest, previous, builds, calm, suspect>>
vars == <<treeVars, cacheVars, buildVars, resultVars>>

None == <<>>    \* the function with an empty domain

Put(f, k, v) == [x \in DOMAIN f \cup {k} |-> IF x = k THEN v ELSE f[x]]

EmptyDraft ==
  [raw |-> None, parse |-> None, chunks |-> {}, embeddings |-> {},
   warned |-> {}, quality |-> {}]

EmptyManifest ==
  [sources |-> None, duplicate_of |-> None, tombstones |-> {}, status |-> "none"]

Init ==
  /\ tree \in [Files -> Contents \cup {Gone}]
  /\ stamp = [f \in Files |-> 0]
  /\ edits = 0
  /\ parseCache = None /\ chunkCache = None /\ embedCache = None
  /\ store = {}
  /\ pc = "idle"
  /\ todo = {} /\ found = None /\ before = 0 /\ attempt = 0
  /\ bytes = Gone /\ chunks = <<>> /\ draft = EmptyDraft
  /\ manifest = EmptyManifest /\ previous = {}
  /\ builds = 0 /\ calm = TRUE /\ suspect = {}

-----------------------------------------------------------------------------
\* The tree's owner writes, replaces or removes a file
Edit(f, c) ==
  /\ edits < MaxEdits
  /\ tree[f] # c
  /\ tree'  = [tree EXCEPT ![f] = c]
  /\ stamp' = [stamp EXCEPT ![f] = @ + 1]
  /\ edits' = edits + 1
  /\ calm' = FALSE
  /\ UNCHANGED <<cacheVars, buildVars, manifest, previous, builds, suspect>>

Busy == pc \notin {"idle", "done", "raised"}

\* What a build holds in memory is gone
Forget ==
  /\ todo' = {} /\ found' = None /\ before' = 0 /\ attempt' = 0
  /\ bytes' = Gone /\ chunks' = <<>> /\ draft' = EmptyDraft

\* An exception nothing catches: the build has no result
Raise ==
  /\ pc' = "raised"
  /\ Forget
  /\ UNCHANGED <<treeVars, cacheVars, resultVars>>

\* The process is killed, or a file operation fails
Killed == Busy /\ Raise

\* build_pipeline is called, with or without an earlier manifest's sources
build_pipeline ==
  /\ ~Busy
  /\ builds < MaxBuilds
  /\ builds' = builds + 1
  /\ \E prev \in {{}, DOMAIN manifest.sources} : previous' = prev
  /\ pc' = "walk"
  /\ calm' = TRUE
  /\ UNCHANGED <<treeVars, cacheVars, todo, found, before, attempt, bytes, chunks, draft, manifest, suspect>>

\* _walk_files: the names that are there now
walk_files ==
  /\ pc = "walk"
  /\ todo' = {f \in Files : tree[f] # Gone}
  /\ pc' = IF todo' = {} THEN "finish" ELSE "stat"
  /\ UNCHANGED <<treeVars, cacheVars, resultVars, found, before, attempt, bytes, chunks, draft>>

\* The file the loop is at: records are in URI order
cur == CHOOSE f \in todo : \A g \in todo : f <= g

\* _build_source_record: the stat before hashing
stat_before ==
  /\ pc = "stat"
  /\ tree[cur] \in Contents \ TooLarge
  /\ before' = stamp[cur]
  /\ pc' = "hash"
  /\ UNCHANGED <<treeVars, cacheVars, resultVars, todo, found, attempt, bytes, chunks, draft>>

\* The file is too large, or not there any more
stat_raises ==
  /\ \/ pc \in {"stat", "hash"} /\ tree[cur] = Gone
     \/ pc = "stat" /\ tree[cur] \in TooLarge
  /\ Raise

\* Hashed, and the stat after it agrees.  The last file ends the discovery.
hash_streaming ==
  /\ pc = "hash"
  /\ tree[cur] # Gone
  /\ before = stamp[cur]
  /\ found' = Put(found, cur, tree[cur])
  /\ attempt' = 0
  /\ IF todo = {cur}
     THEN pc' = "read" /\ todo' = DOMAIN found'
     ELSE pc' = "stat" /\ todo' = todo \ {cur}
  /\ UNCHANGED <<treeVars, cacheVars, resultVars, before, bytes, chunks, draft>>

\* The stats differ: hash again, once
hash_again ==
  /\ pc = "hash"
  /\ tree[cur] # Gone
  /\ before # stamp[cur]
  /\ attempt = 0
  /\ attempt' = 1
  /\ pc' = "stat"
  /\ UNCHANGED <<treeVars, cacheVars, resultVars, todo, found, before, bytes, chunks, draft>>

\* SourceChangedDuringReadError
changed_during_read == pc = "hash" /\ before # stamp[cur] /\ attempt = 1 /\ Raise

-----------------------------------------------------------------------------
\* On to the next source, or to the manifest
SourceDone ==
  /\ todo' = todo \ {cur}
  /\ pc' = IF todo' = {} THEN "finish" ELSE "read"
  /\ bytes' = Gone

\* _process_source: the file is read a second time and its bytes are stored
read_bytes ==
  /\ pc = "read"
  /\ tree[cur] # Gone
  /\ store' = store \cup {tree[cur]}
  /\ suspect' = IF tree[cur] = found[cur] THEN suspect ELSE suspect \cup {found[cur]}
  /\ IF <<cur, found[cur]>> \in Parseable
     THEN /\ bytes' = tree[cur]
          /\ draft' = [draft EXCEPT !.raw = Put(@, cur, tree[cur])]
          /\ pc' = "parse"
          /\ UNCHANGED todo
     ELSE /\ draft' = [draft EXCEPT !.raw = Put(@, cur, tree[cur]), !.parse = Put(@, cur, Fail)]
          /\ SourceDone
  /\ UNCHANGED <<treeVars, parseCache, chunkCache, embedCache, manifest, previous, builds, calm,
                 found, before, attempt, chunks>>

read_raises == pc = "read" /\ tree[cur] = Gone /\ Raise

\* The parse record; a source without elements has no chunks
RecordParse(outcome) ==
  /\ draft' = [draft EXCEPT !.parse = Put(@, cur, outcome)]
  /\ IF outcome.document = <<>>
     THEN SourceDone
     ELSE pc' = "chunk" /\ UNCHANGED <<todo, bytes>>

\* What a parser run in the sandbox may come to: a timeout, a crash or an
\* output above its cap becomes a fail outcome
run_sandboxed(data) == {ParseOf[data], Fail}

\* Mutant: the cache key leaves the content hash out
parse_source_any_hit ==
  /\ pc = "parse"
  /\ IF DOMAIN parseCache # {}
     THEN /\ RecordParse(parseCache[CHOOSE h \in DOMAIN parseCache : TRUE])
          /\ UNCHANGED <<parseCache, suspect, calm>>
     ELSE /\ parseCache' = Put(parseCache, found[cur], ParseOf[bytes])
          /\ RecordParse(ParseOf[bytes])
          /\ UNCHANGED <<suspect, calm>>
  /\ UNCHANGED <<treeVars, chunkCache, embedCache, store, manifest, previous, builds,
                 found, before, attempt, chunks>>

\* The parse stage: cached under the hash the discovery took, computed from
\* the bytes just read; a fail outcome is cached like any other
parse_source ==
  /\ pc = "parse"
  /\ IF found[cur] \in DOMAIN parseCache
     THEN RecordParse(parseCache[found[cur]]) /\ UNCHANGED <<parseCache, suspect, calm>>
     ELSE \E outcome \in run_sandboxed(bytes) :
            /\ parseCache' = Put(parseCache, found[cur], outcome)
            /\ suspect' = IF outcome = ParseOf[bytes] THEN suspect ELSE suspect \cup {found[cur]}
            /\ calm' = (calm /\ outcome = ParseOf[bytes])
            /\ RecordParse(outcome)
  /\ UNCHANGED <<treeVars, chunkCache, embedCache, store, manifest, previous, builds,
                 found, before, attempt, chunks>>

\* drop_empty_candidates over the chunker's candidates
Candidates(doc) ==
  LET kept[i \in 0..Len(doc)] ==
        IF i = 0 THEN <<>> ELSE IF doc[i] = Blank THEN kept[i - 1] ELSE Append(kept[i - 1], doc[i])
  IN  kept[Len(doc)]

\* A chunk's identity: parse run, locator and text
Chunk(f, h, list, i) == [file |-> f, hash |-> h, at |-> i, text |-> list[i]]

ChunkList(f, h, list) == [i \in 1..Len(list) |-> Chunk(f, h, list, i)]

Members(list) == {list[i] : i \in 1..Len(list)}

\* The QUALITY assertions of a parse run
Quality(doc, list) ==
  {q \in {"EMPTY_CHUNKS_DROPPED", "DUPLICATE_CHUNK_CONTENT"} :
     IF q = "EMPTY_CHUNKS_DROPPED" THEN Len(list) < Len(doc)
     ELSE Cardinality(Members(list)) < Len(list)}

\* Mutant: what is cached still has the empty candidates
process_chunks_cached_raw ==
  LET doc  == draft.parse[cur].document
      list == IF doc \in DOMAIN chunkCache THEN chunkCache[doc] ELSE Candidates(doc)
  IN
  /\ pc = "chunk"
  /\ chunkCache' = Put(chunkCache, doc, doc)
  /\ chunks' = ChunkList(cur, found[cur], list)
  /\ draft' = [draft EXCEPT !.chunks = @ \cup Members(chunks')]
  /\ IF list = <<>> THEN SourceDone ELSE pc' = "embed" /\ UNCHANGED <<todo, bytes>>
  /\ UNCHANGED <<treeVars, parseCache, embedCache, store, resultVars, found, before, attempt>>

\* _process_chunks, through the chunk stage's cache
process_chunks ==
  LET doc  == draft.parse[cur].document
      list == IF doc \in DOMAIN chunkCache THEN chunkCache[doc] ELSE Candidates(doc)
  IN
  /\ pc = "chunk"
  /\ chunkCache' = Put(chunkCache, doc, list)
  /\ chunks' = ChunkList(cur, found[cur], list)
  /\ draft' = [draft EXCEPT !.chunks = @ \cup Members(chunks'),
                            !.quality = @ \cup {<<cur, q>> : q \in Quality(doc, list)}]
  /\ IF list = <<>> THEN SourceDone ELSE pc' = "embed" /\ UNCHANGED <<todo, bytes>>
  /\ UNCHANGED <<treeVars, parseCache, embedCache, store, resultVars, found, before, attempt>>

\* The chunk at hand is dealt with
ChunkDone ==
  /\ chunks' = Tail(chunks)
  /\ attempt' = 0
  /\ IF Len(chunks) = 1 THEN SourceDone ELSE UNCHANGED <<pc, todo, bytes>>

\* _pii_blocked: the chunk is recorded and never embedded
skip_blocked ==
  /\ pc = "embed"
  /\ Head(chunks).text \in Blocked
  /\ ChunkDone
  /\ UNCHANGED <<treeVars, cacheVars, resultVars, found, before, draft>>

Embeddable == pc = "embed" /\ Head(chunks).text \notin Blocked

\* _embed_chunk: from the cache, or from the provider and into the cache
embed_chunk ==
  LET t == Head(chunks).text
      v == IF t \in DOMAIN embedCache THEN embedCache[t] ELSE t
  IN
  /\ Embeddable
  /\ embedCache' = Put(embedCache, t, v)
  /\ draft' = [draft EXCEPT !.embeddings = @ \cup {[chunk |-> Head(chunks), vector |-> v]}]
  /\ ChunkDone
  /\ UNCHANGED <<treeVars, parseCache, chunkCache, store, resultVars, found, before>>

CallsProvider == Embeddable /\ Head(chunks).text \notin DOMAIN embedCache

\* Mutant: every failure starts the count again
embed_again_restarted ==
  /\ CallsProvider
  /\ attempt' = 1 - attempt
  /\ UNCHANGED <<treeVars, cacheVars, resultVars, pc, todo, found, before, bytes, chunks, draft>>

\* _embed_with_retry: the first EmbeddingProviderError is tried again
embed_again ==
  /\ CallsProvider
  /\ attempt = 0
  /\ attempt' = 1
  /\ UNCHANGED <<treeVars, cacheVars, resultVars, pc, todo, found, before, bytes, chunks, draft>>

\* Mutant: the failed chunk is dropped without a warning
embed_fails_silently ==
  /\ CallsProvider
  /\ attempt = 1
  /\ ChunkDone
  /\ UNCHANGED <<treeVars, cacheVars, resultVars, found, before, draft>>

\* Both tries failed: an EMBEDDING_FAILED warning, and the build goes on
embed_fails ==
  /\ CallsProvider
  /\ attempt = 1
  /\ draft' = [draft EXCEPT !.warned = @ \cup {Head(chunks)}]
  /\ ChunkDone
  /\ UNCHANGED <<treeVars, cacheVars, resultVars, found, before>>

\* A vector that is not finite or has the wrong dimension is not retried
embed_raises == CallsProvider /\ Raise

-----------------------------------------------------------------------------
\* _attach_duplicate_relationships: the first file with the same hash
duplicate_of(hashes) ==
  [f \in {f \in DOMAIN hashes : \E g \in DOMAIN hashes : g < f /\ hashes[g] = hashes[f]} |->
     CHOOSE g \in DOMAIN hashes : hashes[g] = hashes[f]
                                  /\ \A k \in DOMAIN hashes : hashes[k] = hashes[f] => g <= k]

\* Mutant: rediscovered sources are not left out
compute_tombstones_all(prev, hashes) == prev

compute_tombstones(prev, hashes) == prev \ DOMAIN hashes

build_status(parse) ==
  IF \E f \in DOMAIN parse : parse[f].status = "fail" THEN "incomplete" ELSE "complete"

\* Tombstones, the build record and the manifest
build_manifest ==
  /\ pc = "finish"
  /\ manifest' =
       [sources |-> found, duplicate_of |-> duplicate_of(found),
        tombstones |-> compute_tombstones(previous, found), status |-> build_status(draft.parse),
        raw |-> draft.raw, parse |-> draft.parse, chunks |-> draft.chunks,
        embeddings |-> draft.embeddings, warned |-> draft.warned, quality |-> draft.quality]
  /\ pc' = "done"
  /\ Forget
  /\ UNCHANGED <<treeVars, cacheVars, previous, builds, calm, suspect>>

Discover == walk_files \/ stat_before \/ stat_raises \/ hash_streaming \/ hash_again \/ changed_during_read

Process ==
  \/ read_bytes \/ read_raises \/ parse_source \/ process_chunks
  \/ skip_blocked \/ embed_chunk \/ embed_again \/ embed_fails \/ embed_raises

BuildStep == Discover \/ Process \/ build_manifest

Next ==
  \/ build_pipeline
  \/ BuildStep
  \/ Killed
  \/ \E f \in Files, c \in Contents \cup {Gone} : Edit(f, c)

Spec == Init /\ [][Next]_vars

\* A build that is not killed runs on
FairSpec == Spec /\ WF_vars(BuildStep)

-----------------------------------------------------------------------------
(* Properties *)

Outcomes == {ParseOf[c] : c \in Contents} \cup {Fail}

\* The build's state has its types: what is hashed, read or cached was in
\* the tree, and at most one try has failed.
TypeOK ==
  /\ tree \in [Files -> Contents \cup {Gone}]
  /\ \A h \in DOMAIN parseCache : h \in Contents /\ parseCache[h] \in Outcomes
  /\ store \subseteq Contents
  /\ todo \subseteq Files /\ (Busy /\ pc \notin {"walk", "finish"} => todo # {})
  /\ \A f \in DOMAIN found : f \in Files /\ found[f] \in Contents \ TooLarge
  /\ attempt \in 0..1
  /\ bytes \in Contents \cup {Gone}
  /\ previous \subseteq Files
  /\ edits \in 0..MaxEdits /\ builds \in 0..MaxBuilds

\* The manifest a build without any cache makes of a tree that stands still
Present == {f \in Files : tree[f] # Gone}

Expected(f) == IF <<f, tree[f]>> \in Parseable THEN ParseOf[tree[f]] ELSE Fail

ExpectedChunks(f) == Members(ChunkList(f, tree[f], Candidates(Expected(f).document)))

IsReference(m) ==
  /\ m.sources = [f \in Present |-> tree[f]]
  /\ m.raw = m.sources
  /\ m.parse = [f \in Present |-> Expected(f)]
  /\ m.chunks = UNION {ExpectedChunks(f) : f \in Present}
  /\ m.status = IF \E f \in Present : Expected(f).status = "fail" THEN "incomplete" ELSE "complete"

\* StageCache: "cache presence/absence never changes a build's output, only
\* how much work producing it takes": a build of a tree that stands still,
\* in which no parser is stopped, makes the manifest that a build without a
\* cache makes.
CacheNeverChangesOutput == pc = "done" /\ calm => IsReference(manifest)

\* What of it holds: such a build makes that manifest, whatever earlier
\* builds cached, skipped or died over, unless one of its hashes belongs to a
\* file that changed between hashing and reading in some build, or to a
\* parser the sandbox stopped.
WarmBuildIsReference ==
  pc = "done" /\ calm /\ (\A f \in DOMAIN manifest.sources : manifest.sources[f] \notin suspect)
    => IsReference(manifest)

\* The later stages are keyed by what they are computed from: whatever
\* happened to the tree and to the parsers, their entries are right, and a
\* wrong parse entry has one of the two causes above.
WrongEntriesHaveACause ==
  /\ \A h \in DOMAIN parseCache : parseCache[h] = ParseOf[h] \/ h \in suspect
  /\ \A d \in DOMAIN chunkCache : chunkCache[d] = Candidates(d)
  /\ \A t \in DOMAIN embedCache : embedCache[t] = t /\ t \notin Blocked

\* Every chunk of a finished manifest has its embedding, or the policy blocks
\* it, or a warning names it, and only one of the three; and every embedding
\* embeds a chunk of the manifest.
ChunksAccountedFor ==
  pc = "done" =>
    LET embedded == {e.chunk : e \in manifest.embeddings}
        blocked  == {c \in manifest.chunks : c.text \in Blocked}
    IN /\ manifest.chunks = embedded \cup blocked \cup manifest.warned
       /\ embedded \cap blocked = {} /\ embedded \cap manifest.warned = {} /\ blocked \cap manifest.warned = {}
       /\ \A e \in manifest.embeddings : e.vector = e.chunk.text

\* Each record of a finished manifest hangs on one it contains: a chunk on a
\* parse that did not fail, a parse on a source, a duplicate on its first
\* copy, raw bytes on the store; a source that vanished is a tombstone and
\* no source is both.
ManifestIsClosed ==
  pc = "done" =>
    /\ DOMAIN manifest.parse = DOMAIN manifest.sources
    /\ DOMAIN manifest.raw = DOMAIN manifest.sources
    /\ \A f \in DOMAIN manifest.raw : manifest.raw[f] \in store
    /\ \A c \in manifest.chunks :
         /\ c.file \in DOMAIN manifest.sources /\ c.hash = manifest.sources[c.file]
         /\ manifest.parse[c.file].status = "success"
    /\ \A f \in DOMAIN manifest.duplicate_of :
         LET g == manifest.duplicate_of[f] IN
         g < f /\ manifest.sources[g] = manifest.sources[f] /\ g \notin DOMAIN manifest.duplicate_of
    /\ previous \subseteq DOMAIN manifest.sources \cup manifest.tombstones
    /\ manifest.tombstones \cap DOMAIN manifest.sources = {}

\* A build comes to an end, with a manifest or without: no loop of retries
\* runs for ever.
EveryBuildEnds == Busy ~> ~Busy

=============================================================================
