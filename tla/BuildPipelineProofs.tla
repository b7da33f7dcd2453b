------------------------- MODULE BuildPipelineProofs -------------------------
(***************************************************************************)
(* Theorems about BuildPipeline, for any tree, any parser and any number   *)
(* of builds and edits: what the stage cache holds, what a manifest        *)
(* accounts for, and when a build over a cache makes the manifest that a   *)
(* build without one makes.                                                *)
(***************************************************************************)
EXTENDS BuildPipeline, NaturalsInduction, WellFoundedInduction, SequenceTheorems, TLAPS

-----------------------------------------------------------------------------
(* The loops of the build *)

\* A set of natural numbers that is not empty has a least element.
LEMMA LeastElement == ASSUME NEW T \in SUBSET Nat, T # {} PROVE \E x \in T : \A y \in T : x <= y
<1> DEFINE R == {p \in Nat \X Nat : p[1] < p[2]}
<1>1. IsWellFoundedOn(OpToRel(<, Nat), Nat)
  BY NatLessThanWellFounded
<1>2. OpToRel(<, Nat) = R
  BY DEF OpToRel
<1>3. PICK x \in T : \A y \in T : ~(<<y, x>> \in R)
  <2>1. IsWellFoundedOn(R, Nat)
    BY <1>1, <1>2
  <2> HIDE DEF R
  <2> QED BY <2>1, WFMin
<1>4. ASSUME NEW y \in T PROVE x <= y
  <2>1. y \in Nat /\ x \in Nat
    OBVIOUS
  <2>2. <<y, x>> \in Nat \X Nat => ~(<<y, x>>[1] < <<y, x>>[2])
    BY <1>3
  <2> QED BY <2>1, <2>2
<1> QED BY <1>4

\* The loop of drop_empty_candidates: the list after i candidates
Turn(doc, list, i) == IF doc[i] = Blank THEN list ELSE Append(list, doc[i])
IsLoop(doc, g, n) == g[0] = <<>> /\ \A i \in 1..n : g[i] = Turn(doc, g[i - 1], i)

\* The loop can be run to any candidate.
LEMMA LoopExists ==
  ASSUME NEW S, NEW doc \in Seq(S), NEW n \in 0..Len(doc)
  PROVE  \E g \in [0..n -> Seq(S)] : IsLoop(doc, g, n)
<1> DEFINE Runs(m) == \E g \in [0..m -> Seq(S)] : IsLoop(doc, g, m)
           Bad == {m \in 0..Len(doc) : ~Runs(m)}
<1> SUFFICES ASSUME Bad # {} PROVE FALSE
  OBVIOUS
<1>1. PICK m \in Bad : \A k \in Bad : m <= k
  <2>1. Bad \in SUBSET Nat
    OBVIOUS
  <2> HIDE DEF Bad
  <2> QED BY <2>1, LeastElement
<1>2. m \in Nat /\ m <= Len(doc) /\ ~Runs(m) /\ Len(doc) \in Nat
  OBVIOUS
<1>3. CASE m = 0
  <2> DEFINE g == [i \in 0..0 |-> <<>>]
  <2>1. g \in [0..0 -> Seq(S)] /\ IsLoop(doc, g, 0)
    BY EmptySeq DEF IsLoop
  <2> QED BY <1>2, <1>3, <2>1
<1>4. CASE m # 0
  <2>1. m - 1 \in Nat /\ m - 1 \in 0..Len(doc) /\ m \in 1..Len(doc)
    BY <1>2, <1>4
  <2>2. m - 1 \notin Bad
    <3> HIDE DEF Bad
    <3> QED BY <1>1, <1>2
  <2>3. PICK g \in [0..(m - 1) -> Seq(S)] : IsLoop(doc, g, m - 1)
    BY <2>1, <2>2
  <2> DEFINE h == [i \in 0..m |-> IF i = m THEN Turn(doc, g[m - 1], m) ELSE g[i]]
  <2>4. doc[m] \in S /\ g[m - 1] \in Seq(S)
    BY <2>1, ElementOfSeq
  <2>5. Turn(doc, g[m - 1], m) \in Seq(S)
    BY <2>4 DEF Turn
  <2>6. \A i \in 0..m : i # m => i \in 0..(m - 1)
    BY <1>2
  <2>7. h \in [0..m -> Seq(S)]
    BY <2>5, <2>6
  <2>8. ASSUME NEW i \in 1..m PROVE h[i] = Turn(doc, h[i - 1], i)
    <3>1. i \in 0..m /\ i - 1 \in 0..m /\ i - 1 # m /\ i - 1 \in 0..(m - 1)
      BY <1>2
    <3>2. h[i - 1] = g[i - 1]
      BY <3>1
    <3>3. CASE i = m
      BY <3>1, <3>2, <3>3
    <3>4. CASE i # m
      <4>1. i \in 1..(m - 1)
        BY <1>2, <3>4
      <4>2. h[i] = g[i] /\ g[i] = Turn(doc, g[i - 1], i)
        BY <2>3, <3>1, <3>4, <4>1 DEF IsLoop
      <4> QED BY <3>2, <4>2
    <3> QED BY <3>3, <3>4
  <2>9. h[0] = <<>>
    <3>1. 0 \in 0..m /\ h[0] = g[0]
      BY <1>2, <1>4
    <3> QED BY <2>3, <3>1 DEF IsLoop
  <2> HIDE DEF h
  <2>10. IsLoop(doc, h, m)
    BY <2>8, <2>9 DEF IsLoop
  <2> QED BY <1>2, <2>7, <2>10
<1> QED BY <1>3, <1>4

\* The loop kept of Candidates is the one of drop_empty_candidates.
LEMMA LoopOf ==
  ASSUME NEW S, NEW doc \in Seq(S)
  PROVE  \E g : g \in [0..Len(doc) -> Seq(S)] /\ IsLoop(doc, g, Len(doc)) /\ Candidates(doc) = g[Len(doc)]
<1> DEFINE n == Len(doc)
           Body(g) == [i \in 0..n |-> IF i = 0 THEN <<>> ELSE IF doc[i] = Blank THEN g[i - 1] ELSE Append(g[i - 1], doc[i])]
           kept == CHOOSE g : g = Body(g)
<1>1. n \in Nat
  OBVIOUS
<1>2. Candidates(doc) = kept[n]
  BY DEF Candidates
<1>3. \E g : g = Body(g)
  <2>1. PICK g \in [0..n -> Seq(S)] : IsLoop(doc, g, n)
    <3>1. n \in 0..Len(doc)
      BY <1>1
    <3> QED BY <3>1, LoopExists
  <2>2. ASSUME NEW i \in 0..n PROVE g[i] = Body(g)[i]
    <3>1. CASE i = 0
      BY <2>1, <3>1 DEF IsLoop
    <3>2. CASE i # 0
      <4>1. i \in 1..n
        BY <1>1, <3>2
      <4>2. g[i] = Turn(doc, g[i - 1], i)
        BY <2>1, <4>1 DEF IsLoop
      <4> QED BY <3>2, <4>2 DEF Turn
    <3> QED BY <3>1, <3>2
  <2>3. g = Body(g)
    BY <2>1, <2>2
  <2> QED BY <2>3
<1>4. kept = Body(kept)
  <2> HIDE DEF Body
  <2> QED BY <1>3
<1> HIDE DEF kept
<1>5. DOMAIN kept = 0..n /\ kept = [i \in 0..n |-> kept[i]]
  BY <1>4
<1>6. IsLoop(doc, kept, n)
  <2>1. 0 \in 0..n /\ \A i \in 1..n : i \in 0..n /\ i # 0
    BY <1>1
  <2>2. \A i \in 0..n : kept[i] = Body(kept)[i]
    BY <1>4
  <2> QED BY <2>1, <2>2 DEF IsLoop, Turn
<1>7. \A i \in 0..n : kept[i] \in Seq(S)
  <2> DEFINE Bad == {i \in 0..n : kept[i] \notin Seq(S)}
  <2> SUFFICES ASSUME Bad # {} PROVE FALSE
    OBVIOUS
  <2>1. PICK m \in Bad : \A k \in Bad : m <= k
    <3>1. Bad \in SUBSET Nat
      OBVIOUS
    <3> HIDE DEF Bad
    <3> QED BY <3>1, LeastElement
  <2>2. m \in 0..n /\ m \in Nat /\ kept[m] \notin Seq(S)
    OBVIOUS
  <2>3. m # 0
    BY <1>6, <2>2, EmptySeq DEF IsLoop
  <2>4. m - 1 \in 0..n /\ m \in 1..n
    BY <1>1, <2>2, <2>3
  <2>5. m - 1 \notin Bad
    <3> HIDE DEF Bad
    <3> QED BY <2>1, <2>2
  <2>6. kept[m - 1] \in Seq(S) /\ doc[m] \in S
    BY <2>4, <2>5, ElementOfSeq
  <2>7. kept[m] = Turn(doc, kept[m - 1], m)
    BY <1>6, <2>4 DEF IsLoop
  <2> QED BY <2>2, <2>6, <2>7 DEF Turn
<1> QED BY <1>2, <1>5, <1>6, <1>7

\* drop_empty_candidates returns a list of candidates, none of an empty one.
LEMMA CandidatesAreAList ==
  ASSUME NEW S, NEW doc \in Seq(S)
  PROVE  Candidates(doc) \in Seq(S) /\ (doc = <<>> => Candidates(doc) = <<>>)
<1>1. PICK g : g \in [0..Len(doc) -> Seq(S)] /\ IsLoop(doc, g, Len(doc)) /\ Candidates(doc) = g[Len(doc)]
  BY LoopOf
<1>2. Len(doc) \in Nat /\ (doc = <<>> => Len(doc) = 0)
  BY EmptySeq
<1>3. Len(doc) \in 0..Len(doc)
  BY <1>2
<1> QED BY <1>1, <1>2, <1>3 DEF IsLoop

-----------------------------------------------------------------------------
(* The inductive invariant *)

Looping == {"stat", "hash", "read", "parse", "chunk", "embed"}   \* a loop over todo is under way
Reading == {"read", "parse", "chunk", "embed"}                   \* the one over the sources
Resting == {"idle", "walk", "done", "raised"}                    \* nothing is held in memory

\* Types, and what is held in memory where
PlaceInv ==
  /\ tree \in [Files -> Contents \cup {Gone}]
  /\ stamp \in [Files -> Nat]
  /\ store \in SUBSET Contents
  /\ pc \in Looping \cup Resting \cup {"finish"}
  /\ todo \in SUBSET Files
  /\ pc \in Looping => todo # {}
  /\ pc \in Resting \cup {"finish"} => todo = {}
  /\ DOMAIN found \subseteq Files
  /\ found \in [DOMAIN found -> Contents \ TooLarge]
  /\ pc \in Reading => todo \subseteq DOMAIN found
  /\ pc \in Resting => found = None
  /\ pc \in Resting \cup {"stat", "hash"} => draft = EmptyDraft
  /\ attempt \in 0..1
  /\ bytes \in Contents \cup {Gone}
  /\ DOMAIN manifest.sources \subseteq Files
  /\ previous \subseteq Files
  /\ edits \in 0..MaxEdits
  /\ builds \in 0..MaxBuilds

\* The stat before hashing: while the stamp is still the same, so is what the
\* stat found
StatInv ==
  pc = "hash" =>
    /\ before \in Nat
    /\ before <= stamp[cur]
    /\ before = stamp[cur] => tree[cur] \in Contents \ TooLarge

\* The cache: right entries, and parse outcomes
CacheInv ==
  /\ WrongEntriesHaveACause
  /\ \A h \in DOMAIN parseCache : h \in Contents /\ parseCache[h] \in Outcomes

\* The sources the loop is done with, those read and those parsed
Finished == DOMAIN found \ todo
Read == IF pc \in {"parse", "chunk", "embed"} THEN Finished \cup {cur} ELSE Finished
Parsed == IF pc \in {"chunk", "embed"} THEN Finished \cup {cur} ELSE Finished
Chunked == IF pc = "embed" THEN Finished \cup {cur} ELSE Finished

ChunksOf(f) == Members(ChunkList(f, found[f], Candidates(draft.parse[f].document)))

\* A record with the fields of _BuildState
IsDraft(d) ==
  d = [raw |-> d.raw, parse |-> d.parse, chunks |-> d.chunks, embeddings |-> d.embeddings, warned |-> d.warned, quality |-> d.quality]

\* _BuildState has the records of those sources and no others
DraftInv ==
  pc \in Reading \cup {"finish"} =>
    /\ IsDraft(draft)
    /\ draft.raw \in [Read -> store]
    /\ draft.parse \in [Parsed -> Outcomes]
    /\ draft.chunks = UNION {ChunksOf(f) : f \in Chunked}
    /\ pc = "parse" =>
         /\ bytes = draft.raw[cur]
         /\ <<cur, found[cur]>> \in Parseable
         /\ bytes = found[cur] \/ found[cur] \in suspect
    /\ pc = "chunk" => draft.parse[cur].document # <<>>

Embedded == {e.chunk : e \in draft.embeddings}

\* Every chunk is embedded, warned about, blocked or still awaits its turn
ChunkInv ==
  /\ pc # "embed" => Members(chunks) = {}
  /\ pc = "embed" =>
       /\ chunks \in Seq(draft.chunks)
       /\ chunks # <<>>
       /\ \A i, k \in 1..Len(chunks) : chunks[i] = chunks[k] => i = k
  /\ pc \in Reading \cup {"finish"} =>
       /\ Embedded \cup draft.warned \subseteq draft.chunks \ Members(chunks)
       /\ \A c \in draft.chunks : c \in Embedded \cup draft.warned \/ c.text \in Blocked \/ c \in Members(chunks)
       /\ \A e \in draft.embeddings : e.vector = e.chunk.text /\ e.chunk.text \notin Blocked
       /\ \A c \in draft.warned : c.text \notin Blocked
       /\ Embedded \cap draft.warned = {}

\* While nothing disturbs the build, what it has found, read and parsed is
\* what the tree holds
CalmInv ==
  calm =>
    /\ pc \in {"stat", "hash"} => DOMAIN found \cup todo = Present
    /\ pc \in Reading \cup {"finish"} => DOMAIN found = Present
    /\ \A f \in DOMAIN found : found[f] = tree[f]
    /\ pc \in Reading \cup {"finish"} =>
         /\ \A f \in Read : draft.raw[f] = tree[f]
         /\ \A f \in Parsed : found[f] \notin suspect => draft.parse[f] = Expected(f)

BuildInv ==
  /\ PlaceInv /\ StatInv /\ CacheInv /\ DraftInv /\ ChunkInv /\ CalmInv
  /\ WarmBuildIsReference /\ ChunksAccountedFor /\ ManifestIsClosed
-----------------------------------------------------------------------------
(* Facts every step uses *)

\* The loop is at a file it has still to do.
LEMMA CurIsToDo == ASSUME todo \in SUBSET Files, todo # {} PROVE cur \in todo
<1>1. todo \in SUBSET Nat
  BY TreeAssumption
<1>2. \E f \in todo : \A g \in todo : f <= g
  BY <1>1, LeastElement
<1> QED BY <1>2 DEF cur

\* What Put changes and what it leaves.
LEMMA PutFacts ==
  ASSUME NEW f, NEW k, NEW v
  PROVE  /\ DOMAIN Put(f, k, v) = DOMAIN f \cup {k}
         /\ Put(f, k, v)[k] = v
         /\ \A x \in DOMAIN f : x # k => Put(f, k, v)[x] = f[x]
         /\ \A D, T : f \in [D -> T] /\ v \in T => Put(f, k, v) \in [D \cup {k} -> T]
BY DEF Put

\* The function with an empty domain.
LEMMA NoneIsEmpty == DOMAIN None = {} /\ \A T : None \in [{} -> T]
<1>1. \A T : <<>> \in Seq(T) /\ Len(<<>>) = 0
  BY EmptySeq
<1>2. \A T : <<>> \in [1..Len(<<>>) -> T] /\ DOMAIN <<>> = 1..Len(<<>>)
  BY <1>1, LenProperties
<1>3. 1..0 = {}
  OBVIOUS
<1> QED BY <1>1, <1>2, <1>3 DEF None

\* The empty list has no members.
LEMMA NoMembers == Members(<<>>) = {}
<1>1. Len(<<>>) = 0
  BY EmptySeq
<1> QED BY <1>1 DEF Members

\* _BuildState after one of its fields was replaced.
LEMMA DraftUpdate ==
  ASSUME NEW d, IsDraft(d), NEW x
  PROVE  /\ [d EXCEPT !.raw = x] = [raw |-> x, parse |-> d.parse, chunks |-> d.chunks, embeddings |-> d.embeddings, warned |-> d.warned, quality |-> d.quality]
         /\ [d EXCEPT !.parse = x] = [raw |-> d.raw, parse |-> x, chunks |-> d.chunks, embeddings |-> d.embeddings, warned |-> d.warned, quality |-> d.quality]
         /\ [d EXCEPT !.chunks = x] = [raw |-> d.raw, parse |-> d.parse, chunks |-> x, embeddings |-> d.embeddings, warned |-> d.warned, quality |-> d.quality]
         /\ [d EXCEPT !.quality = x] = [raw |-> d.raw, parse |-> d.parse, chunks |-> d.chunks, embeddings |-> d.embeddings, warned |-> d.warned, quality |-> x]
         /\ [d EXCEPT !.embeddings = x] = [raw |-> d.raw, parse |-> d.parse, chunks |-> d.chunks, embeddings |-> x, warned |-> d.warned, quality |-> d.quality]
         /\ [d EXCEPT !.warned = x] = [raw |-> d.raw, parse |-> d.parse, chunks |-> d.chunks, embeddings |-> d.embeddings, warned |-> x, quality |-> d.quality]
<1>1. d \in [raw : {d.raw}, parse : {d.parse}, chunks : {d.chunks}, embeddings : {d.embeddings}, warned : {d.warned}, quality : {d.quality}]
  BY DEF IsDraft
<1>2. [d EXCEPT !.raw = x] = [raw |-> x, parse |-> d.parse, chunks |-> d.chunks, embeddings |-> d.embeddings, warned |-> d.warned, quality |-> d.quality]
  BY <1>1
<1>3. [d EXCEPT !.parse = x] = [raw |-> d.raw, parse |-> x, chunks |-> d.chunks, embeddings |-> d.embeddings, warned |-> d.warned, quality |-> d.quality]
  BY <1>1
<1>4. [d EXCEPT !.chunks = x] = [raw |-> d.raw, parse |-> d.parse, chunks |-> x, embeddings |-> d.embeddings, warned |-> d.warned, quality |-> d.quality]
  BY <1>1
<1>5. [d EXCEPT !.quality = x] = [raw |-> d.raw, parse |-> d.parse, chunks |-> d.chunks, embeddings |-> d.embeddings, warned |-> d.warned, quality |-> x]
  BY <1>1
<1>6. [d EXCEPT !.embeddings = x] = [raw |-> d.raw, parse |-> d.parse, chunks |-> d.chunks, embeddings |-> x, warned |-> d.warned, quality |-> d.quality]
  BY <1>1
<1>7. [d EXCEPT !.warned = x] = [raw |-> d.raw, parse |-> d.parse, chunks |-> d.chunks, embeddings |-> d.embeddings, warned |-> x, quality |-> d.quality]
  BY <1>1
<1> QED BY <1>2, <1>3, <1>4, <1>5, <1>6, <1>7

\* _BuildState after two of them were.
LEMMA DraftUpdates ==
  ASSUME NEW d, IsDraft(d), NEW x, NEW y
  PROVE  /\ [d EXCEPT !.raw = x, !.parse = y] = [raw |-> x, parse |-> y, chunks |-> d.chunks, embeddings |-> d.embeddings, warned |-> d.warned, quality |-> d.quality]
         /\ [d EXCEPT !.chunks = x, !.quality = y] = [raw |-> d.raw, parse |-> d.parse, chunks |-> x, embeddings |-> d.embeddings, warned |-> d.warned, quality |-> y]
<1> DEFINE e == [d EXCEPT !.raw = x]
           g == [d EXCEPT !.chunks = x]
<1>1. e = [raw |-> x, parse |-> d.parse, chunks |-> d.chunks, embeddings |-> d.embeddings, warned |-> d.warned, quality |-> d.quality] /\ g = [raw |-> d.raw, parse |-> d.parse, chunks |-> x, embeddings |-> d.embeddings, warned |-> d.warned, quality |-> d.quality]
  BY DraftUpdate
<1> HIDE DEF e, g
<1>2. IsDraft(e) /\ IsDraft(g)
  BY <1>1 DEF IsDraft
<1>3. [e EXCEPT !.parse = y] = [raw |-> x, parse |-> y, chunks |-> d.chunks, embeddings |-> d.embeddings, warned |-> d.warned, quality |-> d.quality]
  <2>1. [e EXCEPT !.parse = y] = [raw |-> e.raw, parse |-> y, chunks |-> e.chunks, embeddings |-> e.embeddings, warned |-> e.warned, quality |-> e.quality]
    BY <1>2, DraftUpdate
  <2> QED BY <1>1, <2>1
<1>4. [g EXCEPT !.quality = y] = [raw |-> d.raw, parse |-> d.parse, chunks |-> x, embeddings |-> d.embeddings, warned |-> d.warned, quality |-> y]
  <2>1. [g EXCEPT !.quality = y] = [raw |-> g.raw, parse |-> g.parse, chunks |-> g.chunks, embeddings |-> g.embeddings, warned |-> g.warned, quality |-> y]
    BY <1>2, DraftUpdate
  <2> QED BY <1>1, <2>1
<1> QED BY <1>3, <1>4 DEF e, g

\* What the parser makes of a content, and the outcome of a stopped parser.
LEMMA OutcomeFacts ==
  ASSUME NEW o \in Outcomes
  PROVE  /\ o.document \in Seq(Texts)
         /\ o.document # <<>> => o.status = "success"
<1>1. Fail.document = <<>> /\ <<>> \in Seq(Texts)
  BY EmptySeq DEF Fail
<1>2. CASE o = Fail
  BY <1>1, <1>2
<1>3. CASE o # Fail
  <2>1. PICK c \in Contents : o = ParseOf[c]
    BY <1>3 DEF Outcomes
  <2> QED BY <1>3, <2>1, ParseAssumption
<1> QED BY <1>2, <1>3
-----------------------------------------------------------------------------
(* The invariant holds at first and every step keeps it *)

Promises == WarmBuildIsReference /\ ChunksAccountedFor /\ ManifestIsClosed

\* Only a finished build promises anything of its manifest.
LEMMA NothingPromised == ASSUME pc' # "done" PROVE Promises'
BY DEF Promises, WarmBuildIsReference, ChunksAccountedFor, ManifestIsClosed

\* No build has begun.
LEMMA BuildStarts == ASSUME Init PROVE BuildInv
<1>1. PlaceInv
  BY NoneIsEmpty, BuildBounds DEF Init, PlaceInv, EmptyManifest, Looping, Resting, Reading
<1>2. StatInv /\ DraftInv
  BY DEF Init, StatInv, DraftInv, Reading
<1>3. CacheInv
  BY NoneIsEmpty DEF Init, CacheInv, WrongEntriesHaveACause
<1>4. ChunkInv
  BY NoMembers DEF Init, ChunkInv, Reading
<1>5. CalmInv
  BY NoneIsEmpty DEF Init, CalmInv, Reading
<1>6. WarmBuildIsReference /\ ChunksAccountedFor /\ ManifestIsClosed
  BY DEF Init, WarmBuildIsReference, ChunksAccountedFor, ManifestIsClosed
<1> QED BY <1>1, <1>2, <1>3, <1>4, <1>5, <1>6 DEF BuildInv

\* A build ends and forgets what it held in memory.
LEMMA EndStep ==
  ASSUME BuildInv, Forget, pc' \in {"raised", "done"}, UNCHANGED <<treeVars, cacheVars, previous, builds, suspect>>,
         DOMAIN manifest'.sources \subseteq Files, Promises'
  PROVE  BuildInv'
<1>1. UNCHANGED <<tree, stamp, edits, parseCache, chunkCache, embedCache, store>>
  BY DEF treeVars, cacheVars
<1>2. todo' = {} /\ found' = None /\ attempt' = 0 /\ bytes' = Gone /\ chunks' = <<>> /\ draft' = EmptyDraft
  BY DEF Forget
<1>3. PlaceInv'
  BY <1>1, <1>2, NoneIsEmpty DEF BuildInv, PlaceInv, Looping, Resting, Reading
<1>4. StatInv' /\ DraftInv'
  BY DEF StatInv, DraftInv, Reading
<1>5. CacheInv'
  BY <1>1 DEF BuildInv, CacheInv, WrongEntriesHaveACause
<1>6. ChunkInv'
  BY <1>2, NoMembers DEF ChunkInv, Reading
<1>7. CalmInv'
  BY <1>2, NoneIsEmpty DEF CalmInv, Reading
<1> QED BY <1>3, <1>4, <1>5, <1>6, <1>7 DEF BuildInv, Promises

\* An exception nothing catches.
LEMMA RaiseStep == ASSUME BuildInv, Raise PROVE BuildInv'
<1>1. /\ Forget /\ pc' = "raised" /\ UNCHANGED <<treeVars, cacheVars, previous, builds, suspect>>
      /\ manifest' = manifest
  BY DEF Raise, resultVars
<1>2. DOMAIN manifest'.sources \subseteq Files
  BY <1>1 DEF BuildInv, PlaceInv
<1> QED BY <1>1, <1>2, EndStep, NothingPromised

\* The tree's owner edits a file: the build is not calm any more, and a stat
\* taken before does not match.
LEMMA EditStep == ASSUME BuildInv, NEW f \in Files, NEW c \in Contents \cup {Gone}, Edit(f, c) PROVE BuildInv'
<1>1. /\ tree' = [tree EXCEPT ![f] = c] /\ stamp' = [stamp EXCEPT ![f] = @ + 1]
      /\ edits < MaxEdits /\ edits' = edits + 1 /\ calm' = FALSE
  BY DEF Edit
<1>2. /\ UNCHANGED <<parseCache, chunkCache, embedCache, store, manifest, previous, builds, suspect>>
      /\ UNCHANGED <<pc, todo, found, before, attempt, bytes, chunks, draft>>
  BY DEF Edit, cacheVars, buildVars
<1>3. cur' = cur
  BY <1>2 DEF cur
<1>4. PlaceInv'
  BY <1>1, <1>2, BuildBounds DEF BuildInv, PlaceInv
<1>5. StatInv'
  <2> SUFFICES ASSUME pc = "hash"
               PROVE  before \in Nat /\ before <= stamp'[cur] /\ (before = stamp'[cur] => tree'[cur] \in Contents \ TooLarge)
    BY <1>2, <1>3 DEF StatInv
  <2>1. before \in Nat /\ before <= stamp[cur] /\ (before = stamp[cur] => tree[cur] \in Contents \ TooLarge)
    BY DEF BuildInv, StatInv
  <2>2. cur \in Files
    BY CurIsToDo DEF BuildInv, PlaceInv, Looping
  <2>3. stamp[cur] \in Nat
    BY <2>2 DEF BuildInv, PlaceInv
  <2>4. CASE cur = f
    <3>1. stamp'[cur] = stamp[cur] + 1
      BY <1>1, <2>2, <2>4 DEF BuildInv, PlaceInv
    <3> QED BY <2>1, <2>3, <3>1
  <2>5. CASE cur # f
    <3>1. stamp'[cur] = stamp[cur] /\ tree'[cur] = tree[cur]
      BY <1>1, <2>2, <2>5 DEF BuildInv, PlaceInv
    <3> QED BY <2>1, <3>1
  <2> QED BY <2>4, <2>5
<1>6. CacheInv'
  BY <1>2 DEF BuildInv, CacheInv, WrongEntriesHaveACause
<1>7. DraftInv'
  BY <1>2, <1>3 DEF BuildInv, DraftInv, Finished, Read, Parsed, Chunked, ChunksOf
<1>8. ChunkInv'
  BY <1>2 DEF BuildInv, ChunkInv, Embedded
<1>9. CalmInv'
  BY <1>1 DEF CalmInv
<1>10. Promises'
  BY <1>1, <1>2 DEF BuildInv, Promises, WarmBuildIsReference, ChunksAccountedFor, ManifestIsClosed
<1> QED BY <1>4, <1>5, <1>6, <1>7, <1>8, <1>9, <1>10 DEF BuildInv, Promises

\* build_pipeline is called.
LEMMA CallStep == ASSUME BuildInv, build_pipeline PROVE BuildInv'
<1>1. /\ UNCHANGED <<tree, stamp, edits, parseCache, chunkCache, embedCache, store>>
      /\ UNCHANGED <<todo, found, before, attempt, bytes, chunks, draft, manifest, suspect>>
      /\ pc \in {"idle", "done", "raised"} /\ pc' = "walk"
      /\ builds < MaxBuilds /\ builds' = builds + 1
      /\ previous' \in {{}, DOMAIN manifest.sources}
  BY DEF build_pipeline, treeVars, cacheVars, Busy
<1>2. todo = {} /\ found = None /\ draft = EmptyDraft
  BY <1>1 DEF BuildInv, PlaceInv, Resting
<1>3. PlaceInv'
  BY <1>1, <1>2, BuildBounds DEF BuildInv, PlaceInv, Looping, Resting, Reading
<1>4. StatInv' /\ DraftInv'
  BY <1>1 DEF StatInv, DraftInv, Reading
<1>5. CacheInv'
  BY <1>1 DEF BuildInv, CacheInv, WrongEntriesHaveACause
<1>6. ChunkInv'
  BY <1>1 DEF BuildInv, ChunkInv, Reading
<1>7. CalmInv'
  BY <1>1, <1>2, NoneIsEmpty DEF CalmInv, Reading
<1> QED BY <1>1, <1>3, <1>4, <1>5, <1>6, <1>7, NothingPromised DEF BuildInv, Promises

\* The steps of the discovery leave the cache, the manifest and the tree, and
\* hold no draft.
LEMMA DiscoveryKeeps ==
  ASSUME BuildInv, pc \in {"walk", "stat", "hash"}, pc' \in {"stat", "hash"},
         UNCHANGED <<treeVars, cacheVars, resultVars, bytes, chunks, draft>>
  PROVE  CacheInv' /\ DraftInv' /\ ChunkInv' /\ Promises' /\ tree' = tree /\ stamp' = stamp /\ calm' = calm /\ draft = EmptyDraft
<1>1. UNCHANGED <<tree, stamp, edits, parseCache, chunkCache, embedCache, store, manifest, previous, builds, calm, suspect>>
  BY DEF treeVars, cacheVars, resultVars
<1>2. CacheInv'
  BY <1>1 DEF BuildInv, CacheInv, WrongEntriesHaveACause
<1>3. ChunkInv'
  BY DEF BuildInv, ChunkInv, Reading
<1>4. DraftInv'
  BY DEF DraftInv, Reading
<1>5. draft = EmptyDraft
  BY DEF BuildInv, PlaceInv, Resting
<1> QED BY <1>1, <1>2, <1>3, <1>4, <1>5, NothingPromised

\* Nothing of the sources is in _BuildState when the loop over them begins.
LEMMA DraftIsEmpty ==
  /\ IsDraft(EmptyDraft)
  /\ EmptyDraft.raw = None /\ EmptyDraft.parse = None
  /\ EmptyDraft.chunks = {} /\ EmptyDraft.embeddings = {} /\ EmptyDraft.warned = {}
BY DEF EmptyDraft, IsDraft

\* The loop over the sources begins, or there are none.
LEMMA LoopBegins ==
  ASSUME draft' = EmptyDraft, pc' \in {"read", "finish"}, DOMAIN found' \ todo' = {}, Members(chunks') = {}
  PROVE  DraftInv' /\ ChunkInv' /\ Read' = {} /\ Parsed' = {}
<1>1. Read' = {} /\ Parsed' = {} /\ Chunked' = {}
  BY DEF Read, Parsed, Chunked, Finished
<1>2. DraftInv'
  BY <1>1, DraftIsEmpty, NoneIsEmpty DEF DraftInv
<1>3. ChunkInv'
  BY DraftIsEmpty DEF ChunkInv, Embedded
<1> QED BY <1>1, <1>2, <1>3

\* The names are listed.
LEMMA WalkStep == ASSUME BuildInv, walk_files PROVE BuildInv'
<1>1. /\ UNCHANGED <<tree, stamp, edits, parseCache, chunkCache, embedCache, store, manifest, previous, builds, calm, suspect>>
      /\ UNCHANGED <<found, before, attempt, bytes, chunks, draft>>
      /\ pc = "walk" /\ todo' = Present /\ pc' = IF todo' = {} THEN "finish" ELSE "stat"
  BY DEF walk_files, treeVars, cacheVars, resultVars, Present
<1>2. found = None /\ draft = EmptyDraft /\ Members(chunks) = {}
  BY <1>1 DEF BuildInv, PlaceInv, ChunkInv, Resting
<1>3. Present' = Present /\ Present \in SUBSET Files
  BY <1>1 DEF Present
<1>4. PlaceInv'
  BY <1>1, <1>2, <1>3 DEF BuildInv, PlaceInv, Looping, Resting, Reading
<1>5. StatInv'
  BY <1>1 DEF StatInv
<1>6. CacheInv'
  BY <1>1 DEF BuildInv, CacheInv, WrongEntriesHaveACause
<1>7. CASE todo' # {}
  <2>1. pc' = "stat"
    BY <1>1, <1>7
  <2>2. DraftInv' /\ ChunkInv'
    BY <1>1, <1>2, <2>1 DEF DraftInv, ChunkInv, Reading
  <2>3. CalmInv'
    BY <1>1, <1>2, <1>3, <2>1, NoneIsEmpty DEF CalmInv, Reading
  <2> QED BY <1>4, <1>5, <1>6, <2>1, <2>2, <2>3, NothingPromised DEF BuildInv, Promises
<1>8. CASE todo' = {}
  <2>1. pc' = "finish" /\ Present = {} /\ DOMAIN found' = {}
    BY <1>1, <1>2, <1>8, NoneIsEmpty
  <2>2. DraftInv' /\ ChunkInv' /\ Read' = {} /\ Parsed' = {}
    BY <1>1, <1>2, <2>1, LoopBegins
  <2>3. CalmInv'
    BY <1>1, <1>3, <2>1, <2>2 DEF CalmInv, Reading
  <2> QED BY <1>4, <1>5, <1>6, <2>1, <2>2, <2>3, NothingPromised DEF BuildInv, Promises
<1> QED BY <1>7, <1>8

\* The stat before hashing, and the one after it that differs.
LEMMA StatStep == ASSUME BuildInv, stat_before \/ hash_again PROVE BuildInv'
<1>1. /\ UNCHANGED <<treeVars, cacheVars, resultVars, todo, found, bytes, chunks, draft>>
      /\ pc \in {"stat", "hash"}
      /\ \/ pc' = "hash" /\ tree[cur] \in Contents \ TooLarge /\ before' = stamp[cur] /\ attempt' = attempt
         \/ pc' = "stat" /\ attempt' = 1
  BY DEF stat_before, hash_again
<1>2. pc' \in {"stat", "hash"}
  BY <1>1
<1>3. CacheInv' /\ DraftInv' /\ ChunkInv' /\ Promises' /\ tree' = tree /\ stamp' = stamp /\ calm' = calm /\ draft = EmptyDraft
  BY <1>1, <1>2, DiscoveryKeeps
<1>4. cur' = cur /\ Present' = Present
  BY <1>1, <1>3 DEF cur, Present
<1>5. PlaceInv'
  BY <1>1, <1>2, <1>3 DEF BuildInv, PlaceInv, Looping, Resting, Reading, treeVars, cacheVars, resultVars
<1>6. StatInv'
  <2>1. stamp[cur] \in Nat
    BY <1>1, CurIsToDo DEF BuildInv, PlaceInv, Looping
  <2> QED BY <1>1, <1>3, <1>4, <2>1 DEF StatInv
<1>7. CalmInv'
  BY <1>1, <1>2, <1>3, <1>4 DEF BuildInv, CalmInv, Reading
<1> QED BY <1>3, <1>5, <1>6, <1>7 DEF BuildInv, Promises

\* A file is hashed; the last one begins the loop over the sources.
LEMMA HashStep == ASSUME BuildInv, hash_streaming PROVE BuildInv'
<1>1. /\ UNCHANGED <<tree, stamp, edits, parseCache, chunkCache, embedCache, store, manifest, previous, builds, calm, suspect>>
      /\ UNCHANGED <<before, bytes, chunks, draft>>
      /\ pc = "hash" /\ tree[cur] # Gone /\ before = stamp[cur]
      /\ found' = Put(found, cur, tree[cur]) /\ attempt' = 0
      /\ IF todo = {cur} THEN pc' = "read" /\ todo' = DOMAIN found' ELSE pc' = "stat" /\ todo' = todo \ {cur}
  BY DEF hash_streaming, treeVars, cacheVars, resultVars
<1>2. cur \in todo /\ todo \in SUBSET Files /\ cur \in Files /\ draft = EmptyDraft /\ Members(chunks) = {}
  BY <1>1, CurIsToDo DEF BuildInv, PlaceInv, ChunkInv, Looping
<1>3. tree[cur] \in Contents \ TooLarge
  BY <1>1 DEF BuildInv, StatInv
<1>4. /\ DOMAIN found' = DOMAIN found \cup {cur}
      /\ found' \in [DOMAIN found' -> Contents \ TooLarge]
      /\ found'[cur] = tree[cur] /\ \A f \in DOMAIN found : f # cur => found'[f] = found[f]
  <2>1. found \in [DOMAIN found -> Contents \ TooLarge]
    BY DEF BuildInv, PlaceInv
  <2> DEFINE new == Put(found, cur, tree[cur])
  <2>2. DOMAIN new = DOMAIN found \cup {cur} /\ new[cur] = tree[cur] /\ \A f \in DOMAIN found : f # cur => new[f] = found[f]
    BY DEF Put
  <2>3. new \in [DOMAIN found \cup {cur} -> Contents \ TooLarge]
    BY <1>3, <2>1, PutFacts
  <2> HIDE DEF new
  <2>4. found' = new
    BY <1>1 DEF new
  <2> QED BY <2>2, <2>3, <2>4
<1>5. DOMAIN found' \subseteq Files
  BY <1>2, <1>4 DEF BuildInv, PlaceInv
<1>6. CacheInv'
  BY <1>1 DEF BuildInv, CacheInv, WrongEntriesHaveACause
<1>7. calm => DOMAIN found' \cup (todo \ {cur}) = Present /\ \A f \in DOMAIN found' : found'[f] = tree[f]
  BY <1>1, <1>2, <1>4 DEF BuildInv, CalmInv
<1>8. Present' = Present
  BY <1>1 DEF Present
<1>9. CASE todo = {cur}
  <2>1. pc' = "read" /\ todo' = DOMAIN found' /\ DOMAIN found' \ todo' = {} /\ todo' # {}
    BY <1>1, <1>4, <1>9
  <2>2. PlaceInv'
    BY <1>1, <1>4, <1>5, <2>1 DEF BuildInv, PlaceInv, Looping, Resting, Reading
  <2>3. StatInv'
    BY <2>1 DEF StatInv
  <2>4. DraftInv' /\ ChunkInv' /\ Read' = {} /\ Parsed' = {}
    BY <1>1, <1>2, <2>1, LoopBegins
  <2>5. CalmInv'
    BY <1>1, <1>7, <1>8, <1>9, <2>1, <2>4 DEF CalmInv
  <2> QED BY <1>6, <2>1, <2>2, <2>3, <2>4, <2>5, NothingPromised DEF BuildInv, Promises
<1>10. CASE todo # {cur}
  <2>1. pc' = "stat" /\ todo' = todo \ {cur} /\ todo' # {}
    BY <1>1, <1>2, <1>10
  <2>2. PlaceInv'
    BY <1>1, <1>2, <1>4, <1>5, <2>1 DEF BuildInv, PlaceInv, Looping, Resting, Reading
  <2>3. StatInv' /\ DraftInv'
    BY <2>1 DEF StatInv, DraftInv, Reading
  <2>4. ChunkInv'
    BY <1>1, <1>2, <2>1 DEF ChunkInv, Reading
  <2>5. CalmInv'
    BY <1>1, <1>7, <1>8, <2>1 DEF CalmInv, Reading
  <2> QED BY <1>6, <2>1, <2>2, <2>3, <2>4, <2>5, NothingPromised DEF BuildInv, Promises
<1> QED BY <1>9, <1>10
-----------------------------------------------------------------------------
(* The loop over the sources *)

\* What no step of that loop touches, and what it only adds to
Frame ==
  /\ UNCHANGED <<tree, stamp, edits, found, manifest, previous, builds>>
  /\ store' \in SUBSET Contents
  /\ attempt' \in 0..1
  /\ bytes' \in Contents \cup {Gone}

\* The source the loop is at is a discovered one that is not done yet.
LEMMA AtASource == ASSUME BuildInv, pc \in Reading PROVE cur \in todo /\ cur \in DOMAIN found /\ cur \in Files /\ cur \notin Finished /\ found[cur] \in Contents
<1>1. cur \in todo
  BY CurIsToDo DEF BuildInv, PlaceInv, Looping, Reading
<1> QED BY <1>1 DEF BuildInv, PlaceInv, Finished

\* The loop stays at its source.
LEMMA Stays ==
  ASSUME BuildInv, Frame, pc \in Reading, pc' \in {"parse", "chunk", "embed"}, todo' = todo
  PROVE  PlaceInv' /\ StatInv' /\ Promises' /\ cur' = cur /\ Finished' = Finished /\ Present' = Present
<1>1. PlaceInv'
  BY DEF BuildInv, PlaceInv, Frame, Looping, Resting, Reading
<1>2. StatInv'
  BY DEF StatInv
<1>3. cur' = cur /\ Finished' = Finished /\ Present' = Present
  BY DEF cur, Finished, Present, Frame
<1> QED BY <1>1, <1>2, <1>3, NothingPromised

\* The loop is done with its source.
LEMMA Ends ==
  ASSUME BuildInv, Frame, pc \in Reading, SourceDone
  PROVE  /\ PlaceInv' /\ StatInv' /\ Promises' /\ Finished' = Finished \cup {cur} /\ Present' = Present
         /\ pc' \in {"read", "finish"}
<1>1. todo' = todo \ {cur} /\ pc' = IF todo' = {} THEN "finish" ELSE "read"
  BY DEF SourceDone
<1>2. cur \in todo /\ cur \in DOMAIN found
  BY AtASource
<1>3. PlaceInv'
  BY <1>1 DEF BuildInv, PlaceInv, Frame, Looping, Resting, Reading
<1>4. StatInv'
  BY <1>1 DEF StatInv
<1>5. Finished' = Finished \cup {cur} /\ Present' = Present
  BY <1>1, <1>2 DEF Finished, Present, Frame
<1> QED BY <1>1, <1>3, <1>4, <1>5, NothingPromised

\* The chunks of a source depend on its hash and its parse record only.
LEMMA ChunksKept ==
  ASSUME NEW S, found' = found, \A f \in S : draft'.parse[f] = draft.parse[f]
  PROVE  UNION {ChunksOf(f)' : f \in S} = UNION {ChunksOf(f) : f \in S}
<1>1. \A f \in S : ChunksOf(f)' = ChunksOf(f)
  BY DEF ChunksOf
<1> QED BY <1>1

\* A source without elements has no chunks.
LEMMA EmptyHasNoChunks ==
  ASSUME NEW f, NEW h PROVE Members(ChunkList(f, h, Candidates(<<>>))) = {}
<1>1. Candidates(<<>>) = <<>>
  BY EmptySeq, CandidatesAreAList
<1>2. Len(<<>>) = 0 /\ 1..0 = {}
  BY EmptySeq
<1>3. ChunkList(f, h, <<>>) = <<>>
  <2>1. ChunkList(f, h, <<>>) = [i \in {} |-> Chunk(f, h, <<>>, i)]
    BY <1>2 DEF ChunkList
  <2> QED BY <2>1, NoneIsEmpty DEF None
<1> QED BY <1>1, <1>3, NoMembers

\* Reading and parsing a source leave the chunks of the others.
LEMMA NoChunkMoves ==
  ASSUME BuildInv, pc \in {"read", "parse"}, pc' \in {"read", "parse", "chunk", "finish"}, chunks' = chunks,
         draft'.chunks = draft.chunks, draft'.embeddings = draft.embeddings, draft'.warned = draft.warned
  PROVE  ChunkInv'
<1>1. Members(chunks) = {}
  BY DEF BuildInv, ChunkInv
<1>2. Embedded' = Embedded
  BY DEF Embedded
<1> QED BY <1>1, <1>2 DEF BuildInv, ChunkInv, Reading
\* The file is read, and its source has a parser.
LEMMA ReadStep == ASSUME BuildInv, read_bytes, <<cur, found[cur]>> \in Parseable PROVE BuildInv'
<1> DEFINE raw == Put(draft.raw, cur, tree[cur])
<1>1. /\ UNCHANGED <<tree, stamp, edits, parseCache, chunkCache, embedCache, manifest, previous, builds, calm, found, before, attempt, chunks, todo>>
      /\ pc = "read" /\ pc' = "parse" /\ tree[cur] # Gone
      /\ store' = store \cup {tree[cur]} /\ bytes' = tree[cur]
      /\ suspect' = IF tree[cur] = found[cur] THEN suspect ELSE suspect \cup {found[cur]}
      /\ draft' = [draft EXCEPT !.raw = raw]
  BY DEF read_bytes, treeVars
<1>2. cur \in todo /\ cur \in DOMAIN found /\ cur \in Files /\ cur \notin Finished /\ found[cur] \in Contents
  BY <1>1, AtASource DEF Reading
<1>3. tree[cur] \in Contents
  BY <1>1, <1>2 DEF BuildInv, PlaceInv
<1>4. Frame
  BY <1>1, <1>3 DEF Frame, BuildInv, PlaceInv
<1>5. PlaceInv' /\ StatInv' /\ Promises' /\ cur' = cur /\ Finished' = Finished /\ Present' = Present
  BY <1>1, <1>4, Stays DEF Reading
<1>6. IsDraft(draft) /\ draft.raw \in [Finished -> store] /\ draft.parse \in [Finished -> Outcomes] /\ draft.chunks = UNION {ChunksOf(f) : f \in Finished}
  BY <1>1 DEF BuildInv, DraftInv, Reading, Read, Parsed, Chunked
<1>7. Read' = Finished \cup {cur} /\ Parsed' = Finished /\ Chunked' = Finished
  BY <1>1, <1>5 DEF Read, Parsed, Chunked
<1>8. /\ raw \in [Finished \cup {cur} -> store'] /\ raw[cur] = tree[cur]
      /\ \A f \in Finished : raw[f] = draft.raw[f]
  <2>1. draft.raw \in [Finished -> store'] /\ tree[cur] \in store'
    BY <1>1, <1>6
  <2>2. raw \in [Finished \cup {cur} -> store'] /\ raw[cur] = tree[cur] /\ \A f \in Finished : f # cur => raw[f] = draft.raw[f]
    BY <2>1 DEF Put
  <2> QED BY <1>2, <2>2
<1> HIDE DEF raw
<1>9. /\ IsDraft(draft') /\ draft'.raw = raw /\ draft'.parse = draft.parse /\ draft'.chunks = draft.chunks
      /\ draft'.embeddings = draft.embeddings /\ draft'.warned = draft.warned
  <2>1. draft' = [raw |-> raw, parse |-> draft.parse, chunks |-> draft.chunks, embeddings |-> draft.embeddings, warned |-> draft.warned, quality |-> draft.quality]
    BY <1>1, <1>6, DraftUpdate
  <2> QED BY <2>1 DEF IsDraft
<1>10. CacheInv'
  BY <1>1 DEF BuildInv, CacheInv, WrongEntriesHaveACause
<1>11. DraftInv'
  <2>1. UNION {ChunksOf(f)' : f \in Finished} = UNION {ChunksOf(f) : f \in Finished}
    BY <1>1, <1>9, ChunksKept
  <2>2. bytes' = found[cur] \/ found[cur] \in suspect'
    BY <1>1
  <2> QED BY <1>1, <1>5, <1>6, <1>7, <1>8, <1>9, <2>1, <2>2 DEF DraftInv, Reading
<1>12. ChunkInv'
  BY <1>1, <1>9, NoChunkMoves
<1>13. CalmInv'
  <2> SUFFICES ASSUME calm PROVE CalmInv'
    BY <1>1 DEF CalmInv
  <2>1. DOMAIN found = Present /\ \A f \in DOMAIN found : found[f] = tree[f]
    BY <1>1 DEF BuildInv, CalmInv, Reading
  <2>2. \A f \in Finished : draft.raw[f] = tree[f] /\ (found[f] \notin suspect => draft.parse[f] = Expected(f))
    BY <1>1 DEF BuildInv, CalmInv, Reading, Read, Parsed
  <2>3. \A f \in Finished \cup {cur} : raw[f] = tree[f]
    BY <1>8, <2>2
  <2>4. \A f : Expected(f)' = Expected(f)
    BY <1>1 DEF Expected
  <2> QED BY <1>1, <1>5, <1>7, <1>9, <2>1, <2>2, <2>3, <2>4 DEF CalmInv, Reading
<1> QED BY <1>5, <1>10, <1>11, <1>12, <1>13 DEF BuildInv, Promises
\* A source gets its parse record: it has elements to chunk, or is done.
LEMMA RecordStep ==
  ASSUME BuildInv, Frame, pc \in {"read", "parse"}, NEW raw, NEW outcome \in Outcomes,
         raw \in [Finished \cup {cur} -> store'], \A f \in Finished : raw[f] = draft.raw[f],
         draft' = [raw |-> raw, parse |-> Put(draft.parse, cur, outcome), chunks |-> draft.chunks,
                   embeddings |-> draft.embeddings, warned |-> draft.warned, quality |-> draft.quality],
         chunks' = chunks,
         suspect \subseteq suspect',
         calm' => calm /\ raw[cur] = tree[cur] /\ (found[cur] \notin suspect' => outcome = Expected(cur)),
         CacheInv',
         IF outcome.document = <<>> THEN SourceDone ELSE pc' = "chunk" /\ UNCHANGED <<todo, bytes>>
  PROVE  BuildInv'
<1> DEFINE parse == Put(draft.parse, cur, outcome)
           all == Finished \cup {cur}
<1>1. cur \in todo /\ cur \in DOMAIN found /\ cur \in Files /\ cur \notin Finished /\ found[cur] \in Contents
  BY AtASource DEF Reading
<1>2. draft.parse \in [Finished -> Outcomes] /\ draft.chunks = UNION {ChunksOf(f) : f \in Finished}
  BY DEF BuildInv, DraftInv, Reading, Parsed, Chunked
<1>3. parse \in [all -> Outcomes] /\ parse[cur] = outcome /\ \A f \in Finished : parse[f] = draft.parse[f]
  <2>1. parse \in [all -> Outcomes] /\ parse[cur] = outcome /\ \A f \in Finished : f # cur => parse[f] = draft.parse[f]
    BY <1>2 DEF Put
  <2> QED BY <1>1, <2>1
<1> HIDE DEF parse
<1>4. /\ IsDraft(draft') /\ draft'.raw = raw /\ draft'.parse = parse /\ draft'.chunks = draft.chunks
      /\ draft'.embeddings = draft.embeddings /\ draft'.warned = draft.warned
  BY DEF IsDraft, parse
<1>5. UNION {ChunksOf(f)' : f \in Finished} = UNION {ChunksOf(f) : f \in Finished}
  <2>1. found' = found
    BY DEF Frame
  <2> QED BY <1>3, <1>4, <2>1, ChunksKept
<1>6. /\ PlaceInv' /\ StatInv' /\ Promises' /\ Present' = Present
      /\ Read' = all /\ Parsed' = all
      /\ pc' \in {"chunk", "read", "finish"}
      /\ pc' = "chunk" => cur' = cur /\ Chunked' = Finished /\ parse[cur].document # <<>>
      /\ pc' # "chunk" => Chunked' = all /\ parse[cur].document = <<>>
  <2>1. CASE outcome.document = <<>>
    <3>1. SourceDone
      BY <2>1
    <3>2. PlaceInv' /\ StatInv' /\ Promises' /\ Finished' = all /\ Present' = Present /\ pc' \in {"read", "finish"}
      BY <3>1, Ends DEF Reading
    <3> QED BY <1>3, <2>1, <3>2 DEF Read, Parsed, Chunked
  <2>2. CASE outcome.document # <<>>
    <3>1. pc' = "chunk" /\ todo' = todo
      BY <2>2
    <3>2. PlaceInv' /\ StatInv' /\ Promises' /\ cur' = cur /\ Finished' = Finished /\ Present' = Present
      BY <3>1, Stays DEF Reading
    <3> QED BY <1>3, <2>2, <3>1, <3>2 DEF Read, Parsed, Chunked
  <2> QED BY <2>1, <2>2
<1>7. draft.chunks = UNION {ChunksOf(f)' : f \in Chunked'}
  <2>1. CASE pc' = "chunk"
    BY <1>2, <1>5, <1>6, <2>1
  <2>2. CASE pc' # "chunk"
    <3>1. ASSUME NEW f, f = cur PROVE ChunksOf(f)' = {}
      <4>1. ChunksOf(f)' = Members(ChunkList(f, found'[f], Candidates(parse[f].document)))
        BY <1>4 DEF ChunksOf
      <4> QED BY <1>6, <2>2, <3>1, <4>1, EmptyHasNoChunks
    <3>2. UNION {ChunksOf(f)' : f \in all} = UNION {ChunksOf(f)' : f \in Finished}
      BY <3>1
    <3> QED BY <1>2, <1>5, <1>6, <2>2, <3>1, <3>2
  <2> QED BY <2>1, <2>2
<1>8. DraftInv'
  BY <1>3, <1>4, <1>6, <1>7 DEF DraftInv
<1>9. ChunkInv'
  BY <1>4, <1>6, NoChunkMoves
<1>10. CalmInv'
  <2> SUFFICES ASSUME calm' PROVE CalmInv'
    BY DEF CalmInv
  <2>1. calm /\ raw[cur] = tree[cur] /\ (found[cur] \notin suspect' => parse[cur] = Expected(cur))
    BY <1>3
  <2>2. DOMAIN found = Present /\ \A f \in DOMAIN found : found[f] = tree[f]
    BY <2>1 DEF BuildInv, CalmInv, Reading
  <2>3. \A f \in Finished : draft.raw[f] = tree[f] /\ (found[f] \notin suspect => draft.parse[f] = Expected(f))
    BY <2>1 DEF BuildInv, CalmInv, Reading, Read, Parsed
  <2>4. \A f \in all : raw[f] = tree[f] /\ (found[f] \notin suspect' => parse[f] = Expected(f))
    BY <1>3, <2>1, <2>3
  <2>5. \A f : Expected(f)' = Expected(f)
    BY DEF Expected, Frame
  <2>6. tree' = tree /\ found' = found
    BY DEF Frame
  <2> HIDE DEF all
  <2> QED BY <1>4, <1>6, <2>2, <2>4, <2>5, <2>6 DEF CalmInv, Reading
<1> QED BY <1>6, <1>8, <1>9, <1>10 DEF BuildInv, Promises

\* The file is read, and its media type has no parser.
LEMMA NoParserStep == ASSUME BuildInv, read_bytes, <<cur, found[cur]>> \notin Parseable PROVE BuildInv'
<1> DEFINE raw == Put(draft.raw, cur, tree[cur])
<1>1. /\ UNCHANGED <<tree, stamp, edits, parseCache, chunkCache, embedCache, manifest, previous, builds, calm, found, before, attempt, chunks>>
      /\ pc = "read" /\ tree[cur] # Gone
      /\ store' = store \cup {tree[cur]} /\ SourceDone
      /\ suspect' = IF tree[cur] = found[cur] THEN suspect ELSE suspect \cup {found[cur]}
      /\ draft' = [draft EXCEPT !.raw = raw, !.parse = Put(draft.parse, cur, Fail)]
  BY DEF read_bytes, treeVars
<1>2. cur \in todo /\ cur \in DOMAIN found /\ cur \in Files /\ cur \notin Finished /\ found[cur] \in Contents
  BY <1>1, AtASource DEF Reading
<1>3. tree[cur] \in Contents
  BY <1>1, <1>2 DEF BuildInv, PlaceInv
<1>4. Frame
  BY <1>1, <1>3 DEF Frame, BuildInv, PlaceInv, SourceDone
<1>5. IsDraft(draft) /\ draft.raw \in [Finished -> store]
  BY <1>1 DEF BuildInv, DraftInv, Reading, Read
<1>6. /\ raw \in [Finished \cup {cur} -> store'] /\ raw[cur] = tree[cur]
      /\ \A f \in Finished : raw[f] = draft.raw[f]
  <2>1. draft.raw \in [Finished -> store'] /\ tree[cur] \in store'
    BY <1>1, <1>5
  <2>2. raw \in [Finished \cup {cur} -> store'] /\ raw[cur] = tree[cur] /\ \A f \in Finished : f # cur => raw[f] = draft.raw[f]
    BY <2>1 DEF Put
  <2> QED BY <1>2, <2>2
<1> HIDE DEF raw
<1>7. draft' = [raw |-> raw, parse |-> Put(draft.parse, cur, Fail), chunks |-> draft.chunks,
                embeddings |-> draft.embeddings, warned |-> draft.warned, quality |-> draft.quality]
  BY <1>1, <1>5, DraftUpdates
<1>8. CacheInv'
  BY <1>1 DEF BuildInv, CacheInv, WrongEntriesHaveACause
<1>9. Fail \in Outcomes /\ Fail.document = <<>>
  BY DEF Outcomes, Fail
<1>10. calm => Fail = Expected(cur)
  BY <1>1, <1>2 DEF BuildInv, CalmInv, Expected
<1> QED BY <1>1, <1>4, <1>6, <1>7, <1>8, <1>9, <1>10, RecordStep
\* The parse stage, from the cache or through the sandbox.
LEMMA ParseStep == ASSUME BuildInv, parse_source PROVE BuildInv'
<1> DEFINE h == found[cur]
<1>1. /\ UNCHANGED <<tree, stamp, edits, chunkCache, embedCache, store, manifest, previous, builds, found, before, attempt, chunks>>
      /\ pc = "parse"
  BY DEF parse_source, treeVars
<1>2. cur \in todo /\ cur \in DOMAIN found /\ cur \in Files /\ cur \notin Finished /\ h \in Contents
  BY <1>1, AtASource DEF Reading
<1>3. /\ IsDraft(draft) /\ draft.raw \in [Finished \cup {cur} -> store] /\ bytes = draft.raw[cur]
      /\ <<cur, h>> \in Parseable /\ (bytes = h \/ h \in suspect)
  BY <1>1 DEF BuildInv, DraftInv, Reading, Read
<1>4. bytes \in Contents
  <2>1. bytes \in store
    BY <1>3
  <2> QED BY <2>1 DEF BuildInv, PlaceInv
<1>5. calm => draft.raw[cur] = tree[cur] /\ h = tree[cur]
  BY <1>1, <1>2 DEF BuildInv, CalmInv, Reading, Read
<1>6. PICK outcome \in Outcomes :
        /\ RecordParse(outcome)
        /\ suspect \subseteq suspect' /\ CacheInv'
        /\ calm' => calm /\ (h \notin suspect' => outcome = ParseOf[h])
  <2>1. CASE h \in DOMAIN parseCache
    <3>1. RecordParse(parseCache[h]) /\ parseCache' = parseCache /\ suspect' = suspect /\ calm' = calm
      BY <2>1 DEF parse_source
    <3>2. parseCache[h] \in Outcomes /\ (parseCache[h] = ParseOf[h] \/ h \in suspect)
      BY <2>1 DEF BuildInv, CacheInv, WrongEntriesHaveACause
    <3>3. CacheInv'
      BY <1>1, <3>1 DEF BuildInv, CacheInv, WrongEntriesHaveACause
    <3> QED BY <3>1, <3>2, <3>3
  <2>2. CASE h \notin DOMAIN parseCache
    <3>1. PICK outcome \in {ParseOf[bytes], Fail} :
            /\ parseCache' = Put(parseCache, h, outcome)
            /\ suspect' = IF outcome = ParseOf[bytes] THEN suspect ELSE suspect \cup {h}
            /\ calm' = (calm /\ outcome = ParseOf[bytes])
            /\ RecordParse(outcome)
      BY <2>2 DEF parse_source, run_sandboxed
    <3>2. outcome \in Outcomes
      BY <1>4 DEF Outcomes
    <3>3. outcome = ParseOf[h] \/ h \in suspect'
      BY <1>3, <3>1
    <3>4. DOMAIN parseCache' = DOMAIN parseCache \cup {h} /\ parseCache'[h] = outcome /\ \A x \in DOMAIN parseCache : x # h => parseCache'[x] = parseCache[x]
      BY <3>1 DEF Put
    <3>5. suspect \subseteq suspect'
      BY <3>1
    <3> HIDE DEF h
    <3>6. \A x \in DOMAIN parseCache' : x \in Contents /\ parseCache'[x] \in Outcomes /\ (parseCache'[x] = ParseOf[x] \/ x \in suspect')
      <4>1. \A x \in DOMAIN parseCache : x \in Contents /\ parseCache[x] \in Outcomes /\ (parseCache[x] = ParseOf[x] \/ x \in suspect)
        BY DEF BuildInv, CacheInv, WrongEntriesHaveACause
      <4> QED BY <1>2, <3>2, <3>3, <3>4, <3>5, <4>1
    <3>7. CacheInv'
      BY <1>1, <3>6 DEF BuildInv, CacheInv, WrongEntriesHaveACause
    <3>8. calm' => calm
      BY <3>1
    <3> QED BY <3>1, <3>2, <3>3, <3>5, <3>7, <3>8
  <2> QED BY <2>1, <2>2
<1>7. /\ draft' = [draft EXCEPT !.parse = Put(draft.parse, cur, outcome)]
      /\ IF outcome.document = <<>> THEN SourceDone ELSE pc' = "chunk" /\ UNCHANGED <<todo, bytes>>
  BY <1>6 DEF RecordParse
<1>8. draft' = [raw |-> draft.raw, parse |-> Put(draft.parse, cur, outcome), chunks |-> draft.chunks,
                embeddings |-> draft.embeddings, warned |-> draft.warned, quality |-> draft.quality]
  BY <1>3, <1>7, DraftUpdate
<1>9. Frame
  BY <1>1, <1>7 DEF Frame, BuildInv, PlaceInv, SourceDone
<1>10. calm' => calm /\ draft.raw[cur] = tree[cur] /\ (h \notin suspect' => outcome = Expected(cur))
  BY <1>3, <1>5, <1>6 DEF Expected
<1>11. draft.raw \in [Finished \cup {cur} -> store']
  BY <1>1, <1>3
<1> QED BY <1>1, <1>6, <1>7, <1>8, <1>9, <1>10, <1>11, RecordStep
\* The chunks of a source are that source's, and no two of them are equal.
LEMMA ChunkListFacts ==
  ASSUME NEW f, NEW h, NEW T, NEW list \in Seq(T)
  PROVE  LET made == ChunkList(f, h, list) IN
         /\ made \in Seq(Members(made)) /\ Len(made) = Len(list)
         /\ \A c \in Members(made) : c.file = f /\ c.hash = h
         /\ \A i, k \in 1..Len(made) : made[i] = made[k] => i = k
         /\ list = <<>> => Members(made) = {}
         /\ list # <<>> => made # <<>>
<1> DEFINE made == ChunkList(f, h, list)
<1>1. Len(list) \in Nat
  OBVIOUS
<1>2. made = [i \in 1..Len(list) |-> [file |-> f, hash |-> h, at |-> i, text |-> list[i]]]
  BY DEF ChunkList, Chunk
<1> HIDE DEF made
<1>3. DOMAIN made = 1..Len(list) /\ \A i \in 1..Len(list) : made[i] = [file |-> f, hash |-> h, at |-> i, text |-> list[i]]
  BY <1>2
<1>4. made \in [1..Len(list) -> {made[i] : i \in 1..Len(list)}]
  BY <1>2
<1>5. made \in Seq({made[i] : i \in 1..Len(list)}) /\ Len(made) = Len(list)
  <2>1. made \in Seq({made[i] : i \in 1..Len(list)})
    BY <1>1, <1>4, IsASeq, SeqDef
  <2>2. DOMAIN made = 1..Len(made) /\ Len(made) \in Nat
    BY <2>1, LenProperties
  <2> QED BY <1>1, <1>3, <2>1, <2>2
<1>6. Members(made) = {made[i] : i \in 1..Len(list)}
  BY <1>5 DEF Members
<1>7. \A c \in Members(made) : c.file = f /\ c.hash = h
  BY <1>3, <1>6
<1>8. ASSUME NEW i \in 1..Len(list), NEW k \in 1..Len(list), made[i] = made[k] PROVE i = k
  <2>1. made[i].at = i /\ made[k].at = k
    BY <1>3
  <2> QED BY <1>8, <2>1
<1>9. list = <<>> => Members(made) = {}
  <2>1. list = <<>> => 1..Len(list) = {}
    BY EmptySeq
  <2> QED BY <1>6, <2>1
<1>10. list # <<>> => made # <<>>
  <2>1. list # <<>> => Len(list) # 0
    BY EmptySeq
  <2>2. Len(<<>>) = 0
    BY EmptySeq
  <2> QED BY <1>5, <2>1, <2>2
<1> QED BY <1>5, <1>6, <1>7, <1>8, <1>9, <1>10 DEF made

\* _process_chunks: the source's chunks await their embedding.
LEMMA ChunkStep == ASSUME BuildInv, process_chunks PROVE BuildInv'
<1> DEFINE doc  == draft.parse[cur].document
           list == IF doc \in DOMAIN chunkCache THEN chunkCache[doc] ELSE Candidates(doc)
           all  == Finished \cup {cur}
<1>1. /\ UNCHANGED <<tree, stamp, edits, parseCache, embedCache, store, manifest, previous, builds, calm, suspect, found, before, attempt>>
      /\ pc = "chunk" /\ chunkCache' = Put(chunkCache, doc, list)
      /\ chunks' = ChunkList(cur, found[cur], list)
      /\ draft' = [draft EXCEPT !.chunks = draft.chunks \cup Members(chunks'),
                                !.quality = draft.quality \cup {<<cur, q>> : q \in Quality(doc, list)}]
      /\ IF list = <<>> THEN SourceDone ELSE pc' = "embed" /\ UNCHANGED <<todo, bytes>>
  BY DEF process_chunks, treeVars, resultVars
<1>2. cur \in todo /\ cur \in DOMAIN found /\ cur \in Files /\ cur \notin Finished /\ found[cur] \in Contents
  BY <1>1, AtASource DEF Reading
<1>3. /\ IsDraft(draft) /\ draft.raw \in [all -> store] /\ draft.parse \in [all -> Outcomes]
      /\ draft.chunks = UNION {ChunksOf(f) : f \in Finished}
  BY <1>1 DEF BuildInv, DraftInv, Reading, Read, Parsed, Chunked
<1>4. \A f \in all : draft.parse[f].document \in Seq(Texts)
  BY <1>3, OutcomeFacts
<1>5. list = Candidates(doc)
  BY DEF BuildInv, CacheInv, WrongEntriesHaveACause
<1>6. Candidates(doc) \in Seq(Texts)
  BY <1>4, CandidatesAreAList
<1>7. Members(chunks') = ChunksOf(cur) /\ chunks' = ChunkList(cur, found[cur], Candidates(doc))
  BY <1>1, <1>5 DEF ChunksOf
<1>8. /\ chunks' \in Seq(Members(chunks'))
      /\ \A c \in Members(chunks') : c.file = cur
      /\ \A i, k \in 1..Len(chunks') : chunks'[i] = chunks'[k] => i = k
      /\ list = <<>> => Members(chunks') = {}
      /\ list # <<>> => chunks' # <<>>
  BY <1>5, <1>6, <1>7, ChunkListFacts
<1> HIDE DEF list
<1>9. \A c \in draft.chunks : c.file \in Finished
  <2>1. ASSUME NEW f \in Finished, NEW c \in ChunksOf(f) PROVE c.file = f
    <3>1. Candidates(draft.parse[f].document) \in Seq(Texts)
      BY <1>4, CandidatesAreAList
    <3> QED BY <2>1, <3>1, ChunkListFacts DEF ChunksOf
  <2> QED BY <1>3, <2>1
<1>10. draft.chunks \cap Members(chunks') = {}
  BY <1>2, <1>8, <1>9
<1>11. /\ IsDraft(draft') /\ draft'.raw = draft.raw /\ draft'.parse = draft.parse
       /\ draft'.chunks = draft.chunks \cup Members(chunks')
       /\ draft'.embeddings = draft.embeddings /\ draft'.warned = draft.warned
  <2> DEFINE x == draft.chunks \cup Members(chunks')
             y == draft.quality \cup {<<cur, q>> : q \in Quality(doc, list)}
  <2>1. draft' = [draft EXCEPT !.chunks = x, !.quality = y]
    BY <1>1
  <2> HIDE DEF x, y
  <2>2. draft' = [raw |-> draft.raw, parse |-> draft.parse, chunks |-> x, embeddings |-> draft.embeddings, warned |-> draft.warned, quality |-> y]
    BY <1>3, <2>1, DraftUpdates
  <2> QED BY <2>2 DEF IsDraft, x
<1>12. Frame
  BY <1>1 DEF Frame, BuildInv, PlaceInv, SourceDone
<1>13. /\ PlaceInv' /\ StatInv' /\ Promises' /\ Present' = Present
       /\ Read' = all /\ Parsed' = all /\ Chunked' = all
       /\ \/ pc' = "embed" /\ chunks' # <<>>
          \/ pc' \in {"read", "finish"} /\ Members(chunks') = {}
  <2>1. CASE list = <<>>
    <3>1. SourceDone
      BY <1>1, <2>1
    <3>2. PlaceInv' /\ StatInv' /\ Promises' /\ Finished' = all /\ Present' = Present /\ pc' \in {"read", "finish"}
      BY <1>1, <1>12, <3>1, Ends DEF Reading
    <3> QED BY <1>8, <2>1, <3>2 DEF Read, Parsed, Chunked
  <2>2. CASE list # <<>>
    <3>1. pc' = "embed" /\ todo' = todo
      BY <1>1, <2>2
    <3>2. PlaceInv' /\ StatInv' /\ Promises' /\ cur' = cur /\ Finished' = Finished /\ Present' = Present
      BY <1>1, <1>12, <3>1, Stays DEF Reading
    <3> QED BY <1>8, <2>2, <3>1, <3>2 DEF Read, Parsed, Chunked
  <2> QED BY <2>1, <2>2
<1>14. CacheInv'
  <2>1. DOMAIN chunkCache' = DOMAIN chunkCache \cup {doc} /\ chunkCache'[doc] = Candidates(doc)
        /\ \A x \in DOMAIN chunkCache : x # doc => chunkCache'[x] = chunkCache[x]
    BY <1>1, <1>5 DEF Put
  <2>2. \A x \in DOMAIN chunkCache : chunkCache[x] = Candidates(x)
    BY DEF BuildInv, CacheInv, WrongEntriesHaveACause
  <2> HIDE DEF doc
  <2>3. \A x \in DOMAIN chunkCache' : chunkCache'[x] = Candidates(x)
    BY <2>1, <2>2
  <2> QED BY <1>1, <2>3 DEF BuildInv, CacheInv, WrongEntriesHaveACause
<1>15. draft'.chunks = UNION {ChunksOf(f)' : f \in all}
  <2>1. UNION {ChunksOf(f)' : f \in all} = UNION {ChunksOf(f) : f \in all}
    BY <1>1, <1>11, ChunksKept
  <2>2. UNION {ChunksOf(f) : f \in all} = (UNION {ChunksOf(f) : f \in Finished}) \cup ChunksOf(cur)
    OBVIOUS
  <2> QED BY <1>3, <1>7, <1>11, <2>1, <2>2
<1>16. DraftInv'
  BY <1>1, <1>3, <1>11, <1>13, <1>15 DEF DraftInv
<1>17. ChunkInv'
  <2>1. Embedded' = Embedded
    BY <1>11 DEF Embedded
  <2>2. Members(chunks) = {}
    BY <1>1 DEF BuildInv, ChunkInv
  <2>3. /\ Embedded \cup draft.warned \subseteq draft.chunks
        /\ \A c \in draft.chunks : c \in Embedded \cup draft.warned \/ c.text \in Blocked
        /\ \A e \in draft.embeddings : e.vector = e.chunk.text /\ e.chunk.text \notin Blocked
        /\ \A c \in draft.warned : c.text \notin Blocked
        /\ Embedded \cap draft.warned = {}
    BY <1>1, <2>2 DEF BuildInv, ChunkInv, Reading
  <2>4. Embedded' \cup draft'.warned \subseteq draft'.chunks \ Members(chunks')
    BY <1>10, <1>11, <2>1, <2>3
  <2>5. \A c \in draft'.chunks : c \in Embedded' \cup draft'.warned \/ c.text \in Blocked \/ c \in Members(chunks')
    BY <1>11, <2>1, <2>3
  <2>6. chunks' \in Seq(draft'.chunks)
    <3>1. Members(chunks') \subseteq draft'.chunks
      BY <1>11
    <3> QED BY <1>8, <3>1
  <2> QED BY <1>8, <1>11, <1>13, <2>1, <2>3, <2>4, <2>5, <2>6 DEF ChunkInv
<1>18. CalmInv'
  <2> SUFFICES ASSUME calm PROVE CalmInv'
    BY <1>1 DEF CalmInv
  <2>1. DOMAIN found = Present /\ \A f \in DOMAIN found : found[f] = tree[f]
    BY <1>1 DEF BuildInv, CalmInv, Reading
  <2>2. \A f \in all : draft.raw[f] = tree[f] /\ (found[f] \notin suspect => draft.parse[f] = Expected(f))
    BY <1>1 DEF BuildInv, CalmInv, Reading, Read, Parsed
  <2>3. \A f : Expected(f)' = Expected(f)
    BY <1>1 DEF Expected
  <2> HIDE DEF all
  <2> QED BY <1>1, <1>11, <1>13, <2>1, <2>2, <2>3 DEF CalmInv, Reading
<1> QED BY <1>13, <1>14, <1>16, <1>17, <1>18 DEF BuildInv, Promises
\* The first chunk of a list without duplicates, and the rest of it.
LEMMA FirstChunk ==
  ASSUME NEW S, NEW list \in Seq(S), list # <<>>, \A i, k \in 1..Len(list) : list[i] = list[k] => i = k
  PROVE  /\ Members(list) = {Head(list)} \cup Members(Tail(list)) /\ Head(list) \notin Members(Tail(list))
         /\ Head(list) \in S /\ Tail(list) \in Seq(S)
         /\ \A i, k \in 1..Len(Tail(list)) : Tail(list)[i] = Tail(list)[k] => i = k
         /\ IF Len(list) = 1 THEN Members(Tail(list)) = {} ELSE Tail(list) # <<>>
<1> DEFINE rest == Tail(list)
<1>1. Len(list) \in Nat /\ Len(list) # 0
  BY EmptySeq
<1>2. /\ Head(list) = list[1] /\ rest \in Seq(S) /\ Len(rest) = Len(list) - 1
      /\ \A i \in 1..Len(rest) : rest[i] = list[i + 1]
  BY <1>1, HeadTailProperties
<1> HIDE DEF rest
<1>3. 1 \in 1..Len(list) /\ \A i \in 1..Len(rest) : i \in Nat /\ i + 1 \in 1..Len(list) /\ i + 1 # 1
  BY <1>1, <1>2
<1>4. \A i \in 1..Len(list) : i \in Nat /\ (i = 1 \/ (i - 1 \in 1..Len(rest) /\ (i - 1) + 1 = i))
  BY <1>1, <1>2
<1>5. Head(list) \in S
  BY <1>2, <1>3, ElementOfSeq
<1>6. Members(list) = {Head(list)} \cup Members(rest)
  <2>1. ASSUME NEW i \in 1..Len(list) PROVE list[i] \in {Head(list)} \cup Members(rest)
    <3>1. CASE i = 1
      BY <1>2, <3>1
    <3>2. CASE i # 1
      <4>1. i - 1 \in 1..Len(rest) /\ (i - 1) + 1 = i
        BY <1>4, <3>2
      <4>2. rest[i - 1] = list[i]
        BY <1>2, <4>1
      <4> QED BY <4>1, <4>2 DEF Members
    <3> QED BY <3>1, <3>2
  <2>2. ASSUME NEW i \in 1..Len(rest) PROVE rest[i] \in Members(list)
    BY <1>2, <1>3 DEF Members
  <2>3. Head(list) \in Members(list)
    BY <1>2, <1>3 DEF Members
  <2> QED BY <2>1, <2>2, <2>3 DEF Members
<1>7. Head(list) \notin Members(rest)
  BY <1>2, <1>3 DEF Members
<1>8. ASSUME NEW i \in 1..Len(rest), NEW k \in 1..Len(rest), rest[i] = rest[k] PROVE i = k
  <2>1. i + 1 = k + 1 /\ i \in Nat /\ k \in Nat
    BY <1>2, <1>3, <1>8
  <2> QED BY <2>1
<1>9. IF Len(list) = 1 THEN Members(rest) = {} ELSE rest # <<>>
  <2>1. Len(<<>>) = 0 /\ (Len(list) = 1 => 1..Len(rest) = {})
    BY <1>2, EmptySeq
  <2> QED BY <1>1, <1>2, <2>1 DEF Members
<1> QED BY <1>2, <1>5, <1>6, <1>7, <1>8, <1>9 DEF rest

\* A chunk is dealt with: embedded, warned about, or blocked.
LEMMA ChunkDoneStep ==
  ASSUME BuildInv, pc = "embed", ChunkDone, CacheInv', NEW new, NEW warned,
         UNCHANGED <<tree, stamp, edits, manifest, previous, builds, calm, suspect, found, store>>,
         draft' = [raw |-> draft.raw, parse |-> draft.parse, chunks |-> draft.chunks,
                   embeddings |-> draft.embeddings \cup new, warned |-> draft.warned \cup warned, quality |-> draft.quality],
         \/ Head(chunks).text \in Blocked /\ new = {} /\ warned = {}
         \/ Head(chunks).text \notin Blocked /\ warned = {}
            /\ new = {[chunk |-> Head(chunks), vector |-> Head(chunks).text]}
         \/ Head(chunks).text \notin Blocked /\ new = {} /\ warned = {Head(chunks)}
  PROVE  BuildInv'
<1> DEFINE all == Finished \cup {cur}
           c == Head(chunks)
<1>1. chunks' = Tail(chunks) /\ attempt' = 0 /\ (IF Len(chunks) = 1 THEN SourceDone ELSE UNCHANGED <<pc, todo, bytes>>)
  BY DEF ChunkDone
<1>2. chunks \in Seq(draft.chunks) /\ chunks # <<>> /\ \A i, k \in 1..Len(chunks) : chunks[i] = chunks[k] => i = k
  BY DEF BuildInv, ChunkInv
<1>3. /\ Members(chunks) = {c} \cup Members(chunks') /\ c \notin Members(chunks')
      /\ c \in draft.chunks /\ chunks' \in Seq(draft.chunks)
      /\ \A i, k \in 1..Len(chunks') : chunks'[i] = chunks'[k] => i = k
      /\ IF Len(chunks) = 1 THEN Members(chunks') = {} ELSE chunks' # <<>>
  BY <1>1, <1>2, FirstChunk
<1>4. /\ IsDraft(draft) /\ draft.raw \in [all -> store] /\ draft.parse \in [all -> Outcomes]
      /\ draft.chunks = UNION {ChunksOf(f) : f \in all}
  BY DEF BuildInv, DraftInv, Reading, Read, Parsed, Chunked
<1>5. /\ IsDraft(draft') /\ draft'.raw = draft.raw /\ draft'.parse = draft.parse /\ draft'.chunks = draft.chunks
      /\ draft'.embeddings = draft.embeddings \cup new /\ draft'.warned = draft.warned \cup warned
  BY DEF IsDraft
<1>6. Frame
  BY <1>1 DEF Frame, BuildInv, PlaceInv, SourceDone
<1>7. /\ PlaceInv' /\ StatInv' /\ Promises' /\ Present' = Present
      /\ Read' = all /\ Parsed' = all /\ Chunked' = all
      /\ \/ pc' = "embed" /\ chunks' # <<>>
         \/ pc' \in {"read", "finish"} /\ Members(chunks') = {}
  <2>1. CASE Len(chunks) = 1
    <3>1. SourceDone
      BY <1>1, <2>1
    <3>2. PlaceInv' /\ StatInv' /\ Promises' /\ Finished' = all /\ Present' = Present /\ pc' \in {"read", "finish"}
      BY <1>6, <3>1, Ends DEF Reading
    <3> QED BY <1>3, <2>1, <3>2 DEF Read, Parsed, Chunked
  <2>2. CASE Len(chunks) # 1
    <3>1. pc' = "embed" /\ todo' = todo
      BY <1>1, <2>2
    <3>2. PlaceInv' /\ StatInv' /\ Promises' /\ cur' = cur /\ Finished' = Finished /\ Present' = Present
      BY <1>6, <3>1, Stays DEF Reading
    <3> QED BY <1>3, <2>2, <3>1, <3>2 DEF Read, Parsed, Chunked
  <2> QED BY <2>1, <2>2
<1>8. DraftInv'
  <2>1. UNION {ChunksOf(f)' : f \in all} = UNION {ChunksOf(f) : f \in all}
    BY <1>5, ChunksKept
  <2> QED BY <1>4, <1>5, <1>7, <2>1 DEF DraftInv
<1>9. ChunkInv'
  <2>1. /\ Embedded \cup draft.warned \subseteq draft.chunks \ Members(chunks)
        /\ \A x \in draft.chunks : x \in Embedded \cup draft.warned \/ x.text \in Blocked \/ x \in Members(chunks)
        /\ \A e \in draft.embeddings : e.vector = e.chunk.text /\ e.chunk.text \notin Blocked
        /\ \A x \in draft.warned : x.text \notin Blocked
        /\ Embedded \cap draft.warned = {}
    BY DEF BuildInv, ChunkInv, Reading
  <2> HIDE DEF c
  <2>2. Embedded' = Embedded \cup {e.chunk : e \in new}
    BY <1>5 DEF Embedded
  <2>3. \/ c.text \in Blocked /\ {e.chunk : e \in new} = {} /\ new = {} /\ warned = {}
        \/ c.text \notin Blocked /\ {e.chunk : e \in new} = {c} /\ warned = {} /\ \A e \in new : e.vector = c.text /\ e.chunk = c
        \/ c.text \notin Blocked /\ {e.chunk : e \in new} = {} /\ new = {} /\ warned = {c}
    <3> DEFINE e0 == [chunk |-> c, vector |-> c.text]
    <3>1. \/ c.text \in Blocked /\ new = {} /\ warned = {}
          \/ c.text \notin Blocked /\ warned = {} /\ new = {e0}
          \/ c.text \notin Blocked /\ new = {} /\ warned = {c}
      BY DEF c
    <3>2. e0.chunk = c /\ e0.vector = c.text
      OBVIOUS
    <3> HIDE DEF e0
    <3>3. new = {} => {e.chunk : e \in new} = {}
      OBVIOUS
    <3>4. new = {e0} => {e.chunk : e \in new} = {c} /\ \A e \in new : e.vector = c.text /\ e.chunk = c
      BY <3>2
    <3> QED BY <3>1, <3>3, <3>4
  <2>4. Embedded' \cup draft'.warned \subseteq draft'.chunks \ Members(chunks')
    BY <1>3, <1>5, <2>1, <2>2, <2>3
  <2>5. \A x \in draft'.chunks : x \in Embedded' \cup draft'.warned \/ x.text \in Blocked \/ x \in Members(chunks')
    BY <1>3, <1>5, <2>1, <2>2, <2>3
  <2>6. \A e \in draft'.embeddings : e.vector = e.chunk.text /\ e.chunk.text \notin Blocked
    BY <1>5, <2>1, <2>3
  <2>7. \A x \in draft'.warned : x.text \notin Blocked
    BY <1>5, <2>1, <2>3
  <2>8. Embedded' \cap draft'.warned = {}
    BY <1>3, <1>5, <2>1, <2>2, <2>3
  <2> QED BY <1>3, <1>5, <1>7, <2>4, <2>5, <2>6, <2>7, <2>8 DEF ChunkInv
<1>10. CalmInv'
  <2> SUFFICES ASSUME calm PROVE CalmInv'
    BY DEF CalmInv
  <2>1. DOMAIN found = Present /\ \A f \in DOMAIN found : found[f] = tree[f]
    BY DEF BuildInv, CalmInv, Reading
  <2>2. \A f \in all : draft.raw[f] = tree[f] /\ (found[f] \notin suspect => draft.parse[f] = Expected(f))
    BY DEF BuildInv, CalmInv, Reading, Read, Parsed
  <2>3. \A f : Expected(f)' = Expected(f)
    BY DEF Expected
  <2> HIDE DEF all
  <2> QED BY <1>5, <1>7, <2>1, <2>2, <2>3 DEF CalmInv, Reading
<1> QED BY <1>7, <1>8, <1>9, <1>10 DEF BuildInv, Promises
\* The first EmbeddingProviderError is tried again.
LEMMA RetryStep == ASSUME BuildInv, embed_again PROVE BuildInv'
<1>1. /\ UNCHANGED <<tree, stamp, edits, parseCache, chunkCache, embedCache, store, manifest, previous, builds, calm, suspect>>
      /\ UNCHANGED <<pc, todo, found, before, bytes, chunks, draft>>
      /\ pc = "embed" /\ attempt' = 1
  BY DEF embed_again, CallsProvider, Embeddable, treeVars, cacheVars, resultVars
<1>2. Frame
  BY <1>1 DEF Frame, BuildInv, PlaceInv
<1>3. PlaceInv' /\ StatInv' /\ Promises' /\ cur' = cur /\ Finished' = Finished /\ Present' = Present
  BY <1>1, <1>2, Stays DEF Reading
<1>4. CacheInv'
  BY <1>1 DEF BuildInv, CacheInv, WrongEntriesHaveACause
<1>5. Read' = Read /\ Parsed' = Parsed /\ Chunked' = Chunked
  BY <1>1, <1>3 DEF Read, Parsed, Chunked
<1>6. DraftInv'
  BY <1>1, <1>3, <1>5 DEF BuildInv, DraftInv, ChunksOf
<1>7. ChunkInv'
  BY <1>1 DEF BuildInv, ChunkInv, Embedded
<1>8. CalmInv'
  BY <1>1, <1>3, <1>5 DEF BuildInv, CalmInv, Expected
<1> QED BY <1>3, <1>4, <1>6, <1>7, <1>8 DEF BuildInv, Promises

\* A chunk is embedded, warned about after two failures, or blocked.
LEMMA EmbedStep == ASSUME BuildInv, skip_blocked \/ embed_chunk \/ embed_fails PROVE BuildInv'
<1> DEFINE c == Head(chunks)
<1>1. /\ UNCHANGED <<tree, stamp, edits, parseCache, chunkCache, store, manifest, previous, builds, calm, suspect, found>>
      /\ pc = "embed" /\ ChunkDone
  BY DEF skip_blocked, embed_chunk, embed_fails, CallsProvider, Embeddable, treeVars, cacheVars, resultVars
<1>2. IsDraft(draft) /\ draft.embeddings = draft.embeddings \cup {} /\ draft.warned = draft.warned \cup {}
  BY <1>1 DEF BuildInv, DraftInv, Reading
<1>3. embedCache' = embedCache => CacheInv'
  BY <1>1 DEF BuildInv, CacheInv, WrongEntriesHaveACause
<1>4. CASE skip_blocked
  <2>1. embedCache' = embedCache /\ draft' = draft /\ c.text \in Blocked
    BY <1>4 DEF skip_blocked, cacheVars
  <2>2. draft' = [raw |-> draft.raw, parse |-> draft.parse, chunks |-> draft.chunks,
                  embeddings |-> draft.embeddings \cup {}, warned |-> draft.warned \cup {}, quality |-> draft.quality]
    BY <1>2, <2>1 DEF IsDraft
  <2> QED BY <1>1, <1>3, <2>1, <2>2, ChunkDoneStep
<1>5. CASE embed_fails
  <2>1. embedCache' = embedCache /\ draft' = [draft EXCEPT !.warned = draft.warned \cup {c}] /\ c.text \notin Blocked
    BY <1>5 DEF embed_fails, CallsProvider, Embeddable, cacheVars
  <2>2. draft' = [raw |-> draft.raw, parse |-> draft.parse, chunks |-> draft.chunks,
                  embeddings |-> draft.embeddings \cup {}, warned |-> draft.warned \cup {c}, quality |-> draft.quality]
    <3> DEFINE x == draft.warned \cup {c}
    <3> HIDE DEF x
    <3>1. draft' = [draft EXCEPT !.warned = x]
      BY <2>1 DEF x
    <3>2. draft' = [raw |-> draft.raw, parse |-> draft.parse, chunks |-> draft.chunks,
                    embeddings |-> draft.embeddings, warned |-> x, quality |-> draft.quality]
      BY <1>2, <3>1, DraftUpdate
    <3> QED BY <1>2, <3>2 DEF x
  <2> QED BY <1>1, <1>3, <2>1, <2>2, ChunkDoneStep
<1>6. CASE embed_chunk
  <2> DEFINE t == c.text
             v == IF t \in DOMAIN embedCache THEN embedCache[t] ELSE t
  <2>1. /\ embedCache' = Put(embedCache, t, v) /\ t \notin Blocked
        /\ draft' = [draft EXCEPT !.embeddings = draft.embeddings \cup {[chunk |-> c, vector |-> v]}]
    BY <1>6 DEF embed_chunk, Embeddable
  <2>2. \A x \in DOMAIN embedCache : embedCache[x] = x /\ x \notin Blocked
    BY DEF BuildInv, CacheInv, WrongEntriesHaveACause
  <2>3. v = t
    BY <2>2
  <2>4. CacheInv'
    <3>1. DOMAIN embedCache' = DOMAIN embedCache \cup {t} /\ embedCache'[t] = t
          /\ \A x \in DOMAIN embedCache : x # t => embedCache'[x] = embedCache[x]
      BY <2>1, <2>3 DEF Put
    <3> HIDE DEF t
    <3>2. \A x \in DOMAIN embedCache' : embedCache'[x] = x /\ x \notin Blocked
      BY <2>1, <2>2, <3>1
    <3> QED BY <1>1, <3>2 DEF BuildInv, CacheInv, WrongEntriesHaveACause
  <2>5. draft' = [raw |-> draft.raw, parse |-> draft.parse, chunks |-> draft.chunks,
                  embeddings |-> draft.embeddings \cup {[chunk |-> c, vector |-> c.text]}, warned |-> draft.warned \cup {}, quality |-> draft.quality]
    <3> DEFINE x == draft.embeddings \cup {[chunk |-> c, vector |-> c.text]}
    <3>1. draft' = [draft EXCEPT !.embeddings = x]
      BY <2>1, <2>3
    <3> HIDE DEF x
    <3>2. draft' = [raw |-> draft.raw, parse |-> draft.parse, chunks |-> draft.chunks,
                    embeddings |-> x, warned |-> draft.warned, quality |-> draft.quality]
      BY <1>2, <3>1, DraftUpdate
    <3> QED BY <1>2, <3>2 DEF x
  <2> QED BY <1>1, <2>1, <2>4, <2>5, ChunkDoneStep
<1> QED BY <1>4, <1>5, <1>6
-----------------------------------------------------------------------------
(* The manifest *)

\* _attach_duplicate_relationships names the first copy, which is no copy.
LEMMA FirstCopy ==
  ASSUME NEW hashes, DOMAIN hashes \subseteq Nat, NEW f \in DOMAIN duplicate_of(hashes)
  PROVE  LET g == duplicate_of(hashes)[f] IN
         g < f /\ hashes[g] = hashes[f] /\ g \notin DOMAIN duplicate_of(hashes)
<1> DEFINE dom == {k \in DOMAIN hashes : \E g \in DOMAIN hashes : g < k /\ hashes[g] = hashes[k]}
           First(k, g) == hashes[g] = hashes[k] /\ \A j \in DOMAIN hashes : hashes[j] = hashes[k] => g <= j
           Same == {g \in DOMAIN hashes : hashes[g] = hashes[f]}
<1>1. duplicate_of(hashes) = [k \in dom |-> CHOOSE g \in DOMAIN hashes : First(k, g)]
  BY DEF duplicate_of
<1>2. DOMAIN duplicate_of(hashes) = dom /\ f \in dom
  BY <1>1
<1>3. duplicate_of(hashes)[f] = CHOOSE g \in DOMAIN hashes : First(f, g)
  BY <1>1, <1>2
<1>4. \E g \in DOMAIN hashes : First(f, g)
  <2>1. Same \in SUBSET Nat /\ f \in Same
    BY <1>2
  <2>2. PICK x \in Same : \A y \in Same : x <= y
    <3> HIDE DEF Same
    <3> QED BY <2>1, LeastElement
  <2> QED BY <2>2
<1> DEFINE g == duplicate_of(hashes)[f]
<1>5. g \in DOMAIN hashes /\ First(f, g)
  <2> HIDE DEF First
  <2> QED BY <1>3, <1>4
<1> HIDE DEF g
<1>6. \A k \in DOMAIN hashes : k \in Nat
  OBVIOUS
<1>7. g < f
  <2>1. PICK k \in DOMAIN hashes : k < f /\ hashes[k] = hashes[f]
    BY <1>2
  <2>2. g <= k /\ g \in Nat /\ k \in Nat /\ f \in Nat
    BY <1>2, <1>5, <1>6, <2>1
  <2> QED BY <2>1, <2>2
<1>8. g \notin dom
  <2> SUFFICES ASSUME NEW k \in DOMAIN hashes, k < g, hashes[k] = hashes[g] PROVE FALSE
    OBVIOUS
  <2>1. g <= k /\ g \in Nat /\ k \in Nat
    BY <1>5, <1>6
  <2> QED BY <2>1
<1> HIDE DEF dom
<1> QED BY <1>2, <1>5, <1>7, <1>8 DEF g

\* The manifest is assembled: what it promises holds.
LEMMA ManifestStep == ASSUME BuildInv, build_manifest PROVE BuildInv'
<1>1. /\ UNCHANGED <<treeVars, cacheVars, previous, builds, suspect>> /\ calm' = calm /\ pc = "finish" /\ pc' = "done" /\ Forget
      /\ tree' = tree /\ store' = store
  BY DEF build_manifest, treeVars, cacheVars
<1>2. /\ manifest'.sources = found /\ manifest'.duplicate_of = duplicate_of(found)
      /\ manifest'.tombstones = previous \ DOMAIN found /\ manifest'.status = build_status(draft.parse)
      /\ manifest'.raw = draft.raw /\ manifest'.parse = draft.parse /\ manifest'.chunks = draft.chunks
      /\ manifest'.embeddings = draft.embeddings /\ manifest'.warned = draft.warned
  BY DEF build_manifest, compute_tombstones
<1>3. todo = {} /\ DOMAIN found \subseteq Files /\ found \in [DOMAIN found -> Contents \ TooLarge]
  BY <1>1 DEF BuildInv, PlaceInv
<1>4. Read = DOMAIN found /\ Parsed = DOMAIN found /\ Chunked = DOMAIN found
  BY <1>1, <1>3 DEF Read, Parsed, Chunked, Finished
<1>5. /\ draft.raw \in [DOMAIN found -> store] /\ draft.parse \in [DOMAIN found -> Outcomes]
      /\ draft.chunks = UNION {ChunksOf(f) : f \in DOMAIN found}
  BY <1>1, <1>4 DEF BuildInv, DraftInv
<1>6. WarmBuildIsReference'
  <2> SUFFICES ASSUME calm, \A f \in DOMAIN found : found[f] \notin suspect PROVE IsReference(manifest)'
    BY <1>1, <1>2 DEF WarmBuildIsReference
  <2>1. DOMAIN found = Present /\ \A f \in Present : found[f] = tree[f]
    BY <1>1 DEF BuildInv, CalmInv
  <2>2. \A f \in Present : draft.raw[f] = tree[f] /\ draft.parse[f] = Expected(f)
    BY <1>1, <1>4, <2>1 DEF BuildInv, CalmInv
  <2>3. Present' = Present /\ \A f : Expected(f)' = Expected(f) /\ ExpectedChunks(f)' = ExpectedChunks(f)
    BY <1>1 DEF Present, Expected, ExpectedChunks
  <2>4. found = [f \in Present |-> tree[f]] /\ draft.raw = found
    BY <1>3, <1>5, <2>1, <2>2
  <2>5. draft.parse = [f \in Present |-> Expected(f)] /\ DOMAIN draft.parse = Present
    BY <1>5, <2>1, <2>2
  <2>6. draft.chunks = UNION {ExpectedChunks(f) : f \in Present}
    <3>1. \A f \in Present : ChunksOf(f) = ExpectedChunks(f)
      BY <2>1, <2>2 DEF ChunksOf, ExpectedChunks
    <3> QED BY <1>5, <2>1, <3>1
  <2>7. build_status(draft.parse) = IF \E f \in Present : Expected(f).status = "fail" THEN "incomplete" ELSE "complete"
    BY <2>2, <2>5 DEF build_status
  <2> QED BY <1>1, <1>2, <2>3, <2>4, <2>5, <2>6, <2>7 DEF IsReference
<1>7. ChunksAccountedFor'
  <2>1. Members(chunks) = {}
    BY <1>1 DEF BuildInv, ChunkInv
  <2>2. /\ Embedded \cup draft.warned \subseteq draft.chunks
        /\ \A c \in draft.chunks : c \in Embedded \cup draft.warned \/ c.text \in Blocked
        /\ \A e \in draft.embeddings : e.vector = e.chunk.text /\ e.chunk.text \notin Blocked
        /\ \A c \in draft.warned : c.text \notin Blocked
        /\ Embedded \cap draft.warned = {}
    BY <1>1, <2>1 DEF BuildInv, ChunkInv
  <2>3. \A c \in Embedded : c.text \notin Blocked
    BY <2>2 DEF Embedded
  <2> DEFINE blocked == {c \in draft.chunks : c.text \in Blocked}
  <2>4. draft.chunks = Embedded \cup blocked \cup draft.warned
    BY <2>2
  <2>5. Embedded \cap blocked = {} /\ blocked \cap draft.warned = {}
    BY <2>2, <2>3
  <2> QED BY <1>2, <2>2, <2>4, <2>5 DEF ChunksAccountedFor, Embedded
<1>8. ManifestIsClosed'
  <2>1. ASSUME NEW c \in draft.chunks
        PROVE  c.file \in DOMAIN found /\ c.hash = found[c.file] /\ draft.parse[c.file].status = "success"
    <3>1. PICK f \in DOMAIN found : c \in ChunksOf(f)
      BY <1>5
    <3> DEFINE doc == draft.parse[f].document
    <3>2. doc \in Seq(Texts) /\ (doc # <<>> => draft.parse[f].status = "success")
      BY <1>5, OutcomeFacts
    <3>3. Candidates(doc) \in Seq(Texts)
      BY <3>2, CandidatesAreAList
    <3>4. c.file = f /\ c.hash = found[f]
      <4> DEFINE h == found[f]
                 list == Candidates(doc)
      <4>1. c \in Members(ChunkList(f, h, list))
        BY <3>1 DEF ChunksOf
      <4> HIDE DEF list, h
      <4>2. list \in Seq(Texts)
        BY <3>3 DEF list
      <4>3. \A x \in Members(ChunkList(f, h, list)) : x.file = f /\ x.hash = h
        BY <4>2, ChunkListFacts
      <4> QED BY <4>1, <4>3 DEF h
    <3>5. doc # <<>>
      BY <3>1, EmptyHasNoChunks DEF ChunksOf
    <3> QED BY <3>2, <3>4, <3>5
  <2>2. \A f \in DOMAIN duplicate_of(found) :
          duplicate_of(found)[f] < f /\ found[duplicate_of(found)[f]] = found[f] /\ duplicate_of(found)[f] \notin DOMAIN duplicate_of(found)
    <3>1. DOMAIN found \subseteq Nat
      BY <1>3, TreeAssumption
    <3> QED BY <3>1, FirstCopy
  <2>3. DOMAIN draft.parse = DOMAIN found /\ DOMAIN draft.raw = DOMAIN found /\ \A f \in DOMAIN found : draft.raw[f] \in store
    BY <1>5
  <2>4. previous' = previous
    BY DEF build_manifest
  <2> QED BY <1>1, <1>2, <2>1, <2>2, <2>3, <2>4 DEF ManifestIsClosed
<1>9. DOMAIN manifest'.sources \subseteq Files
  BY <1>2, <1>3
<1> QED BY <1>1, <1>6, <1>7, <1>8, <1>9, EndStep DEF Promises

-----------------------------------------------------------------------------
(* Theorems *)

\* Nothing changes.
LEMMA NothingHappens == ASSUME BuildInv, UNCHANGED vars PROVE BuildInv'
<1>1. UNCHANGED <<tree, stamp, edits, parseCache, chunkCache, embedCache, store, pc, todo, found, before, attempt, bytes, chunks, draft, manifest, previous, builds, calm, suspect>>
  BY DEF vars, treeVars, cacheVars, buildVars, resultVars
<1>2. cur' = cur /\ Present' = Present
  BY <1>1 DEF cur, Present
<1>3. Finished' = Finished
  BY <1>1 DEF Finished
<1>4. Read' = Read /\ Parsed' = Parsed /\ Chunked' = Chunked
  BY <1>1, <1>2, <1>3 DEF Read, Parsed, Chunked
<1>5. PlaceInv' /\ StatInv' /\ CacheInv'
  BY <1>1, <1>2 DEF BuildInv, PlaceInv, StatInv, CacheInv, WrongEntriesHaveACause
<1>6. DraftInv'
  BY <1>1, <1>2, <1>4 DEF BuildInv, DraftInv, ChunksOf
<1>7. ChunkInv'
  BY <1>1 DEF BuildInv, ChunkInv, Embedded
<1>8. CalmInv'
  BY <1>1, <1>2, <1>4 DEF BuildInv, CalmInv, Expected
<1>9. Promises'
  <2>1. \A f : Expected(f)' = Expected(f) /\ ExpectedChunks(f)' = ExpectedChunks(f)
    BY <1>1 DEF Expected, ExpectedChunks
  <2>2. IsReference(manifest)' = IsReference(manifest)
    BY <1>1, <1>2, <2>1 DEF IsReference
  <2>3. WarmBuildIsReference'
    BY <1>1, <2>2 DEF BuildInv, WarmBuildIsReference
  <2>4. ChunksAccountedFor'
    BY <1>1 DEF BuildInv, ChunksAccountedFor
  <2>5. ManifestIsClosed'
    BY <1>1 DEF BuildInv, ManifestIsClosed
  <2> QED BY <2>3, <2>4, <2>5 DEF Promises
<1> QED BY <1>5, <1>6, <1>7, <1>8, <1>9 DEF BuildInv, Promises

\* The invariant of the builds, whatever the tree's owner, the parsers, the
\* provider and the one who kills builds do.
THEOREM BuildsAreCorrect == Spec => []BuildInv
<1>1. Init => BuildInv
  BY BuildStarts
<1>2. BuildInv /\ [Next]_vars => BuildInv'
  <2> SUFFICES ASSUME BuildInv, [Next]_vars PROVE BuildInv'
    OBVIOUS
  <2>1. CASE build_pipeline
    BY <2>1, CallStep
  <2>2. CASE Discover
    <3>1. CASE stat_raises \/ changed_during_read
      BY <3>1, RaiseStep DEF stat_raises, changed_during_read
    <3> QED BY <2>2, <3>1, WalkStep, StatStep, HashStep DEF Discover
  <2>3. CASE Process
    <3>1. CASE read_bytes
      BY <3>1, ReadStep, NoParserStep
    <3>2. CASE read_raises \/ embed_raises
      BY <3>2, RaiseStep DEF read_raises, embed_raises
    <3> QED BY <2>3, <3>1, <3>2, ParseStep, ChunkStep, EmbedStep, RetryStep DEF Process
  <2>4. CASE build_manifest
    BY <2>4, ManifestStep
  <2>5. CASE Killed
    BY <2>5, RaiseStep DEF Killed
  <2>6. CASE \E f \in Files, c \in Contents \cup {Gone} : Edit(f, c)
    BY <2>6, EditStep
  <2>7. CASE UNCHANGED vars
    BY <2>7, NothingHappens
  <2> QED BY <2>1, <2>2, <2>3, <2>4, <2>5, <2>6, <2>7 DEF Next, BuildStep
<1> QED BY <1>1, <1>2, PTL DEF Spec

\* The build's state has its types.
THEOREM BuildTypes == Spec => []TypeOK
<1>1. BuildInv => TypeOK
  <2> SUFFICES ASSUME BuildInv PROVE TypeOK
    OBVIOUS
  <2>1. \A f \in DOMAIN found : f \in Files /\ found[f] \in Contents \ TooLarge
    BY DEF BuildInv, PlaceInv
  <2>2. Busy /\ pc \notin {"walk", "finish"} => todo # {}
    BY DEF BuildInv, PlaceInv, Busy, Looping, Resting
  <2> QED BY <2>1, <2>2 DEF BuildInv, PlaceInv, CacheInv, TypeOK
<1> QED BY <1>1, BuildsAreCorrect, PTL

\* Cached chunk lists and vectors are right, and a wrong parse entry belongs
\* to a file that changed between hashing and reading or to a parser the
\* sandbox stopped.
THEOREM CacheEntriesHaveACause == Spec => []WrongEntriesHaveACause
<1>1. BuildInv => WrongEntriesHaveACause
  BY DEF BuildInv, CacheInv
<1> QED BY <1>1, BuildsAreCorrect, PTL

\* A build that nothing disturbed, over whatever the earlier ones cached,
\* makes the manifest of a build without a cache.
THEOREM WarmBuildsAreColdBuilds == Spec => []WarmBuildIsReference
<1>1. BuildInv => WarmBuildIsReference
  BY DEF BuildInv
<1> QED BY <1>1, BuildsAreCorrect, PTL

\* Each chunk of a manifest is embedded, blocked or warned about.
THEOREM EveryChunkIsAccountedFor == Spec => []ChunksAccountedFor
<1>1. BuildInv => ChunksAccountedFor
  BY DEF BuildInv
<1> QED BY <1>1, BuildsAreCorrect, PTL

\* Each record of a manifest hangs on one it contains.
THEOREM ManifestsAreClosed == Spec => []ManifestIsClosed
<1>1. BuildInv => ManifestIsClosed
  BY DEF BuildInv
<1> QED BY <1>1, BuildsAreCorrect, PTL
=============================================================================
