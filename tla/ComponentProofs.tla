--------------------------- MODULE ComponentProofs ---------------------------
(***************************************************************************)
(* Theorems about components that keep no state in common: the artifact    *)
(* store, the stage cache that builds share, the PII scan and the          *)
(* governance assertions; for any number of writers, artifacts, builders,  *)
(* keys, texts, recognizers, crashes and failing writes.                   *)
(***************************************************************************)
EXTENDS ArtifactStore, StageCache, PiiScan, Governance,
        FiniteSetTheorems, NaturalsInduction, WellFoundedInduction, TLAPS

-----------------------------------------------------------------------------
(* ArtifactStore: the inductive invariant and what follows from it *)

\* A file that is about to be renamed is complete
FlushedIsWhole == \A w \in Writers : pc[w] = "flushed" => temp[w] = "whole"

\* What a writer has put is in the store for good
StoredIsWhole == \A w \in Writers : \A d \in stored[w] : object[d] = "whole"

\* The strengthening that makes the two safety invariants inductive: the
\* rename publishes complete files only, and a row can name only what its
\* writer has put before.
StoreInv ==
  /\ TypeOK
  /\ FlushedIsWhole
  /\ NoPartialArtifact
  /\ StoredIsWhole
  /\ RefsResolve

\* The store starts empty, with nothing written and no row
LEMMA StoreInit == Init => StoreInv
<1> SUFFICES ASSUME Init PROVE StoreInv
  OBVIOUS
<1>1. TypeOK
  BY BoundsAssumption DEF Init, TypeOK, FileState, WriterPc
<1>2. FlushedIsWhole /\ NoPartialArtifact /\ StoredIsWhole /\ RefsResolve
  BY DEF Init, FlushedIsWhole, NoPartialArtifact, StoredIsWhole, RefsResolve
<1> QED
  BY <1>1, <1>2 DEF StoreInv

\* Every step of a writer keeps StoreInv, and no step damages a whole artifact
LEMMA StoreStep ==
  ASSUME StoreInv, [Next]_vars
  PROVE  StoreInv' /\ \A d \in Digests : object[d] = "whole" => object'[d] = "whole"
<1> DEFINE Kept == \A d \in Digests : object[d] = "whole" => object'[d] = "whole"
<1> USE DEF StoreInv, FileState, WriterPc
<1>1. ASSUME NEW w \in Writers, NEW d \in Digests, BeginPut(w, d)
      PROVE  StoreInv' /\ Kept
  <2>1. TypeOK'
    BY <1>1 DEF BeginPut, TypeOK
  <2>2. FlushedIsWhole' /\ NoPartialArtifact' /\ RefsResolve' /\ Kept
    BY <1>1 DEF BeginPut, TypeOK, FlushedIsWhole, NoPartialArtifact, RefsResolve
  <2>3. StoredIsWhole'
    BY <1>1 DEF BeginPut, TypeOK, StoredIsWhole, NoPartialArtifact
  <2> QED
    BY <2>1, <2>2, <2>3
<1>2. ASSUME NEW w \in Writers, OpenTemp(w)
      PROVE  StoreInv' /\ Kept
  BY <1>2 DEF OpenTemp, TypeOK, FlushedIsWhole, NoPartialArtifact, StoredIsWhole, RefsResolve
<1>3. ASSUME NEW w \in Writers, CloseTemp(w)
      PROVE  StoreInv' /\ Kept
  BY <1>3 DEF CloseTemp, TypeOK, FlushedIsWhole, NoPartialArtifact, StoredIsWhole, RefsResolve
<1>4. ASSUME NEW w \in Writers, Replace(w)
      PROVE  StoreInv' /\ Kept
  <2>1. temp[w] = "whole" /\ digest[w] \in Digests
    BY <1>4 DEF Replace, FlushedIsWhole, TypeOK
  <2>2. TypeOK'
    BY <1>4, <2>1 DEF Replace, TypeOK
  <2>3. FlushedIsWhole' /\ NoPartialArtifact' /\ Kept
    BY <1>4, <2>1 DEF Replace, TypeOK, FlushedIsWhole, NoPartialArtifact
  <2>4. StoredIsWhole' /\ RefsResolve'
    BY <1>4, <2>1 DEF Replace, TypeOK, StoredIsWhole, RefsResolve
  <2> QED
    BY <2>2, <2>3, <2>4
<1>5. ASSUME NEW w \in Writers, PutFails(w)
      PROVE  StoreInv' /\ Kept
  BY <1>5, BoundsAssumption
  DEF PutFails, Abandon, TypeOK, FlushedIsWhole, NoPartialArtifact, StoredIsWhole, RefsResolve
<1>6. ASSUME NEW w \in Writers, CommitRow(w)
      PROVE  StoreInv' /\ Kept
  BY <1>6 DEF CommitRow, TypeOK, FlushedIsWhole, NoPartialArtifact, StoredIsWhole, RefsResolve
<1>7. ASSUME NEW w \in Writers, RollBackRow(w)
      PROVE  StoreInv' /\ Kept
  BY <1>7 DEF RollBackRow, TypeOK, FlushedIsWhole, NoPartialArtifact, StoredIsWhole, RefsResolve
<1>8. ASSUME NEW w \in Writers, Crash(w)
      PROVE  StoreInv' /\ Kept
  BY <1>8, BoundsAssumption
  DEF Crash, Abandon, TypeOK, FlushedIsWhole, NoPartialArtifact, StoredIsWhole, RefsResolve
<1>9. CASE UNCHANGED vars
  BY <1>9 DEF vars, TypeOK, FlushedIsWhole, NoPartialArtifact, StoredIsWhole, RefsResolve
<1> QED
  BY <1>1, <1>2, <1>3, <1>4, <1>5, <1>6, <1>7, <1>8, <1>9 DEF Next, put

\* The store, its writers and the rows keep their types.
THEOREM StoreTypeCorrect == Spec => []TypeOK
<1>1. StoreInv => TypeOK
  BY DEF StoreInv
<1> QED
  BY <1>1, StoreInit, StoreStep, PTL DEF Spec

\* put's promise: no reader ever finds a partially written artifact.
THEOREM ReadersSeeWholeArtifacts == Spec => []NoPartialArtifact
<1>1. StoreInv => NoPartialArtifact
  BY DEF StoreInv
<1> QED
  BY <1>1, StoreInit, StoreStep, PTL DEF Spec

\* A committed row's artifact is in the store and whole, for ever after.
THEOREM RowsResolve == Spec => []RefsResolve
<1>1. StoreInv => RefsResolve
  BY DEF StoreInv
<1> QED
  BY <1>1, StoreInit, StoreStep, PTL DEF Spec

\* No step of any writer removes or damages an artifact.
THEOREM Immutability == Spec => ArtifactsAreImmutable
<1>1. StoreInv /\ [Next]_vars
        => [\A d \in Digests : object[d] = "whole" => object'[d] = "whole"]_vars
  BY StoreStep
<1> QED
  BY <1>1, StoreInit, StoreStep, PTL DEF Spec, ArtifactsAreImmutable

\* Litter is bounded by the number of killed processes.
THEOREM LitterBounded == Spec => []LitterOnlyFromCrashes
<1>1. StoreInv /\ LitterOnlyFromCrashes /\ [Next]_vars => LitterOnlyFromCrashes'
  <2> SUFFICES ASSUME StoreInv, LitterOnlyFromCrashes, [Next]_vars
               PROVE  LitterOnlyFromCrashes'
    OBVIOUS
  <2>1. litter \in Nat /\ crashes \in Nat /\ litter <= crashes
    BY BoundsAssumption DEF StoreInv, TypeOK, LitterOnlyFromCrashes
  <2>2. ASSUME NEW w \in Writers, Crash(w)
        PROVE  LitterOnlyFromCrashes'
    BY <2>1, <2>2 DEF Crash, LitterOnlyFromCrashes
  <2>3. CASE litter' = litter /\ crashes' = crashes
    BY <2>1, <2>3 DEF LitterOnlyFromCrashes
  <2> QED
    BY <2>2, <2>3
    DEF Next, put, BeginPut, OpenTemp, CloseTemp, Replace, PutFails, CommitRow, RollBackRow, vars
<1>2. Init => StoreInv /\ LitterOnlyFromCrashes
  BY StoreInit DEF Init, LitterOnlyFromCrashes
<1> QED
  BY <1>1, <1>2, StoreStep, PTL DEF Spec

\* The three together: what a reader of the store may rely on.
THEOREM Soundness == Spec => []StoreIsSound
<1>1. NoPartialArtifact /\ RefsResolve /\ LitterOnlyFromCrashes => StoreIsSound
  BY DEF StoreIsSound
<1> QED
  BY <1>1, ReadersSeeWholeArtifacts, RowsResolve, LitterBounded, PTL

-----------------------------------------------------------------------------
(* StageCache: the inductive invariant *)

Files == [text : Nat, size : Nat]

CacheTypes ==
  /\ entry \in [Stages -> Inodes \cup {NoFile}]
  /\ tmp \in [Stages -> Inodes \cup {NoFile}]
  /\ content \in [Inodes -> Files]
  /\ builderPc \in [Builders -> BuilderPc]
  /\ stage \in [Builders -> Stages]
  /\ fd \in [Builders -> Inodes \cup {NoFile}]
  /\ builderCrashes \in Nat

\* No file has two names
NamesApart ==
  /\ \A s, t \in Stages : entry[s] # NoFile /\ entry[s] = entry[t] => s = t
  /\ \A s, t \in Stages : tmp[s] # NoFile /\ tmp[s] = tmp[t] => s = t
  /\ \A s, t \in Stages : tmp[s] # NoFile => tmp[s] # entry[t]

\* A descriptor is open while its builder writes, on a file that only its
\* own key has a name for
DescriptorsInStage ==
  /\ \A b \in Builders : fd[b] # NoFile <=> builderPc[b] = "writing"
  /\ \A b \in Builders, s \in Stages : fd[b] # NoFile /\ (fd[b] = tmp[s] \/ fd[b] = entry[s]) => stage[b] = s

\* A key nobody clashed over: its entry is whole, and the only builder inside
\* put is about to write the empty file the temporary name has, or has
\* written all of it
QuietKeys ==
  \A s \in Stages : s \notin clashed =>
    /\ entry[s] # NoFile => Readable(entry[s])
    /\ \A b, c \in Builders : Putting(b, s) /\ Putting(c, s) => b = c
    /\ \A b \in Builders : Putting(b, s) =>
         /\ tmp[s] # NoFile
         /\ builderPc[b] = "writing" => fd[b] = tmp[s] /\ content[tmp[s]] = Empty
         /\ builderPc[b] = "written" => Readable(tmp[s])

\* The file holds the one text its key's value has, or a build has it open to
\* write that text
Settled(s, i) ==
  \/ content[i] = Empty /\ BeingWritten(i)
  \/ \E n \in Lengths[s] : content[i] = [text |-> n, size |-> n]

\* Without a crash, the files of a key whose value has one text settle
OneTextSettles ==
  builderCrashes = 0 =>
    \A s \in SameText, i \in Inodes : i = entry[s] \/ i = tmp[s] => Settled(s, i)

CacheDirInv ==
  /\ CacheTypes /\ NamesApart /\ DescriptorsInStage /\ QuietKeys /\ OneTextSettles
  /\ OnlyClashesFail

-----------------------------------------------------------------------------
\* The values of a function are at most as many as its arguments.
LEMMA FewValues ==
  ASSUME NEW S, IsFiniteSet(S), NEW T, NEW f \in [S -> T]
  PROVE  IsFiniteSet({f[x] : x \in S}) /\ Cardinality({f[x] : x \in S}) <= Cardinality(S)
<1> DEFINE V == {f[x] : x \in S}
<1>1. f \in Surjection(S, V)
  BY DEF Surjection
<1> HIDE DEF V
<1>2. IsFiniteSet(V) /\ Cardinality(V) <= Cardinality(S)
  BY <1>1, FS_Surjection
<1> QED BY <1>2 DEF V

\* A set of natural numbers that is not empty has a least element.
LEMMA LeastElement == ASSUME NEW T \in SUBSET Nat, T # {} PROVE \E x \in T : \A y \in T : x <= y
<1> DEFINE R == {p \in Nat \X Nat : p[1] < p[2]}
<1>1. IsWellFoundedOn(OpToRel(<, Nat), Nat)
  BY NatLessThanWellFounded
<1>2. OpToRel(<, Nat) = R
  BY DEF OpToRel
<1>3. PICK x \in T : \A y \in T : ~(<<y, x>> \in R)
  <2>1. IsWellFoundedOn(R, Nat)
    BY <1>1, <1>2
  <2> HIDE DEF R
  <2> QED BY <2>1, WFMin
<1>4. ASSUME NEW y \in T PROVE x <= y
  <2>1. y \in Nat /\ x \in Nat
    OBVIOUS
  <2>2. <<y, x>> \in Nat \X Nat => ~(<<y, x>>[1] < <<y, x>>[2])
    BY <1>3
  <2> QED BY <2>1, <2>2
<1> QED BY <1>4

\* There is a file to create when a temporary name is free.
LEMMA AFileIsFree ==
  ASSUME CacheTypes, NEW s \in Stages, tmp[s] = NoFile
  PROVE  Lowest(Unused) \in Unused
<1> DEFINE E == {entry[t] : t \in Stages}
           T == {tmp[t] : t \in Stages}
           F == {fd[b] : b \in Builders}
           n == 2 * NStages + Cardinality(Builders)
<1>1. IsFiniteSet(Builders) /\ Cardinality(Builders) \in Nat /\ NStages \in Nat
  BY CacheSizesAssumption, FS_CardinalityType
<1>2. IsFiniteSet(Stages) /\ Cardinality(Stages) = NStages
  <2>1. 1 \in Int /\ NStages \in Int /\ NStages >= 1
    BY CacheSizesAssumption
  <2> QED BY <2>1, FS_Interval DEF Stages
<1>3. IsFiniteSet(E) /\ Cardinality(E) <= NStages /\ Cardinality(E) \in Nat
  <2>1. IsFiniteSet(E) /\ Cardinality(E) <= Cardinality(Stages)
    <3>1. entry \in [Stages -> Inodes \cup {NoFile}]
      BY DEF CacheTypes
    <3> QED BY <1>2, <3>1, FewValues
  <2> QED BY <1>2, <2>1, FS_CardinalityType
<1>4. IsFiniteSet(T) /\ Cardinality(T) <= NStages /\ Cardinality(T) \in Nat
  <2>1. IsFiniteSet(T) /\ Cardinality(T) <= Cardinality(Stages)
    BY <1>2, FewValues DEF CacheTypes
  <2> QED BY <1>2, <2>1, FS_CardinalityType
<1>5. IsFiniteSet(F) /\ Cardinality(F) <= Cardinality(Builders) /\ Cardinality(F) \in Nat
  <2>1. IsFiniteSet(F) /\ Cardinality(F) <= Cardinality(Builders)
    BY <1>1, FewValues DEF CacheTypes
  <2> QED BY <2>1, FS_CardinalityType
<1>6. 0 \in T
  BY DEF NoFile
<1> HIDE DEF E, T, F
<1>7. IsFiniteSet(E \cup T) /\ Cardinality(E \cup T) <= 2 * NStages /\ Cardinality(E \cup T) \in Nat
  <2>1. IsFiniteSet(E \cup T) /\ Cardinality(E \cup T) = Cardinality(E) + Cardinality(T) - Cardinality(E \cap T)
    BY <1>3, <1>4, FS_Union
  <2>2. Cardinality(E \cap T) \in Nat
    BY <1>3, FS_Subset, FS_CardinalityType
  <2> QED BY <1>1, <1>3, <1>4, <2>1, <2>2, FS_CardinalityType
<1> DEFINE D == E \cup T
<1> HIDE DEF D
<1>8. IsFiniteSet(D \cup F) /\ Cardinality(D \cup F) <= n /\ Cardinality(D \cup F) \in Nat
  <2>1. IsFiniteSet(D) /\ Cardinality(D) <= 2 * NStages /\ Cardinality(D) \in Nat
    BY <1>7 DEF D
  <2>2. IsFiniteSet(D \cup F) /\ Cardinality(D \cup F) = Cardinality(D) + Cardinality(F) - Cardinality(D \cap F)
    BY <1>5, <2>1, FS_Union
  <2>3. Cardinality(D \cap F) \in Nat
    BY <2>1, FS_Subset, FS_CardinalityType
  <2> QED BY <1>1, <1>5, <2>1, <2>2, <2>3, FS_CardinalityType
<1>9. Unused # {}
  <2> SUFFICES ASSUME Unused = {} PROVE FALSE
    OBVIOUS
  <2>1. 1..n \subseteq D \cup F
    BY DEF Unused, Inodes, D, E, T, F
  <2>2. n \in Nat
    BY <1>1
  <2> HIDE DEF n
  <2>3. 0..n \subseteq D \cup F
    <3>1. \A i \in 0..n : i = 0 \/ i \in 1..n
      BY <2>2
    <3> QED BY <1>6, <2>1, <3>1 DEF D
  <2>4. Cardinality(0..n) = n + 1
    BY <2>2, FS_Interval
  <2>5. Cardinality(0..n) <= Cardinality(D \cup F)
    BY <1>8, <2>3, FS_Subset
  <2> QED BY <1>8, <2>2, <2>4, <2>5 DEF n
<1>10. \E i \in Unused : \A j \in Unused : i <= j
  <2>1. Unused \in SUBSET Nat
    BY <1>1 DEF Unused, Inodes
  <2> QED BY <1>9, <2>1, LeastElement
<1> QED BY <1>10 DEF Lowest

\* No file is NoFile.
LEMMA NoFileIsNone == NoFile \notin Inodes
<1>1. 2 * NStages + Cardinality(Builders) \in Nat
  BY CacheSizesAssumption, FS_CardinalityType
<1> QED BY <1>1 DEF NoFile, Inodes

\* The lengths of texts are positive numbers, and a text that is written over
\* nothing, or over a text of its own length, is whole.
LEMMA OneTextWritten ==
  ASSUME NEW s \in Stages, NEW n \in Lengths[s], NEW file \in Files
  PROVE  /\ n \in Nat \ {0} /\ Overwritten(file, n, n) \in Files
         /\ file = Empty \/ file = [text |-> n, size |-> n] => Overwritten(file, n, n) = [text |-> n, size |-> n]
<1>1. n \in Nat \ {0}
  BY CacheSizesAssumption DEF Stages
<1> QED BY <1>1 DEF Overwritten, Files, Empty

\* The cache directory is empty and no build has begun.
LEMMA CacheStarts == ASSUME CacheInit PROVE CacheDirInv
<1>1. 1 \in Stages
  BY CacheSizesAssumption DEF Stages
<1>2. CacheTypes
  BY <1>1 DEF CacheInit, CacheTypes, BuilderPc, Files, Empty
<1>3. NamesApart /\ DescriptorsInStage
  BY DEF CacheInit, NamesApart, DescriptorsInStage
<1>5. OneTextSettles
  BY NoFileIsNone DEF CacheInit, OneTextSettles, SameText
<1>4. QuietKeys /\ OnlyClashesFail
  BY DEF CacheInit, QuietKeys, Putting, OnlyClashesFail
<1> QED BY <1>2, <1>3, <1>4, <1>5 DEF CacheDirInv

\* A builder goes on to its next stage, ends its build, fails at a key that
\* builds clashed over, or begins again: it is outside put before and after.
LEMMA OutsidePut ==
  ASSUME CacheDirInv, NEW b \in Builders, builderPc[b] # "writing",
         UNCHANGED <<content, fd, clashed, builderCrashes>>,
         builderPc' \in [Builders -> BuilderPc], stage' \in [Builders -> Stages],
         \A c \in Builders \ {b} : builderPc'[c] = builderPc[c] /\ stage'[c] = stage[c],
         builderPc'[b] \in {"get", "compute", "done", "failed"},
         builderPc'[b] = "failed" => stage'[b] \in clashed,
         UNCHANGED <<entry, tmp>> \/
           (builderPc[b] = "written" /\ tmp[stage[b]] # NoFile
            /\ entry' = [entry EXCEPT ![stage[b]] = tmp[stage[b]]] /\ tmp' = [tmp EXCEPT ![stage[b]] = NoFile])
  PROVE  CacheDirInv'
<1> DEFINE s == stage[b]
<1>1. /\ s \in Stages /\ entry \in [Stages -> Inodes \cup {NoFile}] /\ tmp \in [Stages -> Inodes \cup {NoFile}]
      /\ content \in [Inodes -> Files] /\ fd[b] = NoFile
  BY DEF CacheDirInv, CacheTypes, DescriptorsInStage
<1>2. NoFile \notin Inodes
  BY NoFileIsNone
<1>3. /\ \A t \in Stages : (entry'[t] = entry[t] /\ tmp'[t] = tmp[t])
                            \/ (t = s /\ builderPc[b] = "written" /\ tmp[s] # NoFile /\ entry'[t] = tmp[s] /\ tmp'[t] = NoFile)
      /\ entry' \in [Stages -> Inodes \cup {NoFile}] /\ tmp' \in [Stages -> Inodes \cup {NoFile}]
  BY <1>1
<1>4. CacheTypes'
  BY <1>3 DEF CacheDirInv, CacheTypes
<1> HIDE DEF s
<1>5. NamesApart'
  BY <1>1, <1>3 DEF CacheDirInv, NamesApart
<1>6. DescriptorsInStage'
  <2>1. \A c \in Builders : fd'[c] # NoFile <=> builderPc'[c] = "writing"
    BY <1>1 DEF CacheDirInv, DescriptorsInStage
  <2>2. ASSUME NEW c \in Builders, NEW t \in Stages, fd[c] # NoFile, fd[c] = tmp'[t] \/ fd[c] = entry'[t] PROVE stage'[c] = t
    <3>1. c # b /\ stage'[c] = stage[c]
      BY <1>1, <2>2
    <3>2. fd[c] = tmp[t] \/ fd[c] = entry[t]
      BY <1>3, <2>2
    <3> QED BY <2>2, <3>1, <3>2 DEF CacheDirInv, DescriptorsInStage
  <2> QED BY <2>1, <2>2 DEF DescriptorsInStage
<1>7. QuietKeys'
  <2> SUFFICES ASSUME NEW t \in Stages, t \notin clashed
               PROVE  /\ entry'[t] # NoFile => Readable(entry'[t])
                      /\ \A d, c \in Builders : Putting(d, t)' /\ Putting(c, t)' => d = c
                      /\ \A c \in Builders : Putting(c, t)' =>
                           /\ tmp'[t] # NoFile
                           /\ builderPc'[c] = "writing" => fd[c] = tmp'[t] /\ content[tmp'[t]] = Empty
                           /\ builderPc'[c] = "written" => Readable(tmp'[t])
    BY DEF QuietKeys, Readable
  <2>1. /\ entry[t] # NoFile => Readable(entry[t])
        /\ \A d, c \in Builders : Putting(d, t) /\ Putting(c, t) => d = c
        /\ \A c \in Builders : Putting(c, t) =>
             /\ tmp[t] # NoFile
             /\ builderPc[c] = "writing" => fd[c] = tmp[t] /\ content[tmp[t]] = Empty
             /\ builderPc[c] = "written" => Readable(tmp[t])
    BY DEF CacheDirInv, QuietKeys
  <2>2. \A c \in Builders : Putting(c, t)' => c # b /\ Putting(c, t) /\ builderPc'[c] = builderPc[c]
    BY DEF Putting
  <2>3. CASE entry'[t] = entry[t] /\ tmp'[t] = tmp[t]
    BY <2>1, <2>2, <2>3
  <2>4. CASE t = s /\ builderPc[b] = "written" /\ tmp[s] # NoFile /\ entry'[t] = tmp[s] /\ tmp'[t] = NoFile
    <3>1. Putting(b, t)
      BY <2>4 DEF Putting, s
    <3> QED BY <2>1, <2>2, <2>4, <3>1
  <2> QED BY <1>3, <2>3, <2>4
<1>8. OneTextSettles'
  <2> SUFFICES ASSUME builderCrashes = 0, NEW t \in SameText, NEW j \in Inodes, j = entry'[t] \/ j = tmp'[t]
               PROVE  Settled(t, j)
    BY DEF OneTextSettles, Settled, BeingWritten, SameText
  <2>1. j = entry[t] \/ j = tmp[t]
    BY <1>2, <1>3 DEF SameText
  <2> QED BY <2>1 DEF CacheDirInv, OneTextSettles
<1>9. OnlyClashesFail'
  BY DEF CacheDirInv, OnlyClashesFail
<1> QED BY <1>4, <1>5, <1>6, <1>7, <1>8, <1>9 DEF CacheDirInv
\* write_text opens the temporary name: it creates a file, or truncates the
\* one another build left or is writing there.
LEMMA OpenStep == ASSUME CacheDirInv, NEW b \in Builders, OpenTmp(b) PROVE CacheDirInv'
<1> DEFINE s == stage[b]
           i == IF tmp[s] = NoFile THEN Lowest(Unused) ELSE tmp[s]
<1>1. /\ builderPc[b] = "compute" /\ tmp' = [tmp EXCEPT ![s] = i] /\ content' = [content EXCEPT ![i] = Empty]
      /\ fd' = [fd EXCEPT ![b] = i]
      /\ builderPc' = [builderPc EXCEPT ![b] = "writing"] /\ UNCHANGED <<entry, stage, builderCrashes>>
      /\ clashed' = clashed \cup {stage[c] : c \in {c \in Builders : Putting(c, s)}}
  BY DEF OpenTmp
<1>2. /\ entry \in [Stages -> Inodes \cup {NoFile}] /\ tmp \in [Stages -> Inodes \cup {NoFile}]
      /\ content \in [Inodes -> Files] /\ builderPc \in [Builders -> BuilderPc]
      /\ stage \in [Builders -> Stages] /\ fd \in [Builders -> Inodes \cup {NoFile}]
      /\ builderCrashes \in Nat
  BY DEF CacheDirInv, CacheTypes
<1>3. s \in Stages /\ fd[b] = NoFile
  BY <1>1, <1>2 DEF CacheDirInv, DescriptorsInStage
<1>4. /\ i \in Inodes /\ i # NoFile
      /\ \A t \in Stages : entry[t] # i /\ (t # s => tmp[t] # i)
      /\ \A c \in Builders : fd[c] = i => stage[c] = s
  <2>1. CASE tmp[s] = NoFile
    <3>1. i \in Unused
      BY <1>3, <2>1, AFileIsFree DEF CacheDirInv
    <3> HIDE DEF i
    <3> QED BY <3>1, NoFileIsNone DEF Unused
  <2>2. CASE tmp[s] # NoFile
    BY <1>2, <1>3, <2>2 DEF CacheDirInv, NamesApart, DescriptorsInStage
  <2> QED BY <2>1, <2>2
<1> HIDE DEF i
<1>5. /\ tmp'[s] = i /\ \A t \in Stages : t # s => tmp'[t] = tmp[t]
      /\ content'[i] = Empty /\ \A j \in Inodes : j # i => content'[j] = content[j]
      /\ fd'[b] = i /\ \A c \in Builders : c # b => fd'[c] = fd[c] /\ builderPc'[c] = builderPc[c]
      /\ builderPc'[b] = "writing"
  BY <1>1, <1>2, <1>3, <1>4
<1>6. CacheTypes'
  BY <1>1, <1>2, <1>3, <1>4 DEF CacheTypes, BuilderPc, Files, Empty
<1> HIDE DEF s
<1>7. NamesApart'
  <2>1. \A x, t \in Stages : entry'[x] # NoFile /\ entry'[x] = entry'[t] => x = t
    BY <1>1 DEF CacheDirInv, NamesApart
  <2>2. \A x, t \in Stages : tmp'[x] # NoFile /\ tmp'[x] = tmp'[t] => x = t
    BY <1>3, <1>4, <1>5 DEF CacheDirInv, NamesApart
  <2>3. \A x, t \in Stages : tmp'[x] # NoFile => tmp'[x] # entry'[t]
    BY <1>1, <1>4, <1>5 DEF CacheDirInv, NamesApart
  <2> QED BY <2>1, <2>2, <2>3 DEF NamesApart
<1>8. DescriptorsInStage'
  <2>1. \A c \in Builders : fd'[c] # NoFile <=> builderPc'[c] = "writing"
    BY <1>4, <1>5 DEF CacheDirInv, DescriptorsInStage
  <2>2. ASSUME NEW c \in Builders, NEW t \in Stages, fd'[c] # NoFile, fd'[c] = tmp'[t] \/ fd'[c] = entry'[t] PROVE stage'[c] = t
    <3>1. CASE fd'[c] = i
      <4>1. t = s
        BY <1>1, <1>4, <1>5, <2>2, <3>1
      <4> QED BY <1>1, <1>4, <1>5, <3>1, <4>1 DEF s
    <3>2. CASE fd'[c] # i
      <4>1. c # b /\ fd[c] = fd'[c] /\ (fd[c] = tmp[t] \/ fd[c] = entry[t])
        BY <1>1, <1>5, <2>2, <3>2
      <4> QED BY <1>1, <2>2, <4>1 DEF CacheDirInv, DescriptorsInStage
    <3> QED BY <3>1, <3>2
  <2> QED BY <2>1, <2>2 DEF DescriptorsInStage
<1>9. clashed \subseteq clashed' /\ (s \notin clashed' => \A c \in Builders : ~Putting(c, s))
  BY <1>1 DEF Putting
<1>10. QuietKeys'
  <2> SUFFICES ASSUME NEW t \in Stages, t \notin clashed'
               PROVE  /\ entry'[t] # NoFile => Readable(entry[t])'
                      /\ \A d, c \in Builders : Putting(d, t)' /\ Putting(c, t)' => d = c
                      /\ \A c \in Builders : Putting(c, t)' =>
                           /\ tmp'[t] # NoFile
                           /\ builderPc'[c] = "writing" => fd'[c] = tmp'[t] /\ content'[tmp'[t]] = Empty
                           /\ builderPc'[c] = "written" => Readable(tmp[t])'
    BY DEF QuietKeys
  <2>1. /\ entry[t] # NoFile => Readable(entry[t])
        /\ \A d, c \in Builders : Putting(d, t) /\ Putting(c, t) => d = c
        /\ \A c \in Builders : Putting(c, t) =>
             /\ tmp[t] # NoFile
             /\ builderPc[c] = "writing" => fd[c] = tmp[t] /\ content[tmp[t]] = Empty
             /\ builderPc[c] = "written" => Readable(tmp[t])
    BY <1>9 DEF CacheDirInv, QuietKeys
  <2>2. entry'[t] # NoFile => Readable(entry[t])'
    <3>1. entry[t] # NoFile => entry[t] \in Inodes
      BY <1>2
    <3> QED BY <1>1, <1>4, <1>5, <2>1, <3>1 DEF Readable
  <2>3. CASE t = s
    <3>1. \A c \in Builders : Putting(c, t)' => c = b
      <4>1. \A c \in Builders : c # b => (Putting(c, t)' <=> Putting(c, t))
        BY <1>1, <1>5 DEF Putting
      <4> QED BY <1>9, <2>3, <4>1
    <3>2. tmp'[t] # NoFile /\ builderPc'[b] = "writing" /\ fd'[b] = tmp'[t] /\ content'[tmp'[t]] = Empty
      BY <1>4, <1>5, <2>3
    <3> QED BY <2>2, <3>1, <3>2
  <2>4. CASE t # s
    <3>1. \A c \in Builders : Putting(c, t)' => c # b /\ Putting(c, t) /\ builderPc'[c] = builderPc[c] /\ fd'[c] = fd[c]
      <4>1. \A c \in Builders : Putting(c, t)' => c # b
        BY <1>1, <2>4 DEF Putting, s
      <4> QED BY <1>1, <1>5, <4>1 DEF Putting
    <3>2. tmp'[t] = tmp[t] /\ tmp[t] # i
      BY <1>4, <1>5, <2>4
    <3>3. tmp[t] # NoFile => content'[tmp'[t]] = content[tmp[t]] /\ (Readable(tmp[t])' <=> Readable(tmp[t]))
      BY <1>2, <1>5, <3>2 DEF Readable
    <3> QED BY <2>1, <2>2, <3>1, <3>2, <3>3
  <2> QED BY <2>3, <2>4
<1>11. OneTextSettles'
  <2> SUFFICES ASSUME builderCrashes = 0, NEW t \in SameText, NEW j \in Inodes, j = entry'[t] \/ j = tmp'[t]
               PROVE  Settled(t, j)'
    BY <1>1 DEF OneTextSettles, SameText
  <2>1. CASE j = i
    BY <1>5, <2>1 DEF Settled, BeingWritten
  <2>2. CASE j # i
    <3>1. t \in Stages /\ (j = entry[t] \/ j = tmp[t])
      BY <1>1, <1>5, <2>2 DEF SameText
    <3>2. Settled(t, j)
      BY <3>1 DEF CacheDirInv, OneTextSettles
    <3>3. content'[j] = content[j]
      BY <1>5, <2>2
    <3>4. BeingWritten(j) => BeingWritten(j)'
      BY <1>3, <1>5, NoFileIsNone DEF BeingWritten
    <3> QED BY <3>2, <3>3, <3>4 DEF Settled
  <2> QED BY <2>1, <2>2
<1>12. OnlyClashesFail'
  BY <1>1, <1>5, <1>9 DEF CacheDirInv, OnlyClashesFail
<1> QED BY <1>6, <1>7, <1>8, <1>10, <1>11, <1>12 DEF CacheDirInv

\* A whole text goes out and the file is closed.
LEMMA WriteStep == ASSUME CacheDirInv, NEW b \in Builders, FinishWrite(b) PROVE CacheDirInv'
<1> DEFINE s == stage[b]
           i == fd[b]
<1>1. /\ builderPc[b] = "writing" /\ fd' = [fd EXCEPT ![b] = NoFile] /\ builderPc' = [builderPc EXCEPT ![b] = "written"]
      /\ UNCHANGED <<entry, tmp, stage, clashed, builderCrashes>>
  BY DEF FinishWrite
<1>2. PICK n \in Lengths[s] : content' = [content EXCEPT ![i] = Overwritten(@, n, n)]
  BY DEF FinishWrite
<1>3. /\ entry \in [Stages -> Inodes \cup {NoFile}] /\ tmp \in [Stages -> Inodes \cup {NoFile}]
      /\ content \in [Inodes -> Files] /\ builderPc \in [Builders -> BuilderPc]
      /\ stage \in [Builders -> Stages] /\ fd \in [Builders -> Inodes \cup {NoFile}]
      /\ builderCrashes \in Nat
  BY DEF CacheDirInv, CacheTypes
<1>4. s \in Stages /\ i \in Inodes /\ i # NoFile
  BY <1>1, <1>3 DEF CacheDirInv, DescriptorsInStage
<1> DEFINE whole == [text |-> n, size |-> n]
<1>13. /\ n \in Nat \ {0} /\ Overwritten(content[i], n, n) \in Files
       /\ content[i] = Empty \/ content[i] = whole => Overwritten(content[i], n, n) = whole
  <2>1. content[i] \in Files
    BY <1>3, <1>4
  <2> HIDE DEF s, i
  <2> QED BY <1>4, <2>1, OneTextWritten
<1>5. /\ content'[i] = Overwritten(content[i], n, n) /\ \A j \in Inodes : j # i => content'[j] = content[j]
      /\ fd'[b] = NoFile /\ builderPc'[b] = "written" /\ \A c \in Builders : c # b => fd'[c] = fd[c] /\ builderPc'[c] = builderPc[c]
  BY <1>1, <1>2, <1>3, <1>4
<1>6. CacheTypes'
  BY <1>1, <1>2, <1>3, <1>4, <1>13 DEF CacheTypes, BuilderPc
<1>7. NamesApart'
  BY <1>1 DEF CacheDirInv, NamesApart
<1>8. DescriptorsInStage'
  BY <1>1, <1>5 DEF CacheDirInv, DescriptorsInStage
<1>9. \A t \in Stages : i = tmp[t] \/ i = entry[t] => t = s
  BY <1>4 DEF CacheDirInv, DescriptorsInStage
<1> HIDE DEF i
<1>10. QuietKeys'
  <2> SUFFICES ASSUME NEW t \in Stages, t \notin clashed
               PROVE  /\ entry[t] # NoFile => Readable(entry[t])'
                      /\ \A d, c \in Builders : Putting(d, t)' /\ Putting(c, t)' => d = c
                      /\ \A c \in Builders : Putting(c, t)' =>
                           /\ tmp[t] # NoFile
                           /\ builderPc'[c] = "writing" => fd'[c] = tmp[t] /\ content'[tmp[t]] = Empty
                           /\ builderPc'[c] = "written" => Readable(tmp[t])'
    BY <1>1 DEF QuietKeys
  <2>1. /\ entry[t] # NoFile => Readable(entry[t])
        /\ \A d, c \in Builders : Putting(d, t) /\ Putting(c, t) => d = c
        /\ \A c \in Builders : Putting(c, t) =>
             /\ tmp[t] # NoFile
             /\ builderPc[c] = "writing" => fd[c] = tmp[t] /\ content[tmp[t]] = Empty
             /\ builderPc[c] = "written" => Readable(tmp[t])
    BY DEF CacheDirInv, QuietKeys
  <2>2. \A c \in Builders : Putting(c, t)' <=> Putting(c, t)
    BY <1>1, <1>5 DEF Putting
  <2>3. (entry[t] # NoFile => entry[t] \in Inodes) /\ (tmp[t] # NoFile => tmp[t] \in Inodes)
    BY <1>3
  <2>4. CASE t = s
    <3>1. Putting(b, t)
      BY <1>1, <2>4 DEF Putting
    <3>2. i = tmp[t] /\ content[i] = Empty /\ \A c \in Builders : Putting(c, t) => c = b
      BY <1>1, <2>1, <3>1 DEF i
    <3>3. content'[tmp[t]] = whole /\ entry[t] # i
      BY <1>4, <1>5, <1>13, <3>2 DEF CacheDirInv, NamesApart
    <3>4. (entry[t] # NoFile => Readable(entry[t])') /\ Readable(tmp[t])'
      BY <1>1, <1>5, <1>13, <2>1, <2>3, <3>3 DEF Readable
    <3> QED BY <1>5, <2>1, <2>2, <3>1, <3>2, <3>4
  <2>5. CASE t # s
    <3>1. entry[t] # i /\ tmp[t] # i
      BY <1>9, <2>5
    <3>2. \A c \in Builders : Putting(c, t) => c # b
      BY <2>5 DEF Putting
    <3>3. /\ tmp[t] # NoFile => content'[tmp[t]] = content[tmp[t]] /\ (Readable(tmp[t])' <=> Readable(tmp[t]))
          /\ entry[t] # NoFile => (Readable(entry[t])' <=> Readable(entry[t]))
      BY <1>1, <1>5, <2>3, <3>1 DEF Readable
    <3> QED BY <1>5, <2>1, <2>2, <3>2, <3>3
  <2> QED BY <2>4, <2>5
<1>11. OneTextSettles'
  <2> SUFFICES ASSUME builderCrashes = 0, NEW t \in SameText, NEW j \in Inodes, j = entry[t] \/ j = tmp[t]
               PROVE  Settled(t, j)'
    BY <1>1 DEF OneTextSettles, SameText
  <2>1. t \in Stages /\ Settled(t, j)
    BY DEF CacheDirInv, OneTextSettles, SameText
  <2>2. CASE j = i
    <3>1. t = s
      BY <1>9, <2>1, <2>2
    <3>2. \A m \in Lengths[t] : m = n
      BY <3>1 DEF SameText
    <3>3. content[i] = Empty \/ content[i] = whole
      BY <2>1, <2>2, <3>2 DEF Settled
    <3> QED BY <1>5, <1>13, <2>2, <3>1, <3>3 DEF Settled
  <2>3. CASE j # i
    <3>1. content'[j] = content[j]
      BY <1>5, <2>3
    <3>2. BeingWritten(j) => BeingWritten(j)'
      BY <1>5, <2>3 DEF BeingWritten, i
    <3> QED BY <2>1, <3>1, <3>2 DEF Settled
  <2> QED BY <2>2, <2>3
<1>12. OnlyClashesFail'
  BY <1>1, <1>5 DEF CacheDirInv, OnlyClashesFail
<1> QED BY <1>6, <1>7, <1>8, <1>10, <1>11, <1>12 DEF CacheDirInv

\* A process is killed: the names stay as they are, and what it still wrote
\* went into the file it had open.
LEMMA CrashStep == ASSUME CacheDirInv, NEW b \in Builders, CacheCrash(b) PROVE CacheDirInv'
<1>1. /\ builderCrashes' = builderCrashes + 1 /\ builderPc' = [builderPc EXCEPT ![b] = "get"] /\ stage' = [stage EXCEPT ![b] = 1]
      /\ fd' = [fd EXCEPT ![b] = NoFile] /\ UNCHANGED <<entry, tmp, clashed>>
  BY DEF CacheCrash
<1>2. 1 \in Stages
  BY CacheSizesAssumption DEF Stages
<1>10. content' \in [Inodes -> Files] /\ \A j \in Inodes : j # fd[b] => content'[j] = content[j]
  <2>1. content \in [Inodes -> Files] /\ stage[b] \in Stages
    BY DEF CacheDirInv, CacheTypes
  <2>2. CASE UNCHANGED content
    BY <2>1, <2>2
  <2>3. CASE ~UNCHANGED content
    <3>1. PICK n \in Lengths[stage[b]] : \E k \in 1..(n - 1) : content' = [content EXCEPT ![fd[b]] = Overwritten(@, 0, k)]
      BY <2>3 DEF CacheCrash, LastBytes
    <3>2. PICK k \in 1..(n - 1) : content' = [content EXCEPT ![fd[b]] = Overwritten(@, 0, k)]
      BY <3>1
    <3>3. n \in Nat
      BY <2>1, CacheSizesAssumption DEF Stages
    <3>4. \A file \in Files : Overwritten(file, 0, k) \in Files
      BY <3>3 DEF Overwritten, Files
    <3> QED BY <2>1, <3>2, <3>4
  <2> QED BY <2>2, <2>3
<1>3. CacheTypes'
  BY <1>1, <1>2, <1>10 DEF CacheDirInv, CacheTypes, BuilderPc
<1>4. /\ fd'[b] = NoFile /\ builderPc'[b] = "get"
      /\ \A c \in Builders : c # b => fd'[c] = fd[c] /\ builderPc'[c] = builderPc[c] /\ stage'[c] = stage[c]
  BY <1>1 DEF CacheDirInv, CacheTypes
<1>5. NamesApart'
  BY <1>1 DEF CacheDirInv, NamesApart
<1>6. DescriptorsInStage'
  BY <1>1, <1>4 DEF CacheDirInv, DescriptorsInStage
<1>7. QuietKeys'
  <2> SUFFICES ASSUME NEW t \in Stages, t \notin clashed
               PROVE  /\ entry[t] # NoFile => Readable(entry[t])'
                      /\ \A d, c \in Builders : Putting(d, t)' /\ Putting(c, t)' => d = c
                      /\ \A c \in Builders : Putting(c, t)' =>
                           /\ tmp[t] # NoFile
                           /\ builderPc'[c] = "writing" => fd'[c] = tmp[t] /\ content'[tmp[t]] = Empty
                           /\ builderPc'[c] = "written" => Readable(tmp[t])'
    BY <1>1 DEF QuietKeys
  <2>1. /\ entry[t] # NoFile => Readable(entry[t])
        /\ \A d, c \in Builders : Putting(d, t) /\ Putting(c, t) => d = c
        /\ \A c \in Builders : Putting(c, t) =>
             /\ tmp[t] # NoFile
             /\ builderPc[c] = "writing" => fd[c] = tmp[t] /\ content[tmp[t]] = Empty
             /\ builderPc[c] = "written" => Readable(tmp[t])
    BY DEF CacheDirInv, QuietKeys
  <2>2. \A c \in Builders : Putting(c, t)' => c # b /\ Putting(c, t)
    BY <1>4 DEF Putting
  <2>3. (entry[t] # NoFile => entry[t] \in Inodes) /\ (tmp[t] # NoFile => tmp[t] \in Inodes)
    BY DEF CacheDirInv, CacheTypes
  <2>4. fd[b] # NoFile /\ (fd[b] = entry[t] \/ fd[b] = tmp[t]) => Putting(b, t) /\ fd[b] = tmp[t]
    <3>1. fd[b] # NoFile /\ (fd[b] = entry[t] \/ fd[b] = tmp[t]) => builderPc[b] = "writing" /\ stage[b] = t
      BY DEF CacheDirInv, DescriptorsInStage
    <3> QED BY <2>1, <3>1 DEF Putting
  <2>5. entry[t] # NoFile => fd[b] # entry[t]
    BY <2>4 DEF CacheDirInv, NamesApart
  <2>6. \A c \in Builders : c # b /\ Putting(c, t) => fd[b] # tmp[t]
    BY <2>1, <2>4
  <2>7. entry[t] # NoFile => (Readable(entry[t])' <=> Readable(entry[t]))
    BY <1>1, <1>10, <2>3, <2>5 DEF Readable
  <2>8. \A c \in Builders : c # b /\ Putting(c, t) => content'[tmp[t]] = content[tmp[t]] /\ (Readable(tmp[t])' <=> Readable(tmp[t]))
    BY <1>1, <1>10, <2>1, <2>3, <2>6 DEF Readable
  <2> QED BY <1>4, <2>1, <2>2, <2>7, <2>8
<1>8. OneTextSettles'
  <2>1. builderCrashes' # 0
    BY <1>1 DEF CacheDirInv, CacheTypes
  <2> QED BY <2>1 DEF OneTextSettles
<1>9. OnlyClashesFail'
  BY <1>1, <1>4 DEF CacheDirInv, OnlyClashesFail
<1> QED BY <1>3, <1>5, <1>6, <1>7, <1>8, <1>9 DEF CacheDirInv
\* The stage's value is known: on to the next stage, or the build is over.
LEMMA StageDoneStep ==
  ASSUME CacheTypes, NEW b \in Builders, StageDone(b)
  PROVE  /\ builderPc' \in [Builders -> BuilderPc] /\ stage' \in [Builders -> Stages]
         /\ \A c \in Builders \ {b} : builderPc'[c] = builderPc[c] /\ stage'[c] = stage[c]
         /\ builderPc'[b] \in {"get", "done"}
<1>1. builderPc \in [Builders -> BuilderPc] /\ stage \in [Builders -> Stages]
  BY DEF CacheTypes
<1>2. stage[b] \in Stages /\ (stage[b] < NStages => stage[b] + 1 \in Stages)
  BY <1>1, CacheSizesAssumption DEF Stages
<1> QED BY <1>1, <1>2 DEF StageDone, BuilderPc

\* cache.get, replace, and a build that begins again.
LEMMA LookupStep == ASSUME CacheDirInv, NEW b \in Builders, cache_get(b) \/ replace(b) \/ NextBuild(b) PROVE CacheDirInv'
<1> DEFINE s == stage[b]
<1>1. UNCHANGED <<content, fd, clashed, builderCrashes>> /\ builderPc[b] # "writing"
  BY DEF cache_get, replace, NextBuild
<1>2. builderPc \in [Builders -> BuilderPc] /\ stage \in [Builders -> Stages] /\ CacheTypes
  BY DEF CacheDirInv, CacheTypes
<1>3. 1 \in Stages /\ s \in Stages
  BY <1>2, CacheSizesAssumption DEF Stages
<1>4. CASE NextBuild(b)
  <2>1. builderPc' = [builderPc EXCEPT ![b] = "get"] /\ stage' = [stage EXCEPT ![b] = 1] /\ UNCHANGED <<entry, tmp>>
    BY <1>4 DEF NextBuild
  <2>2. builderPc' \in [Builders -> BuilderPc] /\ stage' \in [Builders -> Stages] /\ builderPc'[b] = "get" /\ \A c \in Builders \ {b} : builderPc'[c] = builderPc[c] /\ stage'[c] = stage[c]
    BY <1>2, <1>3, <2>1 DEF BuilderPc
  <2> QED BY <1>1, <2>1, <2>2, OutsidePut
<1>5. CASE cache_get(b)
  <2>1. UNCHANGED <<entry, tmp>>
    BY <1>5 DEF cache_get
  <2>2. CASE StageDone(b)
    BY <1>1, <1>2, <2>1, <2>2, StageDoneStep, OutsidePut
  <2>3. CASE ~StageDone(b)
    <3>1. stage' = stage /\ \/ builderPc' = [builderPc EXCEPT ![b] = "compute"]
                            \/ /\ builderPc' = [builderPc EXCEPT ![b] = "failed"]
                               /\ entry[s] # NoFile /\ (~Readable(entry[s]) \/ BeingWritten(entry[s]))
      BY <1>5, <2>3 DEF cache_get
    <3>2. builderPc' = [builderPc EXCEPT ![b] = "failed"] => s \in clashed
      <4>1. s \notin clashed /\ entry[s] # NoFile => Readable(entry[s]) /\ ~BeingWritten(entry[s])
        <5>1. ASSUME s \notin clashed, entry[s] # NoFile, NEW c \in Builders, fd[c] = entry[s] PROVE FALSE
          <6>1. Putting(c, s) /\ builderPc[c] = "writing"
            BY <1>3, <5>1 DEF CacheDirInv, DescriptorsInStage, Putting
          <6>2. tmp[s] # NoFile /\ fd[c] = tmp[s]
            BY <1>3, <5>1, <6>1 DEF CacheDirInv, QuietKeys
          <6> QED BY <1>3, <5>1, <6>2 DEF CacheDirInv, NamesApart
        <5> QED BY <1>3, <5>1 DEF CacheDirInv, QuietKeys, BeingWritten
      <4>2. builderPc' = [builderPc EXCEPT ![b] = "failed"] => entry[s] # NoFile /\ (~Readable(entry[s]) \/ BeingWritten(entry[s]))
        <5>1. [builderPc EXCEPT ![b] = "failed"] # [builderPc EXCEPT ![b] = "compute"]
          <6>1. [builderPc EXCEPT ![b] = "failed"][b] = "failed" /\ [builderPc EXCEPT ![b] = "compute"][b] = "compute"
            BY <1>2
          <6> QED BY <6>1
        <5> QED BY <3>1, <5>1
      <4> QED BY <4>1, <4>2
    <3>3. builderPc' \in [Builders -> BuilderPc] /\ stage' \in [Builders -> Stages] /\ \A c \in Builders \ {b} : builderPc'[c] = builderPc[c] /\ stage'[c] = stage[c]
      BY <1>2, <3>1 DEF BuilderPc
    <3>4. builderPc'[b] \in {"compute", "failed"} /\ (builderPc'[b] = "failed" => stage'[b] \in clashed)
      BY <1>2, <3>1, <3>2
    <3> QED BY <1>1, <2>1, <3>3, <3>4, OutsidePut
  <2> QED BY <2>2, <2>3
<1>6. CASE replace(b)
  <2>1. CASE tmp[s] # NoFile
    <3>1. builderPc[b] = "written" /\ StageDone(b) /\ entry' = [entry EXCEPT ![s] = tmp[s]] /\ tmp' = [tmp EXCEPT ![s] = NoFile]
      BY <1>6, <2>1 DEF replace
    <3> QED BY <1>1, <1>2, <2>1, <3>1, StageDoneStep, OutsidePut
  <2>2. CASE tmp[s] = NoFile
    <3>1. builderPc[b] = "written" /\ builderPc' = [builderPc EXCEPT ![b] = "failed"] /\ UNCHANGED <<entry, tmp, stage>>
      BY <1>6, <2>2 DEF replace
    <3>2. s \in clashed
      <4>1. Putting(b, s)
        BY <3>1 DEF Putting
      <4> QED BY <1>3, <2>2, <4>1 DEF CacheDirInv, QuietKeys
    <3>3. builderPc' \in [Builders -> BuilderPc] /\ stage' \in [Builders -> Stages] /\ builderPc'[b] = "failed" /\ stage'[b] = s
          /\ \A c \in Builders \ {b} : builderPc'[c] = builderPc[c] /\ stage'[c] = stage[c]
      BY <1>2, <3>1 DEF BuilderPc
    <3> QED BY <1>1, <3>1, <3>2, <3>3, OutsidePut
  <2> QED BY <2>1, <2>2
<1> QED BY <1>4, <1>5, <1>6

\* The invariant of the cache directory, for any number of builds, stages and
\* kills.
THEOREM CacheDirIsSound == CacheSpec => []CacheDirInv
<1>1. CacheInit => CacheDirInv
  BY CacheStarts
<1>2. CacheDirInv /\ [CacheNext]_cacheVars => CacheDirInv'
  <2> SUFFICES ASSUME CacheDirInv, [CacheNext]_cacheVars PROVE CacheDirInv'
    OBVIOUS
  <2>1. CASE CacheNext
    <3>1. PICK b \in Builders : cache_get(b) \/ cache_put(b) \/ NextBuild(b) \/ CacheCrash(b)
      BY <2>1 DEF CacheNext
    <3> QED BY <3>1, LookupStep, OpenStep, WriteStep, CrashStep DEF cache_put
  <2>2. CASE UNCHANGED cacheVars
    BY <2>2 DEF cacheVars, CacheDirInv, CacheTypes, NamesApart, DescriptorsInStage, QuietKeys, Putting, Readable,
        OneTextSettles, Settled, BeingWritten, OnlyClashesFail
  <2> QED BY <2>1, <2>2
<1> QED BY <1>1, <1>2, PTL DEF CacheSpec

\* Builds that share a cache directory fail on it, and find or leave an entry
\* torn, only where two of them were putting one key at once; and where the
\* value of a key has one text, without a kill no entry stays torn once its
\* writers have closed their files.
THEOREM SharedCacheSurvives == CacheSpec => []CacheSurvives
<1>1. CacheDirInv => CacheSurvives
  <2> SUFFICES ASSUME CacheDirInv, NEW s \in Stages, Torn(s)
               PROVE  s \in clashed /\ (s \in SameText /\ builderCrashes = 0 => BeingWritten(entry[s]))
    BY DEF CacheSurvives, TornEntriesHaveACause, CacheDirInv
  <2>1. entry[s] # NoFile /\ ~Readable(entry[s]) /\ entry[s] \in Inodes
    BY DEF Torn, CacheDirInv, CacheTypes
  <2>2. s \in clashed
    BY <2>1 DEF CacheDirInv, QuietKeys
  <2>3. ASSUME s \in SameText, builderCrashes = 0 PROVE BeingWritten(entry[s])
    <3>1. Settled(s, entry[s])
      BY <2>1, <2>3 DEF CacheDirInv, OneTextSettles
    <3>2. \A n \in Lengths[s] : content[entry[s]] # [text |-> n, size |-> n]
      BY <2>1, CacheSizesAssumption DEF Readable, Stages
    <3> QED BY <3>1, <3>2 DEF Settled
  <2> QED BY <2>2, <2>3
<1> QED BY <1>1, CacheDirIsSound, PTL

-----------------------------------------------------------------------------
(* PiiScan *)

\* The scans whose result is in a text's findings
Collected(t) == {s \in Scans : s[1] = t /\ ScanPast(s) /\ s \notin timedOut}

ScanStates == {"next", "direct", "alarmed", "returning", "disarmed", "joining", "over"}

\* One scan is under way until all are past, only past scans were given up,
\* and the timer runs inside the pattern it was set for or just after it
ScanInv ==
  /\ text \in 1..(NTexts + 1)
  /\ recognizer \in 1..NRecognizers
  /\ running \in ScanStates
  /\ running # "over" => text \in 1..NTexts
  /\ findings = [t \in 1..NTexts |-> findings[t]]
  /\ timedOut \in SUBSET Scans
  /\ \A s \in timedOut : ScanPast(s)
  /\ FindingsAreWhole

\* The scan under way is none of the past ones, and the next to be past.
LEMMA OneScanMore ==
  ASSUME ScanInv, running # "over", Advance
  PROVE  /\ Here \in Scans /\ ~ScanPast(Here)
         /\ \A s \in Scans : ScanPast(s)' <=> ScanPast(s) \/ s = Here
         /\ text' \in 1..(NTexts + 1) /\ recognizer' \in 1..NRecognizers
         /\ running' \in {"next", "over"} /\ (running' # "over" => text' \in 1..NTexts)
<1>1. /\ text \in 1..NTexts /\ recognizer \in 1..NRecognizers /\ text \in Nat /\ recognizer \in Nat
      /\ NTexts \in Nat /\ NRecognizers \in Nat
  BY ScanSizeAssumption DEF ScanInv
<1>2. /\ recognizer' = IF recognizer < NRecognizers THEN recognizer + 1 ELSE 1
      /\ text' = IF recognizer < NRecognizers THEN text ELSE text + 1
      /\ running' = IF recognizer = NRecognizers /\ text = NTexts THEN "over" ELSE "next"
  BY DEF Advance
<1>3. Here \in Scans /\ ~ScanPast(Here)
  BY <1>1 DEF Here, Scans, ScanPast
<1>4. ASSUME NEW s \in Scans PROVE ScanPast(s)' <=> ScanPast(s) \/ s = Here
  <2>1. PICK t \in 1..NTexts, r \in 1..NRecognizers : s = <<t, r>>
    BY DEF Scans
  <2>2. t \in Nat /\ r \in Nat /\ r >= 1 /\ r <= NRecognizers
    BY <1>1
  <2>3. s = Here <=> t = text /\ r = recognizer
    BY <2>1 DEF Here
  <2>4. ScanPast(s) <=> t < text \/ (t = text /\ r < recognizer)
    BY <2>1 DEF ScanPast
  <2>5. ScanPast(s)' <=> t < text' \/ (t = text' /\ r < recognizer')
    BY <2>1 DEF ScanPast
  <2>6. CASE recognizer < NRecognizers
    <3>1. text' = text /\ recognizer' = recognizer + 1
      BY <1>2, <2>6
    <3> QED BY <1>1, <2>2, <2>3, <2>4, <2>5, <3>1
  <2>7. CASE ~(recognizer < NRecognizers)
    <3>1. text' = text + 1 /\ recognizer' = 1 /\ recognizer = NRecognizers
      BY <1>1, <1>2, <2>7
    <3> QED BY <1>1, <2>2, <2>3, <2>4, <2>5, <3>1
  <2> QED BY <2>6, <2>7
<1>5. text' \in 1..(NTexts + 1) /\ recognizer' \in 1..NRecognizers /\ running' \in {"next", "over"} /\ (running' # "over" => text' \in 1..NTexts)
  BY <1>1, <1>2
<1> QED BY <1>3, <1>4, <1>5

\* The scan under way contributes all of its matches.
LEMMA CollectStep ==
  ASSUME ScanInv, running # "over", Collect(_do_scan(Here)), Advance, UNCHANGED <<matches, timedOut>>, ~armed'
  PROVE  ScanInv'
<1>1. /\ Here \in Scans /\ ~ScanPast(Here)
      /\ \A s \in Scans : ScanPast(s)' <=> ScanPast(s) \/ s = Here
      /\ text' \in 1..(NTexts + 1) /\ recognizer' \in 1..NRecognizers
      /\ running' \in {"next", "over"} /\ (running' # "over" => text' \in 1..NTexts)
  BY OneScanMore
<1>2. text \in 1..NTexts /\ findings = [t \in 1..NTexts |-> findings[t]] /\ timedOut \in SUBSET Scans /\ \A s \in timedOut : ScanPast(s)
  BY DEF ScanInv
<1>3. \A t \in 1..NTexts : findings[t] = UNION {_do_scan(s) : s \in Collected(t)}
  BY DEF ScanInv, FindingsAreWhole, Collected
<1>4. findings' = [findings EXCEPT ![text] = findings[text] \cup _do_scan(Here)]
  BY DEF Collect
<1>5. findings' = [t \in 1..NTexts |-> IF t = text THEN findings[text] \cup _do_scan(Here) ELSE findings[t]]
  BY <1>2, <1>4
<1>6. \A s : _do_scan(s)' = _do_scan(s)
  BY DEF _do_scan
<1>7. ASSUME NEW t \in 1..NTexts PROVE findings'[t] = UNION {_do_scan(s) : s \in Collected(t)'}
  <2>1. Here[1] = text /\ Here \notin timedOut
    BY <1>1, <1>2 DEF Here
  <2>2. Collected(t)' = {s \in Scans : s[1] = t /\ (ScanPast(s) \/ s = Here) /\ s \notin timedOut}
    BY <1>1 DEF Collected, Scans
  <2>3. CASE t = text
    <3>1. Collected(t)' = Collected(t) \cup {Here}
      BY <1>1, <2>1, <2>2, <2>3 DEF Collected
    <3>2. UNION {_do_scan(s) : s \in Collected(t) \cup {Here}} = (UNION {_do_scan(s) : s \in Collected(t)}) \cup _do_scan(Here)
      OBVIOUS
    <3>3. findings'[t] = findings[t] \cup _do_scan(Here)
      BY <1>5, <2>3
    <3> QED BY <1>3, <3>1, <3>2, <3>3
  <2>4. CASE t # text
    <3>1. Collected(t)' = Collected(t)
      BY <2>1, <2>2, <2>4 DEF Collected
    <3> QED BY <1>3, <1>5, <2>4, <3>1
  <2> QED BY <2>3, <2>4
<1>8. FindingsAreWhole'
  <2>1. \A t \in 1..NTexts : findings'[t] = UNION {_do_scan(s)' : s \in Collected(t)'}
    BY <1>6, <1>7
  <2> QED BY <2>1 DEF FindingsAreWhole, Collected
<1>9. \A s \in timedOut : ScanPast(s)'
  BY <1>1, <1>2
<1> QED BY <1>1, <1>2, <1>5, <1>8, <1>9 DEF ScanInv, ScanStates

\* The scan under way is given up and contributes nothing.
LEMMA GiveUpStep ==
  ASSUME ScanInv, running # "over", GiveUp, matches' = matches, ~armed'
  PROVE  ScanInv'
<1>1. /\ Here \in Scans /\ ~ScanPast(Here)
      /\ \A s \in Scans : ScanPast(s)' <=> ScanPast(s) \/ s = Here
      /\ text' \in 1..(NTexts + 1) /\ recognizer' \in 1..NRecognizers
      /\ running' \in {"next", "over"} /\ (running' # "over" => text' \in 1..NTexts)
  BY OneScanMore DEF GiveUp
<1>2. findings' = findings /\ timedOut' = timedOut \cup {Here}
  BY DEF GiveUp
<1>3. timedOut \in SUBSET Scans /\ \A s \in timedOut : ScanPast(s)
  BY DEF ScanInv
<1>4. \A s : _do_scan(s)' = _do_scan(s)
  BY DEF _do_scan
<1>5. \A t : Collected(t)' = Collected(t)
  BY <1>1, <1>2 DEF Collected, Scans
<1>6. \A t \in 1..NTexts : findings[t] = UNION {_do_scan(s) : s \in Collected(t)}
  BY DEF ScanInv, FindingsAreWhole, Collected
<1>7. FindingsAreWhole'
  <2>1. \A t \in 1..NTexts : findings'[t] = UNION {_do_scan(s)' : s \in Collected(t)'}
    BY <1>2, <1>4, <1>5, <1>6
  <2> QED BY <2>1 DEF FindingsAreWhole, Collected
<1>8. \A s \in timedOut' : ScanPast(s)'
  BY <1>1, <1>2, <1>3
<1> QED BY <1>1, <1>2, <1>3, <1>7, <1>8 DEF ScanInv, ScanStates

\* A step inside one scan.
LEMMA InsideScan ==
  ASSUME ScanInv, UNCHANGED <<matches, text, recognizer, findings, timedOut>>,
         running' \in ScanStates, running = "over" => running' = "over", running' = "over" => running = "over",
         armed' => running' \in {"alarmed", "returning"}
  PROVE  ScanInv'
<1>1. \A s : (_do_scan(s)' = _do_scan(s)) /\ (ScanPast(s)' <=> ScanPast(s))
  BY DEF _do_scan, ScanPast
<1>2. \A t : Collected(t)' = Collected(t)
  BY <1>1 DEF Collected, Scans
<1>3. \A t \in 1..NTexts : findings[t] = UNION {_do_scan(s) : s \in Collected(t)}
  BY DEF ScanInv, FindingsAreWhole, Collected
<1>4. FindingsAreWhole'
  <2>1. \A t \in 1..NTexts : findings'[t] = UNION {_do_scan(s)' : s \in Collected(t)'}
    BY <1>1, <1>2, <1>3
  <2> QED BY <2>1 DEF FindingsAreWhole, Collected
<1> QED BY <1>1, <1>4 DEF ScanInv

\* Recognizers contribute all of their matches or, given up, none, for any
\* number of texts and recognizers, whichever of them have a budget, whatever
\* they match and whenever helpers finish and alarms go off.
THEOREM ScansAreWhole == PiiSpec => []FindingsAreWhole
<1>1. PiiInit => ScanInv
  <2> SUFFICES ASSUME PiiInit PROVE ScanInv
    OBVIOUS
  <2>1. /\ text = 1 /\ recognizer = 1 /\ running = "next" /\ armed = FALSE /\ timedOut = {}
        /\ findings = [t \in 1..NTexts |-> {}] /\ NTexts \in Nat /\ NTexts >= 1 /\ NRecognizers \in Nat /\ NRecognizers >= 1
    BY ScanSizeAssumption DEF PiiInit
  <2>2. \A s \in Scans : ~ScanPast(s)
    BY <2>1 DEF Scans, ScanPast
  <2>3. \A t \in 1..NTexts : findings[t] = UNION {_do_scan(s) : s \in {s \in Scans : s[1] = t /\ ScanPast(s) /\ s \notin timedOut}}
    BY <2>1, <2>2
  <2> QED BY <2>1, <2>3 DEF ScanInv, ScanStates, FindingsAreWhole
<1>2. ScanInv /\ [PiiNext]_piiVars => ScanInv'
  <2> SUFFICES ASSUME ScanInv, [PiiNext]_piiVars PROVE ScanInv'
    OBVIOUS
  <2>1. armed => running \in {"alarmed", "returning"}
    BY DEF ScanInv, FindingsAreWhole
  <2>2. running \in ScanStates
    BY DEF ScanInv
  <2>3. CASE _run_with_timeout
    <3>1. /\ UNCHANGED <<matches, text, recognizer, findings, timedOut>> /\ running = "next"
          /\ running' \in {"direct", "alarmed", "joining"} /\ (running' # "alarmed" => armed' = armed)
      BY <2>3 DEF _run_with_timeout, scanInputs
    <3>2. running' \in ScanStates /\ running # "over" /\ running' # "over" /\ (armed' => running' \in {"alarmed", "returning"})
      BY <2>1, <3>1 DEF ScanStates
    <3> QED BY <3>1, <3>2, InsideScan
  <2>4. CASE scan_direct \/ restore_handler \/ join_returns
    <3>1. /\ Collect(_do_scan(Here)) /\ Advance /\ UNCHANGED <<matches, timedOut, armed>> /\ running \in {"direct", "disarmed", "joining"}
      BY <2>4 DEF scan_direct, restore_handler, join_returns, scanInputs
    <3>2. ~armed'
      BY <2>1, <3>1
    <3> QED BY <3>1, <3>2, CollectStep
  <2>5. CASE func_returns \/ disarm
    <3>1. /\ UNCHANGED <<matches, text, recognizer, findings, timedOut>> /\ running \in {"alarmed", "returning"}
          /\ (running' = "returning" \/ (running' = "disarmed" /\ armed' = FALSE))
      BY <2>5 DEF func_returns, disarm, scanInputs
    <3> QED BY <3>1, InsideScan DEF ScanStates
  <2>6. CASE alarm
    <3>1. armed /\ armed' = FALSE /\ GiveUp /\ matches' = matches
      BY <2>6 DEF alarm, scanInputs
    <3>2. running # "over" /\ ~armed'
      BY <2>1, <3>1
    <3> QED BY <3>1, <3>2, GiveUpStep
  <2>7. CASE join_times_out
    <3>1. running = "joining" /\ GiveUp /\ matches' = matches /\ armed' = armed
      BY <2>7 DEF join_times_out, scanInputs
    <3>2. running # "over" /\ ~armed'
      BY <2>1, <3>1
    <3> QED BY <3>1, <3>2, GiveUpStep
  <2>8. CASE \E s \in Scans : helper_finishes(s)
    <3>1. UNCHANGED <<matches, text, recognizer, running, armed, findings, timedOut>>
      BY <2>8 DEF helper_finishes, scanInputs
    <3>2. /\ running' \in ScanStates /\ (armed' => running' \in {"alarmed", "returning"})
          /\ (running = "over" => running' = "over") /\ (running' = "over" => running = "over")
      BY <2>1, <2>2, <3>1
    <3>3. UNCHANGED <<matches, text, recognizer, findings, timedOut>>
      BY <3>1
    <3> QED BY <3>2, <3>3, InsideScan
  <2>9. CASE UNCHANGED piiVars
    <3>1. UNCHANGED <<matches, text, recognizer, running, armed, findings, timedOut>>
      BY <2>9 DEF piiVars, scanInputs
    <3>2. /\ running' \in ScanStates /\ (armed' => running' \in {"alarmed", "returning"})
          /\ (running = "over" => running' = "over") /\ (running' = "over" => running = "over")
      BY <2>1, <2>2, <3>1
    <3>3. UNCHANGED <<matches, text, recognizer, findings, timedOut>>
      BY <3>1
    <3> QED BY <3>2, <3>3, InsideScan
  <2> QED BY <2>3, <2>4, <2>5, <2>6, <2>7, <2>8, <2>9 DEF PiiNext, _scan_one
<1>3. ScanInv => FindingsAreWhole
  BY DEF ScanInv
<1> QED BY <1>1, <1>2, <1>3, PTL DEF PiiSpec
-----------------------------------------------------------------------------
(* Governance: the license a source refers to *)

\* The licenses are the assertions made from what was stated
LicenseInv == asserting = "asserted" => licenses = Assertions(stated)

\* Methods are five, so finitely many
LEMMA MethodsFinite == IsFiniteSet(Methods)
<1>1. IsFiniteSet({})
  BY FS_EmptySet
<1>2. IsFiniteSet({} \cup {"user_assertion"})
  BY <1>1, FS_AddElement
<1>3. IsFiniteSet(({} \cup {"user_assertion"}) \cup {"sidecar"})
  BY <1>2, FS_AddElement
<1>4. IsFiniteSet((({} \cup {"user_assertion"}) \cup {"sidecar"}) \cup {"frontmatter"})
  BY <1>3, FS_AddElement
<1>5. IsFiniteSet(((({} \cup {"user_assertion"}) \cup {"sidecar"}) \cup {"frontmatter"}) \cup {"path_rule"})
  BY <1>4, FS_AddElement
<1>6. IsFiniteSet((((({} \cup {"user_assertion"}) \cup {"sidecar"}) \cup {"frontmatter"}) \cup {"path_rule"})
                    \cup {"repository_default"})
  BY <1>5, FS_AddElement
<1>7. Methods = (((({} \cup {"user_assertion"}) \cup {"sidecar"}) \cup {"frontmatter"}) \cup {"path_rule"})
                    \cup {"repository_default"}
  BY DEF Methods
<1> QED BY <1>6, <1>7

\* A finite set has more than one element exactly when two of them differ
LEMMA MoreThanOne ==
  ASSUME NEW S, IsFiniteSet(S)
  PROVE  Cardinality(S) > 1 <=> \E x, y \in S : x # y
<1>1. Cardinality(S) \in Nat
  BY FS_CardinalityType
<1>2. Cardinality(S) = 0 <=> S = {}
  BY FS_EmptySet
<1>3. Cardinality(S) = 1 <=> \E x : S = {x}
  BY FS_Singleton
<1> QED BY <1>1, <1>2, <1>3

\* The candidates as Assertions pairs them, a method with its expression
Stated(s) ==
  IF Candidates(s) = {} THEN {<<"repository_default", NOASSERTION>>}
  ELSE {<<m, Validated(s[m])>> : m \in Candidates(s)}

\* What the pairs are: one per method, of methods, and the expressions finitely many
LEMMA StatedFacts ==
  ASSUME NEW s
  PROVE  /\ Stated(s) # {}
         /\ \A a \in Stated(s) : a = <<a[1], a[2]>> /\ a[1] \in Methods
         /\ \A a, b \in Stated(s) : a[1] = b[1] => a = b
         /\ Candidates(s) = {} => \A a \in Stated(s) : a[2] = NOASSERTION
         /\ Candidates(s) # {} => /\ \A a \in Stated(s) : a[1] \in Candidates(s) /\ a[2] = Validated(s[a[1]])
                                  /\ \A m \in Candidates(s) : <<m, Validated(s[m])>> \in Stated(s)
         /\ IsFiniteSet({a[2] : a \in Stated(s)})
<1> DEFINE X == {a[2] : a \in Stated(s)}
<1>1. Candidates(s) \subseteq Methods
  BY DEF Candidates
<1>2. IsFiniteSet(Candidates(s))
  BY <1>1, MethodsFinite, FS_Subset
<1>3. CASE Candidates(s) = {}
  <2>1. Stated(s) = {<<"repository_default", NOASSERTION>>}
    BY <1>3 DEF Stated
  <2>2. X = {NOASSERTION}
    BY <2>1
  <2>3. IsFiniteSet(X)
    BY <2>2, FS_Singleton
  <2> QED BY <1>3, <2>1, <2>3 DEF Methods
<1>4. CASE Candidates(s) # {}
  <2>1. Stated(s) = {<<m, Validated(s[m])>> : m \in Candidates(s)}
    BY <1>4 DEF Stated
  <2> DEFINE f == [m \in Candidates(s) |-> Validated(s[m])]
  <2>2. \A a \in Stated(s) : \E m \in Candidates(s) : a = <<m, Validated(s[m])>>
    BY <2>1
  <2>3. \A a \in Stated(s) : a = <<a[1], a[2]>> /\ a[1] \in Candidates(s) /\ a[2] = Validated(s[a[1]])
    BY <2>2
  <2>4. \A m \in Candidates(s) : <<m, Validated(s[m])>> \in Stated(s)
    BY <2>1
  <2>5. IsFiniteSet(X)
    <3>1. \A x \in X : \E m \in Candidates(s) : f[m] = x
      BY <2>3
    <3>2. ASSUME NEW m \in Candidates(s) PROVE f[m] \in X
      <4>1. <<m, Validated(s[m])>>[2] \in X
        BY <2>4
      <4> QED BY <4>1
    <3>3. f \in Surjection(Candidates(s), X)
      BY <3>1, <3>2 DEF Surjection
    <3> QED BY <1>2, <3>3, FS_Surjection
  <2>6. \A a, b \in Stated(s) : a[1] = b[1] => a = b
    BY <2>3
  <2>7. Stated(s) # {}
    BY <1>4, <2>4
  <2>8. \A a \in Stated(s) : a = <<a[1], a[2]>> /\ a[1] \in Methods
    BY <1>1, <2>3
  <2> QED BY <1>4, <2>3, <2>4, <2>5, <2>6, <2>7, <2>8
<1> QED BY <1>3, <1>4
\* Two candidates disagree
Disagree(s) == Cardinality({a[2] : a \in Stated(s)}) > 1

\* The assertion that a candidate becomes
Asserted(s, a) ==
  [method |-> a[1], expression |-> a[2], conflicting |-> IF Disagree(s) THEN Stated(s) \ {a} ELSE {}]

\* Assertions makes one assertion of every pair
LEMMA AssertionsOfStated == ASSUME NEW s PROVE Assertions(s) = {Asserted(s, a) : a \in Stated(s)}
BY DEF Assertions, Stated, Disagree, Asserted

\* The ranks of the methods are numbers
LEMMA Ranks == \A m \in Methods : _PRECEDENCE[m] \in Nat
BY DEF Methods, _PRECEDENCE

\* One pair has the most trusted method
LEMMA MostTrusted ==
  ASSUME NEW s
  PROVE  \E a \in Stated(s) : \A b \in Stated(s) : _PRECEDENCE[a[1]] <= _PRECEDENCE[b[1]]
<1> DEFINE T == {_PRECEDENCE[a[1]] : a \in Stated(s)}
<1>1. Stated(s) # {} /\ \A a \in Stated(s) : a[1] \in Methods
  BY StatedFacts
<1>2. T \in SUBSET Nat /\ T # {}
  BY <1>1, Ranks
<1>3. PICK x \in T : \A y \in T : x <= y
  BY <1>2, LeastElement
<1>4. PICK a \in Stated(s) : x = _PRECEDENCE[a[1]]
  BY <1>3
<1> QED BY <1>3, <1>4

\* What is asserted from what was stated is resolved
LEMMA AssertionsResolve ==
  ASSUME licenses = Assertions(stated)
  PROVE  /\ \A m \in Candidates(stated) : _PRECEDENCE[effective.method] <= _PRECEDENCE[m]
         /\ effective.expression = (IF Candidates(stated) = {} THEN NOASSERTION ELSE Validated(stated[effective.method]))
         /\ \A a, b \in licenses : a.expression # b.expression =>
              <<b.method, b.expression>> \in a.conflicting
         /\ (\E a \in licenses : a.conflicting # {}) => Cardinality({a.expression : a \in licenses}) > 1
<1> DEFINE s == stated
           P == Stated(s)
<1>1. licenses = {Asserted(s, a) : a \in P}
  BY AssertionsOfStated
<1>2. \A l \in licenses : \E a \in P : l = Asserted(s, a)
  BY <1>1
<1>3. \A a \in P : Asserted(s, a) \in licenses
  BY <1>1
<1>4. \A a \in P : /\ Asserted(s, a).method = a[1] /\ Asserted(s, a).expression = a[2]
                   /\ Asserted(s, a).conflicting = (IF Disagree(s) THEN P \ {a} ELSE {})
  BY DEF Asserted
<1>5. /\ P # {}
      /\ \A a \in P : a = <<a[1], a[2]>> /\ a[1] \in Methods
      /\ \A a, b \in P : a[1] = b[1] => a = b
      /\ Candidates(s) = {} => \A a \in P : a[2] = NOASSERTION
      /\ Candidates(s) # {} => /\ \A a \in P : a[1] \in Candidates(s) /\ a[2] = Validated(s[a[1]])
                               /\ \A m \in Candidates(s) : <<m, Validated(s[m])>> \in P
      /\ IsFiniteSet({a[2] : a \in P})
  BY StatedFacts
<1> HIDE DEF P
<1>6. PICK a0 \in P : \A b \in P : _PRECEDENCE[a0[1]] <= _PRECEDENCE[b[1]]
  BY MostTrusted DEF P
<1>7. \E l \in licenses : \A k \in licenses : _PRECEDENCE[l.method] <= _PRECEDENCE[k.method]
  <2>1. \A k \in licenses : _PRECEDENCE[Asserted(s, a0).method] <= _PRECEDENCE[k.method]
    BY <1>2, <1>4, <1>6
  <2> QED BY <1>3, <1>6, <2>1
<1>8. effective \in licenses /\ \A k \in licenses : _PRECEDENCE[effective.method] <= _PRECEDENCE[k.method]
  BY <1>7 DEF effective
<1>9. PICK e \in P : effective = Asserted(s, e)
  BY <1>2, <1>8
<1>10. effective.method = e[1] /\ effective.expression = e[2]
  BY <1>4, <1>9
<1>11. ASSUME NEW m \in Candidates(s) PROVE _PRECEDENCE[effective.method] <= _PRECEDENCE[m]
  <2>1. <<m, Validated(s[m])>> \in P
    BY <1>5, <1>11
  <2>2. Asserted(s, <<m, Validated(s[m])>>).method = m
    BY <1>4, <2>1
  <2> QED BY <1>3, <1>8, <2>1, <2>2
<1>12. effective.expression = (IF Candidates(s) = {} THEN NOASSERTION ELSE Validated(s[effective.method]))
  BY <1>5, <1>9, <1>10
<1>13. Disagree(s) <=> \E a, b \in P : a[2] # b[2]
  <2>1. Disagree(s) <=> \E x, y \in {a[2] : a \in P} : x # y
    BY <1>5, MoreThanOne DEF Disagree, P
  <2> QED BY <2>1
<1>14. ASSUME NEW k \in licenses, NEW l \in licenses, k.expression # l.expression
       PROVE  <<l.method, l.expression>> \in k.conflicting
  <2>1. PICK a \in P : k = Asserted(s, a)
    BY <1>2
  <2>2. PICK b \in P : l = Asserted(s, b)
    BY <1>2
  <2>3. a[2] # b[2]
    BY <1>4, <1>14, <2>1, <2>2
  <2>4. b \in k.conflicting
    BY <1>4, <1>13, <2>1, <2>3
  <2>5. <<l.method, l.expression>> = b
    BY <1>4, <1>5, <2>2
  <2> QED BY <2>4, <2>5
<1>15. ASSUME \E k \in licenses : k.conflicting # {}
       PROVE  Cardinality({k.expression : k \in licenses}) > 1
  <2>1. Disagree(s)
    BY <1>2, <1>4, <1>15
  <2>2. {k.expression : k \in licenses} = {a[2] : a \in P}
    <3>1. \A k \in licenses : \E a \in P : k.expression = a[2]
      BY <1>2, <1>4
    <3>2. \A a \in P : \E k \in licenses : k.expression = a[2]
      BY <1>3, <1>4
    <3> HIDE DEF s
    <3> QED BY <3>1, <3>2
  <2> QED BY <2>1, <2>2 DEF Disagree, P
<1> QED BY <1>11, <1>12, <1>14, <1>15

\* No conflict between license statements is resolved silently, whatever is
\* stated by whichever methods (evaluate_license).
THEOREM ConflictsAreReported == GovernanceSpec => []LicensesAreResolved
<1>1. GovernanceInit => LicenseInv
  BY DEF GovernanceInit, LicenseInv
<1>2. LicenseInv /\ [GovernanceNext]_governanceVars => LicenseInv'
  <2> SUFFICES ASSUME LicenseInv, [GovernanceNext]_governanceVars PROVE LicenseInv'
    OBVIOUS
  <2>1. CASE evaluate_license
    BY <2>1 DEF evaluate_license, LicenseInv
  <2>2. CASE assert_acl \/ assert_tenant
    BY <2>2 DEF assert_acl, assert_tenant, LicenseInv
  <2>3. CASE validate_spdx_expression \/ UNCHANGED governanceVars
    <3>1. asserting' = asserting /\ licenses' = licenses /\ stated' = stated
      BY <2>3 DEF validate_spdx_expression, read_token, end_expression, governanceVars, licenseVars
    <3>2. Assertions(stated)' = Assertions(stated)
      BY <3>1 DEF Assertions, Candidates
    <3> QED BY <3>1, <3>2 DEF LicenseInv
  <2> QED BY <2>1, <2>2, <2>3 DEF GovernanceNext
<1>3. LicenseInv => LicensesAreResolved
  BY AssertionsResolve DEF LicenseInv, LicensesAreResolved
<1> QED BY <1>1, <1>2, <1>3, PTL DEF GovernanceSpec

-----------------------------------------------------------------------------
(* Governance: what the grammar of license expressions holds *)

\* The expressions of n tokens, made of those that g gives for fewer
Made(g, n) ==
  IF n = 0 THEN {}
  ELSE (IF n = 1 THEN {<<"id">>} ELSE {})
    \cup (IF n < 3 THEN {} ELSE Enclosed(g[n - 2]))
    \cup UNION {Joined(g[k], g[n - 1 - k]) : k \in 1..(n - 2)}

\* Only the expressions of fewer tokens matter
LEMMA MadeOfFewer ==
  ASSUME NEW n \in Nat, NEW g, NEW h, \A i \in 0..(n - 1) : g[i] = h[i]
  PROVE  Made(g, n) = Made(h, n)
<1>1. n >= 3 => g[n - 2] = h[n - 2]
  OBVIOUS
<1>2. \A k \in 1..(n - 2) : g[k] = h[k] /\ g[n - 1 - k] = h[n - 1 - k]
  OBVIOUS
<1>3. \A k \in 1..(n - 2) : Joined(g[k], g[n - 1 - k]) = Joined(h[k], h[n - 1 - k])
  BY <1>2
<1>4. UNION {Joined(g[k], g[n - 1 - k]) : k \in 1..(n - 2)} = UNION {Joined(h[k], h[n - 1 - k]) : k \in 1..(n - 2)}
  BY <1>3
<1> QED BY <1>1, <1>4 DEF Made

\* The recursive definition has a solution, which Grammar is.
LEMMA GrammarIsDefined == Grammar = [n \in 0..MaxSpdx |-> Made(Grammar, n)]
<1> DEFINE Solved(m) == \E g : g = [n \in 0..m |-> Made(g, n)]
           Unsolved == {m \in Nat : ~Solved(m)}
<1>1. Unsolved = {}
  <2>1. SUFFICES ASSUME Unsolved # {} PROVE FALSE
    OBVIOUS
  <2>2. PICK m \in Unsolved : \A y \in Unsolved : m <= y
    <3> HIDE DEF Unsolved
    <3>1. Unsolved \in SUBSET Nat
      BY DEF Unsolved
    <3> QED BY <2>1, <3>1, LeastElement
  <2>3. m \in Nat /\ ~Solved(m)
    OBVIOUS
  <2>4. PICK g : \A i \in 0..(m - 1) : g[i] = Made(g, i)
    <3>1. CASE m = 0
      <4>1. 0..(m - 1) = {}
        BY <3>1
      <4> QED BY <4>1
    <3>2. CASE m # 0
      <4>1. m - 1 \in Nat /\ ~(m <= m - 1)
        BY <2>3, <3>2
      <4>2. Solved(m - 1)
        BY <2>2, <4>1
      <4>3. PICK g : g = [n \in 0..(m - 1) |-> Made(g, n)]
        BY <4>2
      <4>4. \A i \in 0..(m - 1) : g[i] = Made(g, i)
        BY <4>3
      <4> QED BY <4>4
    <3> QED BY <3>1, <3>2
  <2> DEFINE h == [n \in 0..m |-> Made(g, n)]
  <2>5. \A i \in 0..(m - 1) : h[i] = g[i]
    BY <2>3, <2>4
  <2>6. \A n \in 0..m : Made(h, n) = Made(g, n)
    <3> TAKE n \in 0..m
    <3> HIDE DEF h
    <3>1. n \in Nat /\ \A i \in 0..(n - 1) : i \in 0..(m - 1)
      BY <2>3
    <3> QED BY <2>5, <3>1, MadeOfFewer
  <2>7. h = [n \in 0..m |-> Made(h, n)]
    BY <2>6
  <2>8. Solved(m)
    <3> HIDE DEF h
    <3> QED BY <2>7
  <2> QED BY <2>3, <2>8
<1>2. Solved(MaxSpdx)
  BY <1>1, SpdxAssumption
<1> HIDE DEF Unsolved
<1> QED BY <1>2 DEF Grammar, Made

\* An expression is an identifier, in parentheses or made of two.
LEMMA GrammarRules ==
  ASSUME NEW n \in 1..MaxSpdx, NEW z
  PROVE  z \in Grammar[n] <=>
           \/ n = 1 /\ z = <<"id">>
           \/ n >= 3 /\ z \in Enclosed(Grammar[n - 2])
           \/ \E k \in 1..(n - 2) : z \in Joined(Grammar[k], Grammar[n - 1 - k])
<1>1. Grammar[n] = Made(Grammar, n)
  <2>1. n \in 0..MaxSpdx
    BY SpdxAssumption
  <2> QED BY <2>1, GrammarIsDefined, Zenon
<1> DEFINE Pairs(k) == Joined(Grammar[k], Grammar[n - 1 - k])
<1>2. Made(Grammar, n) = (IF n = 1 THEN {<<"id">>} ELSE {})
        \cup (IF n < 3 THEN {} ELSE Enclosed(Grammar[n - 2])) \cup UNION {Pairs(k) : k \in 1..(n - 2)}
  BY DEF Made
<1>3. z \in UNION {Pairs(k) : k \in 1..(n - 2)} <=> \E k \in 1..(n - 2) : z \in Pairs(k)
  <2> HIDE DEF Pairs
  <2> QED OBVIOUS
<1> HIDE DEF Pairs
<1>4. z \in Grammar[n] <=>
        \/ n = 1 /\ z = <<"id">>
        \/ n >= 3 /\ z \in Enclosed(Grammar[n - 2])
        \/ \E k \in 1..(n - 2) : z \in Pairs(k)
  BY <1>1, <1>2, <1>3
<1> QED BY <1>4 DEF Pairs

\* No expression is empty.
LEMMA GrammarOfNone == Grammar[0] = {}
<1>1. 0 \in 0..MaxSpdx
  BY SpdxAssumption
<1>2. Grammar[0] = Made(Grammar, 0)
  BY <1>1, GrammarIsDefined, Zenon
<1> QED BY <1>2 DEF Made

-----------------------------------------------------------------------------
(* Governance: the validator's runs *)

\* After token i an operand is expected
Wants(x, i) == i = 0 \/ x[i] \in {"(", "AND"}

\* Token k fits, and leads from depth d to depth e
Turn(k, wanted, d, e) ==
  \/ k = "(" /\ wanted /\ e = d + 1
  \/ k = ")" /\ ~wanted /\ d > 0 /\ e = d - 1
  \/ k = "AND" /\ ~wanted /\ e = d
  \/ k = "id" /\ wanted /\ e = d

\* The depths f over the first n tokens of x
Run(x, f, n) ==
  /\ f \in [0..n -> Nat] /\ f[0] = 0
  /\ \A i \in 1..n : Turn(x[i], Wants(x, i - 1), f[i - 1], f[i])

\* All of x is read, and nothing is missing
Complete(x) == ~Wants(x, Len(x)) /\ \E f : Run(x, f, Len(x)) /\ f[Len(x)] = 0

\* What was read determines the depth.
LEMMA RunsAgree ==
  ASSUME NEW x, NEW f, NEW g, NEW m \in Nat, NEW n \in Nat, m <= n, Run(x, f, m), Run(x, g, n)
  PROVE  \A i \in 0..m : f[i] = g[i]
<1> DEFINE Differ == {i \in 0..m : f[i] # g[i]}
<1>1. SUFFICES ASSUME Differ # {} PROVE FALSE
  OBVIOUS
<1>2. PICK i \in Differ : \A j \in Differ : i <= j
  <2>1. Differ \in SUBSET Nat
    OBVIOUS
  <2> HIDE DEF Differ
  <2> QED BY <1>1, <2>1, LeastElement
<1>3. i \in 0..m /\ f[i] # g[i] /\ f[0] = g[0]
  BY DEF Run
<1>4. i \in 1..m /\ i \in 1..n /\ i - 1 \in 0..m /\ i - 1 \in 0..n /\ ~(i <= i - 1)
  BY <1>3
<1>5. f[i - 1] = g[i - 1]
  BY <1>2, <1>4
<1>6. /\ Turn(x[i], Wants(x, i - 1), f[i - 1], f[i])
      /\ Turn(x[i], Wants(x, i - 1), f[i - 1], g[i])
  BY <1>4, <1>5 DEF Run
<1>7. f[i] = g[i]
  BY <1>6 DEF Turn
<1> QED BY <1>3, <1>7

\* Reading on does not change what was read.
LEMMA RunOfLonger ==
  ASSUME NEW x, NEW y, NEW f, NEW n \in Nat, \A i \in 1..n : x[i] = y[i], Run(x, f, n)
  PROVE  Run(y, f, n)
<1>1. ASSUME NEW i \in 1..n PROVE Turn(y[i], Wants(y, i - 1), f[i - 1], f[i])
  <2>1. Wants(y, i - 1) <=> Wants(x, i - 1)
    <3>1. i - 1 = 0 \/ i - 1 \in 1..n
      OBVIOUS
    <3> QED BY <3>1 DEF Wants
  <2>2. Turn(x[i], Wants(x, i - 1), f[i - 1], f[i])
    BY DEF Run
  <2> QED BY <2>1, <2>2 DEF Turn
<1> QED BY <1>1 DEF Run

\* One token more
LEMMA RunGoesOn ==
  ASSUME NEW x, NEW f, NEW n \in Nat, NEW e \in Nat, Run(x, f, n),
         Turn(x[n + 1], Wants(x, n), f[n], e)
  PROVE  \E g : Run(x, g, n + 1) /\ g[n + 1] = e
<1> DEFINE g == [i \in 0..(n + 1) |-> IF i <= n THEN f[i] ELSE e]
<1>1. \A i \in 0..n : i \in 0..(n + 1) /\ g[i] = f[i]
  OBVIOUS
<1>2. g[n + 1] = e
  OBVIOUS
<1>3. g \in [0..(n + 1) -> Nat]
  BY DEF Run
<1> HIDE DEF g
<1>4. g[0] = 0
  BY <1>1 DEF Run
<1>5. ASSUME NEW i \in 1..(n + 1) PROVE Turn(x[i], Wants(x, i - 1), g[i - 1], g[i])
  <2>1. CASE i \in 1..n
    <3>1. g[i - 1] = f[i - 1] /\ g[i] = f[i]
      BY <1>1, <2>1
    <3> QED BY <2>1, <3>1 DEF Run
  <2>2. CASE i = n + 1
    <3>1. i - 1 = n /\ g[i - 1] = f[n] /\ g[i] = e
      BY <1>1, <1>2, <2>2
    <3> QED BY <2>2, <3>1
  <2> QED BY <2>1, <2>2
<1> QED BY <1>2, <1>3, <1>4, <1>5 DEF Run

\* The tokens of an expression in parentheses
LEMMA EnclosedTokens ==
  ASSUME NEW x \in Seq(Tokens)
  PROVE  LET y == <<"(">> \o x \o <<")">> IN
         /\ y \in Seq(Tokens) /\ Len(x) \in Nat /\ Len(y) = Len(x) + 2
         /\ y[1] = "(" /\ y[Len(x) + 2] = ")" /\ \A i \in 1..Len(x) : y[i + 1] = x[i]
<1>1. "(" \in Tokens /\ ")" \in Tokens
  BY DEF Tokens
<1>2. <<"(">> \in Seq(Tokens) /\ <<")">> \in Seq(Tokens) /\ Len(<<"(">>) = 1 /\ Len(<<")">>) = 1
  BY <1>1
<1> QED BY <1>2

\* The tokens of two expressions with an operator between them
LEMMA JoinedTokens ==
  ASSUME NEW x \in Seq(Tokens), NEW z \in Seq(Tokens)
  PROVE  LET y == x \o <<"AND">> \o z IN
         /\ y \in Seq(Tokens) /\ Len(x) \in Nat /\ Len(z) \in Nat /\ Len(y) = Len(x) + Len(z) + 1
         /\ y[Len(x) + 1] = "AND" /\ (\A i \in 1..Len(x) : y[i] = x[i])
         /\ \A i \in 1..Len(z) : y[Len(x) + 1 + i] = z[i]
<1>1. "AND" \in Tokens
  BY DEF Tokens
<1>2. <<"AND">> \in Seq(Tokens) /\ Len(<<"AND">>) = 1
  BY <1>1
<1> QED BY <1>2

\* Expressions with the same tokens are the same.
LEMMA SameTokens ==
  ASSUME NEW x \in Seq(Tokens), NEW y \in Seq(Tokens), Len(x) = Len(y), \A i \in 1..Len(x) : x[i] = y[i]
  PROVE  x = y
OBVIOUS

\* An expression in parentheses is read one level deeper.
LEMMA EnclosedIsComplete ==
  ASSUME NEW x \in Seq(Tokens), Complete(x)
  PROVE  LET y == <<"(">> \o x \o <<")">> IN y \in Seq(Tokens) /\ Len(y) = Len(x) + 2 /\ Complete(y)
<1> DEFINE n == Len(x)
           y == <<"(">> \o x \o <<")">>
<1>1. /\ y \in Seq(Tokens) /\ n \in Nat /\ Len(y) = n + 2
      /\ y[1] = "(" /\ y[n + 2] = ")" /\ \A i \in 1..n : y[i + 1] = x[i]
  BY EnclosedTokens
<1>2. PICK f : Run(x, f, n) /\ f[n] = 0
  BY DEF Complete
<1>3. ~Wants(x, n)
  BY DEF Complete
<1> HIDE DEF y, n
<1> DEFINE g == [i \in 0..(n + 2) |-> IF i = 0 \/ i = n + 2 THEN 0 ELSE 1 + f[i - 1]]
<1>4. f \in [0..n -> Nat] /\ f[0] = 0
  BY <1>2 DEF Run
<1>5. g \in [0..(n + 2) -> Nat]
  <2>1. ASSUME NEW i \in 0..(n + 2), i # 0, i # n + 2 PROVE f[i - 1] \in Nat
    <3>1. i - 1 \in 0..n
      BY <1>1, <2>1
    <3> QED BY <1>4, <3>1
  <2> QED BY <2>1
<1>6. /\ g[0] = 0 /\ g[n + 2] = 0
      /\ \A i \in 1..(n + 1) : g[i] = 1 + f[i - 1]
  BY <1>1
<1> HIDE DEF g
<1>7. ASSUME NEW i \in 1..(n + 1) PROVE Wants(y, i) <=> Wants(x, i - 1)
  <2>1. CASE i = 1
    BY <1>1, <2>1 DEF Wants
  <2>2. CASE i # 1
    <3>1. i - 1 \in 1..n /\ i # 0 /\ i - 1 # 0
      BY <1>1, <2>2
    <3>2. y[i] = x[i - 1]
      <4>1. y[(i - 1) + 1] = x[i - 1]
        BY <1>1, <3>1
      <4>2. (i - 1) + 1 = i
        BY <1>1
      <4> QED BY <4>1, <4>2
    <3> QED BY <3>1, <3>2 DEF Wants
  <2> QED BY <2>1, <2>2
<1>8. ASSUME NEW i \in 1..(n + 2) PROVE Turn(y[i], Wants(y, i - 1), g[i - 1], g[i])
  <2>1. CASE i = 1
    <3>1. g[0] = 0 /\ g[1] = 1
      BY <1>1, <1>4, <1>6
    <3> QED BY <1>1, <2>1, <3>1 DEF Turn, Wants
  <2>2. CASE i = n + 2
    <3>1. i - 1 = n + 1 /\ n + 1 \in 1..(n + 1) /\ (n + 1) - 1 = n
      BY <1>1, <2>2
    <3>2. ~Wants(y, i - 1) /\ g[i - 1] = 1 /\ g[i] = 0 /\ y[i] = ")"
      BY <1>1, <1>2, <1>3, <1>6, <1>7, <2>2, <3>1
    <3> QED BY <3>2 DEF Turn
  <2>3. CASE i # 1 /\ i # n + 2
    <3> DEFINE j == i - 1
    <3>1. j \in 1..n /\ j \in 1..(n + 1) /\ i \in 1..(n + 1) /\ j + 1 = i /\ j - 1 \in 0..n /\ j \in 0..n
      BY <1>1, <2>3
    <3>2. g[i] = 1 + f[j] /\ g[j] = 1 + f[j - 1] /\ f[j] \in Nat /\ f[j - 1] \in Nat
      BY <1>4, <1>6, <3>1
    <3>3. y[i] = x[j]
      BY <1>1, <3>1
    <3>4. Wants(y, j) <=> Wants(x, j - 1)
      BY <1>7, <3>1
    <3>5. Turn(x[j], Wants(x, j - 1), f[j - 1], f[j])
      BY <1>2, <3>1 DEF Run
    <3> HIDE DEF j
    <3>6. Turn(x[j], Wants(x, j - 1), 1 + f[j - 1], 1 + f[j])
      BY <3>2, <3>5 DEF Turn
    <3>7. Turn(y[i], Wants(y, j), g[j], g[i])
      BY <3>2, <3>3, <3>4, <3>6 DEF Turn
    <3> QED BY <3>7 DEF j
  <2> QED BY <2>1, <2>2, <2>3
<1>9. Run(y, g, n + 2)
  BY <1>5, <1>6, <1>8 DEF Run
<1>10. ~Wants(y, n + 2)
  BY <1>1 DEF Wants
<1>11. Complete(y) /\ Len(y) = n + 2
  BY <1>1, <1>6, <1>9, <1>10 DEF Complete
<1> QED BY <1>1, <1>11 DEF y, n

\* Two expressions are read one after the other.
LEMMA JoinedIsComplete ==
  ASSUME NEW x \in Seq(Tokens), NEW z \in Seq(Tokens), Complete(x), Complete(z)
  PROVE  LET y == x \o <<"AND">> \o z IN y \in Seq(Tokens) /\ Len(y) = Len(x) + Len(z) + 1 /\ Complete(y)
<1> DEFINE n == Len(x)
           m == Len(z)
           y == x \o <<"AND">> \o z
<1>1. /\ y \in Seq(Tokens) /\ n \in Nat /\ m \in Nat /\ Len(y) = n + m + 1
      /\ y[n + 1] = "AND" /\ (\A i \in 1..n : y[i] = x[i]) /\ \A i \in 1..m : y[n + 1 + i] = z[i]
  BY JoinedTokens
<1>2. PICK f : Run(x, f, n) /\ f[n] = 0
  BY DEF Complete
<1>3. PICK h : Run(z, h, m) /\ h[m] = 0
  BY DEF Complete
<1>4. ~Wants(x, n) /\ ~Wants(z, m)
  BY DEF Complete
<1> HIDE DEF y, n, m
<1> DEFINE l == n + m + 1
           g == [i \in 0..l |-> IF i <= n THEN f[i] ELSE h[i - n - 1]]
<1>5. f \in [0..n -> Nat] /\ f[0] = 0 /\ h \in [0..m -> Nat] /\ h[0] = 0
  BY <1>2, <1>3 DEF Run
<1>6. g \in [0..l -> Nat]
  <2>1. ASSUME NEW i \in 0..l, ~(i <= n) PROVE h[i - n - 1] \in Nat
    <3>1. i - n - 1 \in 0..m
      BY <1>1, <2>1
    <3> QED BY <1>5, <3>1
  <2>2. ASSUME NEW i \in 0..l, i <= n PROVE f[i] \in Nat
    <3>1. i \in 0..n
      BY <1>1, <2>2
    <3> QED BY <1>5, <3>1
  <2> QED BY <2>1, <2>2
<1>7. (\A i \in 0..n : g[i] = f[i]) /\ \A i \in 0..m : g[n + 1 + i] = h[i]
  <2>1. \A i \in 0..n : i \in 0..l /\ i <= n
    BY <1>1
  <2>2. \A i \in 0..m : n + 1 + i \in 0..l /\ ~(n + 1 + i <= n) /\ (n + 1 + i) - n - 1 = i
    BY <1>1
  <2> QED BY <2>1, <2>2
<1> HIDE DEF g
<1>8. ASSUME NEW i \in 0..n PROVE Wants(y, i) <=> Wants(x, i)
  <2>1. i = 0 \/ i \in 1..n
    BY <1>1
  <2> QED BY <1>1, <2>1 DEF Wants
<1>9. ASSUME NEW i \in 0..m PROVE Wants(y, n + 1 + i) <=> Wants(z, i)
  <2>1. CASE i = 0
    BY <1>1, <2>1 DEF Wants
  <2>2. CASE i # 0
    <3>1. i \in 1..m /\ n + 1 + i # 0
      BY <1>1, <2>2
    <3> QED BY <1>1, <3>1 DEF Wants
  <2> QED BY <2>1, <2>2
<1>10. ASSUME NEW i \in 1..l PROVE Turn(y[i], Wants(y, i - 1), g[i - 1], g[i])
  <2>1. CASE i <= n
    <3>1. i \in 1..n /\ i - 1 \in 0..n /\ i \in 0..n
      BY <1>1, <2>1
    <3>2. Turn(x[i], Wants(x, i - 1), f[i - 1], f[i])
      BY <1>2, <3>1 DEF Run
    <3>3. y[i] = x[i] /\ g[i] = f[i] /\ g[i - 1] = f[i - 1] /\ (Wants(y, i - 1) <=> Wants(x, i - 1))
      BY <1>1, <1>7, <1>8, <3>1
    <3> QED BY <3>2, <3>3 DEF Turn
  <2>2. CASE i = n + 1
    <3>1. i - 1 = n /\ n \in 0..n /\ 0 \in 0..m /\ n + 1 + 0 = n + 1
      BY <1>1, <2>2
    <3>2. y[i] = "AND" /\ g[i] = 0 /\ g[i - 1] = 0 /\ ~Wants(y, i - 1)
      BY <1>1, <1>2, <1>4, <1>5, <1>7, <1>8, <2>2, <3>1
    <3> QED BY <3>2 DEF Turn
  <2>3. CASE i > n + 1
    <3> DEFINE j == i - n - 1
    <3>1. j \in 1..m /\ j \in 0..m /\ j - 1 \in 0..m /\ n + 1 + j = i /\ n + 1 + (j - 1) = i - 1
      BY <1>1, <2>3
    <3> HIDE DEF j
    <3>2. Turn(z[j], Wants(z, j - 1), h[j - 1], h[j])
      BY <1>3, <3>1 DEF Run
    <3>3. y[i] = z[j] /\ g[i] = h[j] /\ g[i - 1] = h[j - 1] /\ (Wants(y, i - 1) <=> Wants(z, j - 1))
      BY <1>1, <1>7, <1>9, <3>1
    <3> QED BY <3>2, <3>3 DEF Turn
  <2>4. i \in Nat /\ n \in Nat
    BY <1>1
  <2> QED BY <2>1, <2>2, <2>3, <2>4
<1>11. Run(y, g, l) /\ g[l] = 0 /\ ~Wants(y, l)
  <2>1. m \in 0..m /\ n + 1 + m = l /\ 0 \in 0..n
    BY <1>1
  <2> QED BY <1>3, <1>4, <1>5, <1>6, <1>7, <1>9, <1>10, <2>1 DEF Run
<1>12. Complete(y) /\ Len(y) = l
  BY <1>1, <1>11 DEF Complete
<1> QED BY <1>1, <1>12 DEF y, n, m

\* What two sets of expressions join to
LEMMA JoinedIs ==
  ASSUME NEW S, NEW T, NEW z
  PROVE  z \in Joined(S, T) <=> \E x \in S, y \in T : z = x \o <<"AND">> \o y
<1> DEFINE J(a, b) == a \o <<"AND">> \o b
<1>1. Joined(S, T) = {J(p[1], p[2]) : p \in S \X T}
  BY DEF Joined
<1> HIDE DEF J
<1>2. z \in Joined(S, T) <=> \E x \in S, y \in T : z = J(x, y)
  <2>1. ASSUME z \in Joined(S, T) PROVE \E x \in S, y \in T : z = J(x, y)
    <3>1. PICK p \in S \X T : z = J(p[1], p[2])
      BY <1>1, <2>1
    <3>2. p[1] \in S /\ p[2] \in T
      OBVIOUS
    <3> QED BY <3>1, <3>2
  <2>2. ASSUME NEW x \in S, NEW y \in T, z = J(x, y) PROVE z \in Joined(S, T)
    <3>1. <<x, y>> \in S \X T /\ <<x, y>>[1] = x /\ <<x, y>>[2] = y
      OBVIOUS
    <3>2. \A p \in S \X T : J(p[1], p[2]) \in Joined(S, T)
      BY <1>1
    <3>3. J(<<x, y>>[1], <<x, y>>[2]) = J(x, y)
      BY <3>1
    <3>4. J(<<x, y>>[1], <<x, y>>[2]) \in Joined(S, T)
      BY <3>1, <3>2
    <3> QED BY <2>2, <3>3, <3>4
  <2> QED BY <2>1, <2>2
<1> QED BY <1>2 DEF J

\* Every expression of the grammar is read to its end.
LEMMA GrammarIsComplete ==
  \A n \in 0..MaxSpdx : \A x \in Grammar[n] : x \in Seq(Tokens) /\ Len(x) = n /\ Complete(x)
<1> DEFINE Good(n) == \A x \in Grammar[n] : x \in Seq(Tokens) /\ Len(x) = n /\ Complete(x)
           Bad == {n \in 0..MaxSpdx : ~Good(n)}
<1>1. SUFFICES ASSUME Bad # {} PROVE FALSE
  OBVIOUS
<1>2. PICK n \in Bad : \A m \in Bad : n <= m
  <2>1. Bad \in SUBSET Nat
    OBVIOUS
  <2> HIDE DEF Bad
  <2> QED BY <1>1, <2>1, LeastElement
<1>3. n \in 0..MaxSpdx /\ ~Good(n) /\ n \in Nat
  BY SpdxAssumption
<1>4. ASSUME NEW m \in 0..(n - 1) PROVE Good(m)
  <2>1. m \in 0..MaxSpdx /\ ~(n <= m)
    BY <1>3, SpdxAssumption
  <2> HIDE DEF Good
  <2> QED BY <1>2, <2>1
<1>5. n # 0
  BY <1>3, GrammarOfNone
<1>6. PICK x \in Grammar[n] : ~(x \in Seq(Tokens) /\ Len(x) = n /\ Complete(x))
  BY <1>3
<1>7. n \in 1..MaxSpdx
  BY <1>3, <1>5
<1>8. CASE n = 1 /\ x = <<"id">>
  <2>1. x \in Seq(Tokens) /\ Len(x) = 1 /\ x[1] = "id"
    BY <1>8 DEF Tokens
  <2> DEFINE f == [i \in 0..1 |-> 0]
  <2>2. f \in [0..1 -> Nat] /\ f[0] = 0 /\ f[1] = 0
    OBVIOUS
  <2> HIDE DEF f
  <2>3. ASSUME NEW i \in 1..1 PROVE Turn(x[i], Wants(x, i - 1), f[i - 1], f[i])
    <3>1. i = 1
      OBVIOUS
    <3> QED BY <2>1, <2>2, <3>1 DEF Turn, Wants
  <2>4. Run(x, f, 1)
    BY <2>2, <2>3 DEF Run
  <2>5. ~Wants(x, 1)
    BY <2>1 DEF Wants
  <2> QED BY <1>6, <1>8, <2>1, <2>2, <2>4, <2>5 DEF Complete
<1>9. CASE n >= 3 /\ x \in Enclosed(Grammar[n - 2])
  <2>1. PICK y \in Grammar[n - 2] : x = <<"(">> \o y \o <<")">>
    BY <1>9 DEF Enclosed
  <2>2. n - 2 \in 0..(n - 1)
    BY <1>3, <1>9
  <2>3. y \in Seq(Tokens) /\ Len(y) = n - 2 /\ Complete(y)
    BY <1>4, <2>2
  <2>4. x \in Seq(Tokens) /\ Len(x) = Len(y) + 2 /\ Complete(x)
    BY <2>1, <2>3, EnclosedIsComplete
  <2>5. Len(x) = n
    BY <1>3, <2>3, <2>4
  <2> QED BY <1>6, <2>4, <2>5
<1>10. CASE \E k \in 1..(n - 2) : x \in Joined(Grammar[k], Grammar[n - 1 - k])
  <2>1. PICK k \in 1..(n - 2) : x \in Joined(Grammar[k], Grammar[n - 1 - k])
    BY <1>10
  <2>2. PICK y \in Grammar[k], z \in Grammar[n - 1 - k] : x = y \o <<"AND">> \o z
    <3> DEFINE S == Grammar[k]
               T == Grammar[n - 1 - k]
    <3>1. x \in Joined(S, T)
      BY <2>1
    <3> HIDE DEF S, T
    <3>2. \E y \in S, z \in T : x = y \o <<"AND">> \o z
      BY <3>1, JoinedIs
    <3> QED BY <3>2 DEF S, T
  <2>3. k \in 0..(n - 1) /\ n - 1 - k \in 0..(n - 1)
    BY <1>3
  <2>4. y \in Seq(Tokens) /\ Len(y) = k /\ Complete(y)
    BY <1>4, <2>3
  <2>5. z \in Seq(Tokens) /\ Len(z) = n - 1 - k /\ Complete(z)
    BY <1>4, <2>3
  <2>6. x \in Seq(Tokens) /\ Len(x) = Len(y) + Len(z) + 1 /\ Complete(x)
    BY <2>2, <2>4, <2>5, JoinedIsComplete
  <2>7. Len(x) = n
    BY <1>3, <2>3, <2>4, <2>5, <2>6
  <2> QED BY <1>6, <2>6, <2>7
<1> QED BY <1>7, <1>8, <1>9, <1>10, GrammarRules

\* A part of what was read, from a token at depth d that wants an operand on,
\* is complete if it ends at d with none wanted and never falls below d.
LEMMA PartIsComplete ==
  ASSUME NEW x \in Seq(Tokens), NEW f, Run(x, f, Len(x)), NEW a \in 0..Len(x), NEW b \in (a + 1)..Len(x),
         Wants(x, a), ~Wants(x, b), f[b] = f[a], \A i \in a..b : f[a] <= f[i]
  PROVE  LET y == SubSeq(x, a + 1, b) IN y \in Seq(Tokens) /\ Len(y) = b - a /\ Complete(y)
<1> DEFINE n == b - a
           y == SubSeq(x, a + 1, b)
<1>1. /\ n \in Nat /\ a \in Nat /\ b \in Nat /\ n > 0
      /\ y \in Seq(Tokens) /\ Len(y) = n /\ \A i \in 1..n : y[i] = x[a + i]
  <2>1. Len(x) \in Nat
    OBVIOUS
  <2>2. a + 1 \in 1..Len(x) /\ b \in 1..Len(x) /\ a \in Nat /\ b \in Nat /\ b - (a + 1) + 1 = n /\ n \in Nat /\ n > 0
    BY <2>1
  <2>3. y = [i \in 1..(b - (a + 1) + 1) |-> x[(a + 1) + i - 1]]
    BY <2>2
  <2>4. \A i \in 1..n : (a + 1) + i - 1 = a + i /\ a + i \in 1..Len(x)
    BY <2>1, <2>2
  <2>5. y = [i \in 1..n |-> x[a + i]]
    BY <2>2, <2>3, <2>4
  <2>6. \A i \in 1..n : x[a + i] \in Tokens
    BY <2>4
  <2> HIDE DEF y, n
  <2> QED BY <2>2, <2>5, <2>6
<1> DEFINE g == [i \in 0..n |-> f[a + i] - f[a]]
<1>2. \A i \in 0..n : a + i \in 0..Len(x) /\ a + i \in a..b
  BY <1>1
<1>3. f \in [0..Len(x) -> Nat]
  BY DEF Run
<1> HIDE DEF y
<1>4. g \in [0..n -> Nat]
  <2>1. ASSUME NEW i \in 0..n PROVE f[a + i] - f[a] \in Nat
    <3>1. f[a + i] \in Nat /\ f[a] \in Nat /\ f[a] <= f[a + i]
      BY <1>2, <1>3
    <3> QED BY <3>1
  <2> QED BY <2>1
<1>5. f[a] \in Nat
  BY <1>3
<1>6. \A i \in 0..n : g[i] = f[a + i] - f[a] /\ f[a + i] \in Nat
  BY <1>2, <1>3
<1> HIDE DEF g
<1>7. ASSUME NEW i \in 0..n PROVE Wants(y, i) <=> Wants(x, a + i)
  <2>1. CASE i = 0
    BY <1>1, <2>1 DEF Wants
  <2>2. CASE i # 0
    <3>1. i \in 1..n /\ a + i # 0
      BY <1>1, <2>2
    <3> QED BY <1>1, <3>1 DEF Wants
  <2> QED BY <2>1, <2>2
<1>8. ASSUME NEW i \in 1..n PROVE Turn(y[i], Wants(y, i - 1), g[i - 1], g[i])
  <2> DEFINE j == i - 1
  <2>1. j \in 0..n /\ i \in 0..n /\ a + i \in 1..Len(x) /\ a + j = (a + i) - 1
    BY <1>1
  <2> HIDE DEF j
  <2>2. Turn(x[a + i], Wants(x, a + j), f[a + j], f[a + i])
    BY <2>1 DEF Run
  <2>3. y[i] = x[a + i] /\ (Wants(y, j) <=> Wants(x, a + j))
    BY <1>1, <1>7, <2>1
  <2>4. g[i] = f[a + i] - f[a] /\ g[j] = f[a + j] - f[a] /\ f[a + i] \in Nat /\ f[a + j] \in Nat /\ g[i] \in Nat
    BY <1>4, <1>6, <2>1
  <2>5. Turn(y[i], Wants(y, j), g[j], g[i])
    BY <1>5, <2>2, <2>3, <2>4 DEF Turn
  <2> QED BY <2>5 DEF j
<1>9. Run(y, g, n) /\ g[n] = 0 /\ ~Wants(y, n)
  <2>1. 0 \in 0..n /\ n \in 0..n /\ a + 0 = a /\ a + n = b
    BY <1>1
  <2>2. g[0] = 0 /\ g[n] = 0
    BY <1>5, <1>6, <2>1
  <2> QED BY <1>4, <1>7, <1>8, <2>1, <2>2 DEF Run
<1>10. Complete(y)
  BY <1>1, <1>9 DEF Complete
<1> QED BY <1>1, <1>10 DEF y

\* A first part of an expression at depth 0 belongs to the grammar.
LEMMA FirstPart ==
  ASSUME NEW n \in 1..MaxSpdx, NEW x \in Seq(Tokens), Len(x) = n, NEW f, Run(x, f, n), f[n] = 0,
         \A m \in 0..(n - 1) : \A y \in Seq(Tokens) : Len(y) = m /\ Complete(y) => y \in Grammar[m]
  PROVE  \E m \in 1..n : f[m] = 0 /\ ~Wants(x, m) /\ SubSeq(x, 1, m) \in Grammar[m]
<1>1. /\ f \in [0..n -> Nat] /\ f[0] = 0 /\ n \in Nat /\ n > 0
      /\ \A i \in 1..n : Turn(x[i], Wants(x, i - 1), f[i - 1], f[i])
      /\ \A i \in 1..n : i \in 1..MaxSpdx /\ x[i] \in Tokens /\ i \in 0..n
  BY SpdxAssumption DEF Run
<1>2. Turn(x[1], TRUE, 0, f[1])
  <2>1. 1 \in 1..n /\ 1 - 1 = 0
    BY <1>1
  <2> QED BY <1>1, <2>1 DEF Turn, Wants
<1>3. CASE x[1] = "id"
  <2>1. f[1] = 0
    BY <1>2, <1>3 DEF Turn
  <2>2. ~Wants(x, 1)
    BY <1>3 DEF Wants
  <2>3. SubSeq(x, 1, 1) = <<"id">>
    <3> DEFINE y == SubSeq(x, 1, 1)
    <3>1. y \in Seq(Tokens) /\ Len(y) = 1 /\ y[1] = "id"
      BY <1>1, <1>3
    <3> HIDE DEF y
    <3>2. y = <<"id">>
      BY <3>1
    <3> QED BY <3>2 DEF y
  <2>4. 1 \in 1..n /\ 1 \in 1..MaxSpdx
    BY <1>1
  <2>5. SubSeq(x, 1, 1) \in Grammar[1]
    BY <2>3, <2>4, GrammarRules
  <2> QED BY <2>1, <2>2, <2>4, <2>5
<1>4. CASE x[1] = "("
  <2>1. f[1] = 1 /\ Wants(x, 1)
    BY <1>2, <1>4 DEF Turn, Wants
  <2> DEFINE Closed == {i \in 1..n : f[i] = 0}
  <2>2. PICK m \in Closed : \A i \in Closed : m <= i
    <3>1. n \in Closed /\ Closed \in SUBSET Nat
      BY <1>1
    <3> HIDE DEF Closed
    <3> QED BY <3>1, LeastElement
  <2>3. m \in 1..n /\ f[m] = 0 /\ m # 1 /\ m \in Nat
    BY <2>1
  <2>4. \A i \in 1..(m - 1) : f[i] \in Nat /\ 1 <= f[i]
    <3> TAKE i \in 1..(m - 1)
    <3>1. i \in 1..n /\ ~(m <= i) /\ f[i] \in Nat
      BY <1>1, <2>3
    <3>2. f[i] # 0
      BY <2>2, <3>1
    <3> QED BY <3>1, <3>2
  <2>5. m - 1 \in 1..(m - 1) /\ m - 1 \in 1..n
    BY <1>1, <2>3
  <2>6. Turn(x[m], Wants(x, m - 1), f[m - 1], 0)
    BY <1>1, <2>3
  <2>7. x[m] = ")" /\ f[m - 1] = 1 /\ ~Wants(x, m - 1)
    BY <2>4, <2>5, <2>6 DEF Turn
  <2>8. m - 1 # 1
    BY <2>1, <2>7
  <2> DEFINE y == SubSeq(x, 2, m - 1)
  <2>9. y \in Seq(Tokens) /\ Len(y) = m - 2 /\ Complete(y)
    <3>1. 1 \in 0..Len(x) /\ m - 1 \in (1 + 1)..Len(x) /\ (m - 1) - 1 = m - 2 /\ 1 + 1 = 2
      BY <1>1, <2>3, <2>8
    <3>2. f[m - 1] = f[1] /\ \A i \in 1..(m - 1) : f[1] <= f[i]
      BY <2>1, <2>4, <2>7
    <3>3. LET w == SubSeq(x, 1 + 1, m - 1) IN w \in Seq(Tokens) /\ Len(w) = (m - 1) - 1 /\ Complete(w)
      BY <2>1, <2>7, <3>1, <3>2, PartIsComplete
    <3> QED BY <3>1, <3>3
  <2>10. y \in Grammar[m - 2]
    <3>1. m - 2 \in 0..(n - 1)
      BY <1>1, <2>3, <2>8
    <3> QED BY <2>9, <3>1
  <2>11. SubSeq(x, 1, m) = <<"(">> \o y \o <<")">>
    <3>1. \A i \in 1..(m - 2) : y[i] = x[i + 1]
      BY <1>1, <2>3, <2>8
    <3> HIDE DEF y
    <3> DEFINE v == SubSeq(x, 1, m)
               w == <<"(">> \o y \o <<")">>
    <3>2. v \in Seq(Tokens) /\ Len(v) = m /\ \A i \in 1..m : v[i] = x[i]
      BY <1>1, <2>3
    <3>3. w \in Seq(Tokens) /\ Len(w) = m /\ w[1] = "(" /\ w[m] = ")" /\ \A i \in 1..(m - 2) : w[i + 1] = y[i]
      <4>1. (m - 2) + 2 = m
        BY <2>3
      <4> QED BY <2>9, <4>1, EnclosedTokens
    <3> HIDE DEF v, w
    <3>4. ASSUME NEW i \in 1..m PROVE v[i] = w[i]
      <4>1. CASE i = 1
        BY <1>4, <3>2, <3>3, <4>1
      <4>2. CASE i = m
        BY <2>7, <3>2, <3>3, <4>2
      <4>3. CASE i # 1 /\ i # m
        <5> DEFINE j == i - 1
        <5>1. j \in 1..(m - 2) /\ j + 1 = i
          BY <2>3, <4>3
        <5> HIDE DEF j
        <5> QED BY <3>1, <3>2, <3>3, <5>1
      <4> QED BY <4>1, <4>2, <4>3
    <3>5. v = w
      BY <3>2, <3>3, <3>4, SameTokens
    <3> QED BY <3>5 DEF v, w
  <2>12. SubSeq(x, 1, m) \in Enclosed(Grammar[m - 2])
    BY <2>10, <2>11 DEF Enclosed
  <2>13. SubSeq(x, 1, m) \in Grammar[m]
    <3>1. m \in 1..MaxSpdx /\ m >= 3
      BY <1>1, <2>3, <2>8
    <3> QED BY <2>12, <3>1, GrammarRules
  <2>14. ~Wants(x, m)
    BY <2>3, <2>7 DEF Wants
  <2> QED BY <2>3, <2>13, <2>14
<1> QED BY <1>2, <1>3, <1>4 DEF Turn

\* What is read to its end is an expression of the grammar.
LEMMA CompleteIsGrammar ==
  \A n \in 0..MaxSpdx : \A x \in Seq(Tokens) : Len(x) = n /\ Complete(x) => x \in Grammar[n]
<1> DEFINE Good(n) == \A x \in Seq(Tokens) : Len(x) = n /\ Complete(x) => x \in Grammar[n]
           Bad == {n \in 0..MaxSpdx : ~Good(n)}
<1>1. SUFFICES ASSUME Bad # {} PROVE FALSE
  OBVIOUS
<1>2. PICK n \in Bad : \A m \in Bad : n <= m
  <2>1. Bad \in SUBSET Nat
    OBVIOUS
  <2> HIDE DEF Bad
  <2> QED BY <1>1, <2>1, LeastElement
<1>3. n \in 0..MaxSpdx /\ ~Good(n) /\ n \in Nat
  BY SpdxAssumption
<1>4. \A m \in 0..(n - 1) : \A y \in Seq(Tokens) : Len(y) = m /\ Complete(y) => y \in Grammar[m]
  <2> SUFFICES ASSUME NEW m \in 0..(n - 1) PROVE Good(m)
    OBVIOUS
  <2>1. m \in 0..MaxSpdx /\ ~(n <= m)
    BY <1>3, SpdxAssumption
  <2> HIDE DEF Good
  <2> QED BY <1>2, <2>1
<1>5. PICK x \in Seq(Tokens) : Len(x) = n /\ Complete(x) /\ x \notin Grammar[n]
  BY <1>3
<1> HIDE DEF Good, Bad
<1>6. PICK f : Run(x, f, n) /\ f[n] = 0
  BY <1>5 DEF Complete
<1>7. ~Wants(x, n) /\ f \in [0..n -> Nat]
  BY <1>5, <1>6 DEF Complete, Run
<1>8. n # 0 /\ n \in 1..MaxSpdx
  BY <1>3, <1>7, SpdxAssumption DEF Wants
<1>9. PICK m \in 1..n : f[m] = 0 /\ ~Wants(x, m) /\ SubSeq(x, 1, m) \in Grammar[m]
  BY <1>4, <1>5, <1>6, <1>8, FirstPart
<1>10. CASE m = n
  <2>1. SubSeq(x, 1, n) = x
    BY <1>3, <1>5
  <2> QED BY <1>5, <1>9, <1>10, <2>1
<1>11. CASE m # n
  <2>1. m + 1 \in 1..n /\ (m + 1) - 1 = m /\ m \in Nat
    BY <1>3, <1>11
  <2>2. Turn(x[m + 1], Wants(x, m), 0, f[m + 1])
    BY <1>6, <1>9, <2>1 DEF Run
  <2>3. x[m + 1] = "AND" /\ f[m + 1] = 0
    BY <1>9, <2>2 DEF Turn
  <2>4. Wants(x, m + 1)
    BY <2>3 DEF Wants
  <2>5. m + 1 # n
    BY <1>7, <2>4
  <2> DEFINE z == SubSeq(x, m + 2, n)
  <2>6. z \in Seq(Tokens) /\ Len(z) = n - 1 - m /\ Complete(z)
    <3>1. m + 1 \in 0..Len(x) /\ n \in ((m + 1) + 1)..Len(x) /\ (m + 1) + 1 = m + 2 /\ n - (m + 1) = n - 1 - m
      BY <1>3, <1>5, <2>1, <2>5
    <3>2. f[n] = f[m + 1] /\ \A i \in (m + 1)..n : f[m + 1] <= f[i]
      <4>1. \A i \in (m + 1)..n : f[i] \in Nat
        BY <1>7, <2>1
      <4> QED BY <1>6, <2>3, <4>1
    <3>3. LET w == SubSeq(x, (m + 1) + 1, n) IN w \in Seq(Tokens) /\ Len(w) = n - (m + 1) /\ Complete(w)
      BY <1>5, <1>6, <1>7, <2>4, <3>1, <3>2, PartIsComplete
    <3> QED BY <3>1, <3>3
  <2>7. z \in Grammar[n - 1 - m]
    <3>1. n - 1 - m \in 0..(n - 1)
      BY <1>3, <2>1, <2>5
    <3> QED BY <1>4, <2>6, <3>1
  <2>8. x = SubSeq(x, 1, m) \o <<"AND">> \o z
    <3>1. \A i \in 1..(n - 1 - m) : z[i] = x[m + 1 + i]
      BY <1>3, <1>5, <2>1, <2>5
    <3> HIDE DEF z
    <3> DEFINE y == SubSeq(x, 1, m)
    <3>2. y \in Seq(Tokens) /\ Len(y) = m /\ \A i \in 1..m : y[i] = x[i]
      BY <1>3, <1>5, <2>1
    <3> HIDE DEF y
    <3> DEFINE w == y \o <<"AND">> \o z
    <3>3. /\ Len(w) = n /\ w \in Seq(Tokens) /\ w[m + 1] = "AND" /\ (\A i \in 1..m : w[i] = y[i])
          /\ \A i \in 1..(n - 1 - m) : w[m + 1 + i] = z[i]
      <4>1. m + (n - 1 - m) + 1 = n
        BY <1>3, <2>1
      <4>2. LET v == y \o <<"AND">> \o z IN
            /\ v \in Seq(Tokens) /\ Len(v) = Len(y) + Len(z) + 1
            /\ v[Len(y) + 1] = "AND" /\ (\A i \in 1..Len(y) : v[i] = y[i])
            /\ \A i \in 1..Len(z) : v[Len(y) + 1 + i] = z[i]
        BY <2>6, <3>2, JoinedTokens
      <4> QED BY <2>6, <3>2, <4>1, <4>2
    <3> HIDE DEF w
    <3>4. \A i \in 1..n : w[i] = x[i]
      <4> TAKE i \in 1..n
      <4>4. CASE i <= m + 1
        BY <2>1, <2>3, <3>2, <3>3, <4>4
      <4>5. CASE i > m + 1
        <5> DEFINE j == i - m - 1
        <5>1. j \in 1..(n - 1 - m) /\ m + 1 + j = i
          BY <1>3, <2>1, <4>5
        <5> HIDE DEF j
        <5> QED BY <3>1, <3>3, <5>1
      <4>6. i \in Nat /\ m \in Nat
        BY <2>1
      <4> QED BY <4>4, <4>5, <4>6
    <3>5. x = w
      BY <1>5, <3>3, <3>4, SameTokens
    <3> QED BY <3>5 DEF w, y
  <2>9. x \in Joined(Grammar[m], Grammar[n - 1 - m])
    <3> HIDE DEF z
    <3> QED BY <1>9, <2>7, <2>8, JoinedIs
  <2>10. m \in 1..(n - 2)
    BY <1>3, <2>1, <2>5
  <2>11. x \in Grammar[n]
    BY <1>8, <2>9, <2>10, GrammarRules
  <2> QED BY <1>5, <2>11
<1> QED BY <1>10, <1>11

-----------------------------------------------------------------------------
(* Governance: the inductive invariant and what follows from it *)

\* The tokens up to some point were read, and the next one does not fit
Stuck ==
  \E m \in 1..Len(spdx) : \E f :
    /\ Run(spdx, f, m - 1)
    /\ \A e \in Nat : ~Turn(spdx[m], Wants(spdx, m - 1), f[m - 1], e)

\* What the validator knows of what it read
SpdxInv ==
  /\ spdx \in Seq(Tokens) /\ Len(spdx) <= MaxSpdx
  /\ depth \in Nat /\ expect_operand \in BOOLEAN
  /\ verdict \in {"open", "valid", "invalid", "refused"}
  /\ verdict # "refused" =>
       /\ expect_operand = Wants(spdx, Len(spdx))
       /\ \E f : Run(spdx, f, Len(spdx)) /\ f[Len(spdx)] = depth
  /\ verdict = "valid" => depth = 0 /\ ~expect_operand
  /\ verdict = "invalid" => ~(depth = 0 /\ ~expect_operand)
  /\ verdict = "refused" => Stuck


\* The validator starts with nothing read.
LEMMA SpdxInit == ASSUME GovernanceInit PROVE SpdxInv
<1>1. spdx = <<>> /\ depth = 0 /\ expect_operand = TRUE /\ verdict = "open"
  BY DEF GovernanceInit
<1> DEFINE f == [i \in 0..0 |-> 0]
<1>2. f \in [0..0 -> Nat] /\ f[0] = 0 /\ 1..0 = {}
  OBVIOUS
<1> HIDE DEF f
<1>3. Run(spdx, f, 0)
  BY <1>2 DEF Run
<1>4. Len(spdx) = 0 /\ spdx \in Seq(Tokens)
  BY <1>1
<1>5. Wants(spdx, 0) = TRUE
  BY DEF Wants
<1> QED BY <1>1, <1>2, <1>3, <1>4, <1>5, SpdxAssumption DEF SpdxInv

\* A token that fits is read, one that does not leaves the validator stuck.
LEMMA TokenRead == ASSUME SpdxInv, NEW k \in Tokens, read_token(k) PROVE SpdxInv'
<1> DEFINE n == Len(spdx)
<1>1. /\ spdx \in Seq(Tokens) /\ n \in Nat /\ n + 1 <= MaxSpdx /\ depth \in Nat /\ expect_operand \in BOOLEAN
      /\ spdx' = Append(spdx, k) /\ verdict \in {"open", "refused"}
  BY SpdxAssumption DEF SpdxInv, read_token
<1>2. /\ spdx' \in Seq(Tokens) /\ Len(spdx') = n + 1
      /\ spdx'[n + 1] = k /\ \A i \in 1..n : spdx[i] = spdx'[i]
  BY <1>1
<1>3. ASSUME NEW m \in 0..n PROVE Wants(spdx', m) <=> Wants(spdx, m)
  <2>1. m = 0 \/ m \in 1..n
    BY <1>1
  <2> QED BY <1>2, <2>1 DEF Wants
<1>4. n \in 0..n /\ n + 1 \in 1..(n + 1) /\ (n + 1) - 1 = n
  BY <1>1
<1>5. CASE verdict = "open"
  <2>1. PICK f : Run(spdx, f, n) /\ f[n] = depth
    BY <1>5 DEF SpdxInv
  <2>2. expect_operand = Wants(spdx, n)
    BY <1>5 DEF SpdxInv
  <2>3. Run(spdx', f, n)
    BY <1>1, <1>2, <2>1, RunOfLonger
  <2>4. Wants(spdx', n) <=> expect_operand
    BY <1>3, <1>4, <2>2
  <2>5. CASE Accept(k) /\ UNCHANGED verdict
    <3>1. Turn(k, expect_operand, depth, depth') /\ depth' \in Nat /\ expect_operand' \in BOOLEAN
      <4>1. CASE k = "(" /\ expect_operand /\ depth' = depth + 1 /\ expect_operand' = expect_operand
        BY <1>1, <4>1 DEF Turn
      <4>2. CASE k = ")" /\ ~expect_operand /\ depth > 0 /\ depth' = depth - 1 /\ expect_operand' = expect_operand
        <5>1. depth - 1 \in Nat
          BY <1>1, <4>2
        <5> QED BY <1>1, <4>2, <5>1 DEF Turn
      <4>3. CASE k = "AND" /\ ~expect_operand /\ expect_operand' = TRUE /\ depth' = depth
        BY <1>1, <4>3 DEF Turn
      <4>4. CASE k = "id" /\ expect_operand /\ expect_operand' = FALSE /\ depth' = depth
        BY <1>1, <4>4 DEF Turn
      <4> QED BY <2>5, <4>1, <4>2, <4>3, <4>4 DEF Accept
    <3>2. expect_operand' <=> Wants(spdx', n + 1)
      BY <1>1, <1>2, <2>5 DEF Accept, Wants
    <3>3. Wants(spdx', n + 1) \in BOOLEAN
      BY DEF Wants
    <3>4. Turn(spdx'[n + 1], Wants(spdx', n), f[n], depth')
      BY <1>2, <2>1, <2>4, <3>1 DEF Turn
    <3>5. \E g : Run(spdx', g, n + 1) /\ g[n + 1] = depth'
      <4> HIDE DEF n
      <4>1. n \in Nat /\ depth' \in Nat
        BY <1>1, <3>1
      <4> QED BY <2>3, <3>4, <4>1, RunGoesOn
    <3>6. verdict' = "open" /\ expect_operand' = Wants(spdx', n + 1)
      BY <1>5, <2>5, <3>1, <3>2, <3>3
    <3> HIDE DEF n
    <3> QED BY <1>1, <1>2, <3>1, <3>5, <3>6 DEF SpdxInv
  <2>6. CASE ~Fits(k) /\ verdict' = "refused" /\ UNCHANGED <<depth, expect_operand>>
    <3>1. \A e \in Nat : ~Turn(spdx'[n + 1], Wants(spdx', n), f[n], e)
      BY <1>1, <1>2, <2>1, <2>4, <2>6 DEF Turn, Fits
    <3>2. Stuck'
      BY <1>2, <1>4, <2>3, <3>1 DEF Stuck
    <3> HIDE DEF n
    <3> QED BY <1>1, <1>2, <2>6, <3>2 DEF SpdxInv
  <2> QED BY <1>5, <2>5, <2>6 DEF read_token
<1>6. CASE verdict = "refused"
  <2>0. PICK m \in 1..n : \E f : /\ Run(spdx, f, m - 1)
                                 /\ \A e \in Nat : ~Turn(spdx[m], Wants(spdx, m - 1), f[m - 1], e)
    BY <1>6 DEF SpdxInv, Stuck
  <2>1. PICK f : /\ Run(spdx, f, m - 1)
                 /\ \A e \in Nat : ~Turn(spdx[m], Wants(spdx, m - 1), f[m - 1], e)
    BY <2>0
  <2>2. m \in 1..(n + 1) /\ m - 1 \in 0..n /\ m - 1 \in Nat /\ \A i \in 1..(m - 1) : i \in 1..n
    BY <1>1
  <2>3. Run(spdx', f, m - 1)
    BY <1>2, <2>1, <2>2, RunOfLonger
  <2>4. (Wants(spdx', m - 1) <=> Wants(spdx, m - 1)) /\ spdx'[m] = spdx[m]
    BY <1>2, <1>3, <2>2
  <2>5. \A e \in Nat : ~Turn(spdx'[m], Wants(spdx', m - 1), f[m - 1], e)
    BY <2>1, <2>4 DEF Turn
  <2>6. Stuck'
    BY <1>2, <2>2, <2>3, <2>5 DEF Stuck
  <2>7. verdict' = "refused" /\ depth' = depth /\ expect_operand' = expect_operand
    BY <1>6 DEF read_token
  <2> HIDE DEF n
  <2> QED BY <1>1, <1>2, <2>6, <2>7 DEF SpdxInv
<1> QED BY <1>1, <1>5, <1>6

\* The end of the expression
LEMMA ExpressionEnds == ASSUME SpdxInv, end_expression PROVE SpdxInv'
<1>1. /\ spdx' = spdx /\ depth' = depth /\ expect_operand' = expect_operand /\ verdict = "open"
      /\ verdict' = IF depth = 0 /\ ~expect_operand THEN "valid" ELSE "invalid"
  BY DEF end_expression
<1> QED BY <1>1 DEF SpdxInv

\* Every step preserves what the validator knows.
LEMMA SpdxStep == ASSUME SpdxInv, [GovernanceNext]_governanceVars PROVE SpdxInv'
<1>1. CASE validate_spdx_expression
  BY <1>1, TokenRead, ExpressionEnds DEF validate_spdx_expression
<1>2. CASE UNCHANGED spdxVars
  <2>1. spdx' = spdx /\ depth' = depth /\ expect_operand' = expect_operand /\ verdict' = verdict
    BY <1>2 DEF spdxVars
  <2> QED BY <2>1 DEF SpdxInv, Stuck
<1> QED BY <1>1, <1>2 DEF GovernanceNext, governanceVars, assert_acl, assert_tenant, evaluate_license

\* The verdict is the grammar's.
LEMMA SpdxDecides == ASSUME SpdxInv PROVE SpdxIsTheGrammar
<1> DEFINE n == Len(spdx)
<1>1. spdx \in Seq(Tokens) /\ n \in 0..MaxSpdx /\ n \in Nat
  BY SpdxAssumption DEF SpdxInv
<1>2. spdx \in Grammar[n] => Complete(spdx)
  BY <1>1, GrammarIsComplete
<1>3. Complete(spdx) => spdx \in Grammar[n]
  BY <1>1, CompleteIsGrammar
<1>4. ASSUME verdict = "valid" PROVE Complete(spdx)
  BY <1>4 DEF SpdxInv, Complete
<1>5. ASSUME verdict = "invalid", Complete(spdx) PROVE FALSE
  <2>1. PICK f : Run(spdx, f, n) /\ f[n] = depth
    BY <1>5 DEF SpdxInv
  <2>2. PICK g : Run(spdx, g, n) /\ g[n] = 0
    BY <1>5 DEF Complete
  <2>3. f[n] = g[n]
    <3>1. n \in 0..n
      BY <1>1
    <3> QED BY <1>1, <2>1, <2>2, <3>1, RunsAgree
  <2>4. expect_operand = Wants(spdx, n) /\ ~Wants(spdx, n)
    BY <1>5 DEF SpdxInv, Complete
  <2> QED BY <1>5, <2>1, <2>2, <2>3, <2>4 DEF SpdxInv
<1>6. ASSUME verdict = "refused", Complete(spdx) PROVE FALSE
  <2>0. PICK m \in 1..n : \E f : /\ Run(spdx, f, m - 1)
                                 /\ \A e \in Nat : ~Turn(spdx[m], Wants(spdx, m - 1), f[m - 1], e)
    BY <1>6 DEF SpdxInv, Stuck
  <2>1. PICK f : /\ Run(spdx, f, m - 1)
                 /\ \A e \in Nat : ~Turn(spdx[m], Wants(spdx, m - 1), f[m - 1], e)
    BY <2>0
  <2>2. PICK g : Run(spdx, g, n) /\ g[n] = 0
    BY <1>6 DEF Complete
  <2>3. m - 1 \in Nat /\ m - 1 <= n /\ m - 1 \in 0..(m - 1) /\ m \in 0..n
    BY <1>1
  <2>4. f[m - 1] = g[m - 1]
    BY <1>1, <2>1, <2>2, <2>3, RunsAgree
  <2>5. Turn(spdx[m], Wants(spdx, m - 1), f[m - 1], g[m]) /\ g[m] \in Nat
    BY <2>2, <2>3, <2>4 DEF Run
  <2> QED BY <2>1, <2>5
<1> QED BY <1>2, <1>3, <1>4, <1>5, <1>6 DEF SpdxIsTheGrammar

\* Access control entries validate, or there are none.
AclInv == acl # {NoEntry} => AllValid(acl)

\* What is asserted of access are entries that validate: folded ones do not,
\* so a configuration that folds raises or states no entries.
LEMMA AclStep == ASSUME AclInv, [GovernanceNext]_governanceVars PROVE AclInv'
<1>1. CASE assert_acl
  <2> DEFINE Twice(e, b) == normalize_acl_entries(normalize_acl_entries(e, b), b)
  <2>1. \E entries : \E fold \in BOOLEAN :
          \/ acl' = acl
          \/ AllValid(entries) /\ AllValid(normalize_acl_entries(entries, fold)) /\ acl' = Twice(entries, fold)
    <3>1. PICK direct \in EntrySets \cup {{NoEntry}}, rule \in EntrySets \cup {{NoEntry}}, fold \in BOOLEAN :
            LET entries  == Resolve(direct, rule, {NoEntry})
                expected == normalize_acl_entries(entries, fold) IN
            \/ acl' = acl
            \/ AllValid(entries) /\ AllValid(expected) /\ acl' = normalize_acl_entries(expected, fold)
      BY <1>1, Zenon DEF assert_acl
    <3> QED BY <3>1, Zenon
  <2>4. PICK entries : \E fold \in BOOLEAN :
          \/ acl' = acl
          \/ AllValid(entries) /\ AllValid(normalize_acl_entries(entries, fold)) /\ acl' = Twice(entries, fold)
    BY <2>1, Zenon
  <2>5. PICK fold \in BOOLEAN :
          \/ acl' = acl
          \/ AllValid(entries) /\ AllValid(normalize_acl_entries(entries, fold)) /\ acl' = Twice(entries, fold)
    BY <2>4, Zenon
  <2>2. CASE acl' = acl
    BY <2>2 DEF AclInv, AllValid
  <2>3. CASE /\ AllValid(entries) /\ AllValid(normalize_acl_entries(entries, fold))
             /\ acl' = normalize_acl_entries(normalize_acl_entries(entries, fold), fold)
    <3>1. CASE ~fold
      BY <2>3, <3>1 DEF normalize_acl_entries, AclInv, AllValid
    <3>2. CASE fold
      <4>1. \A e \in entries : validate_acl_entry(e) /\ validate_acl_entry(lower(e))
        BY <2>3, <3>2 DEF normalize_acl_entries, AllValid
      <4>2. \A e : ~(validate_acl_entry(e) /\ validate_acl_entry(lower(e)))
        BY DEF validate_acl_entry, lower
      <4>3. acl' = {}
        BY <2>3, <3>2, <4>1, <4>2 DEF normalize_acl_entries
      <4> QED BY <4>3 DEF AclInv, AllValid
    <3> QED BY <3>1, <3>2
  <2> QED BY <2>2, <2>3, <2>5
<1>2. CASE UNCHANGED acl
  BY <1>2 DEF AclInv, AllValid
<1> QED BY <1>1, <1>2 DEF GovernanceNext, governanceVars, assert_tenant, evaluate_license,
                          validate_spdx_expression, read_token, end_expression

\* What a build asserts of a source is sound: access control entries that
\* validate, a license expression exactly when the grammar accepts it
\* (validate_spdx_expression), and no conflict left out, whatever is
\* configured and however many tokens an expression has.
THEOREM AssertionsHold == GovernanceSpec => []AssertionsAreSound
<1>1. GovernanceInit => AclInv /\ SpdxInv
  BY SpdxInit DEF GovernanceInit, AclInv
<1>2. AclInv /\ SpdxInv /\ [GovernanceNext]_governanceVars => (AclInv /\ SpdxInv)'
  BY AclStep, SpdxStep
<1>3. AclInv /\ SpdxInv /\ LicensesAreResolved => AssertionsAreSound
  BY SpdxDecides DEF AclInv, AssertionsAreSound
<1> QED BY <1>1, <1>2, <1>3, ConflictsAreReported, PTL DEF GovernanceSpec

=============================================================================
