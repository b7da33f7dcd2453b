--------------------------- MODULE ReconcileProofs ---------------------------
(***************************************************************************)
(* Theorems about Reconcile, for any manifest, snapshot and policy, any    *)
(* chunk size and any number of kills: where each point ends up, what is   *)
(* reported and proposed, and what a passing gate means.                   *)
(***************************************************************************)
EXTENDS Reconcile, FiniteSetTheorems, FunctionTheorems, SequenceTheorems,
        NaturalsInduction, WellFoundedInduction, TLAPS

-----------------------------------------------------------------------------
(* The inductive invariant *)

\* The items of a round, and what a set of runs holds of them
E == Members(expected)
O == Members(in.observed)

Held(at) == UNION {Members(at[i]) : i \in DOMAIN at}

\* How many items of a list, or of a list of lists, are in a set
Num(s, S) == Cardinality({i \in DOMAIN s : s[i] \in S})

Places(at, S) == {p \in (DOMAIN at) \X Nat : p[2] \in DOMAIN at[p[1]] /\ at[p[1]][p[2]] \in S}

NumIn(at, S) == Cardinality(Places(at, S))

One(x, S) == IF x \in S THEN 1 ELSE 0

Ordered(l, s) == \A i, j \in DOMAIN s : i < j => ~sorts_before(l, s[j], s[i])

Joining == pc \in {"join", "group", "surplus"}
Working == pc \in {"round", "join", "group", "surplus"}

\* Types.  The name of a run file starts with the attempt that wrote it
RunNames == Nat \X {"e", "o"} \X CLOSING_LEVELS \X Nat

Runs(U) == Seq([name : RunNames, lines : Seq(U)])

Writers(U) == [buffer : Seq(U), runs : Runs(U)]

Pairs == [expected : E, observed : O, level : CLOSING_LEVELS]

TypeInv ==
  /\ in \in Inputs /\ forced \in BOOLEAN /\ given \in BOOLEAN
  /\ mode \in {"small", "big"} /\ level \in CLOSING_LEVELS /\ attempt \in Nat
  /\ pc \in {"begin", "spill", "round", "join", "group", "surplus", "report", "done", "crashed"}
  /\ es \in Runs(E) /\ os \in Runs(O)
  /\ eAt \in Seq(Seq(E)) /\ oAt \in Seq(Seq(O))
  /\ eOut \in Writers(E) /\ oOut \in Writers(O)
  /\ eGroup \in Seq(E) /\ oGroup \in Seq(O)
  /\ matched \in Seq(Pairs)
  /\ disk \in SUBSET RunNames

\* What is empty, and where
PlaceInv ==
  /\ pc \in {"begin", "crashed"} => eOut = Writer /\ oOut = Writer
  /\ pc \in {"begin", "crashed", "spill"} => level = POINT_ID /\ duplicates = {}
  /\ pc \in {"begin", "crashed", "spill"} \/ (pc = "round" /\ level = POINT_ID) => matched = <<>>
  /\ ~Joining => es = <<>> /\ os = <<>> /\ eAt = <<>> /\ oAt = <<>>
  /\ pc \notin {"group", "surplus"} => eGroup = <<>> /\ oGroup = <<>>
  /\ pc = "surplus" => (eGroup = <<>> /\ oGroup # <<>>) \/ (oGroup = <<>> /\ eGroup # <<>>)
  /\ (Joining \/ Judged) /\ level = CHUNK_ID => eOut.runs = <<>> /\ oOut.runs = <<>>
  /\ pc = "spill" => mode = "big"
  /\ Judged => level = CHUNK_ID

\* What a writer has
Written(w, S) == Num(w.buffer, S) + NumIn(Lines(w.runs), S)

Kept(w) == Members(w.buffer) \cup Held(Lines(w.runs))

RunsOrdered(l, w) == \A i \in DOMAIN w.runs : Ordered(l, w.runs[i].lines)

\* A list is being spilled: its first n items are written
SpilledSoFar(w, s) ==
  \E n \in 0..Len(s) :
    /\ \A S : Written(w, S) = Num(SubSeq(s, 1, n), S)
    /\ \/ n = Count(w)
       \/ n = Len(s) /\ Count(w) >= n

MatchedE == [i \in DOMAIN matched |-> matched[i].expected]
MatchedO == [i \in DOMAIN matched |-> matched[i].observed]

\* No item is lost and none is made
ConservationInv ==
  /\ pc = "spill" => SpilledSoFar(eOut, expected) /\ SpilledSoFar(oOut, in.observed)
  /\ Working \/ Judged => \A S :
       /\ Num(expected, S) = Num(MatchedE, S) + Num(eGroup, S) + NumIn(eAt, S) + Written(eOut, S)
       /\ Num(in.observed, S) = Num(MatchedO, S) + Num(oGroup, S) + NumIn(oAt, S) + Written(oOut, S)

\* Runs are sorted by the level of the round that reads them
OrderInv ==
  LET next == IF Joining THEN level + 1 ELSE level IN
  /\ \A i \in DOMAIN eAt : Ordered(level, eAt[i])
  /\ \A i \in DOMAIN oAt : Ordered(level, oAt[i])
  /\ pc = "spill" \/ Working => RunsOrdered(next, eOut) /\ RunsOrdered(next, oOut)

\* A group has one key, the least that is still to be read
GroupInv ==
  pc = "group" =>
    /\ eGroup # <<>> /\ oGroup # <<>>
    /\ GroupKey # None
    /\ \A x \in Members(eGroup) \cup Members(oGroup) : key(level, x) = GroupKey
    /\ \A x \in Held(eAt) \cup Held(oAt) : ~sorts_before(level, x, eGroup[1])

OpenE == Kept(eOut) \cup Held(eAt) \cup Members(eGroup)
OpenO == Kept(oOut) \cup Held(oAt) \cup Members(oGroup)

\* Open after level l, or matched behind it
BehindE(l) == OpenE \cup {p.expected : p \in {p \in Members(matched) : p.level > l}}
BehindO(l) == OpenO \cup {p.observed : p \in {p \in Members(matched) : p.level > l}}

\* Items left over share no key with what the other side has open
ApartInv ==
  /\ \A p \in Members(matched) : SameKey(p.level, p.expected, p.observed) /\ p.level <= level
  /\ Working \/ Judged =>
       \A l \in CLOSING_LEVELS : l < level =>
         \A e \in BehindE(l), o \in BehindO(l) : ~SameKey(l, e, o)
  /\ Joining \/ Judged =>
       /\ \A e \in Kept(eOut), o \in OpenO : ~SameKey(level, e, o)
       /\ \A e \in OpenE, o \in Kept(oOut) : ~SameKey(level, e, o)
  /\ pc = "surplus" =>
       /\ \A e \in Members(eGroup), o \in Held(oAt) : ~SameKey(level, e, o)
       /\ \A o \in Members(oGroup), e \in Held(eAt) : ~SameKey(level, e, o)

\* The observed points with an id
With(id) == {o \in O : o.point_id = id}

\* Nothing with this id was read yet, or what there is to report is reported
Settled(id) ==
  Num(in.observed, With(id)) > 1 => [level |-> POINT_ID, key |-> id] \in duplicates

Untouched(id) ==
  /\ \E e \in Held(eAt) : e.point_id = id
  /\ NumIn(oAt, With(id)) = Num(in.observed, With(id))

DuplicateInv ==
  \A e \in E :
    LET id == e.point_id IN
    /\ Joining /\ level = POINT_ID =>
         IF pc = "group" /\ GroupKey = id
         THEN Len(oGroup) + NumIn(oAt, With(id)) = Num(in.observed, With(id)) \/ Settled(id)
         ELSE Untouched(id) \/ Settled(id)
    /\ (Working /\ level # POINT_ID) \/ Judged => Settled(id)

\* The result is made of the outcome, the verdict of the result
ResultInv ==
  /\ Judged => result = finalize(in, expected, Outcome)
  /\ pc = "done" => verdict = evaluate_policy(in.policy, result)

\* Which path this input takes, on every attempt
Large == ~preflight_fails(in, expected) /\ (forced \/ Len(in.observed) > MaxInMemory)

\* Files are of this attempt or an earlier one, and only the big path has any
DiskInv ==
  /\ \A f \in disk : f[1] <= attempt
  /\ \A f \in Names(eOut.runs) \cup Names(oOut.runs) : f[1] = attempt
  /\ disk # {} => Large
  /\ pc = "spill" \/ Working => (mode = "big" <=> Large)
  /\ pc \in {"report", "done"} => \A f \in disk : ~given /\ f[1] < attempt
  /\ RunFilesHold

ReconcileInv ==
  /\ TypeInv /\ PlaceInv /\ ConservationInv /\ OrderInv /\ GroupInv /\ ApartInv
  /\ DuplicateInv /\ ResultInv /\ DiskInv

-----------------------------------------------------------------------------
(* Finite total orders *)

\* A set of natural numbers that is not empty has a least element.
LEMMA LeastElement == ASSUME NEW T \in SUBSET Nat, T # {} PROVE \E x \in T : \A y \in T : x <= y
<1> DEFINE R == {p \in Nat \X Nat : p[1] < p[2]}
<1>1. IsWellFoundedOn(OpToRel(<, Nat), Nat)
  BY NatLessThanWellFounded
<1>2. OpToRel(<, Nat) = R
  BY DEF OpToRel
<1>3. PICK x \in T : \A y \in T : ~(<<y, x>> \in R)
  <2>1. IsWellFoundedOn(R, Nat)
    BY <1>1, <1>2
  <2> HIDE DEF R
  <2> QED BY <2>1, WFMin
<1>4. ASSUME NEW y \in T PROVE x <= y
  <2>1. y \in Nat /\ x \in Nat
    OBVIOUS
  <2>2. <<y, x>> \in Nat \X Nat => ~(<<y, x>>[1] < <<y, x>>[2])
    BY <1>3
  <2> QED BY <2>1, <2>2
<1> QED BY <1>4

TotalOrder(R, D) ==
  /\ \A i, j \in D : <<i, j>> \in R \/ <<j, i>> \in R
  /\ \A i, j \in D : <<i, j>> \in R /\ <<j, i>> \in R => i = j
  /\ \A i, j, k \in D : <<i, j>> \in R /\ <<j, k>> \in R => <<i, k>> \in R

UpTo(R, D, i) == {j \in D : <<j, i>> \in R}

\* What comes before another has fewer before it.
LEMMA RankGrows ==
  ASSUME NEW D, IsFiniteSet(D), NEW R, TotalOrder(R, D), NEW i \in D, NEW j \in D, <<i, j>> \in R, i # j
  PROVE  Cardinality(UpTo(R, D, i)) < Cardinality(UpTo(R, D, j))
<1>1. UpTo(R, D, j) \in SUBSET D /\ UpTo(R, D, i) \in SUBSET UpTo(R, D, j)
  BY DEF UpTo, TotalOrder
<1>2. j \in UpTo(R, D, j) /\ j \notin UpTo(R, D, i)
  BY DEF UpTo, TotalOrder
<1>3. IsFiniteSet(UpTo(R, D, j))
  BY <1>1, FS_Subset
<1>4. IsFiniteSet(UpTo(R, D, i)) /\ Cardinality(UpTo(R, D, i)) <= Cardinality(UpTo(R, D, j))
  BY <1>1, <1>3, FS_Subset
<1>5. Cardinality(UpTo(R, D, i)) # Cardinality(UpTo(R, D, j))
  BY <1>1, <1>2, <1>3, FS_Subset
<1>6. Cardinality(UpTo(R, D, i)) \in Nat /\ Cardinality(UpTo(R, D, j)) \in Nat
  BY <1>3, <1>4, FS_CardinalityType
<1> QED BY <1>4, <1>5, <1>6

\* A rank is one of the numbers up to the size of the set.
LEMMA RankIsBounded ==
  ASSUME NEW D, IsFiniteSet(D), NEW R, TotalOrder(R, D), NEW i \in D
  PROVE  Cardinality(UpTo(R, D, i)) \in 1..Cardinality(D)
<1>1. UpTo(R, D, i) \in SUBSET D /\ i \in UpTo(R, D, i)
  BY DEF UpTo, TotalOrder
<1>2. IsFiniteSet(UpTo(R, D, i)) /\ Cardinality(UpTo(R, D, i)) <= Cardinality(D)
  BY <1>1, FS_Subset
<1>3. Cardinality(UpTo(R, D, i)) \in Nat /\ Cardinality(D) \in Nat
  BY <1>2, FS_CardinalityType
<1>4. Cardinality(UpTo(R, D, i)) # 0
  BY <1>1, <1>2, FS_EmptySet
<1> QED BY <1>2, <1>3, <1>4

\* Ranks tell the order, and none is shared.
LEMMA RankOrders ==
  ASSUME NEW D, IsFiniteSet(D), NEW R, TotalOrder(R, D), NEW i \in D, NEW j \in D,
         Cardinality(UpTo(R, D, i)) <= Cardinality(UpTo(R, D, j))
  PROVE  <<i, j>> \in R /\ (Cardinality(UpTo(R, D, i)) = Cardinality(UpTo(R, D, j)) => i = j)
<1>1. Cardinality(UpTo(R, D, i)) \in Nat /\ Cardinality(UpTo(R, D, j)) \in Nat
  <2>1. Cardinality(UpTo(R, D, i)) \in 1..Cardinality(D) /\ Cardinality(UpTo(R, D, j)) \in 1..Cardinality(D)
    BY RankIsBounded
  <2> QED BY <2>1
<1>2. <<j, i>> \in R => i = j
  BY <1>1, RankGrows
<1>3. <<i, j>> \in R /\ i # j => Cardinality(UpTo(R, D, i)) < Cardinality(UpTo(R, D, j))
  BY RankGrows
<1> QED BY <1>1, <1>2, <1>3 DEF TotalOrder

\* Every number up to the size of the set is a rank.
LEMMA RanksAreReached ==
  ASSUME NEW D, IsFiniteSet(D), NEW R, TotalOrder(R, D), NEW k \in 1..Cardinality(D)
  PROVE  \E i \in D : Cardinality(UpTo(R, D, i)) = k
<1> DEFINE T == 1..Cardinality(D)
           f == [i \in D |-> Cardinality(UpTo(R, D, i))]
<1>1. IsFiniteSet(T) /\ Cardinality(T) = Cardinality(D)
  <2>1. Cardinality(D) \in Nat
    BY FS_CardinalityType
  <2> QED BY <2>1, FS_Interval
<1>2. f \in [D -> T]
  <2>1. \A i \in D : Cardinality(UpTo(R, D, i)) \in T
    BY RankIsBounded
  <2> QED BY <2>1
<1>3. ASSUME NEW a \in D, NEW b \in D, f[a] = f[b] PROVE a = b
  <2>1. Cardinality(UpTo(R, D, a)) = Cardinality(UpTo(R, D, b)) /\ Cardinality(UpTo(R, D, a)) \in Nat
    <3>1. Cardinality(UpTo(R, D, a)) \in T
      BY RankIsBounded
    <3> QED BY <1>3, <3>1
  <2>2. Cardinality(UpTo(R, D, a)) <= Cardinality(UpTo(R, D, b))
    BY <2>1
  <2> QED BY <2>1, <2>2, RankOrders
<1>4. f \in Injection(D, T)
  <2> HIDE DEF f, T
  <2> QED BY <1>2, <1>3, Fun_IsInj
<1>5. f \in Surjection(D, T)
  <2> HIDE DEF f, T
  <2> QED BY <1>1, <1>4, FS_Injection
<1> QED BY <1>5 DEF Surjection

-----------------------------------------------------------------------------
(* Counting the items of a list *)

\* A list has finitely many items, and some in S exactly if there is one.
LEMMA NumFacts ==
  ASSUME NEW U, NEW s \in Seq(U), NEW S
  PROVE  /\ IsFiniteSet({i \in DOMAIN s : s[i] \in S})
         /\ Num(s, S) \in Nat
         /\ Num(s, S) <= Len(s)
         /\ Num(s, S) > 0 <=> \E x \in Members(s) : x \in S
         /\ (\A x \in Members(s) : x \in S) => Num(s, S) = Len(s)
<1> DEFINE A == {i \in DOMAIN s : s[i] \in S}
<1>1. DOMAIN s = 1..Len(s) /\ Len(s) \in Nat
  OBVIOUS
<1>2. IsFiniteSet(DOMAIN s) /\ Cardinality(DOMAIN s) = Len(s)
  BY <1>1, FS_Interval
<1>3. A \in SUBSET (DOMAIN s)
  OBVIOUS
<1>4. IsFiniteSet(A) /\ Cardinality(A) <= Cardinality(DOMAIN s)
  <2> HIDE DEF A
  <2> QED BY <1>2, <1>3, FS_Subset
<1>5. Cardinality(A) \in Nat /\ (Cardinality(A) = 0 <=> A = {})
  <2> HIDE DEF A
  <2> QED BY <1>4, FS_CardinalityType, FS_EmptySet
<1>6. A # {} <=> \E x \in Members(s) : x \in S
  BY DEF Members
<1>7. (\A x \in Members(s) : x \in S) => A = DOMAIN s
  BY DEF Members
<1>8. Num(s, S) = Cardinality(A)
  BY DEF Num
<1>9. IsFiniteSet({i \in DOMAIN s : s[i] \in S})
  BY <1>4
<1> HIDE DEF A
<1> QED BY <1>1, <1>2, <1>4, <1>5, <1>6, <1>7, <1>8, <1>9

\* Joined lists have the items of both.
LEMMA NumConcat ==
  ASSUME NEW U, NEW s \in Seq(U), NEW t \in Seq(U), NEW S
  PROVE  Num(s \o t, S) = Num(s, S) + Num(t, S)
<1> DEFINE A == {i \in DOMAIN s : s[i] \in S}
           B == {i \in DOMAIN t : t[i] \in S}
           C == {Len(s) + i : i \in B}
           f == [i \in B |-> Len(s) + i]
<1>1. DOMAIN s = 1..Len(s) /\ Len(s) \in Nat /\ DOMAIN t = 1..Len(t) /\ Len(t) \in Nat
  OBVIOUS
<1>2. IsFiniteSet(A) /\ IsFiniteSet(B)
  BY NumFacts
<1>3. IsFiniteSet(C) /\ Cardinality(C) = Cardinality(B)
  <2>1. \A i \in B : i \in Nat
    BY <1>1
  <2>2. f \in [B -> C]
    OBVIOUS
  <2>3. \A i, j \in B : f[i] = f[j] => i = j
    BY <1>1, <2>1
  <2>4. \A c \in C : \E i \in B : f[i] = c
    OBVIOUS
  <2> HIDE DEF f, B, C
  <2>5. f \in Bijection(B, C)
    BY <2>2, <2>3, <2>4, Fun_IsBij
  <2>6. ExistsBijection(B, C)
    BY <2>5 DEF ExistsBijection
  <2> QED BY <1>2, <2>6, FS_Bijection
<1>4. A \cap C = {}
  <2>1. \A i \in A, j \in B : i # Len(s) + j
    BY <1>1
  <2> QED BY <2>1
<1>5. {i \in DOMAIN (s \o t) : (s \o t)[i] \in S} = A \cup C
  <2>1. s \o t \in Seq(U) /\ Len(s \o t) = Len(s) + Len(t) /\ DOMAIN (s \o t) = 1..(Len(s) + Len(t))
    BY ConcatProperties
  <2>2. \A i \in 1..(Len(s) + Len(t)) :
          (s \o t)[i] = IF i <= Len(s) THEN s[i] ELSE t[i - Len(s)]
    BY ConcatProperties
  <2>3. ASSUME NEW i \in DOMAIN (s \o t), (s \o t)[i] \in S PROVE i \in A \cup C
    <3>1. CASE i <= Len(s)
      BY <1>1, <2>1, <2>2, <2>3, <3>1
    <3>2. CASE ~(i <= Len(s))
      <4> DEFINE j == i - Len(s)
      <4>1. j \in DOMAIN t /\ i = Len(s) + j
        BY <1>1, <2>1, <3>2
      <4>2. t[j] \in S
        BY <2>1, <2>2, <2>3, <3>2
      <4>3. j \in B
        BY <4>1, <4>2
      <4> HIDE DEF j, B
      <4> QED BY <4>1, <4>3
    <3> QED BY <3>1, <3>2
  <2>4. ASSUME NEW i \in A PROVE i \in DOMAIN (s \o t) /\ (s \o t)[i] \in S
    BY <1>1, <2>1, <2>2
  <2>5. ASSUME NEW j \in B PROVE Len(s) + j \in DOMAIN (s \o t) /\ (s \o t)[Len(s) + j] \in S
    <3>1. Len(s) + j \in 1..(Len(s) + Len(t)) /\ ~(Len(s) + j <= Len(s)) /\ (Len(s) + j) - Len(s) = j
      BY <1>1
    <3> QED BY <2>1, <2>2, <3>1
  <2> QED BY <2>3, <2>4, <2>5
<1> HIDE DEF A, B, C
<1>6. Cardinality(A \cup C) = Cardinality(A) + Cardinality(C)
  <2>1. Cardinality(A \cup C) = Cardinality(A) + Cardinality(C) - Cardinality(A \cap C)
    BY <1>2, <1>3, FS_Union
  <2>2. Cardinality(A \cap C) = 0 /\ Cardinality(A) \in Nat /\ Cardinality(C) \in Nat
    BY <1>2, <1>3, <1>4, FS_EmptySet, FS_CardinalityType
  <2> QED BY <2>1, <2>2
<1> QED BY <1>3, <1>5, <1>6 DEF Num, A, B

\* A list of one item, and the empty list.
LEMMA NumOne ==
  ASSUME NEW x, NEW S
  PROVE  Num(<<x>>, S) = One(x, S) /\ One(x, S) \in Nat /\ Num(<<>>, S) = 0
<1>1. {i \in DOMAIN <<x>> : <<x>>[i] \in S} = IF x \in S THEN {1} ELSE {}
  <2>1. DOMAIN <<x>> = {1} /\ <<x>>[1] = x
    OBVIOUS
  <2> QED BY <2>1
<1>2. {i \in DOMAIN <<>> : <<>>[i] \in S} = {}
  OBVIOUS
<1> QED BY <1>1, <1>2, FS_Singleton, FS_EmptySet DEF Num, One

\* An item more, an item less.
LEMMA NumAppend ==
  ASSUME NEW U, NEW s \in Seq(U), NEW x \in U, NEW S
  PROVE  Num(Append(s, x), S) = Num(s, S) + One(x, S)
<1>1. Append(s, x) = s \o <<x>>
  BY AppendIsConcat
<1>2. <<x>> \in Seq(U)
  OBVIOUS
<1> DEFINE t == <<x>>
<1> HIDE DEF t
<1>3. t \in Seq(U)
  BY <1>2 DEF t
<1>4. Num(s \o t, S) = Num(s, S) + Num(t, S)
  BY <1>3, NumConcat
<1>5. Num(t, S) = One(x, S)
  BY NumOne DEF t
<1> QED BY <1>1, <1>4, <1>5, Zenon DEF t

LEMMA NumTail ==
  ASSUME NEW U, NEW s \in Seq(U), s # <<>>, NEW S
  PROVE  Num(s, S) = One(s[1], S) + Num(Tail(s), S)
<1>1. s = <<s[1]>> \o Tail(s) /\ <<s[1]>> \in Seq(U) /\ Tail(s) \in Seq(U)
  <2>1. s[1] \in U /\ Tail(s) \in Seq(U) /\ Len(Tail(s)) = Len(s) - 1 /\ Len(s) \in Nat /\ Len(s) >= 1
    OBVIOUS
  <2>2. <<s[1]>> \in Seq(U) /\ Len(<<s[1]>>) = 1
    BY <2>1
  <2> DEFINE t == <<s[1]>> \o Tail(s)
  <2>3. t \in Seq(U) /\ Len(t) = Len(s)
    BY <2>1, <2>2, ConcatProperties
  <2>4. ASSUME NEW i \in 1..Len(s) PROVE t[i] = s[i]
    BY <2>1, <2>2, ConcatProperties
  <2> HIDE DEF t
  <2>5. t = s
    BY <2>3, <2>4, SeqEqual
  <2> QED BY <2>1, <2>2, <2>5 DEF t
<1>2. Num(s, S) = Num(<<s[1]>>, S) + Num(Tail(s), S)
  <2> DEFINE h == <<s[1]>>
             r == Tail(s)
  <2>1. s = h \o r /\ h \in Seq(U) /\ r \in Seq(U)
    BY <1>1
  <2> HIDE DEF h, r
  <2>2. Num(h \o r, S) = Num(h, S) + Num(r, S)
    BY <2>1, NumConcat
  <2>3. Num(s, S) = Num(h, S) + Num(r, S)
    BY <2>1, <2>2, Zenon
  <2> QED BY <2>3 DEF h, r
<1>3. Num(<<s[1]>>, S) = One(s[1], S)
  BY NumOne
<1> QED BY <1>2, <1>3

\* A list cut in two.
LEMMA NumCut ==
  ASSUME NEW U, NEW s \in Seq(U), NEW n \in 0..Len(s), NEW S
  PROVE  /\ SubSeq(s, 1, n) \in Seq(U) /\ SubSeq(s, n + 1, Len(s)) \in Seq(U)
         /\ Len(SubSeq(s, 1, n)) = n /\ Len(SubSeq(s, n + 1, Len(s))) = Len(s) - n
         /\ Num(s, S) = Num(SubSeq(s, 1, n), S) + Num(SubSeq(s, n + 1, Len(s)), S)
<1> DEFINE a == SubSeq(s, 1, n)
           b == SubSeq(s, n + 1, Len(s))
<1>1. Len(s) \in Nat /\ n \in Nat
  OBVIOUS
<1>2. a \in Seq(U) /\ Len(a) = n /\ \A i \in 1..n : a[i] = s[i]
  BY <1>1
<1>3. b \in Seq(U) /\ Len(b) = Len(s) - n /\ \A i \in 1..(Len(s) - n) : b[i] = s[n + i]
  BY <1>1
<1> HIDE DEF a, b
<1>4. a \o b = s
  <2>1. a \o b \in Seq(U) /\ Len(a \o b) = Len(s)
    <3>1. a \o b \in Seq(U) /\ Len(a \o b) = Len(a) + Len(b)
      BY <1>2, <1>3, ConcatProperties
    <3> QED BY <1>1, <1>2, <1>3, <3>1
  <2>2. ASSUME NEW i \in 1..Len(s) PROVE (a \o b)[i] = s[i]
    <3>1. (a \o b)[i] = IF i <= n THEN a[i] ELSE b[i - n]
      BY <1>1, <1>2, <1>3, ConcatProperties
    <3>2. i <= n \/ (i - n \in 1..(Len(s) - n) /\ n + (i - n) = i)
      BY <1>1
    <3> QED BY <1>1, <1>2, <1>3, <3>1, <3>2
  <2> QED BY <2>1, <2>2, SeqEqual
<1>5. Num(s, S) = Num(a, S) + Num(b, S)
  BY <1>2, <1>3, <1>4, NumConcat
<1> QED BY <1>2, <1>3, <1>5 DEF a, b

-----------------------------------------------------------------------------
(* Counting the items of a list of lists *)

\* The places of one list among the others.
LEMMA RowOfPlaces ==
  ASSUME NEW U, NEW s \in Seq(U), NEW i, NEW S
  PROVE  LET row == {i} \X {j \in DOMAIN s : s[j] \in S}
         IN IsFiniteSet(row) /\ Cardinality(row) = Num(s, S)
<1> DEFINE A == {j \in DOMAIN s : s[j] \in S}
<1>1. IsFiniteSet(A) /\ Cardinality(A) = Num(s, S) /\ Num(s, S) \in Nat
  BY NumFacts DEF Num
<1>2. IsFiniteSet({i}) /\ Cardinality({i}) = 1
  BY FS_Singleton
<1> HIDE DEF A
<1>3. IsFiniteSet({i} \X A) /\ Cardinality({i} \X A) = 1 * Cardinality(A)
  BY <1>1, <1>2, FS_Product
<1>4. IsFiniteSet({i} \X A) /\ Cardinality({i} \X A) = Num(s, S)
  BY <1>1, <1>3
<1> QED BY <1>4 DEF A

\* A list of lists has finitely many items.
LEMMA PlacesAreFinite ==
  ASSUME NEW U, NEW at \in Seq(Seq(U)), NEW S
  PROVE  IsFiniteSet(Places(at, S)) /\ NumIn(at, S) \in Nat
<1> DEFINE row(i) == {i} \X {j \in DOMAIN at[i] : at[i][j] \in S}
           f == [i \in DOMAIN at |-> row(i)]
           T == {f[i] : i \in DOMAIN at}
<1>1. DOMAIN at = 1..Len(at) /\ Len(at) \in Nat
  OBVIOUS
<1>2. IsFiniteSet(DOMAIN at)
  BY <1>1, FS_Interval
<1>3. f \in Surjection(DOMAIN at, T)
  BY DEF Surjection
<1>4. ASSUME NEW r \in T PROVE IsFiniteSet(r)
  <2>1. PICK i \in DOMAIN at : r = row(i)
    OBVIOUS
  <2>2. at[i] \in Seq(U)
    BY <1>1
  <2>3. IsFiniteSet(row(i))
    <3> DEFINE q == at[i]
               cells == {i} \X {j \in DOMAIN q : q[j] \in S}
    <3>1. IsFiniteSet(cells) /\ Cardinality(cells) = Num(q, S)
      BY <2>2, RowOfPlaces
    <3> QED BY <3>1
  <2> QED BY <2>1, <2>3
<1>5. Places(at, S) = UNION T
  <2>1. ASSUME NEW p \in Places(at, S) PROVE p \in UNION T
    <3>1. p = <<p[1], p[2]>> /\ p[1] \in DOMAIN at /\ p[2] \in DOMAIN at[p[1]] /\ at[p[1]][p[2]] \in S
      BY DEF Places
    <3>2. p \in row(p[1]) /\ row(p[1]) \in T
      BY <3>1
    <3> HIDE DEF T, row
    <3> QED BY <3>2
  <2>2. ASSUME NEW i \in DOMAIN at, NEW p \in row(i) PROVE p \in Places(at, S)
    <3>1. p[1] = i /\ p[2] \in DOMAIN at[i] /\ at[i][p[2]] \in S /\ p = <<p[1], p[2]>>
      OBVIOUS
    <3>2. DOMAIN at[i] = 1..Len(at[i]) /\ Len(at[i]) \in Nat
      BY <1>1
    <3>3. p[2] \in Nat
      BY <3>1, <3>2
    <3> QED BY <3>1, <3>3 DEF Places
  <2>3. \A p \in UNION T : \E i \in DOMAIN at : p \in row(i)
    OBVIOUS
  <2> HIDE DEF T, row
  <2> QED BY <2>1, <2>2, <2>3
<1> HIDE DEF f, T
<1>6. IsFiniteSet(T)
  BY <1>2, <1>3, FS_Surjection
<1>7. IsFiniteSet(Places(at, S))
  BY <1>4, <1>5, <1>6, FS_UNION
<1> QED BY <1>7, FS_CardinalityType DEF NumIn

\* The items are those of one list and those of the others.
LEMMA NumInRow ==
  ASSUME NEW U, NEW at \in Seq(Seq(U)), NEW i \in DOMAIN at, NEW S
  PROVE  LET rest == {p \in Places(at, S) : p[1] # i}
         IN Cardinality(rest) \in Nat /\ NumIn(at, S) = Cardinality(rest) + Num(at[i], S)
<1> DEFINE rest == {p \in Places(at, S) : p[1] # i}
           row == {i} \X {j \in DOMAIN at[i] : at[i][j] \in S}
<1>1. at[i] \in Seq(U) /\ DOMAIN at[i] = 1..Len(at[i]) /\ Len(at[i]) \in Nat
  OBVIOUS
<1>2. IsFiniteSet(row) /\ Cardinality(row) = Num(at[i], S)
  BY <1>1, RowOfPlaces
<1>3. IsFiniteSet(Places(at, S))
  BY PlacesAreFinite
<1>4. rest \in SUBSET Places(at, S)
  OBVIOUS
<1>5. Places(at, S) = rest \cup row
  <2>1. ASSUME NEW p \in Places(at, S), p[1] = i PROVE p \in row
    <3>1. p = <<p[1], p[2]>> /\ p[2] \in DOMAIN at[p[1]] /\ at[p[1]][p[2]] \in S
      BY DEF Places
    <3> QED BY <2>1, <3>1
  <2>2. ASSUME NEW p \in row PROVE p \in Places(at, S)
    <3>1. p[1] = i /\ p[2] \in DOMAIN at[i] /\ at[i][p[2]] \in S /\ p = <<p[1], p[2]>>
      OBVIOUS
    <3>2. p[2] \in Nat
      BY <1>1, <3>1
    <3> QED BY <3>1, <3>2 DEF Places
  <2> HIDE DEF row
  <2> QED BY <2>1, <2>2
<1>6. rest \cap row = {}
  OBVIOUS
<1> HIDE DEF rest, row
<1>7. IsFiniteSet(rest)
  BY <1>3, <1>4, FS_Subset
<1>8. Cardinality(rest \cup row) = Cardinality(rest) + Cardinality(row) - Cardinality(rest \cap row)
  BY <1>2, <1>7, FS_Union
<1>9. Cardinality(rest) \in Nat /\ Cardinality(row) \in Nat /\ Cardinality(rest \cap row) = 0
  BY <1>2, <1>6, <1>7, FS_CardinalityType, FS_EmptySet
<1>10. Cardinality(rest) \in Nat /\ NumIn(at, S) = Cardinality(rest) + Num(at[i], S)
  BY <1>2, <1>5, <1>8, <1>9 DEF NumIn
<1> QED BY <1>10 DEF rest

\* There is an item in S exactly if one is held.
LEMMA NumInHeld ==
  ASSUME NEW U, NEW at \in Seq(Seq(U)), NEW S
  PROVE  /\ NumIn(at, S) \in Nat
         /\ NumIn(at, S) > 0 <=> \E x \in Held(at) : x \in S
         /\ Held(at) \subseteq U
<1>1. IsFiniteSet(Places(at, S)) /\ NumIn(at, S) \in Nat
  BY PlacesAreFinite
<1>2. NumIn(at, S) = 0 <=> Places(at, S) = {}
  BY <1>1, FS_EmptySet DEF NumIn
<1>3. ASSUME NEW p \in Places(at, S) PROVE \E x \in Held(at) : x \in S
  BY DEF Places, Held, Members
<1>4. ASSUME NEW x \in Held(at), x \in S PROVE Places(at, S) # {}
  <2>1. PICK i \in DOMAIN at : x \in Members(at[i])
    BY DEF Held
  <2>2. PICK j \in DOMAIN at[i] : x = at[i][j]
    BY <2>1 DEF Members
  <2>3. j \in Nat
    BY <2>2
  <2>4. <<i, j>> \in Places(at, S)
    BY <1>4, <2>2, <2>3 DEF Places
  <2> QED BY <2>4
<1>5. Held(at) \subseteq U
  <2> SUFFICES ASSUME NEW x \in Held(at) PROVE x \in U
    OBVIOUS
  <2>1. PICK i \in DOMAIN at : x \in Members(at[i])
    BY DEF Held
  <2>2. PICK j \in DOMAIN at[i] : x = at[i][j]
    BY <2>1 DEF Members
  <2> QED BY <2>2
<1> QED BY <1>1, <1>2, <1>3, <1>4, <1>5

\* A list more.
LEMMA NumInAppend ==
  ASSUME NEW U, NEW at \in Seq(Seq(U)), NEW q \in Seq(U), NEW S
  PROVE  /\ Append(at, q) \in Seq(Seq(U))
         /\ NumIn(Append(at, q), S) = NumIn(at, S) + Num(q, S)
         /\ Held(Append(at, q)) = Held(at) \cup Members(q)
<1> DEFINE b == Append(at, q)
           n == Len(at) + 1
           rest == {p \in Places(b, S) : p[1] # n}
<1>1. b \in Seq(Seq(U)) /\ Len(b) = n /\ b[n] = q /\ DOMAIN b = 1..n /\ DOMAIN at = 1..Len(at) /\ Len(at) \in Nat
  OBVIOUS
<1>2. \A i \in DOMAIN at : i \in DOMAIN b /\ b[i] = at[i] /\ i # n
  BY <1>1
<1>3. \A i \in DOMAIN b : i = n \/ i \in DOMAIN at
  BY <1>1
<1>4. n \in DOMAIN b
  BY <1>1
<1> HIDE DEF b, n
<1>5. rest = Places(at, S)
  <2>1. ASSUME NEW p, p \in rest PROVE p \in Places(at, S)
    <3>1. p \in (DOMAIN b) \X Nat /\ p[1] # n /\ p[2] \in DOMAIN b[p[1]] /\ b[p[1]][p[2]] \in S
      BY <2>1 DEF Places
    <3>2. p[1] \in DOMAIN at
      BY <1>3, <3>1
    <3> QED BY <1>2, <3>1, <3>2 DEF Places
  <2>2. ASSUME NEW p, p \in Places(at, S) PROVE p \in rest
    <3>1. p \in (DOMAIN at) \X Nat /\ p[2] \in DOMAIN at[p[1]] /\ at[p[1]][p[2]] \in S
      BY <2>2 DEF Places
    <3> QED BY <1>2, <3>1 DEF Places
  <2> QED BY <2>1, <2>2
<1>6. NumIn(b, S) = Cardinality(rest) + Num(b[n], S)
  BY <1>1, <1>4, NumInRow
<1>7. Held(b) = Held(at) \cup Members(q)
  BY <1>1, <1>2, <1>3, <1>4 DEF Held
<1> QED BY <1>1, <1>5, <1>6, <1>7 DEF NumIn, b

LEMMA MembersTail ==
  ASSUME NEW U, NEW s \in Seq(U), s # <<>>
  PROVE  Members(s) = Members(Tail(s)) \cup {s[1]}
<1>1. DOMAIN s = 1..Len(s) /\ Len(s) \in Nat /\ Len(s) >= 1 /\ 1 \in DOMAIN s
  <2>1. DOMAIN s = 1..Len(s) /\ Len(s) \in Nat /\ Len(s) # 0
    OBVIOUS
  <2> QED BY <2>1
<1>2. DOMAIN Tail(s) = 1..(Len(s) - 1) /\ \A k \in 1..(Len(s) - 1) : Tail(s)[k] = s[k + 1]
  BY HeadTailProperties
<1>3. ASSUME NEW k \in DOMAIN s, k # 1 PROVE \E m \in DOMAIN Tail(s) : s[k] = Tail(s)[m]
  <2>1. k - 1 \in 1..(Len(s) - 1) /\ (k - 1) + 1 = k
    BY <1>1, <1>3
  <2> QED BY <1>2, <2>1
<1>4. ASSUME NEW m \in DOMAIN Tail(s) PROVE \E k \in DOMAIN s : s[k] = Tail(s)[m]
  <2>1. m + 1 \in DOMAIN s
    BY <1>1, <1>2
  <2> QED BY <1>2, <2>1
<1>5. Members(s) \subseteq Members(Tail(s)) \cup {s[1]}
  <2> SUFFICES ASSUME NEW k \in DOMAIN s PROVE s[k] \in Members(Tail(s)) \cup {s[1]}
    BY Zenon DEF Members
  <2>1. CASE k = 1
    BY <2>1, Zenon
  <2>2. CASE k # 1
    BY <1>3, <2>2, Zenon DEF Members
  <2> QED BY <2>1, <2>2, Zenon
<1>6. Members(Tail(s)) \subseteq Members(s)
  BY <1>4, Zenon DEF Members
<1>7. s[1] \in Members(s)
  BY <1>1, Zenon DEF Members
<1> QED BY <1>5, <1>6, <1>7, Zenon

\* One list has lost its first item.
Shorter(at, i, b) ==
  /\ i \in DOMAIN at /\ at[i] # <<>>
  /\ DOMAIN b = DOMAIN at /\ b[i] = Tail(at[i])
  /\ \A k \in DOMAIN at : k # i => b[k] = at[k]

LEMMA NumInTail ==
  ASSUME NEW U, NEW at \in Seq(Seq(U)), NEW b \in Seq(Seq(U)), NEW i, Shorter(at, i, b), NEW S
  PROVE  /\ NumIn(at, S) = One(at[i][1], S) + NumIn(b, S)
         /\ Held(at) = Held(b) \cup {at[i][1]}
<1>1. i \in DOMAIN at /\ at[i] \in Seq(U) /\ Tail(at[i]) \in Seq(U) /\ at[i][1] \in U
  BY DEF Shorter
<1>2. b \in Seq(Seq(U)) /\ DOMAIN b = DOMAIN at /\ b[i] = Tail(at[i]) /\ at[i] # <<>>
      /\ \A k \in DOMAIN at : k # i => b[k] = at[k]
  BY DEF Shorter
<1>3. {p \in Places(at, S) : p[1] # i} = {p \in Places(b, S) : p[1] # i}
  <2>1. ASSUME NEW p, p[1] # i PROVE p \in Places(at, S) <=> p \in Places(b, S)
    BY <1>2, <2>1 DEF Places
  <2> QED BY <2>1
<1> DEFINE c == Cardinality({p \in Places(at, S) : p[1] # i})
<1>4. c \in Nat /\ NumIn(at, S) = c + Num(at[i], S)
  BY <1>1, NumInRow
<1>5. NumIn(b, S) = Cardinality({p \in Places(b, S) : p[1] # i}) + Num(b[i], S)
  BY <1>1, <1>2, NumInRow
<1>6. NumIn(b, S) = c + Num(Tail(at[i]), S)
  BY <1>2, <1>3, <1>5
<1> DEFINE s == at[i]
<1>7. s \in Seq(U) /\ s # <<>>
  BY <1>1, <1>2
<1> HIDE DEF s, c
<1>8. Num(s, S) = One(s[1], S) + Num(Tail(s), S) /\ One(s[1], S) \in Nat /\ Num(Tail(s), S) \in Nat
  <2>1. Tail(s) \in Seq(U)
    BY <1>7
  <2> QED BY <1>7, <2>1, NumTail, NumOne, NumFacts
<1>9. NumIn(at, S) = One(at[i][1], S) + NumIn(b, S)
  BY <1>4, <1>6, <1>8 DEF s
<1>10. Held(at) = Held(b) \cup {at[i][1]}
  <2>1. Members(s) = Members(Tail(s)) \cup {s[1]}
    BY <1>7, MembersTail
  <2>2. Members(at[i]) = Members(b[i]) \cup {at[i][1]}
    BY <1>2, <2>1 DEF s
  <2>3. ASSUME NEW k \in DOMAIN at PROVE Members(at[k]) \subseteq Held(b) \cup {at[i][1]}
    <3>1. CASE k = i
      BY <1>2, <2>2, <3>1 DEF Held
    <3>2. CASE k # i
      BY <1>2, <3>2 DEF Held
    <3> QED BY <3>1, <3>2
  <2>4. ASSUME NEW k \in DOMAIN at PROVE Members(b[k]) \subseteq Held(at)
    <3>1. CASE k = i
      BY <2>2, <3>1 DEF Held
    <3>2. CASE k # i
      BY <1>2, <3>2 DEF Held
    <3> QED BY <3>1, <3>2
  <2>5. Held(at) \subseteq Held(b) \cup {at[i][1]}
    BY <2>3, Zenon DEF Held
  <2>6. Held(b) \subseteq Held(at)
    <3>1. \A k \in DOMAIN b : Members(b[k]) \subseteq Held(at)
      BY <1>2, <2>4
    <3> QED BY <3>1, Zenon DEF Held
  <2>7. at[i][1] \in Held(at)
    BY <1>1, <2>2 DEF Held
  <2> QED BY <2>5, <2>6, <2>7
<1> QED BY <1>2, <1>9, <1>10

\* Nothing is left where every list is empty.
LEMMA NoneAlive ==
  ASSUME NEW U, NEW at \in Seq(Seq(U)), NEW S
  PROVE  /\ Alive(at) = {} <=> Held(at) = {}
         /\ Alive(at) = {} => NumIn(at, S) = 0
<1>1. ASSUME NEW i \in DOMAIN at PROVE at[i] # <<>> <=> Members(at[i]) # {}
  <2>1. at[i] \in Seq(U) /\ DOMAIN at[i] = 1..Len(at[i]) /\ Len(at[i]) \in Nat
    OBVIOUS
  <2>2. at[i] # <<>> <=> Len(at[i]) >= 1
    BY <2>1
  <2> QED BY <2>1, <2>2 DEF Members
<1>2. Alive(at) = {} <=> Held(at) = {}
  BY <1>1 DEF Alive, Held
<1> QED BY <1>2, NumInHeld

\* A list of no lists has no items.
LEMMA NoLists == ASSUME NEW S PROVE NumIn(<<>>, S) = 0 /\ Held(<<>>) = {} /\ Members(<<>>) = {} /\ Alive(<<>>) = {}
<1>1. Places(<<>>, S) = {} /\ Held(<<>>) = {} /\ Members(<<>>) = {} /\ Alive(<<>>) = {}
  BY DEF Places, Held, Members, Alive
<1> QED BY <1>1, FS_EmptySet DEF NumIn

-----------------------------------------------------------------------------
(* Sorting *)

\* Every item of a set has a key, or None, at every level
HaveKeys(U) == \A x \in U, l \in CLOSING_LEVELS : key(l, x) \in Nat

\* i comes before k in the sorted list, or is k
Precedes(l, s) ==
  {p \in (DOMAIN s) \X (DOMAIN s) :
     \/ sorts_before(l, s[p[1]], s[p[2]])
     \/ p[1] <= p[2] /\ ~sorts_before(l, s[p[2]], s[p[1]])}

\* The place in s of the k-th item of the sorted list
PlaceOf(l, s, k) ==
  CHOOSE i \in DOMAIN s : Cardinality({j \in DOMAIN s :
    \/ sorts_before(l, s[j], s[i])
    \/ j <= i /\ ~sorts_before(l, s[i], s[j])}) = k

\* Sorting by a key, None last, is a strict weak order.
LEMMA KeysOrder ==
  ASSUME NEW U, HaveKeys(U), NEW l \in CLOSING_LEVELS, NEW a \in U, NEW b \in U, NEW c \in U
  PROVE  /\ ~sorts_before(l, a, a)
         /\ sorts_before(l, a, b) => ~sorts_before(l, b, a)
         /\ sorts_before(l, a, b) /\ sorts_before(l, b, c) => sorts_before(l, a, c)
         /\ ~sorts_before(l, a, b) /\ ~sorts_before(l, b, c) => ~sorts_before(l, a, c)
         /\ sorts_before(l, a, b) /\ ~sorts_before(l, c, b) => sorts_before(l, a, c)
         /\ ~sorts_before(l, b, a) /\ sorts_before(l, b, c) => sorts_before(l, a, c)
<1>1. key(l, a) \in Nat /\ key(l, b) \in Nat /\ key(l, c) \in Nat
  BY DEF HaveKeys
<1> QED BY <1>1 DEF sorts_before, None

\* With ties in the order of the list it is a total order of its places.
LEMMA PrecedesIsTotal ==
  ASSUME NEW U, HaveKeys(U), NEW l \in CLOSING_LEVELS, NEW s \in Seq(U)
  PROVE  TotalOrder(Precedes(l, s), DOMAIN s)
<1> DEFINE D == DOMAIN s
           Before(i, j) == sorts_before(l, s[i], s[j])
<1>1. \A i \in D : i \in Nat /\ s[i] \in U
  OBVIOUS
<1>2. \A i, j \in D : <<i, j>> \in Precedes(l, s) <=> Before(i, j) \/ (i <= j /\ ~Before(j, i))
  BY DEF Precedes
<1>3. \A i, j, k \in D :
        /\ ~Before(i, i)
        /\ Before(i, j) => ~Before(j, i)
        /\ Before(i, j) /\ Before(j, k) => Before(i, k)
        /\ ~Before(i, j) /\ ~Before(j, k) => ~Before(i, k)
        /\ Before(i, j) /\ ~Before(k, j) => Before(i, k)
        /\ ~Before(j, i) /\ Before(j, k) => Before(i, k)
  BY <1>1, KeysOrder
<1> HIDE DEF D, Before
<1>4. \A i, j \in D : <<i, j>> \in Precedes(l, s) \/ <<j, i>> \in Precedes(l, s)
  <2> SUFFICES ASSUME NEW i \in D, NEW j \in D
               PROVE  <<i, j>> \in Precedes(l, s) \/ <<j, i>> \in Precedes(l, s)
    OBVIOUS
  <2>1. i <= j \/ j <= i
    BY <1>1
  <2> QED BY <1>2, <1>3, <2>1
<1>5. \A i, j \in D : <<i, j>> \in Precedes(l, s) /\ <<j, i>> \in Precedes(l, s) => i = j
  BY <1>1, <1>2, <1>3
<1>6. ASSUME NEW i \in D, NEW j \in D, NEW k \in D, <<i, j>> \in Precedes(l, s), <<j, k>> \in Precedes(l, s)
      PROVE  <<i, k>> \in Precedes(l, s)
  <2>1. i \in Nat /\ j \in Nat /\ k \in Nat
    BY <1>1
  <2>2. CASE Before(i, j)
    BY <1>2, <1>3, <1>6, <2>2
  <2>3. CASE Before(j, k)
    BY <1>2, <1>3, <1>6, <2>3
  <2>4. CASE ~Before(i, j) /\ ~Before(j, k)
    BY <1>2, <1>3, <1>6, <2>1, <2>4
  <2> QED BY <2>2, <2>3, <2>4
<1> QED BY <1>4, <1>5, <1>6 DEF TotalOrder, D

\* There is a place for every position in the sorted list.
LEMMA PlaceHasRank ==
  ASSUME NEW U, HaveKeys(U), NEW l \in CLOSING_LEVELS, NEW s \in Seq(U), NEW k \in DOMAIN s
  PROVE  /\ PlaceOf(l, s, k) \in DOMAIN s
         /\ Cardinality(UpTo(Precedes(l, s), DOMAIN s, PlaceOf(l, s, k))) = k
<1> DEFINE W(i) ==
             {j \in DOMAIN s :
                \/ sorts_before(l, s[j], s[i])
                \/ j <= i /\ ~sorts_before(l, s[i], s[j])}
<1>1. DOMAIN s = 1..Len(s) /\ Len(s) \in Nat
  OBVIOUS
<1>2. IsFiniteSet(DOMAIN s) /\ k \in 1..Cardinality(DOMAIN s)
  BY <1>1, FS_Interval
<1>3. TotalOrder(Precedes(l, s), DOMAIN s)
  BY PrecedesIsTotal
<1>4. PICK i \in DOMAIN s : Cardinality(UpTo(Precedes(l, s), DOMAIN s, i)) = k
  BY <1>2, <1>3, RanksAreReached
<1>5. ASSUME NEW n \in DOMAIN s PROVE W(n) = UpTo(Precedes(l, s), DOMAIN s, n)
  BY DEF UpTo, Precedes
<1>6. PlaceOf(l, s, k) = CHOOSE n \in DOMAIN s : Cardinality(W(n)) = k
  BY DEF PlaceOf
<1>7. Cardinality(W(i)) = k
  BY <1>4, <1>5
<1>8. PlaceOf(l, s, k) \in DOMAIN s /\ Cardinality(W(PlaceOf(l, s, k))) = k
  <2> HIDE DEF W
  <2> QED BY <1>6, <1>7
<1> QED BY <1>5, <1>8

\* The sorted list takes the places of the list in that order.
LEMMA SortedPlaces ==
  ASSUME NEW U, HaveKeys(U), NEW l \in CLOSING_LEVELS, NEW s \in Seq(U)
  PROVE  /\ sorted(l, s) = [k \in DOMAIN s |-> s[PlaceOf(l, s, k)]]
         /\ \A k \in DOMAIN s : PlaceOf(l, s, k) \in DOMAIN s
         /\ \A k, m \in DOMAIN s : k < m => PlaceOf(l, s, k) # PlaceOf(l, s, m)
                                     /\ <<PlaceOf(l, s, k), PlaceOf(l, s, m)>> \in Precedes(l, s)
         /\ \A i \in DOMAIN s : \E k \in DOMAIN s : PlaceOf(l, s, k) = i
<1> DEFINE D == DOMAIN s
           R == Precedes(l, s)
           P(k) == PlaceOf(l, s, k)
<1>1. D = 1..Len(s) /\ Len(s) \in Nat
  OBVIOUS
<1>2. IsFiniteSet(D) /\ Cardinality(D) = Len(s)
  BY <1>1, FS_Interval
<1>3. TotalOrder(R, D)
  BY PrecedesIsTotal
<1>5. sorted(l, s) = [k \in D |-> s[P(k)]]
  BY DEF sorted, PlaceOf
<1>6. ASSUME NEW k \in D PROVE P(k) \in D /\ Cardinality(UpTo(R, D, P(k))) = k
  BY PlaceHasRank
<1> HIDE DEF D, R
<1>7. ASSUME NEW k \in D, NEW m \in D, k < m PROVE P(k) # P(m) /\ <<P(k), P(m)>> \in R
  <2>1. k \in Nat /\ m \in Nat
    BY <1>1
  <2>2. P(k) # P(m)
    BY <1>6, <1>7, <2>1
  <2> DEFINE i == P(k)
             j == P(m)
  <2>3. i \in D /\ j \in D /\ Cardinality(UpTo(R, D, i)) <= Cardinality(UpTo(R, D, j))
    BY <1>6, <1>7, <2>1
  <2> HIDE DEF i, j
  <2>4. <<i, j>> \in R
    BY <1>2, <1>3, <2>3, RankOrders
  <2> QED BY <2>2, <2>4 DEF i, j
<1>8. ASSUME NEW i \in D PROVE \E k \in D : P(k) = i
  <2> DEFINE k == Cardinality(UpTo(R, D, i))
  <2>1. k \in D
    BY <1>1, <1>2, <1>3, RankIsBounded
  <2>2. P(k) \in D /\ Cardinality(UpTo(R, D, P(k))) = k
    BY <1>6, <2>1
  <2> DEFINE j == P(k)
  <2>3. k <= k
    BY <1>1, <2>1
  <2> HIDE DEF j
  <2>4. j \in D /\ Cardinality(UpTo(R, D, j)) = Cardinality(UpTo(R, D, i)) /\ Cardinality(UpTo(R, D, j)) <= Cardinality(UpTo(R, D, i))
    BY <2>2, <2>3 DEF j
  <2>5. j = i
    BY <1>2, <1>3, <2>4, RankOrders
  <2> QED BY <2>1, <2>5 DEF j
<1> QED BY <1>5, <1>6, <1>7, <1>8 DEF D, R

\* Sorting orders the items and keeps each as often as it was there.
LEMMA SortedFacts ==
  ASSUME NEW U, HaveKeys(U), NEW l \in CLOSING_LEVELS, NEW s \in Seq(U)
  PROVE  /\ sorted(l, s) \in Seq(U)
         /\ Len(sorted(l, s)) = Len(s)
         /\ Ordered(l, sorted(l, s))
         /\ Members(sorted(l, s)) = Members(s)
         /\ \A S : Num(sorted(l, s), S) = Num(s, S)
<1> DEFINE D == DOMAIN s
           t == sorted(l, s)
           P(k) == PlaceOf(l, s, k)
<1>1. D = 1..Len(s) /\ Len(s) \in Nat
  OBVIOUS
<1>2. /\ t = [k \in D |-> s[P(k)]]
      /\ \A k \in D : P(k) \in D
      /\ \A k, m \in D : k < m => P(k) # P(m) /\ <<P(k), P(m)>> \in Precedes(l, s)
      /\ \A i \in D : \E k \in D : P(k) = i
  BY SortedPlaces
<1> HIDE DEF D, t, P
<1>3. \A k \in D : t[k] = s[P(k)] /\ s[P(k)] \in U
  BY <1>2 DEF D
<1>4. t \in [1..Len(s) -> U] /\ DOMAIN t = D
  BY <1>1, <1>2, <1>3
<1>5. t \in Seq(U) /\ Len(t) = Len(s)
  BY <1>1, <1>4
<1>6. ASSUME NEW k \in D, NEW m \in D, k < m PROVE ~sorts_before(l, t[m], t[k])
  <2>1. <<P(k), P(m)>> \in Precedes(l, s) /\ P(k) \in D /\ P(m) \in D /\ s[P(k)] \in U /\ s[P(m)] \in U
    BY <1>2, <1>3, <1>6
  <2>2. sorts_before(l, s[P(k)], s[P(m)]) \/ ~sorts_before(l, s[P(m)], s[P(k)])
    BY <2>1 DEF Precedes
  <2>3. ~sorts_before(l, s[P(m)], s[P(k)])
    BY <2>1, <2>2, KeysOrder
  <2> QED BY <1>3, <2>3
<1>7. Members(t) = Members(s)
  <2>1. \A k \in D : t[k] = s[P(k)] /\ P(k) \in D
    BY <1>2, <1>3
  <2>2. \A i \in D : \E k \in D : s[i] = t[k]
    BY <1>2, <1>3
  <2>3. Members(s) = {s[i] : i \in D} /\ Members(t) = {t[k] : k \in D}
    BY <1>4 DEF Members, D
  <2>4. \A x \in {t[k] : k \in D} : x \in {s[i] : i \in D}
    BY <2>1
  <2>5. \A x \in {s[i] : i \in D} : x \in {t[k] : k \in D}
    BY <2>2
  <2> QED BY <2>3, <2>4, <2>5
<1>8. ASSUME NEW S PROVE Num(t, S) = Num(s, S)
  <2> DEFINE A == {i \in D : s[i] \in S}
             B == {k \in D : t[k] \in S}
             f == [k \in B |-> P(k)]
  <2>1. f \in [B -> A]
    BY <1>2, <1>3
  <2>2. \A k, m \in B : f[k] = f[m] => k = m
    <3>1. ASSUME NEW k \in B, NEW m \in B, k # m PROVE P(k) # P(m)
      <4>1. k \in Nat /\ m \in Nat
        BY <1>1
      <4>2. k < m \/ m < k
        BY <3>1, <4>1
      <4> QED BY <1>2, <4>2
    <3> QED BY <3>1
  <2>3. \A i \in A : \E k \in B : f[k] = i
    <3>1. ASSUME NEW i \in A PROVE \E k \in B : P(k) = i
      <4>1. PICK k \in D : P(k) = i
        BY <1>2
      <4>2. k \in B
        BY <1>3, <4>1
      <4> QED BY <4>1, <4>2
    <3> QED BY <3>1
  <2>4. IsFiniteSet(B)
    <3>1. IsFiniteSet({k \in DOMAIN t : t[k] \in S})
      BY <1>5, NumFacts
    <3> QED BY <1>4, <3>1
  <2> HIDE DEF f, A, B
  <2>5. f \in Bijection(B, A)
    BY <2>1, <2>2, <2>3, Fun_IsBij
  <2>6. ExistsBijection(B, A)
    BY <2>5 DEF ExistsBijection
  <2>7. Cardinality(A) = Cardinality(B)
    BY <2>4, <2>6, FS_Bijection
  <2> QED BY <1>4, <2>7 DEF Num, A, B, D
<1>9. Ordered(l, t)
  BY <1>4, <1>6 DEF Ordered
<1> QED BY <1>5, <1>7, <1>8, <1>9 DEF t

-----------------------------------------------------------------------------
(* The inputs *)

Upwards == {p \in Nat \X Nat : p[1] <= p[2]}

\* A finite set of numbers is counted through by its members in order.
LEMMA NthExists ==
  ASSUME NEW D, \A i \in D : i \in Nat, IsFiniteSet(D), NEW k \in 1..Cardinality(D)
  PROVE  \E i \in D : Cardinality({j \in D : j <= i}) = k
<1>1. TotalOrder(Upwards, D)
  <2>1. \A i, j \in D : <<i, j>> \in Upwards <=> i <= j
    BY DEF Upwards
  <2>2. \A i \in D : i \in Nat
    OBVIOUS
  <2> QED BY <2>1, <2>2 DEF TotalOrder
<1>2. \A i \in D : UpTo(Upwards, D, i) = {j \in D : j <= i}
  BY DEF UpTo, Upwards
<1>3. PICK i \in D : Cardinality(UpTo(Upwards, D, i)) = k
  BY <1>1, RanksAreReached
<1> QED BY <1>2, <1>3

\* Expected points are a list, one for each binding of this target.
LEMMA ExpectedAreBindings ==
  ASSUME NEW i \in Inputs
  PROVE  LET list == resolve_expected_points(i.manifest)
         IN /\ list \in Seq(Members(list))
            /\ \A e \in Members(list) : \E b \in Members(i.manifest.bindings) : e = ExpectedPoint(i.manifest, b)
<1> DEFINE m == i.manifest
           mine == {n \in DOMAIN m.bindings : m.bindings[n].here}
           nth(k) == CHOOSE n \in mine : Cardinality({j \in mine : j <= n}) = k
           list == resolve_expected_points(m)
<1>1. m.bindings \in Seq(Members(m.bindings))
  BY IdsAssumption
<1>2. DOMAIN m.bindings = 1..Len(m.bindings) /\ Len(m.bindings) \in Nat
  <2> DEFINE s == m.bindings
  <2> HIDE DEF s, m
  <2>1. s \in Seq(Members(s))
    BY <1>1 DEF s
  <2>2. DOMAIN s = 1..Len(s) /\ Len(s) \in Nat
    BY <2>1
  <2> QED BY <2>2 DEF s
<1>3. IsFiniteSet(mine) /\ mine \in SUBSET Nat
  <2>1. IsFiniteSet(DOMAIN m.bindings) /\ mine \in SUBSET (DOMAIN m.bindings)
    BY <1>2, FS_Interval
  <2>2. IsFiniteSet(mine)
    <3> HIDE DEF mine
    <3> QED BY <2>1, FS_Subset
  <2> QED BY <1>2, <2>1, <2>2
<1>4. list = [k \in 1..Cardinality(mine) |-> ExpectedPoint(m, m.bindings[nth(k)])]
  BY DEF resolve_expected_points
<1>5. ASSUME NEW k \in 1..Cardinality(mine) PROVE nth(k) \in mine
  <2> HIDE DEF mine
  <2>1. \E n \in mine : Cardinality({j \in mine : j <= n}) = k
    BY <1>3, NthExists
  <2> QED BY <2>1
<1>6. Cardinality(mine) \in Nat
  BY <1>3, FS_CardinalityType
<1>7. ASSUME NEW k \in DOMAIN list
      PROVE  \E b \in Members(m.bindings) : list[k] = ExpectedPoint(m, b)
  <2>1. k \in 1..Cardinality(mine)
    BY <1>4
  <2>2. nth(k) \in DOMAIN m.bindings
    BY <1>5, <2>1
  <2>3. m.bindings[nth(k)] \in Members(m.bindings)
    BY <2>2 DEF Members
  <2> HIDE DEF nth, m, mine
  <2>4. list[k] = ExpectedPoint(m, m.bindings[nth(k)])
    BY <1>4, <2>1
  <2> QED BY <2>3, <2>4
<1>8. list \in Seq(Members(list))
  <2> DEFINE n == Cardinality(mine)
  <2>1. DOMAIN list = 1..n /\ list = [k \in 1..n |-> list[k]]
    BY <1>4
  <2>2. \A k \in 1..n : list[k] \in Members(list)
    BY <2>1 DEF Members
  <2>3. n \in Nat
    BY <1>6
  <2> HIDE DEF list, n
  <2> QED BY <2>1, <2>2, <2>3
<1>9. \A e \in Members(list) : \E b \in Members(m.bindings) : e = ExpectedPoint(m, b)
  <2> HIDE DEF list, m
  <2> QED BY <1>7 DEF Members
<1> QED BY <1>8, <1>9

\* Items are listed, and have keys.
LEMMA InputFacts ==
  ASSUME in \in Inputs
  PROVE  /\ expected \in Seq(E) /\ in.observed \in Seq(O)
         /\ HaveKeys(E) /\ HaveKeys(O)
         /\ \A x \in E \cup O : key(POINT_ID, x) = x.point_id /\ x.point_id \in Nat \ {None}
<1> DEFINE m == in.manifest
<1>1. /\ expected \in Seq(E)
      /\ \A e \in E : \E b \in Members(m.bindings) : e = ExpectedPoint(m, b)
  BY ExpectedAreBindings DEF expected, E
<1>2. in.observed \in Seq(O) /\ \A o \in O : o.point_id \in Nat \ {None} /\ o.embedding_id \in Nat /\ o.chunk_id \in Nat
  BY IdsAssumption DEF O
<1>3. /\ \A b \in Members(m.bindings) : b.point_id \in Nat \ {None} /\ b.embedding_id \in Nat
      /\ \A x \in DOMAIN m.embeddings : m.embeddings[x].chunk \in Nat
  BY IdsAssumption
<1>4. ASSUME NEW x PROVE /\ key(POINT_ID, x) = x.point_id
                         /\ key(EMBEDDING_ID, x) = x.embedding_id
                         /\ key(CHUNK_ID, x) = x.chunk_id
  BY DEF key, POINT_ID, EMBEDDING_ID, CHUNK_ID
<1>5. ASSUME NEW e \in E PROVE e.point_id \in Nat \ {None} /\ e.embedding_id \in Nat /\ e.chunk_id \in Nat
  <2>1. PICK b \in Members(m.bindings) : e = ExpectedPoint(m, b)
    BY <1>1
  <2> DEFINE x == Lookup(m.embeddings, b.embedding_id, NoEmbedding)
  <2>2. x.chunk \in Nat
    BY <1>3 DEF Lookup, NoEmbedding, None
  <2>3. e.point_id = b.point_id /\ e.embedding_id = b.embedding_id
    BY <2>1 DEF ExpectedPoint
  <2>4. e.chunk_id = IF x.chunk \in DOMAIN m.chunks THEN x.chunk ELSE None
    BY <2>1 DEF ExpectedPoint
  <2> QED BY <1>3, <2>2, <2>3, <2>4 DEF None
<1>6. \A l \in CLOSING_LEVELS : l = POINT_ID \/ l = EMBEDDING_ID \/ l = CHUNK_ID
  BY DEF CLOSING_LEVELS
<1>7. HaveKeys(E) /\ HaveKeys(O)
  BY <1>2, <1>4, <1>5, <1>6 DEF HaveKeys
<1> QED BY <1>1, <1>2, <1>4, <1>5, <1>7

-----------------------------------------------------------------------------
(* Reading runs, and writing them *)

\* heapq.merge: some run has the head it takes next.
LEMMA LeastHead ==
  ASSUME NEW U, HaveKeys(U), level \in CLOSING_LEVELS, NEW at \in Seq(Seq(U)), Alive(at) # {}
  PROVE  \E i \in Alive(at) : \A j \in Alive(at) :
           /\ ~sorts_before(level, at[j][1], at[i][1])
           /\ j < i => sorts_before(level, at[i][1], at[j][1])
<1> DEFINE A == Alive(at)
           K(i) == key(level, at[i][1])
           Keyed == {i \in A : K(i) # None}
           B == IF Keyed = {} THEN A ELSE {i \in Keyed : \A j \in Keyed : K(i) <= K(j)}
<1>1. ASSUME NEW i \in A PROVE i \in Nat /\ at[i][1] \in U /\ K(i) \in Nat
  <2>1. DOMAIN at = 1..Len(at) /\ at[i] \in Seq(U) /\ at[i] # <<>> /\ i \in Nat
    BY DEF Alive
  <2>2. at[i][1] \in U
    BY <2>1
  <2> QED BY <2>1, <2>2 DEF HaveKeys
<1>2. B \in SUBSET Nat /\ B # {} /\ B \subseteq A
  <2>1. CASE Keyed = {}
    BY <1>1, <2>1
  <2>2. CASE Keyed # {}
    <3> DEFINE T == {K(i) : i \in Keyed}
    <3>1. T \in SUBSET Nat /\ T # {}
      BY <1>1, <2>2
    <3> HIDE DEF T
    <3>2. PICK x \in T : \A y \in T : x <= y
      BY <3>1, LeastElement
    <3>3. PICK i \in Keyed : K(i) = x
      BY DEF T
    <3>4. \A j \in Keyed : K(i) <= K(j)
      BY <3>2, <3>3 DEF T
    <3> QED BY <1>1, <2>2, <3>3, <3>4
  <2> QED BY <2>1, <2>2
<1>3. PICK i \in B : \A j \in B : i <= j
  <2> HIDE DEF B
  <2> QED BY <1>2, LeastElement
<1>4. \A j \in A : sorts_before(level, at[j][1], at[i][1]) <=> K(j) # None /\ (K(i) = None \/ K(j) < K(i))
  BY DEF sorts_before
<1>5. \A j \in A : sorts_before(level, at[i][1], at[j][1]) <=> K(i) # None /\ (K(j) = None \/ K(i) < K(j))
  BY DEF sorts_before
<1>6. i \in A
  BY <1>2
<1>7. ASSUME NEW j \in A PROVE ~sorts_before(level, at[j][1], at[i][1])
  <2>1. CASE Keyed = {}
    BY <1>4, <2>1
  <2>2. CASE Keyed # {}
    <3>1. K(i) # None /\ \A k \in Keyed : K(i) <= K(k)
      BY <2>2
    <3>2. K(j) # None => K(i) <= K(j)
      BY <3>1
    <3>3. K(i) \in Nat /\ K(j) \in Nat
      BY <1>1, <1>6
    <3> QED BY <1>4, <3>1, <3>2, <3>3
  <2> QED BY <2>1, <2>2
<1>8. ASSUME NEW j \in A, j < i PROVE sorts_before(level, at[i][1], at[j][1])
  <2>1. i \in Nat /\ j \in Nat /\ K(i) \in Nat /\ K(j) \in Nat
    BY <1>1, <1>6
  <2>2. j \notin B
    BY <1>3, <1>8, <2>1
  <2>3. Keyed # {} /\ i \in Keyed /\ \A k \in Keyed : K(i) <= K(k)
    BY <2>2
  <2>4. K(i) # None
    BY <2>3
  <2>5. CASE j \notin Keyed
    BY <1>5, <2>4, <2>5
  <2>6. CASE j \in Keyed
    <3>1. PICK k \in Keyed : ~(K(j) <= K(k))
      BY <2>2, <2>3, <2>6
    <3>2. K(k) \in Nat /\ K(i) <= K(k)
      BY <1>1, <2>3
    <3>3. K(i) < K(j)
      BY <2>1, <3>1, <3>2
    <3> QED BY <1>5, <2>4, <3>3
  <2> QED BY <2>5, <2>6
<1> QED BY <1>6, <1>7, <1>8

\* It is the least item that is left, and taking it leaves the others.
LEMMA HeadFacts ==
  ASSUME NEW U, HaveKeys(U), level \in CLOSING_LEVELS, NEW at \in Seq(Seq(U)), Alive(at) # {},
         \A i \in DOMAIN at : Ordered(level, at[i])
  PROVE  /\ HeadOf(at) \in Held(at) /\ HeadOf(at) \in U
         /\ \A x \in Held(at) : ~sorts_before(level, x, HeadOf(at))
         /\ Pop(at) \in Seq(Seq(U))
         /\ Held(at) = Held(Pop(at)) \cup {HeadOf(at)}
         /\ \A S : NumIn(at, S) = One(HeadOf(at), S) + NumIn(Pop(at), S)
         /\ \A i \in DOMAIN Pop(at) : Ordered(level, Pop(at)[i])
<1> DEFINE h == HeadOf(at)
<1>1. PICK r \in Alive(at) :
        /\ r = HeadRun(at)
        /\ \A j \in Alive(at) : ~sorts_before(level, at[j][1], at[r][1])
  <2>1. \E i \in Alive(at) : \A j \in Alive(at) :
           /\ ~sorts_before(level, at[j][1], at[i][1])
           /\ j < i => sorts_before(level, at[i][1], at[j][1])
    BY LeastHead
  <2> QED BY <2>1 DEF HeadRun
<1>2. r \in DOMAIN at /\ at[r] # <<>> /\ h = at[r][1] /\ Pop(at) = [at EXCEPT ![r] = Tail(@)]
  BY <1>1 DEF Alive, HeadOf, Pop
<1>3. PICK b \in Seq(Seq(U)) :
        /\ b = [at EXCEPT ![r] = Tail(@)]
        /\ DOMAIN b = DOMAIN at /\ b[r] = Tail(at[r])
        /\ \A k \in DOMAIN at : k # r => b[k] = at[k]
  <2>1. DOMAIN at = 1..Len(at) /\ Tail(at[r]) \in Seq(U)
    BY <1>2
  <2>2. [at EXCEPT ![r] = Tail(@)] \in Seq(Seq(U))
    BY <1>2, <2>1, ExceptSeq
  <2> QED BY <1>2, <2>1, <2>2
<1>4. ASSUME NEW S
      PROVE  /\ NumIn(at, S) = One(at[r][1], S) + NumIn(b, S)
             /\ Held(at) = Held(b) \cup {at[r][1]}
  <2>1. Shorter(at, r, b)
    BY <1>2, <1>3 DEF Shorter
  <2>2. NumIn(at, S) = One(at[r][1], S) + NumIn(b, S)
    BY <2>1, NumInTail
  <2>3. Held(at) = Held(b) \cup {at[r][1]}
    BY <2>1, NumInTail
  <2> QED BY <2>2, <2>3
<1> HIDE DEF h
<1>5. h \in Held(at) /\ h \in U
  <2>1. Held(at) \subseteq U
    BY NumInHeld
  <2> QED BY <1>2, <1>4, <2>1
<1>6. ASSUME NEW x \in Held(at) PROVE ~sorts_before(level, x, h)
  <2>1. PICK i \in DOMAIN at : x \in Members(at[i])
    BY DEF Held
  <2> DEFINE s == at[i]
  <2>2. s \in Seq(U)
    OBVIOUS
  <2>3. Ordered(level, s)
    OBVIOUS
  <2>4. x \in Members(s)
    BY <2>1
  <2>5. s # <<>> => i \in Alive(at)
    BY DEF Alive
  <2>6. s # <<>> /\ i \in Alive(at) => ~sorts_before(level, s[1], h)
    BY <1>1, <1>2
  <2> HIDE DEF s
  <2>7. PICK k \in DOMAIN s : x = s[k]
    BY <2>4 DEF Members
  <2>8. s # <<>> /\ 1 \in DOMAIN s /\ k \in Nat /\ k >= 1 /\ s[1] \in U /\ s[k] \in U
    BY <2>2, <2>7
  <2>9. ~sorts_before(level, x, s[1])
    <3>1. CASE k = 1
      BY <2>7, <2>8, <3>1, KeysOrder
    <3>2. CASE k # 1
      BY <2>3, <2>7, <2>8, <3>2 DEF Ordered
    <3> QED BY <3>1, <3>2
  <2> QED BY <1>5, <2>5, <2>6, <2>7, <2>8, <2>9, KeysOrder
<1>7. ASSUME NEW i \in DOMAIN b PROVE Ordered(level, b[i])
  <2>1. CASE i # r
    BY <1>3, <2>1
  <2>2. CASE i = r
    <3> DEFINE s == at[r]
    <3>1. s \in Seq(U) /\ s # <<>> /\ Ordered(level, s)
      BY <1>2
    <3> HIDE DEF s
    <3>2. DOMAIN s = 1..Len(s) /\ Len(s) \in Nat /\ DOMAIN Tail(s) = 1..(Len(s) - 1)
          /\ \A k \in 1..(Len(s) - 1) : Tail(s)[k] = s[k + 1]
      BY <3>1, HeadTailProperties
    <3>3. Ordered(level, Tail(s))
      <4>1. ASSUME NEW k \in 1..(Len(s) - 1), NEW m \in 1..(Len(s) - 1), k < m
            PROVE  ~sorts_before(level, Tail(s)[m], Tail(s)[k])
        <5>1. k + 1 \in DOMAIN s /\ m + 1 \in DOMAIN s /\ k + 1 < m + 1
          BY <3>2, <4>1
        <5> QED BY <3>1, <3>2, <5>1 DEF Ordered
      <4> QED BY <3>2, <4>1 DEF Ordered
    <3> QED BY <1>3, <2>2, <3>3 DEF s
  <2> QED BY <2>1, <2>2
<1>8. Pop(at) = b /\ h = HeadOf(at)
  BY <1>2, <1>3 DEF h
<1> QED BY <1>2, <1>3, <1>4, <1>5, <1>6, <1>7, <1>8

-----------------------------------------------------------------------------
(* _ChunkedRunWriter *)

\* The lines of runs are lists.
LEMMA LinesFacts ==
  ASSUME NEW U, NEW runs \in Runs(U)
  PROVE  /\ Lines(runs) \in Seq(Seq(U))
         /\ DOMAIN Lines(runs) = DOMAIN runs
         /\ \A i \in DOMAIN runs : Lines(runs)[i] = runs[i].lines
<1>1. DOMAIN runs = 1..Len(runs) /\ Len(runs) \in Nat
  BY DEF Runs
<1>2. ASSUME NEW i \in DOMAIN runs PROVE runs[i].lines \in Seq(U)
  <2> DEFINE T == [name : RunNames, lines : Seq(U)]
  <2>1. runs \in Seq(T)
    BY DEF Runs
  <2> HIDE DEF T
  <2>2. runs[i] \in T
    BY <2>1
  <2> QED BY <2>2 DEF T
<1>3. Lines(runs) = [i \in 1..Len(runs) |-> runs[i].lines]
  BY <1>1 DEF Lines
<1> QED BY <1>1, <1>2, <1>3

\* A run more.
LEMMA LinesAppend ==
  ASSUME NEW U, NEW runs \in Runs(U), NEW r \in [name : RunNames, lines : Seq(U)]
  PROVE  /\ Append(runs, r) \in Runs(U)
         /\ Lines(Append(runs, r)) = Append(Lines(runs), r.lines)
         /\ Names(Append(runs, r)) = Names(runs) \cup {r.name}
<1> DEFINE more == Append(runs, r)
           n == Len(runs)
<1>1. n \in Nat /\ DOMAIN runs = 1..n
  BY DEF Runs
<1>2. more \in Runs(U) /\ Len(more) = n + 1 /\ DOMAIN more = 1..(n + 1)
      /\ more[n + 1] = r /\ \A i \in 1..n : more[i] = runs[i]
  BY <1>1 DEF Runs
<1> HIDE DEF more
<1>3. Lines(more) \in Seq(Seq(U)) /\ DOMAIN Lines(more) = 1..(n + 1) /\ \A i \in 1..(n + 1) : Lines(more)[i] = more[i].lines
  BY <1>2, LinesFacts
<1>4. Lines(runs) \in Seq(Seq(U)) /\ DOMAIN Lines(runs) = 1..n /\ \A i \in 1..n : Lines(runs)[i] = runs[i].lines
  BY <1>1, LinesFacts
<1>5. Len(Lines(runs)) = n /\ Len(Lines(more)) = n + 1
  BY <1>1, <1>3, <1>4
<1>6. r.lines \in Seq(U)
  OBVIOUS
<1> DEFINE a == Lines(runs)
           b == Lines(more)
           c == Append(a, r.lines)
<1>7. c \in Seq(Seq(U)) /\ Len(c) = n + 1 /\ c[n + 1] = r.lines /\ \A i \in 1..n : c[i] = a[i]
  BY <1>4, <1>5, <1>6
<1>8. ASSUME NEW i \in 1..(n + 1) PROVE b[i] = c[i]
  <2>1. i = n + 1 \/ i \in 1..n
    BY <1>1
  <2> QED BY <1>2, <1>3, <1>4, <1>7, <2>1
<1> HIDE DEF a, b, c
<1>9. b = c
  BY <1>3, <1>5, <1>7, <1>8, SeqEqual DEF b
<1>10. Names(more) = Names(runs) \cup {r.name}
  <2>1. \A i \in 1..(n + 1) : i = n + 1 \/ i \in 1..n
    BY <1>1
  <2>2. n + 1 \in 1..(n + 1) /\ \A i \in 1..n : i \in 1..(n + 1)
    BY <1>1
  <2> QED BY <1>1, <1>2, <2>1, <2>2 DEF Names
<1> QED BY <1>2, <1>9, <1>10 DEF a, b, c, more

\* What can be said of a writer's runs when it turns from w to v
Follows(w, v) ==
  /\ v.runs = w.runs \/ Len(v.runs) = Len(w.runs) + 1
  /\ \A f \in Names(v.runs) : f \in Names(w.runs) \/ (f \in RunNames /\ f[1] = attempt)

\* flush: the buffer becomes a sorted run.
LEMMA FlushFacts ==
  ASSUME NEW U, HaveKeys(U), attempt \in Nat, NEW w \in Writers(U),
         NEW side \in {"e", "o"}, NEW l \in CLOSING_LEVELS, RunsOrdered(l, w)
  PROVE  /\ flush(w, side, l) \in Writers(U)
         /\ \A S : Written(flush(w, side, l), S) = Written(w, S)
         /\ Kept(flush(w, side, l)) = Kept(w)
         /\ RunsOrdered(l, flush(w, side, l))
         /\ flush(w, side, l).buffer = <<>>
         /\ Follows(w, flush(w, side, l))
         /\ w.buffer # <<>> => Len(flush(w, side, l).runs) = Len(w.runs) + 1
<1>1. CASE w.buffer = <<>>
  <2>1. flush(w, side, l) = w
    BY <1>1 DEF flush
  <2> QED BY <1>1, <2>1 DEF Follows
<1>2. CASE w.buffer # <<>>
  <2> DEFINE r == [name |-> <<attempt, side, l, Len(w.runs)>>, lines |-> sorted(l, w.buffer)]
             v == [buffer |-> <<>>, runs |-> Append(w.runs, r)]
  <2>1. flush(w, side, l) = v
    BY <1>2 DEF flush
  <2>2. w.buffer \in Seq(U) /\ w.runs \in Runs(U) /\ Len(w.runs) \in Nat
    BY DEF Writers, Runs
  <2>3. /\ sorted(l, w.buffer) \in Seq(U)
        /\ Ordered(l, sorted(l, w.buffer))
        /\ Members(sorted(l, w.buffer)) = Members(w.buffer)
        /\ \A S : Num(sorted(l, w.buffer), S) = Num(w.buffer, S)
    BY <2>2, SortedFacts
  <2> DEFINE name == <<attempt, side, l, Len(w.runs)>>
  <2>4. name \in RunNames /\ name[1] = attempt
    BY <2>2 DEF RunNames
  <2>5. r \in [name : RunNames, lines : Seq(U)]
    BY <2>3, <2>4
  <2>6. r.lines = sorted(l, w.buffer) /\ r.name = name
    OBVIOUS
  <2>7. v.buffer = <<>> /\ v.runs = Append(w.runs, r)
    OBVIOUS
  <2> HIDE DEF r, v, name
  <2>8. /\ v.runs \in Runs(U)
        /\ Lines(v.runs) = Append(Lines(w.runs), sorted(l, w.buffer))
        /\ Names(v.runs) = Names(w.runs) \cup {name}
    <3> DEFINE q == w.runs
    <3>1. q \in Runs(U)
      BY <2>2
    <3> HIDE DEF q
    <3>2. /\ Append(q, r) \in Runs(U)
          /\ Lines(Append(q, r)) = Append(Lines(q), r.lines)
          /\ Names(Append(q, r)) = Names(q) \cup {r.name}
      BY <2>5, <3>1, LinesAppend
    <3> QED BY <2>6, <2>7, <3>2, Zenon DEF q
  <2>9. Lines(w.runs) \in Seq(Seq(U))
    BY <2>2, LinesFacts
  <2>10. v \in Writers(U)
    <3>1. <<>> \in Seq(U)
      OBVIOUS
    <3>2. v = [buffer |-> v.buffer, runs |-> v.runs]
      BY DEF v
    <3> QED BY <2>7, <2>8, <3>1, <3>2 DEF Writers
  <2>11. ASSUME NEW S PROVE Written(v, S) = Written(w, S)
    <3>1. NumIn(Lines(v.runs), S) = NumIn(Lines(w.runs), S) + Num(sorted(l, w.buffer), S)
      BY <2>3, <2>8, <2>9, NumInAppend
    <3>2. Num(<<>>, S) = 0 /\ NumIn(Lines(w.runs), S) \in Nat /\ Num(w.buffer, S) \in Nat
      BY <2>2, <2>9, NumOne, NumInHeld, NumFacts
    <3> QED BY <2>3, <2>7, <3>1, <3>2 DEF Written
  <2>12. Kept(v) = Kept(w)
    <3>1. Held(Lines(v.runs)) = Held(Lines(w.runs)) \cup Members(w.buffer)
      BY <2>3, <2>8, <2>9, NumInAppend
    <3>2. Members(v.buffer) = {}
      BY <2>7, NoLists
    <3> QED BY <3>1, <3>2 DEF Kept
  <2>13. Len(v.runs) = Len(w.runs) + 1 /\ DOMAIN v.runs = 1..(Len(w.runs) + 1) /\ DOMAIN w.runs = 1..Len(w.runs)
         /\ v.runs[Len(w.runs) + 1] = r /\ \A i \in 1..Len(w.runs) : v.runs[i] = w.runs[i]
    BY <2>2, <2>7 DEF Runs
  <2>14. RunsOrdered(l, v)
    <3> SUFFICES ASSUME NEW i \in DOMAIN v.runs PROVE Ordered(l, v.runs[i].lines)
      BY DEF RunsOrdered
    <3>1. i = Len(w.runs) + 1 \/ i \in 1..Len(w.runs)
      BY <2>2, <2>13
    <3> QED BY <2>3, <2>6, <2>13, <3>1 DEF RunsOrdered
  <2>15. Follows(w, v)
    BY <2>4, <2>8, <2>13 DEF Follows
  <2> QED BY <2>1, <2>7, <2>10, <2>11, <2>12, <2>13, <2>14, <2>15
<1> QED BY <1>1, <1>2

\* An item more in the buffer.
More(w, x) == [w EXCEPT !.buffer = Append(@, x)]

LEMMA BufferFacts ==
  ASSUME NEW U, NEW w \in Writers(U), NEW x \in U
  PROVE  /\ More(w, x) \in Writers(U)
         /\ More(w, x).buffer = Append(w.buffer, x) /\ More(w, x).runs = w.runs
         /\ Len(More(w, x).buffer) = Len(w.buffer) + 1
         /\ \A S : Written(More(w, x), S) = Written(w, S) + One(x, S)
         /\ Kept(More(w, x)) = Kept(w) \cup {x}
<1> DEFINE v == More(w, x)
<1>1. w.buffer \in Seq(U) /\ w.runs \in Runs(U) /\ w = [buffer |-> w.buffer, runs |-> w.runs]
  BY DEF Writers
<1>2. v = [buffer |-> Append(w.buffer, x), runs |-> w.runs]
  <2> DEFINE b == w.buffer
             a == w.runs
  <2>1. w = [buffer |-> b, runs |-> a]
    BY <1>1
  <2> HIDE DEF a, b
  <2>2. [w EXCEPT !.buffer = Append(b, x)] = [buffer |-> Append(b, x), runs |-> a]
    BY <2>1
  <2> QED BY <2>2 DEF More, a, b
<1>3. v.buffer = Append(w.buffer, x) /\ v.runs = w.runs
  BY <1>2
<1>4. Append(w.buffer, x) \in Seq(U) /\ Len(Append(w.buffer, x)) = Len(w.buffer) + 1
  BY <1>1
<1>5. v \in Writers(U)
  BY <1>1, <1>2, <1>4 DEF Writers
<1> HIDE DEF v
<1>6. ASSUME NEW S PROVE Written(v, S) = Written(w, S) + One(x, S)
  <2>1. Num(Append(w.buffer, x), S) = Num(w.buffer, S) + One(x, S)
    BY <1>1, NumAppend
  <2>2. Num(w.buffer, S) \in Nat /\ One(x, S) \in Nat
    BY <1>1, NumFacts, NumOne
  <2>3. NumIn(Lines(w.runs), S) \in Nat
    BY <1>1, LinesFacts, NumInHeld
  <2> QED BY <1>3, <2>1, <2>2, <2>3 DEF Written
<1>7. Kept(v) = Kept(w) \cup {x}
  <2> DEFINE s == w.buffer
             t == Append(s, x)
  <2>1. s \in Seq(U)
    BY <1>1
  <2> HIDE DEF s
  <2>2. DOMAIN s = 1..Len(s) /\ Len(s) \in Nat /\ DOMAIN t = 1..(Len(s) + 1) /\ t[Len(s) + 1] = x
        /\ \A i \in 1..Len(s) : t[i] = s[i]
    BY <2>1
  <2> HIDE DEF t
  <2>3. \A i \in 1..(Len(s) + 1) : i = Len(s) + 1 \/ i \in 1..Len(s)
    BY <2>2
  <2>4. Len(s) + 1 \in 1..(Len(s) + 1) /\ \A i \in 1..Len(s) : i \in 1..(Len(s) + 1)
    BY <2>2
  <2>5. Members(t) = Members(s) \cup {x}
    BY <2>2, <2>3, <2>4 DEF Members
  <2> QED BY <1>3, <2>5 DEF Kept, s, t
<1> QED BY <1>3, <1>4, <1>5, <1>6, <1>7 DEF v

\* add: an item more is written, and a full buffer is flushed.
LEMMA AddFacts ==
  ASSUME NEW U, HaveKeys(U), attempt \in Nat, NEW w \in Writers(U), NEW x \in U,
         NEW side \in {"e", "o"}, NEW l \in CLOSING_LEVELS, RunsOrdered(l, w)
  PROVE  /\ add(w, side, l, x) \in Writers(U)
         /\ \A S : Written(add(w, side, l, x), S) = Written(w, S) + One(x, S)
         /\ Kept(add(w, side, l, x)) = Kept(w) \cup {x}
         /\ RunsOrdered(l, add(w, side, l, x))
         /\ Follows(w, add(w, side, l, x))
         /\ mode = "big" /\ Len(w.buffer) < ChunkSize =>
              /\ Len(add(w, side, l, x).buffer) < ChunkSize
              /\ Count(add(w, side, l, x)) = Count(w) + 1
<1>1. PICK v \in Writers(U) :
        /\ v = More(w, x)
        /\ v.buffer = Append(w.buffer, x) /\ v.runs = w.runs
        /\ Len(v.buffer) = Len(w.buffer) + 1
        /\ \A S : Written(v, S) = Written(w, S) + One(x, S)
        /\ Kept(v) = Kept(w) \cup {x}
  BY BufferFacts
<1>2. add(w, side, l, x) = IF mode = "big" /\ Len(v.buffer) >= ChunkSize THEN flush(v, side, l) ELSE v
  BY <1>1 DEF add, More
<1>3. RunsOrdered(l, v)
  BY <1>1 DEF RunsOrdered
<1>4. w.buffer \in Seq(U) /\ w.runs \in Runs(U) /\ Len(w.buffer) \in Nat /\ Len(w.runs) \in Nat /\ ChunkSize \in Nat
  BY ReconcileAssumption DEF Writers, Runs
<1>5. CASE ~(mode = "big" /\ Len(v.buffer) >= ChunkSize)
  <2>1. add(w, side, l, x) = v
    BY <1>2, <1>5
  <2>2. Follows(w, v)
    BY <1>1 DEF Follows
  <2>3. mode = "big" => Len(v.buffer) < ChunkSize
    BY <1>1, <1>4, <1>5
  <2>4. Count(v) = Count(w) + 1
    <3> DEFINE many == Len(w.runs) * ChunkSize
    <3>1. many \in Nat
      BY <1>4
    <3> HIDE DEF many
    <3>2. Count(w) = Len(w.buffer) + many /\ Count(v) = Len(v.buffer) + many
      BY <1>1 DEF Count, many
    <3> QED BY <1>1, <1>4, <3>1, <3>2
  <2> QED BY <1>1, <1>3, <2>1, <2>2, <2>3, <2>4
<1>6. CASE mode = "big" /\ Len(v.buffer) >= ChunkSize
  <2>1. add(w, side, l, x) = flush(v, side, l)
    BY <1>2, <1>6
  <2>2. /\ flush(v, side, l) \in Writers(U)
        /\ \A S : Written(flush(v, side, l), S) = Written(v, S)
        /\ Kept(flush(v, side, l)) = Kept(v)
        /\ RunsOrdered(l, flush(v, side, l))
        /\ flush(v, side, l).buffer = <<>>
        /\ Follows(v, flush(v, side, l))
        /\ v.buffer # <<>> => Len(flush(v, side, l).runs) = Len(v.runs) + 1
    BY <1>3, FlushFacts
  <2>3. v.buffer # <<>>
    BY <1>1, <1>4
  <2>4. Follows(w, flush(v, side, l))
    BY <1>1, <2>2, <2>3 DEF Follows
  <2>5. Len(w.buffer) < ChunkSize => Count(flush(v, side, l)) = Count(w) + 1
    <3> DEFINE n == Len(w.runs)
    <3>1. n \in Nat /\ Len(flush(v, side, l).runs) = n + 1 /\ Len(flush(v, side, l).buffer) = 0
      BY <1>1, <1>4, <2>2, <2>3
    <3>2. (n + 1) * ChunkSize = n * ChunkSize + ChunkSize /\ n * ChunkSize \in Nat
      BY <1>4, <3>1
    <3> DEFINE many == n * ChunkSize
    <3>3. Count(flush(v, side, l)) = (n + 1) * ChunkSize
      <4>1. Count(flush(v, side, l)) = Len(flush(v, side, l).buffer) + Len(flush(v, side, l).runs) * ChunkSize
        BY DEF Count
      <4>2. (n + 1) * ChunkSize \in Nat
        BY <1>4, <3>1
      <4> QED BY <3>1, <4>1, <4>2
    <3>4. Count(w) = Len(w.buffer) + many
      BY DEF Count
    <3> HIDE DEF many
    <3>5. many \in Nat /\ Count(flush(v, side, l)) = many + ChunkSize
      BY <3>2, <3>3 DEF many
    <3>6. Len(w.buffer) < ChunkSize => Len(w.buffer) + 1 = ChunkSize
      BY <1>1, <1>4, <1>6
    <3> QED BY <1>4, <3>4, <3>5, <3>6
  <2>6. Len(flush(v, side, l).buffer) < ChunkSize
    BY <2>2, ReconcileAssumption
  <2> QED BY <1>1, <2>1, <2>2, <2>4, <2>5, <2>6
<1> QED BY <1>5, <1>6

\* left_over: the same for the next round, and a list after the last one.
LEMMA LeftOverFacts ==
  ASSUME NEW U, HaveKeys(U), attempt \in Nat, level \in CLOSING_LEVELS, NEW w \in Writers(U), NEW x \in U,
         NEW side \in {"e", "o"}, RunsOrdered(level + 1, w), level = CHUNK_ID => w.runs = <<>>
  PROVE  /\ left_over(w, side, x) \in Writers(U)
         /\ \A S : Written(left_over(w, side, x), S) = Written(w, S) + One(x, S)
         /\ Kept(left_over(w, side, x)) = Kept(w) \cup {x}
         /\ RunsOrdered(level + 1, left_over(w, side, x))
         /\ level = CHUNK_ID => left_over(w, side, x).runs = <<>>
         /\ Follows(w, left_over(w, side, x))
         /\ mode = "big" /\ level # CHUNK_ID /\ Len(w.buffer) < ChunkSize =>
              Len(left_over(w, side, x).buffer) < ChunkSize
<1>1. CASE level = CHUNK_ID
  <2>1. left_over(w, side, x) = More(w, x)
    BY <1>1 DEF left_over, More
  <2>2. /\ left_over(w, side, x) \in Writers(U)
        /\ left_over(w, side, x).runs = w.runs
        /\ \A S : Written(left_over(w, side, x), S) = Written(w, S) + One(x, S)
        /\ Kept(left_over(w, side, x)) = Kept(w) \cup {x}
    BY <2>1, BufferFacts
  <2> QED BY <1>1, <2>2 DEF Follows, RunsOrdered
<1>2. CASE level # CHUNK_ID
  <2>1. left_over(w, side, x) = add(w, side, level + 1, x)
    BY <1>2 DEF left_over
  <2>2. level + 1 \in CLOSING_LEVELS
    BY <1>2 DEF CLOSING_LEVELS, POINT_ID, EMBEDDING_ID, CHUNK_ID
  <2> DEFINE l == level + 1
  <2>3. l \in CLOSING_LEVELS /\ RunsOrdered(l, w)
    BY <2>2
  <2> HIDE DEF l
  <2>4. /\ add(w, side, l, x) \in Writers(U)
        /\ \A S : Written(add(w, side, l, x), S) = Written(w, S) + One(x, S)
        /\ Kept(add(w, side, l, x)) = Kept(w) \cup {x}
        /\ RunsOrdered(l, add(w, side, l, x))
        /\ Follows(w, add(w, side, l, x))
        /\ mode = "big" /\ Len(w.buffer) < ChunkSize => Len(add(w, side, l, x).buffer) < ChunkSize
    BY <2>3, AddFacts
  <2> QED BY <1>2, <2>1, <2>4 DEF l
<1> QED BY <1>1, <1>2

-----------------------------------------------------------------------------
(* The steps of a reconciliation *)

\* The input stays as it is.
LEMMA InputStays ==
  ASSUME UNCHANGED inputVars
  PROVE  /\ expected' = expected /\ E' = E /\ O' = O /\ in' = in /\ forced' = forced /\ given' = given
         /\ \A id : With(id)' = With(id)
         /\ Large' = Large
<1>1. in' = in /\ forced' = forced /\ given' = given
  BY DEF inputVars
<1>2. expected' = expected
  BY <1>1 DEF expected
<1>3. E' = E /\ O' = O
  BY <1>1, <1>2 DEF E, O
<1>4. \A id : With(id)' = With(id)
  BY <1>3 DEF With
<1>5. Large' = Large
  BY <1>1, <1>2 DEF Large
<1> QED BY <1>1, <1>2, <1>3, <1>4, <1>5

\* Run files have names.
LEMMA NamesFacts ==
  ASSUME NEW U, NEW runs \in Runs(U)
  PROVE  Names(runs) \subseteq RunNames
<1> DEFINE T == [name : RunNames, lines : Seq(U)]
<1>1. ASSUME NEW i \in DOMAIN runs PROVE runs[i].name \in RunNames
  <2>1. runs \in Seq(T)
    BY DEF Runs
  <2> HIDE DEF T
  <2>2. runs[i] \in T
    BY <2>1
  <2> QED BY <2>2 DEF T
<1> QED BY <1>1 DEF Names

\* What is spilled is of this attempt.
LEMMA SpilledFacts ==
  ASSUME TypeInv, DiskInv, pc = "spill" \/ Working, UNCHANGED <<inputVars, mode, attempt>>,
         NEW files, files \subseteq RunNames, \A f \in files : f[1] = attempt, Spilled(files)
  PROVE  /\ disk' \in SUBSET RunNames
         /\ disk \subseteq disk'
         /\ mode = "big" => files \subseteq disk'
         /\ \A f \in disk' : f[1] <= attempt'
         /\ disk' # {} => Large'
<1>1. Large' = Large /\ attempt' = attempt /\ attempt \in Nat /\ disk \in SUBSET RunNames
  BY InputStays DEF TypeInv
<1>2. \A f \in disk : f[1] <= attempt
  BY DEF DiskInv
<1>3. /\ disk # {} => Large
      /\ mode = "big" <=> Large
  BY DEF DiskInv
<1>4. CASE mode = "big"
  <2>1. disk' = disk \cup files
    BY <1>4 DEF Spilled
  <2>2. \A f \in files : f[1] <= attempt
    BY <1>1
  <2> QED BY <1>1, <1>2, <1>3, <1>4, <2>1, <2>2
<1>5. CASE mode # "big"
  <2>1. disk' = disk
    BY <1>5 DEF Spilled
  <2> QED BY <1>1, <1>2, <1>3, <1>5, <2>1
<1> QED BY <1>4, <1>5

\* A key that is not the least of what is left is not there.
LEMMA LeastKey ==
  ASSUME NEW U, HaveKeys(U), level \in CLOSING_LEVELS, NEW at \in Seq(Seq(U)),
         \A i \in DOMAIN at : Ordered(level, at[i]),
         NEW k \in Nat \ {None},
         Alive(at) # {} => key(level, HeadOf(at)) = None \/ k < key(level, HeadOf(at))
  PROVE  \A x \in Held(at) : key(level, x) # k
<1> SUFFICES ASSUME NEW x \in Held(at) PROVE key(level, x) # k
  OBVIOUS
<1>1. Alive(at) # {}
  BY NoneAlive
<1> DEFINE h == HeadOf(at)
<1>2. h \in U /\ ~sorts_before(level, x, h)
  BY <1>1, HeadFacts
<1>3. x \in U
  BY NumInHeld
<1> HIDE DEF h
<1>4. key(level, x) \in Nat /\ key(level, h) \in Nat
  BY <1>2, <1>3 DEF HaveKeys
<1>5. key(level, h) = None \/ k < key(level, h)
  BY <1>1 DEF h
<1> QED BY <1>2, <1>4, <1>5 DEF sorts_before

\* Numbers of items are numbers.
LEMMA WrittenIsNat == ASSUME NEW U, NEW w \in Writers(U), NEW S PROVE Written(w, S) \in Nat
<1>1. w.buffer \in Seq(U) /\ w.runs \in Runs(U)
  BY DEF Writers
<1>2. Num(w.buffer, S) \in Nat
  BY <1>1, NumFacts
<1>3. NumIn(Lines(w.runs), S) \in Nat
  BY <1>1, LinesFacts, NumInHeld
<1> QED BY <1>2, <1>3 DEF Written

\* The matched items of each side are a list.
LEMMA MatchedFacts ==
  ASSUME TypeInv
  PROVE  /\ MatchedE \in Seq(E) /\ MatchedO \in Seq(O)
         /\ Len(MatchedE) = Len(matched) /\ Len(MatchedO) = Len(matched)
         /\ \A p \in Members(matched) : p.expected \in E /\ p.observed \in O /\ p.level \in CLOSING_LEVELS
<1>1. matched \in Seq(Pairs)
  BY DEF TypeInv
<1>2. DOMAIN matched = 1..Len(matched) /\ Len(matched) \in Nat /\ \A i \in DOMAIN matched : matched[i] \in Pairs
  BY <1>1
<1>3. \A p \in Pairs : p.expected \in E /\ p.observed \in O /\ p.level \in CLOSING_LEVELS
  BY DEF Pairs
<1>4. MatchedE = [i \in 1..Len(matched) |-> matched[i].expected] /\ MatchedO = [i \in 1..Len(matched) |-> matched[i].observed]
  BY <1>2 DEF MatchedE, MatchedO
<1>5. \A p \in Members(matched) : p \in Pairs
  BY <1>2 DEF Members
<1> QED BY <1>2, <1>3, <1>4, <1>5

LEMMA NumbersFacts ==
  ASSUME TypeInv
  PROVE  \A S : /\ Num(MatchedE, S) \in Nat /\ Num(MatchedO, S) \in Nat
                /\ Num(eGroup, S) \in Nat /\ Num(oGroup, S) \in Nat
                /\ NumIn(eAt, S) \in Nat /\ NumIn(oAt, S) \in Nat
                /\ Written(eOut, S) \in Nat /\ Written(oOut, S) \in Nat
<1> SUFFICES ASSUME NEW S
             PROVE  /\ Num(MatchedE, S) \in Nat /\ Num(MatchedO, S) \in Nat
                    /\ Num(eGroup, S) \in Nat /\ Num(oGroup, S) \in Nat
                    /\ NumIn(eAt, S) \in Nat /\ NumIn(oAt, S) \in Nat
                    /\ Written(eOut, S) \in Nat /\ Written(oOut, S) \in Nat
  OBVIOUS
<1>1. /\ eGroup \in Seq(E) /\ oGroup \in Seq(O) /\ eAt \in Seq(Seq(E)) /\ oAt \in Seq(Seq(O))
      /\ eOut \in Writers(E) /\ oOut \in Writers(O)
  BY DEF TypeInv
<1>2. Num(MatchedE, S) \in Nat /\ Num(MatchedO, S) \in Nat
  BY MatchedFacts, NumFacts
<1>3. Num(eGroup, S) \in Nat /\ Num(oGroup, S) \in Nat
  BY <1>1, NumFacts
<1>4. NumIn(eAt, S) \in Nat /\ NumIn(oAt, S) \in Nat
  BY <1>1, NumInHeld
<1>5. Written(eOut, S) \in Nat /\ Written(oOut, S) \in Nat
  BY <1>1, WrittenIsNat
<1> QED BY <1>2, <1>3, <1>4, <1>5

\* leftover_expected: the least expected item has no partner.
LEMMA LeftoverExpectedStep == ASSUME ReconcileInv, leftover_expected PROVE ReconcileInv'
<1> USE DEF ReconcileInv
<1>1. /\ expected' = expected /\ E' = E /\ O' = O /\ in' = in /\ forced' = forced /\ given' = given
      /\ \A id : With(id)' = With(id)
      /\ Large' = Large
  BY InputStays DEF leftover_expected
<1>2. HaveKeys(E) /\ HaveKeys(O) /\ \A y \in E \cup O : key(POINT_ID, y) = y.point_id /\ y.point_id \in Nat \ {None}
  BY InputFacts DEF TypeInv
<1>3. level \in CLOSING_LEVELS /\ eAt \in Seq(Seq(E)) /\ oAt \in Seq(Seq(O)) /\ eOut \in Writers(E) /\ attempt \in Nat
  BY DEF TypeInv
<1>4. pc = "join" /\ Joining /\ Working /\ pc' = "join" /\ Joining' /\ Working'
  BY DEF leftover_expected, Joining, Working
<1>5. PICK x \in E :
        /\ x = HeadOf(eAt)
        /\ x \in Held(eAt)
        /\ \A y \in Held(eAt) : ~sorts_before(level, y, x)
        /\ eAt' \in Seq(Seq(E))
        /\ Held(eAt) = Held(eAt') \cup {x}
        /\ \A S : NumIn(eAt, S) = One(x, S) + NumIn(eAt', S)
        /\ \A i \in DOMAIN eAt' : Ordered(level, eAt'[i])
  <2>1. eAt' = Pop(eAt) /\ Alive(eAt) # {}
    BY DEF leftover_expected
  <2>2. \A i \in DOMAIN eAt : Ordered(level, eAt[i])
    BY DEF OrderInv
  <2> QED BY <1>2, <1>3, <2>1, <2>2, HeadFacts
<1>6. /\ eOut' \in Writers(E)
      /\ \A S : Written(eOut', S) = Written(eOut, S) + One(x, S)
      /\ Kept(eOut') = Kept(eOut) \cup {x}
      /\ RunsOrdered(level + 1, eOut')
      /\ level = CHUNK_ID => eOut'.runs = <<>>
      /\ Follows(eOut, eOut')
      /\ mode = "big" /\ level # CHUNK_ID /\ Len(eOut.buffer) < ChunkSize => Len(eOut'.buffer) < ChunkSize
  <2>1. eOut' = left_over(eOut, "e", x)
    BY <1>5 DEF leftover_expected
  <2>2. RunsOrdered(level + 1, eOut) /\ (level = CHUNK_ID => eOut.runs = <<>>)
    BY <1>4 DEF OrderInv, PlaceInv
  <2> QED BY <1>2, <1>3, <2>1, <2>2, LeftOverFacts
<1>7. UNCHANGED <<inputVars, mode, level, es, os, oAt, oOut, eGroup, oGroup, matched, duplicates, attempt, result, verdict>>
  BY DEF leftover_expected, groupVars, endVars
<1>8. Names(eOut'.runs) \subseteq RunNames /\ \A f \in Names(eOut'.runs) : f[1] = attempt
  <2>1. eOut'.runs \in Runs(E)
    BY <1>6 DEF Writers
  <2> QED BY <1>6, <2>1, NamesFacts DEF Follows, DiskInv
<1>9. /\ disk' \in SUBSET RunNames
      /\ disk \subseteq disk'
      /\ \A f \in disk' : f[1] <= attempt'
      /\ disk' # {} => Large'
  <2>1. Spilled(Names(eOut'.runs))
    BY DEF leftover_expected
  <2> QED BY <1>4, <1>7, <1>8, <2>1, SpilledFacts
<1>19. ASSUME NEW o \in Held(oAt) PROVE ~SameKey(level, x, o)
  <2>1. CASE key(level, x) = None
    BY <2>1 DEF SameKey
  <2>2. CASE key(level, x) # None
    <3> DEFINE k == key(level, x)
    <3>1. k \in Nat \ {None}
      BY <1>2, <1>3, <2>2 DEF HaveKeys
    <3>2. Alive(oAt) = {} \/ (oKey # None /\ k < oKey)
      BY <1>5, <2>2 DEF leftover_expected, eKey
    <3>3. Alive(oAt) # {} => k < key(level, HeadOf(oAt))
      BY <3>2 DEF oKey
    <3>4. \A i \in DOMAIN oAt : Ordered(level, oAt[i])
      BY DEF OrderInv
    <3> HIDE DEF k
    <3>5. key(level, o) # k
      BY <1>2, <1>3, <3>1, <3>3, <3>4, LeastKey
    <3> QED BY <3>5 DEF SameKey, k
  <2> QED BY <2>1, <2>2
<1>10. TypeInv'
  BY <1>1, <1>4, <1>5, <1>6, <1>7, <1>9 DEF TypeInv, inputVars, Pairs
<1>11. PlaceInv'
  BY <1>4, <1>6, <1>7 DEF PlaceInv, Judged, Joining
<1>12. ConservationInv'
  <2>1. MatchedE' = MatchedE /\ MatchedO' = MatchedO
    BY <1>7 DEF MatchedE, MatchedO
  <2>2. ASSUME NEW S
        PROVE  /\ Num(expected', S) = Num(MatchedE', S) + Num(eGroup', S) + NumIn(eAt', S) + Written(eOut', S)
               /\ Num(in'.observed, S) = Num(MatchedO', S) + Num(oGroup', S) + NumIn(oAt', S) + Written(oOut', S)
    <3>1. /\ Num(expected, S) = Num(MatchedE, S) + Num(eGroup, S) + NumIn(eAt, S) + Written(eOut, S)
          /\ Num(in.observed, S) = Num(MatchedO, S) + Num(oGroup, S) + NumIn(oAt, S) + Written(oOut, S)
      BY <1>4 DEF ConservationInv
    <3>2. One(x, S) \in Nat /\ NumIn(eAt', S) \in Nat
      BY <1>5, NumOne, NumInHeld
    <3>3. NumIn(eAt, S) = One(x, S) + NumIn(eAt', S) /\ Written(eOut', S) = Written(eOut, S) + One(x, S)
      BY <1>5, <1>6
    <3>4. Num(MatchedE, S) \in Nat /\ Num(eGroup, S) \in Nat /\ Written(eOut, S) \in Nat
      BY NumbersFacts
    <3> QED BY <1>1, <1>7, <2>1, <3>1, <3>2, <3>3, <3>4
  <2> QED BY <1>4, <2>1, <2>2 DEF ConservationInv
<1>13. OrderInv'
  BY <1>4, <1>5, <1>6, <1>7 DEF OrderInv
<1>14. GroupInv'
  BY <1>4 DEF GroupInv
<1>15. ApartInv'
  <2>1. OpenE' = OpenE /\ OpenO' = OpenO
    BY <1>5, <1>6, <1>7 DEF OpenE, OpenO
  <2>2. \A l : BehindE(l)' = BehindE(l) /\ BehindO(l)' = BehindO(l)
    BY <1>7, <2>1 DEF BehindE, BehindO
  <2>3. \A e \in OpenE, o \in Kept(oOut) : ~SameKey(level, e, o)
    BY <1>4 DEF ApartInv
  <2>5. \A o \in OpenO : ~SameKey(level, x, o)
    <3>1. OpenO = Kept(oOut) \cup Held(oAt) /\ x \in OpenE
      BY <1>4, <1>5, NoLists DEF OpenE, OpenO, PlaceInv
    <3> QED BY <1>19, <2>3, <3>1
  <2>6. \A e \in Kept(eOut'), o \in OpenO' : ~SameKey(level, e, o)
    BY <1>4, <1>6, <2>1, <2>5 DEF ApartInv
  <2> QED BY <1>4, <1>7, <2>1, <2>2, <2>3, <2>6 DEF ApartInv
<1>16. DuplicateInv'
  <2>1. \A id : Settled(id)' = Settled(id)
    BY <1>1, <1>7 DEF Settled
  <2> SUFFICES ASSUME NEW e \in E, level = POINT_ID
               PROVE  Untouched(e.point_id)' \/ Settled(e.point_id)
    BY <1>1, <1>4, <1>7, <2>1 DEF DuplicateInv, Judged
  <2> DEFINE id == e.point_id
  <2>2. Untouched(id) \/ Settled(id)
    BY <1>4 DEF DuplicateInv
  <2>3. CASE Untouched(id) /\ x.point_id # id
    BY <1>1, <1>5, <1>7, <2>3 DEF Untouched
  <2>4. CASE Untouched(id) /\ x.point_id = id
    <3>1. \A o \in Held(oAt) : o \notin With(id)
      <4>1. key(level, x) = id /\ id # None
        BY <1>2, <2>4
      <4>2. \A o \in O : key(level, o) = o.point_id
        BY <1>2
      <4>3. Held(oAt) \subseteq O
        BY <1>3, NumInHeld
      <4> QED BY <1>19, <4>1, <4>2, <4>3 DEF With, SameKey
    <3>2. NumIn(oAt, With(id)) = 0
      <4>1. /\ NumIn(oAt, With(id)) \in Nat
            /\ NumIn(oAt, With(id)) > 0 <=> \E o \in Held(oAt) : o \in With(id)
        BY <1>3, NumInHeld
      <4> QED BY <3>1, <4>1
    <3> QED BY <2>4, <3>2 DEF Untouched, Settled
  <2> QED BY <2>2, <2>3, <2>4
<1>17. ResultInv'
  BY <1>4 DEF ResultInv, Judged
<1>18. DiskInv'
  BY <1>1, <1>4, <1>6, <1>7, <1>8, <1>9 DEF DiskInv, RunFilesHold
<1> QED BY <1>10, <1>11, <1>12, <1>13, <1>14, <1>15, <1>16, <1>17, <1>18

\* leftover_observed: nor has the least observed item.
LEMMA LeftoverObservedStep == ASSUME ReconcileInv, leftover_observed PROVE ReconcileInv'
<1> USE DEF ReconcileInv
<1>1. /\ expected' = expected /\ O' = O /\ E' = E /\ in' = in /\ forced' = forced /\ given' = given
      /\ \A id : With(id)' = With(id)
      /\ Large' = Large
  BY InputStays DEF leftover_observed
<1>2. HaveKeys(O) /\ HaveKeys(E) /\ \A y \in O \cup E : key(POINT_ID, y) = y.point_id /\ y.point_id \in Nat \ {None}
  BY InputFacts DEF TypeInv
<1>3. level \in CLOSING_LEVELS /\ oAt \in Seq(Seq(O)) /\ eAt \in Seq(Seq(E)) /\ oOut \in Writers(O) /\ attempt \in Nat
  BY DEF TypeInv
<1>4. pc = "join" /\ Joining /\ Working /\ pc' = "join" /\ Joining' /\ Working'
  BY DEF leftover_observed, Joining, Working
<1>5. PICK x \in O :
        /\ x = HeadOf(oAt)
        /\ x \in Held(oAt)
        /\ \A y \in Held(oAt) : ~sorts_before(level, y, x)
        /\ oAt' \in Seq(Seq(O))
        /\ Held(oAt) = Held(oAt') \cup {x}
        /\ \A S : NumIn(oAt, S) = One(x, S) + NumIn(oAt', S)
        /\ \A i \in DOMAIN oAt' : Ordered(level, oAt'[i])
  <2>1. oAt' = Pop(oAt) /\ Alive(oAt) # {}
    BY DEF leftover_observed
  <2>2. \A i \in DOMAIN oAt : Ordered(level, oAt[i])
    BY DEF OrderInv
  <2> QED BY <1>2, <1>3, <2>1, <2>2, HeadFacts
<1>6. /\ oOut' \in Writers(O)
      /\ \A S : Written(oOut', S) = Written(oOut, S) + One(x, S)
      /\ Kept(oOut') = Kept(oOut) \cup {x}
      /\ RunsOrdered(level + 1, oOut')
      /\ level = CHUNK_ID => oOut'.runs = <<>>
      /\ Follows(oOut, oOut')
      /\ mode = "big" /\ level # CHUNK_ID /\ Len(oOut.buffer) < ChunkSize => Len(oOut'.buffer) < ChunkSize
  <2>1. oOut' = left_over(oOut, "o", x)
    BY <1>5 DEF leftover_observed
  <2>2. RunsOrdered(level + 1, oOut) /\ (level = CHUNK_ID => oOut.runs = <<>>)
    BY <1>4 DEF OrderInv, PlaceInv
  <2> QED BY <1>2, <1>3, <2>1, <2>2, LeftOverFacts
<1>7. UNCHANGED <<inputVars, mode, level, os, es, eAt, eOut, oGroup, eGroup, matched, duplicates, attempt, result, verdict>>
  BY DEF leftover_observed, groupVars, endVars
<1>8. Names(oOut'.runs) \subseteq RunNames /\ \A f \in Names(oOut'.runs) : f[1] = attempt
  <2>1. oOut'.runs \in Runs(O)
    BY <1>6 DEF Writers
  <2> QED BY <1>6, <2>1, NamesFacts DEF Follows, DiskInv
<1>9. /\ disk' \in SUBSET RunNames
      /\ disk \subseteq disk'
      /\ \A f \in disk' : f[1] <= attempt'
      /\ disk' # {} => Large'
  <2>1. Spilled(Names(oOut'.runs))
    BY DEF leftover_observed
  <2> QED BY <1>4, <1>7, <1>8, <2>1, SpilledFacts
<1>19. ASSUME NEW e \in Held(eAt) PROVE ~SameKey(level, e, x)
  <2>1. CASE key(level, x) = None
    BY <2>1 DEF SameKey
  <2>2. CASE key(level, x) # None
    <3> DEFINE k == key(level, x)
    <3>1. k \in Nat \ {None}
      BY <1>2, <1>3, <2>2 DEF HaveKeys
    <3>2. Alive(eAt) = {} \/ (eKey # None /\ eKey > k)
      BY <1>5, <2>2 DEF leftover_observed, oKey
    <3>3. Alive(eAt) # {} => k < key(level, HeadOf(eAt))
      BY <3>2 DEF eKey
    <3>4. \A i \in DOMAIN eAt : Ordered(level, eAt[i])
      BY DEF OrderInv
    <3> HIDE DEF k
    <3>5. key(level, e) # k
      BY <1>2, <1>3, <3>1, <3>3, <3>4, LeastKey
    <3> QED BY <3>5 DEF SameKey, k
  <2> QED BY <2>1, <2>2
<1>10. TypeInv'
  BY <1>1, <1>4, <1>5, <1>6, <1>7, <1>9 DEF TypeInv, inputVars, Pairs
<1>11. PlaceInv'
  BY <1>4, <1>6, <1>7 DEF PlaceInv, Judged, Joining
<1>12. ConservationInv'
  <2>1. MatchedE' = MatchedE /\ MatchedO' = MatchedO
    BY <1>7 DEF MatchedE, MatchedO
  <2>2. ASSUME NEW S
        PROVE  /\ Num(expected', S) = Num(MatchedE', S) + Num(eGroup', S) + NumIn(eAt', S) + Written(eOut', S)
               /\ Num(in'.observed, S) = Num(MatchedO', S) + Num(oGroup', S) + NumIn(oAt', S) + Written(oOut', S)
    <3>1. /\ Num(expected, S) = Num(MatchedE, S) + Num(eGroup, S) + NumIn(eAt, S) + Written(eOut, S)
          /\ Num(in.observed, S) = Num(MatchedO, S) + Num(oGroup, S) + NumIn(oAt, S) + Written(oOut, S)
      BY <1>4 DEF ConservationInv
    <3>2. One(x, S) \in Nat /\ NumIn(oAt', S) \in Nat
      BY <1>5, NumOne, NumInHeld
    <3>3. NumIn(oAt, S) = One(x, S) + NumIn(oAt', S) /\ Written(oOut', S) = Written(oOut, S) + One(x, S)
      BY <1>5, <1>6
    <3>4. Num(MatchedO, S) \in Nat /\ Num(oGroup, S) \in Nat /\ Written(oOut, S) \in Nat
      BY NumbersFacts
    <3> QED BY <1>1, <1>7, <2>1, <3>1, <3>2, <3>3, <3>4
  <2> QED BY <1>4, <2>1, <2>2 DEF ConservationInv
<1>13. OrderInv'
  BY <1>4, <1>5, <1>6, <1>7 DEF OrderInv
<1>14. GroupInv'
  BY <1>4 DEF GroupInv
<1>15. ApartInv'
  <2>1. OpenE' = OpenE /\ OpenO' = OpenO
    BY <1>5, <1>6, <1>7 DEF OpenE, OpenO
  <2>2. \A l : BehindE(l)' = BehindE(l) /\ BehindO(l)' = BehindO(l)
    BY <1>7, <2>1 DEF BehindE, BehindO
  <2>3. \A e \in Kept(eOut), o \in OpenO : ~SameKey(level, e, o)
    BY <1>4 DEF ApartInv
  <2>5. \A e \in OpenE : ~SameKey(level, e, x)
    <3>1. OpenE = Kept(eOut) \cup Held(eAt) /\ x \in OpenO
      BY <1>4, <1>5, NoLists DEF OpenE, OpenO, PlaceInv
    <3> QED BY <1>19, <2>3, <3>1
  <2>6. \A e \in OpenE', o \in Kept(oOut') : ~SameKey(level, e, o)
    BY <1>4, <1>6, <2>1, <2>5 DEF ApartInv
  <2> QED BY <1>4, <1>7, <2>1, <2>2, <2>3, <2>6 DEF ApartInv
<1>16. DuplicateInv'
  <2>1. \A id : Settled(id)' = Settled(id)
    BY <1>1, <1>7 DEF Settled
  <2> SUFFICES ASSUME NEW e \in E, level = POINT_ID, Untouched(e.point_id)
               PROVE  Untouched(e.point_id)'
    BY <1>1, <1>4, <1>7, <2>1 DEF DuplicateInv, Judged
  <2> DEFINE id == e.point_id
  <2>2. PICK d \in Held(eAt) : d.point_id = id
    BY DEF Untouched
  <2>3. x.point_id # id
    <3>1. d \in E
      BY <1>3, NumInHeld
    <3>2. key(level, d) = id /\ key(level, x) = x.point_id /\ id # None
      BY <1>2, <2>2, <3>1
    <3> QED BY <1>19, <3>2 DEF SameKey
  <2>4. One(x, With(id)) = 0
    BY <2>3 DEF One, With
  <2>5. NumIn(oAt', With(id)) \in Nat
    BY <1>5, NumInHeld
  <2>6. NumIn(oAt', With(id)) = NumIn(oAt, With(id))
    BY <1>5, <2>4, <2>5
  <2> QED BY <1>1, <1>7, <2>6 DEF Untouched
<1>17. ResultInv'
  BY <1>4 DEF ResultInv, Judged
<1>18. DiskInv'
  BY <1>1, <1>4, <1>6, <1>7, <1>8, <1>9 DEF DiskInv, RunFilesHold
<1> QED BY <1>10, <1>11, <1>12, <1>13, <1>14, <1>15, <1>16, <1>17, <1>18

\* surplus: what the expected side of a group has more of is left over.
LEMMA SurplusExpectedStep == ASSUME ReconcileInv, surplus, eGroup # <<>> PROVE ReconcileInv'
<1> USE DEF ReconcileInv
<1>1. /\ expected' = expected /\ E' = E /\ O' = O /\ in' = in /\ forced' = forced /\ given' = given
      /\ \A id : With(id)' = With(id)
      /\ Large' = Large
  BY InputStays DEF surplus
<1>2. HaveKeys(E)
  BY InputFacts DEF TypeInv
<1>3. level \in CLOSING_LEVELS /\ eGroup \in Seq(E) /\ eOut \in Writers(E) /\ oOut \in Writers(O) /\ attempt \in Nat
  BY DEF TypeInv
<1>4. pc = "surplus" /\ Joining /\ Working /\ oGroup = <<>>
  BY DEF surplus, Joining, Working, PlaceInv
<1>5. PICK x \in E :
        /\ x = Head(eGroup)
        /\ eGroup' = Tail(eGroup) /\ eGroup' \in Seq(E) /\ Len(eGroup') = Len(eGroup) - 1
        /\ Members(eGroup) = Members(eGroup') \cup {x}
        /\ \A S : Num(eGroup, S) = One(x, S) + Num(eGroup', S)
  <2>1. eGroup' = Tail(eGroup)
    BY DEF surplus
  <2>2. Head(eGroup) = eGroup[1] /\ eGroup[1] \in E /\ Tail(eGroup) \in Seq(E) /\ Len(Tail(eGroup)) = Len(eGroup) - 1
    BY <1>3
  <2>3. Members(eGroup) = Members(Tail(eGroup)) \cup {eGroup[1]}
    BY <1>3, MembersTail
  <2>4. \A S : Num(eGroup, S) = One(eGroup[1], S) + Num(Tail(eGroup), S)
    BY <1>3, NumTail
  <2> QED BY <2>1, <2>2, <2>3, <2>4
<1>6. /\ eOut' \in Writers(E)
      /\ \A S : Written(eOut', S) = Written(eOut, S) + One(x, S)
      /\ Kept(eOut') = Kept(eOut) \cup {x}
      /\ RunsOrdered(level + 1, eOut')
      /\ level = CHUNK_ID => eOut'.runs = <<>>
      /\ Follows(eOut, eOut')
      /\ mode = "big" /\ level # CHUNK_ID /\ Len(eOut.buffer) < ChunkSize => Len(eOut'.buffer) < ChunkSize
  <2>1. eOut' = left_over(eOut, "e", x)
    BY <1>5 DEF surplus
  <2>2. RunsOrdered(level + 1, eOut) /\ (level = CHUNK_ID => eOut.runs = <<>>)
    BY <1>4 DEF OrderInv, PlaceInv
  <2>3. level \in CLOSING_LEVELS /\ eOut \in Writers(E) /\ attempt \in Nat
    BY <1>3
  <2> QED BY <1>2, <2>1, <2>2, <2>3, LeftOverFacts
<1>7. UNCHANGED <<inputVars, mode, level, es, os, eAt, oAt, oOut, oGroup, matched, duplicates, attempt, result, verdict>>
  BY DEF surplus, endVars
<1>20. /\ pc' \in {"join", "surplus"} /\ Joining' /\ Working'
       /\ pc' = "join" => eGroup' = <<>>
       /\ pc' = "surplus" => eGroup' # <<>>
  <2>1. pc' = IF Len(eGroup) + Len(oGroup) = 1 THEN "join" ELSE "surplus"
    BY DEF surplus
  <2>2. Len(oGroup) = 0 /\ Len(eGroup) \in Nat
    BY <1>3, <1>4
  <2>3. pc' = "join" <=> Len(eGroup') = 0
    BY <1>5, <2>1, <2>2
  <2>4. Len(eGroup') = 0 <=> eGroup' = <<>>
    BY <1>5, EmptySeq
  <2> QED BY <2>1, <2>3, <2>4 DEF Joining, Working
<1>8. /\ Names(eOut'.runs) \subseteq RunNames /\ \A f \in Names(eOut'.runs) : f[1] = attempt
      /\ Names(oOut'.runs) \subseteq RunNames /\ \A f \in Names(oOut'.runs) : f[1] = attempt
  <2>1. eOut'.runs \in Runs(E) /\ oOut.runs \in Runs(O)
    BY <1>3, <1>6 DEF Writers
  <2> QED BY <1>6, <1>7, <2>1, NamesFacts DEF Follows, DiskInv
<1>9. /\ disk' \in SUBSET RunNames
      /\ disk \subseteq disk'
      /\ \A f \in disk' : f[1] <= attempt'
      /\ disk' # {} => Large'
  <2> DEFINE files == Names(eOut'.runs) \cup Names(oOut'.runs)
  <2>1. Spilled(files)
    BY DEF surplus
  <2>2. files \subseteq RunNames /\ \A f \in files : f[1] = attempt
    BY <1>8
  <2> HIDE DEF files
  <2> QED BY <1>4, <1>7, <2>1, <2>2, SpilledFacts
<1>10. TypeInv'
  BY <1>1, <1>5, <1>6, <1>7, <1>9, <1>20 DEF TypeInv, inputVars, Pairs
<1>11. PlaceInv'
  BY <1>4, <1>6, <1>7, <1>20 DEF PlaceInv, Judged, Joining
<1>12. ConservationInv'
  <2>1. MatchedE' = MatchedE /\ MatchedO' = MatchedO
    BY <1>7 DEF MatchedE, MatchedO
  <2>2. ASSUME NEW S
        PROVE  /\ Num(expected', S) = Num(MatchedE', S) + Num(eGroup', S) + NumIn(eAt', S) + Written(eOut', S)
               /\ Num(in'.observed, S) = Num(MatchedO', S) + Num(oGroup', S) + NumIn(oAt', S) + Written(oOut', S)
    <3>1. /\ Num(expected, S) = Num(MatchedE, S) + Num(eGroup, S) + NumIn(eAt, S) + Written(eOut, S)
          /\ Num(in.observed, S) = Num(MatchedO, S) + Num(oGroup, S) + NumIn(oAt, S) + Written(oOut, S)
      BY <1>4 DEF ConservationInv
    <3>2. One(x, S) \in Nat /\ Num(eGroup', S) \in Nat
      BY <1>5, NumOne, NumFacts
    <3>3. Num(eGroup, S) = One(x, S) + Num(eGroup', S) /\ Written(eOut', S) = Written(eOut, S) + One(x, S)
      BY <1>5, <1>6
    <3>4. Num(MatchedE, S) \in Nat /\ NumIn(eAt, S) \in Nat /\ Written(eOut, S) \in Nat
      BY NumbersFacts
    <3> QED BY <1>1, <1>7, <2>1, <3>1, <3>2, <3>3, <3>4
  <2> QED BY <1>20, <2>1, <2>2 DEF ConservationInv
<1>13. OrderInv'
  BY <1>4, <1>6, <1>7, <1>20 DEF OrderInv
<1>14. GroupInv'
  BY <1>20 DEF GroupInv
<1>15. ApartInv'
  <2>1. OpenE' = OpenE /\ OpenO' = OpenO
    BY <1>5, <1>6, <1>7 DEF OpenE, OpenO
  <2>2. \A l : BehindE(l)' = BehindE(l) /\ BehindO(l)' = BehindO(l)
    BY <1>7, <2>1 DEF BehindE, BehindO
  <2>3. \A e \in OpenE, o \in Kept(oOut) : ~SameKey(level, e, o)
    BY <1>4 DEF ApartInv
  <2>4. \A e \in Members(eGroup), o \in Held(oAt) : ~SameKey(level, e, o)
    BY <1>4 DEF ApartInv
  <2>5. \A o \in OpenO : ~SameKey(level, x, o)
    <3>1. OpenO = Kept(oOut) \cup Held(oAt) /\ x \in OpenE /\ x \in Members(eGroup)
      BY <1>4, <1>5, NoLists DEF OpenE, OpenO
    <3> QED BY <2>3, <2>4, <3>1
  <2>6. \A e \in Kept(eOut'), o \in OpenO' : ~SameKey(level, e, o)
    BY <1>4, <1>6, <2>1, <2>5 DEF ApartInv
  <2>7. /\ \A e \in Members(eGroup'), o \in Held(oAt') : ~SameKey(level', e, o)
        /\ \A o \in Members(oGroup'), e \in Held(eAt') : ~SameKey(level', e, o)
    BY <1>4, <1>5, <1>7, <2>4, NoLists
  <2> QED BY <1>4, <1>7, <1>20, <2>1, <2>2, <2>3, <2>6, <2>7 DEF ApartInv
<1>16. DuplicateInv'
  <2>1. \A id : Settled(id)' = Settled(id) /\ Untouched(id)' = Untouched(id)
    BY <1>1, <1>7 DEF Settled, Untouched
  <2> QED BY <1>1, <1>4, <1>7, <1>20, <2>1 DEF DuplicateInv, Judged
<1>17. ResultInv'
  BY <1>20 DEF ResultInv, Judged
<1>18. DiskInv'
  BY <1>1, <1>4, <1>6, <1>7, <1>8, <1>9, <1>20 DEF DiskInv, RunFilesHold
<1> QED BY <1>10, <1>11, <1>12, <1>13, <1>14, <1>15, <1>16, <1>17, <1>18

\* surplus: and what the observed side has more of.
LEMMA SurplusObservedStep == ASSUME ReconcileInv, surplus, eGroup = <<>> PROVE ReconcileInv'
<1> USE DEF ReconcileInv
<1>1. /\ expected' = expected /\ E' = E /\ O' = O /\ in' = in /\ forced' = forced /\ given' = given
      /\ \A id : With(id)' = With(id)
      /\ Large' = Large
  BY InputStays DEF surplus
<1>2. HaveKeys(O)
  BY InputFacts DEF TypeInv
<1>3. level \in CLOSING_LEVELS /\ oGroup \in Seq(O) /\ oOut \in Writers(O) /\ eOut \in Writers(E) /\ attempt \in Nat
  BY DEF TypeInv
<1>4. pc = "surplus" /\ Joining /\ Working /\ eGroup = <<>> /\ oGroup # <<>>
  BY DEF surplus, Joining, Working, PlaceInv
<1>5. PICK x \in O :
        /\ x = Head(oGroup)
        /\ oGroup' = Tail(oGroup) /\ oGroup' \in Seq(O) /\ Len(oGroup') = Len(oGroup) - 1
        /\ Members(oGroup) = Members(oGroup') \cup {x}
        /\ \A S : Num(oGroup, S) = One(x, S) + Num(oGroup', S)
  <2>1. oGroup' = Tail(oGroup)
    BY DEF surplus
  <2>2. Head(oGroup) = oGroup[1] /\ oGroup[1] \in O /\ Tail(oGroup) \in Seq(O) /\ Len(Tail(oGroup)) = Len(oGroup) - 1
    BY <1>3, <1>4
  <2>3. Members(oGroup) = Members(Tail(oGroup)) \cup {oGroup[1]}
    BY <1>3, <1>4, MembersTail
  <2>4. \A S : Num(oGroup, S) = One(oGroup[1], S) + Num(Tail(oGroup), S)
    BY <1>3, <1>4, NumTail
  <2> QED BY <2>1, <2>2, <2>3, <2>4
<1>6. /\ oOut' \in Writers(O)
      /\ \A S : Written(oOut', S) = Written(oOut, S) + One(x, S)
      /\ Kept(oOut') = Kept(oOut) \cup {x}
      /\ RunsOrdered(level + 1, oOut')
      /\ level = CHUNK_ID => oOut'.runs = <<>>
      /\ Follows(oOut, oOut')
      /\ mode = "big" /\ level # CHUNK_ID /\ Len(oOut.buffer) < ChunkSize => Len(oOut'.buffer) < ChunkSize
  <2>1. oOut' = left_over(oOut, "o", x)
    BY <1>5 DEF surplus
  <2>2. RunsOrdered(level + 1, oOut) /\ (level = CHUNK_ID => oOut.runs = <<>>)
    BY <1>4 DEF OrderInv, PlaceInv
  <2>3. level \in CLOSING_LEVELS /\ oOut \in Writers(O) /\ attempt \in Nat
    BY <1>3
  <2> QED BY <1>2, <2>1, <2>2, <2>3, LeftOverFacts
<1>7. UNCHANGED <<inputVars, mode, level, os, es, oAt, eAt, eOut, eGroup, matched, duplicates, attempt, result, verdict>>
  BY DEF surplus, endVars
<1>20. /\ pc' \in {"join", "surplus"} /\ Joining' /\ Working'
       /\ pc' = "join" => oGroup' = <<>>
       /\ pc' = "surplus" => oGroup' # <<>>
  <2>1. pc' = IF Len(eGroup) + Len(oGroup) = 1 THEN "join" ELSE "surplus"
    BY DEF surplus
  <2>2. Len(eGroup) = 0 /\ Len(oGroup) \in Nat
    BY <1>3, <1>4
  <2>3. pc' = "join" <=> Len(oGroup') = 0
    BY <1>5, <2>1, <2>2
  <2>4. Len(oGroup') = 0 <=> oGroup' = <<>>
    BY <1>5, EmptySeq
  <2> QED BY <2>1, <2>3, <2>4 DEF Joining, Working
<1>8. /\ Names(oOut'.runs) \subseteq RunNames /\ \A f \in Names(oOut'.runs) : f[1] = attempt
      /\ Names(eOut'.runs) \subseteq RunNames /\ \A f \in Names(eOut'.runs) : f[1] = attempt
  <2>1. oOut'.runs \in Runs(O) /\ eOut.runs \in Runs(E)
    BY <1>3, <1>6 DEF Writers
  <2> QED BY <1>6, <1>7, <2>1, NamesFacts DEF Follows, DiskInv
<1>9. /\ disk' \in SUBSET RunNames
      /\ disk \subseteq disk'
      /\ \A f \in disk' : f[1] <= attempt'
      /\ disk' # {} => Large'
  <2> DEFINE files == Names(oOut'.runs) \cup Names(eOut'.runs)
  <2>1. Spilled(files)
    BY DEF surplus
  <2>2. files \subseteq RunNames /\ \A f \in files : f[1] = attempt
    BY <1>8
  <2> HIDE DEF files
  <2> QED BY <1>4, <1>7, <2>1, <2>2, SpilledFacts
<1>10. TypeInv'
  BY <1>1, <1>5, <1>6, <1>7, <1>9, <1>20 DEF TypeInv, inputVars, Pairs
<1>11. PlaceInv'
  BY <1>4, <1>6, <1>7, <1>20 DEF PlaceInv, Judged, Joining
<1>12. ConservationInv'
  <2>1. MatchedE' = MatchedE /\ MatchedO' = MatchedO
    BY <1>7 DEF MatchedE, MatchedO
  <2>2. ASSUME NEW S
        PROVE  /\ Num(expected', S) = Num(MatchedE', S) + Num(eGroup', S) + NumIn(eAt', S) + Written(eOut', S)
               /\ Num(in'.observed, S) = Num(MatchedO', S) + Num(oGroup', S) + NumIn(oAt', S) + Written(oOut', S)
    <3>1. /\ Num(expected, S) = Num(MatchedE, S) + Num(eGroup, S) + NumIn(eAt, S) + Written(eOut, S)
          /\ Num(in.observed, S) = Num(MatchedO, S) + Num(oGroup, S) + NumIn(oAt, S) + Written(oOut, S)
      BY <1>4 DEF ConservationInv
    <3>2. One(x, S) \in Nat /\ Num(oGroup', S) \in Nat
      BY <1>5, NumOne, NumFacts
    <3>3. Num(oGroup, S) = One(x, S) + Num(oGroup', S) /\ Written(oOut', S) = Written(oOut, S) + One(x, S)
      BY <1>5, <1>6
    <3>4. Num(MatchedO, S) \in Nat /\ NumIn(oAt, S) \in Nat /\ Written(oOut, S) \in Nat
      BY NumbersFacts
    <3> QED BY <1>1, <1>7, <2>1, <3>1, <3>2, <3>3, <3>4
  <2> QED BY <1>20, <2>1, <2>2 DEF ConservationInv
<1>13. OrderInv'
  BY <1>4, <1>6, <1>7, <1>20 DEF OrderInv
<1>14. GroupInv'
  BY <1>20 DEF GroupInv
<1>15. ApartInv'
  <2>1. OpenE' = OpenE /\ OpenO' = OpenO
    BY <1>5, <1>6, <1>7 DEF OpenE, OpenO
  <2>2. \A l : BehindE(l)' = BehindE(l) /\ BehindO(l)' = BehindO(l)
    BY <1>7, <2>1 DEF BehindE, BehindO
  <2>3. \A e \in Kept(eOut), o \in OpenO : ~SameKey(level, e, o)
    BY <1>4 DEF ApartInv
  <2>4. \A o \in Members(oGroup), e \in Held(eAt) : ~SameKey(level, e, o)
    BY <1>4 DEF ApartInv
  <2>5. \A e \in OpenE : ~SameKey(level, e, x)
    <3>1. OpenE = Kept(eOut) \cup Held(eAt) /\ x \in OpenO /\ x \in Members(oGroup)
      BY <1>4, <1>5, NoLists DEF OpenE, OpenO
    <3> QED BY <2>3, <2>4, <3>1
  <2>6. \A e \in OpenE', o \in Kept(oOut') : ~SameKey(level, e, o)
    BY <1>4, <1>6, <2>1, <2>5 DEF ApartInv
  <2>7. /\ \A e \in Members(eGroup'), o \in Held(oAt') : ~SameKey(level', e, o)
        /\ \A o \in Members(oGroup'), e \in Held(eAt') : ~SameKey(level', e, o)
    BY <1>4, <1>5, <1>7, <2>4, NoLists
  <2> QED BY <1>4, <1>7, <1>20, <2>1, <2>2, <2>3, <2>6, <2>7 DEF ApartInv
<1>16. DuplicateInv'
  <2>1. \A id : Settled(id)' = Settled(id) /\ Untouched(id)' = Untouched(id)
    BY <1>1, <1>7 DEF Settled, Untouched
  <2> QED BY <1>1, <1>4, <1>7, <1>20, <2>1 DEF DuplicateInv, Judged
<1>17. ResultInv'
  BY <1>20 DEF ResultInv, Judged
<1>18. DiskInv'
  BY <1>1, <1>4, <1>6, <1>7, <1>8, <1>9, <1>20 DEF DiskInv, RunFilesHold
<1> QED BY <1>10, <1>11, <1>12, <1>13, <1>14, <1>15, <1>16, <1>17, <1>18

\* A list of one item.
LEMMA OnlyOne == ASSUME NEW U, NEW x \in U PROVE <<x>> \in Seq(U) /\ Members(<<x>>) = {x} /\ <<x>>[1] = x /\ Len(<<x>>) = 1 /\ <<x>> # <<>>
<1>1. <<x>> \in Seq(U) /\ <<x>>[1] = x /\ Len(<<x>>) = 1 /\ DOMAIN <<x>> = {1}
  OBVIOUS
<1>2. <<x>> # <<>>
  BY <1>1, EmptySeq
<1> QED BY <1>1, <1>2 DEF Members

\* The number of points with an id is a number.
LEMMA SomeWith ==
  ASSUME TypeInv, NEW id
  PROVE  Num(in.observed, With(id)) \in Nat
<1>1. in.observed \in Seq(O)
  BY InputFacts DEF TypeInv
<1> QED BY <1>1, NumFacts

\* open_group: two heads with one key.
LEMMA OpenGroupStep == ASSUME ReconcileInv, open_group PROVE ReconcileInv'
<1> USE DEF ReconcileInv
<1>1. /\ expected' = expected /\ E' = E /\ O' = O /\ in' = in /\ forced' = forced /\ given' = given
      /\ \A id : With(id)' = With(id)
      /\ Large' = Large
  BY InputStays DEF open_group
<1>2. HaveKeys(E) /\ HaveKeys(O) /\ \A z \in E \cup O : key(POINT_ID, z) = z.point_id /\ z.point_id \in Nat \ {None}
  BY InputFacts DEF TypeInv
<1>3. level \in CLOSING_LEVELS /\ eAt \in Seq(Seq(E)) /\ oAt \in Seq(Seq(O))
  BY DEF TypeInv
<1>4. /\ pc = "join" /\ Joining /\ Working /\ pc' = "group" /\ Joining' /\ Working'
      /\ eGroup = <<>> /\ oGroup = <<>> /\ Alive(eAt) # {} /\ Alive(oAt) # {}
  BY DEF open_group, Joining, Working, PlaceInv
<1>5. PICK x \in E :
        /\ x = HeadOf(eAt)
        /\ \A z \in Held(eAt) : ~sorts_before(level, z, x)
        /\ eAt' \in Seq(Seq(E))
        /\ Held(eAt) = Held(eAt') \cup {x}
        /\ \A S : NumIn(eAt, S) = One(x, S) + NumIn(eAt', S)
        /\ \A i \in DOMAIN eAt' : Ordered(level, eAt'[i])
  <2>1. eAt' = Pop(eAt)
    BY DEF open_group
  <2>2. \A i \in DOMAIN eAt : Ordered(level, eAt[i])
    BY DEF OrderInv
  <2> QED BY <1>2, <1>3, <1>4, <2>1, <2>2, HeadFacts
<1>6. PICK y \in O :
        /\ y = HeadOf(oAt)
        /\ \A z \in Held(oAt) : ~sorts_before(level, z, y)
        /\ oAt' \in Seq(Seq(O))
        /\ Held(oAt) = Held(oAt') \cup {y}
        /\ \A S : NumIn(oAt, S) = One(y, S) + NumIn(oAt', S)
        /\ \A i \in DOMAIN oAt' : Ordered(level, oAt'[i])
  <2>1. oAt' = Pop(oAt)
    BY DEF open_group
  <2>2. \A i \in DOMAIN oAt : Ordered(level, oAt[i])
    BY DEF OrderInv
  <2> QED BY <1>2, <1>3, <1>4, <2>1, <2>2, HeadFacts
<1>7. UNCHANGED <<inputVars, mode, level, es, os, eOut, oOut, matched, duplicates, disk, attempt, result, verdict>>
  BY DEF open_group, endVars
<1>8. key(level, x) = key(level, y) /\ key(level, x) # None
  BY <1>5, <1>6 DEF open_group, eKey, oKey
<1>9. /\ eGroup' = <<x>> /\ eGroup' \in Seq(E) /\ Members(eGroup') = {x} /\ eGroup'[1] = x /\ eGroup' # <<>>
      /\ oGroup' = <<y>> /\ oGroup' \in Seq(O) /\ Members(oGroup') = {y} /\ Len(oGroup') = 1 /\ oGroup' # <<>>
      /\ \A S : Num(eGroup', S) = One(x, S) /\ Num(oGroup', S) = One(y, S)
  <2>1. eGroup' = <<x>> /\ oGroup' = <<y>>
    BY <1>5, <1>6 DEF open_group
  <2>2. <<x>> \in Seq(E) /\ Members(<<x>>) = {x} /\ <<x>>[1] = x /\ <<x>> # <<>>
    BY OnlyOne
  <2>3. <<y>> \in Seq(O) /\ Members(<<y>>) = {y} /\ Len(<<y>>) = 1 /\ <<y>> # <<>>
    BY OnlyOne
  <2>4. \A S : Num(<<x>>, S) = One(x, S) /\ Num(<<y>>, S) = One(y, S)
    BY NumOne
  <2> QED BY <2>1, <2>2, <2>3, <2>4
<1>10. TypeInv'
  BY <1>1, <1>4, <1>5, <1>6, <1>7, <1>9 DEF TypeInv, inputVars, Pairs
<1>11. PlaceInv'
  BY <1>4, <1>7 DEF PlaceInv, Judged, Joining
<1>12. ConservationInv'
  <2>1. MatchedE' = MatchedE /\ MatchedO' = MatchedO
    BY <1>7 DEF MatchedE, MatchedO
  <2>2. ASSUME NEW S
        PROVE  /\ Num(expected', S) = Num(MatchedE', S) + Num(eGroup', S) + NumIn(eAt', S) + Written(eOut', S)
               /\ Num(in'.observed, S) = Num(MatchedO', S) + Num(oGroup', S) + NumIn(oAt', S) + Written(oOut', S)
    <3>1. /\ Num(expected, S) = Num(MatchedE, S) + Num(eGroup, S) + NumIn(eAt, S) + Written(eOut, S)
          /\ Num(in.observed, S) = Num(MatchedO, S) + Num(oGroup, S) + NumIn(oAt, S) + Written(oOut, S)
      BY <1>4 DEF ConservationInv
    <3>2. One(x, S) \in Nat /\ One(y, S) \in Nat /\ NumIn(eAt', S) \in Nat /\ NumIn(oAt', S) \in Nat
      BY <1>5, <1>6, NumOne, NumInHeld
    <3>3. /\ NumIn(eAt, S) = One(x, S) + NumIn(eAt', S) /\ Num(eGroup', S) = One(x, S) /\ Num(eGroup, S) = 0
          /\ NumIn(oAt, S) = One(y, S) + NumIn(oAt', S) /\ Num(oGroup', S) = One(y, S) /\ Num(oGroup, S) = 0
      BY <1>4, <1>5, <1>6, <1>9, NumOne
    <3>4. Num(MatchedE, S) \in Nat /\ Written(eOut, S) \in Nat /\ Num(MatchedO, S) \in Nat /\ Written(oOut, S) \in Nat
      BY NumbersFacts
    <3> QED BY <1>1, <1>7, <2>1, <3>1, <3>2, <3>3, <3>4
  <2> QED BY <1>4, <2>1, <2>2 DEF ConservationInv
<1>13. OrderInv'
  BY <1>4, <1>5, <1>6, <1>7 DEF OrderInv
<1>14. GroupInv'
  <2>1. GroupKey' = key(level, x)
    BY <1>7, <1>9 DEF GroupKey
  <2>2. ASSUME NEW z \in Held(eAt') \cup Held(oAt') PROVE ~sorts_before(level, z, x)
    <3>1. CASE z \in Held(eAt')
      BY <1>5, <3>1
    <3>2. CASE z \in Held(oAt')
      <4>1. ~sorts_before(level, z, y)
        BY <1>6, <3>2
      <4> QED BY <1>8, <4>1 DEF sorts_before
    <3> QED BY <3>1, <3>2
  <2> QED BY <1>4, <1>7, <1>8, <1>9, <2>1, <2>2 DEF GroupInv
<1>15. ApartInv'
  <2>1. OpenE' = OpenE /\ OpenO' = OpenO
    BY <1>4, <1>5, <1>6, <1>7, <1>9, NoLists DEF OpenE, OpenO
  <2>2. \A l : BehindE(l)' = BehindE(l) /\ BehindO(l)' = BehindO(l)
    BY <1>7, <2>1 DEF BehindE, BehindO
  <2> QED BY <1>4, <1>7, <2>1, <2>2 DEF ApartInv
<1>16. DuplicateInv'
  <2>1. \A id : Settled(id)' = Settled(id)
    BY <1>1, <1>7 DEF Settled
  <2> SUFFICES ASSUME NEW e \in E, level = POINT_ID, ~Settled(e.point_id)
               PROVE  IF GroupKey' = e.point_id
                      THEN Len(oGroup') + NumIn(oAt', With(e.point_id)) = Num(in.observed, With(e.point_id))
                      ELSE Untouched(e.point_id)'
    BY <1>1, <1>4, <1>7, <2>1 DEF DuplicateInv, Judged
  <2> DEFINE id == e.point_id
  <2>2. GroupKey' = x.point_id /\ y.point_id = x.point_id
    BY <1>2, <1>7, <1>8, <1>9 DEF GroupKey
  <2>3. Untouched(id)
    BY <1>4 DEF DuplicateInv
  <2>4. NumIn(oAt', With(id)) \in Nat
    BY <1>6, NumInHeld
  <2>5. NumIn(oAt, With(id)) = One(y, With(id)) + NumIn(oAt', With(id))
    BY <1>6
  <2>6. CASE x.point_id = id
    <3>1. One(y, With(id)) = 1
      BY <2>2, <2>6 DEF One, With
    <3> QED BY <1>9, <2>2, <2>3, <2>4, <2>5, <2>6, <3>1 DEF Untouched
  <2>7. CASE x.point_id # id
    <3>1. One(y, With(id)) = 0
      BY <2>2, <2>7 DEF One, With
    <3>2. \E d \in Held(eAt') : d.point_id = id
      BY <1>5, <2>3, <2>7 DEF Untouched
    <3>3. NumIn(oAt', With(id)) = Num(in.observed, With(id))
      BY <2>3, <2>4, <2>5, <3>1 DEF Untouched
    <3> QED BY <1>1, <2>2, <2>7, <3>2, <3>3 DEF Untouched
  <2> QED BY <2>6, <2>7
<1>17. ResultInv'
  BY <1>4 DEF ResultInv, Judged
<1>18. DiskInv'
  BY <1>1, <1>4, <1>7 DEF DiskInv, RunFilesHold
<1> QED BY <1>10, <1>11, <1>12, <1>13, <1>14, <1>15, <1>16, <1>17, <1>18

\* An item at the end of a list.
LEMMA AtTheEnd ==
  ASSUME NEW U, NEW s \in Seq(U), NEW x \in U
  PROVE  /\ Append(s, x) \in Seq(U) /\ Append(s, x) # <<>> /\ Len(Append(s, x)) = Len(s) + 1
         /\ Members(Append(s, x)) = Members(s) \cup {x}
         /\ s # <<>> => Append(s, x)[1] = s[1]
<1> DEFINE t == Append(s, x)
<1>1. /\ DOMAIN s = 1..Len(s) /\ Len(s) \in Nat /\ t \in Seq(U) /\ Len(t) = Len(s) + 1
      /\ DOMAIN t = 1..(Len(s) + 1) /\ t[Len(s) + 1] = x
      /\ \A i \in 1..Len(s) : t[i] = s[i]
  OBVIOUS
<1>2. s # <<>> => 1 \in 1..Len(s)
  <2>1. s # <<>> => Len(s) \in Nat \ {0}
    BY EmptySeq
  <2> QED BY <2>1
<1> HIDE DEF t
<1>3. \A i \in 1..(Len(s) + 1) : i = Len(s) + 1 \/ i \in 1..Len(s)
  BY <1>1
<1>4. Len(s) + 1 \in 1..(Len(s) + 1) /\ \A i \in 1..Len(s) : i \in 1..(Len(s) + 1)
  BY <1>1
<1>5. Members(t) = Members(s) \cup {x}
  BY <1>1, <1>3, <1>4 DEF Members
<1>6. t # <<>>
  BY <1>1, EmptySeq
<1> QED BY <1>1, <1>2, <1>5, <1>6 DEF t

\* grow_group: the next expected item with the group's key.
LEMMA GrowExpectedStep ==
  ASSUME ReconcileInv, pc = "group", MoreE, eGroup' = Append(eGroup, HeadOf(eAt)), eAt' = Pop(eAt),
         UNCHANGED <<oGroup, oAt, inputVars, mode, pc, level, es, os, eOut, oOut, matched, duplicates, disk, attempt, endVars>>
  PROVE  ReconcileInv'
<1> USE DEF ReconcileInv
<1>1. /\ expected' = expected /\ E' = E /\ O' = O /\ in' = in /\ forced' = forced /\ given' = given
      /\ \A id : With(id)' = With(id)
      /\ Large' = Large
  BY InputStays
<1>2. HaveKeys(E) /\ HaveKeys(O) /\ \A z \in E \cup O : key(POINT_ID, z) = z.point_id /\ z.point_id \in Nat \ {None}
  BY InputFacts DEF TypeInv
<1>3. level \in CLOSING_LEVELS /\ eAt \in Seq(Seq(E)) /\ oAt \in Seq(Seq(O)) /\ eGroup \in Seq(E)
  BY DEF TypeInv
<1>4. /\ pc = "group" /\ Joining /\ Working /\ pc' = "group" /\ Joining' /\ Working'
      /\ eGroup # <<>> /\ oGroup # <<>>
  BY DEF Joining, Working, GroupInv
<1>5. PICK x \in E :
        /\ x = HeadOf(eAt)
        /\ eAt' \in Seq(Seq(E))
        /\ Held(eAt) = Held(eAt') \cup {x}
        /\ \A S : NumIn(eAt, S) = One(x, S) + NumIn(eAt', S)
        /\ \A i \in DOMAIN eAt' : Ordered(level, eAt'[i])
  <2>1. eAt' = Pop(eAt) /\ Alive(eAt) # {}
    BY DEF MoreE
  <2>2. \A i \in DOMAIN eAt : Ordered(level, eAt[i])
    BY DEF OrderInv
  <2>3. /\ HeadOf(eAt) \in E
        /\ Pop(eAt) \in Seq(Seq(E))
        /\ Held(eAt) = Held(Pop(eAt)) \cup {HeadOf(eAt)}
        /\ \A S : NumIn(eAt, S) = One(HeadOf(eAt), S) + NumIn(Pop(eAt), S)
        /\ \A i \in DOMAIN Pop(eAt) : Ordered(level, Pop(eAt)[i])
    BY <1>2, <1>3, <2>1, <2>2, HeadFacts
  <2> QED BY <2>1, <2>3
<1>7. UNCHANGED <<inputVars, mode, level, es, os, oAt, eOut, oOut, oGroup, matched, duplicates, disk, attempt, result, verdict>>
  BY DEF endVars
<1>8. key(level, x) = GroupKey
  BY <1>5 DEF MoreE, eKey
<1>9. /\ eGroup' \in Seq(E) /\ Members(eGroup') = Members(eGroup) \cup {x}
      /\ eGroup'[1] = eGroup[1] /\ eGroup' # <<>> /\ Len(eGroup') = Len(eGroup) + 1
      /\ \A S : Num(eGroup', S) = Num(eGroup, S) + One(x, S)
  <2>1. eGroup' = Append(eGroup, x)
    BY <1>5
  <2>2. /\ Append(eGroup, x) \in Seq(E) /\ Append(eGroup, x) # <<>> /\ Len(Append(eGroup, x)) = Len(eGroup) + 1
        /\ Members(Append(eGroup, x)) = Members(eGroup) \cup {x}
        /\ Append(eGroup, x)[1] = eGroup[1]
    BY <1>3, <1>4, AtTheEnd
  <2>3. \A S : Num(Append(eGroup, x), S) = Num(eGroup, S) + One(x, S)
    BY <1>3, NumAppend
  <2> QED BY <2>1, <2>2, <2>3
<1>10. TypeInv'
  BY <1>1, <1>4, <1>5, <1>7, <1>9 DEF TypeInv, inputVars, Pairs
<1>11. PlaceInv'
  BY <1>4, <1>7 DEF PlaceInv, Judged, Joining
<1>12. ConservationInv'
  <2>1. MatchedE' = MatchedE /\ MatchedO' = MatchedO
    BY <1>7 DEF MatchedE, MatchedO
  <2>2. ASSUME NEW S
        PROVE  /\ Num(expected', S) = Num(MatchedE', S) + Num(eGroup', S) + NumIn(eAt', S) + Written(eOut', S)
               /\ Num(in'.observed, S) = Num(MatchedO', S) + Num(oGroup', S) + NumIn(oAt', S) + Written(oOut', S)
    <3>1. /\ Num(expected, S) = Num(MatchedE, S) + Num(eGroup, S) + NumIn(eAt, S) + Written(eOut, S)
          /\ Num(in.observed, S) = Num(MatchedO, S) + Num(oGroup, S) + NumIn(oAt, S) + Written(oOut, S)
      BY <1>4 DEF ConservationInv
    <3>2. One(x, S) \in Nat /\ NumIn(eAt', S) \in Nat
      BY <1>5, NumOne, NumInHeld
    <3>3. NumIn(eAt, S) = One(x, S) + NumIn(eAt', S) /\ Num(eGroup', S) = Num(eGroup, S) + One(x, S)
      BY <1>5, <1>9
    <3>4. Num(MatchedE, S) \in Nat /\ Num(eGroup, S) \in Nat /\ Written(eOut, S) \in Nat
      BY NumbersFacts
    <3> QED BY <1>1, <1>7, <2>1, <3>1, <3>2, <3>3, <3>4
  <2> QED BY <1>4, <2>1, <2>2 DEF ConservationInv
<1>13. OrderInv'
  BY <1>4, <1>5, <1>7 DEF OrderInv
<1>20. GroupKey' = GroupKey
  BY <1>7, <1>9 DEF GroupKey
<1>14. GroupInv'
  BY <1>4, <1>5, <1>7, <1>8, <1>9, <1>20 DEF GroupInv
<1>15. ApartInv'
  <2>1. OpenE' = OpenE /\ OpenO' = OpenO
    BY <1>5, <1>7, <1>9 DEF OpenE, OpenO
  <2>2. \A l : BehindE(l)' = BehindE(l) /\ BehindO(l)' = BehindO(l)
    BY <1>7, <2>1 DEF BehindE, BehindO
  <2> QED BY <1>4, <1>7, <2>1, <2>2 DEF ApartInv
<1>16. DuplicateInv'
  <2>1. \A id : Settled(id)' = Settled(id)
    BY <1>1, <1>7 DEF Settled
  <2> SUFFICES ASSUME NEW e \in E, level = POINT_ID, GroupKey # e.point_id, Untouched(e.point_id)
               PROVE  Untouched(e.point_id)'
    BY <1>1, <1>4, <1>7, <1>20, <2>1 DEF DuplicateInv, Judged
  <2>2. x.point_id # e.point_id
    BY <1>2, <1>8
  <2> QED BY <1>1, <1>5, <1>7, <2>2 DEF Untouched
<1>17. ResultInv'
  BY <1>4 DEF ResultInv, Judged
<1>18. DiskInv'
  BY <1>1, <1>4, <1>7 DEF DiskInv, RunFilesHold
<1> QED BY <1>10, <1>11, <1>12, <1>13, <1>14, <1>15, <1>16, <1>17, <1>18

\* grow_group: and the next observed item with it.
LEMMA GrowObservedStep ==
  ASSUME ReconcileInv, pc = "group", MoreO, oGroup' = Append(oGroup, HeadOf(oAt)), oAt' = Pop(oAt),
         UNCHANGED <<eGroup, eAt, inputVars, mode, pc, level, os, es, oOut, eOut, matched, duplicates, disk, attempt, endVars>>
  PROVE  ReconcileInv'
<1> USE DEF ReconcileInv
<1>1. /\ expected' = expected /\ E' = E /\ O' = O /\ in' = in /\ forced' = forced /\ given' = given
      /\ \A id : With(id)' = With(id)
      /\ Large' = Large
  BY InputStays
<1>2. HaveKeys(O) /\ HaveKeys(E) /\ \A z \in O \cup E : key(POINT_ID, z) = z.point_id /\ z.point_id \in Nat \ {None}
  BY InputFacts DEF TypeInv
<1>3. level \in CLOSING_LEVELS /\ oAt \in Seq(Seq(O)) /\ eAt \in Seq(Seq(E)) /\ oGroup \in Seq(O)
  BY DEF TypeInv
<1>4. /\ pc = "group" /\ Joining /\ Working /\ pc' = "group" /\ Joining' /\ Working'
      /\ oGroup # <<>> /\ eGroup # <<>>
  BY DEF Joining, Working, GroupInv
<1>5. PICK x \in O :
        /\ x = HeadOf(oAt)
        /\ oAt' \in Seq(Seq(O))
        /\ Held(oAt) = Held(oAt') \cup {x}
        /\ \A S : NumIn(oAt, S) = One(x, S) + NumIn(oAt', S)
        /\ \A i \in DOMAIN oAt' : Ordered(level, oAt'[i])
  <2>1. oAt' = Pop(oAt) /\ Alive(oAt) # {}
    BY DEF MoreO
  <2>2. \A i \in DOMAIN oAt : Ordered(level, oAt[i])
    BY DEF OrderInv
  <2>3. /\ HeadOf(oAt) \in O
        /\ Pop(oAt) \in Seq(Seq(O))
        /\ Held(oAt) = Held(Pop(oAt)) \cup {HeadOf(oAt)}
        /\ \A S : NumIn(oAt, S) = One(HeadOf(oAt), S) + NumIn(Pop(oAt), S)
        /\ \A i \in DOMAIN Pop(oAt) : Ordered(level, Pop(oAt)[i])
    BY <1>2, <1>3, <2>1, <2>2, HeadFacts
  <2> QED BY <2>1, <2>3
<1>7. UNCHANGED <<inputVars, mode, level, os, es, eAt, oOut, eOut, eGroup, matched, duplicates, disk, attempt, result, verdict>>
  BY DEF endVars
<1>8. key(level, x) = GroupKey
  BY <1>5 DEF MoreO, oKey
<1>9. /\ oGroup' \in Seq(O) /\ Members(oGroup') = Members(oGroup) \cup {x}
      /\ oGroup'[1] = oGroup[1] /\ oGroup' # <<>> /\ Len(oGroup') = Len(oGroup) + 1
      /\ \A S : Num(oGroup', S) = Num(oGroup, S) + One(x, S)
  <2>1. oGroup' = Append(oGroup, x)
    BY <1>5
  <2>2. /\ Append(oGroup, x) \in Seq(O) /\ Append(oGroup, x) # <<>> /\ Len(Append(oGroup, x)) = Len(oGroup) + 1
        /\ Members(Append(oGroup, x)) = Members(oGroup) \cup {x}
        /\ Append(oGroup, x)[1] = oGroup[1]
    BY <1>3, <1>4, AtTheEnd
  <2>3. \A S : Num(Append(oGroup, x), S) = Num(oGroup, S) + One(x, S)
    BY <1>3, NumAppend
  <2> QED BY <2>1, <2>2, <2>3
<1>10. TypeInv'
  BY <1>1, <1>4, <1>5, <1>7, <1>9 DEF TypeInv, inputVars, Pairs
<1>11. PlaceInv'
  BY <1>4, <1>7 DEF PlaceInv, Judged, Joining
<1>12. ConservationInv'
  <2>1. MatchedE' = MatchedE /\ MatchedO' = MatchedO
    BY <1>7 DEF MatchedE, MatchedO
  <2>2. ASSUME NEW S
        PROVE  /\ Num(expected', S) = Num(MatchedE', S) + Num(eGroup', S) + NumIn(eAt', S) + Written(eOut', S)
               /\ Num(in'.observed, S) = Num(MatchedO', S) + Num(oGroup', S) + NumIn(oAt', S) + Written(oOut', S)
    <3>1. /\ Num(expected, S) = Num(MatchedE, S) + Num(eGroup, S) + NumIn(eAt, S) + Written(eOut, S)
          /\ Num(in.observed, S) = Num(MatchedO, S) + Num(oGroup, S) + NumIn(oAt, S) + Written(oOut, S)
      BY <1>4 DEF ConservationInv
    <3>2. One(x, S) \in Nat /\ NumIn(oAt', S) \in Nat
      BY <1>5, NumOne, NumInHeld
    <3>3. NumIn(oAt, S) = One(x, S) + NumIn(oAt', S) /\ Num(oGroup', S) = Num(oGroup, S) + One(x, S)
      BY <1>5, <1>9
    <3>4. Num(MatchedO, S) \in Nat /\ Num(oGroup, S) \in Nat /\ Written(oOut, S) \in Nat
      BY NumbersFacts
    <3> QED BY <1>1, <1>7, <2>1, <3>1, <3>2, <3>3, <3>4
  <2> QED BY <1>4, <2>1, <2>2 DEF ConservationInv
<1>13. OrderInv'
  BY <1>4, <1>5, <1>7 DEF OrderInv
<1>20. GroupKey' = GroupKey
  BY <1>7 DEF GroupKey
<1>14. GroupInv'
  BY <1>4, <1>5, <1>7, <1>8, <1>9, <1>20 DEF GroupInv
<1>15. ApartInv'
  <2>1. OpenE' = OpenE /\ OpenO' = OpenO
    BY <1>5, <1>7, <1>9 DEF OpenE, OpenO
  <2>2. \A l : BehindE(l)' = BehindE(l) /\ BehindO(l)' = BehindO(l)
    BY <1>7, <2>1 DEF BehindE, BehindO
  <2> QED BY <1>4, <1>7, <2>1, <2>2 DEF ApartInv
<1>16. DuplicateInv'
  <2>1. \A id : Settled(id)' = Settled(id)
    BY <1>1, <1>7 DEF Settled
  <2> SUFFICES ASSUME NEW e \in E, level = POINT_ID, ~Settled(e.point_id)
               PROVE  IF GroupKey = e.point_id
                      THEN Len(oGroup') + NumIn(oAt', With(e.point_id)) = Num(in.observed, With(e.point_id))
                      ELSE Untouched(e.point_id)'
    BY <1>1, <1>4, <1>7, <1>20, <2>1 DEF DuplicateInv, Judged
  <2> DEFINE id == e.point_id
  <2>2. x.point_id = GroupKey
    BY <1>2, <1>8
  <2>3. NumIn(oAt', With(id)) \in Nat /\ Len(oGroup) \in Nat
    BY <1>3, <1>5, NumInHeld
  <2>4. NumIn(oAt, With(id)) = One(x, With(id)) + NumIn(oAt', With(id))
    BY <1>5
  <2>5. CASE GroupKey = id
    <3>1. Len(oGroup) + NumIn(oAt, With(id)) = Num(in.observed, With(id))
      BY <1>4, <2>5 DEF DuplicateInv
    <3>2. One(x, With(id)) = 1
      BY <2>2, <2>5 DEF One, With
    <3> QED BY <1>9, <2>3, <2>4, <2>5, <3>1, <3>2
  <2>6. CASE GroupKey # id
    <3>1. Untouched(id)
      BY <1>4, <2>6 DEF DuplicateInv
    <3>2. One(x, With(id)) = 0
      BY <2>2, <2>6 DEF One, With
    <3>3. NumIn(oAt', With(id)) = NumIn(oAt, With(id))
      BY <2>3, <2>4, <3>2
    <3> QED BY <1>1, <1>7, <2>6, <3>1, <3>3 DEF Untouched
  <2> QED BY <2>5, <2>6
<1>17. ResultInv'
  BY <1>4 DEF ResultInv, Judged
<1>18. DiskInv'
  BY <1>1, <1>4, <1>7 DEF DiskInv, RunFilesHold
<1> QED BY <1>10, <1>11, <1>12, <1>13, <1>14, <1>15, <1>16, <1>17, <1>18

\* What two lists pair up, first with first.
Paired(l, s, t, n) == [i \in 1..n |-> [expected |-> s[i], observed |-> t[i], level |-> l]]

LEMMA PairedFacts ==
  ASSUME NEW l \in CLOSING_LEVELS, NEW s \in Seq(E), NEW t \in Seq(O),
         NEW n \in Nat, n <= Len(s), n <= Len(t)
  PROVE  /\ Paired(l, s, t, n) \in Seq(Pairs) /\ Len(Paired(l, s, t, n)) = n
         /\ \A i \in 1..n : Paired(l, s, t, n)[i].expected = s[i] /\ Paired(l, s, t, n)[i].observed = t[i]
         /\ \A p \in Members(Paired(l, s, t, n)) :
              p.expected \in Members(s) /\ p.observed \in Members(t) /\ p.level = l
<1> DEFINE q == Paired(l, s, t, n)
<1>1. \A i \in 1..n : i \in DOMAIN s /\ i \in DOMAIN t /\ s[i] \in E /\ t[i] \in O
  OBVIOUS
<1>2. DOMAIN q = 1..n /\ \A i \in 1..n : q[i] = [expected |-> s[i], observed |-> t[i], level |-> l]
  BY DEF Paired
<1>3. q = [i \in 1..n |-> q[i]]
  BY DEF Paired
<1> HIDE DEF q
<1>4. \A i \in 1..n : q[i] \in Pairs /\ q[i].expected = s[i] /\ q[i].observed = t[i] /\ q[i].level = l
  BY <1>1, <1>2 DEF Pairs
<1>5. q \in Seq(Pairs) /\ Len(q) = n
  <2> HIDE DEF Pairs
  <2> QED BY <1>2, <1>3, <1>4
<1>6. \A p \in Members(q) : p.expected \in Members(s) /\ p.observed \in Members(t) /\ p.level = l
  BY <1>1, <1>2, <1>4 DEF Members
<1> QED BY <1>4, <1>5, <1>6 DEF q

\* A list with another behind it, item by item.
LEMMA Behind ==
  ASSUME NEW U, NEW s \in Seq(U), NEW t \in Seq(U)
  PROVE  /\ s \o t \in Seq(U) /\ Len(s \o t) = Len(s) + Len(t)
         /\ \A i \in 1..Len(s) : (s \o t)[i] = s[i]
         /\ \A i \in 1..Len(t) : (s \o t)[Len(s) + i] = t[i]
         /\ Members(s \o t) = Members(s) \cup Members(t)
<1> DEFINE u == s \o t
<1>1. Len(s) \in Nat /\ Len(t) \in Nat /\ DOMAIN s = 1..Len(s) /\ DOMAIN t = 1..Len(t)
  OBVIOUS
<1>2. u \in Seq(U) /\ Len(u) = Len(s) + Len(t) /\ DOMAIN u = 1..(Len(s) + Len(t))
      /\ \A i \in 1..(Len(s) + Len(t)) : u[i] = IF i <= Len(s) THEN s[i] ELSE t[i - Len(s)]
  BY ConcatProperties
<1> HIDE DEF u
<1>3. ASSUME NEW i \in 1..Len(s) PROVE i \in 1..(Len(s) + Len(t)) /\ u[i] = s[i]
  BY <1>1, <1>2
<1>4. ASSUME NEW i \in 1..Len(t) PROVE Len(s) + i \in 1..(Len(s) + Len(t)) /\ u[Len(s) + i] = t[i]
  <2>1. Len(s) + i \in 1..(Len(s) + Len(t)) /\ ~(Len(s) + i <= Len(s)) /\ (Len(s) + i) - Len(s) = i
    BY <1>1
  <2> QED BY <1>2, <2>1
<1>5. ASSUME NEW i \in 1..(Len(s) + Len(t)) PROVE i \in 1..Len(s) \/ \E j \in 1..Len(t) : i = Len(s) + j
  <2>1. CASE i <= Len(s)
    BY <1>1, <2>1
  <2>2. CASE ~(i <= Len(s))
    <3>1. i - Len(s) \in 1..Len(t) /\ i = Len(s) + (i - Len(s))
      BY <1>1, <2>2
    <3> QED BY <3>1
  <2> QED BY <2>1, <2>2
<1>6. Members(u) = Members(s) \cup Members(t)
  <2>1. ASSUME NEW x \in Members(u) PROVE x \in Members(s) \cup Members(t)
    <3>1. PICK i \in 1..(Len(s) + Len(t)) : x = u[i]
      BY <1>2 DEF Members
    <3> QED BY <1>1, <1>3, <1>4, <1>5, <3>1 DEF Members
  <2>2. ASSUME NEW x \in Members(s) PROVE x \in Members(u)
    <3>1. PICK i \in 1..Len(s) : x = s[i]
      BY <1>1 DEF Members
    <3>2. i \in DOMAIN u /\ u[i] = x
      BY <1>2, <1>3, <3>1
    <3> QED BY <3>2 DEF Members
  <2>3. ASSUME NEW x \in Members(t) PROVE x \in Members(u)
    <3>1. PICK i \in 1..Len(t) : x = t[i]
      BY <1>1 DEF Members
    <3>2. Len(s) + i \in DOMAIN u /\ u[Len(s) + i] = x
      BY <1>2, <1>4, <3>1
    <3> QED BY <3>2 DEF Members
  <2> QED BY <2>1, <2>2, <2>3
<1> QED BY <1>2, <1>3, <1>4, <1>6 DEF u

\* What is left of a list has its items.
LEMMA RestMembers ==
  ASSUME NEW U, NEW s \in Seq(U), NEW n \in 0..Len(s)
  PROVE  Members(SubSeq(s, n + 1, Len(s))) \subseteq Members(s)
<1> DEFINE r == SubSeq(s, n + 1, Len(s))
<1>1. Len(s) \in Nat /\ n \in Nat
  OBVIOUS
<1>2. r \in Seq(U) /\ Len(r) = Len(s) - n /\ \A i \in 1..(Len(s) - n) : r[i] = s[n + i]
  BY <1>1
<1> HIDE DEF r
<1>3. DOMAIN r = 1..(Len(s) - n) /\ DOMAIN s = 1..Len(s)
  BY <1>1, <1>2
<1>4. \A i \in 1..(Len(s) - n) : n + i \in 1..Len(s)
  BY <1>1
<1>5. Members(r) \subseteq Members(s)
  BY <1>2, <1>3, <1>4 DEF Members
<1> QED BY <1>5 DEF r

\* What one step of close_group pairs is matched, in order, behind the rest.
LEMMA MoreMatched ==
  ASSUME TypeInv, NEW n \in Nat, n <= Len(eGroup), n <= Len(oGroup),
         matched' = matched \o Paired(level, eGroup, oGroup, n)
  PROVE  /\ matched' \in Seq(Pairs)
         /\ \A p \in Members(matched') :
              \/ p \in Members(matched)
              \/ p.expected \in Members(eGroup) /\ p.observed \in Members(oGroup) /\ p.level = level
         /\ Members(matched) \subseteq Members(matched')
         /\ MatchedE' = MatchedE \o SubSeq(eGroup, 1, n)
         /\ MatchedO' = MatchedO \o SubSeq(oGroup, 1, n)
<1>1. level \in CLOSING_LEVELS /\ eGroup \in Seq(E) /\ oGroup \in Seq(O) /\ matched \in Seq(Pairs)
  BY DEF TypeInv
<1>2. PICK q \in Seq(Pairs) :
        /\ q = Paired(level, eGroup, oGroup, n) /\ Len(q) = n
        /\ \A i \in 1..n : q[i].expected = eGroup[i] /\ q[i].observed = oGroup[i]
        /\ \A p \in Members(q) : p.expected \in Members(eGroup) /\ p.observed \in Members(oGroup) /\ p.level = level
  BY <1>1, PairedFacts
<1> DEFINE m == Len(matched)
<1>3. m \in Nat
  BY <1>1
<1>4. /\ matched' \in Seq(Pairs) /\ Len(matched') = m + n
      /\ \A i \in 1..m : matched'[i] = matched[i]
      /\ \A i \in 1..n : matched'[m + i] = q[i]
      /\ Members(matched') = Members(matched) \cup Members(q)
  BY <1>1, <1>2, Behind
<1>5. DOMAIN matched' = 1..(m + n) /\ DOMAIN matched = 1..m
  <2> HIDE DEF Pairs
  <2> QED BY <1>1, <1>4
<1>6. /\ MatchedE \in Seq(E) /\ Len(MatchedE) = m /\ MatchedO \in Seq(O) /\ Len(MatchedO) = m
      /\ \A i \in 1..m : MatchedE[i] = matched[i].expected /\ MatchedO[i] = matched[i].observed
  BY <1>5, MatchedFacts DEF MatchedE, MatchedO
<1>7. /\ MatchedE' = [i \in 1..(m + n) |-> matched'[i].expected]
      /\ MatchedO' = [i \in 1..(m + n) |-> matched'[i].observed]
  BY <1>5 DEF MatchedE, MatchedO
<1>8. \A i \in 1..m : i \in 1..(m + n)
  BY <1>3
<1>9. \A i \in 1..n : m + i \in 1..(m + n)
  BY <1>3
<1>10. \A i \in 1..(m + n) : i \in 1..m \/ \E j \in 1..n : i = m + j
  <2> SUFFICES ASSUME NEW i \in 1..(m + n), i \notin 1..m PROVE \E j \in 1..n : i = m + j
    OBVIOUS
  <2>1. i - m \in 1..n /\ i = m + (i - m)
    BY <1>3
  <2> QED BY <2>1
<1>11. MatchedE' = MatchedE \o SubSeq(eGroup, 1, n)
  <2> DEFINE c == SubSeq(eGroup, 1, n)
             b == MatchedE \o c
  <2>1. c \in Seq(E) /\ Len(c) = n /\ \A i \in 1..n : c[i] = eGroup[i]
    BY <1>1
  <2> HIDE DEF c
  <2>6. MatchedE \in Seq(E)
    BY <1>6
  <2>7. b \in Seq(E) /\ Len(b) = Len(MatchedE) + Len(c)
    BY <2>1, <2>6, Behind
  <2>8. \A i \in 1..Len(MatchedE) : b[i] = MatchedE[i]
    BY <2>1, <2>6, Behind
  <2>9. \A i \in 1..Len(c) : b[Len(MatchedE) + i] = c[i]
    BY <2>1, <2>6, Behind
  <2> HIDE DEF b
  <2>2. b \in Seq(E) /\ Len(b) = m + n /\ (\A i \in 1..m : b[i] = MatchedE[i]) /\ \A i \in 1..n : b[m + i] = c[i]
    BY <1>6, <2>1, <2>7, <2>8, <2>9
  <2>3. ASSUME NEW i \in 1..(m + n) PROVE b[i] = matched'[i].expected
    <3>1. CASE i \in 1..m
      BY <1>4, <1>6, <2>2, <3>1
    <3>2. CASE \E j \in 1..n : i = m + j
      <4>1. PICK j \in 1..n : i = m + j
        BY <3>2
      <4>2. b[m + j] = c[j] /\ c[j] = eGroup[j]
        BY <2>1, <2>2
      <4>3. matched'[m + j] = q[j] /\ q[j].expected = eGroup[j]
        BY <1>2, <1>4
      <4> QED BY <4>1, <4>2, <4>3, Zenon
    <3> QED BY <1>10, <3>1, <3>2
  <2>4. DOMAIN b = 1..(m + n) /\ b = [i \in 1..(m + n) |-> b[i]]
    BY <2>2
  <2>5. b = [i \in 1..(m + n) |-> matched'[i].expected]
    BY <2>3, <2>4
  <2> QED BY <1>7, <2>5 DEF b, c
<1>12. MatchedO' = MatchedO \o SubSeq(oGroup, 1, n)
  <2> DEFINE c == SubSeq(oGroup, 1, n)
             b == MatchedO \o c
  <2>1. c \in Seq(O) /\ Len(c) = n /\ \A i \in 1..n : c[i] = oGroup[i]
    BY <1>1
  <2> HIDE DEF c
  <2>6. MatchedO \in Seq(O)
    BY <1>6
  <2>7. b \in Seq(O) /\ Len(b) = Len(MatchedO) + Len(c)
    BY <2>1, <2>6, Behind
  <2>8. \A i \in 1..Len(MatchedO) : b[i] = MatchedO[i]
    BY <2>1, <2>6, Behind
  <2>9. \A i \in 1..Len(c) : b[Len(MatchedO) + i] = c[i]
    BY <2>1, <2>6, Behind
  <2> HIDE DEF b
  <2>2. b \in Seq(O) /\ Len(b) = m + n /\ (\A i \in 1..m : b[i] = MatchedO[i]) /\ \A i \in 1..n : b[m + i] = c[i]
    BY <1>6, <2>1, <2>7, <2>8, <2>9
  <2>3. ASSUME NEW i \in 1..(m + n) PROVE b[i] = matched'[i].observed
    <3>1. CASE i \in 1..m
      BY <1>4, <1>6, <2>2, <3>1
    <3>2. CASE \E j \in 1..n : i = m + j
      <4>1. PICK j \in 1..n : i = m + j
        BY <3>2
      <4>2. b[m + j] = c[j] /\ c[j] = oGroup[j]
        BY <2>1, <2>2
      <4>3. matched'[m + j] = q[j] /\ q[j].observed = oGroup[j]
        BY <1>2, <1>4
      <4> QED BY <4>1, <4>2, <4>3, Zenon
    <3> QED BY <1>10, <3>1, <3>2
  <2>4. DOMAIN b = 1..(m + n) /\ b = [i \in 1..(m + n) |-> b[i]]
    BY <2>2
  <2>5. b = [i \in 1..(m + n) |-> matched'[i].observed]
    BY <2>3, <2>4
  <2> QED BY <1>7, <2>5 DEF b, c
<1> QED BY <1>2, <1>4, <1>11, <1>12

\* close_group: the items of a group are matched, first with first.
LEMMA CloseGroupStep == ASSUME ReconcileInv, close_group PROVE ReconcileInv'
<1> USE DEF ReconcileInv
<1>1. /\ expected' = expected /\ E' = E /\ O' = O /\ in' = in /\ forced' = forced /\ given' = given
      /\ \A id : With(id)' = With(id)
      /\ Large' = Large
  BY InputStays DEF close_group
<1>2. HaveKeys(E) /\ HaveKeys(O) /\ \A z \in E \cup O : key(POINT_ID, z) = z.point_id /\ z.point_id \in Nat \ {None}
  BY InputFacts DEF TypeInv
<1>3. level \in CLOSING_LEVELS /\ eAt \in Seq(Seq(E)) /\ oAt \in Seq(Seq(O)) /\ eGroup \in Seq(E) /\ oGroup \in Seq(O)
  BY DEF TypeInv
<1>4. /\ pc = "group" /\ Joining /\ Working
      /\ eGroup # <<>> /\ oGroup # <<>> /\ GroupKey # None
      /\ \A z \in Members(eGroup) \cup Members(oGroup) : key(level, z) = GroupKey
      /\ \A z \in Held(eAt) \cup Held(oAt) : ~sorts_before(level, z, eGroup[1])
      /\ ~MoreE /\ ~MoreO
  BY DEF close_group, Joining, Working, GroupInv
<1>7. UNCHANGED <<inputVars, mode, level, es, os, eAt, oAt, eOut, oOut, disk, attempt, result, verdict>>
  BY DEF close_group, runVars, endVars
<1>5. PICK n \in Nat :
        /\ n <= Len(eGroup) /\ n <= Len(oGroup) /\ (n = Len(eGroup) \/ n = Len(oGroup))
        /\ matched' = matched \o Paired(level, eGroup, oGroup, n)
        /\ eGroup' = SubSeq(eGroup, n + 1, Len(eGroup))
        /\ oGroup' = SubSeq(oGroup, n + 1, Len(oGroup))
        /\ duplicates' = IF Len(oGroup) > 1
                         THEN duplicates \cup {[level |-> level, key |-> GroupKey]} ELSE duplicates
        /\ pc' = IF Len(eGroup) = Len(oGroup) THEN "join" ELSE "surplus"
  <2> DEFINE n == Lesser(Len(eGroup), Len(oGroup))
  <2>1. n \in Nat /\ n <= Len(eGroup) /\ n <= Len(oGroup) /\ (n = Len(eGroup) \/ n = Len(oGroup))
    BY <1>3 DEF Lesser
  <2>2. /\ matched' = matched \o Paired(level, eGroup, oGroup, n)
        /\ eGroup' = SubSeq(eGroup, n + 1, Len(eGroup))
        /\ oGroup' = SubSeq(oGroup, n + 1, Len(oGroup))
        /\ duplicates' = IF Len(oGroup) > 1
                         THEN duplicates \cup {[level |-> level, key |-> GroupKey]} ELSE duplicates
        /\ pc' = IF Len(eGroup) = Len(oGroup) THEN "join" ELSE "surplus"
    BY DEF close_group, Paired
  <2> HIDE DEF n
  <2> QED BY <2>1, <2>2
<1>6. /\ matched' \in Seq(Pairs)
      /\ \A p \in Members(matched') :
           \/ p \in Members(matched)
           \/ p.expected \in Members(eGroup) /\ p.observed \in Members(oGroup) /\ p.level = level
      /\ Members(matched) \subseteq Members(matched')
      /\ MatchedE' = MatchedE \o SubSeq(eGroup, 1, n)
      /\ MatchedO' = MatchedO \o SubSeq(oGroup, 1, n)
  BY <1>5, MoreMatched
<1>8. /\ eGroup' \in Seq(E) /\ Len(eGroup') = Len(eGroup) - n /\ Members(eGroup') \subseteq Members(eGroup)
      /\ SubSeq(eGroup, 1, n) \in Seq(E)
      /\ \A S : Num(eGroup, S) = Num(SubSeq(eGroup, 1, n), S) + Num(eGroup', S)
  <2>1. n \in 0..Len(eGroup)
    BY <1>3, <1>5
  <2>2. Members(SubSeq(eGroup, n + 1, Len(eGroup))) \subseteq Members(eGroup)
    BY <1>3, <2>1, RestMembers
  <2>3. ASSUME NEW S
        PROVE  /\ SubSeq(eGroup, 1, n) \in Seq(E) /\ SubSeq(eGroup, n + 1, Len(eGroup)) \in Seq(E)
               /\ Len(SubSeq(eGroup, n + 1, Len(eGroup))) = Len(eGroup) - n
               /\ Num(eGroup, S) = Num(SubSeq(eGroup, 1, n), S) + Num(SubSeq(eGroup, n + 1, Len(eGroup)), S)
    BY <1>3, <2>1, NumCut
  <2> QED BY <1>5, <2>2, <2>3
<1>9. /\ oGroup' \in Seq(O) /\ Len(oGroup') = Len(oGroup) - n /\ Members(oGroup') \subseteq Members(oGroup)
      /\ SubSeq(oGroup, 1, n) \in Seq(O)
      /\ \A S : Num(oGroup, S) = Num(SubSeq(oGroup, 1, n), S) + Num(oGroup', S)
  <2>1. n \in 0..Len(oGroup)
    BY <1>3, <1>5
  <2>2. Members(SubSeq(oGroup, n + 1, Len(oGroup))) \subseteq Members(oGroup)
    BY <1>3, <2>1, RestMembers
  <2>3. ASSUME NEW S
        PROVE  /\ SubSeq(oGroup, 1, n) \in Seq(O) /\ SubSeq(oGroup, n + 1, Len(oGroup)) \in Seq(O)
               /\ Len(SubSeq(oGroup, n + 1, Len(oGroup))) = Len(oGroup) - n
               /\ Num(oGroup, S) = Num(SubSeq(oGroup, 1, n), S) + Num(SubSeq(oGroup, n + 1, Len(oGroup)), S)
    BY <1>3, <2>1, NumCut
  <2> QED BY <1>5, <2>2, <2>3
<1>20. /\ pc' \in {"join", "surplus"} /\ Joining' /\ Working'
       /\ pc' = "join" => eGroup' = <<>> /\ oGroup' = <<>>
       /\ pc' = "surplus" => (eGroup' = <<>> /\ oGroup' # <<>>) \/ (oGroup' = <<>> /\ eGroup' # <<>>)
  <2>1. pc' \in {"join", "surplus"} /\ Joining' /\ Working'
    BY <1>5 DEF Joining, Working
  <2>2. (eGroup' = <<>> <=> Len(eGroup') = 0) /\ (oGroup' = <<>> <=> Len(oGroup') = 0)
    BY <1>8, <1>9, EmptySeq
  <2>3. Len(eGroup) \in Nat /\ Len(oGroup) \in Nat
    BY <1>3
  <2>4. Len(eGroup') = Len(eGroup) - n /\ Len(oGroup') = Len(oGroup) - n
    BY <1>8, <1>9
  <2> QED BY <1>5, <2>1, <2>2, <2>3, <2>4
<1>21. /\ \A o \in Held(oAt) : key(level, o) # GroupKey
       /\ \A e \in Held(eAt) : key(level, e) # GroupKey
  <2>1. eGroup[1] \in E /\ eGroup[1] \in Members(eGroup)
    <3>1. 1 \in DOMAIN eGroup
      BY <1>3, <1>4
    <3> QED BY <1>3, <3>1 DEF Members
  <2>2. GroupKey \in Nat \ {None} /\ key(level, eGroup[1]) = GroupKey
    BY <1>2, <1>3, <1>4, <2>1 DEF HaveKeys
  <2>3. \A o \in Held(oAt) : key(level, o) # GroupKey
    <3>1. ASSUME Alive(oAt) # {} PROVE key(level, HeadOf(oAt)) = None \/ GroupKey < key(level, HeadOf(oAt))
      <4>1. HeadOf(oAt) \in Held(oAt) /\ HeadOf(oAt) \in O
        <5>1. \A i \in DOMAIN oAt : Ordered(level, oAt[i])
          BY DEF OrderInv
        <5> QED BY <1>2, <1>3, <3>1, <5>1, HeadFacts
      <4>2. key(level, HeadOf(oAt)) # GroupKey
        BY <1>4, <3>1 DEF MoreO, oKey
      <4>3. key(level, HeadOf(oAt)) \in Nat /\ ~sorts_before(level, HeadOf(oAt), eGroup[1])
        BY <1>2, <1>3, <1>4, <4>1 DEF HaveKeys
      <4> DEFINE h == HeadOf(oAt)
      <4> HIDE DEF h
      <4>4. key(level, h) # GroupKey /\ key(level, h) \in Nat /\ ~sorts_before(level, h, eGroup[1])
        BY <4>2, <4>3 DEF h
      <4> QED BY <2>2, <4>4 DEF sorts_before, h
    <3>2. \A i \in DOMAIN oAt : Ordered(level, oAt[i])
      BY DEF OrderInv
    <3> DEFINE k == GroupKey
    <3>3. k \in Nat \ {None} /\ (Alive(oAt) # {} => key(level, HeadOf(oAt)) = None \/ k < key(level, HeadOf(oAt)))
      BY <2>2, <3>1
    <3> HIDE DEF k
    <3>4. \A o \in Held(oAt) : key(level, o) # k
      BY <1>2, <1>3, <3>2, <3>3, LeastKey
    <3> QED BY <3>4 DEF k
  <2>4. \A e \in Held(eAt) : key(level, e) # GroupKey
    <3>1. ASSUME Alive(eAt) # {} PROVE key(level, HeadOf(eAt)) = None \/ GroupKey < key(level, HeadOf(eAt))
      <4>1. HeadOf(eAt) \in Held(eAt) /\ HeadOf(eAt) \in E
        <5>1. \A i \in DOMAIN eAt : Ordered(level, eAt[i])
          BY DEF OrderInv
        <5> QED BY <1>2, <1>3, <3>1, <5>1, HeadFacts
      <4>2. key(level, HeadOf(eAt)) # GroupKey
        BY <1>4, <3>1 DEF MoreE, eKey
      <4>3. key(level, HeadOf(eAt)) \in Nat /\ ~sorts_before(level, HeadOf(eAt), eGroup[1])
        BY <1>2, <1>3, <1>4, <4>1 DEF HaveKeys
      <4> DEFINE h == HeadOf(eAt)
      <4> HIDE DEF h
      <4>4. key(level, h) # GroupKey /\ key(level, h) \in Nat /\ ~sorts_before(level, h, eGroup[1])
        BY <4>2, <4>3 DEF h
      <4> QED BY <2>2, <4>4 DEF sorts_before, h
    <3>2. \A i \in DOMAIN eAt : Ordered(level, eAt[i])
      BY DEF OrderInv
    <3> DEFINE k == GroupKey
    <3>3. k \in Nat \ {None} /\ (Alive(eAt) # {} => key(level, HeadOf(eAt)) = None \/ k < key(level, HeadOf(eAt)))
      BY <2>2, <3>1
    <3> HIDE DEF k
    <3>4. \A e \in Held(eAt) : key(level, e) # k
      BY <1>2, <1>3, <3>2, <3>3, LeastKey
    <3> QED BY <3>4 DEF k
  <2> QED BY <2>3, <2>4
<1>10. TypeInv'
  BY <1>1, <1>6, <1>7, <1>8, <1>9, <1>20 DEF TypeInv, inputVars, Pairs
<1>11. PlaceInv'
  BY <1>4, <1>7, <1>20 DEF PlaceInv, Judged, Joining
<1>12. ConservationInv'
  <2>2. ASSUME NEW S
        PROVE  /\ Num(expected', S) = Num(MatchedE', S) + Num(eGroup', S) + NumIn(eAt', S) + Written(eOut', S)
               /\ Num(in'.observed, S) = Num(MatchedO', S) + Num(oGroup', S) + NumIn(oAt', S) + Written(oOut', S)
    <3>1. /\ Num(expected, S) = Num(MatchedE, S) + Num(eGroup, S) + NumIn(eAt, S) + Written(eOut, S)
          /\ Num(in.observed, S) = Num(MatchedO, S) + Num(oGroup, S) + NumIn(oAt, S) + Written(oOut, S)
      BY <1>4 DEF ConservationInv
    <3>2. /\ Num(eGroup', S) \in Nat /\ Num(SubSeq(eGroup, 1, n), S) \in Nat
          /\ Num(oGroup', S) \in Nat /\ Num(SubSeq(oGroup, 1, n), S) \in Nat
      BY <1>8, <1>9, NumFacts
    <3>3. /\ Num(MatchedE', S) = Num(MatchedE, S) + Num(SubSeq(eGroup, 1, n), S)
          /\ Num(MatchedO', S) = Num(MatchedO, S) + Num(SubSeq(oGroup, 1, n), S)
      <4>1. MatchedE \in Seq(E) /\ MatchedO \in Seq(O)
        BY MatchedFacts
      <4>2. Num(MatchedE \o SubSeq(eGroup, 1, n), S) = Num(MatchedE, S) + Num(SubSeq(eGroup, 1, n), S)
        <5> DEFINE c == SubSeq(eGroup, 1, n)
        <5>1. c \in Seq(E)
          BY <1>8
        <5> HIDE DEF c
        <5>2. Num(MatchedE \o c, S) = Num(MatchedE, S) + Num(c, S)
          BY <4>1, <5>1, NumConcat
        <5> QED BY <5>2 DEF c
      <4>3. Num(MatchedO \o SubSeq(oGroup, 1, n), S) = Num(MatchedO, S) + Num(SubSeq(oGroup, 1, n), S)
        <5> DEFINE c == SubSeq(oGroup, 1, n)
        <5>1. c \in Seq(O)
          BY <1>9
        <5> HIDE DEF c
        <5>2. Num(MatchedO \o c, S) = Num(MatchedO, S) + Num(c, S)
          BY <4>1, <5>1, NumConcat
        <5> QED BY <5>2 DEF c
      <4> QED BY <1>6, <4>2, <4>3
    <3>4. /\ Num(eGroup, S) = Num(SubSeq(eGroup, 1, n), S) + Num(eGroup', S)
          /\ Num(oGroup, S) = Num(SubSeq(oGroup, 1, n), S) + Num(oGroup', S)
      BY <1>8, <1>9
    <3>5. /\ Num(MatchedE, S) \in Nat /\ NumIn(eAt, S) \in Nat /\ Written(eOut, S) \in Nat
          /\ Num(MatchedO, S) \in Nat /\ NumIn(oAt, S) \in Nat /\ Written(oOut, S) \in Nat
      BY NumbersFacts
    <3> QED BY <1>1, <1>7, <3>1, <3>2, <3>3, <3>4, <3>5
  <2> QED BY <1>20, <2>2 DEF ConservationInv
<1>13. OrderInv'
  BY <1>4, <1>7, <1>20 DEF OrderInv
<1>14. GroupInv'
  BY <1>20 DEF GroupInv
<1>15. ApartInv'
  <2>1. OpenE' \subseteq OpenE /\ OpenO' \subseteq OpenO
    BY <1>7, <1>8, <1>9 DEF OpenE, OpenO
  <2>2. ASSUME NEW l \in CLOSING_LEVELS, l < level
        PROVE  BehindE(l)' \subseteq BehindE(l) /\ BehindO(l)' \subseteq BehindO(l)
    <3>1. Members(eGroup) \subseteq OpenE /\ Members(oGroup) \subseteq OpenO
      BY DEF OpenE, OpenO
    <3>2. /\ BehindE(l)' = OpenE' \cup {p.expected : p \in {p \in Members(matched') : p.level > l}}
          /\ BehindO(l)' = OpenO' \cup {p.observed : p \in {p \in Members(matched') : p.level > l}}
      BY DEF BehindE, BehindO
    <3> QED BY <1>6, <2>1, <3>1, <3>2 DEF BehindE, BehindO
  <2>3. ASSUME NEW p \in Members(matched') PROVE SameKey(p.level, p.expected, p.observed) /\ p.level <= level
    <3>1. CASE p \in Members(matched)
      BY <3>1 DEF ApartInv
    <3>2. CASE p.expected \in Members(eGroup) /\ p.observed \in Members(oGroup) /\ p.level = level
      <4>1. level <= level
        BY <1>3 DEF CLOSING_LEVELS, POINT_ID, EMBEDDING_ID, CHUNK_ID
      <4> QED BY <1>4, <3>2, <4>1 DEF SameKey
    <3> QED BY <1>6, <3>1, <3>2
  <2>4. /\ \A e \in Members(eGroup'), o \in Held(oAt') : ~SameKey(level', e, o)
        /\ \A o \in Members(oGroup'), e \in Held(eAt') : ~SameKey(level', e, o)
    BY <1>4, <1>7, <1>8, <1>9, <1>21 DEF SameKey
  <2>5. \A l \in CLOSING_LEVELS : l < level =>
          \A e \in BehindE(l)', o \in BehindO(l)' : ~SameKey(l, e, o)
    BY <1>4, <2>2 DEF ApartInv
  <2>6. /\ \A e \in Kept(eOut), o \in OpenO' : ~SameKey(level, e, o)
        /\ \A e \in OpenE', o \in Kept(oOut) : ~SameKey(level, e, o)
    BY <1>4, <2>1 DEF ApartInv
  <2> QED BY <1>7, <1>20, <2>3, <2>4, <2>5, <2>6 DEF ApartInv
<1>16. DuplicateInv'
  <2>1. \A id : Settled(id) => Settled(id)'
    BY <1>1, <1>5 DEF Settled
  <2>2. \A id : Untouched(id)' = Untouched(id)
    BY <1>1, <1>7 DEF Untouched
  <2> SUFFICES ASSUME NEW e \in E, level = POINT_ID, GroupKey = e.point_id
               PROVE  Settled(e.point_id)'
    BY <1>1, <1>4, <1>7, <1>20, <2>1, <2>2 DEF DuplicateInv, Judged
  <2> DEFINE id == e.point_id
  <2>3. Len(oGroup) + NumIn(oAt, With(id)) = Num(in.observed, With(id)) \/ Settled(id)
    BY <1>4 DEF DuplicateInv
  <2>4. NumIn(oAt, With(id)) = 0
    <3>1. /\ NumIn(oAt, With(id)) \in Nat /\ Held(oAt) \subseteq O
          /\ NumIn(oAt, With(id)) > 0 <=> \E o \in Held(oAt) : o \in With(id)
      BY <1>3, NumInHeld
    <3>2. \A o \in Held(oAt) : o \notin With(id)
      BY <1>2, <1>21, <3>1 DEF With
    <3> QED BY <3>1, <3>2
  <2>5. Len(oGroup) \in Nat
    BY <1>3
  <2>6. CASE Len(oGroup) > 1
    BY <1>5, <2>6 DEF Settled
  <2>7. CASE Len(oGroup) <= 1 /\ ~Settled(id)
    BY <1>1, <2>3, <2>4, <2>5, <2>7 DEF Settled
  <2> QED BY <2>1, <2>5, <2>6, <2>7
<1>17. ResultInv'
  BY <1>20 DEF ResultInv, Judged
<1>18. DiskInv'
  BY <1>1, <1>4, <1>7, <1>20 DEF DiskInv, RunFilesHold
<1> QED BY <1>10, <1>11, <1>12, <1>13, <1>14, <1>15, <1>16, <1>17, <1>18

\* A writer that has nothing, and one that has a list.
LEMMA NewWriter ==
  ASSUME NEW U, NEW s \in Seq(U), NEW S, NEW l
  PROVE  /\ [Writer EXCEPT !.buffer = s] \in Writers(U)
         /\ Written([Writer EXCEPT !.buffer = s], S) = Num(s, S)
         /\ Kept([Writer EXCEPT !.buffer = s]) = Members(s)
         /\ RunsOrdered(l, [Writer EXCEPT !.buffer = s])
         /\ Names([Writer EXCEPT !.buffer = s].runs) = {}
<1> DEFINE w == [Writer EXCEPT !.buffer = s]
<1>1. w = [buffer |-> s, runs |-> <<>>] /\ w.buffer = s /\ w.runs = <<>>
  BY DEF Writer
<1>2. <<>> \in Runs(U)
  BY DEF Runs
<1>3. w \in Writers(U)
  BY <1>1, <1>2 DEF Writers
<1>4. NumIn(Lines(<<>>), S) = 0 /\ Held(Lines(<<>>)) = {}
  <2>1. Lines(<<>>) \in Seq(Seq(U)) /\ DOMAIN Lines(<<>>) = {}
    BY <1>2, LinesFacts
  <2>2. Held(Lines(<<>>)) = {}
    BY <2>1 DEF Held
  <2>3. Places(Lines(<<>>), S) = {}
    BY <2>1 DEF Places
  <2> QED BY <2>2, <2>3, FS_EmptySet DEF NumIn
<1> HIDE DEF w
<1>5. Written(w, S) = Num(s, S)
  <2>1. Num(s, S) \in Nat
    BY NumFacts
  <2> QED BY <1>1, <1>4, <2>1 DEF Written
<1>6. Kept(w) = Members(s)
  BY <1>1, <1>4 DEF Kept
<1>7. RunsOrdered(l, w) /\ Names(w.runs) = {}
  BY <1>1 DEF RunsOrdered, Names
<1> QED BY <1>3, <1>5, <1>6, <1>7 DEF w

LEMMA EmptyWriter ==
  ASSUME NEW U, NEW S, NEW l
  PROVE  /\ Writer \in Writers(U) /\ Written(Writer, S) = 0 /\ Kept(Writer) = {}
         /\ RunsOrdered(l, Writer) /\ Names(Writer.runs) = {} /\ Len(Writer.buffer) = 0 /\ Count(Writer) = 0
         /\ Writer.runs = <<>>
<1>1. Writer = [Writer EXCEPT !.buffer = <<>>] /\ <<>> \in Seq(U)
  BY DEF Writer
<1> DEFINE s == <<>>
<1>2. s \in Seq(U) /\ Num(s, S) = 0 /\ Members(s) = {}
  <2>1. <<>> \in Seq(U)
    OBVIOUS
  <2>2. DOMAIN <<>> = {} /\ {i \in DOMAIN <<>> : <<>>[i] \in S} = {}
    OBVIOUS
  <2> QED BY <2>1, <2>2, FS_EmptySet DEF Num, Members
<1> HIDE DEF s
<1>3. /\ [Writer EXCEPT !.buffer = s] \in Writers(U)
      /\ Written([Writer EXCEPT !.buffer = s], S) = Num(s, S)
      /\ Kept([Writer EXCEPT !.buffer = s]) = Members(s)
      /\ RunsOrdered(l, [Writer EXCEPT !.buffer = s])
      /\ Names([Writer EXCEPT !.buffer = s].runs) = {}
  BY <1>2, NewWriter
<1>4. Len(Writer.buffer) = 0 /\ Len(Writer.runs) = 0 /\ Writer.runs = <<>>
  BY DEF Writer
<1>5. Count(Writer) = 0
  BY <1>4, ReconcileAssumption DEF Count
<1> QED BY <1>1, <1>2, <1>3, <1>4, <1>5 DEF s

\* Before the first pair there are no matched items.
LEMMA NoneMatched ==
  ASSUME matched = <<>>, NEW S
  PROVE  Num(MatchedE, S) = 0 /\ Num(MatchedO, S) = 0 /\ Members(matched) = {}
<1>1. DOMAIN MatchedE = {} /\ DOMAIN MatchedO = {} /\ DOMAIN matched = {}
  BY DEF MatchedE, MatchedO
<1> QED BY <1>1, FS_EmptySet DEF Num, Members

\* begin: preflight, then the small path or the big one.
LEMMA BeginStep == ASSUME ReconcileInv, begin PROVE ReconcileInv'
<1> USE DEF ReconcileInv
<1>1. /\ expected' = expected /\ E' = E /\ O' = O /\ in' = in /\ forced' = forced /\ given' = given
      /\ \A id : With(id)' = With(id)
      /\ Large' = Large
  BY InputStays DEF begin
<1>2. expected \in Seq(E) /\ in.observed \in Seq(O)
  BY InputFacts DEF TypeInv
<1>3. /\ pc = "begin" /\ eOut = Writer /\ oOut = Writer /\ level = POINT_ID /\ matched = <<>> /\ duplicates = {}
      /\ es = <<>> /\ os = <<>> /\ eAt = <<>> /\ oAt = <<>> /\ eGroup = <<>> /\ oGroup = <<>>
  BY DEF begin, PlaceInv, Joining
<1>4. UNCHANGED <<inputVars, level, es, os, eAt, oAt, eGroup, oGroup, matched, duplicates, attempt, verdict>>
  BY DEF begin, groupVars
<1>5. pc' \in {"report", "round", "spill"} /\ ~Joining' /\ ~Judged'
  <2>1. CASE preflight_fails(in, expected)
    <3>1. result' = short_circuit_result(in) /\ pc' = "report"
      BY <2>1 DEF begin
    <3>2. result'.short_circuited
      BY <3>1 DEF short_circuit_result
    <3> QED BY <3>1, <3>2 DEF Joining, Judged
  <2>2. CASE ~preflight_fails(in, expected)
    BY <2>2 DEF begin, Joining, Judged
  <2> QED BY <2>1, <2>2
<1>6. /\ eOut' \in Writers(E) /\ oOut' \in Writers(O)
      /\ RunsOrdered(level, eOut') /\ RunsOrdered(level, oOut')
      /\ Names(eOut'.runs) = {} /\ Names(oOut'.runs) = {}
      /\ pc' = "round" => \A S : Written(eOut', S) = Num(expected, S) /\ Written(oOut', S) = Num(in.observed, S)
  <2>1. CASE pc' = "round"
    <3>1. eOut' = [Writer EXCEPT !.buffer = expected] /\ oOut' = [Writer EXCEPT !.buffer = in.observed]
      BY <2>1 DEF begin
    <3>2. ASSUME NEW S
          PROVE  /\ [Writer EXCEPT !.buffer = expected] \in Writers(E)
                 /\ RunsOrdered(level, [Writer EXCEPT !.buffer = expected])
                 /\ Names([Writer EXCEPT !.buffer = expected].runs) = {}
                 /\ Written([Writer EXCEPT !.buffer = expected], S) = Num(expected, S)
      BY <1>2, NewWriter
    <3> DEFINE ob == in.observed
    <3>3. ob \in Seq(O)
      BY <1>2
    <3> HIDE DEF ob
    <3>4. ASSUME NEW S
          PROVE  /\ [Writer EXCEPT !.buffer = ob] \in Writers(O)
                 /\ RunsOrdered(level, [Writer EXCEPT !.buffer = ob])
                 /\ Names([Writer EXCEPT !.buffer = ob].runs) = {}
                 /\ Written([Writer EXCEPT !.buffer = ob], S) = Num(ob, S)
      BY <3>3, NewWriter
    <3>5. oOut' = [Writer EXCEPT !.buffer = ob]
      BY <3>1 DEF ob
    <3> QED BY <3>1, <3>2, <3>4, <3>5 DEF ob
  <2>2. CASE pc' # "round"
    <3>1. eOut' = Writer /\ oOut' = Writer
      BY <1>3, <2>2 DEF begin
    <3> QED BY <2>2, <3>1, EmptyWriter
  <2> QED BY <2>1, <2>2
<1>7. /\ mode' \in {"small", "big"} /\ disk' \subseteq disk
      /\ pc' = "spill" => mode' = "big" /\ eOut' = Writer /\ oOut' = Writer
      /\ pc' = "report" => ~Large
      /\ pc' # "report" => (mode' = "big" <=> Large)
      /\ mode' = "big" => eOut' = Writer /\ oOut' = Writer
  <2>1. CASE preflight_fails(in, expected)
    BY <1>3, <2>1 DEF begin, TypeInv, Large
  <2>2. CASE ~preflight_fails(in, expected) /\ (~forced /\ Len(in.observed) <= MaxInMemory)
    <3>1. mode' = "small" /\ pc' = "round" /\ disk' = disk
      BY <2>2 DEF begin
    <3>2. Len(in.observed) \in Nat /\ MaxInMemory \in Nat
      BY <1>2, ReconcileAssumption
    <3> QED BY <2>2, <3>1, <3>2 DEF Large
  <2>3. CASE ~preflight_fails(in, expected) /\ ~(~forced /\ Len(in.observed) <= MaxInMemory)
    <3>1. mode' = "big" /\ pc' = "spill" /\ disk' = reset_work_dir(disk) /\ eOut' = eOut /\ oOut' = oOut
      BY <2>3 DEF begin
    <3>2. Len(in.observed) \in Nat /\ MaxInMemory \in Nat
      BY <1>2, ReconcileAssumption
    <3> QED BY <1>3, <2>3, <3>1, <3>2 DEF Large, reset_work_dir
  <2> QED BY <2>1, <2>2, <2>3
<1>10. TypeInv'
  BY <1>1, <1>4, <1>5, <1>6, <1>7 DEF TypeInv, inputVars, Pairs
<1>11. PlaceInv'
  BY <1>3, <1>4, <1>5, <1>7 DEF PlaceInv
<1>12. ConservationInv'
  <2>1. CASE pc' = "round"
    <3>1. ASSUME NEW S
          PROVE  /\ Num(expected', S) = Num(MatchedE', S) + Num(eGroup', S) + NumIn(eAt', S) + Written(eOut', S)
                 /\ Num(in'.observed, S) = Num(MatchedO', S) + Num(oGroup', S) + NumIn(oAt', S) + Written(oOut', S)
      <4>1. MatchedE' = MatchedE /\ MatchedO' = MatchedO
        BY <1>4 DEF MatchedE, MatchedO
      <4>2. Num(MatchedE, S) = 0 /\ Num(MatchedO, S) = 0
        BY <1>3, NoneMatched
      <4>3. Num(eGroup', S) = 0 /\ Num(oGroup', S) = 0 /\ NumIn(eAt', S) = 0 /\ NumIn(oAt', S) = 0
        BY <1>3, <1>4, NumOne, NoLists
      <4>4. Num(expected, S) \in Nat /\ Num(in.observed, S) \in Nat
        BY <1>2, NumFacts
      <4> QED BY <1>1, <1>6, <2>1, <4>1, <4>2, <4>3, <4>4
    <3> QED BY <2>1, <3>1 DEF ConservationInv
  <2>2. CASE pc' = "spill"
    <3>1. ASSUME NEW U, NEW s \in Seq(U) PROVE SpilledSoFar(Writer, s)
      <4>1. 0 \in 0..Len(s) /\ Count(Writer) = 0
        BY EmptyWriter
      <4>2. \A S : Written(Writer, S) = Num(SubSeq(s, 1, 0), S)
        <5>1. SubSeq(s, 1, 0) = <<>>
          OBVIOUS
        <5> QED BY <5>1, EmptyWriter, NumOne
      <4> QED BY <4>1, <4>2 DEF SpilledSoFar
    <3>2. SpilledSoFar(Writer, expected) /\ SpilledSoFar(Writer, in.observed)
      BY <1>2, <3>1
    <3>3. ~Working'
      BY <2>2 DEF Working
    <3> QED BY <1>1, <1>5, <1>7, <2>2, <3>2, <3>3 DEF ConservationInv, SpilledSoFar, Count
  <2>3. CASE pc' = "report"
    BY <1>5, <2>3 DEF ConservationInv, Working
  <2> QED BY <1>5, <2>1, <2>2, <2>3
<1>13. OrderInv'
  BY <1>3, <1>4, <1>5, <1>6 DEF OrderInv
<1>14. GroupInv'
  BY <1>5 DEF GroupInv
<1>15. ApartInv'
  <2>1. Members(matched') = {}
    BY <1>3, <1>4, NoneMatched
  <2>2. \A l \in CLOSING_LEVELS : ~(l < level')
    BY <1>3, <1>4 DEF CLOSING_LEVELS, POINT_ID, EMBEDDING_ID, CHUNK_ID
  <2> QED BY <1>5, <2>1, <2>2 DEF ApartInv
<1>16. DuplicateInv'
  BY <1>3, <1>4, <1>5 DEF DuplicateInv
<1>17. ResultInv'
  BY <1>5 DEF ResultInv
<1>18. DiskInv'
  <2>1. \A f \in disk' : f[1] <= attempt'
    BY <1>4, <1>7 DEF DiskInv
  <2>2. disk' # {} => Large'
    BY <1>1, <1>7 DEF DiskInv
  <2>3. RunFilesHold'
    <3>1. Names(es') = {} /\ Names(os') = {}
      BY <1>3, <1>4 DEF Names
    <3>2. mode' = "big" => Len(eOut'.buffer) < ChunkSize /\ Len(oOut'.buffer) < ChunkSize
      BY <1>7, EmptyWriter, ReconcileAssumption
    <3> QED BY <3>1, <3>2 DEF RunFilesHold
  <2> QED BY <1>1, <1>5, <1>6, <1>7, <2>1, <2>2, <2>3 DEF DiskInv, Working
<1> QED BY <1>10, <1>11, <1>12, <1>13, <1>14, <1>15, <1>16, <1>17, <1>18

\* A writer's number of items is a number.
LEMMA CountIsNat ==
  ASSUME NEW U, NEW w \in Writers(U)
  PROVE  Count(w) \in Nat /\ Len(w.buffer) \in Nat /\ Len(w.runs) \in Nat /\ Len(w.runs) * ChunkSize \in Nat
<1>1. w.buffer \in Seq(U) /\ w.runs \in Runs(U) /\ ChunkSize \in Nat
  BY ReconcileAssumption DEF Writers
<1>2. Len(w.buffer) \in Nat /\ Len(w.runs) \in Nat
  BY <1>1 DEF Runs
<1>3. Len(w.runs) * ChunkSize \in Nat
  BY <1>1, <1>2
<1> QED BY <1>2, <1>3 DEF Count

\* A list cut one item later.
LEMMA NumLonger ==
  ASSUME NEW U, NEW s \in Seq(U), NEW n \in Nat, n < Len(s), NEW S
  PROVE  Num(SubSeq(s, 1, n + 1), S) = Num(SubSeq(s, 1, n), S) + One(s[n + 1], S)
<1> DEFINE a == SubSeq(s, 1, n)
           b == SubSeq(s, 1, n + 1)
           x == s[n + 1]
           c == Append(a, x)
<1>1. Len(s) \in Nat /\ x \in U
  OBVIOUS
<1>2. a \in Seq(U) /\ Len(a) = n /\ \A i \in 1..n : a[i] = s[i]
  BY <1>1
<1>3. b \in Seq(U) /\ Len(b) = n + 1 /\ \A i \in 1..(n + 1) : b[i] = s[i]
  BY <1>1
<1> HIDE DEF a, b
<1>4. c \in Seq(U) /\ Len(c) = n + 1 /\ c[n + 1] = x /\ \A i \in 1..n : c[i] = a[i]
  BY <1>1, <1>2
<1>5. ASSUME NEW i \in 1..(n + 1) PROVE b[i] = c[i]
  <2>1. i = n + 1 \/ i \in 1..n
    OBVIOUS
  <2> QED BY <1>2, <1>3, <1>4, <2>1
<1>6. b = c
  <2> HIDE DEF c
  <2> QED BY <1>3, <1>4, <1>5, SeqEqual
<1> HIDE DEF x
<1>7. Num(c, S) = Num(a, S) + One(x, S)
  BY <1>1, <1>2, NumAppend
<1> QED BY <1>6, <1>7 DEF a, b, c, x

\* The next item is spilled.
LEMMA SpillMore ==
  ASSUME NEW U, HaveKeys(U), attempt \in Nat, NEW w \in Writers(U), NEW s \in Seq(U),
         NEW side \in {"e", "o"}, NEW l \in CLOSING_LEVELS, RunsOrdered(l, w),
         mode = "big", Len(w.buffer) < ChunkSize, SpilledSoFar(w, s), Count(w) < Len(s)
  PROVE  s[Count(w) + 1] \in U /\ SpilledSoFar(add(w, side, l, s[Count(w) + 1]), s)
<1>1. Count(w) \in Nat /\ Len(s) \in Nat
  BY CountIsNat
<1> DEFINE n == Count(w)
           x == s[n + 1]
<1>2. n \in 0..Len(s) /\ \A S : Written(w, S) = Num(SubSeq(s, 1, n), S)
  <2>1. PICK m \in 0..Len(s) :
          /\ \A S : Written(w, S) = Num(SubSeq(s, 1, m), S)
          /\ m = Count(w) \/ (m = Len(s) /\ Count(w) >= m)
    BY DEF SpilledSoFar
  <2>2. m = n
    BY <1>1, <2>1
  <2> QED BY <2>1, <2>2
<1>3. x \in U
  BY <1>1
<1> HIDE DEF x
<1>4. PICK v : v = add(w, side, l, x)
  OBVIOUS
<1>5. /\ \A S : Written(v, S) = Written(w, S) + One(x, S)
      /\ Count(v) = n + 1
  BY <1>3, <1>4, AddFacts
<1>6. ASSUME NEW S PROVE Written(v, S) = Num(SubSeq(s, 1, n + 1), S)
  <2>1. Num(SubSeq(s, 1, n + 1), S) = Num(SubSeq(s, 1, n), S) + One(s[n + 1], S)
    BY <1>1, NumLonger
  <2> QED BY <1>2, <1>5, <2>1 DEF x
<1>7. n + 1 \in 0..Len(s)
  BY <1>1
<1>8. SpilledSoFar(v, s)
  BY <1>5, <1>6, <1>7 DEF SpilledSoFar
<1> QED BY <1>3, <1>4, <1>8 DEF x

\* All items are spilled, and stay so when the writer is flushed.
LEMMA AllSpilled ==
  ASSUME NEW U, NEW w \in Writers(U), NEW s \in Seq(U), SpilledSoFar(w, s), ~(Count(w) < Len(s))
  PROVE  \A S : Written(w, S) = Num(s, S)
<1>1. Count(w) \in Nat /\ Len(s) \in Nat
  BY CountIsNat
<1>2. PICK m \in 0..Len(s) :
        /\ \A S : Written(w, S) = Num(SubSeq(s, 1, m), S)
        /\ m = Count(w) \/ (m = Len(s) /\ Count(w) >= m)
  BY DEF SpilledSoFar
<1>3. m = Len(s)
  BY <1>1, <1>2
<1>4. SubSeq(s, 1, Len(s)) = s
  OBVIOUS
<1> QED BY <1>2, <1>3, <1>4

LEMMA SpillFlushed ==
  ASSUME NEW U, HaveKeys(U), attempt \in Nat, NEW w \in Writers(U), NEW s \in Seq(U),
         NEW side \in {"e", "o"}, NEW l \in CLOSING_LEVELS, RunsOrdered(l, w),
         Len(w.buffer) < ChunkSize, SpilledSoFar(w, s), ~(Count(w) < Len(s))
  PROVE  SpilledSoFar(flush(w, side, l), s) /\ ~(Count(flush(w, side, l)) < Len(s))
<1>1. /\ Count(w) \in Nat /\ Len(s) \in Nat /\ Len(w.buffer) \in Nat /\ Len(w.runs) \in Nat
      /\ Len(w.runs) * ChunkSize \in Nat /\ ChunkSize \in Nat
  BY CountIsNat, ReconcileAssumption
<1>2. PICK v : v = flush(w, side, l)
  OBVIOUS
<1>3. /\ v \in Writers(U) /\ \A S : Written(v, S) = Written(w, S)
      /\ v.buffer = <<>>
      /\ w.buffer # <<>> => Len(v.runs) = Len(w.runs) + 1
  BY <1>2, FlushFacts
<1>4. Count(v) \in Nat /\ Count(v) >= Count(w)
  <2>1. CASE w.buffer = <<>>
    BY <1>1, <1>2, <2>1 DEF flush
  <2>2. CASE w.buffer # <<>>
    <3> DEFINE n == Len(w.runs)
               many == n * ChunkSize
    <3>1. (n + 1) * ChunkSize = n * ChunkSize + ChunkSize
      BY <1>1
    <3>2. Count(v) = Len(v.buffer) + Len(v.runs) * ChunkSize /\ Len(v.buffer) = 0
      BY <1>3 DEF Count
    <3>3. Count(w) = Len(w.buffer) + many
      BY DEF Count
    <3>4. Len(v.runs) = n + 1
      BY <1>3, <2>2
    <3>5. many \in Nat
      BY <1>1
    <3>6. Count(v) = 0 + (many + ChunkSize)
      BY <3>1, <3>2, <3>4
    <3> HIDE DEF many
    <3> QED BY <1>1, <3>3, <3>5, <3>6
  <2> QED BY <2>1, <2>2
<1>5. \A S : Written(w, S) = Num(s, S)
  BY AllSpilled
<1>6. SubSeq(s, 1, Len(s)) = s /\ Len(s) \in 0..Len(s)
  OBVIOUS
<1>7. Count(v) >= Len(s)
  BY <1>1, <1>4
<1>8. SpilledSoFar(v, s)
  BY <1>3, <1>5, <1>6, <1>7 DEF SpilledSoFar
<1> QED BY <1>1, <1>2, <1>4, <1>7, <1>8

\* spill: an item more is in the run files, or all of them are.
LEMMA SpillStep == ASSUME ReconcileInv, spill PROVE ReconcileInv'
<1> USE DEF ReconcileInv
<1>1. /\ expected' = expected /\ E' = E /\ O' = O /\ in' = in /\ forced' = forced /\ given' = given
      /\ \A id : With(id)' = With(id)
      /\ Large' = Large
  BY InputStays DEF spill
<1>2. /\ HaveKeys(E) /\ HaveKeys(O)
      /\ expected \in Seq(E) /\ in.observed \in Seq(O)
  BY InputFacts DEF TypeInv
<1>3. /\ level \in CLOSING_LEVELS /\ level = POINT_ID /\ attempt \in Nat
      /\ eOut \in Writers(E) /\ oOut \in Writers(O)
      /\ RunsOrdered(level, eOut) /\ RunsOrdered(level, oOut)
  BY DEF TypeInv, spill, OrderInv, PlaceInv, Joining
<1>4. /\ pc = "spill" /\ mode = "big" /\ ~Joining /\ pc' \in {"spill", "round"} /\ ~Joining' /\ ~Judged'
      /\ Len(eOut.buffer) < ChunkSize /\ Len(oOut.buffer) < ChunkSize
      /\ matched = <<>> /\ duplicates = {}
      /\ es = <<>> /\ os = <<>> /\ eAt = <<>> /\ oAt = <<>> /\ eGroup = <<>> /\ oGroup = <<>>
  <2>1. level # CHUNK_ID
    BY <1>3 DEF POINT_ID, CHUNK_ID
  <2> QED BY <2>1 DEF spill, PlaceInv, Joining, Judged, DiskInv, RunFilesHold
<1>5. UNCHANGED <<inputVars, mode, level, es, os, eAt, oAt, eGroup, oGroup, matched, duplicates, attempt, result, verdict>>
  BY DEF spill, groupVars, endVars
<1>6. SpilledSoFar(eOut, expected) /\ SpilledSoFar(oOut, in.observed)
  BY <1>4 DEF ConservationInv
<1>7. /\ eOut' \in Writers(E) /\ oOut' \in Writers(O)
      /\ RunsOrdered(level, eOut') /\ RunsOrdered(level, oOut')
      /\ Follows(eOut, eOut') /\ Follows(oOut, oOut')
      /\ Len(eOut'.buffer) < ChunkSize /\ Len(oOut'.buffer) < ChunkSize
      /\ SpilledSoFar(eOut', expected) /\ SpilledSoFar(oOut', in.observed)
      /\ pc' = "round" => \A S : Written(eOut', S) = Num(expected, S) /\ Written(oOut', S) = Num(in.observed, S)
  <2>1. CASE Count(eOut) < Len(expected)
    <3> DEFINE x == expected[Count(eOut) + 1]
    <3>1. x \in E /\ SpilledSoFar(add(eOut, "e", level, x), expected)
      BY <1>2, <1>3, <1>4, <1>6, <2>1, SpillMore
    <3> HIDE DEF x
    <3>2. /\ add(eOut, "e", level, x) \in Writers(E)
          /\ RunsOrdered(level, add(eOut, "e", level, x))
          /\ Follows(eOut, add(eOut, "e", level, x))
          /\ Len(add(eOut, "e", level, x).buffer) < ChunkSize
      BY <1>2, <1>3, <1>4, <3>1, AddFacts
    <3>3. eOut' = add(eOut, "e", level, x) /\ oOut' = oOut /\ pc' = pc
      BY <2>1 DEF spill, x
    <3>4. Follows(oOut, oOut')
      BY <3>3 DEF Follows
    <3> QED BY <1>3, <1>4, <1>6, <3>1, <3>2, <3>3, <3>4
  <2>2. CASE ~(Count(eOut) < Len(expected)) /\ Count(oOut) < Len(in.observed)
    <3> DEFINE ob == in.observed
               x == ob[Count(oOut) + 1]
    <3>1. ob \in Seq(O) /\ SpilledSoFar(oOut, ob) /\ Count(oOut) < Len(ob)
      BY <1>2, <1>6, <2>2
    <3>2. eOut' = flush(eOut, "e", level) /\ oOut' = add(oOut, "o", level, x) /\ pc' = pc
      BY <2>2 DEF spill
    <3> HIDE DEF ob
    <3>3. x \in O /\ SpilledSoFar(add(oOut, "o", level, x), ob)
      BY <1>2, <1>3, <1>4, <3>1, SpillMore
    <3> HIDE DEF x
    <3>4. /\ add(oOut, "o", level, x) \in Writers(O)
          /\ RunsOrdered(level, add(oOut, "o", level, x))
          /\ Follows(oOut, add(oOut, "o", level, x))
          /\ Len(add(oOut, "o", level, x).buffer) < ChunkSize
      BY <1>2, <1>3, <1>4, <3>3, AddFacts
    <3>5. /\ flush(eOut, "e", level) \in Writers(E)
          /\ RunsOrdered(level, flush(eOut, "e", level))
          /\ flush(eOut, "e", level).buffer = <<>>
          /\ Follows(eOut, flush(eOut, "e", level))
      BY <1>2, <1>3, FlushFacts
    <3>6. SpilledSoFar(flush(eOut, "e", level), expected)
      BY <1>2, <1>3, <1>4, <1>6, <2>2, SpillFlushed
    <3>7. Len(flush(eOut, "e", level).buffer) < ChunkSize
      BY <3>5, ReconcileAssumption
    <3> QED BY <1>4, <3>2, <3>3, <3>4, <3>5, <3>6, <3>7 DEF ob
  <2>3. CASE ~(Count(eOut) < Len(expected)) /\ ~(Count(oOut) < Len(in.observed))
    <3>1. eOut' = eOut /\ oOut' = oOut
      BY <2>3 DEF spill
    <3>2. Follows(eOut, eOut') /\ Follows(oOut, oOut')
      BY <3>1 DEF Follows
    <3>3. \A S : Written(eOut, S) = Num(expected, S)
      BY <1>2, <1>3, <1>6, <2>3, AllSpilled
    <3> DEFINE ob == in.observed
    <3>4. ob \in Seq(O) /\ SpilledSoFar(oOut, ob) /\ ~(Count(oOut) < Len(ob))
      BY <1>2, <1>6, <2>3
    <3> HIDE DEF ob
    <3>5. \A S : Written(oOut, S) = Num(ob, S)
      BY <1>3, <3>4, AllSpilled
    <3> QED BY <1>3, <1>4, <1>6, <3>1, <3>2, <3>3, <3>5 DEF ob
  <2> QED BY <2>1, <2>2, <2>3
<1>8. /\ Names(eOut'.runs) \cup Names(oOut'.runs) \subseteq RunNames
      /\ \A f \in Names(eOut'.runs) \cup Names(oOut'.runs) : f[1] = attempt
  <2>1. eOut'.runs \in Runs(E) /\ oOut'.runs \in Runs(O)
    BY <1>7 DEF Writers
  <2>2. Names(eOut'.runs) \subseteq RunNames /\ Names(oOut'.runs) \subseteq RunNames
    BY <2>1, NamesFacts
  <2> QED BY <1>7, <2>2 DEF Follows, DiskInv
<1>9. /\ disk' \in SUBSET RunNames
      /\ \A f \in disk' : f[1] <= attempt'
      /\ disk' # {} => Large'
  <2>1. Spilled(Names(eOut'.runs) \cup Names(oOut'.runs))
    BY DEF spill
  <2> QED BY <1>4, <1>5, <1>8, <2>1, SpilledFacts
<1>10. TypeInv'
  BY <1>1, <1>4, <1>5, <1>7, <1>9 DEF TypeInv, inputVars, Pairs
<1>11. PlaceInv'
  BY <1>3, <1>4, <1>5 DEF PlaceInv
<1>12. ConservationInv'
  <2>1. CASE pc' = "round"
    <3>1. ASSUME NEW S
          PROVE  /\ Num(expected', S) = Num(MatchedE', S) + Num(eGroup', S) + NumIn(eAt', S) + Written(eOut', S)
                 /\ Num(in'.observed, S) = Num(MatchedO', S) + Num(oGroup', S) + NumIn(oAt', S) + Written(oOut', S)
      <4>1. MatchedE' = MatchedE /\ MatchedO' = MatchedO
        BY <1>5 DEF MatchedE, MatchedO
      <4>2. Num(MatchedE, S) = 0 /\ Num(MatchedO, S) = 0
        BY <1>4, NoneMatched
      <4>3. Num(eGroup', S) = 0 /\ Num(oGroup', S) = 0 /\ NumIn(eAt', S) = 0 /\ NumIn(oAt', S) = 0
        BY <1>4, <1>5, NumOne, NoLists
      <4>4. Num(expected, S) \in Nat /\ Num(in.observed, S) \in Nat
        BY <1>2, NumFacts
      <4> QED BY <1>1, <1>7, <2>1, <4>1, <4>2, <4>3, <4>4
    <3> QED BY <2>1, <3>1 DEF ConservationInv
  <2>2. CASE pc' = "spill"
    <3>1. ~Working'
      BY <2>2 DEF Working
    <3> QED BY <1>1, <1>4, <1>7, <2>2, <3>1 DEF ConservationInv, SpilledSoFar, Count
  <2> QED BY <1>4, <2>1, <2>2
<1>13. OrderInv'
  BY <1>4, <1>5, <1>7 DEF OrderInv
<1>14. GroupInv'
  BY <1>4 DEF GroupInv
<1>15. ApartInv'
  <2>1. Members(matched') = {}
    BY <1>4, <1>5, NoneMatched
  <2>2. \A l \in CLOSING_LEVELS : ~(l < level')
    BY <1>3, <1>5 DEF CLOSING_LEVELS, POINT_ID, EMBEDDING_ID, CHUNK_ID
  <2> QED BY <1>4, <2>1, <2>2 DEF ApartInv
<1>16. DuplicateInv'
  BY <1>3, <1>4, <1>5 DEF DuplicateInv
<1>17. ResultInv'
  BY <1>4 DEF ResultInv
<1>18. DiskInv'
  <2>1. Names(es') = {} /\ Names(os') = {}
    BY <1>4, <1>5 DEF Names
  <2>2. RunFilesHold'
    BY <1>7, <2>1 DEF RunFilesHold
  <2> QED BY <1>1, <1>4, <1>5, <1>8, <1>9, <2>2 DEF DiskInv
<1> QED BY <1>10, <1>11, <1>12, <1>13, <1>14, <1>15, <1>16, <1>17, <1>18

\* What is read of a writer that is finished is what it has.
Finished(w, side) == flush(w, side, level).runs

LEMMA FinishedFacts ==
  ASSUME NEW U, HaveKeys(U), attempt \in Nat, level \in CLOSING_LEVELS,
         NEW w \in Writers(U), RunsOrdered(level, w), NEW side \in {"e", "o"}
  PROVE  /\ Finished(w, side) \in Runs(U) /\ Lines(Finished(w, side)) \in Seq(Seq(U))
         /\ \A S : NumIn(Lines(Finished(w, side)), S) = Written(w, S)
         /\ Held(Lines(Finished(w, side))) = Kept(w)
         /\ \A i \in DOMAIN Lines(Finished(w, side)) : Ordered(level, Lines(Finished(w, side))[i])
         /\ \A f \in Names(Finished(w, side)) : f \in Names(w.runs) \/ (f \in RunNames /\ f[1] = attempt)
         /\ Names(Finished(w, side)) \subseteq RunNames
<1>1. PICK v, at : v = flush(w, side, level) /\ at = Lines(v.runs) /\ v.runs = Finished(w, side)
  BY DEF Finished
<1>2. /\ v \in Writers(U)
      /\ \A S : Written(v, S) = Written(w, S)
      /\ Kept(v) = Kept(w)
      /\ RunsOrdered(level, v)
      /\ v.buffer = <<>>
      /\ Follows(w, v)
  BY <1>1, FlushFacts
<1>3. v.runs \in Runs(U)
  BY <1>2 DEF Writers
<1>4. at \in Seq(Seq(U)) /\ DOMAIN at = DOMAIN v.runs /\ \A i \in DOMAIN v.runs : at[i] = v.runs[i].lines
  BY <1>1, <1>3, LinesFacts
<1>5. ASSUME NEW S PROVE NumIn(at, S) = Written(w, S)
  <2>1. Written(v, S) = Num(<<>>, S) + NumIn(at, S)
    BY <1>1, <1>2 DEF Written
  <2>2. Num(<<>>, S) = 0 /\ NumIn(at, S) \in Nat
    BY <1>4, NumOne, NumInHeld
  <2> QED BY <1>2, <2>1, <2>2
<1>6. Held(at) = Kept(w)
  <2>1. Members(v.buffer) = {}
    BY <1>2, NoLists
  <2> QED BY <1>1, <1>2, <2>1 DEF Kept
<1>7. \A i \in DOMAIN at : Ordered(level, at[i])
  BY <1>2, <1>4 DEF RunsOrdered
<1>8. Names(v.runs) \subseteq RunNames
  BY <1>3, NamesFacts
<1>9. at = Lines(Finished(w, side)) /\ v.runs = Finished(w, side)
  BY <1>1
<1>10. \A f \in Names(v.runs) : f \in Names(w.runs) \/ (f \in RunNames /\ f[1] = attempt)
  BY <1>2 DEF Follows
<1>11. v.runs \in Runs(U) /\ at \in Seq(Seq(U)) /\ \A S : NumIn(at, S) = Written(w, S)
  BY <1>3, <1>4, <1>5
<1> QED BY <1>6, <1>7, <1>8, <1>9, <1>10, <1>11

\* start_round: what the writers have is what the round reads.
LEMMA StartRoundStep == ASSUME ReconcileInv, start_round PROVE ReconcileInv'
<1> USE DEF ReconcileInv
<1>1. /\ expected' = expected /\ E' = E /\ O' = O /\ in' = in /\ forced' = forced /\ given' = given
      /\ \A id : With(id)' = With(id)
      /\ Large' = Large
  BY InputStays DEF start_round
<1>2. /\ HaveKeys(E) /\ HaveKeys(O)
      /\ expected \in Seq(E) /\ in.observed \in Seq(O)
  BY InputFacts DEF TypeInv
<1>3. /\ pc = "round" /\ Working /\ ~Joining /\ pc' = "join" /\ Joining' /\ Working' /\ ~Judged'
      /\ eAt = <<>> /\ oAt = <<>> /\ eGroup = <<>> /\ oGroup = <<>>
  BY DEF start_round, PlaceInv, Joining, Working, Judged
<1>4. /\ level \in CLOSING_LEVELS /\ attempt \in Nat /\ eOut \in Writers(E) /\ oOut \in Writers(O)
      /\ RunsOrdered(level, eOut) /\ RunsOrdered(level, oOut)
  BY <1>3 DEF TypeInv, OrderInv
<1>5. UNCHANGED <<inputVars, mode, level, eGroup, oGroup, matched, duplicates, attempt, result, verdict>>
  BY DEF start_round, groupVars, endVars
<1>7. /\ es' \in Runs(E) /\ eAt' \in Seq(Seq(E))
      /\ \A S : NumIn(eAt', S) = Written(eOut, S)
      /\ Held(eAt') = Kept(eOut)
      /\ \A i \in DOMAIN eAt' : Ordered(level, eAt'[i])
      /\ Names(es') \subseteq RunNames /\ \A f \in Names(es') : f[1] = attempt
  <2>1. es' = Finished(eOut, "e") /\ eAt' = Lines(es')
    BY DEF start_round, Finished
  <2>2. /\ Finished(eOut, "e") \in Runs(E) /\ Lines(Finished(eOut, "e")) \in Seq(Seq(E))
        /\ \A S : NumIn(Lines(Finished(eOut, "e")), S) = Written(eOut, S)
        /\ Held(Lines(Finished(eOut, "e"))) = Kept(eOut)
        /\ \A i \in DOMAIN Lines(Finished(eOut, "e")) : Ordered(level, Lines(Finished(eOut, "e"))[i])
        /\ \A f \in Names(Finished(eOut, "e")) : f \in Names(eOut.runs) \/ (f \in RunNames /\ f[1] = attempt)
        /\ Names(Finished(eOut, "e")) \subseteq RunNames
    BY <1>2, <1>4, FinishedFacts
  <2>3. \A f \in Names(eOut.runs) : f[1] = attempt
    BY DEF DiskInv
  <2> QED BY <2>1, <2>2, <2>3
<1>8. /\ os' \in Runs(O) /\ oAt' \in Seq(Seq(O))
      /\ \A S : NumIn(oAt', S) = Written(oOut, S)
      /\ Held(oAt') = Kept(oOut)
      /\ \A i \in DOMAIN oAt' : Ordered(level, oAt'[i])
      /\ Names(os') \subseteq RunNames /\ \A f \in Names(os') : f[1] = attempt
  <2>1. os' = Finished(oOut, "o") /\ oAt' = Lines(os')
    BY DEF start_round, Finished
  <2>2. /\ Finished(oOut, "o") \in Runs(O) /\ Lines(Finished(oOut, "o")) \in Seq(Seq(O))
        /\ \A S : NumIn(Lines(Finished(oOut, "o")), S) = Written(oOut, S)
        /\ Held(Lines(Finished(oOut, "o"))) = Kept(oOut)
        /\ \A i \in DOMAIN Lines(Finished(oOut, "o")) : Ordered(level, Lines(Finished(oOut, "o"))[i])
        /\ \A f \in Names(Finished(oOut, "o")) : f \in Names(oOut.runs) \/ (f \in RunNames /\ f[1] = attempt)
        /\ Names(Finished(oOut, "o")) \subseteq RunNames
    BY <1>2, <1>4, FinishedFacts
  <2>3. \A f \in Names(oOut.runs) : f[1] = attempt
    BY DEF DiskInv
  <2> QED BY <2>1, <2>2, <2>3
<1>9. /\ eOut' = Writer /\ oOut' = Writer
      /\ Spilled(Names(es') \cup Names(os'))
  BY DEF start_round
<1>20. /\ eOut' \in Writers(E) /\ oOut' \in Writers(O)
       /\ Kept(eOut') = {} /\ Kept(oOut') = {}
       /\ \A S : Written(eOut', S) = 0 /\ Written(oOut', S) = 0
       /\ \A l : RunsOrdered(l, eOut') /\ RunsOrdered(l, oOut')
       /\ eOut'.runs = <<>> /\ oOut'.runs = <<>> /\ Names(eOut'.runs) = {} /\ Names(oOut'.runs) = {}
       /\ Len(eOut'.buffer) < ChunkSize /\ Len(oOut'.buffer) < ChunkSize
  BY <1>9, EmptyWriter, ReconcileAssumption
<1>21. /\ disk' \in SUBSET RunNames
       /\ mode = "big" => Names(es') \cup Names(os') \subseteq disk'
       /\ \A f \in disk' : f[1] <= attempt'
       /\ disk' # {} => Large'
  <2>1. /\ Names(es') \cup Names(os') \subseteq RunNames
        /\ \A f \in Names(es') \cup Names(os') : f[1] = attempt
    BY <1>7, <1>8
  <2> QED BY <1>3, <1>5, <1>9, <2>1, SpilledFacts
<1>10. TypeInv'
  BY <1>1, <1>3, <1>5, <1>7, <1>8, <1>20, <1>21 DEF TypeInv, inputVars, Pairs
<1>11. PlaceInv'
  BY <1>3, <1>5, <1>20 DEF PlaceInv
<1>12. ConservationInv'
  <2>1. MatchedE' = MatchedE /\ MatchedO' = MatchedO
    BY <1>5 DEF MatchedE, MatchedO
  <2>2. ASSUME NEW S
        PROVE  /\ Num(expected', S) = Num(MatchedE', S) + Num(eGroup', S) + NumIn(eAt', S) + Written(eOut', S)
               /\ Num(in'.observed, S) = Num(MatchedO', S) + Num(oGroup', S) + NumIn(oAt', S) + Written(oOut', S)
    <3>1. /\ Num(expected, S) = Num(MatchedE, S) + Num(eGroup, S) + NumIn(eAt, S) + Written(eOut, S)
          /\ Num(in.observed, S) = Num(MatchedO, S) + Num(oGroup, S) + NumIn(oAt, S) + Written(oOut, S)
      BY <1>3 DEF ConservationInv
    <3>2. NumIn(eAt, S) = 0 /\ NumIn(oAt, S) = 0
      BY <1>3, NoLists
    <3>3. /\ Num(MatchedE, S) \in Nat /\ Num(eGroup, S) \in Nat /\ Written(eOut, S) \in Nat
          /\ Num(MatchedO, S) \in Nat /\ Num(oGroup, S) \in Nat /\ Written(oOut, S) \in Nat
      BY NumbersFacts
    <3>4. eGroup' = eGroup /\ oGroup' = oGroup
      BY <1>5
    <3>5. /\ NumIn(eAt', S) = Written(eOut, S) /\ Written(eOut', S) = 0
          /\ NumIn(oAt', S) = Written(oOut, S) /\ Written(oOut', S) = 0
      BY <1>7, <1>8, <1>20
    <3> QED BY <1>1, <2>1, <3>1, <3>2, <3>3, <3>4, <3>5
  <2> QED BY <1>3, <2>2 DEF ConservationInv
<1>13. OrderInv'
  BY <1>3, <1>5, <1>7, <1>8, <1>20 DEF OrderInv
<1>14. GroupInv'
  BY <1>3 DEF GroupInv
<1>15. ApartInv'
  <2>1. OpenE' = OpenE /\ OpenO' = OpenO
    BY <1>3, <1>5, <1>7, <1>8, <1>20, NoLists DEF OpenE, OpenO
  <2>2. \A l : BehindE(l)' = BehindE(l) /\ BehindO(l)' = BehindO(l)
    BY <1>5, <2>1 DEF BehindE, BehindO
  <2> QED BY <1>3, <1>5, <1>20, <2>1, <2>2 DEF ApartInv
<1>16. DuplicateInv'
  <2>1. \A id : Settled(id)' = Settled(id)
    BY <1>1, <1>5 DEF Settled
  <2>2. ASSUME NEW e \in E, level = POINT_ID PROVE Untouched(e.point_id)'
    <3>1. matched = <<>>
      BY <1>3, <2>2 DEF PlaceInv
    <3>2. ASSUME NEW S
          PROVE  Num(expected, S) = Written(eOut, S) /\ Num(in.observed, S) = Written(oOut, S)
      <4>1. /\ Num(expected, S) = Num(MatchedE, S) + Num(eGroup, S) + NumIn(eAt, S) + Written(eOut, S)
            /\ Num(in.observed, S) = Num(MatchedO, S) + Num(oGroup, S) + NumIn(oAt, S) + Written(oOut, S)
        BY <1>3 DEF ConservationInv
      <4>2. NumIn(eAt, S) = 0 /\ NumIn(oAt, S) = 0 /\ Num(eGroup, S) = 0 /\ Num(oGroup, S) = 0
        BY <1>3, NoLists, NumOne
      <4>3. Num(MatchedE, S) = 0 /\ Num(MatchedO, S) = 0
        BY <3>1, NoneMatched
      <4>4. Written(eOut, S) \in Nat /\ Written(oOut, S) \in Nat
        BY NumbersFacts
      <4> QED BY <4>1, <4>2, <4>3, <4>4
    <3>3. Num(expected, {e}) > 0
      BY <1>2, NumFacts DEF E
    <3>4. NumIn(eAt', {e}) > 0
      BY <1>7, <3>2, <3>3
    <3>5. e \in Held(eAt')
      <4>1. \E x \in Held(eAt') : x \in {e}
        BY <1>7, <3>4, NumInHeld
      <4> QED BY <4>1
    <3>6. NumIn(oAt', With(e.point_id)) = Num(in.observed, With(e.point_id))
      BY <1>8, <3>2
    <3> QED BY <1>1, <3>5, <3>6 DEF Untouched
  <2>3. ASSUME NEW e \in E, level # POINT_ID PROVE Settled(e.point_id)
    BY <1>3, <2>3 DEF DuplicateInv
  <2> QED BY <1>1, <1>3, <1>5, <2>1, <2>2, <2>3 DEF DuplicateInv
<1>17. ResultInv'
  BY <1>3 DEF ResultInv
<1>18. DiskInv'
  <2>1. RunFilesHold'
    BY <1>5, <1>20, <1>21 DEF RunFilesHold
  <2> QED BY <1>1, <1>3, <1>5, <1>20, <1>21, <2>1 DEF DiskInv
<1> QED BY <1>10, <1>11, <1>12, <1>13, <1>14, <1>15, <1>16, <1>17, <1>18

\* end_round: nothing is left to read; leftovers go to the next round or are
\* the outcome.
LEMMA EndRoundStep == ASSUME ReconcileInv, end_round PROVE ReconcileInv'
<1> USE DEF ReconcileInv
<1>1. /\ expected' = expected /\ E' = E /\ O' = O /\ in' = in /\ forced' = forced /\ given' = given
      /\ \A id : With(id)' = With(id)
      /\ Large' = Large
  BY InputStays DEF end_round
<1>2. /\ level \in CLOSING_LEVELS /\ eAt \in Seq(Seq(E)) /\ oAt \in Seq(Seq(O))
      /\ eOut \in Writers(E) /\ oOut \in Writers(O) /\ attempt \in Nat
  BY DEF TypeInv
<1>3. /\ pc = "join" /\ Joining /\ Working /\ ~Joining'
      /\ es' = <<>> /\ os' = <<>> /\ eAt' = <<>> /\ oAt' = <<>>
      /\ eGroup = <<>> /\ oGroup = <<>>
  <2>1. pc = "join" /\ pc' \in {"report", "round"}
    BY DEF end_round
  <2> QED BY <2>1 DEF end_round, PlaceInv, Joining, Working
<1>4. UNCHANGED <<inputVars, mode, eOut, oOut, eGroup, oGroup, matched, duplicates, attempt, verdict>>
  BY DEF end_round, groupVars
<1>5. /\ Held(eAt) = {} /\ Held(oAt) = {}
      /\ \A S : NumIn(eAt, S) = 0 /\ NumIn(oAt, S) = 0
  BY <1>2, NoneAlive DEF end_round
<1>6. MatchedE' = MatchedE /\ MatchedO' = MatchedO
  BY <1>4 DEF MatchedE, MatchedO
<1>7. ASSUME NEW S
      PROVE  /\ Num(expected', S) = Num(MatchedE', S) + Num(eGroup', S) + NumIn(eAt', S) + Written(eOut', S)
             /\ Num(in'.observed, S) = Num(MatchedO', S) + Num(oGroup', S) + NumIn(oAt', S) + Written(oOut', S)
  <2>1. /\ Num(expected, S) = Num(MatchedE, S) + Num(eGroup, S) + NumIn(eAt, S) + Written(eOut, S)
        /\ Num(in.observed, S) = Num(MatchedO, S) + Num(oGroup, S) + NumIn(oAt, S) + Written(oOut, S)
    BY <1>3 DEF ConservationInv
  <2>2. NumIn(eAt', S) = 0 /\ NumIn(oAt', S) = 0
    BY <1>3, NoLists
  <2>3. eGroup' = eGroup /\ oGroup' = oGroup /\ eOut' = eOut /\ oOut' = oOut
    BY <1>4
  <2> QED BY <1>1, <1>5, <1>6, <2>1, <2>2, <2>3
<1>8. OpenE' = OpenE /\ OpenO' = OpenO /\ OpenE = Kept(eOut) /\ OpenO = Kept(oOut)
  BY <1>3, <1>4, <1>5, NoLists DEF OpenE, OpenO
<1>9. \A l : BehindE(l)' = BehindE(l) /\ BehindO(l)' = BehindO(l)
  BY <1>4, <1>8 DEF BehindE, BehindO
<1>20. \A e \in E : Settled(e.point_id)
  <2> SUFFICES ASSUME NEW e \in E PROVE Settled(e.point_id)
    OBVIOUS
  <2>1. CASE level = POINT_ID
    <3>1. Untouched(e.point_id) \/ Settled(e.point_id)
      BY <1>3, <2>1 DEF DuplicateInv
    <3>2. ~Untouched(e.point_id)
      BY <1>5 DEF Untouched
    <3> QED BY <3>1, <3>2
  <2>2. CASE level # POINT_ID
    BY <1>3, <2>2 DEF DuplicateInv
  <2> QED BY <2>1, <2>2
<1>21. \A id : Settled(id)' = Settled(id)
  BY <1>1, <1>4 DEF Settled
<1>22. Names(es') = {} /\ Names(os') = {}
  BY <1>3 DEF Names
<1>23. CASE level = CHUNK_ID
  <2>1. /\ pc' = "report" /\ level' = level /\ result' = finalize(in, expected, Outcome)
        /\ disk' = IF mode = "big" THEN reset_work_dir(disk \ (Names(es) \cup Names(os))) ELSE disk
    BY <1>23 DEF end_round
  <2>2. ~Working' /\ Outcome' = Outcome
    BY <1>4, <2>1 DEF Working, Outcome
  <2>3. eOut.runs = <<>> /\ oOut.runs = <<>>
    BY <1>3, <1>23 DEF PlaceInv
  <2>10. TypeInv'
    <3>1. disk' \in SUBSET RunNames
      BY <2>1 DEF TypeInv, reset_work_dir
    <3>2. es' \in Runs(E) /\ os' \in Runs(O) /\ eAt' \in Seq(Seq(E)) /\ oAt' \in Seq(Seq(O))
      BY <1>3 DEF Runs
    <3> QED BY <1>1, <1>4, <2>1, <3>1, <3>2 DEF TypeInv, inputVars, Pairs
  <2>11. PlaceInv'
    BY <1>3, <1>4, <1>23, <2>1, <2>3 DEF PlaceInv
  <2>12. ConservationInv'
    BY <1>7, <2>1 DEF ConservationInv
  <2>13. OrderInv'
    BY <1>3, <2>1, <2>2 DEF OrderInv
  <2>14. GroupInv'
    BY <2>1 DEF GroupInv
  <2>15. ApartInv'
    <3>1. Judged' => Working
      BY <1>3
    <3>2. /\ \A e \in Kept(eOut'), o \in OpenO' : ~SameKey(level', e, o)
          /\ \A e \in OpenE', o \in Kept(oOut') : ~SameKey(level', e, o)
      BY <1>3, <1>4, <1>8, <2>1 DEF ApartInv
    <3>3. \A p \in Members(matched') : SameKey(p.level, p.expected, p.observed) /\ p.level <= level'
      BY <1>4, <2>1 DEF ApartInv
    <3>4. \A l \in CLOSING_LEVELS : l < level' =>
            \A e \in BehindE(l)', o \in BehindO(l)' : ~SameKey(l, e, o)
      BY <1>3, <1>9, <2>1 DEF ApartInv
    <3>5. pc' # "surplus"
      BY <2>1
    <3> QED BY <3>2, <3>3, <3>4, <3>5 DEF ApartInv
  <2>16. DuplicateInv'
    BY <1>1, <1>3, <1>20, <1>21 DEF DuplicateInv
  <2>17. ResultInv'
    BY <1>1, <2>1, <2>2 DEF ResultInv
  <2>18. DiskInv'
    <3>1. disk' \subseteq disk
      BY <2>1 DEF reset_work_dir
    <3>2. ASSUME NEW f \in disk' PROVE ~given /\ f[1] < attempt
      <4>1. mode = "big"
        BY <1>3, <2>1, <3>1, <3>2 DEF DiskInv, TypeInv
      <4>2. ~given /\ f[1] # attempt
        BY <2>1, <3>2, <4>1 DEF reset_work_dir
      <4>3. f[1] \in Nat /\ f[1] <= attempt
        BY <3>1, <3>2 DEF DiskInv, TypeInv, RunNames
      <4> QED BY <1>2, <4>2, <4>3
    <3>3. RunFilesHold'
      BY <1>4, <1>22, <1>23, <2>1 DEF RunFilesHold
    <3> QED BY <1>1, <1>4, <2>1, <2>2, <3>1, <3>2, <3>3 DEF DiskInv
  <2> QED BY <2>10, <2>11, <2>12, <2>13, <2>14, <2>15, <2>16, <2>17, <2>18
<1>24. CASE level # CHUNK_ID
  <2>1. /\ pc' = "round" /\ level' = level + 1 /\ result' = result
        /\ disk' = disk \ (Names(es) \cup Names(os))
    BY <1>24 DEF end_round
  <2>2. Working' /\ ~Judged'
    BY <2>1 DEF Working, Judged
  <2>3. level \in Nat /\ level' \in CLOSING_LEVELS /\ level' # POINT_ID
    BY <1>2, <1>24, <2>1 DEF CLOSING_LEVELS, POINT_ID, EMBEDDING_ID, CHUNK_ID
  <2>10. TypeInv'
    <3>1. disk' \in SUBSET RunNames
      BY <2>1 DEF TypeInv
    <3>2. es' \in Runs(E) /\ os' \in Runs(O) /\ eAt' \in Seq(Seq(E)) /\ oAt' \in Seq(Seq(O))
      BY <1>3 DEF Runs
    <3> QED BY <1>1, <1>4, <2>1, <2>3, <3>1, <3>2 DEF TypeInv, inputVars, Pairs
  <2>11. PlaceInv'
    BY <1>3, <1>4, <2>1, <2>2, <2>3 DEF PlaceInv
  <2>12. ConservationInv'
    BY <1>7, <2>1 DEF ConservationInv
  <2>13. OrderInv'
    BY <1>3, <1>4, <2>1 DEF OrderInv
  <2>14. GroupInv'
    BY <2>1 DEF GroupInv
  <2>15. ApartInv'
    <3>1. \A p \in Members(matched') : SameKey(p.level, p.expected, p.observed) /\ p.level <= level /\ p.level \in CLOSING_LEVELS
      BY <1>4, MatchedFacts DEF ApartInv
    <3>2. \A p \in Members(matched') : p.level <= level'
      BY <2>1, <2>3, <3>1 DEF CLOSING_LEVELS, POINT_ID, EMBEDDING_ID, CHUNK_ID
    <3>3. ASSUME NEW l \in CLOSING_LEVELS, l < level', NEW e \in BehindE(l)', NEW o \in BehindO(l)'
          PROVE  ~SameKey(l, e, o)
      <4>1. e \in BehindE(l) /\ o \in BehindO(l)
        BY <1>9, <3>3
      <4>2. CASE l < level
        BY <1>3, <4>1, <4>2 DEF ApartInv
      <4>3. CASE l = level
        <5>1. \A p \in Members(matched) : ~(p.level > l)
          <6>1. \A p \in Members(matched) : p.level <= level /\ p.level \in CLOSING_LEVELS
            BY MatchedFacts DEF ApartInv
          <6> QED BY <2>3, <4>3, <6>1 DEF CLOSING_LEVELS, POINT_ID, EMBEDDING_ID, CHUNK_ID
        <5>2. e \in Kept(eOut) /\ o \in OpenO
          BY <1>8, <4>1, <5>1 DEF BehindE, BehindO
        <5> QED BY <1>3, <4>3, <5>2 DEF ApartInv
      <4>4. l < level \/ l = level
        BY <2>1, <2>3, <3>3 DEF CLOSING_LEVELS, POINT_ID, EMBEDDING_ID, CHUNK_ID
      <4> QED BY <4>2, <4>3, <4>4
    <3>4. pc' # "surplus"
      BY <2>1
    <3> QED BY <1>3, <2>2, <3>1, <3>2, <3>3, <3>4 DEF ApartInv
  <2>16. DuplicateInv'
    BY <1>1, <1>3, <1>20, <1>21 DEF DuplicateInv
  <2>17. ResultInv'
    BY <2>1, <2>2 DEF ResultInv
  <2>18. DiskInv'
    <3>1. RunFilesHold'
      BY <1>4, <1>22, <1>24 DEF DiskInv, RunFilesHold
    <3>2. mode = "big" <=> Large
      BY <1>3 DEF DiskInv
    <3>3. /\ \A f \in disk : f[1] <= attempt
          /\ \A f \in Names(eOut.runs) \cup Names(oOut.runs) : f[1] = attempt
          /\ disk # {} => Large
      BY DEF DiskInv
    <3> QED BY <1>1, <1>4, <2>1, <3>1, <3>2, <3>3 DEF DiskInv
  <2> QED BY <2>10, <2>11, <2>12, <2>13, <2>14, <2>15, <2>16, <2>17, <2>18
<1> QED BY <1>23, <1>24

\* report: the verdict.
LEMMA ReportStep == ASSUME ReconcileInv, report PROVE ReconcileInv'
<1> USE DEF ReconcileInv
<1>1. /\ expected' = expected /\ E' = E /\ O' = O /\ in' = in /\ forced' = forced /\ given' = given
      /\ \A id : With(id)' = With(id)
      /\ Large' = Large
  BY InputStays DEF report
<1>2. /\ UNCHANGED <<inputVars, mode, level, es, os, eAt, oAt, eOut, oOut, eGroup, oGroup, matched, duplicates, disk, attempt, result>>
      /\ pc = "report" /\ pc' = "done" /\ verdict' = evaluate_policy(in.policy, result)
  BY DEF report, runVars, groupVars
<1>3. Judged' = Judged /\ ~Working /\ ~Working' /\ ~Joining /\ ~Joining'
  BY <1>2 DEF Judged, Working, Joining
<1>10. TypeInv'
  BY <1>1, <1>2 DEF TypeInv, inputVars, Pairs
<1>11. PlaceInv'
  BY <1>2, <1>3 DEF PlaceInv
<1>12. ConservationInv'
  BY <1>1, <1>2, <1>3 DEF ConservationInv, MatchedE, MatchedO
<1>13. OrderInv'
  BY <1>2, <1>3 DEF OrderInv
<1>14. GroupInv'
  BY <1>2 DEF GroupInv
<1>15. ApartInv'
  <2>1. OpenE' = OpenE /\ OpenO' = OpenO
    BY <1>2 DEF OpenE, OpenO
  <2>2. \A l : BehindE(l)' = BehindE(l) /\ BehindO(l)' = BehindO(l)
    BY <1>2, <2>1 DEF BehindE, BehindO
  <2> QED BY <1>2, <1>3, <2>1, <2>2 DEF ApartInv
<1>16. DuplicateInv'
  BY <1>1, <1>2, <1>3 DEF DuplicateInv, Settled
<1>17. ResultInv'
  BY <1>1, <1>2, <1>3 DEF ResultInv, Outcome
<1>18. DiskInv'
  BY <1>1, <1>2, <1>3 DEF DiskInv, RunFilesHold
<1> QED BY <1>10, <1>11, <1>12, <1>13, <1>14, <1>15, <1>16, <1>17, <1>18

\* Crash: what the process had is gone, its files stay.
LEMMA CrashStep == ASSUME ReconcileInv, Crash PROVE ReconcileInv'
<1> USE DEF ReconcileInv
<1>1. /\ expected' = expected /\ E' = E /\ O' = O /\ in' = in /\ forced' = forced /\ given' = given
      /\ Large' = Large
  BY InputStays DEF Crash
<1>2. /\ UNCHANGED <<inputVars, mode, disk, attempt, verdict>>
      /\ pc' = "crashed" /\ level' = POINT_ID
      /\ es' = <<>> /\ os' = <<>> /\ eAt' = <<>> /\ oAt' = <<>>
      /\ eGroup' = <<>> /\ oGroup' = <<>> /\ matched' = <<>> /\ duplicates' = {}
      /\ eOut' = Writer /\ oOut' = Writer
  BY DEF Crash
<1>3. ~Judged' /\ ~Working' /\ ~Joining'
  BY <1>2 DEF Judged, Working, Joining
<1>4. /\ eOut' \in Writers(E) /\ oOut' \in Writers(O)
      /\ Names(eOut'.runs) = {} /\ Names(oOut'.runs) = {}
      /\ Len(eOut'.buffer) < ChunkSize /\ Len(oOut'.buffer) < ChunkSize
  BY <1>2, EmptyWriter, ReconcileAssumption
<1>10. TypeInv'
  <2>1. /\ es' \in Runs(E) /\ os' \in Runs(O) /\ eAt' \in Seq(Seq(E)) /\ oAt' \in Seq(Seq(O))
        /\ eGroup' \in Seq(E) /\ oGroup' \in Seq(O) /\ matched' \in Seq(Pairs)
    BY <1>2 DEF Runs
  <2>2. level' \in CLOSING_LEVELS
    BY <1>2 DEF CLOSING_LEVELS
  <2> QED BY <1>1, <1>2, <1>4, <2>1, <2>2 DEF TypeInv, inputVars, Pairs
<1>11. PlaceInv'
  BY <1>2, <1>3 DEF PlaceInv
<1>12. ConservationInv'
  BY <1>2, <1>3 DEF ConservationInv
<1>13. OrderInv'
  BY <1>2, <1>3 DEF OrderInv
<1>14. GroupInv'
  BY <1>2 DEF GroupInv
<1>15. ApartInv'
  <2>1. Members(matched') = {}
    BY <1>2, NoLists
  <2> QED BY <1>2, <1>3, <2>1 DEF ApartInv
<1>16. DuplicateInv'
  BY <1>3 DEF DuplicateInv
<1>17. ResultInv'
  BY <1>2, <1>3 DEF ResultInv
<1>18. DiskInv'
  <2>1. Names(es') = {} /\ Names(os') = {}
    BY <1>2 DEF Names
  <2>2. RunFilesHold'
    BY <1>4, <2>1 DEF RunFilesHold
  <2> QED BY <1>1, <1>2, <1>3, <1>4, <2>2 DEF DiskInv
<1> QED BY <1>10, <1>11, <1>12, <1>13, <1>14, <1>15, <1>16, <1>17, <1>18

\* Restart: the next attempt.
LEMMA RestartStep == ASSUME ReconcileInv, Restart PROVE ReconcileInv'
<1> USE DEF ReconcileInv
<1>1. /\ expected' = expected /\ E' = E /\ O' = O /\ in' = in /\ forced' = forced /\ given' = given
      /\ Large' = Large
  BY InputStays DEF Restart
<1>2. /\ UNCHANGED <<inputVars, mode, level, es, os, eAt, oAt, eOut, oOut, eGroup, oGroup, matched, duplicates, disk>>
      /\ pc = "crashed" /\ pc' = "begin" /\ attempt' = attempt + 1 /\ attempt \in Nat
      /\ level = POINT_ID /\ matched = <<>> /\ duplicates = {}
      /\ es = <<>> /\ os = <<>> /\ eAt = <<>> /\ oAt = <<>> /\ eGroup = <<>> /\ oGroup = <<>>
      /\ eOut = Writer /\ oOut = Writer
  BY DEF Restart, runVars, groupVars, TypeInv, PlaceInv, Joining
<1>3. ~Judged' /\ ~Working' /\ ~Joining'
  BY <1>2 DEF Judged, Working, Joining
<1>10. TypeInv'
  BY <1>1, <1>2 DEF TypeInv, inputVars, Pairs
<1>11. PlaceInv'
  BY <1>2, <1>3 DEF PlaceInv
<1>12. ConservationInv'
  BY <1>2, <1>3 DEF ConservationInv
<1>13. OrderInv'
  BY <1>2, <1>3 DEF OrderInv
<1>14. GroupInv'
  BY <1>2 DEF GroupInv
<1>15. ApartInv'
  <2>1. Members(matched') = {}
    BY <1>2, NoLists
  <2> QED BY <1>2, <1>3, <2>1 DEF ApartInv
<1>16. DuplicateInv'
  BY <1>3 DEF DuplicateInv
<1>17. ResultInv'
  BY <1>2, <1>3 DEF ResultInv
<1>18. DiskInv'
  <2>1. \A f \in disk' : f[1] <= attempt'
    <3>1. \A f \in disk : f[1] <= attempt /\ f[1] \in Nat
      BY DEF DiskInv, TypeInv, RunNames
    <3> QED BY <1>2, <3>1
  <2>2. Names(eOut'.runs) = {} /\ Names(oOut'.runs) = {}
    BY <1>2, EmptyWriter
  <2>3. RunFilesHold'
    BY <1>2 DEF DiskInv, RunFilesHold
  <2>4. disk' # {} => Large'
    BY <1>1, <1>2 DEF DiskInv
  <2> QED BY <1>1, <1>2, <1>3, <2>1, <2>2, <2>3, <2>4 DEF DiskInv
<1> QED BY <1>10, <1>11, <1>12, <1>13, <1>14, <1>15, <1>16, <1>17, <1>18

\* Nothing happened yet.
LEMMA InitHolds == ASSUME Init PROVE ReconcileInv
<1> USE DEF ReconcileInv
<1>1. /\ in \in Inputs /\ forced \in BOOLEAN /\ given \in BOOLEAN
      /\ mode = "small" /\ pc = "begin" /\ level = POINT_ID
      /\ es = <<>> /\ os = <<>> /\ eAt = <<>> /\ oAt = <<>> /\ eOut = Writer /\ oOut = Writer
      /\ eGroup = <<>> /\ oGroup = <<>> /\ matched = <<>> /\ duplicates = {}
      /\ disk = {} /\ attempt = 1
  BY DEF Init
<1>2. ~Judged /\ ~Working /\ ~Joining
  BY <1>1 DEF Judged, Working, Joining
<1>3. /\ eOut \in Writers(E) /\ oOut \in Writers(O)
      /\ Names(eOut.runs) = {} /\ Names(oOut.runs) = {}
      /\ Len(eOut.buffer) < ChunkSize /\ Len(oOut.buffer) < ChunkSize
  BY <1>1, EmptyWriter, ReconcileAssumption
<1>10. TypeInv
  <2>1. /\ es \in Runs(E) /\ os \in Runs(O) /\ eAt \in Seq(Seq(E)) /\ oAt \in Seq(Seq(O))
        /\ eGroup \in Seq(E) /\ oGroup \in Seq(O) /\ matched \in Seq(Pairs)
    BY <1>1 DEF Runs
  <2>2. level \in CLOSING_LEVELS
    BY <1>1 DEF CLOSING_LEVELS
  <2> QED BY <1>1, <1>3, <2>1, <2>2 DEF TypeInv
<1>11. PlaceInv
  BY <1>1, <1>2 DEF PlaceInv
<1>12. ConservationInv
  BY <1>1, <1>2 DEF ConservationInv
<1>13. OrderInv
  BY <1>1, <1>2 DEF OrderInv
<1>14. GroupInv
  BY <1>1 DEF GroupInv
<1>15. ApartInv
  <2>1. Members(matched) = {}
    BY <1>1, NoLists
  <2> QED BY <1>1, <1>2, <2>1 DEF ApartInv
<1>16. DuplicateInv
  BY <1>2 DEF DuplicateInv
<1>17. ResultInv
  BY <1>1, <1>2 DEF ResultInv
<1>18. DiskInv
  <2>1. Names(es) = {} /\ Names(os) = {}
    BY <1>1 DEF Names
  <2>2. RunFilesHold
    BY <1>3, <2>1 DEF RunFilesHold
  <2> QED BY <1>1, <1>2, <1>3, <2>2 DEF DiskInv
<1> QED BY <1>10, <1>11, <1>12, <1>13, <1>14, <1>15, <1>16, <1>17, <1>18

\* A step that changes nothing.
LEMMA Stutters == ASSUME ReconcileInv, UNCHANGED vars PROVE ReconcileInv'
<1> USE DEF ReconcileInv
<1>1. /\ expected' = expected /\ E' = E /\ O' = O /\ in' = in /\ forced' = forced /\ given' = given
      /\ \A id : With(id)' = With(id)
      /\ Large' = Large
  BY InputStays DEF vars
<1>2. UNCHANGED <<inputVars, mode, pc, level, es, os, eAt, oAt, eOut, oOut, eGroup, oGroup, matched, duplicates,
                  disk, attempt, result, verdict>>
  BY DEF vars, runVars, groupVars, endVars
<1>3. (Judged' <=> Judged) /\ (Working' <=> Working) /\ (Joining' <=> Joining)
  BY <1>2 DEF Judged, Working, Joining
<1>10. TypeInv'
  BY <1>1, <1>2 DEF TypeInv, inputVars, Pairs
<1>11. PlaceInv'
  BY <1>2, <1>3 DEF PlaceInv
<1>12. ConservationInv'
  BY <1>1, <1>2, <1>3 DEF ConservationInv, MatchedE, MatchedO
<1>13. OrderInv'
  BY <1>2, <1>3 DEF OrderInv
<1>14. GroupInv'
  BY <1>2 DEF GroupInv, GroupKey
<1>15. ApartInv'
  <2>1. OpenE' = OpenE /\ OpenO' = OpenO
    BY <1>2 DEF OpenE, OpenO
  <2>2. \A l : BehindE(l)' = BehindE(l) /\ BehindO(l)' = BehindO(l)
    BY <1>2, <2>1 DEF BehindE, BehindO
  <2> QED BY <1>2, <1>3, <2>1, <2>2 DEF ApartInv
<1>16. DuplicateInv'
  BY <1>1, <1>2, <1>3 DEF DuplicateInv, Settled, Untouched, GroupKey
<1>17. ResultInv'
  BY <1>1, <1>2, <1>3 DEF ResultInv, Outcome
<1>18. DiskInv'
  BY <1>1, <1>2, <1>3 DEF DiskInv, RunFilesHold
<1> QED BY <1>10, <1>11, <1>12, <1>13, <1>14, <1>15, <1>16, <1>17, <1>18

\* Every step keeps all of it, on both paths and across kills.
THEOREM ReconcileInvariant == Spec => []ReconcileInv
<1>1. Init => ReconcileInv
  BY InitHolds
<1>2. ReconcileInv /\ [Next]_vars => ReconcileInv'
  <2> SUFFICES ASSUME ReconcileInv, [Next]_vars PROVE ReconcileInv'
    OBVIOUS
  <2>1. CASE begin
    BY <2>1, BeginStep
  <2>2. CASE spill
    BY <2>2, SpillStep
  <2>3. CASE start_round
    BY <2>3, StartRoundStep
  <2>4. CASE leftover_expected
    BY <2>4, LeftoverExpectedStep
  <2>5. CASE leftover_observed
    BY <2>5, LeftoverObservedStep
  <2>6. CASE open_group
    BY <2>6, OpenGroupStep
  <2>7. CASE grow_group
    <3>1. ASSUME MoreE, eGroup' = Append(eGroup, HeadOf(eAt)), eAt' = Pop(eAt), UNCHANGED <<oGroup, oAt>> PROVE ReconcileInv'
      BY <2>7, <3>1, GrowExpectedStep DEF grow_group
    <3>2. ASSUME ~MoreE, MoreO, oGroup' = Append(oGroup, HeadOf(oAt)), oAt' = Pop(oAt), UNCHANGED <<eGroup, eAt>> PROVE ReconcileInv'
      BY <2>7, <3>2, GrowObservedStep DEF grow_group
    <3> QED BY <2>7, <3>1, <3>2 DEF grow_group
  <2>8. CASE close_group
    BY <2>8, CloseGroupStep
  <2>9. CASE surplus
    BY <2>9, SurplusExpectedStep, SurplusObservedStep
  <2>10. CASE end_round
    BY <2>10, EndRoundStep
  <2>11. CASE report
    BY <2>11, ReportStep
  <2>12. CASE Crash
    BY <2>12, CrashStep
  <2>13. CASE Restart
    BY <2>13, RestartStep
  <2>14. CASE UNCHANGED vars
    BY <2>14, Stutters
  <2> QED BY <2>1, <2>2, <2>3, <2>4, <2>5, <2>6, <2>7, <2>8, <2>9, <2>10, <2>11, <2>12, <2>13, <2>14
          DEF Next, Step, stream_merge_join
<1> QED BY <1>1, <1>2, PTL DEF Spec

-----------------------------------------------------------------------------
(* What the invariant says of an outcome *)

\* Each expected item is as often in a pair or left over as in the manifest,
\* each observed one as in the snapshot.
LEMMA OutcomeCounts ==
  ASSUME ReconcileInv, Judged, NEW S
  PROVE  /\ Num(expected, S) = Num(MatchedE, S) + Num(eOut.buffer, S)
         /\ Num(in.observed, S) = Num(MatchedO, S) + Num(oOut.buffer, S)
         /\ Num(MatchedE, S) \in Nat /\ Num(eOut.buffer, S) \in Nat
         /\ Num(MatchedO, S) \in Nat /\ Num(oOut.buffer, S) \in Nat
<1> USE DEF ReconcileInv
<1>1. /\ level = CHUNK_ID /\ eOut.runs = <<>> /\ oOut.runs = <<>>
      /\ eGroup = <<>> /\ oGroup = <<>> /\ eAt = <<>> /\ oAt = <<>>
  BY DEF PlaceInv, Judged, Joining
<1>2. /\ Num(expected, S) = Num(MatchedE, S) + Num(eGroup, S) + NumIn(eAt, S) + Written(eOut, S)
      /\ Num(in.observed, S) = Num(MatchedO, S) + Num(oGroup, S) + NumIn(oAt, S) + Written(oOut, S)
  BY DEF ConservationInv
<1>3. Num(eGroup, S) = 0 /\ Num(oGroup, S) = 0 /\ NumIn(eAt, S) = 0 /\ NumIn(oAt, S) = 0
  BY <1>1, NumOne, NoLists
<1>4. Lines(eOut.runs) = <<>> /\ Lines(oOut.runs) = <<>>
  BY <1>1 DEF Lines
<1>5. NumIn(Lines(eOut.runs), S) = 0 /\ NumIn(Lines(oOut.runs), S) = 0
  BY <1>4, NoLists
<1>6. eOut.buffer \in Seq(E) /\ oOut.buffer \in Seq(O)
  BY DEF TypeInv, Writers
<1>7. Num(eOut.buffer, S) \in Nat /\ Num(oOut.buffer, S) \in Nat
  BY <1>6, NumFacts
<1>8. Num(MatchedE, S) \in Nat /\ Num(MatchedO, S) \in Nat
  BY NumbersFacts
<1> QED BY <1>2, <1>3, <1>5, <1>7, <1>8 DEF Written

\* An item is in a list exactly if it is there at least once.
LEMMA NumOf ==
  ASSUME NEW U, NEW s \in Seq(U), NEW x
  PROVE  Num(s, {x}) > 0 <=> x \in Members(s)
<1>1. Num(s, {x}) > 0 <=> \E y \in Members(s) : y \in {x}
  BY NumFacts
<1> QED BY <1>1

\* The items of the pairs.
LEMMA MatchedMembers ==
  /\ Members(MatchedE) = {p.expected : p \in Members(matched)}
  /\ Members(MatchedO) = {p.observed : p \in Members(matched)}
<1>1. /\ DOMAIN MatchedE = DOMAIN matched /\ DOMAIN MatchedO = DOMAIN matched
      /\ \A i \in DOMAIN matched : MatchedE[i] = matched[i].expected /\ MatchedO[i] = matched[i].observed
  BY DEF MatchedE, MatchedO
<1> QED BY <1>1 DEF Members

\* Every point ends in one place, and what could be matched is matched.
LEMMA SoundMatching == ASSUME ReconcileInv PROVE MatchingIsSound
<1> SUFFICES ASSUME Judged PROVE MatchingIsSound
  BY DEF MatchingIsSound
<1> USE DEF ReconcileInv
<1>1. /\ expected \in Seq(E) /\ in.observed \in Seq(O)
      /\ MatchedE \in Seq(E) /\ MatchedO \in Seq(O)
      /\ eOut.buffer \in Seq(E) /\ oOut.buffer \in Seq(O)
  BY InputFacts, MatchedFacts DEF TypeInv, Writers
<1>2. Members(expected) = {p.expected : p \in Members(matched)} \cup missing
  <2>1. ASSUME NEW x PROVE x \in Members(expected) <=> x \in Members(MatchedE) \/ x \in Members(eOut.buffer)
    <3>1. /\ Num(expected, {x}) = Num(MatchedE, {x}) + Num(eOut.buffer, {x})
          /\ Num(MatchedE, {x}) \in Nat /\ Num(eOut.buffer, {x}) \in Nat
      BY OutcomeCounts
    <3>2. /\ Num(expected, {x}) > 0 <=> x \in Members(expected)
          /\ Num(MatchedE, {x}) > 0 <=> x \in Members(MatchedE)
          /\ Num(eOut.buffer, {x}) > 0 <=> x \in Members(eOut.buffer)
      BY <1>1, NumOf
    <3> QED BY <3>1, <3>2
  <2>2. Members(MatchedE) = {p.expected : p \in Members(matched)}
    BY MatchedMembers
  <2> QED BY <2>1, <2>2 DEF missing
<1>3. Members(in.observed) = {p.observed : p \in Members(matched)} \cup orphan
  <2> DEFINE ob == in.observed
  <2> HIDE DEF ob
  <2>1. ASSUME NEW x PROVE x \in Members(ob) <=> x \in Members(MatchedO) \/ x \in Members(oOut.buffer)
    <3>1. /\ Num(ob, {x}) = Num(MatchedO, {x}) + Num(oOut.buffer, {x})
          /\ Num(MatchedO, {x}) \in Nat /\ Num(oOut.buffer, {x}) \in Nat
      BY OutcomeCounts DEF ob
    <3>2. ob \in Seq(O)
      BY <1>1 DEF ob
    <3>3. /\ Num(ob, {x}) > 0 <=> x \in Members(ob)
          /\ Num(MatchedO, {x}) > 0 <=> x \in Members(MatchedO)
          /\ Num(oOut.buffer, {x}) > 0 <=> x \in Members(oOut.buffer)
      BY <1>1, <3>2, NumOf
    <3> QED BY <3>1, <3>3
  <2>2. Members(MatchedO) = {p.observed : p \in Members(matched)}
    BY MatchedMembers
  <2> QED BY <2>1, <2>2 DEF orphan, ob
<1>4. Len(expected) = Len(matched) + Len(eOut.buffer)
  <2>1. Num(expected, E) = Num(MatchedE, E) + Num(eOut.buffer, E)
    BY OutcomeCounts
  <2>2. ASSUME NEW s \in Seq(E) PROVE Num(s, E) = Len(s)
    <3>1. \A x \in Members(s) : x \in E
      BY DEF Members
    <3> QED BY <3>1, NumFacts
  <2>3. Num(expected, E) = Len(expected) /\ Num(MatchedE, E) = Len(MatchedE) /\ Num(eOut.buffer, E) = Len(eOut.buffer)
    BY <1>1, <2>2
  <2> QED BY <2>1, <2>3, MatchedFacts
<1>5. Len(in.observed) = Len(matched) + Len(oOut.buffer)
  <2> DEFINE ob == in.observed
  <2> HIDE DEF ob
  <2>1. Num(ob, O) = Num(MatchedO, O) + Num(oOut.buffer, O)
    BY OutcomeCounts DEF ob
  <2>2. ASSUME NEW s \in Seq(O) PROVE Num(s, O) = Len(s)
    <3>1. \A x \in Members(s) : x \in O
      BY DEF Members
    <3> QED BY <3>1, NumFacts
  <2>3. ob \in Seq(O)
    BY <1>1 DEF ob
  <2>4. Num(ob, O) = Len(ob) /\ Num(MatchedO, O) = Len(MatchedO) /\ Num(oOut.buffer, O) = Len(oOut.buffer)
    BY <1>1, <2>2, <2>3
  <2>5. Len(ob) = Len(matched) + Len(oOut.buffer)
    BY <2>1, <2>4, MatchedFacts
  <2> QED BY <2>5 DEF ob
<1>6. \A p \in Members(matched) : SameKey(p.level, p.expected, p.observed) /\ p.level \in CLOSING_LEVELS
  BY MatchedFacts DEF ApartInv
<1>7. ASSUME NEW e \in Members(expected), NEW o \in Members(in.observed), NEW l \in CLOSING_LEVELS,
             l < ExpectedLevel(e), l < ObservedLevel(o)
      PROVE  ~SameKey(l, e, o)
  <2>1. level = CHUNK_ID
    BY DEF PlaceInv
  <2>2. missing \subseteq Kept(eOut) /\ orphan \subseteq Kept(oOut)
    BY DEF missing, orphan, Kept
  <2>3. e \in BehindE(l) /\ (l = CHUNK_ID => e \in missing)
    <3>1. CASE e \in missing
      BY <2>2, <3>1 DEF BehindE, OpenE
    <3>2. CASE e \notin missing
      <4>1. PICK p \in Members(matched) : p.expected = e /\ ExpectedLevel(e) = p.level
        <5>1. \E p \in Members(matched) : p.expected = e
          BY <1>2, <3>2
        <5> QED BY <3>2, <5>1 DEF ExpectedLevel
      <4>2. p.level > l /\ l # CHUNK_ID
        BY <1>6, <1>7, <4>1 DEF CLOSING_LEVELS, POINT_ID, EMBEDDING_ID, CHUNK_ID
      <4> QED BY <4>1, <4>2 DEF BehindE
    <3> QED BY <3>1, <3>2
  <2>4. o \in BehindO(l) /\ (l = CHUNK_ID => o \in orphan)
    <3>1. CASE o \in orphan
      BY <2>2, <3>1 DEF BehindO, OpenO
    <3>2. CASE o \notin orphan
      <4>1. PICK p \in Members(matched) : p.observed = o /\ ObservedLevel(o) = p.level
        <5>1. \E p \in Members(matched) : p.observed = o
          BY <1>3, <3>2
        <5> QED BY <3>2, <5>1 DEF ObservedLevel
      <4>2. p.level > l /\ l # CHUNK_ID
        BY <1>6, <1>7, <4>1 DEF CLOSING_LEVELS, POINT_ID, EMBEDDING_ID, CHUNK_ID
      <4> QED BY <4>1, <4>2 DEF BehindO
    <3> QED BY <3>1, <3>2
  <2>5. CASE l = CHUNK_ID
    <3>1. e \in Kept(eOut) /\ o \in OpenO
      BY <2>2, <2>3, <2>4, <2>5 DEF OpenO
    <3> QED BY <2>1, <2>5, <3>1 DEF ApartInv
  <2>6. CASE l # CHUNK_ID
    <3>1. l < level
      BY <2>1, <2>6 DEF CLOSING_LEVELS, POINT_ID, EMBEDDING_ID, CHUNK_ID
    <3> QED BY <2>3, <2>4, <3>1 DEF ApartInv
  <2> QED BY <2>5, <2>6
<1> QED BY <1>2, <1>3, <1>4, <1>5, <1>6, <1>7 DEF MatchingIsSound

\* match_all_levels, reconcile_big_data: no point is lost, made or matched
\* twice, a pair shares a key, and a level leaves no two points that share one.
THEOREM MatchingHolds == Spec => []MatchingIsSound
  BY ReconcileInvariant, SoundMatching, PTL

-----------------------------------------------------------------------------
(* What is reported and proposed *)

\* A key that is there twice is counted twice.
LEMMA TwiceIsMore ==
  ASSUME NEW U, NEW s \in Seq(U), NEW S, NEW i \in DOMAIN s, NEW j \in DOMAIN s, i # j, s[i] \in S, s[j] \in S
  PROVE  Num(s, S) > 1
<1> DEFINE A == {k \in DOMAIN s : s[k] \in S}
<1>1. IsFiniteSet(A) /\ Cardinality(A) \in Nat
  BY NumFacts, FS_CardinalityType
<1>2. {i, j} \in SUBSET A
  OBVIOUS
<1>3. {i} \in SUBSET {i, j} /\ {i} # {i, j}
  OBVIOUS
<1> HIDE DEF A
<1>4. IsFiniteSet({i, j}) /\ Cardinality({i, j}) <= Cardinality(A)
  BY <1>1, <1>2, FS_Subset
<1>5. Cardinality({i}) = 1 /\ Cardinality({i}) <= Cardinality({i, j})
  BY <1>3, <1>4, FS_Singleton, FS_Subset
<1>6. Cardinality({i}) # Cardinality({i, j})
  BY <1>3, <1>4, FS_Subset
<1>7. Cardinality({i, j}) \in Nat
  BY <1>4, FS_CardinalityType
<1> QED BY <1>1, <1>4, <1>5, <1>6, <1>7 DEF Num, A

\* The findings of an outcome.
OfPairs      == UNION {compare_matched_pair(p, in.manifest.sources, in.policy) : p \in Members(matched)}
OfMissing    == {classify_missing(e) : e \in missing}
OfOrphans    == {classify_orphan(o, in.manifest.sources) : o \in orphan}
OfDuplicates == {duplicate_finding(g) : g \in duplicates}

AllFindings == OfPairs \cup OfMissing \cup OfOrphans \cup OfDuplicates \cup WholeFindings(in)

LEMMA FindingsOfOutcome == ASSUME ReconcileInv, Judged PROVE result.findings = AllFindings
<1>1. result = finalize(in, expected, Outcome)
  BY DEF ReconcileInv, ResultInv
<1>2. /\ Outcome.matched = matched /\ Outcome.missing = eOut.buffer
      /\ Outcome.orphan = oOut.buffer /\ Outcome.duplicates = duplicates
  BY DEF Outcome
<1>3. AllFindings =
        (UNION {compare_matched_pair(p, in.manifest.sources, in.policy) : p \in Members(matched)})
          \cup {classify_missing(e) : e \in Members(eOut.buffer)}
          \cup {classify_orphan(o, in.manifest.sources) : o \in Members(oOut.buffer)}
          \cup {duplicate_finding(g) : g \in duplicates} \cup WholeFindings(in)
  BY DEF AllFindings, OfPairs, OfMissing, OfOrphans, OfDuplicates, missing, orphan
<1>4. finalize(in, expected, Outcome).findings =
        (UNION {compare_matched_pair(p, in.manifest.sources, in.policy) : p \in Members(matched)})
          \cup {classify_missing(e) : e \in Members(eOut.buffer)}
          \cup {classify_orphan(o, in.manifest.sources) : o \in Members(oOut.buffer)}
          \cup {duplicate_finding(g) : g \in duplicates} \cup WholeFindings(in)
  BY <1>2, Zenon DEF finalize
<1> QED BY <1>1, <1>3, <1>4, Zenon

LEMMA AllDuplicatesReported == ASSUME ReconcileInv PROVE DuplicatesReported
<1> USE DEF ReconcileInv
<1> SUFFICES ASSUME Judged, NEW i \in DOMAIN in.observed, NEW j \in DOMAIN in.observed,
                    i < j, in.observed[j].point_id = in.observed[i].point_id,
                    NEW e \in Members(expected), e.point_id = in.observed[i].point_id
             PROVE  \E f \in result.findings : f.code = "DUPLICATE_POINT_ID" /\ f.subject = in.observed[i].point_id
  BY DEF DuplicatesReported
<1> DEFINE id == e.point_id
           g == [level |-> POINT_ID, key |-> id]
<1>1. Num(in.observed, With(id)) > 1
  <2> DEFINE ob == in.observed
  <2>1. ob \in Seq(O) /\ ob[i] \in O /\ ob[j] \in O
    BY InputFacts DEF TypeInv
  <2>2. ob[i] \in With(id) /\ ob[j] \in With(id)
    BY <2>1 DEF With
  <2>3. i \in DOMAIN ob /\ j \in DOMAIN ob /\ i # j
    BY <2>1
  <2> HIDE DEF ob, id
  <2>4. Num(ob, With(id)) > 1
    BY <2>1, <2>2, <2>3, TwiceIsMore
  <2> QED BY <2>4 DEF ob
<1>2. g \in duplicates
  <2>1. Settled(id)
    BY DEF DuplicateInv, E
  <2> QED BY <1>1, <2>1 DEF Settled
<1>3. duplicate_finding(g) \in result.findings
  <2>1. result.findings = AllFindings
    BY FindingsOfOutcome
  <2> HIDE DEF g
  <2>2. duplicate_finding(g) \in OfDuplicates
    BY <1>2, Zenon DEF OfDuplicates
  <2> QED BY <2>1, <2>2 DEF AllFindings
<1>4. duplicate_finding(g).code = "DUPLICATE_POINT_ID" /\ duplicate_finding(g).subject = id
  BY DEF duplicate_finding, build_finding
<1> QED BY <1>3, <1>4

\* A point id that is observed twice and expected is a finding, on both paths
\* and whatever runs the points were spilled to.
THEOREM DuplicatesAreReported == Spec => []DuplicatesReported
  BY ReconcileInvariant, AllDuplicatesReported, PTL

\* Every severity is one of these.
LEMMA SeverityFacts ==
  ASSUME NEW code
  PROVE  /\ DEFAULT_SEVERITY(code) \in {Medium, High, Critical}
         /\ \A subject, field : build_finding(code, subject, field).severity = DEFAULT_SEVERITY(code)
<1>1. DEFAULT_SEVERITY(code) \in {Medium, High, Critical}
  BY DEF DEFAULT_SEVERITY
<1>2. \A subject, field : build_finding(code, subject, field).severity = DEFAULT_SEVERITY(code)
  BY DEF build_finding
<1> QED BY <1>1, <1>2

\* Exit code 0 under a policy: no finding has a severity it fails on.
LEMMA PassHasNoFailing ==
  ASSUME NEW p, NEW r, p.given, exit_code_for(evaluate_policy(p, r)) = 0, NEW f \in r.findings
  PROVE  f.severity \notin p.fail_on
<1>1. "FAIL" \notin Gates(p, r)
  <2>1. evaluate_policy(p, r) = Worst(Gates(p, r))
    BY DEF evaluate_policy
  <2>2. Worst(Gates(p, r)) # "FAIL"
    BY <2>1 DEF exit_code_for
  <2> QED BY <2>2 DEF Worst
<1>2. evaluate_findings_severity(p, r) \subseteq Gates(p, r)
  BY DEF Gates
<1>3. Gate(~(\E g \in r.findings : g.severity \in p.fail_on)) \subseteq evaluate_findings_severity(p, r)
  BY DEF evaluate_findings_severity
<1>4. CASE \E g \in r.findings : g.severity \in p.fail_on
  BY <1>1, <1>2, <1>3, <1>4 DEF Gate
<1>5. CASE ~(\E g \in r.findings : g.severity \in p.fail_on)
  BY <1>5
<1> QED BY <1>4, <1>5

\* A code of a pair is a finding of its severity.
LEMMA CodeIsFound ==
  ASSUME NEW pair, NEW sources, NEW policy, NEW c \in Codes(pair, sources)
  PROVE  \E f \in compare_matched_pair(pair, sources, policy) : f.severity = DEFAULT_SEVERITY(c)
<1> DEFINE e == pair.expected
           g == build_finding(c, e.binding_id, "pair")
           h == [g EXCEPT !.binding_id = e.binding_id]
           f == [h EXCEPT !.point_id = pair.observed.point_id]
           located == {[build_finding(d, e.binding_id, "pair") EXCEPT !.binding_id = e.binding_id] :
                         d \in Codes(pair, sources)}
           pii == {[x EXCEPT !.binding_id = e.binding_id] : x \in pii_policy_findings(e, policy)}
<1>1. compare_matched_pair(pair, sources, policy) =
        {[x EXCEPT !.point_id = pair.observed.point_id] :
           x \in located \cup pii \cup license_policy_findings(e, policy)}
  BY Zenon DEF compare_matched_pair
<1>2. h \in located
  BY Zenon
<1>3. f \in compare_matched_pair(pair, sources, policy)
  <2> HIDE DEF located, pii, h
  <2>1. h \in located \cup pii \cup license_policy_findings(e, policy)
    BY <1>2
  <2> QED BY <1>1, <2>1, Zenon
<1>4. f.severity = DEFAULT_SEVERITY(c)
  BY DEF build_finding
<1> HIDE DEF f
<1> QED BY <1>3, <1>4

\* A pair without codes agrees in what is compared.
LEMMA NoCodesAgree ==
  ASSUME NEW p, NEW sources, Codes(p, sources) = {}
  PROVE  LET e == p.expected
             o == p.observed
         IN /\ o.payload_hash = e.payload_hash
            /\ e.acl # NoAcl => o.acl = e.acl
            /\ e.tenant # None => o.tenant = e.tenant
            /\ e.source_id \in (DOMAIN sources) \ {None} =>
                 o.source_version_id \in {None, sources[e.source_id]}
<1> DEFINE e == p.expected
           o == p.observed
<1>1. StaleCode(p, sources) = {} /\ TenantCode(e, o) = {} /\ AclCode(e, o) = {} /\ DriftCode(p, sources) = {}
  BY DEF Codes
<1>2. o.payload_hash = e.payload_hash
  <2>1. StaleCode(p, sources) \cup AclCode(e, o) \cup TenantCode(e, o) = {}
    BY <1>1
  <2> QED BY <1>1, <2>1 DEF DriftCode
<1>3. e.acl # NoAcl => o.acl = e.acl
  BY <1>1 DEF AclCode
<1>4. e.tenant # None => o.tenant = e.tenant
  BY <1>1 DEF TenantCode
<1>5. e.source_id \in (DOMAIN sources) \ {None} => o.source_version_id \in {None, sources[e.source_id]}
  BY <1>1 DEF StaleCode
<1> QED BY <1>2, <1>3, <1>4, <1>5

LEMMA StrictPass == ASSUME ReconcileInv PROVE StrictPassMeansAgreement
<1> SUFFICES ASSUME Judged, pc = "done", StrictPolicy(in.policy), exit_code_for(verdict) = 0
             PROVE  StrictPassMeansAgreement
  BY DEF StrictPassMeansAgreement
<1>1. result.findings = AllFindings
  BY FindingsOfOutcome
<1>2. \A f \in AllFindings : f.severity \notin {Medium, High, Critical}
  <2>1. verdict = evaluate_policy(in.policy, result)
    BY DEF ReconcileInv, ResultInv
  <2>2. in.policy.given /\ {Medium, High, Critical} \subseteq in.policy.fail_on
    BY DEF StrictPolicy
  <2>3. PICK p : p = in.policy
    OBVIOUS
  <2>4. \A f \in result.findings : f.severity \notin p.fail_on
    BY <2>1, <2>2, <2>3, PassHasNoFailing
  <2> QED BY <1>1, <2>2, <2>3, <2>4
<1>3. missing = {}
  <2> SUFFICES ASSUME NEW e \in missing PROVE FALSE
    OBVIOUS
  <2>1. classify_missing(e) \in AllFindings
    <3>1. classify_missing(e) \in OfMissing
      BY DEF OfMissing
    <3> QED BY <3>1 DEF AllFindings
  <2>2. classify_missing(e).severity = DEFAULT_SEVERITY("MISSING_IN_INDEX")
    BY DEF classify_missing, build_finding
  <2> QED BY <1>2, <2>1, <2>2, SeverityFacts
<1>4. orphan = {}
  <2> SUFFICES ASSUME NEW o \in orphan PROVE FALSE
    OBVIOUS
  <2>1. classify_orphan(o, in.manifest.sources) \in AllFindings
    <3>1. classify_orphan(o, in.manifest.sources) \in OfOrphans
      BY DEF OfOrphans
    <3> QED BY <3>1 DEF AllFindings
  <2>2. classify_orphan(o, in.manifest.sources).severity = DEFAULT_SEVERITY(OrphanCode(o, in.manifest.sources))
    BY DEF classify_orphan, build_finding
  <2> QED BY <1>2, <2>1, <2>2, SeverityFacts
<1>5. in.manifest.status = "complete" /\ in.completeness # "incomplete"
  <2>1. ASSUME NEW c \in {"MANIFEST_INCOMPLETE", "SNAPSHOT_INCOMPLETE"},
               IF c = "MANIFEST_INCOMPLETE" THEN in.manifest.status # "complete" ELSE in.completeness = "incomplete"
        PROVE  FALSE
    <3>1. build_finding(c, None, "whole") \in WholeFindings(in)
      BY <2>1 DEF WholeFindings
    <3>2. build_finding(c, None, "whole") \in AllFindings
      BY <3>1 DEF AllFindings
    <3> QED BY <1>2, <3>2, SeverityFacts
  <2> QED BY <2>1
<1>6. ASSUME NEW p \in Members(matched) PROVE Codes(p, in.manifest.sources) = {}
  <2> SUFFICES ASSUME NEW c \in Codes(p, in.manifest.sources) PROVE FALSE
    OBVIOUS
  <2>1. PICK f \in compare_matched_pair(p, in.manifest.sources, in.policy) : f.severity = DEFAULT_SEVERITY(c)
    <3>1. PICK s, y : s = in.manifest.sources /\ y = in.policy
      OBVIOUS
    <3>2. \E f \in compare_matched_pair(p, s, y) : f.severity = DEFAULT_SEVERITY(c)
      BY <3>1, CodeIsFound
    <3> QED BY <3>1, <3>2
  <2>2. f \in AllFindings
    <3>1. f \in OfPairs
      BY DEF OfPairs
    <3> QED BY <3>1 DEF AllFindings
  <2> QED BY <1>2, <2>1, <2>2, SeverityFacts
<1>7. ASSUME NEW p \in Members(matched)
      PROVE  LET e == p.expected
                 o == p.observed
             IN /\ o.payload_hash = e.payload_hash
                /\ e.acl # NoAcl => o.acl = e.acl
                /\ e.tenant # None => o.tenant = e.tenant
                /\ e.source_id \in (DOMAIN in.manifest.sources) \ {None} =>
                     o.source_version_id \in {None, in.manifest.sources[e.source_id]}
  <2>1. PICK s : s = in.manifest.sources
    OBVIOUS
  <2>2. Codes(p, s) = {}
    BY <1>6, <2>1
  <2> QED BY <2>1, <2>2, NoCodesAgree
<1> QED BY <1>3, <1>4, <1>5, <1>7 DEF StrictPassMeansAgreement

\* evaluate_policy, exit_code_for: under a policy that fails on every severity,
\* exit code 0 means that manifest and index agree.
THEOREM StrictPassIsAgreement == Spec => []StrictPassMeansAgreement
  BY ReconcileInvariant, StrictPass, PTL

\* Codes whose action is to delete
DeleteCodes == {"ORPHAN_IN_INDEX", "DUPLICATE_POINT_ID", "DUPLICATE_CONTENT"}

LEMMA DeleteIsFor == ASSUME NEW c, action_for(c) = "delete_point_candidate" PROVE c \in DeleteCodes
BY DEF action_for, DeleteCodes

\* A pair has no finding of these codes.
LEMMA PairsAreKept ==
  ASSUME NEW pair, NEW sources, NEW policy, NEW f \in compare_matched_pair(pair, sources, policy)
  PROVE  f.code \notin DeleteCodes
<1> DEFINE e == pair.expected
           located == {[build_finding(d, e.binding_id, "pair") EXCEPT !.binding_id = e.binding_id] :
                         d \in Codes(pair, sources)}
           pii == {[x EXCEPT !.binding_id = e.binding_id] : x \in pii_policy_findings(e, policy)}
<1>1. compare_matched_pair(pair, sources, policy) =
        {[x EXCEPT !.point_id = pair.observed.point_id] :
           x \in located \cup pii \cup license_policy_findings(e, policy)}
  BY Zenon DEF compare_matched_pair
<1>2. ASSUME NEW x \in located PROVE x.code \notin DeleteCodes /\ "code" \in DOMAIN x
  <2>1. PICK d \in Codes(pair, sources) : x = [build_finding(d, e.binding_id, "pair") EXCEPT !.binding_id = e.binding_id]
    OBVIOUS
  <2>2. x.code = d /\ "code" \in DOMAIN x
    BY <2>1 DEF build_finding
  <2>3. d \notin DeleteCodes
    <3>1. StaleCode(pair, sources) \cap DeleteCodes = {}
      BY DEF StaleCode, DeleteCodes
    <3>2. VectorCodes(pair.expected, pair.observed) \cap DeleteCodes = {}
      BY DEF VectorCodes, DeleteCodes
    <3>3. TenantCode(pair.expected, pair.observed) \cap DeleteCodes = {}
      BY DEF TenantCode, DeleteCodes
    <3>4. AclCode(pair.expected, pair.observed) \cap DeleteCodes = {}
      BY DEF AclCode, DeleteCodes
    <3>5. DriftCode(pair, sources) \cap DeleteCodes = {}
      BY DEF DriftCode, DeleteCodes
    <3> QED BY <3>1, <3>2, <3>3, <3>4, <3>5 DEF Codes
  <2> QED BY <2>2, <2>3
<1>3. ASSUME NEW x \in pii PROVE x.code \notin DeleteCodes /\ "code" \in DOMAIN x
  <2>1. PICK y \in pii_policy_findings(e, policy) : x = [y EXCEPT !.binding_id = e.binding_id]
    OBVIOUS
  <2>2. y.code = "PII_POLICY_VIOLATION" /\ "code" \in DOMAIN y
    BY DEF pii_policy_findings, build_finding
  <2>3. x.code = y.code /\ DOMAIN x = DOMAIN y
    BY <2>1, <2>2
  <2> QED BY <2>2, <2>3 DEF DeleteCodes
<1>4. ASSUME NEW x \in license_policy_findings(e, policy) PROVE x.code \notin DeleteCodes /\ "code" \in DOMAIN x
  <2>1. x.code \in {"LICENSE_UNKNOWN", "LICENSE_POLICY_VIOLATION"} /\ "code" \in DOMAIN x
    BY DEF license_policy_findings, build_finding
  <2> QED BY <2>1 DEF DeleteCodes
<1> HIDE DEF located, pii
<1>5. PICK x \in located \cup pii \cup license_policy_findings(e, policy) :
        f = [x EXCEPT !.point_id = pair.observed.point_id]
  BY <1>1
<1>6. x.code \notin DeleteCodes /\ "code" \in DOMAIN x
  BY <1>2, <1>3, <1>4
<1>7. f.code = x.code
  BY <1>5, <1>6
<1> QED BY <1>6, <1>7

\* What there is to delete is an orphan, or a duplicate that names no point.
LEMMA Deleted ==
  ASSUME NEW f \in AllFindings, f.code \in DeleteCodes, NEW c \in candidate_id(f)
  PROVE  \E o \in orphan : c = <<"point", o.point_id>>
<1>1. CASE f \in OfPairs
  <2>1. PICK p \in Members(matched) : f \in compare_matched_pair(p, in.manifest.sources, in.policy)
    BY <1>1 DEF OfPairs
  <2>2. PICK s, y : s = in.manifest.sources /\ y = in.policy
    OBVIOUS
  <2>3. f \in compare_matched_pair(p, s, y)
    BY <2>1, <2>2
  <2>4. f.code \notin DeleteCodes
    BY <2>3, PairsAreKept
  <2> QED BY <2>4
<1>2. CASE f \in OfMissing
  BY <1>2 DEF OfMissing, classify_missing, build_finding, DeleteCodes
<1>3. CASE f \in OfOrphans
  <2>1. PICK o \in orphan : f = classify_orphan(o, in.manifest.sources)
    BY <1>3 DEF OfOrphans
  <2>2. f.binding_id = None /\ f.point_id = o.point_id
    BY <2>1 DEF classify_orphan, build_finding
  <2> QED BY <2>2 DEF candidate_id
<1>4. CASE f \in OfDuplicates
  <2>1. f.binding_id = None /\ f.point_id = None
    BY <1>4 DEF OfDuplicates, duplicate_finding, build_finding
  <2> QED BY <2>1 DEF candidate_id
<1>5. CASE f \in WholeFindings(in)
  BY <1>5 DEF WholeFindings, build_finding, DeleteCodes
<1> QED BY <1>1, <1>2, <1>3, <1>4, <1>5 DEF AllFindings

\* With distinct ids a point is in the snapshot once, and a point left over
\* has no id that is expected.
LEMMA OrphansAreUnexpected ==
  ASSUME ReconcileInv, Judged, DistinctIds, NEW o \in orphan, NEW e \in Members(expected)
  PROVE  o.point_id # e.point_id
<1> USE DEF ReconcileInv
<1> SUFFICES ASSUME o.point_id = e.point_id PROVE FALSE
  OBVIOUS
<1>1. MatchingIsSound
  BY SoundMatching
<1>2. o \in O /\ e \in E
  BY <1>1 DEF MatchingIsSound, E, O
<1>3. SameKey(POINT_ID, e, o)
  <2>1. key(POINT_ID, o) = o.point_id /\ key(POINT_ID, e) = e.point_id /\ o.point_id # None
    BY <1>2, InputFacts DEF TypeInv
  <2> QED BY <2>1 DEF SameKey
<1>4. ObservedLevel(o) = CHUNK_ID + 1
  BY DEF ObservedLevel
<1>5. ~(POINT_ID < ExpectedLevel(e))
  <2>1. POINT_ID \in CLOSING_LEVELS /\ POINT_ID < CHUNK_ID + 1
    BY DEF CLOSING_LEVELS, POINT_ID, CHUNK_ID
  <2> QED BY <1>1, <1>2, <1>3, <1>4, <2>1 DEF MatchingIsSound, O
<1>6. PICK p \in Members(matched) : p.expected = e /\ p.level = POINT_ID
  <2>1. e \notin missing
    <3>1. POINT_ID < CHUNK_ID + 1
      BY DEF POINT_ID, CHUNK_ID
    <3> QED BY <1>5, <3>1 DEF ExpectedLevel
  <2>2. PICK p \in Members(matched) : p.expected = e /\ ExpectedLevel(e) = p.level
    <3>1. \E p \in Members(matched) : p.expected = e
      BY <1>1, <2>1 DEF MatchingIsSound
    <3> QED BY <2>1, <3>1 DEF ExpectedLevel
  <2>3. p.level \in CLOSING_LEVELS
    BY MatchedFacts
  <2>4. p.level = POINT_ID
    BY <1>5, <2>2, <2>3 DEF CLOSING_LEVELS, POINT_ID, EMBEDDING_ID, CHUNK_ID
  <2> QED BY <2>2, <2>4
<1>7. p.observed \in O /\ p.observed.point_id = o.point_id
  <2>1. SameKey(POINT_ID, e, p.observed)
    BY <1>1, <1>6 DEF MatchingIsSound
  <2>2. p.observed \in O
    BY MatchedFacts
  <2>3. key(POINT_ID, p.observed) = p.observed.point_id /\ key(POINT_ID, e) = e.point_id
    BY <1>2, <2>2, InputFacts DEF TypeInv
  <2> QED BY <2>1, <2>2, <2>3 DEF SameKey
<1> DEFINE ob == in.observed
<1>8. ob \in Seq(O) /\ O = Members(ob)
  BY InputFacts DEF TypeInv, O
<1>9. \A i, j \in DOMAIN ob : ob[i].point_id = ob[j].point_id => i = j
  BY DEF DistinctIds
<1> HIDE DEF ob
<1>10. p.observed = o
  BY <1>2, <1>7, <1>8, <1>9 DEF Members
<1>11. Num(ob, {o}) > 1
  <2>1. /\ Num(ob, {o}) = Num(MatchedO, {o}) + Num(oOut.buffer, {o})
        /\ Num(MatchedO, {o}) \in Nat /\ Num(oOut.buffer, {o}) \in Nat
    BY OutcomeCounts DEF ob
  <2>2. Num(MatchedO, {o}) > 0
    <3>1. o \in Members(MatchedO)
      BY <1>6, <1>10, MatchedMembers
    <3>2. MatchedO \in Seq(O)
      BY MatchedFacts
    <3> QED BY <3>1, <3>2, NumOf
  <2>3. Num(oOut.buffer, {o}) > 0
    <3>1. oOut.buffer \in Seq(O) /\ o \in Members(oOut.buffer)
      BY DEF TypeInv, Writers, orphan
    <3> QED BY <3>1, NumOf
  <2> QED BY <2>1, <2>2, <2>3
<1>12. Num(ob, {o}) = 1
  <2>1. PICK i \in DOMAIN ob : ob[i] = o
    BY <1>2, <1>8 DEF Members
  <2>2. {j \in DOMAIN ob : ob[j] \in {o}} = {i}
    BY <1>9, <2>1
  <2> QED BY <2>2, FS_Singleton DEF Num
<1> QED BY <1>11, <1>12

LEMMA OrphansDeleted == ASSUME ReconcileInv PROVE DeletesOnlyOrphans
<1> SUFFICES ASSUME Judged, DistinctIds, NEW a \in build_remediation_plan(result.findings),
                    a.action = "delete_point_candidate"
             PROVE  /\ a.candidates \subseteq {<<"point", o.point_id>> : o \in orphan}
                    /\ \A e \in Members(expected) : <<"point", e.point_id>> \notin a.candidates
  BY DEF DeletesOnlyOrphans
<1>1. result.findings = AllFindings
  BY FindingsOfOutcome
<1>2. PICK c : /\ action_for(c) = "delete_point_candidate"
               /\ a.candidates = UNION {candidate_id(f) : f \in {f \in AllFindings : f.code = c}}
  BY <1>1 DEF build_remediation_plan
<1>3. c \in DeleteCodes
  BY <1>2, DeleteIsFor
<1>4. ASSUME NEW d \in a.candidates PROVE \E o \in orphan : d = <<"point", o.point_id>>
  <2>1. PICK f \in AllFindings : f.code = c /\ d \in candidate_id(f)
    BY <1>2
  <2> QED BY <1>3, <2>1, Deleted
<1>5. ASSUME NEW e \in Members(expected), <<"point", e.point_id>> \in a.candidates PROVE FALSE
  <2>1. PICK o \in orphan : <<"point", e.point_id>> = <<"point", o.point_id>>
    BY <1>4, <1>5
  <2>2. o.point_id = e.point_id
    BY <2>1
  <2> QED BY <2>2, OrphansAreUnexpected
<1> QED BY <1>4, <1>5

\* build_remediation_plan: with distinct point ids it proposes to delete only
\* points left over from every level, under ids that no binding expects.
THEOREM OnlyOrphansDeleted == Spec => []DeletesOnlyOrphans
  BY ReconcileInvariant, OrphansDeleted, PTL

-----------------------------------------------------------------------------
(* Memory and disk *)

\* _ChunkedRunWriter: a writer of the big path never holds a full chunk, and
\* the files a round reads are on disk.
THEOREM RunFilesHoldAlways == Spec => []RunFilesHold
<1>1. ReconcileInv => RunFilesHold
  BY DEF ReconcileInv, DiskInv
<1> QED BY <1>1, ReconcileInvariant, PTL

\* _reset_work_dir: a run that ends leaves no file of its own behind, and none
\* at all in a work directory that is passed again.
THEOREM LitterIsOfKilledAttempts == Spec => []LitterOnlyFromKilledAttempts
<1>1. ReconcileInv => LitterOnlyFromKilledAttempts
  BY DEF ReconcileInv, DiskInv, LitterOnlyFromKilledAttempts
<1> QED BY <1>1, ReconcileInvariant, PTL


-----------------------------------------------------------------------------
(* Places in order                                                         *)

\* f goes through D in order
Enumerates(f, c, D) ==
  /\ f \in [1..c -> D]
  /\ \A k, m \in 1..c : k < m => f[k] < f[m]
  /\ \A i \in D : \E k \in 1..c : f[k] = i

\* Its first k members
Firsts(f, k) == {f[i] : i \in 1..k}

\* The first k members of a set of numbers are k.
LEMMA FirstMembers ==
  ASSUME NEW D \in SUBSET Nat, NEW c \in Nat, NEW f, Enumerates(f, c, D), NEW k \in Nat, k <= c
  PROVE  IsFiniteSet(Firsts(f, k)) /\ Cardinality(Firsts(f, k)) = k
<1> DEFINE T == {f[i] : i \in 1..k}
           g == [i \in 1..k |-> f[i]]
<1>1. 1..k \subseteq 1..c /\ IsFiniteSet(1..k) /\ Cardinality(1..k) = k
  BY FS_Interval
<1>2. /\ \A i \in 1..c : f[i] \in D /\ f[i] \in Nat
      /\ \A i, j \in 1..c : i < j => f[i] < f[j]
  BY DEF Enumerates
<1>3. g \in [1..k -> T]
  OBVIOUS
<1>4. \A i, j \in 1..k : g[i] = g[j] => i = j
  <2>1. \A i, j \in 1..k : i \in 1..c /\ j \in 1..c /\ i \in Nat /\ j \in Nat
    BY <1>1
  <2> QED BY <1>2, <2>1
<1>5. \A t \in T : \E i \in 1..k : g[i] = t
  OBVIOUS
<1>6. g \in Bijection(1..k, T)
  <2> HIDE DEF g, T
  <2> QED BY <1>3, <1>4, <1>5, Fun_IsBij
<1>7. ExistsBijection(1..k, T)
  BY <1>6 DEF ExistsBijection
<1>8. T = Firsts(f, k)
  BY DEF Firsts
<1> HIDE DEF T
<1> QED BY <1>1, <1>7, <1>8, FS_Bijection

\* They are the members up to the k-th.
LEMMA FirstsAreLeast ==
  ASSUME NEW D \in SUBSET Nat, NEW c \in Nat, NEW f, Enumerates(f, c, D), NEW k \in 1..c
  PROVE  Firsts(f, k) = {j \in D : j <= f[k]}
<1>1. k \in Nat /\ 1..k \subseteq 1..c
  OBVIOUS
<1>2. /\ \A i \in 1..c : f[i] \in D /\ f[i] \in Nat
      /\ \A i, j \in 1..c : i < j => f[i] < f[j]
      /\ \A i \in D : \E j \in 1..c : f[j] = i
  BY DEF Enumerates
<1>3. ASSUME NEW i \in 1..k PROVE f[i] \in D /\ f[i] <= f[k]
  <2>1. i \in 1..c /\ (i < k \/ i = k)
    BY <1>1
  <2> QED BY <1>2, <2>1
<1>4. ASSUME NEW j \in D, j <= f[k] PROVE j \in Firsts(f, k)
  <2>1. PICK i \in 1..c : f[i] = j
    BY <1>2
  <2>2. ~(k < i)
    BY <1>2, <1>4, <2>1
  <2>3. i \in 1..k
    BY <1>1, <2>2
  <2> QED BY <2>1, <2>3 DEF Firsts
<1> QED BY <1>3, <1>4 DEF Firsts

\* The items of s that f names, in order
Through(s, f, c) == [k \in 1..c |-> s[f[k]]]

\* The items at some places are those its members in order name.
LEMMA ItemsFacts ==
  ASSUME NEW D \in SUBSET Nat, NEW c \in Nat, NEW f, Enumerates(f, c, D), NEW s
  PROVE  /\ IsFiniteSet(D) /\ Cardinality(D) = c
         /\ ItemsAt(s, D) = Through(s, f, c)
<1>1. /\ \A i \in 1..c : f[i] \in D /\ f[i] \in Nat
      /\ \A i, j \in 1..c : i < j => f[i] < f[j]
      /\ \A i \in D : \E j \in 1..c : f[j] = i
  BY DEF Enumerates
<1>2. D = Firsts(f, c)
  BY <1>1 DEF Firsts
<1>3. IsFiniteSet(D) /\ Cardinality(D) = c
  <2>1. c <= c
    OBVIOUS
  <2> QED BY <1>2, <2>1, FirstMembers
<1>4. ASSUME NEW k \in 1..c PROVE Cardinality({j \in D : j <= f[k]}) = k
  <2>1. k \in Nat /\ k <= c
    OBVIOUS
  <2>2. Cardinality(Firsts(f, k)) = k
    BY <2>1, FirstMembers
  <2>3. Firsts(f, k) = {j \in D : j <= f[k]}
    BY FirstsAreLeast
  <2> QED BY <2>2, <2>3
<1>5. ASSUME NEW k \in 1..c
      PROVE  (CHOOSE i \in D : Cardinality({j \in D : j <= i}) = k) = f[k]
  <2> DEFINE R(i) == Cardinality({j \in D : j <= i})
             x == CHOOSE i \in D : R(i) = k
  <2>1. f[k] \in D /\ R(f[k]) = k
    BY <1>1, <1>4
  <2>2. x \in D /\ R(x) = k
    <3> HIDE DEF R
    <3> QED BY <2>1
  <2>3. PICK m \in 1..c : f[m] = x
    BY <1>1, <2>2
  <2>4. R(x) = m
    BY <1>4, <2>3
  <2> QED BY <2>2, <2>3, <2>4
<1>6. ItemsAt(s, D) = [k \in 1..c |-> s[CHOOSE i \in D : Cardinality({j \in D : j <= i}) = k]]
  BY <1>3 DEF ItemsAt
<1>7. ItemsAt(s, D) = [k \in 1..c |-> s[f[k]]]
  BY <1>5, <1>6
<1> QED BY <1>3, <1>7 DEF Through

\* A finite set of numbers can be gone through in order.
LEMMA InOrder ==
  ASSUME NEW D \in SUBSET Nat, IsFiniteSet(D)
  PROVE  \E f : Enumerates(f, Cardinality(D), D)
<1> DEFINE c == Cardinality(D)
           R(i) == Cardinality({j \in D : j <= i})
           f == [k \in 1..c |-> CHOOSE i \in D : R(i) = k]
<1>1. c \in Nat
  BY FS_CardinalityType
<1>2. ASSUME NEW k \in 1..c PROVE f[k] \in D /\ R(f[k]) = k
  <2>1. \E i \in D : R(i) = k
    BY NthExists
  <2> HIDE DEF R
  <2> QED BY <2>1
<1>3. TotalOrder(Upwards, D) /\ \A i \in D : UpTo(Upwards, D, i) = {j \in D : j <= i}
  <2>1. \A i, j \in D : (<<i, j>> \in Upwards <=> i <= j) /\ i \in Nat
    BY DEF Upwards
  <2>2. TotalOrder(Upwards, D)
    BY <2>1 DEF TotalOrder
  <2> QED BY <2>1, <2>2 DEF UpTo
<1>4. ASSUME NEW i \in D PROVE R(i) \in 1..c
  <2>1. Cardinality(UpTo(Upwards, D, i)) \in 1..c
    BY <1>3, RankIsBounded
  <2> QED BY <1>3, <2>1
<1>5. ASSUME NEW i \in D, NEW j \in D, R(i) <= R(j) PROVE i <= j /\ (R(i) = R(j) => i = j)
  <2>1. Cardinality(UpTo(Upwards, D, i)) <= Cardinality(UpTo(Upwards, D, j))
    BY <1>3, <1>5
  <2>2. <<i, j>> \in Upwards /\ (Cardinality(UpTo(Upwards, D, i)) = Cardinality(UpTo(Upwards, D, j)) => i = j)
    BY <1>3, <2>1, RankOrders
  <2> QED BY <1>3, <2>2 DEF Upwards
<1>6. f \in [1..c -> D]
  BY <1>2
<1> HIDE DEF f, R, c
<1>7. ASSUME NEW k \in 1..c, NEW m \in 1..c, k < m PROVE f[k] < f[m]
  <2>1. f[k] \in D /\ f[m] \in D /\ R(f[k]) = k /\ R(f[m]) = m /\ f[k] \in Nat /\ f[m] \in Nat
    BY <1>2
  <2>2. f[k] <= f[m]
    BY <1>5, <1>7, <2>1
  <2>3. f[k] # f[m]
    BY <1>7, <2>1
  <2> QED BY <2>1, <2>2, <2>3
<1>8. ASSUME NEW i \in D PROVE \E k \in 1..c : f[k] = i
  <2>1. R(i) \in 1..c
    BY <1>4
  <2>2. f[R(i)] \in D /\ R(f[R(i)]) = R(i)
    BY <1>2, <2>1
  <2>3. R(f[R(i)]) <= R(i)
    BY <1>1, <2>1, <2>2
  <2>4. f[R(i)] = i
    BY <1>5, <2>2, <2>3
  <2> QED BY <2>1, <2>4
<1> QED BY <1>6, <1>7, <1>8 DEF Enumerates, c

\* Places of a list are finitely many numbers, and there is an order to go
\* through them.
LEMMA PlacesInOrder ==
  ASSUME NEW U, NEW s \in Seq(U), NEW D \in SUBSET DOMAIN s
  PROVE  /\ D \in SUBSET Nat /\ IsFiniteSet(D) /\ Cardinality(D) \in Nat
         /\ \E f : Enumerates(f, Cardinality(D), D)
<1>1. DOMAIN s = 1..Len(s) /\ Len(s) \in Nat
  OBVIOUS
<1>2. D \in SUBSET Nat /\ IsFiniteSet(DOMAIN s)
  BY <1>1, FS_Interval
<1>3. IsFiniteSet(D)
  BY <1>2, FS_Subset
<1>4. Cardinality(D) \in Nat
  BY <1>3, FS_CardinalityType
<1>5. \E f : Enumerates(f, Cardinality(D), D)
  BY <1>2, <1>3, InOrder
<1> QED BY <1>2, <1>3, <1>4, <1>5

\* The items at some places are a list, as long as there are places.
LEMMA ItemsAreList ==
  ASSUME NEW U, NEW s \in Seq(U), NEW D \in SUBSET DOMAIN s
  PROVE  ItemsAt(s, D) \in Seq(U) /\ Len(ItemsAt(s, D)) = Cardinality(D)
<1> DEFINE c == Cardinality(D)
<1>1. D \in SUBSET Nat /\ c \in Nat
  BY PlacesInOrder
<1>2. PICK f : Enumerates(f, c, D)
  BY PlacesInOrder
<1> HIDE DEF c
<1>3. ItemsAt(s, D) = Through(s, f, c)
  BY <1>1, <1>2, ItemsFacts
<1>4. \A k \in 1..c : f[k] \in DOMAIN s /\ s[f[k]] \in U
  BY <1>2 DEF Enumerates
<1>5. ItemsAt(s, D) \in [1..c -> U]
  BY <1>3, <1>4 DEF Through
<1> QED BY <1>1, <1>5 DEF c

\* At no places there are none, at all places there is the list.
LEMMA NoItems == ASSUME NEW s PROVE ItemsAt(s, {}) = <<>>
<1> DEFINE f == [k \in 1..0 |-> k]
<1>1. Enumerates(f, 0, {})
  BY DEF Enumerates
<1>2. ItemsAt(s, {}) = Through(s, f, 0)
  <2> HIDE DEF f
  <2> QED BY <1>1, ItemsFacts
<1> QED BY <1>2 DEF Through

LEMMA AllItems ==
  ASSUME NEW U, NEW s \in Seq(U)
  PROVE  ItemsAt(s, DOMAIN s) = s
<1> DEFINE f == [k \in 1..Len(s) |-> k]
           D == DOMAIN s
<1>1. D = 1..Len(s) /\ Len(s) \in Nat /\ D \in SUBSET Nat
  OBVIOUS
<1>2. Enumerates(f, Len(s), D)
  BY <1>1 DEF Enumerates
<1>3. ItemsAt(s, D) = Through(s, f, Len(s))
  <2> HIDE DEF f, D
  <2> QED BY <1>1, <1>2, ItemsFacts
<1>4. ItemsAt(s, D) = [k \in 1..Len(s) |-> s[k]]
  BY <1>3 DEF Through
<1> QED BY <1>4

\* Lists that agree at some places have the same items there.
LEMMA SameItems ==
  ASSUME NEW U, NEW s \in Seq(U), NEW D \in SUBSET DOMAIN s, NEW t, \A i \in D : t[i] = s[i]
  PROVE  ItemsAt(t, D) = ItemsAt(s, D)
<1> DEFINE c == Cardinality(D)
<1>1. D \in SUBSET Nat /\ c \in Nat
  BY PlacesInOrder
<1>2. PICK f : Enumerates(f, c, D)
  BY PlacesInOrder
<1> HIDE DEF c
<1>3. ItemsAt(s, D) = Through(s, f, c) /\ ItemsAt(t, D) = Through(t, f, c)
  BY <1>1, <1>2, ItemsFacts
<1>4. \A k \in 1..c : t[f[k]] = s[f[k]]
  BY <1>2 DEF Enumerates
<1> QED BY <1>3, <1>4 DEF Through

\* A place behind all others adds its item at the end.
LEMMA OneItemMore ==
  ASSUME NEW U, NEW s \in Seq(U), NEW D \in SUBSET DOMAIN s, NEW x \in DOMAIN s, \A i \in D : i < x
  PROVE  ItemsAt(s, D \cup {x}) = Append(ItemsAt(s, D), s[x])
<1> DEFINE c == Cardinality(D)
           T == D \cup {x}
<1>1. D \in SUBSET Nat /\ c \in Nat /\ T \in SUBSET Nat /\ x \in Nat
  BY PlacesInOrder
<1>2. PICK f : Enumerates(f, c, D)
  BY PlacesInOrder
<1> HIDE DEF c
<1> DEFINE g == [k \in 1..(c + 1) |-> IF k = c + 1 THEN x ELSE f[k]]
<1>3. /\ \A k \in 1..c : f[k] \in D /\ f[k] \in Nat /\ f[k] < x
      /\ \A k, m \in 1..c : k < m => f[k] < f[m]
      /\ \A i \in D : \E k \in 1..c : f[k] = i
  BY <1>1, <1>2 DEF Enumerates
<1>4. \A k \in 1..(c + 1) : k = c + 1 \/ k \in 1..c
  BY <1>1
<1>5. g[c + 1] = x /\ \A k \in 1..c : g[k] = f[k]
  BY <1>1
<1>6. Enumerates(g, c + 1, T)
  <2>1. g \in [1..(c + 1) -> T]
    BY <1>3, <1>4
  <2>2. ASSUME NEW k \in 1..(c + 1), NEW m \in 1..(c + 1), k < m PROVE g[k] < g[m]
    <3>1. k \in 1..c
      BY <1>1, <2>2
    <3> QED BY <1>3, <1>4, <1>5, <2>2, <3>1
  <2>3. ASSUME NEW i \in T PROVE \E k \in 1..(c + 1) : g[k] = i
    <3>1. CASE i = x
      <4>1. c + 1 \in 1..(c + 1)
        BY <1>1
      <4> QED BY <1>5, <3>1, <4>1
    <3>2. CASE i \in D
      <4>1. PICK k \in 1..c : f[k] = i
        BY <1>3, <3>2
      <4>2. k \in 1..(c + 1)
        BY <1>1
      <4> QED BY <1>5, <4>1, <4>2
    <3> QED BY <3>1, <3>2
  <2> HIDE DEF g, T
  <2> QED BY <2>1, <2>2, <2>3 DEF Enumerates
<1>7. ItemsAt(s, D) = Through(s, f, c)
  BY <1>1, <1>2, ItemsFacts
<1>8. ItemsAt(s, T) = Through(s, g, c + 1)
  <2>1. c + 1 \in Nat
    BY <1>1
  <2> HIDE DEF g, T
  <2> QED BY <1>1, <1>6, <2>1, ItemsFacts
<1>9. ItemsAt(s, D) \in Seq(U) /\ Len(ItemsAt(s, D)) = c
  BY ItemsAreList DEF c
<1> DEFINE a == ItemsAt(s, D)
           b == ItemsAt(s, T)
<1>10. b \in Seq(U) /\ Len(b) = c + 1
  <2>1. T \in SUBSET DOMAIN s
    OBVIOUS
  <2>2. b \in Seq(U) /\ DOMAIN b = 1..(c + 1)
    BY <1>8, <2>1, ItemsAreList DEF Through
  <2> QED BY <1>1, <2>2
<1>11. ASSUME NEW k \in 1..(c + 1) PROVE b[k] = Append(a, s[x])[k]
  <2>1. b[k] = s[g[k]]
    BY <1>8 DEF Through
  <2>2. CASE k = c + 1
    BY <1>5, <1>9, <2>1, <2>2
  <2>3. CASE k \in 1..c
    <3>1. a[k] = s[f[k]] /\ g[k] = f[k]
      BY <1>5, <1>7, <2>3 DEF Through
    <3> QED BY <1>1, <1>9, <2>1, <2>3, <3>1
  <2> QED BY <1>4, <2>2, <2>3
<1>12. Append(a, s[x]) \in Seq(U) /\ Len(Append(a, s[x])) = c + 1
  BY <1>9
<1> HIDE DEF a, b
<1>13. b = Append(a, s[x])
  BY <1>10, <1>11, <1>12, SeqEqual
<1> QED BY <1>13 DEF a, b

\* The first place gives the head, and the others the tail.
LEMMA OneItemLess ==
  ASSUME NEW U, NEW s \in Seq(U), NEW D \in SUBSET DOMAIN s, NEW x \in D, \A i \in D : x <= i
  PROVE  /\ ItemsAt(s, D) # <<>> /\ ItemsAt(s, D)[1] = s[x]
         /\ Tail(ItemsAt(s, D)) = ItemsAt(s, D \ {x})
<1> DEFINE c == Cardinality(D)
           T == D \ {x}
<1>1. D \in SUBSET Nat /\ c \in Nat /\ T \in SUBSET Nat /\ x \in Nat
  BY PlacesInOrder
<1>2. PICK f : Enumerates(f, c, D)
  BY PlacesInOrder
<1> HIDE DEF c
<1> DEFINE g == [k \in 1..(c - 1) |-> f[k + 1]]
<1>3. /\ \A k \in 1..c : f[k] \in D /\ f[k] \in Nat /\ x <= f[k]
      /\ \A k, m \in 1..c : k < m => f[k] < f[m]
      /\ \A i \in D : \E k \in 1..c : f[k] = i
  BY <1>1, <1>2 DEF Enumerates
<1>4. 1 \in 1..c /\ f[1] = x /\ c - 1 \in Nat
  <2>1. PICK k \in 1..c : f[k] = x
    BY <1>3
  <2>2. 1 \in 1..c /\ c - 1 \in Nat
    BY <1>1
  <2>3. ~(1 < k)
    BY <1>1, <1>3, <2>1, <2>2
  <2>4. k = 1
    BY <2>3
  <2> QED BY <2>1, <2>2, <2>4
<1>5. \A k \in 1..(c - 1) : k + 1 \in 1..c /\ g[k] = f[k + 1] /\ f[k + 1] \in T
  <2>1. ASSUME NEW k \in 1..(c - 1) PROVE k + 1 \in 1..c /\ g[k] = f[k + 1] /\ f[k + 1] \in T
    <3>1. k + 1 \in 1..c /\ 1 < k + 1
      BY <1>1
    <3>2. f[1] < f[k + 1] /\ f[k + 1] \in D
      BY <1>3, <1>4, <3>1
    <3>3. f[k + 1] # x
      BY <1>1, <1>4, <3>2
    <3> QED BY <3>1, <3>2, <3>3
  <2> QED BY <2>1
<1>6. Enumerates(g, c - 1, T)
  <2>1. g \in [1..(c - 1) -> T]
    BY <1>5
  <2>2. ASSUME NEW k \in 1..(c - 1), NEW m \in 1..(c - 1), k < m PROVE g[k] < g[m]
    <3>1. k + 1 < m + 1
      BY <2>2
    <3> QED BY <1>3, <1>5, <3>1
  <2>3. ASSUME NEW i \in T PROVE \E k \in 1..(c - 1) : g[k] = i
    <3>1. PICK k \in 1..c : f[k] = i
      BY <1>3
    <3>2. k # 1
      BY <1>4, <3>1
    <3>3. k - 1 \in 1..(c - 1) /\ (k - 1) + 1 = k
      BY <1>1, <3>2
    <3>4. g[k - 1] = i
      BY <1>5, <3>1, <3>3
    <3> QED BY <3>3, <3>4
  <2> HIDE DEF g, T
  <2> QED BY <2>1, <2>2, <2>3 DEF Enumerates
<1>7. ItemsAt(s, D) = Through(s, f, c)
  BY <1>1, <1>2, ItemsFacts
<1>8. ItemsAt(s, T) = Through(s, g, c - 1)
  <2> HIDE DEF g, T
  <2> QED BY <1>1, <1>4, <1>6, ItemsFacts
<1>9. ItemsAt(s, D) \in Seq(U) /\ Len(ItemsAt(s, D)) = c
  BY ItemsAreList DEF c
<1> DEFINE a == ItemsAt(s, D)
           b == ItemsAt(s, T)
<1>10. a # <<>> /\ a[1] = s[x] /\ \A k \in 1..c : a[k] = s[f[k]]
  <2>1. \A k \in 1..c : a[k] = s[f[k]]
    BY <1>7 DEF Through
  <2> QED BY <1>4, <1>9, <2>1
<1>11. b \in Seq(U) /\ Len(b) = c - 1
  <2>1. T \in SUBSET DOMAIN s
    OBVIOUS
  <2>2. b \in Seq(U) /\ DOMAIN b = 1..(c - 1)
    BY <1>8, <2>1, ItemsAreList DEF Through
  <2> QED BY <1>4, <2>2
<1>12. ASSUME NEW k \in 1..(c - 1) PROVE b[k] = a[k + 1]
  <2>1. b[k] = s[g[k]]
    BY <1>8 DEF Through
  <2> QED BY <1>5, <1>10, <2>1
<1> HIDE DEF a, b
<1>13. /\ Tail(a) \in Seq(U) /\ Len(Tail(a)) = c - 1
       /\ \A k \in 1..(c - 1) : Tail(a)[k] = a[k + 1]
  BY <1>9, <1>10, HeadTailProperties DEF a
<1>14. b = Tail(a)
  BY <1>11, <1>12, <1>13, SeqEqual
<1> QED BY <1>10, <1>14 DEF a, b

-----------------------------------------------------------------------------
(* heapq.merge                                                             *)

\* The run an item of a list goes to
RunOf(md, k) == IF md = "big" THEN ((k - 1) \div ChunkSize) + 1 ELSE 1

InRun(md, s, i) == {k \in DOMAIN s : RunOf(md, k) = i}

\* Sorting some items of a list is sorting the list and taking those items:
\* sorting is stable.
LEMMA SortedItems ==
  ASSUME NEW U, HaveKeys(U), NEW l \in CLOSING_LEVELS, NEW s \in Seq(U), NEW D \in SUBSET DOMAIN s
  PROVE  sorted(l, ItemsAt(s, D)) = ItemsAt(sorted(l, s), {k \in DOMAIN s : PlaceOf(l, s, k) \in D})
<1> DEFINE c == Cardinality(D)
           p == ItemsAt(s, D)
           e == sorted(l, s)
           P(k) == PlaceOf(l, s, k)
           G(k) == PlaceOf(l, p, k)
           T == {k \in DOMAIN s : P(k) \in D}
<1>1. D \in SUBSET Nat /\ c \in Nat /\ DOMAIN s \in SUBSET Nat
  <2>1. DOMAIN s = 1..Len(s)
    OBVIOUS
  <2> QED BY <2>1, PlacesInOrder
<1>2. PICK f : Enumerates(f, c, D)
  BY PlacesInOrder
<1>3. p \in Seq(U) /\ DOMAIN p = 1..c
  <2>1. p \in Seq(U) /\ Len(p) = c
    BY ItemsAreList
  <2> QED BY <2>1
<1>4. /\ sorted(l, p) = [k \in 1..c |-> p[G(k)]]
      /\ \A k \in 1..c : G(k) \in 1..c
      /\ \A k, m \in 1..c : k < m => G(k) # G(m) /\ <<G(k), G(m)>> \in Precedes(l, p)
      /\ \A i \in 1..c : \E k \in 1..c : G(k) = i
  <2> HIDE DEF p, c
  <2>1. /\ sorted(l, p) = [k \in DOMAIN p |-> p[G(k)]]
        /\ \A k \in DOMAIN p : G(k) \in DOMAIN p
        /\ \A k, m \in DOMAIN p : k < m => G(k) # G(m) /\ <<G(k), G(m)>> \in Precedes(l, p)
        /\ \A i \in DOMAIN p : \E k \in DOMAIN p : G(k) = i
    BY <1>3, SortedPlaces
  <2> QED BY <1>3, <2>1
<1>5. /\ e = [k \in DOMAIN s |-> s[P(k)]]
      /\ \A k \in DOMAIN s : P(k) \in DOMAIN s
      /\ \A k, m \in DOMAIN s : k < m => P(k) # P(m) /\ <<P(k), P(m)>> \in Precedes(l, s)
      /\ \A i \in DOMAIN s : \E k \in DOMAIN s : P(k) = i
  BY SortedPlaces
<1>6. p = Through(s, f, c)
  <2> HIDE DEF c
  <2> QED BY <1>1, <1>2, ItemsFacts
<1> HIDE DEF p, e, P, G, c
<1>7. /\ \A k \in 1..c : f[k] \in D /\ f[k] \in DOMAIN s /\ p[k] = s[f[k]]
      /\ \A k, m \in 1..c : k < m => f[k] < f[m]
      /\ \A i \in D : \E k \in 1..c : f[k] = i
  BY <1>2, <1>6 DEF Enumerates, Through
<1> DEFINE h == [k \in 1..c |-> CHOOSE m \in DOMAIN s : P(m) = f[G(k)]]
<1>8. ASSUME NEW k \in 1..c PROVE h[k] \in DOMAIN s /\ P(h[k]) = f[G(k)] /\ h[k] \in T
  <2>1. f[G(k)] \in D /\ f[G(k)] \in DOMAIN s
    BY <1>4, <1>7
  <2>2. \E m \in DOMAIN s : P(m) = f[G(k)]
    BY <1>5, <2>1
  <2>3. h[k] \in DOMAIN s /\ P(h[k]) = f[G(k)]
    BY <2>2
  <2> QED BY <2>1, <2>3
<1> HIDE DEF h
<1>9. ASSUME NEW k \in 1..c, NEW m \in 1..c, k < m PROVE h[k] < h[m]
  <2> DEFINE i == f[G(k)]
             j == f[G(m)]
  <2>1. G(k) \in 1..c /\ G(m) \in 1..c /\ G(k) # G(m) /\ <<G(k), G(m)>> \in Precedes(l, p)
    BY <1>4, <1>9
  <2>2. i \in DOMAIN s /\ j \in DOMAIN s /\ i # j /\ p[G(k)] = s[i] /\ p[G(m)] = s[j]
    <3>1. i \in D /\ j \in D /\ p[G(k)] = s[i] /\ p[G(m)] = s[j]
      BY <1>7, <2>1
    <3>2. G(k) < G(m) \/ G(m) < G(k)
      BY <1>1, <2>1
    <3>3. i < j \/ j < i
      BY <1>7, <2>1, <3>2
    <3>4. i \in Nat /\ j \in Nat
      BY <1>1, <3>1
    <3>5. i # j
      BY <3>3, <3>4
    <3> QED BY <3>1, <3>5
  <2>3. G(k) <= G(m) => i <= j
    <3>1. i \in Nat /\ j \in Nat
      BY <1>1, <2>2
    <3>2. G(k) < G(m) => i < j
      BY <1>7, <2>1
    <3>3. G(k) \in Nat /\ G(m) \in Nat
      BY <1>1, <2>1
    <3> QED BY <2>1, <3>1, <3>2, <3>3
  <2>4. <<i, j>> \in Precedes(l, s)
    BY <2>1, <2>2, <2>3 DEF Precedes
  <2>5. h[k] \in DOMAIN s /\ h[m] \in DOMAIN s /\ P(h[k]) = i /\ P(h[m]) = j /\ h[k] \in Nat /\ h[m] \in Nat
    BY <1>1, <1>8
  <2>6. ASSUME h[m] < h[k] PROVE FALSE
    <3>1. <<j, i>> \in Precedes(l, s)
      BY <1>5, <2>5, <2>6
    <3>2. TotalOrder(Precedes(l, s), DOMAIN s)
      BY PrecedesIsTotal
    <3> QED BY <2>2, <2>4, <3>1, <3>2 DEF TotalOrder
  <2>7. h[m] # h[k]
    BY <2>2, <2>5
  <2> QED BY <2>5, <2>6, <2>7
<1>10. ASSUME NEW m \in T PROVE \E k \in 1..c : h[k] = m
  <2>1. PICK x \in 1..c : f[x] = P(m)
    BY <1>7
  <2>2. PICK k \in 1..c : G(k) = x
    BY <1>4
  <2>3. P(h[k]) = P(m) /\ h[k] \in DOMAIN s /\ m \in DOMAIN s
    BY <1>8, <2>1, <2>2
  <2>4. ~(h[k] < m) /\ ~(m < h[k])
    BY <1>5, <2>3
  <2>5. h[k] = m
    BY <1>1, <2>3, <2>4
  <2> QED BY <2>5
<1>11. T \in SUBSET Nat /\ Enumerates(h, c, T)
  <2>1. h \in [1..c -> T]
    BY <1>8 DEF h
  <2>2. T \in SUBSET Nat
    BY <1>1
  <2> HIDE DEF T
  <2> QED BY <1>9, <1>10, <2>1, <2>2 DEF Enumerates
<1>12. ItemsAt(e, T) = Through(e, h, c)
  <2> HIDE DEF T
  <2> QED BY <1>1, <1>11, ItemsFacts
<1>13. \A k \in 1..c : e[h[k]] = p[G(k)]
  BY <1>4, <1>5, <1>7, <1>8
<1>14. ItemsAt(e, T) = sorted(l, p)
  BY <1>4, <1>12, <1>13 DEF Through
<1> QED BY <1>14 DEF p, e, P

\* Multiplying keeps the order.
LEMMA TimesOrder ==
  ASSUME NEW a \in Nat, NEW b \in Nat, NEW c \in Nat, a <= b
  PROVE  a * c <= b * c /\ a * c \in Nat /\ b * c \in Nat
OBVIOUS

\* What division rounds down to.
LEMMA Quotient ==
  ASSUME NEW a \in Nat, NEW c \in Nat \ {0}
  PROVE  a \div c \in Nat /\ (a \div c) * c <= a /\ a < (a \div c) * c + c
OBVIOUS

\* Runs are numbered from 1, in the order of what was written to them.
LEMMA RunsInOrder ==
  ASSUME NEW md, NEW k \in Nat \ {0}, NEW m \in Nat \ {0}, k <= m
  PROVE  RunOf(md, k) \in Nat \ {0} /\ RunOf(md, k) <= RunOf(md, m)
<1>1. CASE md # "big"
  BY <1>1 DEF RunOf
<1>2. CASE md = "big"
  <2> DEFINE q == (k - 1) \div ChunkSize
             r == (m - 1) \div ChunkSize
  <2>1. ChunkSize \in Nat \ {0} /\ k - 1 \in Nat /\ m - 1 \in Nat
    BY ReconcileAssumption
  <2>2. /\ q \in Nat /\ q * ChunkSize <= k - 1
        /\ r \in Nat /\ m - 1 < r * ChunkSize + ChunkSize
    BY <2>1, Quotient
  <2> HIDE DEF q, r
  <2>3. ASSUME r + 1 <= q PROVE FALSE
    <3>1. (r + 1) * ChunkSize <= q * ChunkSize /\ (r + 1) * ChunkSize = r * ChunkSize + ChunkSize
      BY <2>1, <2>2, <2>3, TimesOrder
    <3>2. r * ChunkSize \in Nat /\ q * ChunkSize \in Nat
      BY <2>1, <2>2
    <3> DEFINE x == r * ChunkSize
               y == q * ChunkSize
    <3> HIDE DEF x, y
    <3> QED BY <2>1, <2>2, <3>1, <3>2 DEF x, y
  <2>4. q <= r
    BY <2>2, <2>3
  <2>5. RunOf(md, k) = q + 1 /\ RunOf(md, m) = r + 1
    BY <1>2 DEF RunOf, q, r
  <2> QED BY <2>2, <2>4, <2>5
<1> QED BY <1>1, <1>2

\* The places of the items in run i that come after the first m of all
Rest(md, l, s, i, m) == {k \in DOMAIN s : m < k /\ RunOf(md, PlaceOf(l, s, k)) = i}

\* What is to be read of the runs that s was written to, after m items: the
\* rest of each run, and there is a run for every item
Unread(md, l, s, at, m) ==
  /\ \A i \in DOMAIN at : at[i] = ItemsAt(sorted(l, s), Rest(md, l, s, i, m))
  /\ \A k \in DOMAIN s : RunOf(md, k) \in DOMAIN at

\* heapq.merge over runs that were sorted one by one is the sorted list.
LEMMA NextIsHead ==
  ASSUME NEW U, HaveKeys(U), level \in CLOSING_LEVELS, NEW s \in Seq(U), NEW md,
         NEW at \in Seq(Seq(U)), NEW m \in 0..Len(s), Unread(md, level, s, at, m)
  PROVE  /\ m = Len(s) => Alive(at) = {}
         /\ m < Len(s) => /\ Alive(at) # {}
                          /\ HeadOf(at) = sorted(level, s)[m + 1]
                          /\ Unread(md, level, s, Pop(at), m + 1)
<1> DEFINE e == sorted(level, s)
           P(k) == PlaceOf(level, s, k)
           W(i) == Rest(md, level, s, i, m)
           r == RunOf(md, P(m + 1))
<1>1. /\ DOMAIN s = 1..Len(s) /\ Len(s) \in Nat /\ DOMAIN s \in SUBSET (Nat \ {0})
      /\ e \in Seq(U) /\ DOMAIN e = DOMAIN s /\ Ordered(level, e)
  <2>1. e \in Seq(U) /\ Len(e) = Len(s) /\ Ordered(level, e)
    BY SortedFacts
  <2> HIDE DEF e
  <2> QED BY <2>1
<1>2. /\ \A k \in DOMAIN s : e[k] = s[P(k)] /\ P(k) \in DOMAIN s
      /\ \A k, n \in DOMAIN s : k < n => <<P(k), P(n)>> \in Precedes(level, s)
  <2>1. /\ e = [k \in DOMAIN s |-> s[P(k)]]
        /\ \A k \in DOMAIN s : P(k) \in DOMAIN s
        /\ \A k, n \in DOMAIN s : k < n => P(k) # P(n) /\ <<P(k), P(n)>> \in Precedes(level, s)
    BY SortedPlaces
  <2> HIDE DEF e, P
  <2> QED BY <2>1
<1>3. /\ \A i \in DOMAIN at : at[i] = ItemsAt(e, W(i))
      /\ \A k \in DOMAIN s : RunOf(md, k) \in DOMAIN at
  BY DEF Unread
<1>4. \A i : W(i) = {k \in DOMAIN s : m < k /\ RunOf(md, P(k)) = i}
  BY DEF Rest
<1> HIDE DEF e, P, W
<1>5. ASSUME NEW i \in DOMAIN at, W(i) = {} PROVE i \notin Alive(at)
  <2>1. at[i] = <<>>
    BY <1>3, <1>5, NoItems
  <2> QED BY <2>1 DEF Alive
<1>6. ASSUME NEW i \in DOMAIN at, NEW x \in W(i), \A k \in W(i) : x <= k
      PROVE  i \in Alive(at) /\ at[i][1] = e[x] /\ Tail(at[i]) = ItemsAt(e, W(i) \ {x})
  <2>1. W(i) \in SUBSET DOMAIN e
    BY <1>1, <1>4
  <2>2. at[i] = ItemsAt(e, W(i))
    BY <1>3
  <2> DEFINE D == W(i)
  <2>3. D \in SUBSET DOMAIN e /\ x \in D /\ \A k \in D : x <= k
    BY <1>6, <2>1
  <2>4. e \in Seq(U)
    BY <1>1
  <2> HIDE DEF D
  <2>5. ItemsAt(e, D) # <<>> /\ ItemsAt(e, D)[1] = e[x] /\ Tail(ItemsAt(e, D)) = ItemsAt(e, D \ {x})
    BY <2>3, <2>4, OneItemLess
  <2>6. at[i] # <<>> /\ at[i][1] = e[x] /\ Tail(at[i]) = ItemsAt(e, W(i) \ {x})
    BY <2>2, <2>5 DEF D
  <2> QED BY <2>6 DEF Alive
<1>7. ASSUME NEW j \in Alive(at)
      PROVE  j \in DOMAIN at /\ \E x \in W(j) : x > m /\ x \in DOMAIN s /\ at[j][1] = e[x]
  <2>1. j \in DOMAIN at
    BY DEF Alive
  <2>2. W(j) # {}
    BY <1>5, <2>1
  <2>3. W(j) \in SUBSET Nat
    BY <1>1, <1>4
  <2>4. PICK x \in W(j) : \A k \in W(j) : x <= k
    BY <2>2, <2>3, LeastElement
  <2>5. at[j][1] = e[x]
    BY <1>6, <2>1, <2>4
  <2>6. x > m /\ x \in DOMAIN s
    BY <1>1, <1>4
  <2> QED BY <2>1, <2>5, <2>6
<1>8. ASSUME m = Len(s) PROVE Alive(at) = {}
  BY <1>1, <1>7, <1>8
<1>9. ASSUME m < Len(s)
      PROVE  /\ Alive(at) # {} /\ HeadOf(at) = e[m + 1]
             /\ Unread(md, level, s, Pop(at), m + 1)
  <2>1. m + 1 \in DOMAIN s /\ P(m + 1) \in DOMAIN s
    BY <1>1, <1>2, <1>9
  <2>2. r \in DOMAIN at /\ m + 1 \in W(r) /\ \A k \in W(r) : m + 1 <= k
    BY <1>1, <1>3, <1>4, <2>1
  <2>3. r \in Alive(at) /\ at[r][1] = e[m + 1] /\ Tail(at[r]) = ItemsAt(e, W(r) \ {m + 1})
    BY <1>6, <2>2
  <2> HIDE DEF r
  <2>4. ASSUME NEW j \in Alive(at)
        PROVE  /\ ~sorts_before(level, at[j][1], at[r][1])
               /\ j < r => sorts_before(level, at[r][1], at[j][1])
    <3>1. PICK x \in W(j) : x > m /\ x \in DOMAIN s /\ at[j][1] = e[x]
      BY <1>7
    <3>2. x = m + 1 \/ m + 1 < x
      BY <1>1, <3>1
    <3>3. CASE x = m + 1
      <4>1. e[x] \in U
        BY <1>1, <3>1
      <4>2. ~sorts_before(level, e[x], e[x])
        BY <4>1, KeysOrder
      <4>3. j = r
        BY <1>4, <3>1, <3>3 DEF r
      <4>4. r \in Nat
        BY <2>2
      <4> QED BY <2>3, <3>1, <3>3, <4>2, <4>3, <4>4
    <3>4. CASE m + 1 < x
      <4>1. ~sorts_before(level, e[x], e[m + 1])
        BY <1>1, <2>1, <3>1, <3>4 DEF Ordered
      <4>2. ASSUME j < r, ~sorts_before(level, e[m + 1], e[x]) PROVE FALSE
        <5>1. <<P(m + 1), P(x)>> \in Precedes(level, s) /\ e[m + 1] = s[P(m + 1)] /\ e[x] = s[P(x)]
          BY <1>2, <2>1, <3>1, <3>4
        <5>2. P(m + 1) <= P(x)
          BY <4>2, <5>1 DEF Precedes
        <5>3. P(m + 1) \in Nat \ {0} /\ P(x) \in Nat \ {0}
          BY <1>1, <1>2, <2>1, <3>1
        <5>4. RunOf(md, P(m + 1)) <= RunOf(md, P(x))
          BY <5>2, <5>3, RunsInOrder
        <5>5. RunOf(md, P(x)) = j
          BY <1>4, <3>1
        <5>6. r \in Nat /\ j \in Nat
          BY <1>7, <2>2
        <5> QED BY <4>2, <5>4, <5>5, <5>6 DEF r
      <4> QED BY <2>3, <3>1, <4>1, <4>2
    <3> QED BY <3>2, <3>3, <3>4
  <2>5. HeadRun(at) = r
    <3> DEFINE i == HeadRun(at)
    <3>1. /\ i \in Alive(at)
          /\ \A j \in Alive(at) :
               /\ ~sorts_before(level, at[j][1], at[i][1])
               /\ j < i => sorts_before(level, at[i][1], at[j][1])
      <4>1. \E k \in Alive(at) : \A j \in Alive(at) :
              /\ ~sorts_before(level, at[j][1], at[k][1])
              /\ j < k => sorts_before(level, at[k][1], at[j][1])
        BY <2>3, <2>4
      <4> QED BY <4>1 DEF HeadRun
    <3> HIDE DEF i
    <3>2. ~(i < r) /\ ~(r < i)
      BY <2>3, <2>4, <3>1
    <3>3. i \in Nat /\ r \in Nat
      BY <1>7, <2>2, <3>1
    <3>4. i = r
      BY <3>2, <3>3
    <3> QED BY <3>4 DEF i
  <2>6. HeadOf(at) = e[m + 1]
    BY <2>3, <2>5 DEF HeadOf
  <2>7. Pop(at) = [at EXCEPT ![r] = Tail(at[r])]
    BY <2>5 DEF Pop
  <2>8. ASSUME NEW i \in DOMAIN at
        PROVE  Pop(at)[i] = ItemsAt(e, Rest(md, level, s, i, m + 1))
    <3>1. Rest(md, level, s, i, m + 1) = {k \in DOMAIN s : m + 1 < k /\ RunOf(md, P(k)) = i}
      BY DEF Rest, P
    <3>2. CASE i = r
      <4>1. Rest(md, level, s, i, m + 1) = W(r) \ {m + 1}
        BY <1>1, <1>4, <3>1, <3>2
      <4> QED BY <2>2, <2>3, <2>7, <3>2, <4>1
    <3>3. CASE i # r
      <4>1. ASSUME NEW k \in DOMAIN s, m < k, RunOf(md, P(k)) = i PROVE m + 1 < k
        <5>1. k # m + 1
          BY <3>3, <4>1 DEF r
        <5> QED BY <1>1, <4>1, <5>1
      <4>2. \A k \in DOMAIN s : m + 1 < k => m < k
        BY <1>1
      <4>3. W(i) = {k \in DOMAIN s : m < k /\ RunOf(md, P(k)) = i}
        BY <1>4
      <4>4. Rest(md, level, s, i, m + 1) = W(i)
        BY <3>1, <4>1, <4>2, <4>3
      <4> QED BY <1>3, <2>2, <2>7, <3>3, <4>4
    <3> QED BY <3>2, <3>3
  <2>9. DOMAIN Pop(at) = DOMAIN at
    BY <2>7
  <2>10. Unread(md, level, s, Pop(at), m + 1)
    BY <1>3, <2>8, <2>9 DEF Unread, e
  <2> QED BY <2>3, <2>6, <2>10
<1> QED BY <1>8, <1>9 DEF e

-----------------------------------------------------------------------------
(* What a writer was given                                                 *)

Later(s, n) == {k \in DOMAIN s : n < k}

\* A writer that was given s: full chunks are in sorted runs, the rest is in
\* the buffer.  In memory there is only the buffer.
Chunked(md, w, s, l) ==
  /\ md = "small" => w.runs = <<>>
  /\ w.buffer = ItemsAt(s, Later(s, Len(w.runs) * ChunkSize))
  /\ \A i \in DOMAIN w.runs : w.runs[i].lines = sorted(l, ItemsAt(s, InRun(md, s, i)))

\* It is not flushed early
Growing(w, s) == Len(w.runs) * ChunkSize <= Len(s)

\* Run i of the big path takes the i-th chunk.
LEMMA RunIsChunk ==
  ASSUME NEW k \in Nat \ {0}, NEW i \in Nat \ {0}
  PROVE  RunOf("big", k) = i <=> (i - 1) * ChunkSize < k /\ k <= i * ChunkSize
<1> DEFINE q == (k - 1) \div ChunkSize
           a == q * ChunkSize
           b == (i - 1) * ChunkSize
<1>1. ChunkSize \in Nat \ {0} /\ k - 1 \in Nat /\ i - 1 \in Nat
  BY ReconcileAssumption
<1>2. q \in Nat /\ a <= k - 1 /\ k - 1 < a + ChunkSize
  BY <1>1, Quotient
<1>3. RunOf("big", k) = q + 1
  BY DEF RunOf
<1> HIDE DEF q
<1>4. a \in Nat /\ b \in Nat /\ i * ChunkSize = b + ChunkSize
  BY <1>1, <1>2
<1>5. q <= i - 1 => a <= b
  BY <1>1, <1>2, TimesOrder
<1>6. i - 1 <= q => b <= a
  BY <1>1, <1>2, TimesOrder
<1>7. q + 1 <= i - 1 => a + ChunkSize <= b
  <2>1. q + 1 <= i - 1 => (q + 1) * ChunkSize <= (i - 1) * ChunkSize
    BY <1>1, <1>2, TimesOrder
  <2>2. (q + 1) * ChunkSize = a + ChunkSize
    BY <1>1, <1>2
  <2> QED BY <2>1, <2>2
<1>8. i <= q => b + ChunkSize <= a
  <2>1. i <= q => i * ChunkSize <= q * ChunkSize
    BY <1>1, <1>2, TimesOrder
  <2> QED BY <1>4, <2>1
<1> HIDE DEF a, b
<1>9. q + 1 = i => b < k /\ k <= b + ChunkSize
  BY <1>1, <1>2, <1>4, <1>5, <1>6
<1>10. b < k /\ k <= b + ChunkSize => q + 1 = i
  BY <1>1, <1>2, <1>4, <1>7, <1>8
<1> QED BY <1>3, <1>4, <1>9, <1>10 DEF b

\* How many are behind place n.
LEMMA LaterFacts ==
  ASSUME NEW U, NEW s \in Seq(U), NEW n \in Nat
  PROVE  /\ Len(s) <= n => Later(s, n) = {} /\ ItemsAt(s, Later(s, n)) = <<>>
         /\ n <= Len(s) => Len(ItemsAt(s, Later(s, n))) = Len(s) - n
<1>1. DOMAIN s = 1..Len(s) /\ Len(s) \in Nat
  OBVIOUS
<1>2. ASSUME Len(s) <= n PROVE Later(s, n) = {} /\ ItemsAt(s, Later(s, n)) = <<>>
  <2>1. Later(s, n) = {}
    BY <1>1, <1>2 DEF Later
  <2> QED BY <2>1, NoItems
<1>3. ASSUME n <= Len(s) PROVE Len(ItemsAt(s, Later(s, n))) = Len(s) - n
  <2>1. Later(s, n) = (n + 1)..Len(s)
    BY <1>1 DEF Later
  <2>2. Cardinality((n + 1)..Len(s)) = Len(s) - n
    <3>1. n + 1 \in Int /\ Len(s) \in Int
      BY <1>1
    <3>2. Cardinality((n + 1)..Len(s)) = IF n + 1 > Len(s) THEN 0 ELSE Len(s) - (n + 1) + 1
      BY <3>1, FS_Interval
    <3> QED BY <1>1, <1>3, <3>2
  <2>3. Later(s, n) \in SUBSET DOMAIN s
    BY DEF Later
  <2> QED BY <2>1, <2>2, <2>3, ItemsAreList
<1> QED BY <1>2, <1>3

\* What flushing does to the runs.
LEMMA FlushedRuns ==
  ASSUME NEW U, NEW w \in Writers(U), NEW side, NEW l
  PROVE  /\ flush(w, side, l).buffer = <<>>
         /\ w.buffer = <<>> => flush(w, side, l) = w
         /\ w.buffer # <<>> =>
              /\ Len(flush(w, side, l).runs) = Len(w.runs) + 1
              /\ DOMAIN flush(w, side, l).runs = 1..(Len(w.runs) + 1)
              /\ \A i \in 1..Len(w.runs) : flush(w, side, l).runs[i] = w.runs[i]
              /\ flush(w, side, l).runs[Len(w.runs) + 1].lines = sorted(l, w.buffer)
<1>1. CASE w.buffer = <<>>
  BY <1>1 DEF flush
<1>2. CASE w.buffer # <<>>
  <2> DEFINE r == [name |-> <<attempt, side, l, Len(w.runs)>>, lines |-> sorted(l, w.buffer)]
             a == w.runs
             b == Append(a, r)
  <2>1. flush(w, side, l) = [buffer |-> <<>>, runs |-> b]
    BY <1>2 DEF flush
  <2>2. r.lines = sorted(l, w.buffer)
    OBVIOUS
  <2>3. \E T : a \in Seq(T)
    BY DEF Writers, Runs
  <2> HIDE DEF a, r
  <2>4. /\ Len(b) = Len(a) + 1 /\ DOMAIN b = 1..(Len(a) + 1)
        /\ \A i \in 1..Len(a) : b[i] = a[i]
        /\ b[Len(a) + 1] = r
    BY <2>3
  <2> HIDE DEF b
  <2> QED BY <1>2, <2>1, <2>2, <2>4 DEF a
<1> QED BY <1>1, <1>2

\* A new writer was given nothing, the one of the small path the whole list.
LEMMA NewIsChunked ==
  ASSUME NEW md, NEW l
  PROVE  Chunked(md, Writer, <<>>, l) /\ Growing(Writer, <<>>)
<1> DEFINE w == Writer
           n == Len(w.runs) * ChunkSize
<1>1. w.runs = <<>> /\ w.buffer = <<>> /\ Len(<<>>) = 0 /\ DOMAIN <<>> = {}
  BY DEF Writer
<1>2. n = 0
  <2>1. 0 * ChunkSize = 0
    BY ReconcileAssumption
  <2> QED BY <1>1, <2>1
<1>3. Later(<<>>, n) = {} /\ ItemsAt(<<>>, {}) = <<>>
  BY <1>1, NoItems DEF Later
<1> HIDE DEF w
<1>4. Growing(w, <<>>)
  BY <1>1, <1>2 DEF Growing
<1>5. w.buffer = ItemsAt(<<>>, Later(<<>>, n))
  BY <1>1, <1>3
<1>6. DOMAIN w.runs = {}
  BY <1>1
<1>7. Chunked(md, w, <<>>, l)
  BY <1>1, <1>5, <1>6 DEF Chunked
<1> QED BY <1>4, <1>7 DEF w

LEMMA ListIsChunked ==
  ASSUME NEW U, NEW s \in Seq(U), NEW md, NEW l
  PROVE  Chunked(md, [Writer EXCEPT !.buffer = s], s, l)
<1> DEFINE w == [Writer EXCEPT !.buffer = s]
<1>1. w.runs = <<>> /\ w.buffer = s /\ Len(<<>>) = 0 /\ DOMAIN <<>> = {}
  BY DEF Writer
<1>2. 0 * ChunkSize = 0
  BY ReconcileAssumption
<1>3. Later(s, 0) = DOMAIN s
  <2>1. DOMAIN s = 1..Len(s)
    OBVIOUS
  <2> QED BY <2>1 DEF Later
<1>4. ItemsAt(s, DOMAIN s) = s
  BY AllItems
<1> HIDE DEF w
<1>5. Chunked(md, w, s, l)
  BY <1>1, <1>2, <1>3, <1>4 DEF Chunked
<1> QED BY <1>5 DEF w

\* A writer that was flushed was given the same.
LEMMA FlushKeepsChunks ==
  ASSUME NEW U, NEW w \in Writers(U), NEW s \in Seq(U), NEW l, NEW side,
         Chunked("big", w, s, l), Len(w.buffer) <= ChunkSize
  PROVE  Chunked("big", flush(w, side, l), s, l)
<1> DEFINE v == flush(w, side, l)
           r == Len(w.runs)
<1>1. /\ v.buffer = <<>>
      /\ w.buffer = <<>> => v = w
      /\ w.buffer # <<>> =>
           /\ Len(v.runs) = r + 1 /\ DOMAIN v.runs = 1..(r + 1)
           /\ \A i \in 1..r : v.runs[i] = w.runs[i]
           /\ v.runs[r + 1].lines = sorted(l, w.buffer)
  BY FlushedRuns
<1>2. r \in Nat /\ DOMAIN w.runs = 1..r /\ w.buffer \in Seq(U) /\ ChunkSize \in Nat \ {0}
  BY ReconcileAssumption DEF Writers, Runs
<1>3. w.buffer = <<>> => Chunked("big", v, s, l)
  BY <1>1
<1> HIDE DEF v
<1>4. ASSUME w.buffer # <<>> PROVE Chunked("big", v, s, l)
  <2> DEFINE n == r * ChunkSize
  <2>1. n \in Nat /\ (r + 1) * ChunkSize = n + ChunkSize /\ ((r + 1) - 1) * ChunkSize = n
    BY <1>2
  <2> HIDE DEF n
  <2>2. w.buffer = ItemsAt(s, Later(s, n))
    BY DEF Chunked, n
  <2>3. n <= Len(s) /\ Len(s) - n <= ChunkSize
    <3>1. n <= Len(s)
      <4>1. Len(s) <= n => w.buffer = <<>>
        BY <2>1, <2>2, LaterFacts
      <4> QED BY <1>4, <2>1, <4>1
    <3>2. Len(w.buffer) = Len(s) - n
      BY <2>1, <2>2, <3>1, LaterFacts
    <3> QED BY <3>1, <3>2
  <2>4. DOMAIN s = 1..Len(s) /\ Len(s) \in Nat
    OBVIOUS
  <2>5. InRun("big", s, r + 1) = Later(s, n)
    <3>1. ASSUME NEW k \in DOMAIN s PROVE RunOf("big", k) = r + 1 <=> n < k
      <4>1. k \in Nat \ {0} /\ r + 1 \in Nat \ {0}
        BY <1>2, <2>4
      <4>2. RunOf("big", k) = r + 1 <=> n < k /\ k <= n + ChunkSize
        BY <2>1, <4>1, RunIsChunk
      <4>3. k <= n + ChunkSize
        BY <1>2, <2>1, <2>3, <2>4
      <4> QED BY <4>2, <4>3
    <3> QED BY <3>1 DEF InRun, Later
  <2>6. Later(s, (r + 1) * ChunkSize) = {} /\ ItemsAt(s, Later(s, (r + 1) * ChunkSize)) = <<>>
    <3>1. Len(s) <= n + ChunkSize /\ n + ChunkSize \in Nat
      BY <1>2, <2>1, <2>3, <2>4
    <3> QED BY <2>1, <3>1, LaterFacts
  <2>7. ASSUME NEW i \in 1..(r + 1) PROVE v.runs[i].lines = sorted(l, ItemsAt(s, InRun("big", s, i)))
    <3>1. CASE i = r + 1
      BY <1>1, <1>4, <2>2, <2>5, <3>1
    <3>2. CASE i # r + 1
      <4>1. i \in 1..r
        BY <1>2, <3>2
      <4> QED BY <1>1, <1>2, <1>4, <4>1 DEF Chunked
    <3> QED BY <3>1, <3>2
  <2> QED BY <1>1, <1>4, <2>6, <2>7 DEF Chunked
<1> QED BY <1>3, <1>4 DEF v

\* A list and one item more.
LEMMA LongerList ==
  ASSUME NEW U, NEW s \in Seq(U), NEW x \in U
  PROVE  /\ Append(s, x) \in Seq(U) /\ Len(Append(s, x)) = Len(s) + 1
         /\ DOMAIN Append(s, x) = DOMAIN s \cup {Len(s) + 1}
         /\ Append(s, x)[Len(s) + 1] = x
         /\ \A D \in SUBSET DOMAIN s : ItemsAt(Append(s, x), D) = ItemsAt(s, D)
<1> DEFINE t == Append(s, x)
<1>1. DOMAIN s = 1..Len(s) /\ Len(s) \in Nat /\ DOMAIN t = 1..(Len(s) + 1) /\ t[Len(s) + 1] = x
      /\ t \in Seq(U) /\ Len(t) = Len(s) + 1
      /\ \A i \in 1..Len(s) : t[i] = s[i]
  OBVIOUS
<1> HIDE DEF t
<1>2. ASSUME NEW D \in SUBSET DOMAIN s PROVE ItemsAt(t, D) = ItemsAt(s, D)
  <2>1. \A i \in D : t[i] = s[i]
    BY <1>1
  <2> QED BY <2>1, SameItems
<1>3. 1..(Len(s) + 1) = (1..Len(s)) \cup {Len(s) + 1}
  BY <1>1
<1> QED BY <1>1, <1>2, <1>3 DEF t

\* add: what a writer was given gets one item longer.
LEMMA AddChunked ==
  ASSUME NEW U, mode \in {"small", "big"}, NEW w \in Writers(U), NEW s \in Seq(U), NEW x \in U,
         NEW l, NEW side, Chunked(mode, w, s, l), Growing(w, s), mode = "big" => Len(w.buffer) < ChunkSize
  PROVE  Chunked(mode, add(w, side, l, x), Append(s, x), l) /\ Growing(add(w, side, l, x), Append(s, x))
<1> DEFINE t == Append(s, x)
           r == Len(w.runs)
           n == r * ChunkSize
<1>1. PICK v \in Writers(U) :
        /\ v = More(w, x)
        /\ v.buffer = Append(w.buffer, x) /\ v.runs = w.runs
        /\ Len(v.buffer) = Len(w.buffer) + 1
  BY BufferFacts
<1>2. add(w, side, l, x) = IF mode = "big" /\ Len(v.buffer) >= ChunkSize THEN flush(v, side, l) ELSE v
  BY <1>1 DEF add, More
<1>3. r \in Nat /\ DOMAIN w.runs = 1..r /\ w.buffer \in Seq(U) /\ ChunkSize \in Nat \ {0} /\ n \in Nat
  BY ReconcileAssumption DEF Writers, Runs
<1>4. /\ t \in Seq(U) /\ Len(t) = Len(s) + 1 /\ DOMAIN t = DOMAIN s \cup {Len(s) + 1}
      /\ t[Len(s) + 1] = x
      /\ \A D \in SUBSET DOMAIN s : ItemsAt(t, D) = ItemsAt(s, D)
  BY LongerList
<1>5. n <= Len(s) /\ DOMAIN s = 1..Len(s) /\ Len(s) \in Nat
  BY DEF Growing
<1>6. /\ mode = "small" => w.runs = <<>>
      /\ w.buffer = ItemsAt(s, Later(s, n))
      /\ \A i \in DOMAIN w.runs : w.runs[i].lines = sorted(l, ItemsAt(s, InRun(mode, s, i)))
  BY DEF Chunked
<1> HIDE DEF t, r, n
<1>7. ItemsAt(t, Later(t, n)) = Append(w.buffer, x)
  <2> DEFINE D == Later(s, n)
             y == Len(s) + 1
  <2>1. Later(t, n) = D \cup {y}
    BY <1>3, <1>4, <1>5 DEF Later
  <2>2. D \in SUBSET DOMAIN s /\ D \in SUBSET DOMAIN t /\ y \in DOMAIN t
    BY <1>4 DEF Later
  <2>3. \A i \in D : i < y
    BY <1>5 DEF Later
  <2>4. ItemsAt(t, D) = w.buffer
    BY <1>4, <1>6, <2>2
  <2> HIDE DEF D, y
  <2>5. ItemsAt(t, D \cup {y}) = Append(ItemsAt(t, D), t[y])
    BY <1>4, <2>2, <2>3, OneItemMore
  <2> QED BY <1>4, <2>1, <2>4, <2>5 DEF y
<1>8. ASSUME NEW i \in DOMAIN w.runs PROVE w.runs[i].lines = sorted(l, ItemsAt(t, InRun(mode, t, i)))
  <2>1. mode = "big"
    BY <1>6, <1>8
  <2>2. i \in Nat \ {0} /\ i <= r
    BY <1>3
  <2>3. RunOf("big", Len(s) + 1) # i
    <3>1. i * ChunkSize <= n
      BY <1>3, <2>2, TimesOrder DEF n
    <3>2. i * ChunkSize \in Nat
      BY <1>3, <2>2
    <3> DEFINE a == i * ChunkSize
    <3> HIDE DEF a
    <3>3. a \in Nat /\ ~(Len(s) + 1 <= a)
      BY <1>3, <1>5, <3>1, <3>2 DEF a
    <3>4. Len(s) + 1 \in Nat \ {0}
      BY <1>5
    <3> QED BY <2>2, <3>3, <3>4, RunIsChunk DEF a
  <2>4. InRun(mode, t, i) = InRun(mode, s, i)
    BY <1>4, <2>1, <2>3 DEF InRun
  <2>5. InRun(mode, s, i) \in SUBSET DOMAIN s
    BY DEF InRun
  <2> QED BY <1>4, <1>6, <2>4, <2>5
<1>9. Chunked(mode, v, t, l)
  BY <1>1, <1>6, <1>7, <1>8 DEF Chunked, n, r
<1>10. CASE ~(mode = "big" /\ Len(v.buffer) >= ChunkSize)
  <2>1. Growing(v, t)
    BY <1>1, <1>3, <1>4, <1>5 DEF Growing, n, r
  <2> QED BY <1>2, <1>9, <1>10, <2>1 DEF t
<1>11. CASE mode = "big" /\ Len(v.buffer) >= ChunkSize
  <2>1. add(w, side, l, x) = flush(v, side, l)
    BY <1>2, <1>11
  <2>2. Len(w.buffer) = Len(s) - n
    BY <1>3, <1>5, <1>6, LaterFacts
  <2>3. Len(v.buffer) = ChunkSize /\ Len(s) + 1 = n + ChunkSize
    <3> DEFINE a == Len(w.buffer)
               b == Len(v.buffer)
               y == Len(s)
    <3>1. a \in Nat /\ b = a + 1 /\ a < ChunkSize /\ b >= ChunkSize
      BY <1>1, <1>3, <1>11
    <3>2. y \in Nat /\ n \in Nat /\ ChunkSize \in Nat /\ a = y - n
      BY <1>3, <1>5, <2>2
    <3> HIDE DEF a, b, y
    <3>3. b = ChunkSize /\ y + 1 = n + ChunkSize
      BY <3>1, <3>2
    <3> QED BY <3>3 DEF b, y
  <2>4. Chunked("big", flush(v, side, l), t, l)
    BY <1>3, <1>4, <1>9, <1>11, <2>3, FlushKeepsChunks
  <2>5. v.buffer # <<>>
    BY <1>3, <2>3
  <2>6. Len(flush(v, side, l).runs) = r + 1
    BY <1>1, <2>5, FlushedRuns DEF r
  <2>7. (r + 1) * ChunkSize = n + ChunkSize
    BY <1>3 DEF n
  <2>8. Growing(flush(v, side, l), t)
    BY <1>3, <1>4, <1>5, <2>3, <2>6, <2>7 DEF Growing
  <2> QED BY <1>11, <2>1, <2>4, <2>8 DEF t
<1> QED BY <1>10, <1>11

\* start_round reads what the writer was given.
LEMMA FinishedIsUnread ==
  ASSUME NEW U, HaveKeys(U), mode \in {"small", "big"}, level \in CLOSING_LEVELS,
         NEW w \in Writers(U), NEW s \in Seq(U), NEW side,
         Chunked(mode, w, s, level), mode = "big" => Len(w.buffer) < ChunkSize
  PROVE  Unread(mode, level, s, Lines(Finished(w, side)), 0)
<1> DEFINE v == flush(w, side, level)
           at == Lines(v.runs)
<1>1. /\ v.buffer = <<>>
      /\ w.buffer = <<>> => v = w
      /\ w.buffer # <<>> =>
           /\ Len(v.runs) = Len(w.runs) + 1 /\ DOMAIN v.runs = 1..(Len(w.runs) + 1)
           /\ v.runs[Len(w.runs) + 1].lines = sorted(level, w.buffer)
  BY FlushedRuns
<1>2. DOMAIN s = 1..Len(s) /\ Len(s) \in Nat /\ ChunkSize \in Nat \ {0}
  BY ReconcileAssumption
<1>3. DOMAIN at = DOMAIN v.runs /\ \A i \in DOMAIN v.runs : at[i] = v.runs[i].lines
  BY DEF Lines
<1> HIDE DEF v
<1>4. /\ \A i \in DOMAIN v.runs : v.runs[i].lines = sorted(level, ItemsAt(s, InRun(mode, s, i)))
      /\ \A k \in DOMAIN s : RunOf(mode, k) \in DOMAIN v.runs
  <2>1. CASE mode = "small"
    <3>1. w.runs = <<>> /\ w.buffer = ItemsAt(s, Later(s, Len(w.runs) * ChunkSize))
      BY <2>1 DEF Chunked
    <3>2. Len(w.runs) * ChunkSize = 0 /\ Len(w.runs) = 0
      <4>1. 0 * ChunkSize = 0
        BY <1>2
      <4> QED BY <3>1, <4>1
    <3>3. Later(s, 0) = DOMAIN s
      BY <1>2 DEF Later
    <3>4. w.buffer = s
      BY <3>1, <3>2, <3>3, AllItems
    <3>5. \A k : RunOf("small", k) = 1
      BY DEF RunOf
    <3>6. InRun("small", s, 1) = DOMAIN s
      BY <3>5 DEF InRun
    <3>7. CASE s = <<>>
      BY <1>1, <3>1, <3>4, <3>7
    <3>8. CASE s # <<>>
      <4>1. DOMAIN v.runs = {1} /\ v.runs[1].lines = sorted(level, s)
        BY <1>1, <3>2, <3>4, <3>8
      <4>2. ItemsAt(s, InRun("small", s, 1)) = s
        BY <3>6, AllItems
      <4> QED BY <2>1, <3>5, <4>1, <4>2
    <3> QED BY <3>7, <3>8
  <2>2. CASE mode = "big"
    <3>1. Chunked("big", v, s, level)
      <4>1. Len(w.buffer) <= ChunkSize
        <5>1. Len(w.buffer) \in Nat
          BY DEF Writers
        <5> QED BY <1>2, <2>2, <5>1
      <4> QED BY <2>2, <4>1, FlushKeepsChunks DEF v
    <3>2. \A i \in DOMAIN v.runs : v.runs[i].lines = sorted(level, ItemsAt(s, InRun(mode, s, i)))
      BY <2>2, <3>1 DEF Chunked
    <3>3. DOMAIN v.runs = 1..Len(v.runs) /\ Len(v.runs) \in Nat
      <4>1. DOMAIN w.runs = 1..Len(w.runs) /\ Len(w.runs) \in Nat
        BY DEF Writers, Runs
      <4> QED BY <1>1, <4>1
    <3> DEFINE n == Len(v.runs) * ChunkSize
    <3>4. n \in Nat
      BY <1>2, <3>3
    <3>5. Len(s) <= n
      <4>1. ItemsAt(s, Later(s, n)) = <<>>
        BY <1>1, <3>1 DEF Chunked
      <4> HIDE DEF n
      <4>2. n <= Len(s) => Len(s) - n = 0
        BY <3>4, <4>1, LaterFacts
      <4> DEFINE y == Len(s)
      <4>3. y \in Nat /\ (n <= y => y - n = 0)
        BY <1>2, <4>2
      <4>4. n \in Nat
        BY <3>4
      <4> HIDE DEF y
      <4>5. y <= n
        BY <4>3, <4>4
      <4> QED BY <4>5 DEF y
    <3>6. ASSUME NEW k \in DOMAIN s PROVE RunOf("big", k) \in DOMAIN v.runs
      <4> DEFINE i == RunOf("big", k)
      <4>1. k \in Nat \ {0} /\ k <= Len(s)
        BY <1>2
      <4>2. i \in Nat \ {0}
        BY <4>1, RunsInOrder
      <4>3. (i - 1) * ChunkSize < k
        BY <4>1, <4>2, RunIsChunk
      <4> HIDE DEF i
      <4>4. ASSUME Len(v.runs) <= i - 1 PROVE FALSE
        <5>1. n <= (i - 1) * ChunkSize /\ (i - 1) * ChunkSize \in Nat
          BY <1>2, <3>3, <4>2, <4>4, TimesOrder
        <5> DEFINE a == (i - 1) * ChunkSize
        <5> HIDE DEF a, n
        <5> QED BY <1>2, <3>4, <3>5, <4>1, <4>3, <5>1 DEF a
      <4>5. i <= Len(v.runs)
        BY <3>3, <4>2, <4>4
      <4> QED BY <3>3, <4>2, <4>5 DEF i
    <3> QED BY <2>2, <3>2, <3>6
  <2> QED BY <2>1, <2>2
<1>5. ASSUME NEW i \in DOMAIN at PROVE at[i] = ItemsAt(sorted(level, s), Rest(mode, level, s, i, 0))
  <2>1. at[i] = sorted(level, ItemsAt(s, InRun(mode, s, i)))
    BY <1>3, <1>4
  <2> DEFINE D == InRun(mode, s, i)
             T == {k \in DOMAIN s : PlaceOf(level, s, k) \in D}
  <2>2. D \in SUBSET DOMAIN s
    BY DEF InRun
  <2>3. T = Rest(mode, level, s, i, 0)
    <3>1. \A k \in DOMAIN s : PlaceOf(level, s, k) \in DOMAIN s
      BY SortedPlaces
    <3>2. \A k \in DOMAIN s : 0 < k
      BY <1>2
    <3> QED BY <3>1, <3>2 DEF Rest, InRun
  <2> HIDE DEF D
  <2>4. sorted(level, ItemsAt(s, D)) = ItemsAt(sorted(level, s), T)
    BY <2>2, SortedItems
  <2> QED BY <2>1, <2>3, <2>4 DEF D
<1>6. Unread(mode, level, s, at, 0)
  BY <1>3, <1>4, <1>5 DEF Unread
<1> QED BY <1>6 DEF Finished, v

-----------------------------------------------------------------------------
(* Partners                                                                *)

\* No item among the first m of s or n of t has its key behind them in the
\* other list
Split(l, s, t, m, n) ==
  \A i \in DOMAIN s, j \in DOMAIN t : (i <= m /\ n < j) \/ (m < i /\ j <= n) => ~SameKey(l, s[i], t[j])

\* Both lists have the same to say of it.
LEMMA OtherWay ==
  ASSUME NEW l, NEW s, NEW t
  PROVE  /\ \A m, n : Split(l, s, t, m, n) => Split(l, t, s, n, m)
         /\ \A i, j : Partners(l, s, t, i, j) => Partners(l, t, s, j, i)
BY DEF Split, Partners, SameKey

\* In an ordered list, what follows an item with a key has that key or a
\* greater one or none, and what follows one without has none.
LEMMA OrderedKeys ==
  ASSUME NEW U, HaveKeys(U), NEW l \in CLOSING_LEVELS, NEW s \in Seq(U), Ordered(l, s),
         NEW i \in DOMAIN s, NEW j \in DOMAIN s, i <= j
  PROVE  /\ key(l, s[i]) \in Nat /\ key(l, s[j]) \in Nat
         /\ key(l, s[j]) # None => key(l, s[i]) # None /\ key(l, s[i]) <= key(l, s[j])
<1>1. s[i] \in U /\ s[j] \in U /\ i \in Nat /\ j \in Nat
  OBVIOUS
<1>2. key(l, s[i]) \in Nat /\ key(l, s[j]) \in Nat
  BY <1>1 DEF HaveKeys
<1>3. i = j \/ ~sorts_before(l, s[j], s[i])
  BY <1>1 DEF Ordered
<1> QED BY <1>2, <1>3 DEF sorts_before

\* The item after the first m of s comes before all that t still has, or has
\* no key
Ahead(l, s, t, m, n) ==
  \/ n = Len(t)
  \/ key(l, s[m + 1]) = None
  \/ n < Len(t) /\ key(l, t[n + 1]) # None /\ key(l, s[m + 1]) < key(l, t[n + 1])
  \/ n < Len(t) /\ key(l, t[n + 1]) = None

\* leftover_expected, leftover_observed: an item that nothing ahead in the
\* other list goes with is alone.
LEMMA NextIsAlone ==
  ASSUME NEW U, NEW V, HaveKeys(U), HaveKeys(V), NEW l \in CLOSING_LEVELS,
         NEW s \in Seq(U), NEW t \in Seq(V), Ordered(l, s), Ordered(l, t),
         NEW m \in 0..Len(s), NEW n \in 0..Len(t), m < Len(s), Split(l, s, t, m, n), Ahead(l, s, t, m, n)
  PROVE  m + 1 \in Alone(l, s, t) /\ Split(l, s, t, m + 1, n)
<1>1. DOMAIN s = 1..Len(s) /\ DOMAIN t = 1..Len(t) /\ Len(s) \in Nat /\ Len(t) \in Nat /\ m + 1 \in DOMAIN s
      /\ m \in Nat /\ n \in Nat /\ m < m + 1 /\ n <= Len(t)
  OBVIOUS
<1>2. ASSUME NEW j \in DOMAIN t PROVE ~SameKey(l, s[m + 1], t[j])
  <2>0. j \in Nat /\ j <= Len(t)
    BY <1>1
  <2>1. CASE j <= n
    BY <1>1, <2>1 DEF Split
  <2>2. CASE n < j
    <3>1. n < Len(t) /\ n + 1 \in DOMAIN t /\ n + 1 <= j
      BY <1>1, <2>0, <2>2
    <3>2. /\ key(l, t[n + 1]) \in Nat /\ key(l, t[j]) \in Nat
          /\ key(l, t[j]) # None => key(l, t[n + 1]) # None /\ key(l, t[n + 1]) <= key(l, t[j])
      BY <3>1, OrderedKeys
    <3>5. n # Len(t)
      <4> DEFINE z == Len(t)
      <4>1. n < z /\ n \in Nat /\ z \in Nat
        BY <1>1, <3>1
      <4> HIDE DEF z
      <4>2. n # z
        BY <4>1
      <4> QED BY <4>2 DEF z
    <3>3. key(l, s[m + 1]) \in Nat
      <4>1. s[m + 1] \in U
        BY <1>1
      <4> QED BY <4>1 DEF HaveKeys
    <3> DEFINE a == key(l, s[m + 1])
               b == key(l, t[n + 1])
               c == key(l, t[j])
               z == Len(t)
    <3>4. a \in Nat /\ b \in Nat /\ c \in Nat /\ (c # None => b # None /\ b <= c)
      BY <3>2, <3>3
    <3>6. a = None \/ (b # None /\ a < b) \/ b = None
      BY <3>5 DEF Ahead
    <3> HIDE DEF a, b, c, z
    <3>7. ~(a = c /\ a # None)
      BY <3>4, <3>6
    <3> QED BY <3>7 DEF SameKey, a, c
  <2> QED BY <1>1, <2>0, <2>1, <2>2
<1>3. m + 1 \in Alone(l, s, t)
  BY <1>1, <1>2 DEF Alone, Partners
<1>4. ASSUME NEW i \in DOMAIN s, NEW j \in DOMAIN t, (i <= m + 1 /\ n < j) \/ (m + 1 < i /\ j <= n)
      PROVE  ~SameKey(l, s[i], t[j])
  <2>1. i \in Nat
    BY <1>1
  <2>2. i = m + 1 \/ (i <= m /\ n < j) \/ (m < i /\ j <= n)
    BY <1>1, <1>4, <2>1
  <2> QED BY <1>2, <2>2 DEF Split
<1> QED BY <1>3, <1>4 DEF Split

\* The places from m + 1 to n
Between(m, n) == (m + 1)..n

\* Where a group ends
GroupIs(l, s, m, n, k) ==
  /\ \A i \in Between(m, n) : i \in DOMAIN s /\ key(l, s[i]) = k
  /\ n < Len(s) => key(l, s[n + 1]) # k

\* Items with a key are next to each other, in the order of their number.
LEMMA GroupPlaces ==
  ASSUME NEW U, NEW V, HaveKeys(U), HaveKeys(V), NEW l \in CLOSING_LEVELS,
         NEW s \in Seq(U), NEW t \in Seq(V), Ordered(l, s),
         NEW m \in 0..Len(s), NEW mm \in 0..m, NEW n \in 0..Len(t), NEW nn \in 0..n,
         Split(l, s, t, mm, nn), mm < m, nn < n, NEW k, k # None,
         GroupIs(l, s, mm, m, k), GroupIs(l, t, nn, n, k)
  PROVE  /\ \A i \in DOMAIN s : key(l, s[i]) = k <=> i \in Between(mm, m)
         /\ \A i \in Between(mm, m) : Nth(l, s, i) = i - mm
<1>1. DOMAIN s = 1..Len(s) /\ DOMAIN t = 1..Len(t) /\ Len(s) \in Nat /\ Len(t) \in Nat
      /\ m \in Nat /\ mm \in Nat /\ n \in Nat /\ nn \in Nat
  OBVIOUS
<1>2. ASSUME NEW i \in DOMAIN s, key(l, s[i]) = k PROVE i \in Between(mm, m)
  <2>1. mm < i
    <3>1. nn + 1 \in Between(nn, n)
      BY <1>1 DEF Between
    <3>2. nn + 1 \in DOMAIN t /\ key(l, t[nn + 1]) = k /\ nn < nn + 1
      BY <1>1, <3>1 DEF GroupIs
    <3>3. SameKey(l, s[i], t[nn + 1])
      BY <1>2, <3>2 DEF SameKey
    <3>4. ~(i <= mm)
      BY <3>2, <3>3 DEF Split
    <3> QED BY <1>1, <3>4
  <2>2. ASSUME m < i PROVE FALSE
    <3>1. m + 1 \in DOMAIN s /\ m + 1 <= i /\ m < Len(s) /\ m \in DOMAIN s /\ m <= m + 1 /\ m \in Between(mm, m)
      BY <1>1, <2>2 DEF Between
    <3>2. key(l, s[m + 1]) # k /\ key(l, s[m]) = k
      BY <3>1 DEF GroupIs
    <3>3. /\ key(l, s[m + 1]) \in Nat /\ key(l, s[i]) \in Nat
          /\ key(l, s[i]) # None => key(l, s[m + 1]) # None /\ key(l, s[m + 1]) <= key(l, s[i])
      BY <3>1, OrderedKeys
    <3>4. key(l, s[m + 1]) # None => key(l, s[m]) # None /\ key(l, s[m]) <= key(l, s[m + 1])
      BY <3>1, OrderedKeys
    <3> QED BY <1>2, <3>2, <3>3, <3>4
  <2> QED BY <1>1, <2>1, <2>2 DEF Between
<1>3. \A i \in DOMAIN s : key(l, s[i]) = k <=> i \in Between(mm, m)
  BY <1>2 DEF GroupIs
<1>4. ASSUME NEW i \in Between(mm, m) PROVE Nth(l, s, i) = i - mm
  <2>1. i \in Nat /\ mm < i /\ i <= m /\ i \in DOMAIN s /\ key(l, s[i]) = k
    BY <1>1 DEF Between, GroupIs
  <2>2. ASSUME NEW j \in 1..i PROVE key(l, s[j]) = k <=> j \in (mm + 1)..i
    <3>1. j \in DOMAIN s /\ (j \in Between(mm, m) <=> j \in (mm + 1)..i)
      BY <1>1, <2>1 DEF Between
    <3> QED BY <1>3, <3>1
  <2>3. \A j \in (mm + 1)..i : j \in 1..i
    BY <1>1, <2>1
  <2>4. {j \in 1..i : key(l, s[j]) = key(l, s[i])} = (mm + 1)..i
    BY <2>1, <2>2, <2>3
  <2>5. Cardinality((mm + 1)..i) = i - mm
    <3>1. mm + 1 \in Int /\ i \in Int
      BY <1>1, <2>1
    <3>2. Cardinality((mm + 1)..i) = IF mm + 1 > i THEN 0 ELSE i - (mm + 1) + 1
      BY <3>1, FS_Interval
    <3> QED BY <1>1, <2>1, <3>2
  <2> QED BY <2>4, <2>5 DEF Nth
<1> QED BY <1>3, <1>4

\* close_group: the items of two groups are partners in order, and what one
\* group has more is alone.
LEMMA GroupPartners ==
  ASSUME NEW U, NEW V, HaveKeys(U), HaveKeys(V), NEW l \in CLOSING_LEVELS,
         NEW s \in Seq(U), NEW t \in Seq(V), Ordered(l, s), Ordered(l, t),
         NEW m \in 0..Len(s), NEW mm \in 0..m, NEW n \in 0..Len(t), NEW nn \in 0..n,
         Split(l, s, t, mm, nn), mm < m, nn < n, NEW k, k # None,
         GroupIs(l, s, mm, m, k), GroupIs(l, t, nn, n, k)
  PROVE  /\ \A i \in Between(mm, m), j \in DOMAIN t :
              Partners(l, s, t, i, j) <=> j \in Between(nn, n) /\ i - mm = j - nn
         /\ \A i \in Between(mm, m) : i \in Alone(l, s, t) <=> n - nn < i - mm
         /\ Split(l, s, t, m, n)
<1>1. DOMAIN s = 1..Len(s) /\ DOMAIN t = 1..Len(t) /\ Len(s) \in Nat /\ Len(t) \in Nat
      /\ m \in Nat /\ mm \in Nat /\ n \in Nat /\ nn \in Nat
  OBVIOUS
<1>2. /\ \A i \in DOMAIN s : key(l, s[i]) = k <=> i \in Between(mm, m)
      /\ \A i \in Between(mm, m) : Nth(l, s, i) = i - mm
  BY GroupPlaces
<1>3. /\ \A j \in DOMAIN t : key(l, t[j]) = k <=> j \in Between(nn, n)
      /\ \A j \in Between(nn, n) : Nth(l, t, j) = j - nn
  <2>1. Split(l, t, s, nn, mm)
    BY OtherWay
  <2> QED BY <2>1, GroupPlaces
<1>4. ASSUME NEW i \in Between(mm, m), NEW j \in DOMAIN t
      PROVE  Partners(l, s, t, i, j) <=> j \in Between(nn, n) /\ i - mm = j - nn
  <2>1. i \in DOMAIN s /\ key(l, s[i]) = k
    BY DEF GroupIs
  <2>2. SameKey(l, s[i], t[j]) <=> j \in Between(nn, n)
    BY <1>3, <2>1 DEF SameKey
  <2> QED BY <1>2, <1>3, <2>2 DEF Partners
<1>5. ASSUME NEW i \in Between(mm, m) PROVE i \in Alone(l, s, t) <=> n - nn < i - mm
  <2>0. i \in Nat /\ mm < i /\ i \in DOMAIN s
    BY <1>1 DEF Between, GroupIs
  <2>1. ASSUME n - nn < i - mm, NEW j \in DOMAIN t, Partners(l, s, t, i, j) PROVE FALSE
    <3>1. j \in Between(nn, n) /\ i - mm = j - nn
      BY <1>4, <2>1
    <3> QED BY <1>1, <2>0, <2>1, <3>1 DEF Between
  <2>2. ASSUME ~(n - nn < i - mm) PROVE \E j \in DOMAIN t : Partners(l, s, t, i, j)
    <3> DEFINE j == nn + (i - mm)
    <3>1. j \in Between(nn, n) /\ j \in DOMAIN t /\ i - mm = j - nn
      BY <1>1, <2>0, <2>2 DEF Between
    <3> QED BY <1>4, <3>1
  <2> QED BY <2>0, <2>1, <2>2 DEF Alone
<1>6. ASSUME NEW i \in DOMAIN s, NEW j \in DOMAIN t, (i <= m /\ n < j) \/ (m < i /\ j <= n), SameKey(l, s[i], t[j])
      PROVE  FALSE
  <2>1. i \in Between(mm, m) <=> j \in Between(nn, n)
    BY <1>2, <1>3, <1>6 DEF SameKey
  <2>2. i \in Nat /\ j \in Nat
    BY <1>1
  <2>3. (i <= mm /\ nn < j) \/ (mm < i /\ j <= nn)
    BY <1>1, <1>6, <2>1, <2>2 DEF Between
  <2> QED BY <1>6, <2>3 DEF Split
<1> QED BY <1>4, <1>5, <1>6 DEF Split

-----------------------------------------------------------------------------
(* The reference, level by level                                           *)

\* What a level has to match, and what there is after the last
Start(i) == [e |-> resolve_expected_points(i.manifest), o |-> i.observed, matched |-> {}]

Before(i, l) ==
  CASE l = POINT_ID     -> Start(i)
    [] l = EMBEDDING_ID -> Round(Start(i), POINT_ID)
    [] l = CHUNK_ID     -> Round(Round(Start(i), POINT_ID), EMBEDDING_ID)

\* A pair, and the pairs of the first m items of s
Pair(l, s, t, i, j) == [expected |-> s[i], observed |-> t[j], level |-> l]

PairsUpTo(l, s, t, m) ==
  {Pair(l, s, t, p[1], p[2]) : p \in {p \in (DOMAIN s) \X (DOMAIN t) : p[1] <= m /\ Partners(l, s, t, p[1], p[2])}}

\* Places up to the m-th
SoFar(D, m) == {i \in D : i <= m}

\* What is among the pairs so far.
LEMMA PairsFacts ==
  ASSUME NEW l, NEW s, NEW t, NEW m
  PROVE  \A x : x \in PairsUpTo(l, s, t, m) <=>
           \E i \in DOMAIN s, j \in DOMAIN t : i <= m /\ Partners(l, s, t, i, j) /\ x = Pair(l, s, t, i, j)
<1>1. ASSUME NEW x, x \in PairsUpTo(l, s, t, m)
      PROVE  \E i \in DOMAIN s, j \in DOMAIN t : i <= m /\ Partners(l, s, t, i, j) /\ x = Pair(l, s, t, i, j)
  BY <1>1 DEF PairsUpTo
<1>2. ASSUME NEW i \in DOMAIN s, NEW j \in DOMAIN t, i <= m, Partners(l, s, t, i, j)
      PROVE  Pair(l, s, t, i, j) \in PairsUpTo(l, s, t, m)
  <2> DEFINE p == <<i, j>>
  <2>1. p \in (DOMAIN s) \X (DOMAIN t) /\ p[1] = i /\ p[2] = j
    OBVIOUS
  <2> HIDE DEF p
  <2> QED BY <1>2, <2>1 DEF PairsUpTo
<1> QED BY <1>1, <1>2

\* An item that is alone makes no pair.
LEMMA AlonePairsNone ==
  ASSUME NEW l, NEW U, NEW s \in Seq(U), NEW t, NEW m \in Nat, m + 1 \in Alone(l, s, t)
  PROVE  PairsUpTo(l, s, t, m + 1) = PairsUpTo(l, s, t, m)
<1>1. \A i \in DOMAIN s : i <= m + 1 <=> i <= m \/ i = m + 1
  <2>1. DOMAIN s = 1..Len(s)
    OBVIOUS
  <2> QED BY <2>1
<1>2. \A j \in DOMAIN t : ~Partners(l, s, t, m + 1, j)
  BY DEF Alone
<1>3. ASSUME NEW x PROVE x \in PairsUpTo(l, s, t, m + 1) <=> x \in PairsUpTo(l, s, t, m)
  <2>1. /\ x \in PairsUpTo(l, s, t, m + 1) <=>
             \E i \in DOMAIN s, j \in DOMAIN t : i <= m + 1 /\ Partners(l, s, t, i, j) /\ x = Pair(l, s, t, i, j)
        /\ x \in PairsUpTo(l, s, t, m) <=>
             \E i \in DOMAIN s, j \in DOMAIN t : i <= m /\ Partners(l, s, t, i, j) /\ x = Pair(l, s, t, i, j)
    BY PairsFacts
  <2> QED BY <1>1, <1>2, <2>1
<1> QED BY <1>3

\* Before the first item there are no pairs.
LEMMA NoPairs ==
  ASSUME NEW l, NEW U, NEW s \in Seq(U), NEW t
  PROVE  PairsUpTo(l, s, t, 0) = {}
<1>1. \A i \in DOMAIN s : ~(i <= 0)
  <2>1. DOMAIN s = 1..Len(s)
    OBVIOUS
  <2> QED BY <2>1
<1> QED BY <1>1, PairsFacts

\* A level keeps lists lists, and its outcome in the words of this proof.
LEMMA RoundFacts ==
  ASSUME NEW U, NEW V, HaveKeys(U), HaveKeys(V), NEW l \in CLOSING_LEVELS,
         NEW st, st.e \in Seq(U), st.o \in Seq(V)
  PROVE  LET e == sorted(l, st.e)
             o == sorted(l, st.o)
         IN /\ Round(st, l).e = ItemsAt(e, Alone(l, e, o)) /\ Round(st, l).e \in Seq(U)
            /\ Round(st, l).o = ItemsAt(o, Alone(l, o, e)) /\ Round(st, l).o \in Seq(V)
            /\ Round(st, l).matched = st.matched \cup PairsUpTo(l, e, o, Len(e))
<1> DEFINE e == sorted(l, st.e)
           o == sorted(l, st.o)
           pairs == {p \in (DOMAIN e) \X (DOMAIN o) : Partners(l, e, o, p[1], p[2])}
           made == {[expected |-> e[p[1]], observed |-> o[p[2]], level |-> l] : p \in pairs}
<1>1. e \in Seq(U) /\ o \in Seq(V)
  BY SortedFacts
<1>2. Round(st, l) = [e |-> ItemsAt(e, Alone(l, e, o)), o |-> ItemsAt(o, Alone(l, o, e)),
                      matched |-> st.matched \cup made]
  BY DEF Round
<1> HIDE DEF e, o
<1>3. made = PairsUpTo(l, e, o, Len(e))
  <2>1. DOMAIN e = 1..Len(e)
    BY <1>1
  <2>2. pairs = {p \in (DOMAIN e) \X (DOMAIN o) : p[1] <= Len(e) /\ Partners(l, e, o, p[1], p[2])}
    BY <2>1
  <2> QED BY <2>2 DEF PairsUpTo, Pair
<1> HIDE DEF made
<1>4. ItemsAt(e, Alone(l, e, o)) \in Seq(U)
  <2>1. Alone(l, e, o) \in SUBSET DOMAIN e
    BY DEF Alone
  <2> QED BY <1>1, <2>1, ItemsAreList
<1>5. ItemsAt(o, Alone(l, o, e)) \in Seq(V)
  <2>1. Alone(l, o, e) \in SUBSET DOMAIN o
    BY DEF Alone
  <2> QED BY <1>1, <2>1, ItemsAreList
<1> QED BY <1>2, <1>3, <1>4, <1>5 DEF e, o

\* What is left for a level are expected and observed points.
LEMMA BeforeFacts ==
  ASSUME in \in Inputs, NEW l \in CLOSING_LEVELS
  PROVE  /\ Before(in, l).e \in Seq(E) /\ Before(in, l).o \in Seq(O)
         /\ Before(in, POINT_ID) = Start(in)
         /\ Before(in, POINT_ID).e = expected /\ Before(in, POINT_ID).o = in.observed
         /\ Before(in, POINT_ID).matched = {}
         /\ l # CHUNK_ID => l + 1 \in CLOSING_LEVELS /\ Before(in, l + 1) = Round(Before(in, l), l)
         /\ Reference = Round(Before(in, CHUNK_ID), CHUNK_ID)
<1> DEFINE a == Start(in)
           b == Round(a, POINT_ID)
           c == Round(b, EMBEDDING_ID)
<1>1. POINT_ID \in CLOSING_LEVELS /\ EMBEDDING_ID \in CLOSING_LEVELS /\ CHUNK_ID \in CLOSING_LEVELS
      /\ POINT_ID # EMBEDDING_ID /\ POINT_ID # CHUNK_ID /\ EMBEDDING_ID # CHUNK_ID
      /\ POINT_ID + 1 = EMBEDDING_ID /\ EMBEDDING_ID + 1 = CHUNK_ID
      /\ l \in {POINT_ID, EMBEDDING_ID, CHUNK_ID}
  BY DEF CLOSING_LEVELS, POINT_ID, EMBEDDING_ID, CHUNK_ID
<1>2. HaveKeys(E) /\ HaveKeys(O) /\ a.e \in Seq(E) /\ a.o \in Seq(O) /\ a.e = expected /\ a.o = in.observed
      /\ a.matched = {}
  BY InputFacts DEF Start, expected
<1> HIDE DEF a
<1>3. b.e \in Seq(E) /\ b.o \in Seq(O)
  BY <1>1, <1>2, RoundFacts
<1> HIDE DEF b
<1>4. c.e \in Seq(E) /\ c.o \in Seq(O)
  BY <1>1, <1>2, <1>3, RoundFacts
<1> HIDE DEF c
<1>5. Before(in, POINT_ID) = a /\ Before(in, EMBEDDING_ID) = b /\ Before(in, CHUNK_ID) = c
  BY <1>1 DEF Before, a, b, c
<1>6. Reference = Round(c, CHUNK_ID)
  BY DEF Reference, a, b, c, Start, expected
<1> QED BY <1>1, <1>2, <1>3, <1>4, <1>5, <1>6 DEF a, b, c

\* The items a level leaves over, to the next level's writer or the last list
LeftOver(md, l, w, s) ==
  IF l = CHUNK_ID THEN w.buffer = s ELSE Chunked(md, w, s, l + 1) /\ Growing(w, s)

\* left_over: the list gets one longer.
LEMMA LeftOverMore ==
  ASSUME NEW U, mode \in {"small", "big"}, NEW w \in Writers(U), NEW s \in Seq(U), NEW x \in U, NEW side,
         LeftOver(mode, level, w, s), mode = "big" /\ level # CHUNK_ID => Len(w.buffer) < ChunkSize
  PROVE  LeftOver(mode, level, left_over(w, side, x), Append(s, x))
<1>1. CASE level = CHUNK_ID
  BY <1>1, BufferFacts DEF LeftOver, left_over, More
<1>2. CASE level # CHUNK_ID
  <2>1. Chunked(mode, w, s, level + 1) /\ Growing(w, s)
    BY <1>2 DEF LeftOver
  <2>2. Chunked(mode, add(w, side, level + 1, x), Append(s, x), level + 1)
        /\ Growing(add(w, side, level + 1, x), Append(s, x))
    BY <1>2, <2>1, AddChunked
  <2> QED BY <1>2, <2>2 DEF LeftOver, left_over
<1> QED BY <1>1, <1>2

\* What is alone among one item more, and among all of them.
LEMMA SoFarMore ==
  ASSUME NEW U, NEW e \in Seq(U), NEW D \in SUBSET DOMAIN e, NEW m \in Nat, m + 1 \in DOMAIN e
  PROVE  /\ ItemsAt(e, SoFar(D, m)) \in Seq(U)
         /\ m + 1 \in D => ItemsAt(e, SoFar(D, m + 1)) = Append(ItemsAt(e, SoFar(D, m)), e[m + 1])
<1> DEFINE T == SoFar(D, m)
           x == m + 1
<1>1. T \in SUBSET DOMAIN e /\ x \in DOMAIN e /\ \A i \in T : i < x
  <2>1. DOMAIN e = 1..Len(e)
    OBVIOUS
  <2> QED BY <2>1 DEF SoFar
<1>2. m + 1 \in D => SoFar(D, m + 1) = T \cup {x}
  <2>1. \A i \in DOMAIN e : i <= m + 1 <=> i <= m \/ i = m + 1
    <3>1. DOMAIN e = 1..Len(e)
      OBVIOUS
    <3> QED BY <3>1
  <2> QED BY <2>1 DEF SoFar
<1> HIDE DEF T, x
<1>3. ItemsAt(e, T) \in Seq(U) /\ ItemsAt(e, T \cup {x}) = Append(ItemsAt(e, T), e[x])
  BY <1>1, OneItemMore, ItemsAreList
<1> QED BY <1>2, <1>3 DEF T, x

LEMMA SoFarEnds ==
  ASSUME NEW U, NEW e \in Seq(U), NEW D \in SUBSET DOMAIN e
  PROVE  SoFar(D, Len(e)) = D /\ SoFar(D, 0) = {}
<1>1. DOMAIN e = 1..Len(e)
  OBVIOUS
<1> QED BY <1>1 DEF SoFar

-----------------------------------------------------------------------------
(* A stream of a join                                                      *)

\* One stream of a join against the other: m items of the sorted s are read,
\* what is alone of the first mm is left over, and the rest is the group
Side(md, l, s, t, at, group, w, mm, m) ==
  /\ Unread(md, l, s, at, m)
  /\ group = SubSeq(sorted(l, s), mm + 1, m)
  /\ LeftOver(md, l, w, ItemsAt(sorted(l, s), SoFar(Alone(l, sorted(l, s), sorted(l, t)), mm)))

\* A part of a list: its items, its growth at the end, what is left of it.
LEMMA PartFacts ==
  ASSUME NEW U, NEW e \in Seq(U), NEW m \in 0..Len(e), NEW mm \in 0..m
  PROVE  /\ SubSeq(e, mm + 1, m) \in Seq(U) /\ Len(SubSeq(e, mm + 1, m)) = m - mm
         /\ \A i \in 1..(m - mm) : SubSeq(e, mm + 1, m)[i] = e[mm + i] /\ mm + i \in DOMAIN e
<1> DEFINE a == SubSeq(e, mm + 1, m)
           z == Len(e)
           y == m - mm
<1>1. z \in Nat /\ DOMAIN e = 1..z /\ mm \in Nat /\ mm <= m /\ m \in Nat /\ m <= z /\ \A i \in 1..z : e[i] \in U
  OBVIOUS
<1>2. a = [i \in 1..y |-> e[mm + i]]
  <2>1. (m - (mm + 1)) + 1 = m - mm /\ \A i \in 1..(m - mm) : (mm + 1) + i - 1 = mm + i
    BY <1>1
  <2> QED BY <1>1, <2>1
<1>3. \A i \in 1..y : mm + i \in 1..z
  BY <1>1
<1>4. y \in Nat /\ \A i \in 1..y : e[mm + i] \in U
  BY <1>1, <1>3
<1>5. a \in Seq(U) /\ Len(a) = y /\ \A i \in 1..y : a[i] = e[mm + i]
  <2> HIDE DEF a, y
  <2>1. a \in [1..y -> U]
    BY <1>2, <1>4
  <2> QED BY <1>2, <1>4, <2>1
<1> QED BY <1>1, <1>3, <1>5

LEMMA PartGrows ==
  ASSUME NEW U, NEW e \in Seq(U), NEW m \in Nat, NEW mm \in 0..m, m < Len(e)
  PROVE  SubSeq(e, mm + 1, m + 1) = Append(SubSeq(e, mm + 1, m), e[m + 1])
<1> DEFINE z == Len(e)
           a == SubSeq(e, mm + 1, m)
           b == SubSeq(e, mm + 1, m + 1)
           x == e[m + 1]
           c == Append(a, x)
           y == m - mm
<1>1. z \in Nat /\ DOMAIN e = 1..z /\ mm \in Nat /\ mm <= m /\ x \in U /\ y \in Nat /\ m - mm = y /\ m + 1 - mm = y + 1
      /\ mm + (y + 1) = m + 1
  OBVIOUS
<1>2. a \in Seq(U) /\ Len(a) = y /\ \A i \in 1..y : a[i] = e[mm + i]
  <2>1. m \in 0..Len(e)
    OBVIOUS
  <2> QED BY <2>1, PartFacts
<1>3. b \in Seq(U) /\ Len(b) = y + 1 /\ \A i \in 1..(y + 1) : b[i] = e[mm + i]
  <2>1. m + 1 \in 0..Len(e) /\ mm \in 0..(m + 1)
    OBVIOUS
  <2> QED BY <1>1, <2>1, PartFacts
<1> HIDE DEF a, b, y, x
<1>5. c \in Seq(U) /\ Len(c) = y + 1 /\ c[y + 1] = x /\ \A i \in 1..y : c[i] = a[i]
  <2>1. Len(a) + 1 = y + 1
    BY <1>2
  <2> QED BY <1>1, <1>2, <2>1
<1> HIDE DEF c
<1>6. \A i \in 1..(y + 1) : b[i] = c[i]
  <2>1. y + 1 \in 1..(y + 1) /\ \A i \in 1..(y + 1) : i \in 1..y \/ i = y + 1
    BY <1>1
  <2>2. b[y + 1] = x
    BY <1>1, <1>3, <2>1 DEF x
  <2> QED BY <1>2, <1>3, <1>5, <2>1, <2>2
<1> QED BY <1>3, <1>5, <1>6, SeqEqual DEF a, b, c, x

LEMMA PartOfPart ==
  ASSUME NEW U, NEW e \in Seq(U), NEW m \in 0..Len(e), NEW mm \in 0..m, NEW k \in 0..(m - mm)
  PROVE  SubSeq(SubSeq(e, mm + 1, m), k + 1, Len(SubSeq(e, mm + 1, m))) = SubSeq(e, mm + k + 1, m)
<1> DEFINE a == SubSeq(e, mm + 1, m)
           b == SubSeq(a, k + 1, Len(a))
           c == SubSeq(e, mm + k + 1, m)
           z == m - mm
<1>1. m \in Nat /\ mm \in Nat /\ mm <= m /\ k \in Nat /\ k <= z /\ z \in Nat /\ z = m - mm
  OBVIOUS
<1>2. a \in Seq(U) /\ Len(a) = z /\ \A i \in 1..z : a[i] = e[mm + i]
  BY PartFacts
<1>3. c \in Seq(U) /\ Len(c) = z - k /\ \A i \in 1..(z - k) : c[i] = e[mm + k + i]
  <2>1. mm + k \in 0..m /\ m - (mm + k) = z - k
    BY <1>1
  <2> QED BY <2>1, PartFacts
<1> HIDE DEF a, c, z
<1>4. b \in Seq(U) /\ Len(b) = z - k /\ \A i \in 1..(z - k) : b[i] = a[k + i]
  <2>1. z \in 0..Len(a) /\ k \in 0..z
    BY <1>1, <1>2
  <2>2. b = SubSeq(a, k + 1, z)
    BY <1>2
  <2> HIDE DEF b
  <2> QED BY <1>2, <2>1, <2>2, PartFacts
<1> HIDE DEF b
<1>5. \A i \in 1..(z - k) : b[i] = c[i]
  <2>1. \A i \in 1..(z - k) : k + i \in 1..z /\ mm + (k + i) = mm + k + i
    BY <1>1
  <2> QED BY <1>2, <1>3, <1>4, <2>1
<1> QED BY <1>3, <1>4, <1>5, SeqEqual DEF a, b, c

\* What the lemmas about a stream need
Streams(U, V, s, t, at, w) ==
  /\ HaveKeys(U) /\ HaveKeys(V) /\ level \in CLOSING_LEVELS /\ mode \in {"small", "big"}
  /\ s \in Seq(U) /\ t \in Seq(V) /\ at \in Seq(Seq(U)) /\ w \in Writers(U)
  /\ mode = "big" /\ level # CHUNK_ID => Len(w.buffer) < ChunkSize

\* What both streams sort is a list in order.
LEMMA SidesSorted ==
  ASSUME NEW U, NEW V, HaveKeys(U), HaveKeys(V), NEW l \in CLOSING_LEVELS, NEW s \in Seq(U), NEW t \in Seq(V)
  PROVE  /\ sorted(l, s) \in Seq(U) /\ Len(sorted(l, s)) = Len(s) /\ Ordered(l, sorted(l, s))
         /\ sorted(l, t) \in Seq(V) /\ Len(sorted(l, t)) = Len(t) /\ Ordered(l, sorted(l, t))
         /\ Alone(l, sorted(l, s), sorted(l, t)) \in SUBSET DOMAIN sorted(l, s)
         /\ DOMAIN sorted(l, s) = 1..Len(s) /\ DOMAIN sorted(l, t) = 1..Len(t) /\ Len(s) \in Nat /\ Len(t) \in Nat
<1>1. sorted(l, s) \in Seq(U) /\ Len(sorted(l, s)) = Len(s) /\ Ordered(l, sorted(l, s))
  BY SortedFacts
<1>2. sorted(l, t) \in Seq(V) /\ Len(sorted(l, t)) = Len(t) /\ Ordered(l, sorted(l, t))
  BY SortedFacts
<1>3. Alone(l, sorted(l, s), sorted(l, t)) \in SUBSET DOMAIN sorted(l, s)
  BY DEF Alone
<1> QED BY <1>1, <1>2, <1>3

\* The next item of a stream, if there is one, and where the stream ends.
LEMMA NextOfSide ==
  ASSUME NEW U, NEW V, NEW s, NEW t, NEW at, NEW w, Streams(U, V, s, t, at, w),
         NEW group, NEW m \in 0..Len(s), NEW mm, Side(mode, level, s, t, at, group, w, mm, m)
  PROVE  /\ m = Len(s) <=> Alive(at) = {}
         /\ m < Len(s) <=> Alive(at) # {}
         /\ m < Len(s) => HeadOf(at) = sorted(level, s)[m + 1] /\ HeadOf(at) \in U
                          /\ Unread(mode, level, s, Pop(at), m + 1)
<1>1. /\ m = Len(s) => Alive(at) = {}
      /\ m < Len(s) => /\ Alive(at) # {}
                       /\ HeadOf(at) = sorted(level, s)[m + 1]
                       /\ Unread(mode, level, s, Pop(at), m + 1)
  BY NextIsHead DEF Streams, Side
<1>2. Len(s) \in Nat /\ m \in Nat /\ m <= Len(s)
  BY DEF Streams
<1>3. m < Len(s) => sorted(level, s)[m + 1] \in U
  BY <1>2, SidesSorted DEF Streams
<1>4. m = Len(s) \/ m < Len(s)
  BY <1>2
<1>5. ~(m = Len(s) /\ m < Len(s))
  BY <1>2
<1> QED BY <1>1, <1>3, <1>4, <1>5

\* An item is left over from the stream.
LEMMA LeaveOne ==
  ASSUME NEW U, NEW V, NEW s, NEW t, NEW at, NEW w, Streams(U, V, s, t, at, w), NEW side,
         NEW m \in 0..Len(s), m < Len(s), Side(mode, level, s, t, at, <<>>, w, m, m),
         m + 1 \in Alone(level, sorted(level, s), sorted(level, t))
  PROVE  Side(mode, level, s, t, Pop(at), <<>>, left_over(w, side, HeadOf(at)), m + 1, m + 1)
<1> DEFINE e == sorted(level, s)
           D == Alone(level, e, sorted(level, t))
           x == HeadOf(at)
<1>1. e \in Seq(U) /\ Len(e) = Len(s) /\ D \in SUBSET DOMAIN e /\ m \in Nat
  BY SidesSorted DEF Streams
<1>2. x = e[m + 1] /\ x \in U /\ Unread(mode, level, s, Pop(at), m + 1)
  BY NextOfSide
<1> HIDE DEF x
<1>3. LeftOver(mode, level, w, ItemsAt(e, SoFar(D, m)))
  BY DEF Side
<1> HIDE DEF D
<1>4. ItemsAt(e, SoFar(D, m)) \in Seq(U) /\ ItemsAt(e, SoFar(D, m + 1)) = Append(ItemsAt(e, SoFar(D, m)), e[m + 1])
  <2>1. m + 1 \in D
    BY DEF D
  <2> HIDE DEF e
  <2> QED BY <1>1, <2>1, SoFarMore
<1> HIDE DEF e
<1>5. LeftOver(mode, level, left_over(w, side, x), Append(ItemsAt(e, SoFar(D, m)), x))
  BY <1>2, <1>3, <1>4, LeftOverMore DEF Streams
<1>6. SubSeq(e, (m + 1) + 1, m + 1) = <<>>
  <2>1. m + 1 \in 0..Len(e) /\ m + 1 \in 0..(m + 1) /\ (m + 1) - (m + 1) = 0
    BY <1>1
  <2>2. SubSeq(e, (m + 1) + 1, m + 1) \in Seq(U) /\ Len(SubSeq(e, (m + 1) + 1, m + 1)) = 0
    BY <1>1, <2>1, PartFacts
  <2> QED BY <2>2
<1> QED BY <1>2, <1>4, <1>5, <1>6 DEF Side, e, D, x

\* An item of the stream is taken into its group.
LEMMA KeepOne ==
  ASSUME NEW U, NEW V, NEW s, NEW t, NEW at, NEW w, Streams(U, V, s, t, at, w), NEW group,
         NEW m \in 0..Len(s), m < Len(s), NEW mm \in 0..m, Side(mode, level, s, t, at, group, w, mm, m)
  PROVE  Side(mode, level, s, t, Pop(at), Append(group, HeadOf(at)), w, mm, m + 1)
<1> DEFINE e == sorted(level, s)
<1>1. e \in Seq(U) /\ Len(e) = Len(s) /\ m \in Nat
  BY SidesSorted DEF Streams
<1>2. HeadOf(at) = e[m + 1] /\ Unread(mode, level, s, Pop(at), m + 1)
  BY NextOfSide
<1>3. group = SubSeq(e, mm + 1, m)
  BY DEF Side
<1> HIDE DEF e
<1>4. SubSeq(e, mm + 1, m + 1) = Append(SubSeq(e, mm + 1, m), e[m + 1])
  BY <1>1, PartGrows
<1> QED BY <1>2, <1>3, <1>4 DEF Side, e

\* The first item of the group is left over.
LEMMA DropOne ==
  ASSUME NEW U, NEW V, NEW s, NEW t, NEW at, NEW w, Streams(U, V, s, t, at, w), NEW group, NEW side,
         NEW m \in 0..Len(s), NEW mm \in 0..m, mm < m, Side(mode, level, s, t, at, group, w, mm, m),
         mm + 1 \in Alone(level, sorted(level, s), sorted(level, t))
  PROVE  Side(mode, level, s, t, at, Tail(group), left_over(w, side, Head(group)), mm + 1, m)
<1> DEFINE e == sorted(level, s)
           D == Alone(level, e, sorted(level, t))
           x == e[mm + 1]
<1>1. e \in Seq(U) /\ Len(e) = Len(s) /\ D \in SUBSET DOMAIN e /\ m \in Nat /\ mm \in Nat /\ x \in U
  BY SidesSorted DEF Streams
<1>2. group = SubSeq(e, mm + 1, m) /\ LeftOver(mode, level, w, ItemsAt(e, SoFar(D, mm)))
  BY DEF Side
<1>3. mm + 1 \in D
  OBVIOUS
<1> HIDE DEF D, e
<1>4. group \in Seq(U) /\ Len(group) = m - mm /\ group[1] = x
  <2>1. 1 \in 1..(m - mm) /\ m \in 0..Len(e)
    BY <1>1
  <2> QED BY <1>1, <1>2, <2>1, PartFacts
<1>5. Head(group) = x /\ Tail(group) = SubSeq(group, 1 + 1, Len(group))
  <2>1. group # <<>>
    BY <1>1, <1>4
  <2> QED BY <1>4, <2>1
<1>6. Tail(group) = SubSeq(e, (mm + 1) + 1, m)
  <2>1. m \in 0..Len(e) /\ 1 \in 0..(m - mm)
    BY <1>1
  <2>2. SubSeq(group, 1 + 1, Len(group)) = SubSeq(e, mm + 1 + 1, m)
    BY <1>1, <1>2, <2>1, PartOfPart
  <2> QED BY <1>5, <2>2
<1>7. ItemsAt(e, SoFar(D, mm)) \in Seq(U) /\ ItemsAt(e, SoFar(D, mm + 1)) = Append(ItemsAt(e, SoFar(D, mm)), x)
  BY <1>1, <1>3, SoFarMore
<1> HIDE DEF x
<1>8. LeftOver(mode, level, left_over(w, side, x), Append(ItemsAt(e, SoFar(D, mm)), x))
  BY <1>1, <1>2, <1>7, LeftOverMore DEF Streams
<1> QED BY <1>5, <1>6, <1>7, <1>8 DEF Side, e, D

\* The first k items of the group have partners.
LEMMA PairSome ==
  ASSUME NEW U, NEW V, NEW s, NEW t, NEW at, NEW w, Streams(U, V, s, t, at, w), NEW group,
         NEW m \in 0..Len(s), NEW mm \in 0..m, Side(mode, level, s, t, at, group, w, mm, m),
         NEW k \in 0..(m - mm),
         \A i \in Between(mm, mm + k) : i \notin Alone(level, sorted(level, s), sorted(level, t))
  PROVE  Side(mode, level, s, t, at, SubSeq(group, k + 1, Len(group)), w, mm + k, m)
<1> DEFINE e == sorted(level, s)
           D == Alone(level, e, sorted(level, t))
<1>1. e \in Seq(U) /\ Len(e) = Len(s) /\ D \in SUBSET DOMAIN e /\ m \in Nat /\ mm \in Nat /\ k \in Nat
  BY SidesSorted DEF Streams
<1>2. group = SubSeq(e, mm + 1, m) /\ LeftOver(mode, level, w, ItemsAt(e, SoFar(D, mm)))
  BY DEF Side
<1>3. SoFar(D, mm + k) = SoFar(D, mm)
  <2>1. \A i \in D : i \notin Between(mm, mm + k)
    OBVIOUS
  <2>2. DOMAIN e = 1..Len(e)
    BY <1>1
  <2> HIDE DEF D, e
  <2> QED BY <1>1, <2>1, <2>2 DEF SoFar, Between
<1> HIDE DEF D, e
<1>4. SubSeq(group, k + 1, Len(group)) = SubSeq(e, mm + k + 1, m)
  BY <1>1, <1>2, PartOfPart
<1> QED BY <1>2, <1>3, <1>4 DEF Side, e, D

\* Where a stream stands when a round starts.
LEMMA StartSide ==
  ASSUME NEW U, NEW V, HaveKeys(U), HaveKeys(V), mode \in {"small", "big"}, level \in CLOSING_LEVELS,
         NEW w \in Writers(U), NEW s \in Seq(U), NEW t \in Seq(V), NEW side,
         Chunked(mode, w, s, level), mode = "big" => Len(w.buffer) < ChunkSize
  PROVE  Side(mode, level, s, t, Lines(Finished(w, side)), <<>>, Writer, 0, 0)
<1> DEFINE e == sorted(level, s)
           D == Alone(level, e, sorted(level, t))
<1>1. Unread(mode, level, s, Lines(Finished(w, side)), 0)
  BY FinishedIsUnread
<1>2. e \in Seq(U) /\ D \in SUBSET DOMAIN e /\ 0 \in 0..Len(e) /\ 0 \in 0..0
  BY SidesSorted
<1> HIDE DEF D, e
<1>3. SubSeq(e, 0 + 1, 0) = <<>>
  <2>1. SubSeq(e, 0 + 1, 0) \in Seq(U) /\ Len(SubSeq(e, 0 + 1, 0)) = 0 - 0
    BY <1>2, PartFacts
  <2> QED BY <2>1
<1>4. ItemsAt(e, SoFar(D, 0)) = <<>>
  BY <1>2, SoFarEnds, NoItems
<1>5. LeftOver(mode, level, Writer, <<>>)
  BY NewIsChunked DEF LeftOver, Writer
<1> QED BY <1>1, <1>3, <1>4, <1>5 DEF Side, e, D

\* What a stream that is read has left over.
LEMMA EndSide ==
  ASSUME NEW U, NEW V, NEW s, NEW t, NEW at, NEW w, Streams(U, V, s, t, at, w),
         Side(mode, level, s, t, at, <<>>, w, Len(s), Len(s))
  PROVE  LeftOver(mode, level, w, ItemsAt(sorted(level, s), Alone(level, sorted(level, s), sorted(level, t))))
<1> DEFINE e == sorted(level, s)
           D == Alone(level, e, sorted(level, t))
<1>1. e \in Seq(U) /\ Len(e) = Len(s) /\ D \in SUBSET DOMAIN e
  BY SidesSorted DEF Streams
<1>2. LeftOver(mode, level, w, ItemsAt(e, SoFar(D, Len(e))))
  BY <1>1 DEF Side
<1> HIDE DEF D, e
<1>3. SoFar(D, Len(e)) = D
  BY <1>1, SoFarEnds
<1> QED BY <1>2, <1>3 DEF e, D

\* How much is in the group.
LEMMA SideGroup ==
  ASSUME NEW U, NEW V, NEW s, NEW t, NEW at, NEW w, Streams(U, V, s, t, at, w), NEW group,
         NEW m \in 0..Len(s), NEW mm \in 0..m, Side(mode, level, s, t, at, group, w, mm, m)
  PROVE  /\ group \in Seq(U) /\ Len(group) = m - mm /\ m \in Nat /\ mm \in Nat
         /\ group = <<>> <=> mm = m
         /\ \A i \in 1..(m - mm) : group[i] = sorted(level, s)[mm + i] /\ mm + i \in DOMAIN sorted(level, s)
<1>1. sorted(level, s) \in Seq(U) /\ Len(sorted(level, s)) = Len(s)
  BY SidesSorted DEF Streams
<1>2. /\ group \in Seq(U) /\ Len(group) = m - mm
      /\ \A i \in 1..(m - mm) : group[i] = sorted(level, s)[mm + i] /\ mm + i \in DOMAIN sorted(level, s)
  BY <1>1, PartFacts DEF Side
<1>3. m \in Nat /\ mm \in Nat /\ mm <= m
  BY DEF Streams
<1>4. group = <<>> <=> Len(group) = 0
  BY <1>2
<1>5. m - mm = 0 <=> mm = m
  BY <1>3
<1> QED BY <1>2, <1>3, <1>4, <1>5

\* A stream without a group has dealt with all it read.
LEMMA NoGroup ==
  ASSUME NEW U, NEW V, NEW s, NEW t, NEW at, NEW w, Streams(U, V, s, t, at, w),
         NEW m \in 0..Len(s), NEW mm \in 0..m, Side(mode, level, s, t, at, <<>>, w, mm, m)
  PROVE  mm = m
BY SideGroup

-----------------------------------------------------------------------------
(* Both paths make the reference's matching                                *)

\* What is written of s so far, all of it once the writer has counted s
SpilledList(md, w, s) ==
  \E n \in 0..Len(s) :
    /\ Chunked(md, w, SubSeq(s, 1, n), POINT_ID)
    /\ n = Count(w) \/ (n = Len(s) /\ Count(w) >= n)

\* m expected and n observed items of the round are read, mm and nn of them
\* are matched or left over
Standing(m, mm, n, nn) ==
  LET st == Before(in, level)
      e == sorted(level, st.e)
      o == sorted(level, st.o)
  IN
  /\ m \in 0..Len(st.e) /\ mm \in 0..m /\ n \in 0..Len(st.o) /\ nn \in 0..n
  /\ Side(mode, level, st.e, st.o, eAt, eGroup, eOut, mm, m)
  /\ Side(mode, level, st.o, st.e, oAt, oGroup, oOut, nn, n)
  /\ Members(matched) = st.matched \cup PairsUpTo(level, e, o, mm)
  /\ pc # "surplus" => Split(level, e, o, mm, nn)
  /\ pc = "surplus" =>
       /\ Split(level, e, o, m, n)
       /\ \A i \in Between(mm, m) : i \in Alone(level, e, o)
       /\ \A j \in Between(nn, n) : j \in Alone(level, o, e)

\* Every round does what the reference does with the lists it was given.
MergeInv ==
  /\ pc = "spill" => SpilledList(mode, eOut, expected) /\ SpilledList(mode, oOut, in.observed)
  /\ pc = "round" =>
       /\ Chunked(mode, eOut, Before(in, level).e, level)
       /\ Chunked(mode, oOut, Before(in, level).o, level)
       /\ Members(matched) = Before(in, level).matched
       /\ mode = "big" => Len(eOut.buffer) < ChunkSize /\ Len(oOut.buffer) < ChunkSize
  /\ Joining => \E m, mm, n, nn \in Nat : Standing(m, mm, n, nn)
  /\ Judged =>
       /\ eOut.buffer = Round(Before(in, CHUNK_ID), CHUNK_ID).e
       /\ oOut.buffer = Round(Before(in, CHUNK_ID), CHUNK_ID).o
       /\ Members(matched) = Round(Before(in, CHUNK_ID), CHUNK_ID).matched

\* What every step of a join starts from.
LEMMA JoinFacts ==
  ASSUME ReconcileInv, Joining
  PROVE  LET st == Before(in, level)
         IN /\ st.e \in Seq(E) /\ st.o \in Seq(O) /\ Len(st.e) \in Nat /\ Len(st.o) \in Nat
            /\ HaveKeys(E) /\ HaveKeys(O) /\ level \in CLOSING_LEVELS
            /\ Streams(E, O, st.e, st.o, eAt, eOut)
            /\ Streams(O, E, st.o, st.e, oAt, oOut)
<1> DEFINE st == Before(in, level)
<1>1. HaveKeys(E) /\ HaveKeys(O) /\ level \in CLOSING_LEVELS /\ in \in Inputs
  BY InputFacts DEF ReconcileInv, TypeInv
<1>2. st.e \in Seq(E) /\ st.o \in Seq(O)
  BY <1>1, BeforeFacts
<1> HIDE DEF st
<1>3. mode \in {"small", "big"} /\ eAt \in Seq(Seq(E)) /\ oAt \in Seq(Seq(O)) /\ eOut \in Writers(E) /\ oOut \in Writers(O)
  BY DEF ReconcileInv, TypeInv
<1>4. mode = "big" /\ level # CHUNK_ID => Len(eOut.buffer) < ChunkSize /\ Len(oOut.buffer) < ChunkSize
  BY DEF ReconcileInv, DiskInv, RunFilesHold
<1>5. Len(st.e) \in Nat /\ Len(st.o) \in Nat
  BY <1>2
<1> QED BY <1>1, <1>2, <1>3, <1>4, <1>5 DEF Streams, st

\* Between groups, everything that is read is dealt with.
LEMMA NothingHeld ==
  ASSUME ReconcileInv, pc = "join", NEW m, NEW mm, NEW n, NEW nn, Standing(m, mm, n, nn)
  PROVE  mm = m /\ nn = n /\ eGroup = <<>> /\ oGroup = <<>>
<1>1. Joining
  BY DEF Joining
<1>2. eGroup = <<>> /\ oGroup = <<>>
  BY DEF ReconcileInv, PlaceInv
<1> DEFINE st == Before(in, level)
           s == st.e
           t == st.o
<1>3. /\ m \in 0..Len(s) /\ mm \in 0..m /\ n \in 0..Len(t) /\ nn \in 0..n
      /\ Side(mode, level, s, t, eAt, eGroup, eOut, mm, m)
      /\ Side(mode, level, t, s, oAt, oGroup, oOut, nn, n)
  BY DEF Standing
<1>4. Streams(E, O, s, t, eAt, eOut) /\ Streams(O, E, t, s, oAt, oOut)
  BY <1>1, JoinFacts
<1> HIDE DEF st, s, t
<1>5. mm = m
  <2>1. /\ m \in 0..Len(s) /\ mm \in 0..m
        /\ Side(mode, level, s, t, eAt, <<>>, eOut, mm, m)
        /\ Streams(E, O, s, t, eAt, eOut)
    BY <1>2, <1>3, <1>4
  <2> QED BY <2>1, NoGroup
<1>6. nn = n
  <2>1. /\ n \in 0..Len(t) /\ nn \in 0..n
        /\ Side(mode, level, t, s, oAt, <<>>, oOut, nn, n)
        /\ Streams(O, E, t, s, oAt, oOut)
    BY <1>2, <1>3, <1>4
  <2> QED BY <2>1, NoGroup
<1> QED BY <1>2, <1>5, <1>6

\* leftover_expected, leftover_observed: the head is alone.
LEMMA MergeLeftoverExpected == ASSUME ReconcileInv, MergeInv, leftover_expected PROVE MergeInv'
<1>1. pc = "join" /\ Joining /\ Alive(eAt) # {} /\ ReconcileInv
  BY DEF leftover_expected, Joining
<1>2. PICK m, mm, n, nn \in Nat : Standing(m, mm, n, nn)
  BY <1>1 DEF MergeInv
<1>3. mm = m /\ nn = n /\ eGroup = <<>> /\ oGroup = <<>>
  BY <1>1, <1>2, NothingHeld
<1> DEFINE st == Before(in, level)
           s == st.e
           t == st.o
           e == sorted(level, s)
           o == sorted(level, t)
<1>4. /\ s \in Seq(E) /\ t \in Seq(O) /\ Len(s) \in Nat /\ Len(t) \in Nat /\ HaveKeys(E) /\ HaveKeys(O)
      /\ level \in CLOSING_LEVELS
      /\ Streams(E, O, s, t, eAt, eOut) /\ Streams(O, E, t, s, oAt, oOut)
  BY <1>1, JoinFacts
<1>5. /\ m \in 0..Len(s) /\ n \in 0..Len(t)
      /\ Side(mode, level, s, t, eAt, <<>>, eOut, m, m)
      /\ Side(mode, level, t, s, oAt, <<>>, oOut, n, n)
      /\ Members(matched) = st.matched \cup PairsUpTo(level, e, o, m)
      /\ Split(level, e, o, m, n)
  BY <1>1, <1>2, <1>3 DEF Standing
<1>6. /\ UNCHANGED <<in, mode, level, pc, oAt, oOut, eGroup, oGroup, matched>>
      /\ eAt' = Pop(eAt) /\ eOut' = left_over(eOut, "e", HeadOf(eAt))
      /\ \/ Alive(oAt) = {}
         \/ eKey = None
         \/ Alive(oAt) # {} /\ oKey # None /\ eKey < oKey
  BY DEF leftover_expected, inputVars, groupVars
<1> HIDE DEF s, t, st
<1>7. e \in Seq(E) /\ o \in Seq(O) /\ Len(e) = Len(s) /\ Len(o) = Len(t) /\ Ordered(level, e) /\ Ordered(level, o)
  BY <1>4, SidesSorted
<1>8. m < Len(s) /\ HeadOf(eAt) = e[m + 1]
  BY <1>1, <1>4, <1>5, NextOfSide
<1>9. (Alive(oAt) = {} <=> n = Len(t)) /\ (Alive(oAt) # {} => n < Len(t) /\ HeadOf(oAt) = o[n + 1])
  BY <1>4, <1>5, NextOfSide
<1> HIDE DEF e, o
<1>10. Ahead(level, e, o, m, n)
  <2>1. CASE Alive(oAt) = {}
    BY <1>7, <1>9, <2>1 DEF Ahead
  <2>2. CASE eKey = None
    BY <1>8, <2>2 DEF Ahead, eKey
  <2>3. CASE Alive(oAt) # {} /\ oKey # None /\ eKey < oKey
    BY <1>7, <1>8, <1>9, <2>3 DEF Ahead, eKey, oKey
  <2> QED BY <1>6, <2>1, <2>2, <2>3
<1>11. m + 1 \in Alone(level, e, o) /\ Split(level, e, o, m + 1, n)
  BY <1>4, <1>5, <1>7, <1>8, <1>10, NextIsAlone
<1>12. Side(mode, level, s, t, Pop(eAt), <<>>, left_over(eOut, "e", HeadOf(eAt)), m + 1, m + 1)
  BY <1>4, <1>5, <1>8, <1>11, LeaveOne DEF e, o
<1>13. PairsUpTo(level, e, o, m + 1) = PairsUpTo(level, e, o, m)
  BY <1>2, <1>7, <1>11, AlonePairsNone
<1>14. Standing(m + 1, m + 1, n, n)'
  <2>1. m + 1 \in 0..Len(s) /\ m + 1 \in 0..(m + 1) /\ n \in 0..n
    BY <1>2, <1>4, <1>8
  <2>2. st = Before(in', level') /\ s = st.e /\ t = st.o /\ e = sorted(level', s) /\ o = sorted(level', t)
    BY <1>6 DEF st, s, t, e, o
  <2>3. /\ Side(mode', level', s, t, eAt', eGroup', eOut', m + 1, m + 1)
        /\ Side(mode', level', t, s, oAt', oGroup', oOut', n, n)
        /\ Members(matched') = st.matched \cup PairsUpTo(level', e, o, m + 1)
        /\ Split(level', e, o, m + 1, n)
        /\ pc' = "join"
    BY <1>1, <1>3, <1>5, <1>6, <1>11, <1>12, <1>13
  <2> QED BY <1>5, <2>1, <2>2, <2>3 DEF Standing
<1>15. pc' = "join" /\ m + 1 \in Nat /\ n \in Nat
  BY <1>1, <1>2, <1>6
<1> QED BY <1>14, <1>15 DEF MergeInv, Judged

LEMMA MergeLeftoverObserved == ASSUME ReconcileInv, MergeInv, leftover_observed PROVE MergeInv'
<1>1. pc = "join" /\ Joining /\ Alive(oAt) # {} /\ ReconcileInv
  BY DEF leftover_observed, Joining
<1>2. PICK m, mm, n, nn \in Nat : Standing(m, mm, n, nn)
  BY <1>1 DEF MergeInv
<1>3. mm = m /\ nn = n /\ eGroup = <<>> /\ oGroup = <<>>
  BY <1>1, <1>2, NothingHeld
<1> DEFINE st == Before(in, level)
           s == st.e
           t == st.o
           e == sorted(level, s)
           o == sorted(level, t)
<1>4. /\ s \in Seq(E) /\ t \in Seq(O) /\ Len(s) \in Nat /\ Len(t) \in Nat /\ HaveKeys(E) /\ HaveKeys(O)
      /\ level \in CLOSING_LEVELS
      /\ Streams(E, O, s, t, eAt, eOut) /\ Streams(O, E, t, s, oAt, oOut)
  BY <1>1, JoinFacts
<1>5. /\ m \in 0..Len(s) /\ n \in 0..Len(t)
      /\ Side(mode, level, s, t, eAt, <<>>, eOut, m, m)
      /\ Side(mode, level, t, s, oAt, <<>>, oOut, n, n)
      /\ Members(matched) = st.matched \cup PairsUpTo(level, e, o, m)
      /\ Split(level, e, o, m, n)
  BY <1>1, <1>2, <1>3 DEF Standing
<1>6. /\ UNCHANGED <<in, mode, level, pc, eAt, eOut, eGroup, oGroup, matched>>
      /\ oAt' = Pop(oAt) /\ oOut' = left_over(oOut, "o", HeadOf(oAt))
      /\ \/ Alive(eAt) = {}
         \/ Alive(eAt) # {} /\ eKey # None /\ (oKey = None \/ eKey > oKey)
  BY DEF leftover_observed, inputVars, groupVars
<1> HIDE DEF s, t, st
<1>7. e \in Seq(E) /\ o \in Seq(O) /\ Len(e) = Len(s) /\ Len(o) = Len(t) /\ Ordered(level, e) /\ Ordered(level, o)
  BY <1>4, SidesSorted
<1>8. n < Len(t) /\ HeadOf(oAt) = o[n + 1] /\ HeadOf(oAt) \in O
  BY <1>1, <1>4, <1>5, NextOfSide
<1>9. /\ Alive(eAt) = {} <=> m = Len(s)
      /\ Alive(eAt) # {} => m < Len(s) /\ HeadOf(eAt) = e[m + 1] /\ HeadOf(eAt) \in E
  BY <1>4, <1>5, NextOfSide
<1> HIDE DEF e, o
<1>10. Ahead(level, o, e, n, m)
  <2>1. CASE Alive(eAt) = {}
    BY <1>7, <1>9, <2>1 DEF Ahead
  <2>2. CASE oKey = None
    BY <1>8, <2>2 DEF Ahead, oKey
  <2>3. CASE Alive(eAt) # {} /\ eKey # None /\ eKey > oKey
    <3>1. eKey \in Nat /\ oKey \in Nat
      BY <1>4, <1>8, <1>9, <2>3 DEF HaveKeys, eKey, oKey
    <3>2. oKey < eKey
      BY <2>3, <3>1
    <3> QED BY <1>7, <1>8, <1>9, <2>3, <3>2 DEF Ahead, eKey, oKey
  <2> QED BY <1>6, <2>1, <2>2, <2>3
<1>11. n + 1 \in Alone(level, o, e) /\ Split(level, e, o, m, n + 1)
  <2>1. Split(level, o, e, n, m)
    BY <1>5, OtherWay
  <2>2. n + 1 \in Alone(level, o, e) /\ Split(level, o, e, n + 1, m)
    BY <1>4, <1>5, <1>7, <1>8, <1>10, <2>1, NextIsAlone
  <2> QED BY <2>2, OtherWay
<1>12. Side(mode, level, t, s, Pop(oAt), <<>>, left_over(oOut, "o", HeadOf(oAt)), n + 1, n + 1)
  BY <1>4, <1>5, <1>8, <1>11, LeaveOne DEF e, o
<1>14. Standing(m, m, n + 1, n + 1)'
  <2>1. n + 1 \in 0..Len(t) /\ n + 1 \in 0..(n + 1) /\ m \in 0..m
    BY <1>2, <1>4, <1>8
  <2>2. st = Before(in', level') /\ s = st.e /\ t = st.o /\ e = sorted(level', s) /\ o = sorted(level', t)
    BY <1>6 DEF st, s, t, e, o
  <2>3. /\ Side(mode', level', s, t, eAt', eGroup', eOut', m, m)
        /\ Side(mode', level', t, s, oAt', oGroup', oOut', n + 1, n + 1)
        /\ Members(matched') = st.matched \cup PairsUpTo(level', e, o, m)
        /\ Split(level', e, o, m, n + 1)
        /\ pc' = "join"
    BY <1>1, <1>3, <1>5, <1>6, <1>11, <1>12
  <2> QED BY <1>5, <2>1, <2>2, <2>3 DEF Standing
<1>15. pc' = "join" /\ n + 1 \in Nat /\ m \in Nat
  BY <1>1, <1>2, <1>6
<1> QED BY <1>14, <1>15 DEF MergeInv, Judged

\* A group takes the next items of one stream or of both.
LEMMA MergeOpenGroup == ASSUME ReconcileInv, MergeInv, open_group PROVE MergeInv'
<1>1. pc = "join" /\ Joining /\ Alive(eAt) # {} /\ Alive(oAt) # {} /\ ReconcileInv
  BY DEF open_group, Joining
<1>2. PICK m, mm, n, nn \in Nat : Standing(m, mm, n, nn)
  BY <1>1 DEF MergeInv
<1>3. mm = m /\ nn = n /\ eGroup = <<>> /\ oGroup = <<>>
  BY <1>1, <1>2, NothingHeld
<1> DEFINE st == Before(in, level)
           s == st.e
           t == st.o
           e == sorted(level, s)
           o == sorted(level, t)
<1>4. /\ s \in Seq(E) /\ t \in Seq(O) /\ Len(s) \in Nat /\ Len(t) \in Nat
      /\ Streams(E, O, s, t, eAt, eOut) /\ Streams(O, E, t, s, oAt, oOut)
  BY <1>1, JoinFacts
<1>5. /\ m \in 0..Len(s) /\ n \in 0..Len(t) /\ m \in 0..m /\ n \in 0..n
      /\ Side(mode, level, s, t, eAt, eGroup, eOut, m, m)
      /\ Side(mode, level, t, s, oAt, oGroup, oOut, n, n)
      /\ Members(matched) = st.matched \cup PairsUpTo(level, e, o, m)
      /\ Split(level, e, o, m, n)
  BY <1>1, <1>2, <1>3 DEF Standing
<1>6. /\ UNCHANGED <<in, mode, level, eOut, oOut, matched>> /\ pc' = "group"
      /\ eAt' = Pop(eAt) /\ oAt' = Pop(oAt)
      /\ eGroup' = Append(eGroup, HeadOf(eAt)) /\ oGroup' = Append(oGroup, HeadOf(oAt))
  BY <1>3 DEF open_group, inputVars
<1> HIDE DEF s, t, st
<1>7. m < Len(s) /\ n < Len(t)
  BY <1>1, <1>4, <1>5, NextOfSide
<1>8. Side(mode, level, s, t, Pop(eAt), Append(eGroup, HeadOf(eAt)), eOut, m, m + 1)
  BY <1>4, <1>5, <1>7, KeepOne
<1>9. Side(mode, level, t, s, Pop(oAt), Append(oGroup, HeadOf(oAt)), oOut, n, n + 1)
  BY <1>4, <1>5, <1>7, KeepOne
<1> HIDE DEF e, o
<1>10. Standing(m + 1, m, n + 1, n)'
  <2>1. m + 1 \in 0..Len(s) /\ m \in 0..(m + 1) /\ n + 1 \in 0..Len(t) /\ n \in 0..(n + 1)
    BY <1>2, <1>4, <1>7
  <2>2. st = Before(in', level') /\ s = st.e /\ t = st.o /\ e = sorted(level', s) /\ o = sorted(level', t)
    BY <1>6 DEF st, s, t, e, o
  <2>3. /\ Side(mode', level', s, t, eAt', eGroup', eOut', m, m + 1)
        /\ Side(mode', level', t, s, oAt', oGroup', oOut', n, n + 1)
        /\ Members(matched') = st.matched \cup PairsUpTo(level', e, o, m)
        /\ Split(level', e, o, m, n)
    BY <1>5, <1>6, <1>8, <1>9
  <2> QED BY <1>6, <2>1, <2>2, <2>3 DEF Standing
<1>11. m + 1 \in Nat /\ n + 1 \in Nat
  BY <1>2
<1> QED BY <1>2, <1>6, <1>10, <1>11 DEF MergeInv, Judged

LEMMA MergeGrowGroup == ASSUME ReconcileInv, MergeInv, grow_group PROVE MergeInv'
<1>1. pc = "group" /\ Joining /\ ReconcileInv
  BY DEF grow_group, Joining
<1>2. PICK m, mm, n, nn \in Nat : Standing(m, mm, n, nn)
  BY <1>1 DEF MergeInv
<1> DEFINE st == Before(in, level)
           s == st.e
           t == st.o
           e == sorted(level, s)
           o == sorted(level, t)
<1>4. /\ s \in Seq(E) /\ t \in Seq(O) /\ Len(s) \in Nat /\ Len(t) \in Nat
      /\ Streams(E, O, s, t, eAt, eOut) /\ Streams(O, E, t, s, oAt, oOut)
  BY <1>1, JoinFacts
<1>5. /\ m \in 0..Len(s) /\ n \in 0..Len(t) /\ mm \in 0..m /\ nn \in 0..n
      /\ Side(mode, level, s, t, eAt, eGroup, eOut, mm, m)
      /\ Side(mode, level, t, s, oAt, oGroup, oOut, nn, n)
      /\ Members(matched) = st.matched \cup PairsUpTo(level, e, o, mm)
      /\ Split(level, e, o, mm, nn)
  BY <1>1, <1>2 DEF Standing
<1>6. /\ UNCHANGED <<in, mode, level, eOut, oOut, matched>> /\ pc' = "group"
      /\ \/ /\ Alive(eAt) # {} /\ eAt' = Pop(eAt) /\ eGroup' = Append(eGroup, HeadOf(eAt))
            /\ oAt' = oAt /\ oGroup' = oGroup
         \/ /\ Alive(oAt) # {} /\ oAt' = Pop(oAt) /\ oGroup' = Append(oGroup, HeadOf(oAt))
            /\ eAt' = eAt /\ eGroup' = eGroup
  BY <1>1 DEF grow_group, inputVars, MoreE, MoreO
<1> HIDE DEF s, t, st
<1>7. st = Before(in', level') /\ s = st.e /\ t = st.o /\ e = sorted(level', s) /\ o = sorted(level', t)
  BY <1>6 DEF st, s, t
<1>8. CASE /\ Alive(eAt) # {} /\ eAt' = Pop(eAt) /\ eGroup' = Append(eGroup, HeadOf(eAt))
           /\ oAt' = oAt /\ oGroup' = oGroup
  <2>1. m < Len(s)
    BY <1>4, <1>5, <1>8, NextOfSide
  <2>2. Side(mode, level, s, t, Pop(eAt), Append(eGroup, HeadOf(eAt)), eOut, mm, m + 1)
    BY <1>4, <1>5, <2>1, KeepOne
  <2> HIDE DEF e, o
  <2>3. m + 1 \in 0..Len(s) /\ mm \in 0..(m + 1) /\ m + 1 \in Nat
    BY <1>2, <1>4, <1>5, <2>1
  <2>4. /\ Side(mode', level', s, t, eAt', eGroup', eOut', mm, m + 1)
        /\ Side(mode', level', t, s, oAt', oGroup', oOut', nn, n)
        /\ Members(matched') = st.matched \cup PairsUpTo(level', e, o, mm)
        /\ Split(level', e, o, mm, nn)
    BY <1>5, <1>6, <1>8, <2>2
  <2>5. Standing(m + 1, mm, n, nn)'
    BY <1>5, <1>6, <1>7, <2>3, <2>4 DEF Standing
  <2> QED BY <1>2, <1>6, <2>3, <2>5 DEF MergeInv, Judged
<1>9. CASE /\ Alive(oAt) # {} /\ oAt' = Pop(oAt) /\ oGroup' = Append(oGroup, HeadOf(oAt))
           /\ eAt' = eAt /\ eGroup' = eGroup
  <2>1. n < Len(t)
    BY <1>4, <1>5, <1>9, NextOfSide
  <2>2. Side(mode, level, t, s, Pop(oAt), Append(oGroup, HeadOf(oAt)), oOut, nn, n + 1)
    BY <1>4, <1>5, <2>1, KeepOne
  <2> HIDE DEF e, o
  <2>3. n + 1 \in 0..Len(t) /\ nn \in 0..(n + 1) /\ n + 1 \in Nat
    BY <1>2, <1>4, <1>5, <2>1
  <2>4. /\ Side(mode', level', s, t, eAt', eGroup', eOut', mm, m)
        /\ Side(mode', level', t, s, oAt', oGroup', oOut', nn, n + 1)
        /\ Members(matched') = st.matched \cup PairsUpTo(level', e, o, mm)
        /\ Split(level', e, o, mm, nn)
    BY <1>5, <1>6, <1>9, <2>2
  <2>5. Standing(m, mm, n + 1, nn)'
    BY <1>5, <1>6, <1>7, <2>3, <2>4 DEF Standing
  <2> QED BY <1>2, <1>6, <2>3, <2>5 DEF MergeInv, Judged
<1> QED BY <1>6, <1>8, <1>9

\* What a group that takes nothing more is.
LEMMA ClosedGroup ==
  ASSUME ReconcileInv, close_group, NEW m, NEW mm, NEW n, NEW nn, Standing(m, mm, n, nn)
  PROVE  LET st == Before(in, level)
             e == sorted(level, st.e)
             o == sorted(level, st.o)
         IN /\ mm < m /\ nn < n /\ GroupKey # None
            /\ GroupIs(level, e, mm, m, GroupKey) /\ GroupIs(level, o, nn, n, GroupKey)
<1> DEFINE st == Before(in, level)
           s == st.e
           t == st.o
           e == sorted(level, s)
           o == sorted(level, t)
<1>1. pc = "group" /\ Joining /\ ~MoreE /\ ~MoreO
  BY DEF close_group, Joining
<1>2. /\ eGroup # <<>> /\ oGroup # <<>> /\ GroupKey # None
      /\ \A x \in Members(eGroup) \cup Members(oGroup) : key(level, x) = GroupKey
  BY <1>1 DEF ReconcileInv, GroupInv
<1>3. /\ s \in Seq(E) /\ t \in Seq(O) /\ Len(s) \in Nat /\ Len(t) \in Nat
      /\ HaveKeys(E) /\ HaveKeys(O) /\ level \in CLOSING_LEVELS
      /\ Streams(E, O, s, t, eAt, eOut) /\ Streams(O, E, t, s, oAt, oOut)
  BY <1>1, JoinFacts
<1>4. /\ m \in 0..Len(s) /\ n \in 0..Len(t) /\ mm \in 0..m /\ nn \in 0..n
      /\ Side(mode, level, s, t, eAt, eGroup, eOut, mm, m)
      /\ Side(mode, level, t, s, oAt, oGroup, oOut, nn, n)
  BY DEF Standing
<1> HIDE DEF st, s, t
<1>5. /\ eGroup \in Seq(E) /\ Len(eGroup) = m - mm /\ m \in Nat /\ mm \in Nat
      /\ eGroup = <<>> <=> mm = m
      /\ \A i \in 1..(m - mm) : eGroup[i] = e[mm + i] /\ mm + i \in DOMAIN e
  BY <1>3, <1>4, SideGroup
<1>6. /\ oGroup \in Seq(O) /\ Len(oGroup) = n - nn /\ n \in Nat /\ nn \in Nat
      /\ oGroup = <<>> <=> nn = n
      /\ \A i \in 1..(n - nn) : oGroup[i] = o[nn + i] /\ nn + i \in DOMAIN o
  BY <1>3, <1>4, SideGroup
<1>7. /\ Alive(eAt) = {} <=> m = Len(s)
      /\ m < Len(s) <=> Alive(eAt) # {}
      /\ m < Len(s) => HeadOf(eAt) = e[m + 1]
  BY <1>3, <1>4, NextOfSide
<1>8. /\ Alive(oAt) = {} <=> n = Len(t)
      /\ n < Len(t) <=> Alive(oAt) # {}
      /\ n < Len(t) => HeadOf(oAt) = o[n + 1]
  BY <1>3, <1>4, NextOfSide
<1>9. Len(e) = Len(s) /\ Len(o) = Len(t)
  BY <1>3, SidesSorted
<1> HIDE DEF e, o
<1>10. ASSUME NEW i \in Between(mm, m) PROVE i \in DOMAIN e /\ key(level, e[i]) = GroupKey
  <2> DEFINE r == i - mm
  <2>1. r \in 1..(m - mm) /\ mm + r = i
    BY <1>5 DEF Between
  <2> HIDE DEF r
  <2>2. eGroup[r] = e[i] /\ i \in DOMAIN e /\ r \in DOMAIN eGroup
    BY <1>5, <2>1
  <2> QED BY <1>2, <2>2 DEF Members
<1>11. ASSUME NEW i \in Between(nn, n) PROVE i \in DOMAIN o /\ key(level, o[i]) = GroupKey
  <2> DEFINE r == i - nn
  <2>1. r \in 1..(n - nn) /\ nn + r = i
    BY <1>6 DEF Between
  <2> HIDE DEF r
  <2>2. oGroup[r] = o[i] /\ i \in DOMAIN o /\ r \in DOMAIN oGroup
    BY <1>6, <2>1
  <2> QED BY <1>2, <2>2 DEF Members
<1>12. m < Len(e) => key(level, e[m + 1]) # GroupKey
  BY <1>1, <1>7, <1>9 DEF MoreE, eKey
<1>13. n < Len(o) => key(level, o[n + 1]) # GroupKey
  BY <1>1, <1>8, <1>9 DEF MoreO, oKey
<1>14. mm < m /\ nn < n
  BY <1>2, <1>4, <1>5, <1>6
<1> QED BY <1>2, <1>10, <1>11, <1>12, <1>13, <1>14 DEF GroupIs, st, s, t, e, o

\* a is what e has from mm + 1 to m
IsPart(a, e, mm, m) == \A i \in 1..(m - mm) : a[i] = e[mm + i] /\ mm + i \in DOMAIN e

\* The items of two groups are partners in order
InStep(l, e, o, mm, m, nn, n) ==
  \A i \in Between(mm, m), j \in DOMAIN o : Partners(l, e, o, i, j) <=> j \in Between(nn, n) /\ i - mm = j - nn

\* Pairing two groups in order gives the pairs of their items.
LEMMA GroupPairs ==
  ASSUME NEW l, NEW e, NEW o, NEW a, NEW b,
         NEW mm \in Nat, NEW nn \in Nat, NEW m \in Nat, NEW n \in Nat, NEW q \in Nat,
         q <= m - mm, q <= n - nn,
         IsPart(a, e, mm, m), IsPart(b, o, nn, n), InStep(l, e, o, mm, m, nn, n), \A i \in DOMAIN e : i \in Nat
  PROVE  PairsUpTo(l, e, o, mm + q) = PairsUpTo(l, e, o, mm) \cup Members(Paired(l, a, b, q))
<1>1. \A x : x \in Members(Paired(l, a, b, q)) <=> \E r \in 1..q : x = Pair(l, e, o, mm + r, nn + r)
  <2>1. \A r \in 1..q : r \in 1..(m - mm) /\ r \in 1..(n - nn)
    OBVIOUS
  <2>2. \A r \in 1..q : a[r] = e[mm + r] /\ b[r] = o[nn + r]
    BY <2>1 DEF IsPart
  <2>3. DOMAIN Paired(l, a, b, q) = 1..q
    BY DEF Paired
  <2>4. \A r \in 1..q : Paired(l, a, b, q)[r] = Pair(l, e, o, mm + r, nn + r)
    BY <2>2 DEF Paired, Pair
  <2> DEFINE p == Paired(l, a, b, q)
  <2>5. Members(p) = {p[r] : r \in 1..q}
    BY <2>3 DEF Members
  <2> HIDE DEF p
  <2>6. \A x : x \in Members(p) <=> \E r \in 1..q : x = p[r]
    BY <2>5
  <2> QED BY <2>4, <2>6 DEF p
<1>2. ASSUME NEW r \in 1..q
      PROVE  /\ mm + r \in DOMAIN e /\ nn + r \in DOMAIN o /\ mm + r <= mm + q
             /\ Partners(l, e, o, mm + r, nn + r)
  <2>1. r \in 1..(m - mm) /\ r \in 1..(n - nn) /\ mm + r <= mm + q
    OBVIOUS
  <2>2. mm + r \in DOMAIN e /\ nn + r \in DOMAIN o
    BY <2>1 DEF IsPart
  <2>3. mm + r \in Between(mm, m) /\ nn + r \in Between(nn, n) /\ (mm + r) - mm = (nn + r) - nn
    BY <2>1 DEF Between
  <2> QED BY <2>1, <2>2, <2>3 DEF InStep
<1>3. ASSUME NEW i \in DOMAIN e, NEW j \in DOMAIN o, Partners(l, e, o, i, j), i <= mm + q, ~(i <= mm)
      PROVE  \E r \in 1..q : i = mm + r /\ j = nn + r
  <2>1. i \in Nat /\ i \in Between(mm, m)
    <3>1. i \in Nat
      OBVIOUS
    <3> QED BY <1>3, <3>1 DEF Between
  <2>2. j \in Between(nn, n) /\ i - mm = j - nn
    BY <1>3, <2>1 DEF InStep
  <2>3. j \in Nat
    BY <2>2 DEF Between
  <2>4. i - mm \in 1..q /\ i = mm + (i - mm) /\ j = nn + (i - mm)
    BY <1>3, <2>1, <2>2, <2>3
  <2> QED BY <2>4
<1>4. \A i \in DOMAIN e : i <= mm => i <= mm + q
  OBVIOUS
<1>5. /\ \A x : x \in PairsUpTo(l, e, o, mm + q) <=>
           \E i \in DOMAIN e, j \in DOMAIN o : i <= mm + q /\ Partners(l, e, o, i, j) /\ x = Pair(l, e, o, i, j)
      /\ \A x : x \in PairsUpTo(l, e, o, mm) <=>
           \E i \in DOMAIN e, j \in DOMAIN o : i <= mm /\ Partners(l, e, o, i, j) /\ x = Pair(l, e, o, i, j)
  BY PairsFacts
<1>6. ASSUME NEW x, x \in PairsUpTo(l, e, o, mm + q)
      PROVE  x \in PairsUpTo(l, e, o, mm) \/ x \in Members(Paired(l, a, b, q))
  <2>1. PICK i \in DOMAIN e, j \in DOMAIN o : i <= mm + q /\ Partners(l, e, o, i, j) /\ x = Pair(l, e, o, i, j)
    BY <1>5, <1>6
  <2>2. CASE i <= mm
    BY <1>5, <2>1, <2>2
  <2>3. CASE ~(i <= mm)
    <3>1. \E r \in 1..q : i = mm + r /\ j = nn + r
      BY <1>3, <2>1, <2>3
    <3> QED BY <1>1, <2>1, <3>1
  <2> QED BY <2>2, <2>3
<1>7. ASSUME NEW x, x \in PairsUpTo(l, e, o, mm) PROVE x \in PairsUpTo(l, e, o, mm + q)
  BY <1>4, <1>5, <1>7
<1>8. ASSUME NEW x, x \in Members(Paired(l, a, b, q)) PROVE x \in PairsUpTo(l, e, o, mm + q)
  BY <1>1, <1>2, <1>5, <1>8
<1> QED BY <1>6, <1>7, <1>8

\* close_group: the groups are paired as the reference pairs them.
LEMMA MergeCloseGroup == ASSUME ReconcileInv, MergeInv, close_group PROVE MergeInv'
<1>1. pc = "group" /\ Joining /\ ReconcileInv
  BY DEF close_group, Joining
<1>2. PICK m, mm, n, nn \in Nat : Standing(m, mm, n, nn)
  BY <1>1 DEF MergeInv
<1> DEFINE st == Before(in, level)
           s == st.e
           t == st.o
           e == sorted(level, s)
           o == sorted(level, t)
<1>3. /\ mm < m /\ nn < n /\ GroupKey # None
      /\ GroupIs(level, e, mm, m, GroupKey) /\ GroupIs(level, o, nn, n, GroupKey)
  BY <1>2, ClosedGroup
<1>4. /\ s \in Seq(E) /\ t \in Seq(O) /\ Len(s) \in Nat /\ Len(t) \in Nat
      /\ HaveKeys(E) /\ HaveKeys(O) /\ level \in CLOSING_LEVELS
      /\ Streams(E, O, s, t, eAt, eOut) /\ Streams(O, E, t, s, oAt, oOut)
  BY <1>1, JoinFacts
<1>5. /\ m \in 0..Len(s) /\ n \in 0..Len(t) /\ mm \in 0..m /\ nn \in 0..n
      /\ Side(mode, level, s, t, eAt, eGroup, eOut, mm, m)
      /\ Side(mode, level, t, s, oAt, oGroup, oOut, nn, n)
      /\ Members(matched) = st.matched \cup PairsUpTo(level, e, o, mm)
      /\ Split(level, e, o, mm, nn)
  BY <1>1, <1>2 DEF Standing
<1>6. UNCHANGED <<in, mode, level, eAt, oAt, eOut, oOut>> /\ matched \in Seq(Pairs)
  BY DEF close_group, inputVars, runVars, ReconcileInv, TypeInv
<1> HIDE DEF s, t, st
<1>7. e \in Seq(E) /\ o \in Seq(O) /\ Len(e) = Len(s) /\ Len(o) = Len(t) /\ Ordered(level, e) /\ Ordered(level, o)
  BY <1>4, SidesSorted
<1>8. /\ eGroup \in Seq(E) /\ Len(eGroup) = m - mm
      /\ \A i \in 1..(m - mm) : eGroup[i] = e[mm + i] /\ mm + i \in DOMAIN e
  BY <1>4, <1>5, SideGroup
<1>9. /\ oGroup \in Seq(O) /\ Len(oGroup) = n - nn
      /\ \A i \in 1..(n - nn) : oGroup[i] = o[nn + i] /\ nn + i \in DOMAIN o
  BY <1>4, <1>5, SideGroup
<1>10. PICK q \in Nat :
        /\ q <= m - mm /\ q <= n - nn /\ (q = m - mm \/ q = n - nn)
        /\ matched' = matched \o Paired(level, eGroup, oGroup, q)
        /\ eGroup' = SubSeq(eGroup, q + 1, Len(eGroup))
        /\ oGroup' = SubSeq(oGroup, q + 1, Len(oGroup))
        /\ pc' = IF m - mm = n - nn THEN "join" ELSE "surplus"
  <2> DEFINE q == Lesser(Len(eGroup), Len(oGroup))
  <2>1. m - mm \in Nat /\ n - nn \in Nat
    BY <1>2, <1>5
  <2>2. q \in Nat /\ q <= m - mm /\ q <= n - nn /\ (q = m - mm \/ q = n - nn)
    BY <1>8, <1>9, <2>1 DEF Lesser
  <2>3. /\ matched' = matched \o Paired(level, eGroup, oGroup, q)
        /\ eGroup' = SubSeq(eGroup, q + 1, Len(eGroup))
        /\ oGroup' = SubSeq(oGroup, q + 1, Len(oGroup))
        /\ pc' = IF Len(eGroup) = Len(oGroup) THEN "join" ELSE "surplus"
    BY DEF close_group, Paired
  <2> HIDE DEF q
  <2> QED BY <1>8, <1>9, <2>2, <2>3
<1> HIDE DEF e, o
<1>11. m \in 0..Len(e) /\ n \in 0..Len(o)
  BY <1>5, <1>7
<1>12. /\ \A i \in Between(mm, m), j \in DOMAIN o : Partners(level, e, o, i, j) <=> j \in Between(nn, n) /\ i - mm = j - nn
       /\ \A i \in Between(mm, m) : i \in Alone(level, e, o) <=> n - nn < i - mm
       /\ Split(level, e, o, m, n)
  BY <1>3, <1>4, <1>5, <1>7, <1>11, GroupPartners
<1>13. \A j \in Between(nn, n) : j \in Alone(level, o, e) <=> m - mm < j - nn
  <2>1. Split(level, o, e, nn, mm)
    BY <1>5, OtherWay
  <2> QED BY <1>3, <1>4, <1>5, <1>7, <1>11, <2>1, GroupPartners
<1>14. Side(mode, level, s, t, eAt, SubSeq(eGroup, q + 1, Len(eGroup)), eOut, mm + q, m)
  <2>1. q \in 0..(m - mm)
    BY <1>2, <1>10
  <2>2. ASSUME NEW i \in Between(mm, mm + q) PROVE i \notin Alone(level, e, o)
    <3>1. i \in Between(mm, m) /\ ~(n - nn < i - mm)
      BY <1>2, <1>10, <2>2 DEF Between
    <3> QED BY <1>12, <3>1
  <2> QED BY <1>4, <1>5, <2>1, <2>2, PairSome DEF e, o
<1>15. Side(mode, level, t, s, oAt, SubSeq(oGroup, q + 1, Len(oGroup)), oOut, nn + q, n)
  <2>1. q \in 0..(n - nn)
    BY <1>2, <1>10
  <2>2. ASSUME NEW j \in Between(nn, nn + q) PROVE j \notin Alone(level, o, e)
    <3>1. j \in Between(nn, n) /\ ~(m - mm < j - nn)
      BY <1>2, <1>10, <2>2 DEF Between
    <3> QED BY <1>13, <3>1
  <2> QED BY <1>4, <1>5, <2>1, <2>2, PairSome DEF e, o
<1>16. Members(matched') = st.matched \cup PairsUpTo(level, e, o, mm + q)
  <2>1. \A i \in DOMAIN e : i \in Nat
    BY <1>7
  <2>2. PairsUpTo(level, e, o, mm + q) = PairsUpTo(level, e, o, mm) \cup Members(Paired(level, eGroup, oGroup, q))
    <3>1. IsPart(eGroup, e, mm, m) /\ IsPart(oGroup, o, nn, n)
      BY <1>8, <1>9 DEF IsPart
    <3>2. InStep(level, e, o, mm, m, nn, n)
      BY <1>12 DEF InStep
    <3>3. q \in Nat /\ q <= m - mm /\ q <= n - nn
      BY <1>10
    <3> QED BY <1>2, <2>1, <3>1, <3>2, <3>3, GroupPairs
  <2>3. Paired(level, eGroup, oGroup, q) \in Seq(Pairs)
    <3>1. q <= Len(eGroup) /\ q <= Len(oGroup)
      BY <1>8, <1>9, <1>10
    <3> QED BY <1>4, <1>8, <1>9, <3>1, PairedFacts
  <2> DEFINE p == Paired(level, eGroup, oGroup, q)
  <2> HIDE DEF p
  <2>4. Members(matched \o p) = Members(matched) \cup Members(p)
    BY <1>6, <2>3, Behind DEF p
  <2> QED BY <1>5, <1>10, <2>2, <2>4 DEF p
<1>17. /\ pc' # "surplus" => mm + q = m /\ nn + q = n
       /\ \A i \in Between(mm + q, m) : i \in Alone(level, e, o)
       /\ \A j \in Between(nn + q, n) : j \in Alone(level, o, e)
  <2>1. pc' # "surplus" => mm + q = m /\ nn + q = n
    BY <1>2, <1>10
  <2>2. ASSUME NEW i \in Between(mm + q, m) PROVE i \in Alone(level, e, o)
    <3>1. i \in Between(mm, m) /\ n - nn < i - mm
      BY <1>2, <1>10, <2>2 DEF Between
    <3> QED BY <1>12, <3>1
  <2>3. ASSUME NEW j \in Between(nn + q, n) PROVE j \in Alone(level, o, e)
    <3>1. j \in Between(nn, n) /\ m - mm < j - nn
      BY <1>2, <1>10, <2>3 DEF Between
    <3> QED BY <1>13, <3>1
  <2> QED BY <2>1, <2>2, <2>3
<1>18. Standing(m, mm + q, n, nn + q)'
  <2>1. mm + q \in 0..m /\ nn + q \in 0..n
    BY <1>2, <1>10
  <2>2. st = Before(in', level') /\ s = st.e /\ t = st.o /\ e = sorted(level', s) /\ o = sorted(level', t)
    BY <1>6 DEF st, s, t, e, o
  <2>3. /\ Side(mode', level', s, t, eAt', eGroup', eOut', mm + q, m)
        /\ Side(mode', level', t, s, oAt', oGroup', oOut', nn + q, n)
        /\ Members(matched') = st.matched \cup PairsUpTo(level', e, o, mm + q)
        /\ pc' # "surplus" => Split(level', e, o, mm + q, nn + q)
        /\ pc' = "surplus" =>
             /\ Split(level', e, o, m, n)
             /\ \A i \in Between(mm + q, m) : i \in Alone(level', e, o)
             /\ \A j \in Between(nn + q, n) : j \in Alone(level', o, e)
    BY <1>6, <1>10, <1>12, <1>14, <1>15, <1>16, <1>17
  <2> QED BY <1>5, <2>1, <2>2, <2>3 DEF Standing
<1>19. pc' \in {"join", "surplus"} /\ mm + q \in Nat /\ nn + q \in Nat
  BY <1>2, <1>10
<1> QED BY <1>2, <1>18, <1>19 DEF MergeInv, Judged

\* surplus: what a group has more is alone.
LEMMA MergeSurplus == ASSUME ReconcileInv, MergeInv, surplus PROVE MergeInv'
<1>1. pc = "surplus" /\ Joining /\ ReconcileInv
  BY DEF surplus, Joining
<1>2. PICK m, mm, n, nn \in Nat : Standing(m, mm, n, nn)
  BY <1>1 DEF MergeInv
<1> DEFINE st == Before(in, level)
           s == st.e
           t == st.o
           e == sorted(level, s)
           o == sorted(level, t)
<1>3. (eGroup = <<>> /\ oGroup # <<>>) \/ (oGroup = <<>> /\ eGroup # <<>>)
  BY <1>1 DEF ReconcileInv, PlaceInv
<1>4. /\ s \in Seq(E) /\ t \in Seq(O) /\ Len(s) \in Nat /\ Len(t) \in Nat
      /\ HaveKeys(E) /\ HaveKeys(O) /\ level \in CLOSING_LEVELS
      /\ Streams(E, O, s, t, eAt, eOut) /\ Streams(O, E, t, s, oAt, oOut)
  BY <1>1, JoinFacts
<1>5. /\ m \in 0..Len(s) /\ n \in 0..Len(t) /\ mm \in 0..m /\ nn \in 0..n
      /\ Side(mode, level, s, t, eAt, eGroup, eOut, mm, m)
      /\ Side(mode, level, t, s, oAt, oGroup, oOut, nn, n)
      /\ Members(matched) = st.matched \cup PairsUpTo(level, e, o, mm)
      /\ Split(level, e, o, m, n)
      /\ \A i \in Between(mm, m) : i \in Alone(level, e, o)
      /\ \A j \in Between(nn, n) : j \in Alone(level, o, e)
  BY <1>1, <1>2 DEF Standing
<1>6. UNCHANGED <<in, mode, level, eAt, oAt, matched>>
  BY DEF surplus, inputVars
<1> HIDE DEF s, t, st
<1>7. e \in Seq(E) /\ o \in Seq(O) /\ Len(e) = Len(s) /\ Len(o) = Len(t)
  BY <1>4, SidesSorted
<1>8. eGroup \in Seq(E) /\ Len(eGroup) = m - mm /\ (eGroup = <<>> <=> mm = m)
  BY <1>4, <1>5, SideGroup
<1>9. oGroup \in Seq(O) /\ Len(oGroup) = n - nn /\ (oGroup = <<>> <=> nn = n)
  BY <1>4, <1>5, SideGroup
<1>10. st = Before(in', level') /\ s = st.e /\ t = st.o /\ e = sorted(level', s) /\ o = sorted(level', t)
  BY <1>6 DEF st, s, t
<1>11. CASE eGroup # <<>>
  <2>1. /\ eOut' = left_over(eOut, "e", Head(eGroup)) /\ eGroup' = Tail(eGroup) /\ oOut' = oOut /\ oGroup' = oGroup
        /\ pc' = IF Len(eGroup) + Len(oGroup) = 1 THEN "join" ELSE "surplus"
    BY <1>11 DEF surplus
  <2>2. mm < m /\ nn = n /\ Len(oGroup) = 0
    BY <1>3, <1>5, <1>8, <1>9, <1>11
  <2>3. mm + 1 \in Between(mm, m)
    BY <1>2, <2>2 DEF Between
  <2>4. Side(mode, level, s, t, eAt, Tail(eGroup), left_over(eOut, "e", Head(eGroup)), mm + 1, m)
    BY <1>4, <1>5, <2>2, <2>3, DropOne
  <2> HIDE DEF e, o
  <2>5. PairsUpTo(level, e, o, mm + 1) = PairsUpTo(level, e, o, mm)
    BY <1>2, <1>5, <1>7, <2>3, AlonePairsNone
  <2>6. pc' = "join" => mm + 1 = m
    BY <1>2, <1>8, <2>1, <2>2
  <2>7. /\ mm + 1 \in 0..m /\ nn \in 0..n /\ mm + 1 \in Nat
        /\ \A i \in Between(mm + 1, m) : i \in Between(mm, m)
    BY <1>2, <2>2 DEF Between
  <2>8. /\ Side(mode', level', s, t, eAt', eGroup', eOut', mm + 1, m)
        /\ Side(mode', level', t, s, oAt', oGroup', oOut', nn, n)
        /\ Members(matched') = st.matched \cup PairsUpTo(level', e, o, mm + 1)
        /\ pc' # "surplus" => Split(level', e, o, mm + 1, nn)
        /\ pc' = "surplus" =>
             /\ Split(level', e, o, m, n)
             /\ \A i \in Between(mm + 1, m) : i \in Alone(level', e, o)
             /\ \A j \in Between(nn, n) : j \in Alone(level', o, e)
    BY <1>5, <1>6, <2>1, <2>2, <2>4, <2>5, <2>6, <2>7
  <2>9. Standing(m, mm + 1, n, nn)'
    BY <1>5, <1>10, <2>7, <2>8 DEF Standing
  <2>10. pc' \in {"join", "surplus"}
    BY <2>1
  <2> QED BY <1>2, <2>7, <2>9, <2>10 DEF MergeInv, Judged
<1>12. CASE eGroup = <<>>
  <2>1. /\ oOut' = left_over(oOut, "o", Head(oGroup)) /\ oGroup' = Tail(oGroup) /\ eOut' = eOut /\ eGroup' = eGroup
        /\ pc' = IF Len(eGroup) + Len(oGroup) = 1 THEN "join" ELSE "surplus"
    BY <1>12 DEF surplus
  <2>2. nn < n /\ mm = m /\ Len(eGroup) = 0
    BY <1>3, <1>5, <1>8, <1>9, <1>12
  <2>3. nn + 1 \in Between(nn, n)
    BY <1>2, <2>2 DEF Between
  <2>4. Side(mode, level, t, s, oAt, Tail(oGroup), left_over(oOut, "o", Head(oGroup)), nn + 1, n)
    BY <1>4, <1>5, <2>2, <2>3, DropOne
  <2> HIDE DEF e, o
  <2>6. pc' = "join" => nn + 1 = n
    BY <1>2, <1>9, <2>1, <2>2
  <2>7. /\ nn + 1 \in 0..n /\ mm \in 0..m /\ nn + 1 \in Nat
        /\ \A i \in Between(nn + 1, n) : i \in Between(nn, n)
    BY <1>2, <2>2 DEF Between
  <2>8. /\ Side(mode', level', s, t, eAt', eGroup', eOut', mm, m)
        /\ Side(mode', level', t, s, oAt', oGroup', oOut', nn + 1, n)
        /\ Members(matched') = st.matched \cup PairsUpTo(level', e, o, mm)
        /\ pc' # "surplus" => Split(level', e, o, mm, nn + 1)
        /\ pc' = "surplus" =>
             /\ Split(level', e, o, m, n)
             /\ \A i \in Between(mm, m) : i \in Alone(level', e, o)
             /\ \A j \in Between(nn + 1, n) : j \in Alone(level', o, e)
    BY <1>5, <1>6, <2>1, <2>2, <2>4, <2>6, <2>7
  <2>9. Standing(m, mm, n, nn + 1)'
    BY <1>5, <1>10, <2>7, <2>8 DEF Standing
  <2>10. pc' \in {"join", "surplus"}
    BY <2>1
  <2> QED BY <1>2, <2>7, <2>9, <2>10 DEF MergeInv, Judged
<1> QED BY <1>11, <1>12

\* spill: the next item goes to its writer.
LEMMA SpillsNext ==
  ASSUME NEW U, HaveKeys(U), attempt \in Nat, NEW w \in Writers(U), NEW s \in Seq(U),
         NEW side \in {"e", "o"}, RunsOrdered(POINT_ID, w),
         mode = "big", Len(w.buffer) < ChunkSize, SpilledList(mode, w, s), Count(w) < Len(s)
  PROVE  SpilledList(mode, add(w, side, POINT_ID, s[Count(w) + 1]), s)
<1> DEFINE c == Count(w)
           x == s[c + 1]
           p == SubSeq(s, 1, c)
<1>1. c \in Nat /\ Len(s) \in Nat /\ Len(w.buffer) \in Nat /\ Len(w.runs) * ChunkSize \in Nat
  BY CountIsNat
<1>2. c \in 0..Len(s) /\ Chunked(mode, w, p, POINT_ID)
  <2>1. PICK n \in 0..Len(s) :
          /\ Chunked(mode, w, SubSeq(s, 1, n), POINT_ID)
          /\ n = Count(w) \/ (n = Len(s) /\ Count(w) >= n)
    BY DEF SpilledList
  <2>2. n = c
    BY <1>1, <2>1
  <2> QED BY <2>1, <2>2
<1>3. x \in U /\ c < Len(s) /\ 0 \in 0..c /\ POINT_ID \in CLOSING_LEVELS
  BY <1>1 DEF CLOSING_LEVELS
<1>4. p \in Seq(U) /\ Len(p) = c
  <2>1. SubSeq(s, 0 + 1, c) \in Seq(U) /\ Len(SubSeq(s, 0 + 1, c)) = c - 0
    BY <1>2, <1>3, PartFacts
  <2>2. 0 + 1 = 1 /\ c - 0 = c
    BY <1>1
  <2> QED BY <2>1, <2>2
<1>5. SubSeq(s, 1, c + 1) = Append(p, x)
  <2>1. SubSeq(s, 0 + 1, c + 1) = Append(SubSeq(s, 0 + 1, c), s[c + 1])
    BY <1>1, <1>3, PartGrows
  <2>2. 0 + 1 = 1
    OBVIOUS
  <2> HIDE DEF c
  <2> QED BY <2>1, <2>2, Zenon
<1>6. Growing(w, p)
  <2> DEFINE a == Len(w.runs) * ChunkSize
             b == Len(w.buffer)
  <2>1. c = b + a /\ a \in Nat /\ b \in Nat
    BY <1>1 DEF Count
  <2>2. a <= c
    <3> HIDE DEF a, b, c
    <3> QED BY <2>1
  <2> QED BY <1>4, <2>2 DEF Growing
<1>7. Count(add(w, side, POINT_ID, x)) = c + 1
  <2> HIDE DEF x
  <2> QED BY <1>3, AddFacts
<1> HIDE DEF x, p
<1>8. Chunked(mode, add(w, side, POINT_ID, x), Append(p, x), POINT_ID)
  BY <1>2, <1>3, <1>4, <1>6, AddChunked
<1>9. c + 1 \in 0..Len(s)
  BY <1>1
<1>10. SpilledList(mode, add(w, side, POINT_ID, x), s)
  BY <1>5, <1>7, <1>8, <1>9 DEF SpilledList
<1> QED BY <1>10 DEF x

\* All of it is written, and stays so when the writer is flushed.
LEMMA SpillsAll ==
  ASSUME NEW U, NEW w \in Writers(U), NEW s \in Seq(U), NEW side,
         mode = "big", Len(w.buffer) < ChunkSize, SpilledList(mode, w, s), ~(Count(w) < Len(s))
  PROVE  /\ Chunked(mode, w, s, POINT_ID)
         /\ SpilledList(mode, flush(w, side, POINT_ID), s)
<1>1. /\ Count(w) \in Nat /\ Len(s) \in Nat /\ Len(w.buffer) \in Nat /\ Len(w.runs) \in Nat
      /\ Len(w.runs) * ChunkSize \in Nat /\ ChunkSize \in Nat
  BY CountIsNat, ReconcileAssumption
<1>2. SubSeq(s, 1, Len(s)) = s /\ Len(s) \in 0..Len(s)
  OBVIOUS
<1>3. Chunked(mode, w, s, POINT_ID)
  <2>1. PICK n \in 0..Len(s) :
          /\ Chunked(mode, w, SubSeq(s, 1, n), POINT_ID)
          /\ n = Count(w) \/ (n = Len(s) /\ Count(w) >= n)
    BY DEF SpilledList
  <2>2. n = Len(s)
    BY <1>1, <2>1
  <2> QED BY <1>2, <2>1, <2>2
<1> DEFINE v == flush(w, side, POINT_ID)
<1>4. Chunked(mode, v, s, POINT_ID)
  <2>1. Len(w.buffer) <= ChunkSize
    BY <1>1
  <2> QED BY <1>3, <2>1, FlushKeepsChunks
<1>5. /\ v.buffer = <<>>
      /\ w.buffer = <<>> => v = w
      /\ w.buffer # <<>> => Len(v.runs) = Len(w.runs) + 1
  BY FlushedRuns
<1> HIDE DEF v
<1>6. Count(v) >= Len(s)
  <2>1. CASE w.buffer = <<>>
    BY <1>1, <1>5, <2>1
  <2>2. CASE w.buffer # <<>>
    <3> DEFINE n == Len(w.runs)
               many == n * ChunkSize
               b == Len(w.buffer)
               y == Len(s)
    <3>1. (n + 1) * ChunkSize = n * ChunkSize + ChunkSize
      BY <1>1
    <3>2. Count(v) = Len(v.buffer) + Len(v.runs) * ChunkSize /\ Len(v.buffer) = 0
      BY <1>5 DEF Count
    <3>3. Count(w) = b + many
      BY DEF Count
    <3>4. Count(v) = 0 + (many + ChunkSize)
      BY <1>5, <2>2, <3>1, <3>2
    <3>5. many \in Nat /\ b \in Nat /\ b < ChunkSize /\ y \in Nat /\ ~(Count(w) < y) /\ ChunkSize \in Nat
      BY <1>1
    <3> HIDE DEF many, b, y
    <3>6. Count(v) >= y
      BY <3>3, <3>4, <3>5
    <3> QED BY <3>6 DEF y
  <2> QED BY <2>1, <2>2
<1>7. SpilledList(mode, v, s)
  BY <1>2, <1>4, <1>6 DEF SpilledList
<1> QED BY <1>3, <1>7 DEF v

\* spill: the writers have what was read of the input, and then all of it.
LEMMA MergeSpill == ASSUME ReconcileInv, ReconcileInv', MergeInv, spill PROVE MergeInv'
<1>1. /\ expected \in Seq(E) /\ in.observed \in Seq(O) /\ HaveKeys(E) /\ HaveKeys(O) /\ in \in Inputs
      /\ expected' = expected /\ in' = in
  BY InputFacts, InputStays DEF ReconcileInv, TypeInv, spill
<1>2. /\ pc = "spill" /\ mode = "big" /\ level = POINT_ID /\ attempt \in Nat /\ pc' \in {"spill", "round"}
      /\ eOut \in Writers(E) /\ oOut \in Writers(O) /\ matched = <<>>
      /\ RunsOrdered(level, eOut) /\ RunsOrdered(level, oOut)
  BY DEF ReconcileInv, TypeInv, spill, OrderInv, PlaceInv, Joining
<1>3. UNCHANGED <<in, mode, level, matched>>
  BY DEF spill, inputVars
<1>4. POINT_ID # CHUNK_ID
  BY DEF POINT_ID, CHUNK_ID
<1>5. /\ Len(eOut.buffer) < ChunkSize /\ Len(oOut.buffer) < ChunkSize
      /\ Len(eOut'.buffer) < ChunkSize /\ Len(oOut'.buffer) < ChunkSize
  <2>1. RunFilesHold /\ RunFilesHold'
    BY DEF ReconcileInv, DiskInv
  <2> QED BY <1>2, <1>3, <1>4, <2>1 DEF RunFilesHold
<1>6. SpilledList(mode, eOut, expected) /\ SpilledList(mode, oOut, in.observed)
  BY <1>2 DEF MergeInv
<1>7. ~Joining' /\ ~Judged'
  BY <1>2 DEF Joining, Judged
<1> DEFINE ob == in.observed
<1>8. ob \in Seq(O) /\ SpilledList(mode, oOut, ob)
  BY <1>1, <1>6
<1> HIDE DEF ob
<1>9. CASE Count(eOut) < Len(expected)
  <2>1. eOut' = add(eOut, "e", level, expected[Count(eOut) + 1]) /\ oOut' = oOut /\ pc' = pc
    BY <1>9 DEF spill
  <2>2. SpilledList(mode, add(eOut, "e", POINT_ID, expected[Count(eOut) + 1]), expected)
    BY <1>1, <1>2, <1>5, <1>6, <1>9, SpillsNext
  <2> QED BY <1>1, <1>2, <1>3, <1>6, <1>7, <2>1, <2>2 DEF MergeInv
<1>10. CASE ~(Count(eOut) < Len(expected)) /\ Count(oOut) < Len(ob)
  <2>1. /\ eOut' = flush(eOut, "e", level) /\ oOut' = add(oOut, "o", level, ob[Count(oOut) + 1]) /\ pc' = pc
    BY <1>10 DEF spill, ob
  <2>2. SpilledList(mode, flush(eOut, "e", POINT_ID), expected)
    BY <1>1, <1>2, <1>5, <1>6, <1>10, SpillsAll
  <2>3. SpilledList(mode, add(oOut, "o", POINT_ID, ob[Count(oOut) + 1]), ob)
    BY <1>1, <1>2, <1>5, <1>8, <1>10, SpillsNext
  <2> QED BY <1>1, <1>2, <1>3, <1>7, <2>1, <2>2, <2>3 DEF MergeInv, ob
<1>11. CASE ~(Count(eOut) < Len(expected)) /\ ~(Count(oOut) < Len(ob))
  <2>1. eOut' = eOut /\ oOut' = oOut /\ pc' = "round"
    BY <1>11 DEF spill, ob
  <2>2. Chunked(mode, eOut, expected, POINT_ID)
    BY <1>1, <1>2, <1>5, <1>6, <1>11, SpillsAll
  <2>3. Chunked(mode, oOut, ob, POINT_ID)
    BY <1>1, <1>2, <1>5, <1>8, <1>11, SpillsAll
  <2>4. Before(in, POINT_ID).e = expected /\ Before(in, POINT_ID).o = ob /\ Before(in, POINT_ID).matched = {}
    <3>1. POINT_ID \in CLOSING_LEVELS
      BY DEF CLOSING_LEVELS
    <3> QED BY <1>1, <3>1, BeforeFacts DEF ob
  <2>5. Members(matched) = {}
    BY <1>2, NoneMatched
  <2> QED BY <1>1, <1>2, <1>3, <1>5, <1>7, <2>1, <2>2, <2>3, <2>4, <2>5 DEF MergeInv
<1> QED BY <1>9, <1>10, <1>11

\* begin: in memory a writer has the whole list, on disk nothing yet.
LEMMA MergeBegin == ASSUME ReconcileInv, MergeInv, begin PROVE MergeInv'
<1>1. /\ expected \in Seq(E) /\ in.observed \in Seq(O) /\ in \in Inputs
      /\ expected' = expected /\ in' = in
  BY InputFacts, InputStays DEF ReconcileInv, TypeInv, begin
<1>2. pc = "begin" /\ eOut = Writer /\ oOut = Writer /\ level = POINT_ID /\ matched = <<>> /\ UNCHANGED <<level, matched>>
  BY DEF ReconcileInv, PlaceInv, begin, Joining
<1>3. CASE preflight_fails(in, expected)
  <2>1. result' = short_circuit_result(in) /\ pc' = "report"
    BY <1>3 DEF begin
  <2>2. result'.short_circuited
    BY <2>1 DEF short_circuit_result
  <2> QED BY <2>1, <2>2 DEF MergeInv, Joining, Judged
<1>4. CASE ~preflight_fails(in, expected) /\ ~forced /\ Len(in.observed) <= MaxInMemory
  <2>1. /\ mode' = "small" /\ pc' = "round"
        /\ eOut' = [Writer EXCEPT !.buffer = expected] /\ oOut' = [Writer EXCEPT !.buffer = in.observed]
    BY <1>4 DEF begin
  <2> DEFINE ob == in.observed
  <2>2. ob \in Seq(O) /\ oOut' = [Writer EXCEPT !.buffer = ob]
    BY <1>1, <2>1
  <2> HIDE DEF ob
  <2>3. Chunked("small", [Writer EXCEPT !.buffer = expected], expected, POINT_ID)
    BY <1>1, ListIsChunked
  <2>4. Chunked("small", [Writer EXCEPT !.buffer = ob], ob, POINT_ID)
    BY <2>2, ListIsChunked
  <2>5. Before(in, POINT_ID).e = expected /\ Before(in, POINT_ID).o = ob /\ Before(in, POINT_ID).matched = {}
    <3>1. POINT_ID \in CLOSING_LEVELS
      BY DEF CLOSING_LEVELS
    <3> QED BY <1>1, <3>1, BeforeFacts DEF ob
  <2>6. Members(matched) = {}
    BY <1>2, NoneMatched
  <2> QED BY <1>1, <1>2, <2>1, <2>2, <2>3, <2>4, <2>5, <2>6 DEF MergeInv, Joining, Judged
<1>5. CASE ~preflight_fails(in, expected) /\ ~(~forced /\ Len(in.observed) <= MaxInMemory)
  <2>1. mode' = "big" /\ pc' = "spill" /\ eOut' = Writer /\ oOut' = Writer
    BY <1>2, <1>5 DEF begin
  <2>2. ASSUME NEW U, NEW s \in Seq(U) PROVE SpilledList("big", Writer, s)
    <3>1. SubSeq(s, 1, 0) = <<>> /\ 0 \in 0..Len(s)
      <4>1. SubSeq(s, 0 + 1, 0) \in Seq(U) /\ Len(SubSeq(s, 0 + 1, 0)) = 0 - 0
        <5>1. 0 \in 0..Len(s) /\ 0 \in 0..0
          BY <2>2
        <5> QED BY <2>2, <5>1, PartFacts
      <4> QED BY <2>2, <4>1
    <3>2. Count(Writer) = 0
      BY EmptyWriter
    <3>3. Chunked("big", Writer, <<>>, POINT_ID)
      BY NewIsChunked
    <3> QED BY <3>1, <3>2, <3>3 DEF SpilledList
  <2>3. SpilledList("big", Writer, expected)
    BY <1>1, <2>2
  <2>4. SpilledList("big", Writer, in.observed)
    BY <1>1, <2>2
  <2> QED BY <1>1, <2>1, <2>3, <2>4 DEF MergeInv, Joining, Judged
<1> QED BY <1>3, <1>4, <1>5

\* start_round: the runs hold the sorted lists, none of it read.
LEMMA MergeStartRound == ASSUME ReconcileInv, MergeInv, start_round PROVE MergeInv'
<1>1. /\ pc = "round" /\ pc' = "join" /\ eGroup = <<>> /\ oGroup = <<>>
      /\ UNCHANGED <<in, mode, level, eGroup, oGroup, matched>>
  BY DEF start_round, ReconcileInv, PlaceInv, inputVars, groupVars
<1>2. /\ HaveKeys(E) /\ HaveKeys(O) /\ level \in CLOSING_LEVELS /\ in \in Inputs /\ mode \in {"small", "big"}
      /\ eOut \in Writers(E) /\ oOut \in Writers(O)
  BY InputFacts DEF ReconcileInv, TypeInv
<1> DEFINE st == Before(in, level)
           s == st.e
           t == st.o
           e == sorted(level, s)
           o == sorted(level, t)
<1>3. s \in Seq(E) /\ t \in Seq(O)
  BY <1>2, BeforeFacts
<1>4. /\ Chunked(mode, eOut, s, level) /\ Chunked(mode, oOut, t, level) /\ Members(matched) = st.matched
      /\ mode = "big" => Len(eOut.buffer) < ChunkSize /\ Len(oOut.buffer) < ChunkSize
  BY <1>1 DEF MergeInv
<1>5. /\ eAt' = Lines(Finished(eOut, "e")) /\ oAt' = Lines(Finished(oOut, "o")) /\ eOut' = Writer /\ oOut' = Writer
  BY DEF start_round, Finished
<1> HIDE DEF st, s, t
<1>6. Side(mode, level, s, t, Lines(Finished(eOut, "e")), <<>>, Writer, 0, 0)
  BY <1>2, <1>3, <1>4, StartSide
<1>7. Side(mode, level, t, s, Lines(Finished(oOut, "o")), <<>>, Writer, 0, 0)
  BY <1>2, <1>3, <1>4, StartSide
<1>8. e \in Seq(E) /\ o \in Seq(O)
  BY <1>2, <1>3, SidesSorted
<1> HIDE DEF e, o
<1>9. PairsUpTo(level, e, o, 0) = {}
  BY <1>8, NoPairs
<1>10. Split(level, e, o, 0, 0)
  <2>1. (\A i \in DOMAIN e : ~(i <= 0)) /\ (\A j \in DOMAIN o : ~(j <= 0))
    BY <1>8
  <2> QED BY <2>1 DEF Split
<1>11. Standing(0, 0, 0, 0)'
  <2>1. 0 \in 0..Len(s) /\ 0 \in 0..0 /\ 0 \in 0..Len(t)
    BY <1>3
  <2>2. st = Before(in', level') /\ s = st.e /\ t = st.o /\ e = sorted(level', s) /\ o = sorted(level', t)
    BY <1>1 DEF st, s, t, e, o
  <2>3. /\ Side(mode', level', s, t, eAt', eGroup', eOut', 0, 0)
        /\ Side(mode', level', t, s, oAt', oGroup', oOut', 0, 0)
        /\ Members(matched') = st.matched \cup PairsUpTo(level', e, o, 0)
        /\ Split(level', e, o, 0, 0)
    BY <1>1, <1>4, <1>5, <1>6, <1>7, <1>9, <1>10
  <2> QED BY <1>1, <2>1, <2>2, <2>3 DEF Standing
<1> QED BY <1>1, <1>11 DEF MergeInv, Judged

\* end_round: both streams are read, and what is left over is what the
\* reference has for the next level.
LEMMA MergeEndRound == ASSUME ReconcileInv, MergeInv, end_round PROVE MergeInv'
<1>1. pc = "join" /\ Joining /\ Alive(eAt) = {} /\ Alive(oAt) = {} /\ ReconcileInv /\ in \in Inputs
  BY DEF end_round, Joining, ReconcileInv, TypeInv
<1>2. PICK m, mm, n, nn \in Nat : Standing(m, mm, n, nn)
  BY <1>1 DEF MergeInv
<1>3. mm = m /\ nn = n /\ eGroup = <<>> /\ oGroup = <<>>
  BY <1>1, <1>2, NothingHeld
<1> DEFINE st == Before(in, level)
           s == st.e
           t == st.o
           e == sorted(level, s)
           o == sorted(level, t)
<1>4. /\ s \in Seq(E) /\ t \in Seq(O) /\ Len(s) \in Nat /\ Len(t) \in Nat /\ HaveKeys(E) /\ HaveKeys(O)
      /\ level \in CLOSING_LEVELS
      /\ Streams(E, O, s, t, eAt, eOut) /\ Streams(O, E, t, s, oAt, oOut)
  BY <1>1, JoinFacts
<1>5. /\ m \in 0..Len(s) /\ n \in 0..Len(t)
      /\ Side(mode, level, s, t, eAt, <<>>, eOut, m, m)
      /\ Side(mode, level, t, s, oAt, <<>>, oOut, n, n)
      /\ Members(matched) = st.matched \cup PairsUpTo(level, e, o, m)
  BY <1>1, <1>2, <1>3 DEF Standing
<1> HIDE DEF st, s, t
<1>6. m = Len(s) /\ n = Len(t)
  <2>1. Alive(eAt) = {} <=> m = Len(s)
    BY <1>4, <1>5, NextOfSide
  <2>2. Alive(oAt) = {} <=> n = Len(t)
    BY <1>4, <1>5, NextOfSide
  <2> QED BY <1>1, <2>1, <2>2
<1>7. LeftOver(mode, level, eOut, ItemsAt(e, Alone(level, e, o)))
  BY <1>4, <1>5, <1>6, EndSide
<1>8. LeftOver(mode, level, oOut, ItemsAt(o, Alone(level, o, e)))
  BY <1>4, <1>5, <1>6, EndSide
<1>9. Len(e) = Len(s)
  BY <1>4, SidesSorted
<1>10. /\ Round(st, level).e = ItemsAt(e, Alone(level, e, o))
       /\ Round(st, level).o = ItemsAt(o, Alone(level, o, e))
       /\ Round(st, level).matched = st.matched \cup PairsUpTo(level, e, o, Len(e))
  <2>1. st.e \in Seq(E) /\ st.o \in Seq(O)
    BY <1>4 DEF s, t
  <2> QED BY <1>4, <2>1, RoundFacts DEF e, o, s, t
<1>11. UNCHANGED <<in, mode, eOut, oOut, matched>> /\ pc' \in {"report", "round"}
  BY DEF end_round, inputVars
<1> HIDE DEF e, o
<1>12. /\ LeftOver(mode, level, eOut, Round(st, level).e) /\ LeftOver(mode, level, oOut, Round(st, level).o)
       /\ Members(matched) = Round(st, level).matched
  BY <1>5, <1>6, <1>7, <1>8, <1>9, <1>10
<1>13. CASE level = CHUNK_ID
  <2>1. pc' = "report"
    BY <1>13 DEF end_round
  <2>2. st = Before(in', CHUNK_ID)
    BY <1>11, <1>13 DEF st
  <2>3. /\ eOut'.buffer = Round(st, CHUNK_ID).e /\ oOut'.buffer = Round(st, CHUNK_ID).o
        /\ Members(matched') = Round(st, CHUNK_ID).matched
    BY <1>11, <1>12, <1>13 DEF LeftOver
  <2> QED BY <2>1, <2>2, <2>3 DEF MergeInv, Joining
<1>14. CASE level # CHUNK_ID
  <2>1. pc' = "round" /\ level' = level + 1
    BY <1>14 DEF end_round
  <2>2. Before(in', level') = Round(st, level)
    BY <1>1, <1>4, <1>11, <1>14, <2>1, BeforeFacts DEF st
  <2>3. /\ Chunked(mode', eOut', Round(st, level).e, level')
        /\ Chunked(mode', oOut', Round(st, level).o, level')
        /\ Members(matched') = Round(st, level).matched
    BY <1>11, <1>12, <1>14, <2>1 DEF LeftOver
  <2>4. mode' = "big" => Len(eOut'.buffer) < ChunkSize /\ Len(oOut'.buffer) < ChunkSize
    BY <1>11, <1>14 DEF ReconcileInv, DiskInv, RunFilesHold
  <2> QED BY <2>1, <2>2, <2>3, <2>4 DEF MergeInv, Joining, Judged
<1> QED BY <1>13, <1>14

\* A killed process and one that begins have no matching, and a report changes
\* none.
LEMMA MergeOthers == ASSUME MergeInv, report \/ Crash \/ Restart PROVE MergeInv'
<1>1. CASE report
  <2>1. UNCHANGED <<in, result, eOut, oOut, matched>> /\ pc = "report" /\ pc' = "done"
    BY <1>1 DEF report, inputVars, runVars
  <2>2. Judged' => Judged
    BY <2>1 DEF Judged
  <2> QED BY <2>1, <2>2 DEF MergeInv, Joining
<1>2. CASE Crash \/ Restart
  <2>1. pc' \in {"crashed", "begin"}
    BY <1>2 DEF Crash, Restart
  <2> QED BY <2>1 DEF MergeInv, Joining, Judged
<1> QED BY <1>1, <1>2

LEMMA MergeStutters == ASSUME MergeInv, UNCHANGED vars PROVE MergeInv'
<1>1. UNCHANGED <<in, mode, pc, level, eAt, oAt, eOut, oOut, eGroup, oGroup, matched, result>> /\ expected' = expected
  BY DEF vars, inputVars, runVars, groupVars, endVars, expected
<1>2. (Joining <=> Joining') /\ (Judged <=> Judged')
  BY <1>1 DEF Joining, Judged
<1>3. \A m, mm, n, nn : Standing(m, mm, n, nn) => Standing(m, mm, n, nn)'
  BY <1>1 DEF Standing
<1> QED BY <1>1, <1>2, <1>3 DEF MergeInv

\* stream_merge_join, over _ChunkedRunWriter and heapq.merge: at every point of
\* a round, what is read, matched and left over is what the reference makes of
\* the lists the round was given.
THEOREM MergeInvariant == Spec => [](ReconcileInv /\ MergeInv)
<1>1. Init => ReconcileInv /\ MergeInv
  <2>1. Init => ReconcileInv
    BY InitHolds
  <2>2. Init => MergeInv
    BY DEF Init, MergeInv, Joining, Judged
  <2> QED BY <2>1, <2>2
<1>2. ReconcileInv /\ MergeInv /\ ReconcileInv' /\ [Next]_vars => MergeInv'
  <2> SUFFICES ASSUME ReconcileInv, MergeInv, ReconcileInv', [Next]_vars PROVE MergeInv'
    OBVIOUS
  <2>1. CASE begin
    BY <2>1, MergeBegin
  <2>2. CASE spill
    BY <2>2, MergeSpill
  <2>3. CASE start_round
    BY <2>3, MergeStartRound
  <2>4. CASE leftover_expected
    BY <2>4, MergeLeftoverExpected
  <2>5. CASE leftover_observed
    BY <2>5, MergeLeftoverObserved
  <2>6. CASE open_group
    BY <2>6, MergeOpenGroup
  <2>7. CASE grow_group
    BY <2>7, MergeGrowGroup
  <2>8. CASE close_group
    BY <2>8, MergeCloseGroup
  <2>9. CASE surplus
    BY <2>9, MergeSurplus
  <2>10. CASE end_round
    BY <2>10, MergeEndRound
  <2>11. CASE report \/ Crash \/ Restart
    BY <2>11, MergeOthers
  <2>12. CASE UNCHANGED vars
    BY <2>12, MergeStutters
  <2> QED BY <2>1, <2>2, <2>3, <2>4, <2>5, <2>6, <2>7, <2>8, <2>9, <2>10, <2>11, <2>12
          DEF Next, Step, stream_merge_join
<1>3. Spec => []ReconcileInv
  BY ReconcileInvariant
<1> QED BY <1>1, <1>2, <1>3, PTL DEF Spec

\* stream_merge_join: "what guarantees they produce identical matches for the
\* same logical input".
LEMMA PathsEndAlike == ASSUME ReconcileInv, MergeInv PROVE PathsAgree
<1>1. RunFilesHold /\ LitterOnlyFromKilledAttempts
  BY DEF ReconcileInv, DiskInv, LitterOnlyFromKilledAttempts
<1>2. Reference = Round(Before(in, CHUNK_ID), CHUNK_ID)
  <2>1. in \in Inputs /\ CHUNK_ID \in CLOSING_LEVELS
    BY DEF ReconcileInv, TypeInv, CLOSING_LEVELS
  <2> QED BY <2>1, BeforeFacts
<1>3. Judged => /\ Members(matched) = Reference.matched
                /\ eOut.buffer = Reference.e /\ oOut.buffer = Reference.o
  BY <1>2 DEF MergeInv
<1> QED BY <1>1, <1>3 DEF PathsAgree

\* reconcile_small_data and reconcile_big_data: after any runs, crashes and
\* restarts both end with the matching the reference makes, leftovers in the
\* same order; the big path holds its bounds and leaves no files behind.
THEOREM PathsAgreeAlways == Spec => []PathsAgree
  BY MergeInvariant, PathsEndAlike, PTL

=============================================================================
