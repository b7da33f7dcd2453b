--------------------------- MODULE SnapshotProofs ---------------------------
(***************************************************************************)
(* Theorems about Snapshot, for every set of point ids, every page size,   *)
(* and any number of changes of the target, retries, passes and damages:   *)
(* what a pass of either connector delivers, what a snapshot file that is  *)
(* accepted holds, and that a resumed capture skips nothing.               *)
(***************************************************************************)
EXTENDS Snapshot, FiniteSetTheorems, FunctionTheorems, SequenceTheorems, TLAPS

-----------------------------------------------------------------------------
(* Finite sets of ids and their ascending lists *)

Below(S, p) == {q \in S : q < p}

\* The members of a list, and that it lists them in strictly ascending order
Listed(s) == {s[i] : i \in 1..Len(s)}
Ascends(s) == \A i, k \in 1..Len(s) : i < k => s[i] < s[k]

\* A larger id has more ids below it.
LEMMA RankGrows ==
  ASSUME NEW S \in SUBSET Nat, IsFiniteSet(S), NEW p \in S, NEW q \in S, p < q
  PROVE  Cardinality(Below(S, p)) < Cardinality(Below(S, q))
<1>1. Below(S, q) \in SUBSET S /\ Below(S, p) \in SUBSET Below(S, q)
  <2>1. \A r \in S : r \in Nat
    OBVIOUS
  <2>2. \A r \in S : r < p => r < q
    BY <2>1
  <2> QED BY <2>2 DEF Below
<1>2. p \in Below(S, q) /\ p \notin Below(S, p)
  BY DEF Below
<1>3. IsFiniteSet(Below(S, q))
  BY <1>1, FS_Subset
<1>4. Cardinality(Below(S, p)) <= Cardinality(Below(S, q)) /\ Cardinality(Below(S, p)) # Cardinality(Below(S, q))
  BY <1>1, <1>2, <1>3, FS_Subset
<1>5. IsFiniteSet(Below(S, p))
  BY <1>1, <1>3, FS_Subset
<1>6. Cardinality(Below(S, p)) \in Nat /\ Cardinality(Below(S, q)) \in Nat
  BY <1>3, <1>5, FS_CardinalityType
<1> QED BY <1>4, <1>6

\* The number of ids below an id of a finite set is less than their number.
LEMMA RankIsBounded ==
  ASSUME NEW S \in SUBSET Nat, IsFiniteSet(S), NEW p \in S
  PROVE  Cardinality(Below(S, p)) \in 0..(Cardinality(S) - 1)
<1>1. Below(S, p) \in SUBSET S /\ Below(S, p) # S
  BY DEF Below
<1>2. IsFiniteSet(Below(S, p))
  BY <1>1, FS_Subset
<1>3. Cardinality(Below(S, p)) \in Nat /\ Cardinality(S) \in Nat
  BY <1>2, FS_CardinalityType
<1>4. Cardinality(Below(S, p)) <= Cardinality(S) /\ Cardinality(Below(S, p)) # Cardinality(S)
  BY <1>1, FS_Subset
<1> QED BY <1>3, <1>4

\* Every rank is some id's: the ranks are an injection into an equally large set.
LEMMA RanksAreReached ==
  ASSUME NEW S \in SUBSET Nat, IsFiniteSet(S), NEW i \in 1..Cardinality(S)
  PROVE  \E p \in S : Cardinality(Below(S, p)) = i - 1
<1> DEFINE T == 0..(Cardinality(S) - 1)
           f == [p \in S |-> Cardinality(Below(S, p))]
<1>1. Cardinality(S) \in Nat
  BY FS_CardinalityType
<1>2. IsFiniteSet(T) /\ Cardinality(T) = Cardinality(S)
  <2> DEFINE m == Cardinality(S) - 1
  <2>1. 0 \in Int /\ m \in Int /\ (IF 0 > m THEN 0 ELSE m - 0 + 1) = Cardinality(S)
    BY <1>1
  <2>2. IsFiniteSet(0..m) /\ Cardinality(0..m) = IF 0 > m THEN 0 ELSE m - 0 + 1
    BY <2>1, FS_Interval
  <2> QED BY <2>1, <2>2
<1>3. f \in [S -> T]
  <2>1. \A p \in S : Cardinality(Below(S, p)) \in T
    BY RankIsBounded
  <2> QED BY <2>1
<1>4. ASSUME NEW a \in S, NEW b \in S, f[a] = f[b] PROVE a = b
  <2>1. a \in Nat /\ b \in Nat /\ Cardinality(Below(S, a)) = Cardinality(Below(S, b))
    BY <1>4
  <2>2. Cardinality(Below(S, a)) \in Nat /\ Cardinality(Below(S, b)) \in Nat
    BY RankIsBounded
  <2>3. ~(a < b)
    BY <2>1, <2>2, RankGrows
  <2>4. ~(b < a)
    BY <2>1, <2>2, RankGrows
  <2> QED BY <2>1, <2>3, <2>4
<1>5. f \in Injection(S, T)
  <2> HIDE DEF f, T
  <2> QED BY <1>3, <1>4, Fun_IsInj
<1>6. f \in Surjection(S, T)
  <2> HIDE DEF f, T
  <2> QED BY <1>2, <1>5, FS_Injection
<1>7. i - 1 \in T
  BY <1>1
<1> QED BY <1>6, <1>7 DEF Surjection

\* Two ids of a set with equally many ids below them are one id.
LEMMA RankIdentifies ==
  ASSUME NEW S \in SUBSET Nat, IsFiniteSet(S), NEW p \in S, NEW q \in S,
         Cardinality(Below(S, p)) = Cardinality(Below(S, q))
  PROVE  p = q
<1>1. p \in Nat /\ q \in Nat
  OBVIOUS
<1>2. Cardinality(Below(S, p)) \in Nat
  BY RankIsBounded
<1>3. ~(p < q)
  BY <1>2, RankGrows
<1>4. ~(q < p)
  BY <1>2, RankGrows
<1> QED BY <1>1, <1>3, <1>4

\* Ascending lists a finite set: every member once, in order.
LEMMA AscendingLists ==
  ASSUME NEW S \in SUBSET Nat, IsFiniteSet(S)
  PROVE  /\ Ascending(S) \in Seq(S)
         /\ Len(Ascending(S)) = Cardinality(S)
         /\ Ascends(Ascending(S))
         /\ Listed(Ascending(S)) = S
         /\ \A i \in 1..Cardinality(S) : Cardinality(Below(S, Ascending(S)[i])) = i - 1
<1> DEFINE A == Ascending(S)
           n == Cardinality(S)
<1>1. n \in Nat
  BY FS_CardinalityType
<1>2. ASSUME NEW i \in 1..n PROVE A[i] \in S /\ Cardinality(Below(S, A[i])) = i - 1
  BY <1>2, RanksAreReached DEF Ascending, Below
<1>3. A = [i \in 1..n |-> CHOOSE p \in S : Cardinality(Below(S, p)) = i - 1]
  BY DEF Ascending, Below
<1>4. A \in [1..n -> S]
  BY <1>2, <1>3
<1> HIDE DEF A, n
<1>5. A \in Seq(S) /\ Len(A) = n
  BY <1>1, <1>4
<1>6. Ascends(A)
  <2> SUFFICES ASSUME NEW i \in 1..n, NEW k \in 1..n, i < k PROVE A[i] < A[k]
    BY <1>5 DEF Ascends
  <2>1. A[i] \in S /\ A[k] \in S /\ Cardinality(Below(S, A[i])) = i - 1 /\ Cardinality(Below(S, A[k])) = k - 1
    BY <1>2
  <2>2. i \in Int /\ k \in Int
    BY <1>1
  <2>3. A[i] \in Nat /\ A[k] \in Nat
    BY <2>1
  <2>4. ASSUME A[k] < A[i] PROVE FALSE
    <3>1. Cardinality(Below(S, A[k])) < Cardinality(Below(S, A[i]))
      BY <2>1, <2>4, RankGrows
    <3> QED BY <2>1, <2>2, <3>1
  <2>5. A[k] # A[i]
    BY <2>1, <2>2
  <2> QED BY <2>3, <2>4, <2>5
<1>7. Listed(A) = S
  <2>1. Listed(A) \subseteq S
    BY <1>2, <1>5 DEF Listed
  <2>2. ASSUME NEW p \in S PROVE p \in Listed(A)
    <3> DEFINE i == Cardinality(Below(S, p)) + 1
    <3>1. i \in 1..n /\ Cardinality(Below(S, p)) = i - 1
      BY <1>1, RankIsBounded DEF n
    <3>2. A[i] \in S /\ Cardinality(Below(S, A[i])) = i - 1
      BY <1>2, <3>1
    <3> HIDE DEF i
    <3>3. p = A[i]
      BY <3>1, <3>2, RankIdentifies
    <3> QED BY <1>5, <3>1, <3>3 DEF Listed
  <2> QED BY <2>1, <2>2
<1> QED BY <1>2, <1>5, <1>6, <1>7 DEF A, n

\* The first i members of an ascending list are as many as their number says.
LEMMA PrefixIsCounted ==
  ASSUME NEW s \in Seq(Nat), Ascends(s), NEW n \in 0..Len(s)
  PROVE  Cardinality({s[k] : k \in 1..n}) = n
<1> DEFINE T == {s[k] : k \in 1..n}
           g == [k \in 1..n |-> s[k]]
<1>1. n \in Nat /\ Len(s) \in Nat
  OBVIOUS
<1>2. \A k \in 1..n : k \in 1..Len(s) /\ s[k] \in Nat
  OBVIOUS
<1>3. g \in [1..n -> T] /\ \A t \in T : \E k \in 1..n : g[k] = t
  OBVIOUS
<1>4. \A a, b \in 1..n : g[a] = g[b] => a = b
  <2> SUFFICES ASSUME NEW a \in 1..n, NEW b \in 1..n, s[a] = s[b] PROVE a = b
    OBVIOUS
  <2>1. s[a] \in Nat /\ a \in Int /\ b \in Int /\ a \in 1..Len(s) /\ b \in 1..Len(s)
    BY <1>2
  <2>2. ~(a < b) /\ ~(b < a)
    BY <2>1 DEF Ascends
  <2> QED BY <2>1, <2>2
<1> HIDE DEF g, T
<1>5. g \in Injection(1..n, T) /\ g \in Surjection(1..n, T)
  BY <1>3, <1>4, Fun_IsInj, Fun_IsSurj
<1>6. ExistsBijection(1..n, T)
  BY <1>5 DEF ExistsBijection, Bijection
<1> QED BY <1>1, <1>6, FS_CountingElements DEF T

\* A set has one ascending list.
LEMMA AscendingIsUnique ==
  ASSUME NEW s \in Seq(Nat), Ascends(s), IsFiniteSet(Listed(s))
  PROVE  s = Ascending(Listed(s)) /\ Len(s) = Cardinality(Listed(s))
<1> DEFINE S == Listed(s)
           A == Ascending(S)
<1>1. S \in SUBSET Nat /\ IsFiniteSet(S) /\ Len(s) \in Nat
  BY DEF Listed
<1>2. Cardinality(S) = Len(s)
  BY <1>1, PrefixIsCounted DEF Listed
<1>3. ASSUME NEW i \in 1..Len(s) PROVE s[i] \in S /\ Cardinality(Below(S, s[i])) = i - 1
  <2>1. Below(S, s[i]) = {s[k] : k \in 1..(i - 1)}
    <3>1. ASSUME NEW k \in 1..Len(s), s[k] < s[i] PROVE k \in 1..(i - 1)
      <4>1. s[k] \in Nat /\ s[i] \in Nat /\ k \in Int /\ i \in Int
        BY <1>1
      <4>2. k # i /\ ~(i < k)
        BY <3>1, <4>1 DEF Ascends
      <4> QED BY <4>1, <4>2
    <3>2. ASSUME NEW k \in 1..(i - 1) PROVE k \in 1..Len(s) /\ s[k] < s[i]
      BY <1>1 DEF Ascends
    <3> QED BY <3>1, <3>2 DEF Below, Listed
  <2>2. i - 1 \in 0..Len(s)
    BY <1>1
  <2> QED BY <2>1, <2>2, PrefixIsCounted DEF Listed
<1>4. A \in Seq(S) /\ Len(A) = Len(s) /\ \A i \in 1..Len(s) : Cardinality(Below(S, A[i])) = i - 1
  BY <1>1, <1>2, AscendingLists
<1>5. ASSUME NEW i \in 1..Len(s) PROVE s[i] = A[i]
  <2> DEFINE p == s[i]
             q == A[i]
  <2>1. q \in S
    BY <1>4
  <2>2. p \in S /\ Cardinality(Below(S, p)) = Cardinality(Below(S, q))
    BY <1>3, <1>4
  <2> HIDE DEF S, A, p, q
  <2>3. p = q
    BY <1>1, <2>1, <2>2, RankIdentifies
  <2> QED BY <2>3 DEF p, q
<1>6. A \in Seq(Nat)
  BY <1>1, <1>4, SeqMonotonic
<1> HIDE DEF A, S
<1>7. s = A
  BY <1>4, <1>5, <1>6, SeqEqual
<1> QED BY <1>2, <1>7 DEF A, S

\* Two ascending lists, the first all below the second, join to one.
LEMMA JoinedLists ==
  ASSUME NEW s \in Seq(Nat), NEW t \in Seq(Nat), Ascends(s), Ascends(t),
         \A p \in Listed(s), q \in Listed(t) : p < q
  PROVE  /\ s \o t \in Seq(Nat)
         /\ Ascends(s \o t)
         /\ Listed(s \o t) = Listed(s) \cup Listed(t)
<1>1. /\ Len(s) \in Nat /\ Len(t) \in Nat
      /\ s \o t \in Seq(Nat)
      /\ Len(s \o t) = Len(s) + Len(t)
      /\ \A i \in 1..(Len(s) + Len(t)) : (s \o t)[i] = IF i <= Len(s) THEN s[i] ELSE t[i - Len(s)]
  BY ConcatProperties
<1>2. ASSUME NEW i \in 1..(Len(s) + Len(t)), NEW k \in 1..(Len(s) + Len(t)), i < k
      PROVE  (s \o t)[i] < (s \o t)[k]
  <2>1. CASE k <= Len(s)
    BY <1>1, <1>2, <2>1 DEF Ascends
  <2>2. CASE i > Len(s)
    <3>1. i - Len(s) \in 1..Len(t) /\ k - Len(s) \in 1..Len(t) /\ i - Len(s) < k - Len(s)
      BY <1>1, <1>2, <2>2
    <3>2. t[i - Len(s)] < t[k - Len(s)]
      BY <3>1 DEF Ascends
    <3>3. (s \o t)[i] = t[i - Len(s)] /\ (s \o t)[k] = t[k - Len(s)]
      BY <1>1, <1>2, <2>2
    <3> QED BY <3>2, <3>3
  <2>3. CASE i <= Len(s) /\ k > Len(s)
    <3>1. i \in 1..Len(s) /\ k - Len(s) \in 1..Len(t)
      BY <1>1, <2>3
    <3> QED BY <1>1, <2>3, <3>1 DEF Listed
  <2> QED BY <1>1, <2>1, <2>2, <2>3
<1>3. Listed(s \o t) = Listed(s) \cup Listed(t)
  <2>1. ASSUME NEW i \in 1..(Len(s) + Len(t)) PROVE (s \o t)[i] \in Listed(s) \cup Listed(t)
    <3>1. CASE i <= Len(s)
      BY <1>1, <3>1 DEF Listed
    <3>2. CASE i > Len(s)
      <4>1. i - Len(s) \in 1..Len(t)
        BY <1>1, <3>2
      <4> QED BY <1>1, <3>2, <4>1 DEF Listed
    <3> QED BY <1>1, <3>1, <3>2
  <2>2. ASSUME NEW i \in 1..Len(s) PROVE i \in 1..(Len(s) + Len(t)) /\ (s \o t)[i] = s[i]
    BY <1>1
  <2>3. ASSUME NEW i \in 1..Len(t) PROVE i + Len(s) \in 1..(Len(s) + Len(t)) /\ (s \o t)[i + Len(s)] = t[i]
    BY <1>1
  <2>4. \A p \in Listed(s) : p \in Listed(s \o t)
    BY <1>1, <2>2 DEF Listed
  <2>5. \A p \in Listed(t) : p \in Listed(s \o t)
    BY <1>1, <2>3 DEF Listed
  <2>6. \A p \in Listed(s \o t) : p \in Listed(s) \cup Listed(t)
    <3> SUFFICES ASSUME NEW p \in Listed(s \o t) PROVE p \in Listed(s) \cup Listed(t)
      OBVIOUS
    <3>1. PICK i \in 1..(Len(s) + Len(t)) : p = (s \o t)[i]
      BY <1>1 DEF Listed
    <3> QED BY <2>1, <3>1
  <2> QED BY <2>4, <2>5, <2>6
<1> QED BY <1>1, <1>2, <1>3 DEF Ascends

\* A page is a part of what there is, its ids come before the others, and it
\* is empty only when there is nothing.
LEMMA PageComesFirst ==
  ASSUME NEW S \in SUBSET Nat, IsFiniteSet(S)
  PROVE  /\ FirstOf(S, PageSize) \in SUBSET S
         /\ \A p \in FirstOf(S, PageSize), q \in S \ FirstOf(S, PageSize) : p < q
<1>1. FirstOf(S, PageSize) = {p \in S : Cardinality(Below(S, p)) < PageSize}
  BY DEF FirstOf, Below
<1>2. ASSUME NEW p \in S, NEW q \in S, Cardinality(Below(S, p)) < PageSize, ~(Cardinality(Below(S, q)) < PageSize)
      PROVE  p < q
  <2>1. p \in Nat /\ q \in Nat /\ PageSize \in Nat
    BY PageAssumption
  <2>2. Cardinality(Below(S, p)) \in Nat /\ Cardinality(Below(S, q)) \in Nat
    BY RankIsBounded
  <2>3. ~(q < p)
    BY <1>2, <2>1, <2>2, RankGrows
  <2>4. p # q
    BY <1>2
  <2> QED BY <2>1, <2>3, <2>4
<1> QED BY <1>1, <1>2

-----------------------------------------------------------------------------
(* The inductive invariant *)

Trailers == [point_count : Nat, completeness : {"none", "complete", "incomplete"}, content_hash : Seq(Points)]
Files == [header : BOOLEAN, body : Seq(Points), trailer : Trailers, torn : BOOLEAN]

\* The target and what is recorded of it since the pass began
TargetInv ==
  /\ points \in SUBSET Points
  /\ steady \in SUBSET points
  /\ everHeld \in SUBSET Points
  /\ points \subseteq everHeld
  /\ quiet \in BOOLEAN
  /\ quiet => steady = points /\ everHeld = points

\* The types of the pass, and that it yields ascending ids
PassInv ==
  /\ target \in {"qdrant", "pgvector"}
  /\ strict \in BOOLEAN
  /\ compositeKey \in BOOLEAN
  /\ checkpoint \in Points \cup {0}
  /\ offset \in Nat
  /\ txView \in SUBSET Points
  /\ cursor \in SUBSET Points
  /\ yielded \in Seq(Points)
  /\ Ascends(yielded)
  /\ completeness \in {"none", "complete", "incomplete"}
  /\ pc = "done" => completeness # "none"

\* A Qdrant pass has dealt with the ids before its offset: it has yielded
\* those that were there throughout, and only ids that were there once
QdrantInv ==
  target = "qdrant" =>
    /\ pc \in {"inspect", "scroll", "probe", "done", "raised"}
    /\ pc = "inspect" => yielded = <<>>
    /\ pc = "scroll" =>
         /\ checkpoint <= offset
         /\ \A p \in Listed(yielded) : p < offset
         /\ \A p \in steady : checkpoint <= p /\ p < offset => p \in Listed(yielded)
    /\ pc \in {"probe", "done"} => \A p \in steady : checkpoint <= p => p \in Listed(yielded)
    /\ pc \in {"scroll", "probe", "done"} =>
         /\ Listed(yielded) \subseteq everHeld
         /\ quiet => start_count \in {Cardinality(points), NoCount}
    /\ pc = "done" /\ quiet => completeness = "complete"

\* A pgvector pass has yielded the ids its cursor does not hold any more: the
\* two together are what the cursor was opened over, one state of the table
\* when the pass is strict
PgvectorInv ==
  target = "pgvector" =>
    /\ pc \in {"count", "declare", "fetch", "finish", "done", "raised", "rejected"}
    /\ pc \in {"count", "declare"} => yielded = <<>>
    /\ pc \in {"finish", "done"} => cursor = {}
    /\ pc \in {"fetch", "finish", "done"} =>
         /\ \A p \in Listed(yielded), q \in cursor : p < q
         /\ \A p \in steady : p > checkpoint => p \in Listed(yielded) \cup cursor
         /\ Listed(yielded) \cup cursor \subseteq everHeld
         /\ strict => Listed(yielded) \cup cursor = {p \in txView : p > checkpoint}
    /\ pc \in {"declare", "fetch", "finish", "done"} =>
         /\ strict => steady \subseteq txView /\ txView \subseteq everHeld /\ start_count = Cardinality(txView)
         /\ quiet => start_count = Cardinality(points)
    /\ pc = "done" /\ strict => end_count = start_count
    /\ pc = "done" /\ quiet => completeness = "complete"

\* An open file has the lines yielded so far; a trailer is the last finished
\* pass's, whatever became of the lines since
FileInv ==
  /\ writer \in {"before", "open", "sealed", "over"}
  /\ out \in Files
  /\ captured \in [points : Seq(Points), completeness : {"none", "complete", "incomplete"}]
  /\ Ascends(captured.points)
  /\ writer = "before" => yielded = <<>>
  /\ writer = "open" => out = WithPoints(HeaderOnly, yielded)
  /\ writer = "sealed" =>
       /\ pc = "done"
       /\ out = WithTrailer(WithPoints(HeaderOnly, yielded), completeness)
  /\ out.trailer # NoTrailer =>
       out.trailer.content_hash = captured.points /\ out.trailer.completeness = captured.completeness

\* A completed row names a file that is accepted and agrees with it
RowInv ==
  row.status # "running" =>
    /\ accepts(row.artifact)
    /\ row.content_hash = row.artifact.body
    /\ row.point_count = Len(row.artifact.body)
    /\ (row.status = "completed") = (row.artifact.trailer.completeness = "complete")

\* A capture that resumes does so from the sidecar it found, and every point
\* before that one and held since the chain of captures began is in a file
ChainInv ==
  /\ sidecar \in Points \cup {0}
  /\ since \subseteq steady
  /\ writer # "over" /\ checkpoint # 0 => checkpoint = sidecar
  /\ ResumeSkipsNothing

CaptureInv == TargetInv /\ PassInv /\ QdrantInv /\ PgvectorInv /\ FileInv /\ RowInv /\ ChainInv
-----------------------------------------------------------------------------
(* Facts every step uses *)

\* The sets a pass handles are finite sets of ids, and its lists are lists of
\* numbers.
LEMMA FiniteIds == ASSUME NEW S \in SUBSET Points PROVE S \in SUBSET Nat /\ IsFiniteSet(S) /\ \A p \in S : p \in Nat /\ p > 0
<1>1. IsFiniteSet(S)
  BY PointsAssumption, FS_Subset
<1> QED BY <1>1, PointsAssumption

\* What a list of ids lists is a finite set of ids
LEMMA ListsOfIds ==
  ASSUME NEW s \in Seq(Points)
  PROVE  s \in Seq(Nat) /\ Listed(s) \in SUBSET Points /\ IsFiniteSet(Listed(s))
<1>1. Points \subseteq Nat
  BY PointsAssumption
<1>2. Listed(s) \in SUBSET Points
  BY DEF Listed
<1> QED BY <1>1, <1>2, FiniteIds, SeqMonotonic

\* The empty list lists nothing.
LEMMA EmptyList == <<>> \in Seq(Points) /\ Listed(<<>>) = {} /\ Ascends(<<>>)
<1>1. <<>> \in Seq(Points) /\ Len(<<>>) = 0
  BY EmptySeq
<1> QED BY <1>1 DEF Listed, Ascends

\* A pass whose list is an ascending list of a set is that set's list.
LEMMA ListOfSet ==
  ASSUME NEW s \in Seq(Points), Ascends(s), NEW S, Listed(s) = S
  PROVE  s = Ascending(S) /\ Len(s) = Cardinality(S)
BY ListsOfIds, AscendingIsUnique

\* A page joins the list of a pass: every id on the page is past the list.
LEMMA PageJoins ==
  ASSUME NEW s \in Seq(Points), Ascends(s), NEW S \in SUBSET Points,
         \A p \in Listed(s), q \in S : p < q
  PROVE  LET page == FirstOf(S, PageSize)
             t == s \o Ascending(page)
         IN  /\ page \in SUBSET S
             /\ \A p \in page, q \in S \ page : p < q
             /\ t \in Seq(Points)
             /\ Ascends(t)
             /\ Listed(t) = Listed(s) \cup page
<1> DEFINE page == FirstOf(S, PageSize)
           A == Ascending(page)
<1>1. S \in SUBSET Nat /\ IsFiniteSet(S)
  BY FiniteIds
<1>2. page \in SUBSET S /\ \A p \in page, q \in S \ page : p < q
  BY <1>1, PageComesFirst
<1>3. page \in SUBSET Points /\ page \in SUBSET Nat /\ IsFiniteSet(page)
  BY <1>1, <1>2, FS_Subset
<1>4. A \in Seq(page) /\ Ascends(A) /\ Listed(A) = page
  <2> HIDE DEF page
  <2> QED BY <1>3, AscendingLists
<1>5. A \in Seq(Points)
  <2> HIDE DEF page, A
  <2> QED BY <1>3, <1>4, SeqMonotonic
<1>6. s \in Seq(Nat) /\ A \in Seq(Nat)
  BY <1>5, ListsOfIds
<1>7. s \o A \in Seq(Points)
  BY <1>5, ConcatProperties
<1> HIDE DEF page, A
<1>8. Ascends(s \o A) /\ Listed(s \o A) = Listed(s) \cup page
  BY <1>2, <1>4, <1>6, JoinedLists
<1> QED BY <1>2, <1>7, <1>8 DEF page, A
\* No file, and a file that was just opened, have no trailer.
LEMMA FreshFiles ==
  /\ NoTrailer \in Trailers
  /\ HeaderOnly \in Files /\ HeaderOnly.header /\ ~HeaderOnly.torn /\ HeaderOnly.trailer = NoTrailer
  /\ NoFile \in Files /\ NoFile.trailer = NoTrailer
  /\ HeaderOnly = WithPoints(HeaderOnly, <<>>)
<1>1. NoTrailer \in Trailers
  BY EmptyList DEF NoTrailer, Trailers
<1>2. HeaderOnly \in Files /\ HeaderOnly.header /\ ~HeaderOnly.torn /\ HeaderOnly.trailer = NoTrailer /\ HeaderOnly.body = <<>>
  BY <1>1, EmptyList DEF HeaderOnly, Files
<1>3. \A f \in Files : [f EXCEPT !.header = FALSE] \in Files /\ [f EXCEPT !.header = FALSE].trailer = f.trailer
  BY DEF Files
<1>4. \A f \in Files : f = [f EXCEPT !.body = f.body]
  BY DEF Files
<1> QED BY <1>1, <1>2, <1>3, <1>4 DEF NoFile, WithPoints

\* Writing points to a file leaves the rest of it; the trailer counts and
\* hashes the lines it follows.
LEMMA WrittenFiles ==
  ASSUME NEW f \in Files, NEW s \in Seq(Points)
  PROVE  /\ WithPoints(f, s) \in Files
         /\ WithPoints(f, s).header = f.header /\ WithPoints(f, s).torn = f.torn
         /\ WithPoints(f, s).body = s /\ WithPoints(f, s).trailer = f.trailer
         /\ \A t \in Seq(Points) : WithPoints(WithPoints(f, s), t) = WithPoints(f, t)
<1>1. \A t \in Seq(Points) : [[f EXCEPT !.body = s] EXCEPT !.body = t] = [f EXCEPT !.body = t]
  BY DEF Files
<1> QED BY <1>1 DEF Files, WithPoints

\* A trailer adds the count and the hash of the lines and changes none of them
LEMMA SealedFiles ==
  ASSUME NEW f \in Files, NEW c \in {"complete", "incomplete"}
  PROVE  LET g == WithTrailer(f, c)
         IN  /\ g \in Files
             /\ g.header = f.header /\ g.torn = f.torn /\ g.body = f.body
             /\ g.trailer = [point_count |-> Len(f.body), completeness |-> c, content_hash |-> f.body]
             /\ g.trailer # NoTrailer
<1> DEFINE t == [point_count |-> Len(f.body), completeness |-> c, content_hash |-> f.body]
<1>1. f.body \in Seq(Points) /\ Len(f.body) \in Nat
  BY DEF Files
<1>2. t \in Trailers
  BY <1>1 DEF Trailers
<1>3. t # NoTrailer
  <2>1. t.completeness = c /\ NoTrailer.completeness = "none"
    BY DEF NoTrailer
  <2> QED BY <2>1
<1> HIDE DEF t
<1>4. [f EXCEPT !.trailer = t] \in Files /\ [f EXCEPT !.trailer = t].trailer = t
  BY <1>2 DEF Files
<1>5. [f EXCEPT !.trailer = t].header = f.header /\ [f EXCEPT !.trailer = t].torn = f.torn /\ [f EXCEPT !.trailer = t].body = f.body
  BY DEF Files
<1> QED BY <1>3, <1>4, <1>5 DEF WithTrailer, t

\* What remains of a file has no trailer.
LEMMA RemainingFiles == ASSUME NEW f \in Files, NEW g \in Remains(f) PROVE g \in Files /\ g.trailer = NoTrailer
<1>1. CASE g = NoFile
  BY <1>1, FreshFiles
<1>2. CASE g # NoFile
  <2>1. PICK n \in 0..Len(f.body), t \in BOOLEAN : g = Cut(f, n, t)
    BY <1>2 DEF Remains
  <2>2. f.body \in Seq(Points)
    BY DEF Files
  <2>3. SubSeq(f.body, 1, n) \in Seq(Points)
    <3>1. \A i \in 1..n : f.body[i] \in Points
      BY <2>2
    <3> QED BY <2>2, <3>1, SubSeqProperties
  <2>4. \A s \in Seq(Points) : LET h == [f EXCEPT !.body = s, !.torn = t, !.trailer = NoTrailer] IN h \in Files /\ h.trailer = NoTrailer
    BY FreshFiles DEF Files
  <2> QED BY <2>1, <2>3, <2>4 DEF Cut
<1> QED BY <1>1, <1>2

-----------------------------------------------------------------------------
(* The invariant holds at first and every step keeps it *)

\* Nothing is captured yet.
LEMMA CaptureStarts == ASSUME SnapshotInit PROVE CaptureInv
<1>1. TargetInv
  BY DEF SnapshotInit, Init, P!Init, TargetInit, P!TargetInit, TargetInv
<1>2. PassInv
  <2>1. strict \in BOOLEAN /\ compositeKey \in BOOLEAN
    BY Zenon DEF SnapshotInit, P!Init
  <2>2. checkpoint = 0 /\ offset = 0 /\ txView = {} /\ cursor = {} /\ yielded = <<>> /\ completeness = "none" /\ pc # "done"
    BY DEF SnapshotInit, Init, P!Init, NoPoint, P!NoPoint
  <2>3. target \in {"qdrant", "pgvector"}
    BY DEF SnapshotInit, CaptureInit
  <2> QED BY <2>1, <2>2, <2>3, EmptyList DEF PassInv
<1>3. QdrantInv
  BY DEF SnapshotInit, CaptureInit, Init, P!Init, QdrantInv
<1>4. PgvectorInv
  BY DEF SnapshotInit, CaptureInit, Init, P!Init, PgvectorInv
<1>5. FileInv
  BY EmptyList, FreshFiles DEF SnapshotInit, CaptureInit, Init, P!Init, FileInv, NoPass
<1>6. RowInv
  BY DEF SnapshotInit, CaptureInit, RowInv, NewRow
<1>7. ChainInv
  BY DEF SnapshotInit, CaptureInit, Init, P!Init, ChainInv, ResumeSkipsNothing, NoPoint, P!NoPoint
<1> QED BY <1>1, <1>2, <1>3, <1>4, <1>5, <1>6, <1>7 DEF CaptureInv

\* The target changes: a point that was there throughout may leave, a point
\* that was there once stays recorded, and the pass is not quiet any more.
LEMMA TargetStep == ASSUME CaptureInv, TargetChanges PROVE CaptureInv'
<1> USE DEF CaptureInv
<1>1. /\ points' \in SUBSET Points
      /\ steady' \in SUBSET points'
      /\ steady' \subseteq steady
      /\ everHeld \subseteq everHeld'
      /\ everHeld' \in SUBSET Points
      /\ points' \subseteq everHeld'
      /\ quiet' = FALSE
      /\ since' \subseteq since
      /\ since' \subseteq steady'
  <2> PICK p \in Points : Insert(p) \/ Delete(p)
    BY DEF TargetChanges, Mutate
  <2>1. CASE Insert(p)
    BY <2>1 DEF Insert, TargetChanges, TargetInv, ChainInv
  <2>2. CASE Delete(p)
    BY <2>2 DEF Delete, TargetChanges, TargetInv, ChainInv
  <2> QED BY <2>1, <2>2
<1>2. UNCHANGED <<pc, attempt, checkpoint, offset, yielded, start_count, end_count, completeness, passes>>
  BY DEF TargetChanges, passVars, scanVars
<1>3. UNCHANGED <<strict, compositeKey, txView, cursor>>
  BY DEF TargetChanges, passVars, pgvectorVars
<1>4. UNCHANGED <<target, via, connector, writer, out, sidecar, row, damage, captured, delivered>>
  BY DEF TargetChanges
<1>5. TargetInv'
  BY <1>1 DEF TargetInv
<1>6. PassInv'
  BY <1>2, <1>3, <1>4 DEF PassInv
<1>7. QdrantInv'
  BY <1>1, <1>2, <1>4 DEF QdrantInv
<1>8. PgvectorInv'
  <2>1. pc \in {"declare", "fetch", "finish", "done"} /\ strict /\ target = "pgvector" =>
          steady' \subseteq txView /\ txView \subseteq everHeld'
    BY <1>1 DEF PgvectorInv
  <2> QED BY <1>1, <1>2, <1>3, <1>4, <2>1 DEF PgvectorInv
<1>9. FileInv'
  BY <1>2, <1>4 DEF FileInv
<1>10. RowInv'
  BY <1>4 DEF RowInv
<1>11. ChainInv'
  BY <1>1, <1>2, <1>4 DEF ChainInv, ResumeSkipsNothing
<1> QED BY <1>5, <1>6, <1>7, <1>8, <1>9, <1>10, <1>11
\* One scroll request: the ids before the new offset are dealt with.
LEMMA ScrollStep ==
  ASSUME CaptureInv, target = "qdrant", scroll, UNCHANGED <<target, pgvectorVars>>
  PROVE  TargetInv' /\ PassInv' /\ QdrantInv' /\ PgvectorInv'
<1> USE DEF CaptureInv
<1> DEFINE S == From(offset)
           page == FirstOf(S, PageSize)
           rest == S \ page
           t == yielded \o Ascending(page)
<1>1. pc = "scroll" /\ yielded' = t /\ UNCHANGED <<checkpoint, start_count, end_count, completeness, passes>>
  BY DEF scroll
<1>2. UNCHANGED <<points, mutations, steady, everHeld, quiet>>
  BY DEF scroll, targetVars
<1>3. S \in SUBSET points /\ S \in SUBSET Points /\ \A p \in S : p >= offset
  BY DEF From, TargetInv
<1>4. yielded \in Seq(Points) /\ Ascends(yielded) /\ offset \in Nat /\ checkpoint \in Nat
  BY PointsAssumption DEF PassInv
<1>5. Listed(yielded) \in SUBSET Points /\ \A p \in Listed(yielded) : p \in Nat /\ p < offset
  BY <1>1, <1>4, ListsOfIds, FiniteIds DEF QdrantInv
<1>6. \A p \in S : p \in Nat
  BY <1>3, FiniteIds
<1>7. \A p \in Listed(yielded), q \in S : p < q
  BY <1>3, <1>4, <1>5, <1>6
<1>8. /\ page \in SUBSET S
      /\ \A p \in page, q \in rest : p < q
      /\ t \in Seq(Points)
      /\ Ascends(t)
      /\ Listed(t) = Listed(yielded) \cup page
  <2> HIDE DEF S
  <2> QED BY <1>3, <1>4, <1>7, PageJoins
<1>9. (rest # {} /\ (\E p \in rest : (\A q \in rest : p <= q) /\ offset' = p) /\ pc' = "scroll")
        \/ (rest = {} /\ pc' = "probe" /\ offset' = offset)
  BY <1>1 DEF scroll
<1>10. UNCHANGED <<strict, compositeKey, txView, cursor>>
  BY DEF pgvectorVars
<1>11. \A p \in steady : p >= offset => p \in S
  BY DEF From, TargetInv
<1>12. \A p \in steady : p \in Nat
  BY FiniteIds DEF TargetInv
<1>13. \A p \in steady : checkpoint <= p /\ p < offset => p \in Listed(yielded)
  BY <1>1 DEF QdrantInv
<1>14. Listed(t) \subseteq everHeld'
  BY <1>1, <1>2, <1>3, <1>8 DEF QdrantInv, TargetInv
<1> HIDE DEF S, page, rest, t
<1>15. TargetInv'
  BY <1>2 DEF TargetInv
<1>16. CASE rest # {}
  <2>1. pc' = "scroll"
    BY <1>9, <1>16
  <2>2. PICK o \in rest : offset' = o /\ \A q \in rest : o <= q
    BY <1>9, <1>16
  <2>3. o \in S /\ o \in Nat /\ offset <= o
    BY <1>3, <1>4, <1>6, <2>2 DEF rest
  <2>4. PassInv'
    BY <1>1, <1>8, <1>10, <2>1, <2>2, <2>3 DEF PassInv
  <2>5. \A p \in Listed(t) : p < o
    <3>1. \A p \in Listed(yielded) : p < o
      BY <1>7, <2>3
    <3>2. \A p \in page : p < o
      BY <1>8, <2>2
    <3> QED BY <1>8, <3>1, <3>2
  <2>6. ASSUME NEW p \in steady, checkpoint <= p, p < o PROVE p \in Listed(t)
    <3>1. CASE p < offset
      BY <1>8, <1>13, <2>6, <3>1
    <3>2. CASE p >= offset
      <4>1. p \in S /\ p \notin rest
        BY <1>11, <1>12, <2>2, <2>3, <2>6, <3>2
      <4> QED BY <1>8, <4>1 DEF rest
    <3> QED BY <1>4, <1>12, <3>1, <3>2
  <2>7. checkpoint <= o
    BY <1>1, <1>4, <2>3 DEF QdrantInv
  <2>8. QdrantInv'
    BY <1>1, <1>2, <1>14, <2>1, <2>2, <2>5, <2>6, <2>7 DEF QdrantInv, NoCount
  <2>9. PgvectorInv'
    BY DEF PgvectorInv
  <2> QED BY <1>15, <2>4, <2>8, <2>9
<1>17. CASE rest = {}
  <2>1. pc' = "probe" /\ offset' = offset
    BY <1>9, <1>17
  <2>2. PassInv'
    BY <1>1, <1>4, <1>8, <1>10, <2>1 DEF PassInv
  <2>3. ASSUME NEW p \in steady, checkpoint <= p PROVE p \in Listed(t)
    <3>1. CASE p < offset
      BY <1>8, <1>13, <2>3, <3>1
    <3>2. CASE p >= offset
      <4>1. p \in S
        BY <1>11, <3>2
      <4> QED BY <1>8, <1>17, <4>1 DEF rest
    <3> QED BY <1>4, <1>12, <3>1, <3>2
  <2>4. QdrantInv'
    BY <1>1, <1>2, <1>14, <2>1, <2>3 DEF QdrantInv, NoCount
  <2>5. PgvectorInv'
    BY DEF PgvectorInv
  <2> QED BY <1>15, <2>2, <2>4, <2>5
<1> QED BY <1>16, <1>17

\* The other steps of a Qdrant pass: it begins, a request is tried again,
\* the count is probed.
LEMMA QdrantStep ==
  ASSUME CaptureInv, target = "qdrant", iterate_points \/ RetryRequest, UNCHANGED <<target, pgvectorVars>>
  PROVE  /\ TargetInv' /\ PassInv' /\ QdrantInv' /\ PgvectorInv'
         /\ since \subseteq steady'
         /\ checkpoint' = checkpoint
         /\ pc = "inspect" => yielded' = yielded
<1> USE DEF CaptureInv
<1>1. UNCHANGED <<strict, compositeKey, txView, cursor>>
  BY DEF pgvectorVars
<1>2. since \subseteq steady /\ since \subseteq points
  BY DEF ChainInv, TargetInv
<1>3. CASE inspect_target_schema
  <2>1. /\ pc = "inspect" /\ pc' = "scroll" /\ offset' = checkpoint
        /\ start_count' \in {Cardinality(points), NoCount}
        /\ UNCHANGED <<checkpoint, yielded, end_count, completeness, passes>>
    BY <1>3 DEF inspect_target_schema
  <2>2. steady' = points /\ everHeld' = points /\ quiet' = TRUE /\ points' = points
    BY <1>3 DEF inspect_target_schema, WatchFromHere
  <2>3. TargetInv'
    BY <2>2 DEF TargetInv
  <2>4. checkpoint \in Nat
    BY PointsAssumption DEF PassInv
  <2>5. PassInv'
    BY <1>1, <2>1, <2>4 DEF PassInv
  <2>6. yielded' = <<>> /\ Listed(yielded') = {}
    BY <2>1, EmptyList DEF QdrantInv
  <2>7. \A p \in points : p \in Nat
    BY FiniteIds DEF TargetInv
  <2>8. QdrantInv'
    BY <2>1, <2>2, <2>4, <2>6, <2>7 DEF QdrantInv, NoCount
  <2>9. PgvectorInv'
    BY DEF PgvectorInv
  <2> QED BY <1>2, <2>1, <2>2, <2>3, <2>5, <2>8, <2>9
<1>4. CASE scroll
  BY <1>2, <1>4, ScrollStep DEF scroll, targetVars
<1>5. CASE probe
  <2>1. /\ pc = "probe" /\ pc' = "done"
        /\ \E n \in {Cardinality(points), NoCount} : completeness' = Judge(n)
        /\ UNCHANGED <<checkpoint, offset, yielded, start_count, passes>>
        /\ UNCHANGED <<points, mutations, steady, everHeld, quiet>>
    BY <1>5 DEF probe, targetVars
  <2>2. TargetInv'
    BY <2>1 DEF TargetInv
  <2>3. completeness' \in {"complete", "incomplete"}
    BY <2>1 DEF Judge
  <2>4. PassInv'
    BY <1>1, <2>1, <2>3 DEF PassInv
  <2>5. quiet => completeness' = "complete"
    BY <2>1 DEF Judge, QdrantInv
  <2>6. QdrantInv'
    BY <2>1, <2>5 DEF QdrantInv, NoCount
  <2>7. PgvectorInv'
    BY DEF PgvectorInv
  <2> QED BY <1>2, <2>1, <2>2, <2>4, <2>6, <2>7
<1>6. CASE RetryRequest
  <2>1. /\ UNCHANGED <<pc, checkpoint, offset, yielded, start_count, end_count, completeness, passes>>
        /\ UNCHANGED <<points, mutations, steady, everHeld, quiet>>
    BY <1>6 DEF RetryRequest, targetVars
  <2>2. TargetInv' /\ PassInv' /\ QdrantInv' /\ PgvectorInv'
    BY <1>1, <2>1 DEF TargetInv, PassInv, QdrantInv, PgvectorInv, NoCount
  <2> QED BY <1>2, <2>1, <2>2
<1> QED BY <1>3, <1>4, <1>5, <1>6 DEF iterate_points
\* Both scans count and order ids alike.
LEMMA SameCount == \A S : P!Cardinality(S) = Cardinality(S)
BY DEF P!Cardinality, Cardinality

\* Both connectors order and cut pages the same way
LEMMA SameOrder == \A S : P!Ascending(S) = Ascending(S) /\ P!FirstOf(S, PageSize) = FirstOf(S, PageSize)
<1>1. \A S : P!Ascending(S) = Ascending(S)
  BY DEF P!Ascending, Ascending, P!Cardinality, Cardinality
<1>2. \A S : P!FirstOf(S, PageSize) = FirstOf(S, PageSize)
  BY SameCount DEF P!FirstOf, FirstOf
<1> QED BY <1>1, <1>2

\* One batch of the cursor: its rows move from the cursor to the list.
LEMMA FetchStep ==
  ASSUME CaptureInv, target = "pgvector", P!fetchmany, UNCHANGED <<target, qdrantVars>>
  PROVE  TargetInv' /\ PassInv' /\ QdrantInv' /\ PgvectorInv'
<1> USE DEF CaptureInv
<1> DEFINE page == FirstOf(cursor, PageSize)
           t == yielded \o Ascending(page)
<1>1. /\ pc = "fetch"
      /\ UNCHANGED <<strict, compositeKey, checkpoint, txView, start_count, end_count, completeness, passes>>
      /\ UNCHANGED <<points, mutations, steady, everHeld, quiet>>
  BY DEF P!fetchmany, P!config, P!targetVars
<1>2. \/ cursor # {} /\ yielded' = t /\ cursor' = cursor \ page /\ pc' = "fetch"
      \/ cursor = {} /\ pc' = "finish" /\ yielded' = yielded /\ cursor' = cursor
  BY <1>1, SameOrder DEF P!fetchmany
<1>3. attempt' = attempt /\ offset' = offset
  BY DEF qdrantVars
<1>4. yielded \in Seq(Points) /\ Ascends(yielded) /\ cursor \in SUBSET Points
  BY DEF PassInv
<1>5. \A p \in Listed(yielded), q \in cursor : p < q
  BY <1>1 DEF PgvectorInv
<1>6. /\ page \in SUBSET cursor
      /\ \A p \in page, q \in cursor \ page : p < q
      /\ t \in Seq(Points)
      /\ Ascends(t)
      /\ Listed(t) = Listed(yielded) \cup page
  BY <1>4, <1>5, PageJoins
<1> HIDE DEF page, t
<1>7. TargetInv'
  BY <1>1 DEF TargetInv
<1>8. QdrantInv'
  BY DEF QdrantInv
<1>9. CASE yielded' = t /\ cursor' = cursor \ page /\ pc' = "fetch"
  <2>1. PassInv'
    BY <1>1, <1>3, <1>6, <1>9 DEF PassInv
  <2>2. Listed(t) \cup (cursor \ page) = Listed(yielded) \cup cursor
    BY <1>6
  <2>3. \A p \in Listed(t), q \in cursor \ page : p < q
    BY <1>5, <1>6
  <2>4. PgvectorInv'
    BY <1>1, <1>9, <2>2, <2>3 DEF PgvectorInv
  <2> QED BY <1>7, <1>8, <2>1, <2>4
<1>10. CASE cursor = {} /\ pc' = "finish" /\ yielded' = yielded /\ cursor' = cursor
  <2>1. PassInv'
    BY <1>1, <1>3, <1>10 DEF PassInv
  <2>2. PgvectorInv'
    BY <1>1, <1>10 DEF PgvectorInv
  <2> QED BY <1>7, <1>8, <2>1, <2>2
<1> QED BY <1>2, <1>9, <1>10

\* The other steps of a pgvector pass: the rows are counted, the cursor is
\* opened, the rows are counted again.
LEMMA PgvectorStep ==
  ASSUME CaptureInv, target = "pgvector", P!iterate_points, UNCHANGED <<target, qdrantVars>>
  PROVE  /\ TargetInv' /\ PassInv' /\ QdrantInv' /\ PgvectorInv'
         /\ since \subseteq steady'
         /\ checkpoint' = checkpoint
<1> USE DEF CaptureInv
<1>1. attempt' = attempt /\ offset' = offset
  BY DEF qdrantVars
<1>2. since \subseteq steady /\ since \subseteq points
  BY DEF ChainInv, TargetInv
<1>3. QdrantInv'
  BY DEF QdrantInv
<1>4. CASE P!count_rows
  <2>1. /\ pc = "count" /\ pc' = "declare"
        /\ start_count' = Cardinality(points)
        /\ txView' = IF strict THEN points ELSE {}
        /\ UNCHANGED <<strict, compositeKey, checkpoint, cursor, yielded, end_count, completeness, passes>>
    BY <1>4, SameCount DEF P!count_rows, P!config
  <2>2. steady' = points /\ everHeld' = points /\ quiet' = TRUE /\ points' = points
    BY <1>4 DEF P!count_rows, P!WatchFromHere
  <2>3. TargetInv'
    BY <2>2 DEF TargetInv
  <2>4. txView' \in SUBSET Points
    BY <2>1 DEF TargetInv
  <2>5. PassInv'
    BY <1>1, <2>1, <2>4 DEF PassInv
  <2>6. PgvectorInv'
    BY <2>1, <2>2 DEF PgvectorInv
  <2> QED BY <1>2, <1>3, <2>1, <2>2, <2>3, <2>5, <2>6
<1>5. CASE P!declare_cursor
  <2>1. /\ pc = "declare" /\ pc' = "fetch"
        /\ cursor' = {p \in (IF strict THEN txView ELSE points) : p > checkpoint}
        /\ UNCHANGED <<strict, compositeKey, checkpoint, txView, yielded, start_count, end_count, completeness, passes>>
        /\ UNCHANGED <<points, mutations, steady, everHeld, quiet>>
    BY <1>5 DEF P!declare_cursor, P!Visible, P!config, P!targetVars
  <2>2. TargetInv'
    BY <2>1 DEF TargetInv
  <2>3. cursor' \in SUBSET Points
    BY <2>1 DEF PassInv, TargetInv
  <2>4. PassInv'
    BY <1>1, <2>1, <2>3 DEF PassInv
  <2>5. yielded' = <<>> /\ Listed(yielded') = {}
    BY <2>1, EmptyList DEF PgvectorInv
  <2>6. (strict => steady \subseteq txView /\ txView \subseteq everHeld) /\ steady \subseteq points /\ points \subseteq everHeld
    BY <2>1 DEF PgvectorInv, TargetInv
  <2>7. \A p \in steady : p > checkpoint => p \in cursor'
    BY <2>1, <2>6
  <2>8. cursor' \subseteq everHeld /\ (strict => cursor' = {p \in txView : p > checkpoint})
    BY <2>1, <2>6
  <2>9. PgvectorInv'
    BY <2>1, <2>5, <2>7, <2>8 DEF PgvectorInv
  <2> QED BY <1>2, <1>3, <2>1, <2>2, <2>4, <2>9
<1>6. CASE P!fetchmany
  BY <1>2, <1>6, FetchStep DEF P!fetchmany, P!targetVars
<1>7. CASE P!finish
  <2>1. /\ pc = "finish" /\ pc' = "done"
        /\ end_count' = IF strict THEN start_count ELSE Cardinality(points)
        /\ completeness' = IF end_count' = start_count THEN "complete" ELSE "incomplete"
        /\ UNCHANGED <<strict, compositeKey, checkpoint, txView, cursor, yielded, start_count, passes>>
        /\ UNCHANGED <<points, mutations, steady, everHeld, quiet>>
    BY <1>7, SameCount DEF P!finish, P!config, P!targetVars
  <2>2. TargetInv'
    BY <2>1 DEF TargetInv
  <2>3. completeness' \in {"complete", "incomplete"}
    BY <2>1
  <2>4. PassInv'
    BY <1>1, <2>1, <2>3 DEF PassInv
  <2>5. (strict => end_count' = start_count) /\ (quiet => completeness' = "complete")
    BY <2>1 DEF PgvectorInv
  <2>6. PgvectorInv'
    BY <2>1, <2>5 DEF PgvectorInv
  <2> QED BY <1>2, <1>3, <2>1, <2>2, <2>4, <2>6
<1> QED BY <1>4, <1>5, <1>6, <1>7 DEF P!iterate_points

\* A step of the pass and the lines it writes.
LEMMA TrackedPointsStep == ASSUME CaptureInv, _tracked_points PROVE CaptureInv'
<1> USE DEF CaptureInv
<1>1. UNCHANGED <<target, via, connector, writer, sidecar, row, damage, captured, since, delivered>>
  BY DEF _tracked_points, history
<1>2. /\ TargetInv' /\ PassInv' /\ QdrantInv' /\ PgvectorInv'
      /\ since \subseteq steady'
      /\ checkpoint' = checkpoint
      /\ writer \in {"before", "open"}
      /\ writer = "before" => yielded' = yielded
  <2>1. CASE target = "qdrant"
    BY <1>1, <2>1, QdrantStep DEF _tracked_points
  <2>2. CASE target = "pgvector"
    BY <1>1, <2>2, PgvectorStep DEF _tracked_points
  <2> QED BY <2>1, <2>2 DEF PassInv
<1>3. out' = IF writer = "open" THEN WithPoints(out, yielded') ELSE out
  BY DEF _tracked_points
<1>4. yielded \in Seq(Points) /\ yielded' \in Seq(Points)
  BY <1>2 DEF PassInv
<1>5. FileInv'
  <2>1. CASE writer = "before"
    BY <1>1, <1>2, <1>3, <2>1 DEF FileInv
  <2>2. CASE writer = "open"
    <3>1. out = WithPoints(HeaderOnly, yielded)
      BY <2>2 DEF FileInv
    <3>2. out' = WithPoints(HeaderOnly, yielded')
      BY <1>3, <1>4, <2>2, <3>1, FreshFiles, WrittenFiles
    <3>3. out' \in Files /\ out'.trailer = NoTrailer
      BY <1>4, <3>2, FreshFiles, WrittenFiles
    <3> QED BY <1>1, <2>2, <3>2, <3>3 DEF FileInv
  <2> QED BY <1>2, <2>1, <2>2
<1>6. RowInv'
  BY <1>1 DEF RowInv
<1>7. ChainInv'
  BY <1>1, <1>2 DEF ChainInv, ResumeSkipsNothing
<1> QED BY <1>2, <1>5, <1>6, <1>7
\* The steps that leave the pass and the target alone keep their invariants.
LEMMA PassKept ==
  ASSUME CaptureInv, UNCHANGED <<targetVars, passVars, target>>
  PROVE  TargetInv' /\ PassInv' /\ QdrantInv' /\ PgvectorInv'
<1>1. UNCHANGED <<points, mutations, steady, everHeld, quiet>>
  BY DEF targetVars
<1>2. UNCHANGED <<pc, attempt, checkpoint, offset, yielded, start_count, end_count, completeness, passes>>
  BY DEF passVars, scanVars
<1>3. UNCHANGED <<strict, compositeKey, txView, cursor>>
  BY DEF passVars, pgvectorVars
<1>4. TargetInv'
  BY <1>1 DEF CaptureInv, TargetInv
<1>5. PassInv'
  BY <1>2, <1>3 DEF CaptureInv, PassInv
<1>6. QdrantInv'
  BY <1>1, <1>2 DEF CaptureInv, QdrantInv, NoCount
<1>7. PgvectorInv'
  BY <1>1, <1>2, <1>3 DEF CaptureInv, PgvectorInv
<1> QED BY <1>4, <1>5, <1>6, <1>7

\* A pass that has raised says nothing.
LEMMA PassRaised ==
  ASSUME CaptureInv, pc' \in {"raised", "rejected"}, pc' = "rejected" => target = "pgvector",
         UNCHANGED <<targetVars, checkpoint, offset, yielded, completeness, strict, compositeKey, txView, cursor, target>>
  PROVE  TargetInv' /\ PassInv' /\ QdrantInv' /\ PgvectorInv'
<1>1. TargetInv'
  BY DEF CaptureInv, TargetInv, targetVars
<1>2. PassInv'
  BY DEF CaptureInv, PassInv
<1>3. QdrantInv'
  BY DEF QdrantInv
<1>4. PgvectorInv'
  BY DEF PgvectorInv
<1> QED BY <1>1, <1>2, <1>3, <1>4

\* The connection is made or refused.
LEMMA ConnectStep == ASSUME CaptureInv, connect PROVE CaptureInv'
<1>1. /\ UNCHANGED <<target, via, out, sidecar, row, damage, captured, since, delivered, targetVars>>
      /\ UNCHANGED <<strict, compositeKey, txView, cursor>>
      /\ UNCHANGED <<attempt, checkpoint, offset, yielded, start_count, end_count, completeness, passes>>
  BY DEF connect, history, pgvectorVars
<1>2. CASE writer' = writer /\ pc' = pc
  <2>1. TargetInv' /\ PassInv' /\ QdrantInv' /\ PgvectorInv'
    BY <1>1, <1>2, PassKept DEF passVars, scanVars, pgvectorVars
  <2>2. FileInv'
    BY <1>1, <1>2 DEF CaptureInv, FileInv
  <2>3. RowInv'
    BY <1>1 DEF CaptureInv, RowInv
  <2>4. ChainInv'
    BY <1>1, <1>2 DEF CaptureInv, ChainInv, ResumeSkipsNothing, targetVars
  <2> QED BY <2>1, <2>2, <2>3, <2>4 DEF CaptureInv
<1>3. CASE writer' = "over" /\ pc' = "raised"
  <2>1. TargetInv' /\ PassInv' /\ QdrantInv' /\ PgvectorInv'
    BY <1>1, <1>3, PassRaised
  <2>2. FileInv'
    BY <1>1, <1>3 DEF CaptureInv, FileInv
  <2>3. RowInv'
    BY <1>1 DEF CaptureInv, RowInv
  <2>4. ChainInv'
    BY <1>1, <1>3 DEF CaptureInv, ChainInv, ResumeSkipsNothing, targetVars
  <2> QED BY <2>1, <2>2, <2>3, <2>4 DEF CaptureInv
<1> QED BY <1>2, <1>3 DEF connect

\* The output is opened: an empty file, before the first point.
LEMMA OpenStep == ASSUME CaptureInv, open_output PROVE CaptureInv'
<1>1. /\ UNCHANGED <<target, via, connector, sidecar, row, damage, since, delivered>>
      /\ UNCHANGED <<targetVars, passVars>>
      /\ writer = "before" /\ writer' = "open" /\ out' = HeaderOnly /\ captured' = NoPass
  BY DEF open_output
<1>2. yielded' = yielded /\ checkpoint' = checkpoint /\ steady' = steady
  BY <1>1 DEF passVars, scanVars, targetVars
<1>3. TargetInv' /\ PassInv' /\ QdrantInv' /\ PgvectorInv'
  BY <1>1, PassKept
<1>4. FileInv'
  <2>1. yielded' = <<>> /\ out' = WithPoints(HeaderOnly, yielded')
    BY <1>1, <1>2, FreshFiles DEF CaptureInv, FileInv
  <2> QED BY <1>1, <2>1, FreshFiles, EmptyList DEF FileInv, NoPass
<1>5. RowInv'
  BY <1>1 DEF CaptureInv, RowInv
<1>6. ChainInv'
  BY <1>1, <1>2 DEF CaptureInv, ChainInv, ResumeSkipsNothing
<1> QED BY <1>3, <1>4, <1>5, <1>6 DEF CaptureInv

\* The pass raises: an open file is left without a trailer.
LEMMA RaiseStep == ASSUME CaptureInv, Raise PROVE CaptureInv'
<1>1. /\ UNCHANGED <<target, via, out, sidecar, row, damage, captured, since, delivered>>
      /\ writer' = "over"
  BY DEF Raise, history
<1>2. /\ pc' \in {"raised", "rejected"} /\ (pc' = "rejected" => target = "pgvector")
      /\ UNCHANGED <<targetVars, checkpoint, offset, yielded, completeness, strict, compositeKey, txView, cursor>>
  <2>1. CASE target = "qdrant"
    BY <2>1 DEF Raise, RequestFails, pgvectorVars
  <2>2. CASE target = "pgvector"
    BY <2>2 DEF Raise, P!statement_fails, P!reject_checkpoint, P!config, P!targetVars, targetVars, qdrantVars
  <2> QED BY <2>1, <2>2 DEF CaptureInv, PassInv
<1>3. TargetInv' /\ PassInv' /\ QdrantInv' /\ PgvectorInv'
  BY <1>1, <1>2, PassRaised
<1>4. FileInv'
  BY <1>1 DEF CaptureInv, FileInv
<1>5. RowInv'
  BY <1>1 DEF CaptureInv, RowInv
<1>6. ChainInv'
  BY <1>1, <1>2 DEF CaptureInv, ChainInv, ResumeSkipsNothing, targetVars
<1> QED BY <1>3, <1>4, <1>5, <1>6 DEF CaptureInv

\* The trailer is written: it hashes the lines of the pass that finished.
LEMMA SealStep == ASSUME CaptureInv, write_snapshot PROVE CaptureInv'
<1>1. /\ UNCHANGED <<target, via, connector, sidecar, row, damage, since, delivered>>
      /\ UNCHANGED <<targetVars, passVars>>
      /\ writer = "open" /\ writer' = "sealed" /\ pc = "done"
      /\ out' = WithTrailer(out, completeness)
      /\ captured' = [points |-> yielded, completeness |-> completeness]
  BY DEF write_snapshot
<1>2. yielded' = yielded /\ checkpoint' = checkpoint /\ steady' = steady /\ completeness' = completeness /\ pc' = pc
  BY <1>1 DEF passVars, scanVars, targetVars
<1>3. TargetInv' /\ PassInv' /\ QdrantInv' /\ PgvectorInv'
  BY <1>1, PassKept
<1>4. FileInv'
  <2>1. yielded \in Seq(Points) /\ Ascends(yielded) /\ completeness \in {"complete", "incomplete"}
    BY <1>1 DEF CaptureInv, PassInv
  <2>2. out = WithPoints(HeaderOnly, yielded) /\ out \in Files
    BY <1>1 DEF CaptureInv, FileInv
  <2>3. out.body = yielded
    BY <2>1, <2>2, FreshFiles, WrittenFiles
  <2>4. /\ out' \in Files
        /\ out'.trailer = [point_count |-> Len(yielded), completeness |-> completeness, content_hash |-> yielded]
    <3> DEFINE g == WithTrailer(out, completeness)
    <3>1. g \in Files /\ g.trailer = [point_count |-> Len(out.body), completeness |-> completeness, content_hash |-> out.body]
      BY <2>1, <2>2, SealedFiles
    <3> HIDE DEF g
    <3>2. g \in Files /\ g.trailer = [point_count |-> Len(yielded), completeness |-> completeness, content_hash |-> yielded]
      BY <2>3, <3>1
    <3>3. out' = g
      BY <1>1 DEF g
    <3> QED BY <3>2, <3>3
  <2>5. out'.trailer.content_hash = captured'.points /\ out'.trailer.completeness = captured'.completeness
    BY <1>1, <2>4
  <2>6. /\ captured' \in [points : Seq(Points), completeness : {"none", "complete", "incomplete"}]
        /\ Ascends(captured'.points)
    BY <1>1, <2>1
  <2>7. out' = WithTrailer(WithPoints(HeaderOnly, yielded'), completeness')
    BY <1>1, <1>2, <2>2
  <2> QED BY <1>1, <1>2, <2>4, <2>5, <2>6, <2>7 DEF FileInv
<1>5. RowInv'
  BY <1>1 DEF CaptureInv, RowInv
<1>6. ChainInv'
  BY <1>1, <1>2 DEF CaptureInv, ChainInv, ResumeSkipsNothing
<1> QED BY <1>3, <1>4, <1>5, <1>6 DEF CaptureInv
\* The sidecar is saved: what the file holds is delivered, and what the chain
\* of captures skipped was delivered before.
LEMMA SidecarStep == ASSUME CaptureInv, save_sidecar PROVE CaptureInv'
<1>1. /\ UNCHANGED <<target, via, out, row, damage, captured>>
      /\ UNCHANGED <<targetVars, passVars>>
      /\ writer = "sealed" /\ writer' = "over"
      /\ sidecar' = LastPoint
      /\ since' = IF checkpoint = 0 THEN steady ELSE since
      /\ delivered' = Listed(yielded) \cup IF checkpoint = 0 THEN {} ELSE delivered
  BY DEF save_sidecar, NoPoint, Listed
<1>2. yielded' = yielded /\ steady' = steady /\ checkpoint' = checkpoint
  BY <1>1 DEF passVars, scanVars, targetVars
<1>3. TargetInv' /\ PassInv' /\ QdrantInv' /\ PgvectorInv'
  BY <1>1, PassKept
<1>4. FileInv'
  BY <1>1 DEF CaptureInv, FileInv
<1>5. RowInv'
  BY <1>1 DEF CaptureInv, RowInv
<1>6. sidecar' \in Points \cup {0}
  <2>1. CASE yielded = <<>>
    BY <1>1, <2>1 DEF LastPoint, CaptureInv, ChainInv
  <2>2. CASE yielded # <<>>
    <3>1. yielded \in Seq(Points)
      BY DEF CaptureInv, PassInv
    <3>2. Len(yielded) \in 1..Len(yielded)
      BY <2>2, <3>1, EmptySeq
    <3>3. yielded[Len(yielded)] \in Points
      BY <3>1, <3>2, ElementOfSeq
    <3> QED BY <1>1, <2>2, <3>3 DEF LastPoint
  <2> QED BY <2>1, <2>2
<1>7. pc = "done"
  BY <1>1 DEF CaptureInv, FileInv
<1>8. \A p \in steady : p > checkpoint => p \in Listed(yielded)
  <2>1. checkpoint \in Nat /\ \A p \in steady : p \in Nat
    BY PointsAssumption, FiniteIds DEF CaptureInv, PassInv, TargetInv
  <2>2. CASE target = "qdrant"
    BY <1>7, <2>1, <2>2 DEF CaptureInv, QdrantInv
  <2>3. CASE target = "pgvector"
    BY <1>7, <2>1, <2>3 DEF CaptureInv, PgvectorInv
  <2> QED BY <2>2, <2>3 DEF CaptureInv, PassInv
<1>9. \A p \in since' : p \in delivered'
      \/ (checkpoint # 0 /\ p \in since /\ ~(p > checkpoint))
  <2>1. CASE checkpoint = 0
    <3>1. \A p \in steady : p > checkpoint
      BY <2>1, FiniteIds DEF CaptureInv, TargetInv
    <3> QED BY <1>1, <1>8, <2>1, <3>1
  <2>2. CASE checkpoint # 0
    BY <1>1, <1>8, <2>2 DEF CaptureInv, ChainInv
  <2> QED BY <2>1, <2>2
<1>10. ASSUME NEW p \in since', checkpoint # 0, p \in since, ~(p > checkpoint) PROVE p \in delivered'
  <2>1. checkpoint = sidecar /\ checkpoint \in Nat /\ p \in Nat
    BY <1>1, <1>10, PointsAssumption, FiniteIds DEF CaptureInv, ChainInv, PassInv, TargetInv
  <2>2. p \in delivered
    BY <1>10, <2>1 DEF CaptureInv, ChainInv, ResumeSkipsNothing
  <2> QED BY <1>1, <1>10, <2>2
<1>11. ResumeSkipsNothing'
  BY <1>9, <1>10 DEF ResumeSkipsNothing
<1>12. since' \subseteq steady'
  BY <1>1, <1>2 DEF CaptureInv, ChainInv
<1>13. ChainInv'
  BY <1>1, <1>6, <1>11, <1>12 DEF ChainInv
<1> QED BY <1>3, <1>4, <1>5, <1>13 DEF CaptureInv

\* The row is completed from the sealed file, which is put in the store.
LEMMA RowStep == ASSUME CaptureInv, complete_row PROVE CaptureInv'
<1>1. /\ UNCHANGED <<target, via, sidecar, damage, since, delivered>>
      /\ UNCHANGED <<targetVars, passVars>>
      /\ writer = "sealed" /\ writer' = "over" /\ out' = NoFile /\ captured' = NoPass
      /\ row'.status = IF completeness = "complete" THEN "completed" ELSE "incomplete"
      /\ row'.point_count = out.trailer.point_count
      /\ row'.content_hash = out.trailer.content_hash
      /\ row'.artifact = out
  BY DEF complete_row
<1>2. checkpoint' = checkpoint /\ steady' = steady
  BY <1>1 DEF passVars, scanVars, targetVars
<1>3. TargetInv' /\ PassInv' /\ QdrantInv' /\ PgvectorInv'
  BY <1>1, PassKept
<1>4. FileInv'
  BY <1>1, FreshFiles, EmptyList DEF FileInv, NoPass
<1>5. RowInv'
  <2> DEFINE f == WithPoints(HeaderOnly, yielded)
  <2>1. yielded \in Seq(Points) /\ completeness \in {"complete", "incomplete"} /\ out = WithTrailer(f, completeness)
    BY <1>1 DEF CaptureInv, PassInv, FileInv
  <2>2. f \in Files /\ f.header /\ ~f.torn /\ f.body = yielded
    BY <2>1, FreshFiles, WrittenFiles
  <2> HIDE DEF f
  <2>3. LET g == WithTrailer(f, completeness)
        IN  /\ g.header = f.header /\ g.torn = f.torn /\ g.body = f.body
            /\ g.trailer = [point_count |-> Len(f.body), completeness |-> completeness, content_hash |-> f.body]
            /\ g.trailer # NoTrailer
    BY <2>1, <2>2, SealedFiles
  <2>4. /\ out.header /\ ~out.torn /\ out.body = yielded /\ out.trailer # NoTrailer
        /\ out.trailer.point_count = Len(yielded)
        /\ out.trailer.completeness = completeness
        /\ out.trailer.content_hash = yielded
    BY <2>1, <2>2, <2>3
  <2>5. accepts(row'.artifact) /\ row'.artifact = out
    BY <1>1, <2>4 DEF accepts, _finalize
  <2>6. /\ row'.content_hash = row'.artifact.body
        /\ row'.point_count = Len(row'.artifact.body)
        /\ (row'.status = "completed") = (row'.artifact.trailer.completeness = "complete")
    BY <1>1, <2>1, <2>4
  <2> QED BY <2>5, <2>6 DEF RowInv
<1>6. ChainInv'
  BY <1>1, <1>2 DEF CaptureInv, ChainInv, ResumeSkipsNothing
<1> QED BY <1>3, <1>4, <1>5, <1>6 DEF CaptureInv

\* The process dies: what is left of an open file has no trailer.
LEMMA DieStep == ASSUME CaptureInv, Die PROVE CaptureInv'
<1>1. /\ UNCHANGED <<target, via, sidecar, row, damage, captured, since, delivered>>
      /\ UNCHANGED <<targetVars, checkpoint, offset, yielded, completeness, strict, compositeKey, txView, cursor>>
      /\ pc' = "raised" /\ writer' = "over"
      /\ out' \in Remains(out) \/ out' = NoFile \/ out' = out
  BY DEF Die, history, pgvectorVars
<1>2. TargetInv' /\ PassInv' /\ QdrantInv' /\ PgvectorInv'
  BY <1>1, PassRaised
<1>3. out \in Files
  BY DEF CaptureInv, FileInv
<1>4. out' \in Files /\ (out'.trailer = NoTrailer \/ out' = out)
  BY <1>1, <1>3, FreshFiles, RemainingFiles
<1>5. FileInv'
  BY <1>1, <1>4 DEF CaptureInv, FileInv
<1>6. RowInv'
  BY <1>1 DEF CaptureInv, RowInv
<1>7. ChainInv'
  BY <1>1 DEF CaptureInv, ChainInv, ResumeSkipsNothing, targetVars
<1> QED BY <1>2, <1>5, <1>6, <1>7 DEF CaptureInv
\* A damaged file has no trailer, or its old one after other lines.
LEMMA DamagedFiles ==
  ASSUME NEW f \in Files, NEW g \in Damaged(f)
  PROVE  g \in Files /\ (g.trailer = NoTrailer \/ g.trailer = f.trailer)
<1>1. f.body \in Seq(Points)
  BY DEF Files
<1>2. CASE g \in Remains(f)
  BY <1>2, RemainingFiles
<1>3. CASE \E i \in 1..Len(f.body) : g = LineRemoved(f, i)
  <2> PICK i \in 1..Len(f.body) : g = LineRemoved(f, i)
    BY <1>3
  <2>1. /\ \A k \in 1..(i - 1) : f.body[k] \in Points
        /\ \A k \in (i + 1)..Len(f.body) : f.body[k] \in Points
        /\ i - 1 \in Int /\ i + 1 \in Int /\ Len(f.body) \in Int
    BY <1>1
  <2>2. SubSeq(f.body, 1, i - 1) \in Seq(Points) /\ SubSeq(f.body, i + 1, Len(f.body)) \in Seq(Points)
    BY <2>1, SubSeqProperties
  <2>3. SubSeq(f.body, 1, i - 1) \o SubSeq(f.body, i + 1, Len(f.body)) \in Seq(Points)
    BY <2>2, ConcatProperties
  <2> QED BY <2>3, WrittenFiles DEF LineRemoved
<1>4. CASE \E i \in 1..Len(f.body), p \in Points : g = LineEdited(f, i, p)
  <2> PICK i \in 1..Len(f.body), p \in Points : g = LineEdited(f, i, p)
    BY <1>4
  <2>1. [f.body EXCEPT ![i] = p] \in Seq(Points)
    BY <1>1, ExceptSeq
  <2> QED BY <2>1, WrittenFiles DEF LineEdited
<1> QED BY <1>2, <1>3, <1>4 DEF Damaged

\* Damage touches the file alone, and gives it no trailer it did not have
LEMMA DamageStep == ASSUME CaptureInv, Damage PROVE CaptureInv'
<1>1. /\ UNCHANGED <<target, via, connector, writer, sidecar, row, captured, since, delivered>>
      /\ UNCHANGED <<targetVars, passVars>>
      /\ writer = "over" /\ out' \in Damaged(out)
  BY DEF Damage, history
<1>2. checkpoint' = checkpoint /\ steady' = steady
  BY <1>1 DEF passVars, scanVars, targetVars
<1>3. TargetInv' /\ PassInv' /\ QdrantInv' /\ PgvectorInv'
  BY <1>1, PassKept
<1>4. out' \in Files /\ (out'.trailer = NoTrailer \/ out'.trailer = out.trailer)
  BY <1>1, DamagedFiles DEF CaptureInv, FileInv
<1>5. FileInv'
  BY <1>1, <1>4 DEF CaptureInv, FileInv
<1>6. RowInv'
  BY <1>1 DEF CaptureInv, RowInv
<1>7. ChainInv'
  BY <1>1, <1>2 DEF CaptureInv, ChainInv, ResumeSkipsNothing
<1> QED BY <1>3, <1>5, <1>6, <1>7 DEF CaptureInv

\* The next pass begins where the sidecar says, or at the beginning.
LEMMA AgainStep == ASSUME CaptureInv, Again PROVE CaptureInv'
<1>1. /\ UNCHANGED <<target, via, out, sidecar, row, damage, captured, since, delivered>>
      /\ writer = "over" /\ writer' = "before"
  BY DEF Again, history
<1>2. /\ checkpoint' \in {0, sidecar}
      /\ yielded' = <<>> /\ completeness' = "none"
      /\ pc' = IF target = "qdrant" THEN "inspect" ELSE "count"
      /\ UNCHANGED <<offset, targetVars, strict, compositeKey, txView, cursor>>
  <2> PICK c \in {NoPoint} \cup (IF via = "cli" THEN {sidecar} ELSE {}) :
        \/ target = "qdrant" /\ Restart(c) /\ UNCHANGED pgvectorVars
        \/ target = "pgvector" /\ P!Restart(c) /\ UNCHANGED qdrantVars
    BY DEF Again
  <2>1. c \in {0, sidecar}
    BY DEF NoPoint
  <2>2. CASE target = "qdrant"
    BY <2>1, <2>2 DEF Restart, pgvectorVars
  <2>3. CASE target = "pgvector"
    BY <2>1, <2>3 DEF P!Restart, P!config, P!targetVars, targetVars, qdrantVars
  <2> QED BY <2>2, <2>3 DEF CaptureInv, PassInv
<1>3. TargetInv'
  BY <1>2 DEF CaptureInv, TargetInv, targetVars
<1>4. PassInv'
  <2>1. checkpoint' \in Points \cup {0}
    BY <1>2 DEF CaptureInv, ChainInv
  <2> QED BY <1>1, <1>2, <2>1, EmptyList DEF CaptureInv, PassInv
<1>5. QdrantInv'
  BY <1>1, <1>2 DEF QdrantInv
<1>6. PgvectorInv'
  BY <1>1, <1>2 DEF PgvectorInv
<1>7. FileInv'
  BY <1>1, <1>2 DEF CaptureInv, FileInv
<1>8. RowInv'
  BY <1>1 DEF CaptureInv, RowInv
<1>9. ChainInv'
  BY <1>1, <1>2 DEF CaptureInv, ChainInv, ResumeSkipsNothing, targetVars
<1> QED BY <1>3, <1>4, <1>5, <1>6, <1>7, <1>8, <1>9 DEF CaptureInv

\* A step that changes nothing.
LEMMA CaptureStutters == ASSUME CaptureInv, UNCHANGED allVars PROVE CaptureInv'
<1>1. /\ UNCHANGED <<targetVars, passVars>>
      /\ UNCHANGED <<target, via, connector, writer, out, sidecar, row, damage, captured, since, delivered>>
  BY DEF allVars, captureVars, history
<1>2. yielded' = yielded /\ checkpoint' = checkpoint /\ steady' = steady /\ completeness' = completeness /\ pc' = pc
  BY <1>1 DEF passVars, scanVars, targetVars
<1>3. TargetInv' /\ PassInv' /\ QdrantInv' /\ PgvectorInv'
  BY <1>1, PassKept
<1>4. FileInv'
  BY <1>1, <1>2 DEF CaptureInv, FileInv
<1>5. RowInv'
  BY <1>1 DEF CaptureInv, RowInv
<1>6. ChainInv'
  BY <1>1, <1>2 DEF CaptureInv, ChainInv, ResumeSkipsNothing
<1> QED BY <1>3, <1>4, <1>5, <1>6 DEF CaptureInv

\* The invariant of a capture: what the pass has dealt with, what the file
\* holds of it and what the sidecar stands for, after any interleaving of the
\* pass, the writers of the target, failures, crashes and damages.
THEOREM CaptureCorrect == SnapshotSpec => []CaptureInv
<1>1. SnapshotInit => CaptureInv
  BY CaptureStarts
<1>2. CaptureInv /\ [SnapshotNext]_allVars => CaptureInv'
  <2> SUFFICES ASSUME CaptureInv, [SnapshotNext]_allVars PROVE CaptureInv'
    OBVIOUS
  <2>1. CASE capture
    BY <2>1, ConnectStep, OpenStep, TrackedPointsStep, SealStep, SidecarStep, RowStep DEF capture
  <2>2. CASE Raise \/ Die \/ Damage \/ Again \/ TargetChanges
    BY <2>2, RaiseStep, DieStep, DamageStep, AgainStep, TargetStep
  <2>3. CASE UNCHANGED allVars
    BY <2>3, CaptureStutters
  <2> QED BY <2>1, <2>2, <2>3 DEF SnapshotNext
<1> QED BY <1>1, <1>2, PTL DEF SnapshotSpec
-----------------------------------------------------------------------------
(* What a capture promises *)

\* SteadyPointsOnce, whatever is inserted and deleted while the pass reads:
\* no id twice, every point that was there throughout, none that never was.
THEOREM PassDeliversSteadyPoints == SnapshotSpec => []SteadyPointsOnce
<1>1. CaptureInv => SteadyPointsOnce
  <2> SUFFICES ASSUME CaptureInv PROVE SteadyPointsOnce
    OBVIOUS
  <2>1. EachPointOnce
    BY DEF CaptureInv, PassInv, Ascends, EachPointOnce
  <2>2. checkpoint \in Nat /\ \A p \in steady : p \in Nat
    BY PointsAssumption, FiniteIds DEF CaptureInv, PassInv, TargetInv
  <2>3. ASSUME target = "qdrant" PROVE SteadyPointsYielded
    BY <2>2, <2>3 DEF CaptureInv, QdrantInv, SteadyPointsYielded, Listed
  <2>4. ASSUME target = "pgvector" PROVE P!SteadyRowsOnce
    BY <2>1, <2>4 DEF CaptureInv, PgvectorInv, P!SteadyRowsOnce, Listed, EachPointOnce
  <2> QED BY <2>1, <2>3, <2>4 DEF SteadyPointsOnce
<1> QED BY <1>1, CaptureCorrect, PTL

\* QuietPassIsExact: a fresh pass nobody writes during is an exact copy of
\* the target and is called complete, whichever connector made it.
THEOREM QuietPassIsACopy == SnapshotSpec => []QuietPassIsExact
<1>1. CaptureInv => QuietPassIsExact
  <2> SUFFICES ASSUME CaptureInv, pc = "done", quiet, checkpoint = 0
               PROVE  yielded = Ascending(points) /\ completeness = "complete"
    BY DEF QuietPassIsExact, NoPoint
  <2>1. steady = points /\ everHeld = points /\ yielded \in Seq(Points) /\ Ascends(yielded)
    BY DEF CaptureInv, TargetInv, PassInv
  <2>2. \A p \in points : p \in Nat /\ p > 0
    BY FiniteIds DEF CaptureInv, TargetInv
  <2>3. Listed(yielded) = points /\ completeness = "complete"
    <3>1. CASE target = "qdrant"
      <4>1. (\A p \in points : 0 <= p => p \in Listed(yielded)) /\ Listed(yielded) \subseteq points /\ completeness = "complete"
        BY <2>1, <3>1 DEF CaptureInv, QdrantInv
      <4>2. \A p \in points : p \in Listed(yielded)
        BY <2>2, <4>1
      <4> QED BY <4>1, <4>2
    <3>2. CASE target = "pgvector"
      BY <2>1, <2>2, <3>2 DEF CaptureInv, PgvectorInv
    <3> QED BY <3>1, <3>2 DEF CaptureInv, PassInv
  <2> QED BY <2>1, <2>3, ListOfSet
<1> QED BY <1>1, CaptureCorrect, PTL

\* StrictPassIsSnapshot: a repeatable read pass delivers the rows of the one
\* state of the table its start count was taken in.
THEOREM StrictPassIsOneState == SnapshotSpec => []StrictPassIsSnapshot
<1>1. CaptureInv => StrictPassIsSnapshot
  <2> SUFFICES ASSUME CaptureInv, target = "pgvector", strict, pc = "done"
               PROVE  /\ yielded = Ascending({p \in txView : p > checkpoint})
                      /\ checkpoint = 0 => start_count = Len(yielded) /\ end_count = Len(yielded)
    BY SameOrder DEF StrictPassIsSnapshot, P!StrictPassIsSnapshot, P!NoPoint
  <2> DEFINE S == {p \in txView : p > checkpoint}
  <2>1. Listed(yielded) = S /\ start_count = Cardinality(txView) /\ end_count = start_count
    BY DEF CaptureInv, PgvectorInv
  <2>2. yielded \in Seq(Points) /\ Ascends(yielded)
    BY DEF CaptureInv, PassInv
  <2>3. ASSUME checkpoint = 0 PROVE S = txView
    BY <2>3, FiniteIds DEF CaptureInv, PassInv
  <2> HIDE DEF S
  <2>4. yielded = Ascending(S) /\ Len(yielded) = Cardinality(S)
    BY <2>1, <2>2, ListOfSet
  <2> QED BY <2>1, <2>3, <2>4 DEF S
<1> QED BY <1>1, CaptureCorrect, PTL

\* A replay from an id of an ascending list has the lines after it.
LEMMA ReplayHasTheRest ==
  ASSUME NEW f, f.body \in Seq(Points), Ascends(f.body), NEW i \in 1..Len(f.body)
  PROVE  Replay(f, f.body[i], NoPoint) = SubSeq(f.body, i + 1, Len(f.body))
<1> DEFINE s == f.body
           at == {k \in 1..Len(s) : s[k] = s[i]}
<1>1. \A k \in 1..Len(s) : s[k] \in Nat /\ s[k] # 0
  <2>1. \A k \in 1..Len(s) : s[k] \in Points
    BY ElementOfSeq
  <2> QED BY <2>1, PointsAssumption
<1>2. ASSUME NEW k \in 1..Len(s), s[k] = s[i] PROVE k = i
  <2>1. ~(k < i) /\ ~(i < k)
    BY <1>1, <1>2 DEF Ascends
  <2> QED BY <2>1
<1>3. at = {i}
  BY <1>2
<1>4. (CHOOSE k \in at : \A m \in at : k <= m) = i
  BY <1>3
<1>5. s[i] # NoPoint
  BY <1>1 DEF NoPoint
<1> QED BY <1>3, <1>4, <1>5 DEF Replay

\* AcceptedFileIsThePass, however the process died and whichever lines were
\* cut or edited.
THEOREM FileIsThePass == SnapshotSpec => []AcceptedFileIsThePass
<1>1. CaptureInv => AcceptedFileIsThePass
  <2> SUFFICES ASSUME CaptureInv PROVE AcceptedFileIsThePass
    OBVIOUS
  <2>1. ASSUME accepts(out) PROVE out.body = captured.points /\ out.trailer.completeness = captured.completeness
    BY <2>1 DEF CaptureInv, FileInv, accepts, _finalize
  <2>2. captured.points \in Seq(Points) /\ Ascends(captured.points)
    BY DEF CaptureInv, FileInv
  <2>3. ASSUME NEW i \in 1..Len(captured.points), accepts(out)
        PROVE  Replay(out, captured.points[i], NoPoint) = SubSeq(captured.points, i + 1, Len(captured.points))
    BY <2>1, <2>2, <2>3, ReplayHasTheRest
  <2>4. RowInv
    BY DEF CaptureInv
  <2> QED BY <2>1, <2>3, <2>4 DEF AcceptedFileIsThePass, RowInv
<1> QED BY <1>1, CaptureCorrect, PTL

\* ResumeSkipsNothing: a point held since the chain of captures began and
\* before the sidecar's checkpoint is in a file the chain finished.
THEOREM ResumeIsSafe == SnapshotSpec => []ResumeSkipsNothing
<1>1. CaptureInv => ResumeSkipsNothing
  BY DEF CaptureInv, ChainInv
<1> QED BY <1>1, CaptureCorrect, PTL
=============================================================================
