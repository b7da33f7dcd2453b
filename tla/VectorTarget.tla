---------------------------- MODULE VectorTarget ----------------------------
(***************************************************************************)
(* The vector database a connector reads while others write to it: a set   *)
(* of points that its owner inserts into and deletes from at any time.     *)
(* External to the repository; modelled from what connectors/base.py says  *)
(* of the targets (points may be added or removed while a pass iterates).  *)
(* The three history variables record, for the current pass, which points  *)
(* were there all along, which were there at any time, and whether         *)
(* anything changed.                                                       *)
(***************************************************************************)
EXTENDS Naturals, Sequences, FiniteSets

CONSTANTS
  Points,        \* the ids a point may have, in scroll (primary key) order
  MaxMutations,  \* bound: inserts and deletes in a behaviour
  PageSize,      \* points a request returns: snapshot.page_size, fetch_size
  MaxPasses      \* bound: passes, the resumed ones included

ASSUME PointsAssumption == Points \subseteq Nat \ {0} /\ IsFiniteSet(Points)
ASSUME BoundsAssumption == MaxMutations \in Nat /\ MaxPasses \in Nat
ASSUME PageAssumption == PageSize \in Nat \ {0}

VARIABLES
  points,     \* the points the target holds now
  mutations,
  steady,     \* points held ever since the pass began
  everHeld,   \* points held at some time since the pass began
  quiet       \* nothing was inserted or deleted since the pass began

targetVars == <<points, mutations, steady, everHeld, quiet>>

TargetInit ==
  /\ points \in SUBSET Points
  /\ mutations = 0
  /\ steady = points
  /\ everHeld = points
  /\ quiet = TRUE

\* A pass begins: its history starts now
WatchFromHere ==
  /\ steady' = points
  /\ everHeld' = points
  /\ quiet' = TRUE
  /\ UNCHANGED <<points, mutations>>

Insert(p) ==
  /\ p \notin points
  /\ mutations < MaxMutations
  /\ points' = points \cup {p}
  /\ everHeld' = everHeld \cup {p}
  /\ mutations' = mutations + 1
  /\ quiet' = FALSE
  /\ UNCHANGED steady

Delete(p) ==
  /\ p \in points
  /\ mutations < MaxMutations
  /\ points' = points \ {p}
  /\ steady' = steady \ {p}
  /\ mutations' = mutations + 1
  /\ quiet' = FALSE
  /\ UNCHANGED everHeld

Mutate == \E p \in Points : Insert(p) \/ Delete(p)

\* The first n members of a finite set of numbers, in ascending order
Ascending(S) ==
  [i \in 1..Cardinality(S) |-> CHOOSE p \in S : Cardinality({q \in S : q < p}) = i - 1]

FirstOf(S, n) == {p \in S : Cardinality({q \in S : q < p}) < n}
=============================================================================
