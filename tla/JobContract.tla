---------------------------- MODULE JobContract ----------------------------
(***************************************************************************)
(* What the job queue promises a client that polls or streams: a submitted *)
(* job is open until it settles, it settles once, and in the same instant  *)
(* the entity it drives takes the state that belongs to that outcome.      *)
(* Attempts, leases, workers and cancel flags are not part of the promise. *)
(***************************************************************************)
CONSTANTS Jobs, JobTypes

VARIABLES
  type,    \* job_type, "none" before the job is submitted
  phase,   \* "absent", "open" or one of the three terminal statuses
  result   \* the entity row's own state

vars == <<type, phase, result>>

\* The job types whose entity row has a state
EntityTypes == {"build", "snapshot", "reconcile"}

\* The entity state that belongs to each outcome of a job of type t
ResultOf(t, outcome) ==
  IF t \notin EntityTypes THEN {"none"}
  ELSE CASE outcome = "completed" -> IF t = "snapshot" THEN {"completed", "incomplete"} ELSE {"completed"}
         [] outcome = "cancelled" -> {"cancelled"}
         [] outcome = "failed"    -> {"pending"}

Init ==
  /\ type   = [j \in Jobs |-> "none"]
  /\ phase  = [j \in Jobs |-> "absent"]
  /\ result = [j \in Jobs |-> "none"]

Submit(j) ==
  /\ phase[j] = "absent"
  /\ \E t \in JobTypes :
       /\ type' = [type EXCEPT ![j] = t]
       /\ result' = [result EXCEPT ![j] = IF t \in EntityTypes THEN "pending" ELSE "none"]
  /\ phase' = [phase EXCEPT ![j] = "open"]

Settle(j) ==
  /\ phase[j] = "open"
  /\ \E outcome \in {"completed", "failed", "cancelled"} :
       /\ phase' = [phase EXCEPT ![j] = outcome]
       /\ \E r \in ResultOf(type[j], outcome) : result' = [result EXCEPT ![j] = r]
  /\ UNCHANGED type

Next == \E j \in Jobs : Submit(j) \/ Settle(j)

SafeSpec == Init /\ [][Next]_vars

Spec == SafeSpec /\ \A j \in Jobs : WF_vars(Settle(j))
=============================================================================
