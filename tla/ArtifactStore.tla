--------------------------- MODULE ArtifactStore ---------------------------
(***************************************************************************)
(* The content-addressed store of core/artifacts.py together with the      *)
(* database rows that point into it.  A writer is a job's handler or the   *)
(* :sign request: it puts one or more artifacts (a build the parsed        *)
(* documents its manifest lists and then the manifest, a snapshot its      *)
(* NDJSON file, a reconciliation its report) and then commits a row whose  *)
(* artifact_ref names them.  Store and database are not one transaction.   *)
(*                                                                         *)
(* mkstemp makes temporary names unique, so a writer's temporary file is   *)
(* its own; what it shares with the others is the final name, the digest.  *)
(***************************************************************************)
EXTENDS Naturals, FiniteSets

CONSTANTS
  Writers,
  Digests,
  MaxCrashes,   \* bound: writers killed
  MaxErrors     \* bound: writes that fail (a full disk, an interrupt)

ASSUME BoundsAssumption == MaxCrashes \in Nat /\ MaxErrors \in Nat

VARIABLES
  object,   \* per digest: what a reader of artifacts/<digest> finds
  pc,       \* per writer: where it is in put
  digest,   \* per writer: the artifact it puts
  temp,     \* per writer: its temporary file
  stored,   \* per writer: artifacts put in the open transaction
  refs,     \* the digests that committed rows name
  litter,   \* temporary files nobody will remove
  crashes, errors

vars == <<object, pc, digest, temp, stored, refs, litter, crashes, errors>>

FileState == {"absent", "partial", "whole"}

WriterPc == {"idle", "missing", "writing", "flushed"}

Init ==
  /\ object = [d \in Digests |-> "absent"]
  /\ pc     = [w \in Writers |-> "idle"]
  /\ digest \in [Writers -> Digests]
  /\ temp   = [w \in Writers |-> "absent"]
  /\ stored = [w \in Writers |-> {}]
  /\ refs   = {}
  /\ litter = 0
  /\ crashes = 0 /\ errors = 0

-----------------------------------------------------------------------------
(* put *)

\* target.exists(): nothing to write, or a miss that may be stale when used
BeginPut(w, d) ==
  /\ pc[w] = "idle"
  /\ digest' = [digest EXCEPT ![w] = d]
  /\ \/ /\ object[d] = "absent"
        /\ pc' = [pc EXCEPT ![w] = "missing"]
        /\ UNCHANGED stored
     \/ /\ object[d] # "absent"
        /\ stored' = [stored EXCEPT ![w] = @ \cup {d}]
        /\ UNCHANGED pc
  /\ UNCHANGED <<object, temp, refs, litter, crashes, errors>>

\* Mutant: the artifact is written under its final name
OpenTemp_in_place(w) ==
  /\ pc[w] = "missing"
  /\ pc'     = [pc EXCEPT ![w] = "writing"]
  /\ temp'   = [temp EXCEPT ![w] = "partial"]
  /\ object' = [object EXCEPT ![digest[w]] = "partial"]
  /\ UNCHANGED <<digest, stored, refs, litter, crashes, errors>>

\* mkstemp, and the first bytes
OpenTemp(w) ==
  /\ pc[w] = "missing"
  /\ pc'   = [pc EXCEPT ![w] = "writing"]
  /\ temp' = [temp EXCEPT ![w] = "partial"]
  /\ UNCHANGED <<object, digest, stored, refs, litter, crashes, errors>>

\* The with block ends: all bytes written, the descriptor closed
CloseTemp(w) ==
  /\ pc[w] = "writing"
  /\ pc'   = [pc EXCEPT ![w] = "flushed"]
  /\ temp' = [temp EXCEPT ![w] = "whole"]
  /\ UNCHANGED <<object, digest, stored, refs, litter, crashes, errors>>

\* Mutant: replace inside the with block, before the file is closed
Replace_early(w) ==
  /\ pc[w] \in {"writing", "flushed"}
  /\ object' = [object EXCEPT ![digest[w]] = temp[w]]
  /\ temp'   = [temp EXCEPT ![w] = "absent"]
  /\ stored' = [stored EXCEPT ![w] = @ \cup {digest[w]}]
  /\ pc'     = [pc EXCEPT ![w] = "idle"]
  /\ UNCHANGED <<digest, refs, litter, crashes, errors>>

\* os.replace(tmp_name, target): put returns
Replace(w) ==
  /\ pc[w] = "flushed"
  /\ object' = [object EXCEPT ![digest[w]] = temp[w]]
  /\ temp'   = [temp EXCEPT ![w] = "absent"]
  /\ stored' = [stored EXCEPT ![w] = @ \cup {digest[w]}]
  /\ pc'     = [pc EXCEPT ![w] = "idle"]
  /\ UNCHANGED <<digest, refs, litter, crashes, errors>>

\* The writer's transaction is rolled back; what it stored stays on disk
Abandon(w) ==
  /\ pc'     = [pc EXCEPT ![w] = "idle"]
  /\ temp'   = [temp EXCEPT ![w] = "absent"]
  /\ stored' = [stored EXCEPT ![w] = {}]

\* except BaseException: unlink the temporary file, raise
PutFails(w) ==
  /\ pc[w] \in {"writing", "flushed"}
  /\ errors < MaxErrors
  /\ errors' = errors + 1
  /\ Abandon(w)
  /\ UNCHANGED <<object, digest, refs, litter, crashes>>

-----------------------------------------------------------------------------
(* The writer around put *)

\* The transaction that names the stored artifacts commits
CommitRow(w) ==
  /\ pc[w] = "idle"
  /\ stored[w] # {}
  /\ refs'   = refs \cup stored[w]
  /\ stored' = [stored EXCEPT ![w] = {}]
  /\ UNCHANGED <<object, pc, digest, temp, litter, crashes, errors>>

\* The handler is cancelled or fails between two puts
RollBackRow(w) ==
  /\ pc[w] = "idle"
  /\ stored[w] # {}
  /\ stored' = [stored EXCEPT ![w] = {}]
  /\ UNCHANGED <<object, pc, digest, temp, refs, litter, crashes, errors>>

\* The process is killed: no except clause runs
Crash(w) ==
  /\ pc[w] # "idle"
  /\ crashes < MaxCrashes
  /\ crashes' = crashes + 1
  /\ litter'  = litter + (IF temp[w] = "absent" THEN 0 ELSE 1)
  /\ Abandon(w)
  /\ UNCHANGED <<object, digest, refs, errors>>

put(w) ==
  \/ \E d \in Digests : BeginPut(w, d)
  \/ OpenTemp(w)
  \/ CloseTemp(w)
  \/ Replace(w)
  \/ PutFails(w)

Next == \E w \in Writers : put(w) \/ CommitRow(w) \/ RollBackRow(w) \/ Crash(w)

Spec == Init /\ [][Next]_vars

-----------------------------------------------------------------------------
(* Properties *)

\* The store, the writers and the rows have their types.
TypeOK ==
  /\ object \in [Digests -> FileState]
  /\ pc \in [Writers -> WriterPc]
  /\ digest \in [Writers -> Digests]
  /\ temp \in [Writers -> FileState]
  /\ stored \in [Writers -> SUBSET Digests]
  /\ refs \subseteq Digests
  /\ litter \in Nat
  /\ crashes \in 0..MaxCrashes
  /\ errors \in 0..MaxErrors

\* put: "a reader never observes a partially written artifact", whoever
\* writes the same bytes at the same time and wherever a writer dies.
NoPartialArtifact == \A d \in Digests : object[d] # "partial"

\* Whatever a committed row names is in the store, whole: a row never
\* outlives or overtakes its artifact, and a put that was skipped because
\* the name existed was right to be skipped.
RefsResolve == \A d \in refs : object[d] = "whole"

\* Stray temporary files come only from killed processes, at most one each;
\* a failed write cleans up after itself.
LitterOnlyFromCrashes == litter <= crashes

\* The store as its readers see it, whoever writes the same bytes at the same
\* time, fails or is killed: no artifact is partial, every committed reference
\* resolves, and stray files are accounted for.
StoreIsSound == NoPartialArtifact /\ RefsResolve /\ LitterOnlyFromCrashes

\* Nothing is ever taken out of the store or damaged by a later writer.
ArtifactsAreImmutable ==
  [][\A d \in Digests : object[d] = "whole" => object'[d] = "whole"]_vars

=============================================================================
