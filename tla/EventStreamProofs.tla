------------------------- MODULE EventStreamProofs -------------------------
(***************************************************************************)
(* Proofs about EventStream on top of the theorems about the job queue:    *)
(* the queue under its streams is still the queue of JobQueue, so what was *)
(* proved of its rows carries over to what the streams report.             *)
(***************************************************************************)
EXTENDS EventStream, JobQueueProofs

USE PollsAssumption

-----------------------------------------------------------------------------
\* Streams only read: the queue's part of a behaviour is one of JobQueue's.
THEOREM QueueUnderStreams == StreamSpec => Spec
<1>1. StreamInit => Init
  BY DEF StreamInit
<1>2. [StreamNext]_<<vars, streamVars>> => [Next]_vars
  BY DEF StreamNext
<1> QED
  BY <1>1, <1>2, PTL DEF StreamSpec, Spec

\* Streams keep their types, however many there are and whatever the queue
\* does.
THEOREM StreamTypeCorrect == StreamSpec => []StreamTypeOK
<1> USE DEF StreamTypeOK, StreamPc, JobStatus, Terminal, NoJob
\* An open stream follows a job, and sleeps only within its time
<1> DEFINE Follows == \A s \in Streams : streamPc[s] # "closed" => streamJob[s] \in Jobs
           InTime  == \A s \in Streams : streamPc[s] = "sleep" => polls[s] <= MaxPolls
           Inv     == StreamTypeOK /\ Follows /\ InTime
<1>1. StreamInit => Inv
  BY DEF StreamInit
<1>2. ASSUME TypeInv, Inv, [StreamNext]_<<vars, streamVars>>
      PROVE  Inv'
  <2>1. CASE UNCHANGED streamVars
    BY <1>2, <2>1 DEF streamVars
  <2>2. ASSUME NEW s \in Streams, NEW j \in Jobs, open_events(s, j) PROVE Inv'
    BY <1>2, <2>2 DEF open_events
  <2>3. ASSUME NEW s \in Streams, poll(s) PROVE Inv'
    <3>1. status[streamJob[s]] \in JobStatus
      BY <1>2, <2>3 DEF poll, TypeInv, TypeOK
    <3> QED
      BY <1>2, <2>3, <3>1 DEF poll
  <2>4. ASSUME NEW s \in Streams, sleep(s) PROVE Inv'
    <3>1. polls[s] \in 0..MaxPolls
      BY <1>2, <2>4 DEF sleep
    <3> QED
      BY <1>2, <2>4, <3>1 DEF sleep
  <2>5. ASSUME NEW s \in Streams, time_out(s) PROVE Inv'
    BY <1>2, <2>5 DEF time_out
  <2>6. ASSUME NEW s \in Streams, disconnect(s) PROVE Inv'
    BY <1>2, <2>6 DEF disconnect
  <2> QED
    BY <1>2, <2>1, <2>2, <2>3, <2>4, <2>5, <2>6 DEF StreamNext, job_event_stream, streamVars
<1>3. TypeInv /\ Inv /\ [StreamNext]_<<vars, streamVars>> => Inv'
  BY <1>2
<1> QED
  BY <1>1, <1>3, QueueUnderStreams, TypeInvariant, PTL DEF StreamSpec

-----------------------------------------------------------------------------
\* An open stream follows the job of an entity
FollowsEntity ==
  \A s \in Streams :
    streamPc[s] # "closed" => streamJob[s] \in Jobs /\ jobType[streamJob[s]] \in EntityTypes

\* A stream that sent "done" sent the status the job row still has
DoneIsStatus ==
  \A s \in Streams :
    doneStatus[s] # "none" =>
      /\ streamPc[s] = "done"
      /\ doneStatus[s] \in Terminal
      /\ status[streamJob[s]] = doneStatus[s]

StreamInv == StreamTypeOK /\ FollowsEntity /\ DoneIsStatus

\* No step of a timely queue changes the type of a job once it has one, or
\* the status of a job once it is terminal.
LEMMA RowsStay ==
  ASSUME Timely, TypeInv, LeaseInv, VisibleInv, [Next]_vars, NEW j \in Jobs,
         jobType[j] \in EntityTypes
  PROVE  /\ jobType'[j] = jobType[j]
         /\ status[j] \in Terminal => status'[j] = status[j]
<1>1. status[j] # "absent"
  BY DEF VisibleInv, EntityInv, Terminal
<1>2. jobType \in [Jobs -> JobTypes \cup {"none"}] /\ status \in [Jobs -> JobStatus]
  BY DEF TypeInv, TypeOK
<1>3. CASE Quiet
  BY <1>3 DEF Quiet
<1>4. ASSUME NEW k \in Jobs, Appears(k) \/ Moves(k) \/ Settles(k)
      PROVE  /\ jobType'[j] = jobType[j]
             /\ status[j] \in Terminal => status'[j] = status[j]
  BY <1>1, <1>2, <1>4 DEF Appears, Moves, Settles, Terminal
<1> QED
  BY <1>3, <1>4, VisibleStep

\* Every step of the queue and of the streams keeps StreamInv.
LEMMA StreamStep ==
  ASSUME Timely, TypeInv, LeaseInv, VisibleInv, StreamInv, StreamTypeOK',
         [StreamNext]_<<vars, streamVars>>
  PROVE  StreamInv'
<1> USE DEF StreamInv, StreamTypeOK, FollowsEntity, DoneIsStatus
<1>1. CASE [Next]_vars /\ UNCHANGED streamVars
  <2>1. ASSUME NEW s \in Streams, streamPc[s] # "closed"
        PROVE  /\ jobType'[streamJob[s]] \in EntityTypes
               /\ status[streamJob[s]] \in Terminal
                    => status'[streamJob[s]] = status[streamJob[s]]
    BY <1>1, <2>1, RowsStay
  <2>2. FollowsEntity'
    BY <1>1, <2>1 DEF streamVars
  <2>3. DoneIsStatus'
    BY <1>1, <2>1 DEF streamVars
  <2> QED
    BY <2>2, <2>3
<1>2. ASSUME UNCHANGED vars, NEW s \in Streams, NEW j \in Jobs, open_events(s, j)
      PROVE  StreamInv'
  BY <1>2 DEF open_events, vars
<1>3. ASSUME UNCHANGED vars, NEW s \in Streams, poll(s)
      PROVE  StreamInv'
  <2>1. UNCHANGED <<jobType, status, streamJob, polls>>
    BY <1>3 DEF poll, vars
  <2>2. FollowsEntity'
    BY <1>3, <2>1 DEF poll
  <2>3. DoneIsStatus'
    BY <1>3, <2>1 DEF poll, Terminal
  <2> QED
    BY <2>2, <2>3
<1>4. ASSUME UNCHANGED vars, NEW s \in Streams, sleep(s) \/ time_out(s) \/ disconnect(s)
      PROVE  StreamInv'
  BY <1>4 DEF sleep, time_out, disconnect, vars
<1> QED
  BY <1>1, <1>2, <1>3, <1>4 DEF StreamNext, job_event_stream

\* What a "done" event told a client stays true of the job and of its entity,
\* for any number of clients, jobs, workers and crashes, as long as no lease
\* lapses under a live worker.
THEOREM DoneStaysTrue ==
  ASSUME Timely
  PROVE  StreamSpec => []DoneTellsTheOutcome
<1>1. StreamInit => FollowsEntity /\ DoneIsStatus
  BY DEF StreamInit, FollowsEntity, DoneIsStatus
<1>2. TypeInv /\ LeaseInv /\ VisibleInv /\ StreamInv /\ StreamTypeOK'
        /\ [StreamNext]_<<vars, streamVars>> => StreamInv'
  BY StreamStep
<1>3. VisibleInv /\ StreamInv => DoneTellsTheOutcome
  BY DEF VisibleInv, EntityInv, StreamInv, FollowsEntity, DoneIsStatus, DoneTellsTheOutcome, Terminal
<1> QED
  BY <1>1, <1>2, <1>3, QueueUnderStreams, StreamTypeCorrect, TypeInvariant, LeaseInvariant,
     VisibleInvariant, PTL DEF StreamSpec, StreamInv

=============================================================================
