---------------------------- MODULE EventStream ----------------------------
(***************************************************************************)
(* The server-sent event streams of server/api/events_routes.py over the   *)
(* job queue: a client opens .../events for a build, snapshot or           *)
(* reconciliation, and the stream polls the job row that drives it, one    *)
(* short session per poll, with a sleep between polls.  Every step of the  *)
(* queue may happen between two polls.  Job rows are never deleted, so the *)
(* branch for a vanished row has no counterpart.                           *)
(***************************************************************************)
EXTENDS JobQueue

CONSTANTS
  Streams,    \* open client connections
  MaxPolls    \* _MAX_STREAM_SECONDS / _POLL_INTERVAL_SECONDS

ASSUME PollsAssumption == MaxPolls \in Nat

VARIABLES
  streamPc,     \* per stream: where _job_event_stream is
  streamJob,    \* per stream: the job it follows
  last_status,  \* per stream: the status of the last "status" event
  doneStatus,   \* per stream: the status of the "done" event
  polls         \* per stream: sleeps so far, the code's elapsed

streamVars == <<streamPc, streamJob, last_status, doneStatus, polls>>

StreamPc == {"closed", "poll", "sleep", "done", "timeout", "gone"}

StreamInit ==
  /\ Init
  /\ streamPc    = [s \in Streams |-> "closed"]
  /\ streamJob   = [s \in Streams |-> NoJob]
  /\ last_status = [s \in Streams |-> "none"]
  /\ doneStatus  = [s \in Streams |-> "none"]
  /\ polls       = [s \in Streams |-> 0]

\* build_events, snapshot_events, reconciliation_events: resolve the entity
\* to its job and answer with the stream
open_events(s, j) ==
  /\ streamPc[s] = "closed"
  /\ jobType[j] \in EntityTypes
  /\ streamPc'  = [streamPc EXCEPT ![s] = "poll"]
  /\ streamJob' = [streamJob EXCEPT ![s] = j]
  /\ UNCHANGED <<last_status, doneStatus, polls>>

\* One turn of the loop: a "status" event on a change, "done" when terminal
poll(s) ==
  LET status_now == status[streamJob[s]] IN
  /\ streamPc[s] = "poll"
  /\ polls[s] <= MaxPolls
  /\ last_status' = [last_status EXCEPT ![s] = status_now]
  /\ \/ /\ status_now \in Terminal
        /\ doneStatus' = [doneStatus EXCEPT ![s] = status_now]
        /\ streamPc'   = [streamPc EXCEPT ![s] = "done"]
     \/ /\ status_now \notin Terminal
        /\ streamPc' = [streamPc EXCEPT ![s] = "sleep"]
        /\ UNCHANGED doneStatus
  /\ UNCHANGED <<streamJob, polls>>

\* request.is_disconnected() after a poll
disconnect(s) ==
  /\ streamPc[s] = "sleep"
  /\ streamPc' = [streamPc EXCEPT ![s] = "gone"]
  /\ UNCHANGED <<streamJob, last_status, doneStatus, polls>>

\* Mutant: the time spent is not added up
sleep_uncounted(s) ==
  /\ streamPc[s] = "sleep"
  /\ streamPc' = [streamPc EXCEPT ![s] = "poll"]
  /\ UNCHANGED <<streamJob, last_status, doneStatus, polls>>

\* asyncio.sleep, then elapsed moves on
sleep(s) ==
  /\ streamPc[s] = "sleep"
  /\ streamPc' = [streamPc EXCEPT ![s] = "poll"]
  /\ polls'    = [polls EXCEPT ![s] = @ + 1]
  /\ UNCHANGED <<streamJob, last_status, doneStatus>>

\* The loop condition fails: "stream timeout; poll the job endpoint instead"
time_out(s) ==
  /\ streamPc[s] = "poll"
  /\ polls[s] > MaxPolls
  /\ streamPc' = [streamPc EXCEPT ![s] = "timeout"]
  /\ UNCHANGED <<streamJob, last_status, doneStatus, polls>>

job_event_stream(s) == poll(s) \/ sleep(s) \/ time_out(s)

StreamNext ==
  \/ Next /\ UNCHANGED streamVars
  \/ /\ \E s \in Streams :
          \/ \E j \in Jobs : open_events(s, j)
          \/ job_event_stream(s)
          \/ disconnect(s)
     /\ UNCHANGED vars

StreamSpec == StreamInit /\ [][StreamNext]_<<vars, streamVars>>

(***************************************************************************)
(* Only the server's event loop is assumed to keep going: the queue may    *)
(* stand still, as it does when no worker runs.                            *)
(***************************************************************************)
FairStreamSpec ==
  /\ StreamSpec
  /\ \A s \in Streams : WF_<<vars, streamVars>>(job_event_stream(s) /\ UNCHANGED vars)

-----------------------------------------------------------------------------
(* Properties *)

\* Every stream's state has its declared type.
StreamTypeOK ==
  /\ streamPc \in [Streams -> StreamPc]
  /\ streamJob \in [Streams -> Jobs \cup {NoJob}]
  /\ last_status \in [Streams -> JobStatus \cup {"none"}]
  /\ doneStatus \in [Streams -> Terminal \cup {"none"}]
  /\ polls \in [Streams -> 0..(MaxPolls + 1)]

\* What a "done" event said is still true of the job and of the entity it
\* drives whenever the client looks: a client that saw "done" with completed
\* finds a finished build, snapshot or reconciliation, and one that saw
\* cancelled never finds it finished later.
DoneTellsTheOutcome ==
  \A s \in Streams :
    doneStatus[s] # "none" =>
      LET j == streamJob[s] IN
      /\ status[j] = doneStatus[s]
      /\ doneStatus[s] = "completed" => entity[j] \in {"completed", "incomplete"}
      /\ doneStatus[s] = "cancelled" => entity[j] = "cancelled"

\* Every stream ends, by a "done" event, a timeout or the client leaving,
\* even when no worker ever takes the job.
EveryStreamEnds ==
  \A s \in Streams : streamPc[s] = "poll" ~> streamPc[s] \in {"done", "timeout", "gone"}

=============================================================================
