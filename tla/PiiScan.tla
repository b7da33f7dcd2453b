------------------------------ MODULE PiiScan ------------------------------
(***************************************************************************)
(* scan_text of governance/pii.py over the texts of one source: every      *)
(* recognizer's pattern is run under a time budget.  On the main thread    *)
(* the budget is an interval timer whose signal handler raises; elsewhere  *)
(* a helper thread runs the pattern and is joined for the budget, and a    *)
(* helper that does not finish in time is abandoned, to finish whenever it *)
(* does.  What the patterns match is a choice.                             *)
(***************************************************************************)
EXTENDS Naturals, FiniteSets

CONSTANTS
  NTexts,         \* texts scanned one after the other: the source, its chunks
  NRecognizers,
  Offsets         \* where a pattern may match; at odd offsets the validator agrees

ASSUME ScanSizeAssumption == NTexts \in Nat \ {0} /\ NRecognizers \in Nat \ {0}

VARIABLES
  mainThread,     \* configuration: the scan runs on the main thread
  bounded,        \* configuration: per recognizer, timeout_seconds > 0
  matches,        \* per text and recognizer: what the pattern matches
  text, recognizer,
  running,        \* "next", "direct", "alarmed", "returning", "disarmed", "joining", "over"
  armed,          \* the interval timer runs
  handler, saved, \* who handles SIGALRM, "theirs" or "ours"; previous_handler
  helper,         \* per text and recognizer: "none", "running", "finished"
  findings,       \* per text: the findings collected
  timedOut        \* history: the scans that were given up

scanInputs == <<mainThread, bounded, matches>>
handlers == <<handler, saved>>
piiVars == <<scanInputs, text, recognizer, running, armed, handlers, helper, findings, timedOut>>

Scans == (1..NTexts) \X (1..NRecognizers)
Here == <<text, recognizer>>

PiiInit ==
  /\ mainThread \in BOOLEAN
  /\ bounded \in [1..NRecognizers -> BOOLEAN]
  /\ matches \in [Scans -> SUBSET Offsets]
  /\ text = 1
  /\ recognizer = 1
  /\ running = "next"
  /\ armed = FALSE
  /\ handler = "theirs"
  /\ saved = "theirs"
  /\ helper = [s \in Scans |-> "none"]
  /\ findings = [t \in 1..NTexts |-> {}]
  /\ timedOut = {}

\* _do_scan: the matches the recognizer's validator does not reject
_do_scan(s) == {<<s[2], o>> : o \in {o \in matches[s] : o % 2 = 1}}

\* On to the next recognizer, the next text, or the end
Advance ==
  /\ recognizer' = IF recognizer < NRecognizers THEN recognizer + 1 ELSE 1
  /\ text' = IF recognizer < NRecognizers THEN text ELSE text + 1
  /\ running' = IF recognizer = NRecognizers /\ text = NTexts THEN "over" ELSE "next"

Collect(found) == findings' = [findings EXCEPT ![text] = @ \cup found]

\* The recognizer contributes nothing: except RegexTimeoutError, return []
GiveUp ==
  /\ timedOut' = timedOut \cup {Here}
  /\ Advance
  /\ UNCHANGED findings

-----------------------------------------------------------------------------
\* _run_with_timeout: no budget, the interval timer, or a helper thread
_run_with_timeout ==
  /\ running = "next"
  /\ \/ /\ ~bounded[recognizer]
        /\ running' = "direct"
        /\ UNCHANGED <<armed, handlers, helper>>
     \/ /\ bounded[recognizer] /\ mainThread
        /\ running' = "alarmed"
        /\ armed' = TRUE
        /\ saved' = handler
        /\ handler' = "ours"
        /\ UNCHANGED helper
     \/ /\ bounded[recognizer] /\ ~mainThread
        /\ running' = "joining"
        /\ helper' = [helper EXCEPT ![Here] = "running"]
        /\ UNCHANGED <<armed, handlers>>
  /\ UNCHANGED <<scanInputs, text, recognizer, findings, timedOut>>

scan_direct ==
  /\ running = "direct"
  /\ Collect(_do_scan(Here))
  /\ Advance
  /\ UNCHANGED <<scanInputs, armed, handlers, helper, timedOut>>

\* func() has returned; the finally block has not begun
func_returns ==
  /\ running = "alarmed"
  /\ running' = "returning"
  /\ UNCHANGED <<scanInputs, text, recognizer, armed, handlers, helper, findings, timedOut>>

\* The finally block: the timer is stopped, then the handler put back
disarm ==
  /\ running = "returning"
  /\ armed' = FALSE
  /\ running' = "disarmed"
  /\ UNCHANGED <<scanInputs, text, recognizer, handlers, helper, findings, timedOut>>

restore_handler ==
  /\ running = "disarmed"
  /\ handler' = saved
  /\ Collect(_do_scan(Here))
  /\ Advance
  /\ UNCHANGED <<scanInputs, armed, saved, helper, timedOut>>

\* The timer goes off inside func: the finally block runs on the way out.
\* Before the try statement, or after func has returned, the exception
\* leaves with the handler still in place.
alarm ==
  /\ armed
  /\ armed' = FALSE
  /\ \/ running = "alarmed" /\ handler' = saved
     \/ UNCHANGED handler
  /\ GiveUp
  /\ UNCHANGED <<scanInputs, saved, helper>>

\* A helper finishes, in time or long after it was abandoned
helper_finishes(s) ==
  /\ helper[s] = "running"
  /\ helper' = [helper EXCEPT ![s] = "finished"]
  /\ UNCHANGED <<scanInputs, text, recognizer, running, armed, handlers, findings, timedOut>>

\* Mutant: the helpers of a recognizer append to one list
join_returns_shared ==
  /\ running = "joining"
  /\ helper[Here] = "finished"
  /\ Collect(UNION {_do_scan(s) : s \in {s \in Scans : s[2] = recognizer /\ helper[s] = "finished"}})
  /\ Advance
  /\ UNCHANGED <<scanInputs, armed, handlers, helper, timedOut>>

\* join returns and the helper is not alive: its own list has the result
join_returns ==
  /\ running = "joining"
  /\ helper[Here] = "finished"
  /\ Collect(_do_scan(Here))
  /\ Advance
  /\ UNCHANGED <<scanInputs, armed, handlers, helper, timedOut>>

\* join times out and the helper is still alive
join_times_out ==
  /\ running = "joining"
  /\ helper[Here] = "running"
  /\ GiveUp
  /\ UNCHANGED <<scanInputs, armed, handlers, helper>>

_scan_one ==
  \/ _run_with_timeout
  \/ scan_direct
  \/ func_returns \/ disarm \/ restore_handler \/ alarm
  \/ join_returns \/ join_times_out

PiiNext == _scan_one \/ \E s \in Scans : helper_finishes(s)

PiiSpec == PiiInit /\ [][PiiNext]_piiVars

-----------------------------------------------------------------------------
(* Properties *)

\* The scans before the one under way
ScanPast(s) == s[1] < text \/ (s[1] = text /\ s[2] < recognizer)

\* Every recognizer contributes all of its validated matches to its own text,
\* or nothing when it ran out of time: no partial result, none of an abandoned
\* helper that finishes late, none from an alarm that goes off outside the
\* pattern it was set for.
FindingsAreWhole ==
  /\ \A t \in 1..NTexts :
       findings[t] = UNION {_do_scan(s) : s \in {s \in Scans : s[1] = t /\ ScanPast(s) /\ s \notin timedOut}}
  /\ armed => running \in {"alarmed", "returning"}
=============================================================================
