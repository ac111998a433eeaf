-------------------------- MODULE ProgressReports --------------------------
(***************************************************************************)
(* The progress lines of /ultraplan (claw-cli/src/main.rs).  The thread of *)
(* the turn raises the step of a shared state and prints a line about it;  *)
(* a heartbeat thread prints the state whenever it has waited long enough, *)
(* until it is told to stop.  The state and the output have a lock each,   *)
(* and a line is printed from a copy of the state taken before.            *)
(***************************************************************************)
EXTENDS Naturals, Sequences

CONSTANTS
  MaxMarks,   \* bound: steps of the turn
  MaxBeats    \* bound: heartbeats

ASSUME ProgressAssumption == MaxMarks \in Nat /\ MaxBeats \in Nat

VARIABLES
  report,     \* the shared state: step, phase and saw_final_text
  turn,       \* where the thread of the turn is
  copy,       \* the copy of the state it prints
  ending,     \* the line the turn ends with, or none
  beat,       \* where the heartbeat thread is
  stale,      \* the copy of the state the heartbeat prints
  told,       \* has the stop been sent?
  printed,    \* the lines printed so far
  phases      \* history: the phase of each step

progressVars == <<report, turn, copy, ending, beat, stale, told, printed, phases>>

-----------------------------------------------------------------------------
Planning == [step |-> 0, phase |-> "planning", final |-> FALSE]
Marks    == {"model", "text", "tool"}
Endings  == {"complete", "failed"}

Line(event, state) == [event |-> event, step |-> state.step, phase |-> state.phase]
Beats == Len(SelectSeq(printed, LAMBDA line : line.event = "heartbeat"))

ProgressInit ==
  /\ report = Planning /\ copy = Planning /\ stale = Planning
  /\ turn \in {"never", "started"} /\ ending = "none"
  /\ beat = "none" /\ told = FALSE
  /\ printed = <<>> /\ phases = <<>>

(* write_line: a whole line, under the output lock.                        *)
PrintLine(event, state) == printed' = Append(printed, Line(event, state))

(* start_ultraplan prints the first line and then starts the heartbeat.    *)
StartUltraplan ==
  /\ turn = "started"
  /\ PrintLine("started", copy)
  /\ turn' = "running" /\ beat' = "waiting"
  /\ UNCHANGED <<report, copy, ending, stale, told, phases>>

(* mark_model_phase, mark_tool_phase, mark_text_phase: only the first text *)
(* of the turn counts.  The copy is taken under the lock of the change.    *)
Marked(mark) ==
  [step |-> report.step + 1, phase |-> mark, final |-> report.final \/ mark = "text"]

Mark(mark) ==
  /\ turn = "running" /\ report.step < MaxMarks
  /\ mark = "text" => ~report.final
  /\ report' = Marked(mark) /\ copy' = report'
  /\ phases' = Append(phases, mark)
  /\ turn' = "marked"
  /\ UNCHANGED <<ending, beat, stale, told, printed>>

PrintMark ==
  /\ turn = "marked"
  /\ PrintLine("update", copy)
  /\ turn' = "running"
  /\ UNCHANGED <<report, copy, ending, beat, stale, told, phases>>

(* finish_success and finish_failure, when the turn has returned: the stop *)
(* is sent and the heartbeat thread joined before the last line.           *)
Finish(event) ==
  /\ turn = "running"
  /\ ending' = event /\ turn' = "joining"
  /\ told' = TRUE
  /\ UNCHANGED <<report, copy, beat, stale, printed, phases>>

(* Below, a join that does not wait.                                       *)
NotAwaited    == TRUE
HeartbeatGone == beat = "gone"

Join ==
  /\ turn = "joining" /\ HeartbeatGone
  /\ copy' = report /\ turn' = "ending"
  /\ UNCHANGED <<report, ending, beat, stale, told, printed, phases>>

PrintEnding ==
  /\ turn = "ending"
  /\ PrintLine(ending, copy)
  /\ turn' = "over"
  /\ UNCHANGED <<report, copy, ending, beat, stale, told, phases>>

(* The heartbeat thread: recv_timeout finds the stop, or it runs out and   *)
(* the state is copied and, later, printed.                                *)
Stopped == told

HeartbeatStops ==
  /\ beat = "waiting" /\ Stopped
  /\ beat' = "gone"
  /\ UNCHANGED <<report, turn, copy, ending, stale, told, printed, phases>>

HeartbeatDue ==
  /\ beat = "waiting" /\ ~Stopped /\ Beats < MaxBeats
  /\ stale' = report /\ beat' = "due"
  /\ UNCHANGED <<report, turn, copy, ending, told, printed, phases>>

PrintHeartbeat ==
  /\ beat = "due"
  /\ PrintLine("heartbeat", stale)
  /\ beat' = "waiting"
  /\ UNCHANGED <<report, turn, copy, ending, stale, told, phases>>

-----------------------------------------------------------------------------
Heartbeat == HeartbeatStops \/ HeartbeatDue \/ PrintHeartbeat
Finishing == Join \/ PrintEnding
Turn      == StartUltraplan \/ (\E mark \in Marks : Mark(mark)) \/ PrintMark
             \/ (\E event \in Endings : Finish(event)) \/ Finishing

ProgressNext == Turn \/ Heartbeat

(* Both threads are scheduled; nothing says the turn ever returns.         *)
ProgressFairness == WF_progressVars(Finishing) /\ WF_progressVars(Heartbeat)
ProgressSpec == ProgressInit /\ [][ProgressNext]_progressVars /\ ProgressFairness

-----------------------------------------------------------------------------
Printed(event) == {i \in DOMAIN printed : printed[i].event = event}
PhaseOf(step)  == IF step = 0 THEN "planning" ELSE phases[step]

(* The lines that report the steps come in the order of the steps, and     *)
(* none is left out; the heartbeats, which may print a step late, never go *)
(* back behind an earlier heartbeat; a line names a step with its own      *)
(* phase, and nothing is printed after the line that ends the run.         *)
ReportsInOrder ==
  /\ \A i, j \in Printed("update") : i < j => printed[i].step < printed[j].step
  /\ \A i, j \in Printed("heartbeat") : i < j => printed[i].step <= printed[j].step
  /\ \A k \in 1..report.step :
       (turn = "marked" /\ k = report.step) \/ \E i \in Printed("update") : printed[i].step = k
  /\ \A i \in DOMAIN printed :
       /\ printed[i].step <= report.step
       /\ printed[i].phase = PhaseOf(printed[i].step)
       /\ printed[i].event \in Endings => i = Len(printed) /\ printed[i].step = report.step

(* When the turn has returned, the run ends with its line: the heartbeat   *)
(* hears of the stop, however long it has yet to wait.                     *)
FinishReturns == (turn = "joining") ~> (turn = "over")
=============================================================================
