--------------------------- MODULE ChildProcesses ---------------------------
(***************************************************************************)
(* A command that a tool or a hook runs in a process of its own, from the  *)
(* spawn to the answer: bash (runtime/src/bash.rs), PowerShell and the     *)
(* REPL (tools/src/lib.rs), the tools and lifecycle commands of plugins    *)
(* (plugins/src/lib.rs), hooks (runtime/src/hooks.rs and, with the same    *)
(* code, plugins/src/hooks.rs).  They differ in what the process has for   *)
(* its input, in who reads its output and when, and in what a timeout      *)
(* does.  The process does what its program says: it reads its input or    *)
(* closes it, writes, and may leave another one behind that keeps its      *)
(* output open.  It ends by itself, with a status, or is ended by a signal.*)
(***************************************************************************)
EXTENDS Naturals, FiniteSets, Sequences, SequencesExt

CONSTANTS
  Invocations,  \* [way, limit, background, payload]: what is run, and how
  Programs,     \* [steps, ends, code]: what the process then does, if nobody ends it
  Capacity,     \* bytes a pipe holds
  EnvLimit      \* bytes one environment variable holds

Ways == {"bash", "powershell", "repl", "lifecycle", "tool", "hook"}

ASSUME ProcessAssumption ==
  /\ Capacity \in Nat \ {0} /\ EnvLimit \in Nat
  /\ \A i \in Invocations : i.way \in Ways /\ i.payload \in Nat
  /\ \A p \in Programs : p.steps \in Seq({"read", "close", "write", "leave"}) /\ p.code \in 0..255

VARIABLES
  invocation, program,
  caller,   \* idle, start, feed, poll, kill, wait, gather, told
  child,    \* none, running, ended, signalled, or killed by the caller
  at,       \* the step of the program it is at
  listens,  \* has the process its input open?
  input,    \* bytes in the pipe to the process
  fed,      \* bytes of the payload written to it
  output,   \* bytes in the pipe from the process
  written,  \* history: bytes the process has written for the caller
  taken,    \* bytes the caller has read
  holder,   \* does a process that was left behind hold the output open?
  late,     \* is the timeout over?
  answer    \* what the caller is told

processVars == <<invocation, program, caller, child, at, listens, input, fed, output, written,
                 taken, holder, late, answer>>

Way == invocation.way

(* A payload goes to hooks and plugin tools.  Of the others, those whose   *)
(* caller sets no input and waits by itself inherit the terminal's (tokio's*)
(* output does so, too); the rest have none.                               *)
Fed == Way \in {"tool", "hook"}
AtTerminal ==
  ~invocation.background /\ (Way = "bash" \/ (Way = "powershell" /\ invocation.limit))

Untold == [kind |-> "none"]

ProcessInit ==
  /\ invocation \in Invocations /\ program \in Programs
  /\ caller \in {"idle", "start"} /\ child = "none" /\ at = 1 /\ listens = TRUE
  /\ input = 0 /\ fed = 0 /\ output = 0 /\ written = 0 /\ taken = 0
  /\ holder = FALSE /\ late = FALSE /\ answer = Untold

Told(what) == caller' = "told" /\ answer' = what

-----------------------------------------------------------------------------
(* The caller.                                                             *)

(* Where it goes on; one that runs in the background is answered at once.  *)
Watching ==
  IF Fed THEN "feed"
  ELSE IF Way = "powershell" /\ invocation.limit THEN "poll"
  ELSE "wait"

(* The payload is in the environment, too, where its size has a limit.     *)
Start ==
  /\ caller = "start" /\ invocation.payload <= EnvLimit
  /\ child' = "running"
  /\ IF invocation.background
     THEN Told([kind |-> "started"])
     ELSE caller' = Watching /\ UNCHANGED answer
  /\ UNCHANGED <<invocation, program, at, listens, input, fed, output, written, taken, holder,
                 late>>

StartFails ==
  /\ caller = "start"
  /\ Told([kind |-> "unstarted"])
  /\ UNCHANGED <<invocation, program, child, at, listens, input, fed, output, written, taken,
                 holder, late>>

(* write_all, before anything is read; it fails when the process is gone   *)
(* or has closed its input.  Then the process is left to itself.           *)
Listening == child = "running" /\ listens
Feed ==
  /\ caller = "feed" /\ fed < invocation.payload
  /\ \/ /\ Listening /\ input < Capacity
        /\ fed' = fed + 1 /\ input' = input + 1
        /\ UNCHANGED <<caller, answer>>
     \/ /\ ~Listening
        /\ Told([kind |-> "broken"])
        /\ UNCHANGED <<fed, input>>
  /\ UNCHANGED <<invocation, program, child, at, listens, output, written, taken, holder, late>>

(* Then the pipe is closed.  First, one that stays open while the caller   *)
(* waits.                                                                  *)
NeverClosed == FALSE
InputClosed == caller \notin {"start", "feed"}

FeedEnds ==
  /\ caller = "feed" /\ fed = invocation.payload
  /\ caller' = "wait"
  /\ UNCHANGED <<invocation, program, child, at, listens, input, fed, output, written, taken,
                 holder, late, answer>>

(* PowerShell with a timeout: the process is polled.  Its output is read   *)
(* when it has ended or, after the timeout, was killed -- if it has not    *)
(* ended since it was looked at.                                           *)
Poll ==
  /\ caller = "poll"
  /\ \/ child \in {"ended", "signalled"} /\ caller' = "wait"
     \/ child = "running" /\ late /\ caller' = "kill"
  /\ UNCHANGED <<invocation, program, child, at, listens, input, fed, output, written, taken,
                 holder, late, answer>>

Kill ==
  /\ caller = "kill"
  /\ caller' = "gather"
  /\ child' = IF child = "running" THEN "killed" ELSE child
  /\ UNCHANGED <<invocation, program, at, listens, input, fed, output, written, taken, holder, late,
                 answer>>

(* What is told of the status.  A signal leaves none: bash and PowerShell  *)
(* then tell nothing, as they do of 0; the REPL tells 1; a plugin's tool   *)
(* or command fails, and for a hook it is a case of its own.               *)
NoCode == 256
StatusOr(otherwise) == IF child = "ended" THEN program.code ELSE otherwise
ShellCode == StatusOr(0)
ReplCode  == StatusOr(1)
OwnCode   == StatusOr(NoCode)
CodeTold ==
  CASE Way \in {"bash", "powershell"} -> ShellCode
    [] Way = "repl" -> ReplCode
    [] OTHER -> OwnCode

(* wait_with_output reads until nobody holds the output any more.          *)
Take ==
  /\ caller \in {"wait", "gather"} /\ output > 0
  /\ output' = output - 1 /\ taken' = taken + 1
  /\ UNCHANGED <<invocation, program, caller, child, at, listens, input, fed, written, holder, late,
                 answer>>

(* First, a caller that leaves unread what is in the pipe when the process *)
(* ends.                                                                   *)
EndIsEnough == ~holder
OutputOver == output = 0 /\ ~holder

WaitEnds ==
  /\ caller \in {"wait", "gather"} /\ child # "running" /\ OutputOver
  /\ Told(IF caller = "gather" THEN [kind |-> "timeout", output |-> taken]
          ELSE [kind |-> "done", code |-> CodeTold, output |-> taken])
  /\ UNCHANGED <<invocation, program, child, at, listens, input, fed, output, written, taken,
                 holder, late>>

(* bash: at the timeout the future is dropped, and with it the pipes, but  *)
(* the process goes on.                                                    *)
GiveUpWaiting ==
  /\ caller = "wait" /\ Way = "bash" /\ late
  /\ Told([kind |-> "timeout", output |-> 0])
  /\ UNCHANGED <<invocation, program, child, at, listens, input, fed, output, written, taken,
                 holder, late>>

-----------------------------------------------------------------------------
(* The process: external.                                                  *)
Goes == at' = at + 1
Does(what) == child = "running" /\ at <= Len(program.steps) /\ program.steps[at] = what

(* It reads its input to the end.  The terminal has one when the user says *)
(* so.                                                                     *)
ReadOn ==
  /\ Does("read") /\ input > 0
  /\ input' = input - 1
  /\ UNCHANGED <<at, child, listens, output, written, holder>>

ReadToEnd ==
  /\ Does("read") /\ input = 0
  /\ ~listens \/ (~AtTerminal /\ (Fed => InputClosed))
  /\ Goes
  /\ UNCHANGED <<child, listens, input, output, written, holder>>

UserEndsInput ==
  /\ Does("read") /\ AtTerminal
  /\ Goes
  /\ UNCHANGED <<child, listens, input, output, written, holder>>

(* It closes its input; what is in the pipe is lost.                       *)
Close ==
  /\ Does("close")
  /\ Goes /\ listens' = FALSE /\ input' = 0
  /\ UNCHANGED <<child, output, written, holder>>

(* A write waits while the pipe is full; when nobody is left to read, a    *)
(* signal ends the process.                                                *)
Write ==
  /\ Does("write")
  /\ \/ /\ invocation.background
        /\ Goes /\ UNCHANGED <<child, output, written>>
     \/ /\ ~invocation.background /\ caller # "told" /\ output < Capacity
        /\ Goes /\ output' = output + 1 /\ written' = written + 1 /\ UNCHANGED child
     \/ /\ ~invocation.background /\ caller = "told"
        /\ child' = "signalled" /\ UNCHANGED <<at, output, written>>
  /\ UNCHANGED <<listens, input, holder>>

Leave ==
  /\ Does("leave")
  /\ Goes /\ holder' = TRUE
  /\ UNCHANGED <<child, listens, input, output, written>>

Exit ==
  /\ child = "running" /\ at > Len(program.steps) /\ program.ends
  /\ child' = "ended"
  /\ UNCHANGED <<at, listens, input, output, written, holder>>

(* Somebody else, or a fault, ends it wherever it is.                      *)
Signalled ==
  /\ child = "running"
  /\ child' = "signalled"
  /\ UNCHANGED <<at, listens, input, output, written, holder>>

HolderEnds ==
  /\ holder
  /\ holder' = FALSE
  /\ UNCHANGED <<at, child, listens, input, output, written>>

Time ==
  /\ invocation.limit /\ child # "none" /\ ~late
  /\ late' = TRUE
  /\ UNCHANGED <<invocation, program, caller, child, at, listens, input, fed, output, written,
                 taken, holder, answer>>

ChildStep  == ReadOn \/ ReadToEnd \/ Close \/ Write \/ Leave \/ Exit
CallerStep ==
  Start \/ StartFails \/ Feed \/ FeedEnds \/ Poll \/ Kill \/ Take \/ WaitEnds \/ GiveUpWaiting

Elsewhere == <<invocation, program, caller, fed, taken, late, answer>>

ProcessNext ==
  \/ CallerStep
  \/ (ChildStep \/ UserEndsInput \/ Signalled \/ HolderEnds) /\ UNCHANGED Elsewhere
  \/ Time

(* The caller's thread runs, and so does the process unless it waits for   *)
(* something; time passes.  Nothing makes a user or a process that was     *)
(* left behind end.                                                        *)
ProcessFairness ==
  /\ WF_processVars(CallerStep) /\ WF_processVars(Time)
  /\ WF_processVars(ChildStep /\ UNCHANGED Elsewhere)

ProcessSpec == ProcessInit /\ [][ProcessNext]_processVars /\ ProcessFairness

-----------------------------------------------------------------------------
Writes == {n \in DOMAIN program.steps : program.steps[n] = "write"}

(* How much it writes before it reads its input or closes it.              *)
Unread ==
  LET reads == {n \in DOMAIN program.steps : program.steps[n] \in {"read", "close"}} IN
  Cardinality({n \in Writes : \A r \in reads : n < r})

(* Does the caller write to a process that waits for it to read?           *)
Clogs == Fed /\ invocation.payload > Capacity /\ Unread > Capacity

(* What it takes for a call to come back.  In the background, or in bash   *)
(* with a timeout, nothing.  Else nobody may be left behind that holds the *)
(* output; and without a timeout -- which the REPL does not have -- the    *)
(* process must end, must not read from the terminal, and must not write   *)
(* more than a pipe holds before it has read a payload that is larger, too.*)
ComesBack ==
  \/ invocation.background
  \/ Way = "bash" /\ invocation.limit
  \/ /\ "leave" \notin ToSet(program.steps)
     /\ \/ Way = "powershell" /\ invocation.limit
        \/ program.ends /\ ~Clogs /\ ~(AtTerminal /\ "read" \in ToSet(program.steps))

CallsComeBack == (caller = "start" /\ ComesBack) ~> (caller = "told")

(* HookCommandOutcome.                                                     *)
Outcome ==
  IF answer.kind # "done" THEN "warn"
  ELSE CASE answer.code = 0 -> "allow" [] answer.code = 2 -> "deny" [] OTHER -> "warn"

(* The answer is what the process did.  One that is done has ended, with   *)
(* all it wrote in the answer: by itself, after its last step, and with    *)
(* this code -- or by a signal, and then nobody but bash and PowerShell    *)
(* tells of it what they tell of a success.  A timeout is told only when   *)
(* it is over, with what was written by then, and the process is dead --   *)
(* but for bash, whose timeout tells no output and leaves it running, as   *)
(* does the background.  A caller gives up writing only to a process that  *)
(* will not read on; that one may run on, too.  PowerShell with a timeout  *)
(* never tells of more output than a pipe holds: nobody reads before the   *)
(* process has ended.                                                      *)
AnswersAreTrue ==
  caller = "told" =>
    /\ answer.kind = "done" =>
         /\ child \in {"ended", "signalled"} /\ answer.output = written
         /\ ~invocation.background
         /\ child = "ended" =>
              /\ at > Len(program.steps) /\ written = Cardinality(Writes)
              /\ answer.code = program.code
         /\ child = "signalled" /\ answer.code = 0 => Way \in {"bash", "powershell"}
         /\ Way = "powershell" /\ invocation.limit => answer.output <= Capacity
    /\ answer.kind = "timeout" =>
         late /\ (Way = "powershell" => child # "running" /\ answer.output = written)
    /\ child = "running" =>
         \/ answer.kind = "started" \/ (answer.kind = "timeout" /\ Way = "bash")
         \/ answer.kind = "broken" /\ ~listens
    /\ answer.kind = "broken" => fed < invocation.payload /\ ~Listening

(* A hook that ends with status 2 denies the call, as its tests say -- also*)
(* one that does not read its input, or closes it.                         *)
DenialsAreHeard ==
  caller = "told" /\ Way = "hook" /\ child = "ended" /\ program.code = 2 => Outcome = "deny"
=============================================================================
