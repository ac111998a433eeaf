--------------------------- MODULE MCConversation ---------------------------
(***************************************************************************)
(* Small instances of a turn and of what its calls run in: the turn itself *)
(* with one tool that only reads and one with no registered requirement;   *)
(* the isolation of a bash command; the process of a tool or a hook.  These*)
(* share no state, and a behaviour is about one of them.                   *)
(***************************************************************************)
EXTENDS Conversation, Sandbox, ChildProcesses

TwoTools == {"read_file", "bash"}
TwoRequirements == [t \in {"read_file"} |-> "ReadOnly"]

(* A model that may go on asking for a tool it is allowed.                 *)
OnePersistent == {<<"ReadOnly", "read_file">>}

(* All that a call may wish for but for one namespace or mount more.       *)
MCWishes ==
  [enabled : {{}, {TRUE}, {FALSE}}, namespaces : {{}, {FALSE}}, network : {{}, {TRUE}},
   filesystem : {{}, {"off"}, {"allow-list"}}, mounts : {{}, {{"logs"}}}]
MCSettings ==
  {Silent, [Silent EXCEPT !.enabled = {FALSE}], [Silent EXCEPT !.filesystem = {"off"}],
   [Silent EXCEPT !.namespaces = {FALSE}, !.network = {TRUE}]}
MCMachines == {[unshare |-> TRUE, traces |-> {}], [unshare |-> FALSE, traces |-> {"cgroup"}]}

(* A payload that is below, at or above what a pipe and an environment     *)
(* variable hold, for those that have one.                                 *)
Invocation(ways, limits, grounds, payloads) ==
  [way : ways, limit : limits, background : grounds, payload : payloads]
MCInvocations ==
  Invocation({"tool", "hook"}, {FALSE}, {FALSE}, 1..3)
    \cup Invocation({"bash", "powershell"}, BOOLEAN, BOOLEAN, {0})
    \cup Invocation({"lifecycle"}, {FALSE}, {FALSE}, {0})
    \cup Invocation({"repl"}, BOOLEAN, {FALSE}, {0})
MCPrograms ==
  [steps : BoundedSeq({"read", "close", "write", "leave"}, 3), ends : BOOLEAN, code : {0, 2}]

VARIABLE about    \* turns, isolation or processes

(* What a behaviour is not about is in one state and takes no step.        *)
NoTurn    == mode = "ReadOnly" /\ prompter = FALSE
NoSandbox == machine = [unshare |-> TRUE, traces |-> {}] /\ settings = Silent /\ readable = TRUE
NoProcess ==
  /\ caller = "idle"
  /\ invocation = [way |-> "bash", limit |-> TRUE, background |-> TRUE, payload |-> 0]
  /\ program = [steps |-> <<>>, ends |-> TRUE, code |-> 0]

TheInit ==
  /\ \/ about = "turns"     /\ NoSandbox /\ NoProcess
     \/ about = "isolation" /\ NoTurn /\ NoProcess
     \/ about = "processes" /\ NoTurn /\ NoSandbox
  /\ Init /\ SandboxInit /\ ProcessInit
  /\ about = "processes" => caller = "start"

TheNext ==
  /\ UNCHANGED about
  /\ \/ about = "turns"     /\ Next /\ UNCHANGED <<sandboxVars, processVars>>
     \/ about = "isolation" /\ SandboxNext /\ UNCHANGED <<vars, processVars>>
     \/ about = "processes" /\ ProcessNext /\ UNCHANGED <<vars, sandboxVars>>

TheSpec ==
  /\ TheInit /\ [][TheNext]_<<vars, sandboxVars, processVars, about>>
  /\ WF_vars(TurnStep) /\ ProcessFairness
=============================================================================
