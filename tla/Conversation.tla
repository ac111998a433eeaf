---------------------------- MODULE Conversation ----------------------------
(***************************************************************************)
(* ConversationRuntime (runtime/src/conversation.rs): the loop of run_turn *)
(* that alternates requests to the model with the tool calls the model     *)
(* asks for.  Each call passes the permission policy, the PreToolUse hook  *)
(* commands, the executor and the PostToolUse hook commands; every path    *)
(* ends in one tool result appended to the session.                        *)
(*                                                                         *)
(* A step is one interaction with the outside: a request, a reply, a       *)
(* question to the user, one hook command, one tool execution.  What a     *)
(* message says is abstracted; its role, the calls it carries, the call it *)
(* answers, the path that produced the answer and the usage are kept.      *)
(***************************************************************************)
EXTENDS Permissions, FiniteSets, Sequences, SequencesExt

CONSTANTS
  MaxIterations,  \* max_iterations: requests allowed in one turn
  PreHooks,       \* number of configured PreToolUse hook commands
  PostHooks,      \* number of configured PostToolUse hook commands
  UsageValues,    \* token counts a reply may report
  NoUsage,        \* stands for the absent usage (None)
  MaxTurns,       \* bound: turns started in one behaviour
  MaxCalls,       \* bound: tool calls that the model may choose freely
  Persistent      \* in which mode the model goes on asking for which tool

ASSUME ConversationAssumption ==
  /\ MaxIterations \in Nat
  /\ PreHooks \in Nat
  /\ PostHooks \in Nat
  /\ UsageValues \subseteq Nat
  /\ NoUsage \notin Nat
  /\ MaxTurns \in Nat
  /\ MaxCalls \in Nat
  /\ Persistent \subseteq Modes \X Tools

VARIABLES
  mode,        \* active mode of the permission policy
  session,     \* session.messages
  tracker,     \* usage_tracker: turns, latest and cumulative usage
  pc,          \* where run_turn is
  prompter,    \* did the caller of run_turn pass a prompter?
  iterations,  \* iterations of the loop in this turn
  calls,       \* pending_tool_uses of the current assistant message
  done,        \* number of pending calls already answered
  hook,        \* number of hook commands already run for this phase
  status,      \* outcome of the execution waiting for its post hooks
  result,      \* Result of the last run_turn
  turns,       \* bound: turns started so far
  nextId,      \* external: the provider numbers its tool calls
  executed,    \* history: ids of the calls handed to the executor
  approved     \* history: ids of the calls the user approved

vars == <<mode, session, tracker, pc, prompter, iterations, calls, done, hook,
          status, result, turns, nextId, executed, approved>>

-----------------------------------------------------------------------------
Call == [id : Nat, tool : Tools]

(* How a call was answered: refused by the policy, blocked by a PreToolUse *)
(* hook, executed with success or an error, or executed and then rejected  *)
(* by a PostToolUse hook.  All but "ok" carry is_error = true.             *)
RanStatuses == {"ok", "error", "vetoed"}
Statuses == RanStatuses \cup {"denied", "blocked"}

UserMessage      == [role : {"user"}]
AssistantMessage == [role : {"assistant"}, calls : Seq(Call),
                     usage : UsageValues \cup {NoUsage}]
ToolMessage      == [role : {"tool"}, id : Nat, status : Statuses]
SystemMessage    == [role : {"system"}]   \* a compaction summary
Message          == UserMessage \cup AssistantMessage \cup ToolMessage
                      \cup SystemMessage

EmptyTracker == [turns |-> 0, latest |-> 0, total |-> 0]

(* UsageTracker::record.                                                   *)
Recorded(t, usage) ==
  [turns |-> t.turns + 1, latest |-> usage, total |-> t.total + usage]

Track(t, usage) == IF usage = NoUsage THEN t ELSE Recorded(t, usage)

(* UsageTracker::from_session replays the usage stored in the messages.    *)
TrackerOf(messages) ==
  FoldLeft(LAMBDA t, m : IF m.role = "assistant" THEN Track(t, m.usage) ELSE t,
           EmptyTracker, messages)

(* The call the for loop over pending_tool_uses is at, the message that    *)
(* answers it, and where the loop goes from there.                         *)
current == calls[done + 1]

ResultForFirstCall(st) == [role |-> "tool", id |-> calls[1].id, status |-> st]
ResultMessage(st) == [role |-> "tool", id |-> current.id, status |-> st]

AfterAnswer == IF done + 1 = Len(calls) THEN "loop" ELSE "authorize"

(* After a reply: without calls the turn is over.  First a loop that looks *)
(* at the limit before it answers the calls of its last reply.             *)
LimitFirst(tools) ==
  IF tools = <<>> \/ iterations = MaxIterations THEN "idle" ELSE "authorize"
AfterReply(tools) == IF tools = <<>> THEN "idle" ELSE "authorize"

ToolPhases == {"authorize", "pre", "post"}

(* The test at the head of the loop, after iterations is incremented.      *)
(* First one that looks before it is.                                      *)
WithinLimitOffByOne == iterations <= MaxIterations
WithinLimit == iterations + 1 <= MaxIterations

(* The usage of a reply is recorded as soon as the reply is complete.      *)
TrackReply(usage) == Track(tracker, usage)

-----------------------------------------------------------------------------
Init ==
  /\ mode \in Modes
  /\ session = <<>>
  /\ tracker = EmptyTracker
  /\ pc = "idle"
  /\ prompter = FALSE
  /\ iterations = 0
  /\ calls = <<>>
  /\ done = 0
  /\ hook = 0
  /\ status = "ok"
  /\ result = "none"
  /\ turns = 0
  /\ nextId = 1
  /\ executed = <<>>
  /\ approved = {}

(* run_turn is called: the user's message is recorded first.               *)
StartTurn ==
  /\ pc = "idle"
  /\ turns < MaxTurns
  /\ turns' = turns + 1
  /\ prompter' \in BOOLEAN
  /\ session' = Append(session, [role |-> "user"])
  /\ iterations' = 0
  /\ result' = "running"
  /\ pc' = "loop"
  /\ UNCHANGED <<mode, tracker, calls, done, hook, status, nextId, executed,
                 approved>>

(* The head of the loop, below and above the iteration limit.              *)
SendRequest ==
  /\ pc = "loop"
  /\ WithinLimit
  /\ iterations' = iterations + 1
  /\ pc' = "stream"
  /\ UNCHANGED <<mode, session, tracker, prompter, calls, done, hook, status,
                 result, turns, nextId, executed, approved>>

ExceedIterations ==
  /\ pc = "loop"
  /\ ~ WithinLimit
  /\ iterations' = iterations + 1
  /\ pc' = "idle"
  /\ result' = "error"
  /\ UNCHANGED <<mode, session, tracker, prompter, calls, done, hook, status,
                 turns, nextId, executed, approved>>

(* stream returns an error, or its events end without a message stop or    *)
(* hold no content: the turn fails and the session keeps what it has.      *)
StreamFails ==
  /\ pc = "stream"
  /\ pc' = "idle"
  /\ result' = "error"
  /\ UNCHANGED <<mode, session, tracker, prompter, iterations, calls, done,
                 hook, status, turns, nextId, executed, approved>>

(* A complete reply that asks for the tools named in order; with no tool   *)
(* it is the answer that ends the turn.                                    *)
ReceiveReply(tools, usage) ==
  LET uses == [k \in 1..Len(tools) |-> [id |-> nextId + k - 1, tool |-> tools[k]]]
  IN /\ pc = "stream"
     /\ tracker' = TrackReply(usage)
     /\ session' = Append(session, [role |-> "assistant", calls |-> uses,
                                    usage |-> usage])
     /\ nextId' = nextId + Len(tools)
     /\ calls' = uses
     /\ done' = 0
     /\ hook' = 0
     /\ pc' = AfterReply(tools)
     /\ result' = IF tools = <<>> THEN "ok" ELSE result
     /\ UNCHANGED <<mode, prompter, iterations, status, turns, executed,
                    approved>>

(* The tail of the loop body: the answer is appended to the session.       *)
PushResult(st) ==
  /\ session' = Append(session, ResultMessage(st))
  /\ done' = done + 1
  /\ hook' = 0
  /\ status' = "ok"
  /\ pc' = AfterAnswer
  /\ UNCHANGED <<mode, tracker, prompter, iterations, calls, result, turns,
                 nextId>>

GrantCall ==
  /\ pc = "authorize"
  /\ Granted(mode, current.tool)
  /\ pc' = "pre"
  /\ UNCHANGED <<mode, session, tracker, prompter, iterations, calls, done,
                 hook, status, result, turns, nextId, executed, approved>>

UserApproves ==
  /\ pc = "authorize"
  /\ AsksUser(mode, current.tool)
  /\ prompter
  /\ approved' = approved \cup {current.id}
  /\ pc' = "pre"
  /\ UNCHANGED <<mode, session, tracker, prompter, iterations, calls, done,
                 hook, status, result, turns, nextId, executed>>

UserRefuses ==
  /\ pc = "authorize"
  /\ AsksUser(mode, current.tool)
  /\ prompter
  /\ PushResult("denied")
  /\ UNCHANGED <<executed, approved>>

DenyCall ==
  /\ pc = "authorize"
  /\ ~ Granted(mode, current.tool)
  /\ ~ (AsksUser(mode, current.tool) /\ prompter)
  /\ PushResult("denied")
  /\ UNCHANGED <<executed, approved>>

(* One hook command ran: exit status 2 denies, any other end of the        *)
(* command lets the next one run.                                          *)
PreHookPasses ==
  /\ pc = "pre"
  /\ hook < PreHooks
  /\ hook' = hook + 1
  /\ UNCHANGED <<mode, session, tracker, pc, prompter, iterations, calls, done,
                 status, result, turns, nextId, executed, approved>>

PreHookDenies ==
  /\ pc = "pre"
  /\ hook < PreHooks
  /\ PushResult("blocked")
  /\ UNCHANGED <<executed, approved>>

(* A failed execution is tried again, as a bug might have it.              *)
ExecuteAgain(st) ==
  /\ pc = "pre"
  /\ hook = PreHooks
  /\ Len(executed) < nextId
  /\ executed' = Append(executed, current.id)
  /\ status' = st
  /\ hook' = IF st = "ok" THEN 0 ELSE hook
  /\ pc' = IF st = "ok" THEN "post" ELSE "pre"
  /\ UNCHANGED <<mode, session, tracker, prompter, iterations, calls, done,
                 result, turns, nextId, approved>>

(* The executor runs the tool, with success or an error.                   *)
Execute(st) ==
  /\ pc = "pre"
  /\ hook = PreHooks
  /\ executed' = Append(executed, current.id)
  /\ status' = st
  /\ hook' = 0
  /\ pc' = "post"
  /\ UNCHANGED <<mode, session, tracker, prompter, iterations, calls, done,
                 result, turns, nextId, approved>>

PostHookPasses ==
  /\ pc = "post"
  /\ hook < PostHooks
  /\ hook' = hook + 1
  /\ UNCHANGED <<mode, session, tracker, pc, prompter, iterations, calls, done,
                 status, result, turns, nextId, executed, approved>>

PostHookDenies ==
  /\ pc = "post"
  /\ hook < PostHooks
  /\ PushResult("vetoed")
  /\ UNCHANGED <<executed, approved>>

RecordExecution ==
  /\ pc = "post"
  /\ hook = PostHooks
  /\ PushResult(status)
  /\ UNCHANGED <<executed, approved>>

ToolStep ==
  \/ GrantCall \/ UserApproves \/ UserRefuses \/ DenyCall
  \/ PreHookPasses \/ PreHookDenies
  \/ \E st \in {"ok", "error"} : Execute(st)
  \/ PostHookPasses \/ PostHookDenies \/ RecordExecution

(* What the model may answer.  A persistent one never runs out of calls:   *)
(* nothing but the limit of the iterations then need end the turn.         *)
CallsLeft == IF nextId <= MaxCalls THEN MaxCalls + 1 - nextId ELSE 0
OneMore   == {<<t>> : t \in {u \in Tools : <<mode, u>> \in Persistent}}
Replies   == OneMore \cup UNION {[1..n -> Tools] : n \in 0..CallsLeft}

TurnStep ==
  \/ SendRequest \/ ExceedIterations \/ StreamFails
  \/ \E tools \in Replies, usage \in UsageValues \cup {NoUsage} :
       ReceiveReply(tools, usage)
  \/ ToolStep

Next == StartTurn \/ TurnStep

(* run_turn never waits for its caller: once called it keeps going, given  *)
(* that the provider, the hooks and the tools return.                      *)
Spec == Init /\ [][Next]_vars /\ WF_vars(TurnStep)

-----------------------------------------------------------------------------
TypeOK ==
  /\ mode \in Modes
  /\ session \in Seq(Message)
  /\ tracker \in [turns : Nat, latest : Nat, total : Nat]
  /\ pc \in {"idle", "loop", "stream"} \cup ToolPhases
  /\ prompter \in BOOLEAN
  /\ iterations \in 0..(MaxIterations + 1)
  /\ (pc # "idle") => (iterations <= MaxIterations)
  /\ calls \in Seq(Call)
  /\ done \in 0..Len(calls)
  /\ (pc \in ToolPhases) => (done < Len(calls))
  /\ hook \in Nat
  /\ status \in {"ok", "error"}
  /\ result \in {"none", "running", "ok", "error"}
  /\ turns \in Nat
  /\ nextId \in Nat
  /\ executed \in Seq(Nat)
  /\ approved \subseteq Nat

(* The message at position i + k of msgs answers the k-th call of the      *)
(* assistant message at position i.                                        *)
AnswersCall(msgs, i, k) ==
  /\ i + k <= Len(msgs)
  /\ msgs[i + k].role = "tool"
  /\ msgs[i + k].id = msgs[i].calls[k].id

(* Every call is followed by its result, in the order of the calls.        *)
Answered(msgs) ==
  \A i \in 1..Len(msgs) :
    msgs[i].role = "assistant" =>
      \A k \in 1..Len(msgs[i].calls) : AnswersCall(msgs, i, k)

(* Every result belongs to a call of the assistant message it follows.     *)
NoOrphans(msgs) ==
  \A j \in 1..Len(msgs) :
    msgs[j].role = "tool" =>
      \E i \in 1..(j - 1) :
        /\ msgs[i].role = "assistant"
        /\ j - i \in 1..Len(msgs[i].calls)
        /\ msgs[j].id = msgs[i].calls[j - i].id

(* The provider accepts a request only if every tool call in it is         *)
(* followed by its results and every result has its call.  run_turn sends  *)
(* the whole session, and what its caller finds after success or failure   *)
(* is sent again by the next turn: so no path through the tool loop and no *)
(* error may have skipped, doubled or reordered an answer.                 *)
SessionIsComplete == pc \in {"stream", "idle"} => Answered(session) /\ NoOrphans(session)

(* The ids of the results in msgs whose tool really ran.                   *)
RanIds(msgs) ==
  FoldLeft(LAMBDA ids, m : IF m.role = "tool" /\ m.status \in RanStatuses THEN Append(ids, m.id) ELSE ids,
           <<>>, msgs)

(* The call with the given id, found in the session.                       *)
ToolOf(id) ==
  LET i == CHOOSE i \in 1..Len(session) :
             /\ session[i].role = "assistant"
             /\ \E k \in 1..Len(session[i].calls) : session[i].calls[k].id = id
      k == CHOOSE k \in 1..Len(session[i].calls) : session[i].calls[k].id = id
  IN session[i].calls[k].tool

(* The effects on the workspace and the transcript agree: the tools ran    *)
(* exactly once for each result that says so, in the transcript's order;   *)
(* only the execution whose post hooks are running is not yet recorded.    *)
EffectsMatchTranscript ==
  executed = RanIds(session) \o (IF pc = "post" THEN <<current.id>> ELSE <<>>)

(* A tool ran only if the active mode covers what the tool requires, or    *)
(* the user approved this very call.                                       *)
Consented(id, tool) ==
  Rank(mode) >= Rank(RequiredMode(tool)) \/ id \in approved

EffectsAreAuthorized ==
  \A n \in 1..Len(executed) : Consented(executed[n], ToolOf(executed[n]))

(* The report says of the Prompt mode that every tool call needs the       *)
(* user's confirmation.                                                    *)
PromptModeAsksEveryTime ==
  mode = "Prompt" => \A n \in 1..Len(executed) : executed[n] \in approved

(* The running totals are those a runtime rebuilt from the same session    *)
(* would compute: save and resume loses and invents no usage.              *)
UsageMatchesSession == tracker = TrackerOf(session)

(* What ran and what it cost is what the session says, and nothing ran     *)
(* without consent.                                                        *)
SessionTellsAll ==
  EffectsMatchTranscript /\ EffectsAreAuthorized /\ UsageMatchesSession

(* The inductive form of the completeness properties: during the tool loop *)
(* the last assistant message stands done results before the end of the    *)
(* session, its first done calls are answered, and all that precedes it is *)
(* complete.                                                               *)
CompleteBefore(msgs, a) ==
  \A i \in 1..Len(msgs) :
    (i # a /\ msgs[i].role = "assistant") =>
      \A k \in 1..Len(msgs[i].calls) : AnswersCall(msgs, i, k)

ToolLoopInv ==
  LET a == Len(session) - done
  IN /\ a >= 1
     /\ session[a].role = "assistant"
     /\ session[a].calls = calls
     /\ \A k \in 1..done : AnswersCall(session, a, k)
     /\ CompleteBefore(session, a)

CompletenessInv ==
  /\ pc \in ToolPhases => ToolLoopInv
  /\ pc \notin ToolPhases => Answered(session)
  /\ NoOrphans(session)

(* The replies of this turn: those that no later message of the user       *)
(* follows.                                                                *)
RepliesOf(msgs) ==
  {i \in 1..Len(msgs) :
     msgs[i].role = "assistant" /\ \A j \in i..Len(msgs) : msgs[j].role # "user"}

(* However long the model goes on asking for tools, a turn has no more     *)
(* requests than max_iterations allows: they are counted by what the       *)
(* session got in answer, not by the counter that the loop tests.  A turn  *)
(* that gives up has used all of them.                                     *)
RequestsAreBounded ==
  LET answered == Cardinality(RepliesOf(session)) IN
  /\ pc = "stream" => answered < MaxIterations
  /\ answered <= MaxIterations
  /\ iterations > MaxIterations => answered = MaxIterations

(* Every turn ends, in an answer or an error, also one in which the model  *)
(* always asks for a tool more: its requests are bounded, and each of them *)
(* and of the calls in between comes to an end.                            *)
TurnTerminates ==
  /\ [][RequestsAreBounded']_vars
  /\ (pc # "idle") ~> (pc = "idle")

-----------------------------------------------------------------------------
(* Conversation implements Transcript: the log forgets usage and outcome,  *)
(* the debt is what is left of the pending calls.                          *)
EntryOf(m) ==
  CASE m.role = "assistant" ->
         [who |-> "assistant", ids |-> [k \in 1..Len(m.calls) |-> m.calls[k].id]]
    [] m.role = "tool" -> [who |-> "tool", id |-> m.id]
    [] OTHER -> [who |-> m.role]

LogOf(msgs) == [n \in 1..Len(msgs) |-> EntryOf(msgs[n])]

OwedIds ==
  IF pc \in ToolPhases
  THEN [k \in 1..(Len(calls) - done) |-> calls[done + k].id]
  ELSE <<>>

T == INSTANCE Transcript
       WITH log <- LogOf(session), owed <- OwedIds, open <- (pc # "idle")

(* Every step of run_turn is a step of the abstract transcript or changes  *)
(* nothing in it, and a call that waits for its result gets it.            *)
ImplementsTranscript == T!TSpec

=============================================================================
