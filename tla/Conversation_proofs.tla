------------------------ MODULE Conversation_proofs ------------------------
(***************************************************************************)
(* Proofs about a turn and what its calls run in.  Of Conversation: type   *)
(* correctness, completeness of every request, consent to every effect,    *)
(* and that what ran and what it cost is in the session; of Sandbox, that  *)
(* the answer tells the isolation; of ChildProcesses, that an answer is    *)
(* what the process did.                                                   *)
(***************************************************************************)
EXTENDS Conversation, Sandbox, ChildProcesses, SequenceTheorems, FiniteSetTheorems, TLAPS

USE DEF Call, RanStatuses, Statuses, ToolPhases

-----------------------------------------------------------------------------
(* Recording a usage keeps the tracker a record of naturals.               *)
LEMMA TrackType ==
  ASSUME NEW t \in [turns : Nat, latest : Nat, total : Nat],
         NEW usage \in UsageValues \cup {NoUsage}
  PROVE  Track(t, usage) \in [turns : Nat, latest : Nat, total : Nat]
<1>1. CASE usage = NoUsage
  BY <1>1 DEF Track
<1>2. CASE usage \in UsageValues
  <2>1. usage \in Nat
    BY <1>2, ConversationAssumption
  <2>2. Recorded(t, usage) \in [turns : Nat, latest : Nat, total : Nat]
    BY <2>1 DEF Recorded
  <2>. QED BY <2>2 DEF Track
<1>. QED BY <1>1, <1>2

(* Every reply the model enumerates is a finite sequence of tools.         *)
LEMMA RepliesType ==
  ASSUME NEW tools \in Replies
  PROVE  /\ tools \in Seq(Tools)
         /\ Len(tools) \in Nat
<1>1. CASE tools \in OneMore
  <2>1. PICK t \in Tools : tools = <<t>>
    BY <1>1 DEF OneMore
  <2>. QED BY <2>1
<1>2. CASE \E n \in 0..CallsLeft : tools \in [1..n -> Tools]
  <2>1. PICK n \in Nat : tools \in [1..n -> Tools]
    BY <1>2
  <2>. QED BY <2>1
<1>. QED BY <1>1, <1>2 DEF Replies

(* The calls built for a reply are typed, and as many as its tools.        *)
LEMMA UsesType ==
  ASSUME NEW tools \in Seq(Tools), NEW first \in Nat,
         NEW uses,
         uses = [k \in 1..Len(tools) |-> [id |-> first + k - 1, tool |-> tools[k]]]
  PROVE  /\ uses \in Seq(Call)
         /\ Len(uses) = Len(tools)
<1>1. \A k \in 1..Len(tools) : [id |-> first + k - 1, tool |-> tools[k]] \in Call
  OBVIOUS
<1>. QED BY <1>1

(* During the tool loop there is a current call.                           *)
LEMMA CurrentIsCall ==
  ASSUME TypeOK, pc \in ToolPhases
  PROVE  /\ current \in Call
         /\ current.id \in Nat
         /\ current.tool \in Tools
<1>1. calls \in Seq(Call) /\ done + 1 \in 1..Len(calls)
  BY DEF TypeOK
<1>2. current \in Call
  BY <1>1, ElementOfSeq DEF current
<1>. QED BY <1>2

(* Appending an answer to the current call keeps the types.                *)
LEMMA PushResultType ==
  ASSUME TypeOK, pc \in ToolPhases, NEW st \in Statuses, PushResult(st)
  PROVE  /\ session' \in Seq(Message)
         /\ done' \in 0..Len(calls')
         /\ pc' \in {"loop", "authorize"}
         /\ pc' \in ToolPhases => done' < Len(calls')
         /\ hook' \in Nat
         /\ status' \in {"ok", "error"}
         /\ UNCHANGED <<mode, tracker, prompter, iterations, calls, result,
                        turns, nextId>>
<1>1. current \in Call
  BY CurrentIsCall
<1>2. [role |-> "tool", id |-> current.id, status |-> st] \in Message
  BY <1>1 DEF Message, ToolMessage
<1>. QED BY <1>2 DEF PushResult, AfterAnswer, ResultMessage, TypeOK

(* The types of the state hold in every reachable state.                   *)
THEOREM TypeCorrect == Spec => []TypeOK
<1>1. Init => TypeOK
  <2> SUFFICES ASSUME Init PROVE TypeOK
    OBVIOUS
  <2>1. tracker \in [turns : Nat, latest : Nat, total : Nat]
    BY DEF Init, EmptyTracker
  <2>2. session \in Seq(Message) /\ calls \in Seq(Call) /\ executed \in Seq(Nat)
    BY EmptySeq DEF Init
  <2>3. done \in 0..Len(calls)
    BY <2>2, EmptySeq DEF Init
  <2>4. iterations \in 0..(MaxIterations + 1)
    BY ConversationAssumption DEF Init
  <2>. QED BY <2>1, <2>2, <2>3, <2>4 DEF Init, TypeOK
<1>2. TypeOK /\ [Next]_vars => TypeOK'
  <2> SUFFICES ASSUME TypeOK, [Next]_vars PROVE TypeOK'
    OBVIOUS
  <2>1. CASE StartTurn
    <3>1. [role |-> "user"] \in Message
      BY DEF Message, UserMessage
    <3>. QED BY <2>1, <3>1, ConversationAssumption DEF StartTurn, TypeOK
  <2>2. CASE SendRequest
    BY <2>2, ConversationAssumption DEF SendRequest, WithinLimit, TypeOK
  <2>3. CASE ExceedIterations
    BY <2>3, ConversationAssumption DEF ExceedIterations, WithinLimit, TypeOK
  <2>4. CASE StreamFails
    BY <2>4 DEF StreamFails, TypeOK
  <2>5. ASSUME NEW tools \in Replies, NEW usage \in UsageValues \cup {NoUsage},
               ReceiveReply(tools, usage)
        PROVE  TypeOK'
    <3> DEFINE uses == [k \in 1..Len(tools) |->
                          [id |-> nextId + k - 1, tool |-> tools[k]]]
               msg  == [role |-> "assistant", calls |-> uses, usage |-> usage]
    <3>1. tools \in Seq(Tools) /\ Len(tools) \in Nat
      BY RepliesType
    <3>2. uses \in Seq(Call) /\ Len(uses) = Len(tools)
      BY <3>1, UsesType DEF TypeOK
    <3>3. msg \in Message
      BY <3>2 DEF Message, AssistantMessage
    <3>4. tracker' \in [turns : Nat, latest : Nat, total : Nat]
      BY <2>5, TrackType DEF AfterReply, ReceiveReply, TrackReply, TypeOK
    <3>5. /\ pc = "stream"
          /\ session' = Append(session, msg)
          /\ calls' = uses
          /\ done' = 0 /\ hook' = 0
          /\ nextId' = nextId + Len(tools)
          /\ pc' = IF tools = <<>> THEN "idle" ELSE "authorize"
          /\ result' \in {"ok", result}
          /\ UNCHANGED <<mode, prompter, iterations, status, turns, executed, approved>>
      BY <2>5 DEF AfterReply, ReceiveReply
    <3> HIDE DEF uses, msg
    <3>6. pc' = "authorize" => Len(tools) > 0
      BY <3>1, <3>5
    <3>7. /\ session' \in Seq(Message)
          /\ calls' \in Seq(Call)
          /\ done' \in 0..Len(calls')
          /\ nextId' \in Nat
          /\ pc' \in {"idle", "authorize"}
          /\ (pc' \in ToolPhases) => (done' < Len(calls'))
      BY <3>1, <3>2, <3>3, <3>5, <3>6 DEF TypeOK
    <3>. QED BY <3>4, <3>5, <3>7 DEF TypeOK
  <2>6. CASE GrantCall
    BY <2>6 DEF GrantCall, TypeOK
  <2>7. CASE UserApproves
    <3>1. current \in Call
      BY <2>7, CurrentIsCall DEF UserApproves
    <3>. QED BY <2>7, <3>1 DEF UserApproves, TypeOK
  <2>8. CASE UserRefuses
    BY <2>8, PushResultType DEF UserRefuses, TypeOK
  <2>9. CASE DenyCall
    BY <2>9, PushResultType DEF DenyCall, TypeOK
  <2>10. CASE PreHookPasses
    BY <2>10 DEF PreHookPasses, TypeOK
  <2>11. CASE PreHookDenies
    BY <2>11, PushResultType DEF PreHookDenies, TypeOK
  <2>12. ASSUME NEW st \in {"ok", "error"}, Execute(st)
         PROVE  TypeOK'
    <3>1. current \in Call
      BY <2>12, CurrentIsCall DEF Execute
    <3>. QED BY <2>12, <3>1 DEF Execute, TypeOK
  <2>13. CASE PostHookPasses
    BY <2>13 DEF PostHookPasses, TypeOK
  <2>14. CASE PostHookDenies
    BY <2>14, PushResultType DEF PostHookDenies, TypeOK
  <2>15. CASE RecordExecution
    <3>1. status \in Statuses
      BY DEF TypeOK
    <3>. QED BY <2>15, <3>1, PushResultType DEF RecordExecution, TypeOK
  <2>16. CASE UNCHANGED vars
    BY <2>16 DEF vars, TypeOK
  <2>. QED
    BY <2>1, <2>2, <2>3, <2>4, <2>5, <2>6, <2>7, <2>8, <2>9, <2>10, <2>11,
       <2>12, <2>13, <2>14, <2>15, <2>16 DEF Next, TurnStep, ToolStep
<1>. QED BY <1>1, <1>2, PTL DEF Spec

-----------------------------------------------------------------------------
(* What appending one message does to the positions of a session.          *)
LEMMA AppendedAt ==
  ASSUME NEW msgs \in Seq(Message), NEW m \in Message
  PROVE  /\ Append(msgs, m) \in Seq(Message)
         /\ Len(Append(msgs, m)) = Len(msgs) + 1
         /\ \A j \in 1..Len(msgs) : Append(msgs, m)[j] = msgs[j]
         /\ Append(msgs, m)[Len(msgs) + 1] = m
BY AppendProperties

(* An assistant message carries a sequence of calls.                       *)
LEMMA AssistantCalls ==
  ASSUME NEW msgs \in Seq(Message), NEW i \in 1..Len(msgs),
         msgs[i].role = "assistant"
  PROVE  msgs[i].calls \in Seq(Call)
<1>1. msgs[i] \in Message
  BY ElementOfSeq
<1>. QED BY <1>1 DEF Message, UserMessage, AssistantMessage, ToolMessage, SystemMessage

(* An answer stays where it is when the session grows.                     *)
LEMMA AnswersKept ==
  ASSUME NEW msgs \in Seq(Message), NEW m \in Message,
         NEW i \in 1..Len(msgs), NEW k \in Nat \ {0},
         AnswersCall(msgs, i, k)
  PROVE  AnswersCall(Append(msgs, m), i, k)
BY AppendedAt DEF AnswersCall

LEMMA CompleteBeforeKept ==
  ASSUME NEW msgs \in Seq(Message), NEW m \in Message, NEW a \in Nat,
         CompleteBefore(msgs, a),
         m.role = "assistant" => (a = Len(msgs) + 1 \/ m.calls = <<>>)
  PROVE  CompleteBefore(Append(msgs, m), a)
<1> DEFINE new == Append(msgs, m)
<1> SUFFICES ASSUME NEW i \in 1..Len(new), i # a, new[i].role = "assistant",
                    NEW k \in 1..Len(new[i].calls)
             PROVE  AnswersCall(new, i, k)
  BY DEF CompleteBefore
<1>1. CASE i \in 1..Len(msgs)
  <2>1. new[i] = msgs[i]
    BY <1>1, AppendedAt
  <2>2. AnswersCall(msgs, i, k)
    BY <1>1, <2>1 DEF CompleteBefore
  <2>3. k \in Nat \ {0}
    BY <1>1, <2>1, AssistantCalls
  <2>. QED BY <1>1, <2>2, <2>3, AnswersKept
<1>2. CASE i = Len(msgs) + 1
  <2>1. m.calls = <<>>
    BY <1>2, AppendedAt
  <2>. QED BY <1>2, <2>1, AppendedAt
<1>3. Len(msgs) \in Nat /\ Len(new) = Len(msgs) + 1
  BY AppendedAt
<1>4. i \in 1..Len(msgs) \/ i = Len(msgs) + 1
  BY <1>3
<1>. QED BY <1>1, <1>2, <1>4

(* Position 0 excludes nothing: completeness is CompleteBefore at 0.       *)
LEMMA AnsweredIsCompleteBefore ==
  ASSUME NEW msgs \in Seq(Message)
  PROVE  Answered(msgs) <=> CompleteBefore(msgs, 0)
BY DEF Answered, CompleteBefore

LEMMA NoOrphansKept ==
  ASSUME NEW msgs \in Seq(Message), NEW m \in Message, NoOrphans(msgs),
         m.role = "tool" =>
           \E i \in 1..Len(msgs) :
             /\ msgs[i].role = "assistant"
             /\ Len(msgs) + 1 - i \in 1..Len(msgs[i].calls)
             /\ m.id = msgs[i].calls[Len(msgs) + 1 - i].id
  PROVE  NoOrphans(Append(msgs, m))
<1> DEFINE new == Append(msgs, m)
<1> SUFFICES ASSUME NEW j \in 1..Len(new), new[j].role = "tool"
             PROVE  \E i \in 1..(j - 1) :
                      /\ new[i].role = "assistant"
                      /\ j - i \in 1..Len(new[i].calls)
                      /\ new[j].id = new[i].calls[j - i].id
  BY DEF NoOrphans
<1>1. CASE j \in 1..Len(msgs)
  <2>1. PICK i \in 1..(j - 1) : /\ msgs[i].role = "assistant"
                               /\ j - i \in 1..Len(msgs[i].calls)
                               /\ msgs[j].id = msgs[i].calls[j - i].id
    BY <1>1, AppendedAt DEF NoOrphans
  <2>2. new[i] = msgs[i] /\ new[j] = msgs[j]
    BY <1>1, AppendedAt
  <2>. QED BY <2>1, <2>2
<1>2. CASE j = Len(msgs) + 1
  <2>1. new[j] = m
    BY <1>2, AppendedAt
  <2>2. PICK i \in 1..Len(msgs) :
               /\ msgs[i].role = "assistant"
               /\ Len(msgs) + 1 - i \in 1..Len(msgs[i].calls)
               /\ m.id = msgs[i].calls[Len(msgs) + 1 - i].id
    BY <2>1
  <2>3. new[i] = msgs[i] /\ i \in 1..(j - 1)
    BY <1>2, AppendedAt
  <2>. QED BY <1>2, <2>1, <2>2, <2>3
<1>3. Len(msgs) \in Nat /\ Len(new) = Len(msgs) + 1
  BY AppendedAt
<1>4. j \in 1..Len(msgs) \/ j = Len(msgs) + 1
  BY <1>3
<1>. QED BY <1>1, <1>2, <1>4

-----------------------------------------------------------------------------
(* One answer more: the tool loop's invariant moves on to the next call,   *)
(* or, after the last one, the whole session is complete.                  *)
LEMMA PushResultComplete ==
  ASSUME TypeOK, CompletenessInv, pc \in ToolPhases, NEW st \in Statuses,
         PushResult(st)
  PROVE  CompletenessInv'
<1> DEFINE n == Len(session)
           a == n - done
           m == [role |-> "tool", id |-> current.id, status |-> st]
<1>1. /\ session \in Seq(Message) /\ calls \in Seq(Call)
      /\ n \in Nat /\ done \in Nat /\ done < Len(calls) /\ Len(calls) \in Nat
  BY LenProperties DEF TypeOK
<1>2. m \in Message
  BY CurrentIsCall DEF Message, ToolMessage
<1>3. /\ a \in 1..n
      /\ session[a].role = "assistant"
      /\ session[a].calls = calls
      /\ \A k \in 1..done : AnswersCall(session, a, k)
      /\ CompleteBefore(session, a)
  BY <1>1 DEF CompletenessInv, ToolLoopInv
<1>4. /\ session' = Append(session, m)
      /\ done' = done + 1
      /\ calls' = calls
      /\ pc' = IF done + 1 = Len(calls) THEN "loop" ELSE "authorize"
  BY DEF PushResult, AfterAnswer, ResultMessage
<1>5. /\ Len(session') = n + 1
      /\ \A j \in 1..n : session'[j] = session[j]
      /\ session'[n + 1] = m
  BY <1>1, <1>2, <1>4, AppendedAt
<1>6. CompleteBefore(session', a)
  BY <1>1, <1>2, <1>3, <1>4, CompleteBeforeKept
<1>7. \A k \in 1..(done + 1) : AnswersCall(session', a, k)
  <2> SUFFICES ASSUME NEW k \in 1..(done + 1) PROVE AnswersCall(session', a, k)
    OBVIOUS
  <2>1. CASE k \in 1..done
    BY <2>1, <1>1, <1>2, <1>3, <1>4, AnswersKept
  <2>2. CASE k = done + 1
    <3>1. a + k = n + 1
      BY <2>2, <1>1
    <3>2. session'[a].calls[k] = current
      BY <2>2, <1>3, <1>5 DEF current
    <3>. QED BY <3>1, <3>2, <1>5 DEF AnswersCall
  <2>. QED BY <2>1, <2>2, <1>1
<1>8. NoOrphans(session')
  <2>1. Len(session) + 1 - a = done + 1
    BY <1>1
  <2>2. m.id = session[a].calls[done + 1].id
    BY <1>3 DEF current
  <2>3. NoOrphans(session)
    BY DEF CompletenessInv
  <2>4. \E i \in 1..Len(session) :
          /\ session[i].role = "assistant"
          /\ Len(session) + 1 - i \in 1..Len(session[i].calls)
          /\ m.id = session[i].calls[Len(session) + 1 - i].id
    <3>1. Len(session) + 1 - a \in 1..Len(session[a].calls)
      BY <2>1, <1>1, <1>3
    <3>. QED BY <3>1, <2>1, <2>2, <1>3
  <2> HIDE DEF m
  <2>. QED BY <2>3, <2>4, <1>1, <1>2, <1>4, NoOrphansKept
<1>9. CASE done + 1 = Len(calls)
  <2>1. pc' \notin ToolPhases
    BY <1>4, <1>9
  <2>2. Answered(session')
    <3> SUFFICES ASSUME NEW i \in 1..Len(session'), session'[i].role = "assistant",
                        NEW k \in 1..Len(session'[i].calls)
                 PROVE  AnswersCall(session', i, k)
      BY DEF Answered
    <3>1. CASE i = a
      BY <3>1, <1>3, <1>5, <1>7, <1>9
    <3>2. CASE i # a
      BY <3>2, <1>6 DEF CompleteBefore
    <3>. QED BY <3>1, <3>2
  <2>. QED BY <2>1, <2>2, <1>8 DEF CompletenessInv
<1>10. CASE done + 1 # Len(calls)
  <2>1. /\ Len(session') - done' = a
        /\ session'[a].role = "assistant"
        /\ session'[a].calls = calls'
    BY <1>1, <1>3, <1>4, <1>5
  <2>2. ToolLoopInv'
    BY <2>1, <1>3, <1>4, <1>6, <1>7 DEF ToolLoopInv
  <2>3. pc' \in ToolPhases
    BY <1>4, <1>10
  <2>. QED BY <2>2, <2>3, <1>8 DEF CompletenessInv
<1>. QED BY <1>9, <1>10

(* Steps that touch neither the session nor the pending calls, and stay    *)
(* inside or outside the tool loop, keep the invariant.                    *)
LEMMA QuietStepComplete ==
  ASSUME CompletenessInv, UNCHANGED <<session, calls, done>>,
         (pc \in ToolPhases) <=> (pc' \in ToolPhases)
  PROVE  CompletenessInv'
BY DEF CompletenessInv, ToolLoopInv, Answered, NoOrphans, CompleteBefore, AnswersCall

(* The completeness invariant is inductive.                                *)
LEMMA CompletenessStep ==
  ASSUME TypeOK, CompletenessInv, [Next]_vars
  PROVE  CompletenessInv'
<1>1. CASE StartTurn
  <2> DEFINE m == [role |-> "user"]
  <2>1. session \in Seq(Message) /\ m \in Message
    BY DEF TypeOK, Message, UserMessage
  <2>2. session' = Append(session, m) /\ pc' \notin ToolPhases /\ pc \notin ToolPhases
    BY <1>1 DEF StartTurn
  <2>3. CompleteBefore(session', 0) /\ session' \in Seq(Message)
    BY <2>1, <2>2, CompleteBeforeKept, AnsweredIsCompleteBefore, AppendedAt
       DEF CompletenessInv
  <2>4. NoOrphans(session')
    BY <2>1, <2>2, NoOrphansKept DEF CompletenessInv
  <2>. QED BY <2>2, <2>3, <2>4, AnsweredIsCompleteBefore DEF CompletenessInv
<1>2. ASSUME NEW tools \in Replies, NEW usage \in UsageValues \cup {NoUsage},
             ReceiveReply(tools, usage)
      PROVE  CompletenessInv'
  <2> DEFINE n    == Len(session)
             uses == [k \in 1..Len(tools) |->
                        [id |-> nextId + k - 1, tool |-> tools[k]]]
             m    == [role |-> "assistant", calls |-> uses, usage |-> usage]
  <2>1. tools \in Seq(Tools) /\ Len(tools) \in Nat
    BY RepliesType
  <2>2. uses \in Seq(Call) /\ Len(uses) = Len(tools)
    BY <2>1, UsesType DEF TypeOK
  <2>3. m \in Message /\ session \in Seq(Message) /\ n \in Nat
    BY <2>2, LenProperties DEF Message, AssistantMessage, TypeOK
  <2>4. /\ pc = "stream"
        /\ session' = Append(session, m)
        /\ calls' = uses
        /\ done' = 0
        /\ pc' = IF tools = <<>> THEN "idle" ELSE "authorize"
    BY <1>2 DEF AfterReply, ReceiveReply
  <2>5. /\ Answered(session)
        /\ NoOrphans(session)
    BY <2>4 DEF CompletenessInv
  <2>6. m.role = "assistant" /\ m.calls = uses
    OBVIOUS
  <2> HIDE DEF uses, m
  <2>7. NoOrphans(session')
    BY <2>3, <2>4, <2>5, <2>6, NoOrphansKept
  <2>8. /\ Len(session') = n + 1
        /\ \A j \in 1..n : session'[j] = session[j]
        /\ session'[n + 1] = m
        /\ session' \in Seq(Message)
    BY <2>3, <2>4, AppendedAt
  <2>9. CompleteBefore(session, 0) /\ CompleteBefore(session, n + 1)
    BY <2>3, <2>5 DEF Answered, CompleteBefore
  <2>10. CASE tools = <<>>
    <3>1. uses = <<>>
      BY <2>10, <2>2, EmptySeq
    <3>2. CompleteBefore(session', 0)
      BY <3>1, <2>3, <2>4, <2>6, <2>9, CompleteBeforeKept
    <3>. QED BY <3>2, <2>4, <2>7, <2>8, <2>10, AnsweredIsCompleteBefore
             DEF CompletenessInv
  <2>11. CASE tools # <<>>
    <3>1. CompleteBefore(session', n + 1)
      BY <2>3, <2>4, <2>6, <2>9, CompleteBeforeKept
    <3>2. Len(session') - done' = n + 1
      BY <2>3, <2>4, <2>8
    <3>3. ToolLoopInv'
      BY <3>1, <3>2, <2>3, <2>4, <2>6, <2>8 DEF ToolLoopInv
    <3>. QED BY <3>3, <2>4, <2>7, <2>11 DEF CompletenessInv
  <2>. QED BY <2>10, <2>11
<1>3. CASE UserRefuses
  BY <1>3, PushResultComplete DEF UserRefuses
<1>4. CASE DenyCall
  BY <1>4, PushResultComplete DEF DenyCall
<1>5. CASE PreHookDenies
  BY <1>5, PushResultComplete DEF PreHookDenies
<1>6. CASE PostHookDenies
  BY <1>6, PushResultComplete DEF PostHookDenies
<1>7. CASE RecordExecution
  <2>1. status \in Statuses
    BY DEF TypeOK
  <2>. QED BY <1>7, <2>1, PushResultComplete DEF RecordExecution
<1>8. CASE SendRequest \/ ExceedIterations \/ StreamFails
  BY <1>8, QuietStepComplete DEF SendRequest, ExceedIterations, StreamFails
<1>9. CASE GrantCall \/ UserApproves \/ PreHookPasses \/ PostHookPasses
  BY <1>9, QuietStepComplete DEF GrantCall, UserApproves, PreHookPasses, PostHookPasses
<1>10. ASSUME NEW st \in {"ok", "error"}, Execute(st)
       PROVE  CompletenessInv'
  BY <1>10, QuietStepComplete DEF Execute
<1>11. CASE UNCHANGED vars
  BY <1>11, QuietStepComplete DEF vars
<1>. QED
  BY <1>1, <1>2, <1>3, <1>4, <1>5, <1>6, <1>7, <1>8, <1>9, <1>10, <1>11
     DEF Next, TurnStep, ToolStep

THEOREM CompletenessInvariant == Spec => []CompletenessInv
<1>1. Init => CompletenessInv
  BY EmptySeq DEF Init, CompletenessInv, Answered, NoOrphans
<1>2. TypeOK /\ CompletenessInv /\ [Next]_vars => CompletenessInv'
  BY CompletenessStep
<1>. QED BY <1>1, <1>2, TypeCorrect, PTL DEF Spec

(* Every request run_turn sends and every session it hands back, whether   *)
(* it succeeds or fails, is complete: each tool call is followed by its    *)
(* results in order, and no result stands without its call.                *)
THEOREM SessionComplete == Spec => []SessionIsComplete
<1>1. CompletenessInv => SessionIsComplete
  BY DEF CompletenessInv, SessionIsComplete, ToolPhases
<1>. QED BY <1>1, CompletenessInvariant, PTL

-----------------------------------------------------------------------------
(* The limit of a turn.  Appending a message of the user's leaves no reply *)
(* of the turn, appending a reply adds one, and nothing else changes them. *)
LEMMA RepliesAppended ==
  ASSUME NEW msgs \in Seq(Message), NEW m \in Message
  PROVE  /\ RepliesOf(Append(msgs, m)) =
              IF m.role = "user" THEN {}
              ELSE IF m.role = "assistant" THEN RepliesOf(msgs) \cup {Len(msgs) + 1}
              ELSE RepliesOf(msgs)
         /\ Len(msgs) + 1 \notin RepliesOf(msgs)
<1> DEFINE n == Len(msgs)  longer == Append(msgs, m)
<1>1. /\ n \in Nat /\ Len(longer) = n + 1 /\ longer[n + 1] = m
      /\ \A i \in 1..n : longer[i] = msgs[i]
  BY AppendedAt
<1>2. n + 1 \notin RepliesOf(msgs)
  BY <1>1 DEF RepliesOf
<1> HIDE DEF longer
<1>3. CASE m.role = "user"
  <2>1. \A i \in 1..(n + 1) : n + 1 \in i..(n + 1)
    BY <1>1
  <2>2. RepliesOf(longer) = {}
    BY <1>1, <1>3, <2>1 DEF RepliesOf
  <2>. QED BY <1>2, <1>3, <2>2 DEF longer
<1>4. CASE m.role # "user"
  <2>1. \A i \in 1..n :
          (\A j \in i..(n + 1) : longer[j].role # "user") <=> (\A j \in i..n : msgs[j].role # "user")
    <3> SUFFICES ASSUME NEW i \in 1..n
                 PROVE  (\A j \in i..(n + 1) : longer[j].role # "user")
                          <=> (\A j \in i..n : msgs[j].role # "user")
      OBVIOUS
    <3>1. i..n \subseteq 1..n /\ i..n \subseteq i..(n + 1)
      BY <1>1
    <3>2. \A j \in i..(n + 1) : j \in i..n \/ j = n + 1
      BY <1>1
    <3>. QED BY <1>1, <1>4, <3>1, <3>2
  <2>2. \A i \in 1..n : i \in RepliesOf(longer) <=> i \in RepliesOf(msgs)
    BY <1>1, <2>1 DEF RepliesOf
  <2>3. n + 1 \in RepliesOf(longer) <=> m.role = "assistant"
    <3>1. \A j \in (n + 1)..(n + 1) : j = n + 1
      BY <1>1
    <3>. QED BY <1>1, <1>4, <3>1 DEF RepliesOf
  <2>4. RepliesOf(msgs) \subseteq 1..n /\ RepliesOf(longer) \subseteq 1..(n + 1)
    BY <1>1 DEF RepliesOf
  <2>5. 1..(n + 1) = (1..n) \cup {n + 1}
    BY <1>1
  <2>6. RepliesOf(longer) =
          IF m.role = "assistant" THEN RepliesOf(msgs) \cup {n + 1} ELSE RepliesOf(msgs)
    <3>1. CASE m.role = "assistant"
      BY <2>2, <2>3, <2>4, <2>5, <3>1
    <3>2. CASE m.role # "assistant"
      BY <2>2, <2>3, <2>4, <2>5, <3>2
    <3>. QED BY <3>1, <3>2
  <2>. QED BY <1>2, <1>4, <2>6 DEF longer
<1>. QED BY <1>3, <1>4

LEMMA RepliesAreFinite ==
  ASSUME NEW msgs \in Seq(Message)
  PROVE  IsFiniteSet(RepliesOf(msgs)) /\ Cardinality(RepliesOf(msgs)) \in Nat
<1>1. RepliesOf(msgs) \subseteq 1..Len(msgs) /\ Len(msgs) \in Nat
  BY DEF RepliesOf
<1>2. IsFiniteSet(1..Len(msgs))
  BY <1>1, FS_Interval
<1>. QED BY <1>1, <1>2, FS_Subset, FS_CardinalityType

(* The counter of the loop is the number of replies the turn got, one more *)
(* while a request is under way.                                           *)
RequestInv ==
  LET answered == Cardinality(RepliesOf(session)) IN
  /\ answered \in 0..MaxIterations
  /\ pc = "stream" => answered + 1 = iterations
  /\ pc \in {"loop"} \cup ToolPhases => answered = iterations
  /\ iterations > MaxIterations => answered = MaxIterations

LEMMA RequestStep == TypeOK /\ RequestInv /\ [Next]_vars => RequestInv'
<1> SUFFICES ASSUME TypeOK, RequestInv, [Next]_vars PROVE RequestInv'
  OBVIOUS
<1>0. session \in Seq(Message) /\ iterations \in Nat /\ MaxIterations \in Nat
  BY ConversationAssumption DEF TypeOK
<1>1. CASE StartTurn
  <2>1. [role |-> "user"] \in Message
    BY DEF Message, UserMessage
  <2>2. RepliesOf(session') = {}
    BY <1>0, <1>1, <2>1, RepliesAppended DEF StartTurn
  <2>3. Cardinality(RepliesOf(session)') = 0
    BY <2>2, FS_EmptySet
  <2>4. pc' = "loop" /\ iterations' = 0
    BY <1>1 DEF StartTurn
  <2>. QED BY <1>0, <2>3, <2>4 DEF RequestInv
<1>2. ASSUME NEW tools \in Replies, NEW usage \in UsageValues \cup {NoUsage},
             ReceiveReply(tools, usage)
      PROVE  RequestInv'
  <2> DEFINE uses == [k \in 1..Len(tools) |-> [id |-> nextId + k - 1, tool |-> tools[k]]]
             m    == [role |-> "assistant", calls |-> uses, usage |-> usage]
  <2>1. tools \in Seq(Tools)
    BY RepliesType
  <2>2. uses \in Seq(Call)
    BY <2>1, UsesType DEF TypeOK
  <2>3. m \in Message /\ m.role = "assistant"
    BY <2>2 DEF Message, AssistantMessage
  <2>4. /\ pc = "stream" /\ session' = Append(session, m) /\ iterations' = iterations
        /\ pc' \in {"idle", "authorize"}
    BY <1>2 DEF ReceiveReply, AfterReply
  <2> HIDE DEF uses, m
  <2>5. RepliesOf(session') = RepliesOf(session) \cup {Len(session) + 1}
        /\ Len(session) + 1 \notin RepliesOf(session)
    BY <1>0, <2>3, <2>4, RepliesAppended
  <2>6. Cardinality(RepliesOf(session')) = Cardinality(RepliesOf(session)) + 1
    <3> DEFINE R == RepliesOf(session)  x == Len(session) + 1
    <3>1. IsFiniteSet(R) /\ x \notin R
      BY <1>0, <2>5, RepliesAreFinite
    <3> HIDE DEF R, x
    <3>2. Cardinality(R \cup {x}) = Cardinality(R) + 1
      BY <3>1, FS_AddElement
    <3>. QED BY <2>5, <3>2 DEF R, x
  <2>7. iterations <= MaxIterations
    BY <2>4 DEF TypeOK
  <2>. QED BY <1>0, <2>4, <2>6, <2>7 DEF RequestInv
<1>3. ASSUME NEW st \in Statuses, pc \in ToolPhases, PushResult(st) PROVE RequestInv'
  <2>1. ResultMessage(st) \in Message /\ ResultMessage(st).role = "tool"
    BY <1>3, CurrentIsCall DEF ResultMessage, Message, ToolMessage
  <2>2. /\ session' = Append(session, ResultMessage(st)) /\ iterations' = iterations
        /\ pc' \in {"loop", "authorize"}
    BY <1>3 DEF PushResult, AfterAnswer
  <2>3. RepliesOf(session') = RepliesOf(session)
    BY <1>0, <2>1, <2>2, RepliesAppended
  <2>. QED BY <1>3, <2>2, <2>3 DEF RequestInv
<1>4. CASE UserRefuses \/ DenyCall \/ PreHookDenies \/ PostHookDenies
  BY <1>3, <1>4 DEF UserRefuses, DenyCall, PreHookDenies, PostHookDenies
<1>5. CASE RecordExecution
  <2>1. status \in Statuses
    BY DEF TypeOK
  <2>. QED BY <1>3, <1>5, <2>1 DEF RecordExecution
<1>6. CASE SendRequest
  BY <1>0, <1>6 DEF SendRequest, WithinLimit, RequestInv
<1>7. CASE ExceedIterations
  <2>1. iterations <= MaxIterations
    BY <1>7 DEF ExceedIterations, TypeOK
  <2>. QED BY <1>0, <1>7, <2>1 DEF ExceedIterations, WithinLimit, RequestInv
<1>8. CASE StreamFails
  <2>1. iterations <= MaxIterations
    BY <1>8 DEF StreamFails, TypeOK
  <2>. QED BY <1>0, <1>8, <2>1 DEF StreamFails, RequestInv
<1>9. CASE \/ GrantCall \/ UserApproves \/ PreHookPasses \/ PostHookPasses
           \/ \E st \in {"ok", "error"} : Execute(st)
  BY <1>9 DEF GrantCall, UserApproves, PreHookPasses, PostHookPasses, Execute, RequestInv
<1>10. CASE UNCHANGED vars
  BY <1>10 DEF vars, RequestInv
<1>. QED
  BY <1>1, <1>2, <1>4, <1>5, <1>6, <1>7, <1>8, <1>9, <1>10 DEF Next, TurnStep, ToolStep

(* A turn sends no request more than max_iterations allows, and gives up   *)
(* with none of them left, whatever the model asks for.                    *)
THEOREM RequestsAreCounted == Spec => []RequestsAreBounded
<1>1. Init => RequestInv
  <2> SUFFICES ASSUME Init PROVE RequestInv
    OBVIOUS
  <2>1. RepliesOf(session) = {}
    BY DEF Init, RepliesOf
  <2>2. Cardinality(RepliesOf(session)) = 0
    BY <2>1, FS_EmptySet
  <2>3. MaxIterations \in Nat
    BY ConversationAssumption
  <2>. QED BY ONLY <2>2, <2>3, Init DEF Init, RequestInv, ToolPhases
<1>2. TypeOK /\ RequestInv => RequestsAreBounded
  BY ConversationAssumption DEF TypeOK, RequestInv, RequestsAreBounded
<1>. QED BY <1>1, <1>2, RequestStep, TypeCorrect, PTL DEF Spec

-----------------------------------------------------------------------------
(* The refinement of Transcript.  The log of a longer session is longer.   *)
LEMMA LogOfAppend ==
  ASSUME NEW msgs \in Seq(Message), NEW m \in Message
  PROVE  LogOf(Append(msgs, m)) = Append(LogOf(msgs), EntryOf(m))
<1>1. /\ Len(msgs) \in Nat
      /\ Len(Append(msgs, m)) = Len(msgs) + 1
      /\ \A n \in 1..Len(msgs) : Append(msgs, m)[n] = msgs[n]
      /\ Append(msgs, m)[Len(msgs) + 1] = m
  BY AppendedAt, LenProperties
<1>. QED BY <1>1 DEF LogOf

(* The ids of the calls from position d + 1 on, and what is left of them   *)
(* without the first.                                                      *)
LEMMA TailOfIds ==
  ASSUME NEW s \in Seq(Call), NEW d \in Nat, d < Len(s),
         NEW ids, ids = [k \in 1..(Len(s) - d) |-> s[d + k].id]
  PROVE  /\ ids \in Seq(Nat)
         /\ ids # <<>>
         /\ Head(ids) = s[d + 1].id
         /\ Tail(ids) = [k \in 1..(Len(s) - (d + 1)) |-> s[d + 1 + k].id]
<1> DEFINE n == Len(s) - d
           t == [k \in 1..(Len(s) - (d + 1)) |-> s[d + 1 + k].id]
<1>1. n \in Nat \ {0} /\ Len(s) \in Nat
  BY LenProperties
<1>2. \A j \in 1..Len(s) : s[j].id \in Nat
  <2> TAKE j \in 1..Len(s)
  <2>1. s[j] \in Call
    BY ElementOfSeq
  <2>. QED BY <2>1
<1>3. ids \in Seq(Nat) /\ Len(ids) = n
  BY <1>1, <1>2
<1>4. ids # <<>> /\ Head(ids) = s[d + 1].id
  <2>1. ids # <<>> /\ 1 \in 1..n
    <3>1. Len(ids) # 0
      BY <1>1, <1>3
    <3>2. ids # <<>>
      BY <3>1
    <3>. QED BY <3>2, <1>1
  <2>2. ids[1] = s[d + 1].id
    BY <2>1, <1>1
  <2>3. Head(ids) = ids[1]
    BY <2>1, <1>3
  <2>. QED BY <2>1, <2>2, <2>3
<1>5. /\ Tail(ids) \in Seq(Nat)
      /\ Len(Tail(ids)) = n - 1
      /\ \A k \in 1..(n - 1) : Tail(ids)[k] = ids[k + 1]
  BY <1>1, <1>3, <1>4, HeadTailProperties
<1>6. t \in Seq(Nat) /\ Len(t) = n - 1
  BY <1>1, <1>2
<1>7. \A k \in 1..(n - 1) : Tail(ids)[k] = t[k]
  BY <1>1, <1>5
<1>. QED BY <1>3, <1>4, <1>5, <1>6, <1>7, SeqEqual

(* Answering the current call settles the oldest debt.                     *)
LEMMA PushResultAnswers ==
  ASSUME TypeOK, pc \in ToolPhases, NEW st \in Statuses, PushResult(st)
  PROVE  T!Answer
<1> DEFINE m == [role |-> "tool", id |-> current.id, status |-> st]
           rest == Len(calls) - done
<1>1. /\ session \in Seq(Message) /\ calls \in Seq(Call)
      /\ done \in Nat /\ Len(calls) \in Nat /\ done < Len(calls)
      /\ current.id \in Nat
  BY CurrentIsCall, LenProperties DEF TypeOK
<1>2. m \in Message
  BY <1>1 DEF Message, ToolMessage
<1>3. /\ session' = Append(session, m)
      /\ done' = done + 1
      /\ calls' = calls
      /\ pc' = IF done + 1 = Len(calls) THEN "loop" ELSE "authorize"
  BY DEF PushResult, AfterAnswer, ResultMessage
<1>4. LogOf(session') = Append(LogOf(session), [who |-> "tool", id |-> current.id])
  BY <1>1, <1>2, <1>3, LogOfAppend DEF EntryOf
<1>5. /\ OwedIds = [k \in 1..rest |-> calls[done + k].id]
      /\ OwedIds # <<>>
      /\ Head(OwedIds) = current.id
  BY <1>1, TailOfIds DEF OwedIds, current
<1>6. LogOf(session)' = LogOf(session')
  BY DEF LogOf
<1>7. OwedIds' = Tail(OwedIds)
  <2>1. Tail(OwedIds) = [k \in 1..(Len(calls) - (done + 1)) |-> calls[done + 1 + k].id]
    BY <1>1, <1>5, TailOfIds
  <2>2. CASE done + 1 = Len(calls)
    BY <2>1, <2>2, <1>1, <1>3 DEF OwedIds
  <2>3. CASE done + 1 # Len(calls)
    <3>1. OwedIds' = [k \in 1..(Len(calls) - (done + 1)) |-> calls[done + 1 + k].id]
      BY <2>3, <1>3 DEF OwedIds
    <3>. QED BY <2>1, <3>1
  <2>. QED BY <2>2, <2>3
<1>. QED BY <1>3, <1>4, <1>5, <1>6, <1>7 DEF T!Answer

(* Every step of the runtime is a step of the transcript or leaves it be.  *)
LEMMA StepImplementsTranscript ==
  ASSUME TypeOK, [Next]_vars
  PROVE  [T!TNext]_(T!tvars)
<1> USE DEF T!tvars
<1>1. CASE StartTurn
  <2> DEFINE m == [role |-> "user"]
  <2>1. session \in Seq(Message) /\ m \in Message
    BY DEF TypeOK, Message, UserMessage
  <2>2. LogOf(session)' = Append(LogOf(session), [who |-> "user"])
    <3>1. LogOf(session') = Append(LogOf(session), EntryOf(m))
      BY <1>1, <2>1, LogOfAppend DEF StartTurn
    <3>2. EntryOf(m) = [who |-> "user"]
      BY DEF EntryOf
    <3>. QED BY <3>1, <3>2 DEF LogOf
  <2>3. pc = "idle" /\ pc' = "loop" /\ OwedIds = <<>> /\ OwedIds' = <<>>
    BY <1>1 DEF StartTurn, OwedIds
  <2>. QED BY <2>2, <2>3 DEF T!TNext, T!Ask
<1>2. ASSUME NEW tools \in Replies, NEW usage \in UsageValues \cup {NoUsage},
             ReceiveReply(tools, usage)
      PROVE  T!Reply
  <2> DEFINE uses == [k \in 1..Len(tools) |->
                        [id |-> nextId + k - 1, tool |-> tools[k]]]
             m    == [role |-> "assistant", calls |-> uses, usage |-> usage]
             ids  == [k \in 1..Len(uses) |-> uses[k].id]
  <2>1. tools \in Seq(Tools) /\ Len(tools) \in Nat
    BY RepliesType
  <2>2. uses \in Seq(Call) /\ Len(uses) = Len(tools)
    BY <2>1, UsesType DEF TypeOK
  <2>3. m \in Message /\ session \in Seq(Message)
    BY <2>2 DEF Message, AssistantMessage, TypeOK
  <2>4. /\ pc = "stream"
        /\ session' = Append(session, m)
        /\ calls' = uses
        /\ done' = 0
        /\ pc' = IF tools = <<>> THEN "idle" ELSE "authorize"
    BY <1>2 DEF AfterReply, ReceiveReply
  <2>. m.role = "assistant" /\ m.calls = uses
    OBVIOUS
  <2> HIDE DEF m, uses
  <2>5. EntryOf(m) = [who |-> "assistant", ids |-> ids]
    BY DEF EntryOf
  <2>6. LogOf(session)' = Append(LogOf(session), [who |-> "assistant", ids |-> ids])
    BY <2>3, <2>4, <2>5, LogOfAppend DEF LogOf
  <2>7. ids \in Seq(Nat) /\ Len(ids) = Len(tools)
    <3>1. \A k \in 1..Len(uses) : uses[k] \in Call
      BY <2>2, ElementOfSeq
    <3>. QED BY <3>1, <2>1, <2>2
  <2>8. OwedIds' = ids
    <3>1. CASE tools = <<>>
      BY <3>1, <2>1, <2>4, <2>7, EmptySeq DEF OwedIds
    <3>2. CASE tools # <<>>
      <4>1. OwedIds' = [k \in 1..(Len(uses) - 0) |-> uses[0 + k].id]
        BY <3>2, <2>4 DEF OwedIds
      <4>2. Len(uses) \in Nat
        BY <2>1, <2>2
      <4>3. Len(uses) - 0 = Len(uses) /\ \A k \in 1..Len(uses) : 0 + k = k
        BY <4>2
      <4>. QED BY <4>1, <4>3
    <3>. QED BY <3>1, <3>2
  <2>9. OwedIds = <<>>
    BY <2>4 DEF OwedIds
  <2>10. (ids = <<>>) <=> (tools = <<>>)
    BY <2>1, <2>7, EmptySeq
  <2> HIDE DEF ids
  <2>11. (pc # "idle")' = (OwedIds' # <<>>)
    BY <2>4, <2>8, <2>10
  <2>. QED BY <2>4, <2>6, <2>7, <2>8, <2>9, <2>11 DEF T!Reply
<1>3. ASSUME ToolStep
      PROVE  T!Answer \/ UNCHANGED T!tvars
  <2>1. CASE UserRefuses
    BY <2>1, PushResultAnswers DEF UserRefuses
  <2>2. CASE DenyCall
    BY <2>2, PushResultAnswers DEF DenyCall
  <2>3. CASE PreHookDenies
    BY <2>3, PushResultAnswers DEF PreHookDenies
  <2>4. CASE PostHookDenies
    BY <2>4, PushResultAnswers DEF PostHookDenies
  <2>5. CASE RecordExecution
    <3>1. status \in Statuses
      BY DEF TypeOK
    <3>. QED BY <2>5, <3>1, PushResultAnswers DEF RecordExecution
  <2>6. CASE GrantCall \/ UserApproves \/ PreHookPasses \/ PostHookPasses
    BY <2>6 DEF GrantCall, UserApproves, PreHookPasses, PostHookPasses,
               LogOf, OwedIds
  <2>7. ASSUME NEW st \in {"ok", "error"}, Execute(st)
        PROVE  UNCHANGED T!tvars
    BY <2>7 DEF Execute, LogOf, OwedIds
  <2>. QED BY <1>3, <2>1, <2>2, <2>3, <2>4, <2>5, <2>6, <2>7 DEF ToolStep
<1>4. CASE SendRequest
  BY <1>4 DEF SendRequest, LogOf, OwedIds
<1>5. CASE ExceedIterations \/ StreamFails
  BY <1>5 DEF ExceedIterations, StreamFails, LogOf, OwedIds, T!TNext, T!GiveUp
<1>6. CASE UNCHANGED vars
  BY <1>6 DEF vars, LogOf, OwedIds
<1>. QED BY <1>1, <1>2, <1>3, <1>4, <1>5, <1>6 DEF Next, TurnStep, T!TNext

(* The runtime implements the safety part of the transcript: whatever the  *)
(* provider, the hooks, the tools and the user do, calls are answered one  *)
(* by one, in order, before the next message.                              *)
THEOREM TranscriptImplemented == Spec => T!TSafety
<1>1. Init => T!TInit
  BY DEF Init, T!TInit, LogOf, OwedIds
<1>2. TypeOK /\ [Next]_vars => [T!TNext]_(T!tvars)
  BY StepImplementsTranscript
<1>. QED BY <1>1, <1>2, TypeCorrect, PTL DEF Spec, T!TSafety

-----------------------------------------------------------------------------
(* Consent.  Named(msgs, id, tool): a reply in msgs asks for this call.    *)
Asks(m, id, tool) ==
  /\ m.role = "assistant"
  /\ \E k \in 1..Len(m.calls) : m.calls[k] = [id |-> id, tool |-> tool]

Named(msgs, id, tool) == \E i \in 1..Len(msgs) : Asks(msgs[i], id, tool)

(* An id names one tool, and is one the provider has used.                 *)
IdsAreUnique ==
  /\ \A id \in Nat, t \in Tools : Named(session, id, t) => id < nextId
  /\ \A id \in Nat, t \in Tools, u \in Tools :
       Named(session, id, t) /\ Named(session, id, u) => t = u

(* Whatever ran was asked for and had consent, and so does the call whose  *)
(* hooks are running: between the decision and the execution nothing       *)
(* changes the call or takes the consent back.                             *)
ConsentInv ==
  /\ IdsAreUnique
  /\ \A n \in 1..Len(executed) : \E t \in Tools :
       Named(session, executed[n], t) /\ Consented(executed[n], t)
  /\ pc = "pre" => Consented(current.id, current.tool)

LEMMA NamedInAppended ==
  ASSUME NEW msgs \in Seq(Message), NEW m \in Message, NEW id, NEW t
  PROVE  Named(Append(msgs, m), id, t) <=> Named(msgs, id, t) \/ Asks(m, id, t)
<1> DEFINE new == Append(msgs, m)
<1>1. /\ Len(msgs) \in Nat /\ Len(new) = Len(msgs) + 1
      /\ \A j \in 1..Len(msgs) : new[j] = msgs[j]
      /\ new[Len(msgs) + 1] = m
  BY AppendedAt, LenProperties
<1> HIDE DEF new
<1>2. (\E i \in 1..Len(new) : Asks(new[i], id, t))
        <=> (\E i \in 1..Len(msgs) : Asks(msgs[i], id, t)) \/ Asks(m, id, t)
  <2>1. ASSUME NEW i \in 1..Len(new), Asks(new[i], id, t)
        PROVE  (\E j \in 1..Len(msgs) : Asks(msgs[j], id, t)) \/ Asks(m, id, t)
    <3>1. i \in 1..Len(msgs) \/ i = Len(msgs) + 1
      BY <1>1
    <3>. QED BY <1>1, <2>1, <3>1
  <2>2. ASSUME NEW i \in 1..Len(msgs), Asks(msgs[i], id, t)
        PROVE  \E j \in 1..Len(new) : Asks(new[j], id, t)
    <3>1. i \in 1..Len(new) /\ new[i] = msgs[i]
      BY <1>1
    <3>. QED BY <2>2, <3>1
  <2>3. ASSUME Asks(m, id, t)
        PROVE  \E j \in 1..Len(new) : Asks(new[j], id, t)
    <3>1. Len(msgs) + 1 \in 1..Len(new)
      BY <1>1
    <3>. QED BY <1>1, <2>3, <3>1
  <2>. QED BY <2>1, <2>2, <2>3
<1>. QED BY <1>2 DEF Named, new

(* The tool the history finds for an id is the one that was asked for.     *)
LEMMA ToolOfNamed ==
  ASSUME TypeOK, IdsAreUnique, NEW id \in Nat, NEW t \in Tools, Named(session, id, t)
  PROVE  ToolOf(id) = t
<1> DEFINE P(i) == /\ session[i].role = "assistant"
                   /\ \E k \in 1..Len(session[i].calls) : session[i].calls[k].id = id
           i0 == CHOOSE i \in 1..Len(session) : P(i)
           k0 == CHOOSE k \in 1..Len(session[i0].calls) : session[i0].calls[k].id = id
<1>1. \E i \in 1..Len(session) : P(i)
  BY DEF Named, Asks
<1>2. i0 \in 1..Len(session) /\ P(i0)
  BY <1>1
<1>3. k0 \in 1..Len(session[i0].calls) /\ session[i0].calls[k0].id = id
  BY <1>2
<1>4. ToolOf(id) = session[i0].calls[k0].tool
  BY DEF ToolOf
<1> HIDE DEF k0
<1>5. session[i0].role = "assistant"
  BY <1>2
<1> HIDE DEF i0, P
<1>6. session[i0].calls \in Seq(Call)
  BY <1>2, <1>5, AssistantCalls DEF TypeOK
<1>7. session[i0].calls[k0] \in Call
  BY <1>3, <1>6, ElementOfSeq
<1>8. session[i0].calls[k0] = [id |-> id, tool |-> ToolOf(id)] /\ ToolOf(id) \in Tools
  BY <1>3, <1>4, <1>7
<1>9. Named(session, id, ToolOf(id))
  BY <1>2, <1>3, <1>5, <1>8 DEF Named, Asks
<1>. QED BY <1>8, <1>9 DEF IdsAreUnique

(* A message without calls names nothing; nor does a quiet step.           *)
LEMMA NothingNewNamed ==
  ASSUME TypeOK, IdsAreUnique, NEW m \in Message, m.role # "assistant",
         session' = Append(session, m), nextId' = nextId
  PROVE  /\ IdsAreUnique'
         /\ \A id, t : Named(session, id, t) => Named(session', id, t)
<1>1. \A id, t : Named(session', id, t) <=> Named(session, id, t)
  BY NamedInAppended DEF TypeOK, Asks
<1>. QED BY <1>1 DEF IdsAreUnique, Named

LEMMA PushResultConsent ==
  ASSUME TypeOK, ConsentInv, pc \in ToolPhases, NEW st \in Statuses, PushResult(st),
         UNCHANGED <<executed, approved>>
  PROVE  ConsentInv'
<1> DEFINE m == ResultMessage(st)
<1>1. m \in Message /\ m.role # "assistant"
  BY CurrentIsCall DEF Message, ToolMessage, ResultMessage
<1>2. /\ session' = Append(session, m) /\ nextId' = nextId /\ mode' = mode
      /\ pc' # "pre"
  BY DEF PushResult, AfterAnswer
<1> HIDE DEF m
<1>3. IdsAreUnique' /\ \A id, t : Named(session, id, t) => Named(session', id, t)
  BY <1>1, <1>2, NothingNewNamed DEF ConsentInv
<1>. QED BY <1>2, <1>3 DEF ConsentInv, Consented

(* The ids of a new reply are new, and each names the tool at its place.   *)
LEMMA ReplyConsent ==
  ASSUME TypeOK, ConsentInv, NEW tools \in Replies,
         NEW usage \in UsageValues \cup {NoUsage}, ReceiveReply(tools, usage)
  PROVE  ConsentInv'
<1> DEFINE uses == [k \in 1..Len(tools) |-> [id |-> nextId + k - 1, tool |-> tools[k]]]
           m    == [role |-> "assistant", calls |-> uses, usage |-> usage]
<1>1. tools \in Seq(Tools) /\ Len(tools) \in Nat
  BY RepliesType
<1>2. uses \in Seq(Call) /\ Len(uses) = Len(tools)
  BY <1>1, UsesType DEF TypeOK
<1>3. m \in Message /\ session \in Seq(Message) /\ nextId \in Nat
  BY <1>2 DEF Message, AssistantMessage, TypeOK
<1>4. /\ session' = Append(session, m)
      /\ nextId' = nextId + Len(tools)
      /\ pc' # "pre"
      /\ mode' = mode /\ executed' = executed /\ approved' = approved
  BY DEF ReceiveReply, AfterReply
<1>5. ASSUME NEW id \in Nat, NEW t \in Tools, Asks(m, id, t)
      PROVE  \E k \in 1..Len(tools) : id = nextId + k - 1 /\ t = tools[k]
  <2>1. PICK k \in 1..Len(uses) : uses[k] = [id |-> id, tool |-> t]
    BY <1>5 DEF Asks
  <2>2. uses[k] = [id |-> nextId + k - 1, tool |-> tools[k]]
    BY <1>2, <2>1
  <2> HIDE DEF uses
  <2>. QED BY <1>2, <2>1, <2>2
<1> HIDE DEF m
<1>6. \A id \in Nat, t \in Tools :
        Named(session', id, t) <=> Named(session, id, t) \/ Asks(m, id, t)
  BY <1>3, <1>4, NamedInAppended
<1>7. \A id \in Nat, t \in Tools : Named(session', id, t) => id < nextId'
  BY <1>1, <1>3, <1>4, <1>5, <1>6 DEF ConsentInv, IdsAreUnique
<1>8. ASSUME NEW id \in Nat, NEW t \in Tools, NEW u \in Tools,
             Named(session', id, t), Named(session', id, u)
      PROVE  t = u
  <2>1. CASE Named(session, id, t)
    <3>1. id < nextId
      BY <2>1 DEF ConsentInv, IdsAreUnique
    <3>2. ~ Asks(m, id, u)
      BY <3>1, <1>1, <1>3, <1>5
    <3>. QED BY <1>6, <1>8, <2>1, <3>2 DEF ConsentInv, IdsAreUnique
  <2>2. CASE Asks(m, id, t)
    <3>1. PICK k \in 1..Len(tools) : id = nextId + k - 1 /\ t = tools[k]
      BY <1>5, <2>2
    <3>2. ~ Named(session, id, u)
      BY <3>1, <1>1, <1>3 DEF ConsentInv, IdsAreUnique
    <3>3. PICK j \in 1..Len(tools) : id = nextId + j - 1 /\ u = tools[j]
      BY <1>5, <1>6, <1>8, <3>2
    <3>4. j = k
      BY <3>1, <3>3, <1>1, <1>3
    <3>. QED BY <3>1, <3>3, <3>4
  <2>. QED BY <1>6, <1>8, <2>1, <2>2
<1>9. IdsAreUnique'
  BY <1>7, <1>8 DEF IdsAreUnique, Named
<1>10. ASSUME NEW n \in 1..Len(executed)
       PROVE  \E t \in Tools :
                Named(session', executed[n], t) /\ Consented(executed[n], t)
  <2>1. executed[n] \in Nat
    BY ElementOfSeq DEF TypeOK
  <2>. QED BY <2>1, <1>6 DEF ConsentInv
<1>. QED BY <1>4, <1>9, <1>10 DEF ConsentInv, Consented, Named

(* Going ahead without a question is being covered by the mode.            *)
LEMMA GrantedIsConsent ==
  ASSUME NEW tool \in Tools, NEW id, mode \in Modes, Granted(mode, tool)
  PROVE  Consented(id, tool)
<1>1. RequiredMode(tool) \in Modes
  BY RequirementsAssumption DEF RequiredMode, Modes
<1>2. mode = "Allow" => Rank(mode) >= Rank(RequiredMode(tool))
  BY <1>1 DEF Rank, Modes
<1>. QED BY <1>2 DEF Granted, Consented

LEMMA ConsentStep ==
  TypeOK /\ CompletenessInv /\ ConsentInv /\ [Next]_vars => ConsentInv'
<1> SUFFICES ASSUME TypeOK, CompletenessInv, ConsentInv, [Next]_vars PROVE ConsentInv'
  OBVIOUS
<1>1. CASE StartTurn
  <2> DEFINE m == [role |-> "user"]
  <2>1. m \in Message /\ m.role # "assistant"
    BY DEF Message, UserMessage
  <2>2. /\ session' = Append(session, m) /\ nextId' = nextId /\ pc' # "pre"
        /\ mode' = mode /\ executed' = executed /\ approved' = approved
    BY <1>1 DEF StartTurn
  <2> HIDE DEF m
  <2>3. IdsAreUnique' /\ \A id, t : Named(session, id, t) => Named(session', id, t)
    BY <2>1, <2>2, NothingNewNamed DEF ConsentInv
  <2>. QED BY <2>2, <2>3 DEF ConsentInv, Consented
<1>2. ASSUME NEW tools \in Replies, NEW usage \in UsageValues \cup {NoUsage},
             ReceiveReply(tools, usage)
      PROVE  ConsentInv'
  BY <1>2, ReplyConsent
<1>3. CASE GrantCall
  <2>1. Consented(current.id, current.tool)
    BY <1>3, CurrentIsCall, GrantedIsConsent DEF GrantCall, TypeOK
  <2>. QED BY <1>3, <2>1
           DEF GrantCall, ConsentInv, IdsAreUnique, Named, Consented, current
<1>4. CASE UserApproves
  BY <1>4 DEF UserApproves, ConsentInv, IdsAreUnique, Named, Consented, current
<1>5. CASE UserRefuses \/ DenyCall \/ PreHookDenies \/ PostHookDenies
  BY <1>5, PushResultConsent DEF UserRefuses, DenyCall, PreHookDenies, PostHookDenies
<1>6. CASE RecordExecution
  <2>1. status \in Statuses
    BY DEF TypeOK
  <2>. QED BY <1>6, <2>1, PushResultConsent DEF RecordExecution
<1>7. ASSUME NEW st \in {"ok", "error"}, Execute(st) PROVE ConsentInv'
  <2> DEFINE a == Len(session) - done
  <2>1. /\ pc = "pre" /\ executed' = Append(executed, current.id) /\ pc' = "post"
        /\ UNCHANGED <<session, nextId, mode, approved>>
    BY <1>7 DEF Execute
  <2>2. /\ current \in Call /\ calls \in Seq(Call) /\ done + 1 \in 1..Len(calls)
        /\ Len(session) \in Nat /\ done \in Nat /\ executed \in Seq(Nat)
    BY <2>1, CurrentIsCall, LenProperties DEF TypeOK
  <2>3. a \in 1..Len(session) /\ session[a].role = "assistant" /\ session[a].calls = calls
    BY <2>1, <2>2 DEF CompletenessInv, ToolLoopInv
  <2>4. session[a].calls[done + 1] = [id |-> current.id, tool |-> current.tool]
    BY <2>2, <2>3 DEF current
  <2>5. Named(session, current.id, current.tool)
    BY <2>2, <2>3, <2>4 DEF Named, Asks
  <2>6. Consented(current.id, current.tool) /\ current.tool \in Tools
    BY <2>1, <2>2 DEF ConsentInv
  <2>7. /\ Len(executed') = Len(executed) + 1 /\ Len(executed) \in Nat
        /\ \A n \in 1..Len(executed) : executed'[n] = executed[n]
        /\ executed'[Len(executed) + 1] = current.id
    BY <2>1, <2>2
  <2>8. \A n \in 1..Len(executed') : \E t \in Tools :
          Named(session, executed'[n], t) /\ Consented(executed'[n], t)
    <3> SUFFICES ASSUME NEW n \in 1..Len(executed')
                 PROVE  \E t \in Tools :
                          Named(session, executed'[n], t) /\ Consented(executed'[n], t)
      OBVIOUS
    <3>1. CASE n = Len(executed) + 1
      BY <2>5, <2>6, <2>7, <3>1
    <3>2. CASE n \in 1..Len(executed)
      BY <2>7, <3>2 DEF ConsentInv
    <3>. QED BY <2>7, <3>1, <3>2
  <2>. QED BY <2>1, <2>8 DEF ConsentInv, IdsAreUnique, Named, Consented
<1>8. CASE SendRequest \/ ExceedIterations \/ StreamFails \/ PreHookPasses
             \/ PostHookPasses \/ UNCHANGED vars
  BY <1>8 DEF SendRequest, ExceedIterations, StreamFails, PreHookPasses,
     PostHookPasses, vars, ConsentInv, IdsAreUnique, Named, Consented, current
<1>. QED
  BY <1>1, <1>2, <1>3, <1>4, <1>5, <1>6, <1>7, <1>8 DEF Next, TurnStep, ToolStep

(* No tool runs without consent: the active mode covers what the tool      *)
(* requires, or the user approved this very call -- over any number of     *)
(* turns and calls, and whatever the provider asks for.  It says nothing   *)
(* of what the hook commands answered.                                     *)
THEOREM NothingRunsUnasked == Spec => []EffectsAreAuthorized
<1>1. Init => ConsentInv
  BY EmptySeq DEF Init, ConsentInv, IdsAreUnique, Named
<1>2. TypeOK /\ ConsentInv => EffectsAreAuthorized
  <2> SUFFICES ASSUME TypeOK, ConsentInv, NEW n \in 1..Len(executed)
               PROVE  Consented(executed[n], ToolOf(executed[n]))
    BY DEF EffectsAreAuthorized
  <2>1. executed[n] \in Nat
    BY ElementOfSeq DEF TypeOK
  <2>2. PICK t \in Tools : Named(session, executed[n], t) /\ Consented(executed[n], t)
    BY DEF ConsentInv
  <2>3. ToolOf(executed[n]) = t
    BY <2>1, <2>2, ToolOfNamed DEF ConsentInv
  <2>. QED BY <2>2, <2>3
<1>. QED
  BY <1>1, <1>2, ConsentStep, TypeCorrect, CompletenessInvariant, PTL DEF Spec

-----------------------------------------------------------------------------
(* Induction over the naturals, over the members of a set: the provers do  *)
(* not instantiate a theorem about a predicate, but they do a theorem      *)
(* about a set, such as WFMin.                                             *)
LEMMA SetInduction ==
  ASSUME NEW S, 0 \in S, \A n \in Nat : n \in S => n + 1 \in S
  PROVE  \A n \in Nat : n \in S
<1> SUFFICES ASSUME NEW n \in Nat, n \notin S PROVE FALSE
  OBVIOUS
<1> DEFINE U == 0..n
           Bad == {V \in FiniteSubsetsOf(U) : \E m \in U : V = 0..m /\ m \notin S}
<1>1. 0..n \in Bad
  <2>1. IsFiniteSet(0..n)
    BY FS_Interval
  <2>. QED BY <2>1 DEF FiniteSubsetsOf
<1>2. \E V \in Bad : \A W \in Bad : ~ (<<W, V>> \in StrictSubsetOrdering(U))
  <2>1. Bad \subseteq FiniteSubsetsOf(U) /\ Bad # {}
    BY <1>1
  <2> HIDE DEF Bad, U
  <2>2. IsWellFoundedOn(StrictSubsetOrdering(U), FiniteSubsetsOf(U))
    BY FS_StrictSubsetOrderingWellFounded
  <2>. QED BY <2>1, <2>2, WFMin
<1>3. PICK V \in Bad : \A W \in Bad : ~ (<<W, V>> \in StrictSubsetOrdering(U))
  BY <1>2
<1>4. PICK m \in U : V = 0..m /\ m \notin S
  OBVIOUS
<1>5. m # 0 /\ m - 1 \in U /\ m - 1 \in Nat
  BY <1>4
<1>6. m - 1 \notin S
  BY <1>4, <1>5
<1>7. 0..(m - 1) \in Bad
  <2>1. IsFiniteSet(0..(m - 1))
    BY <1>5, FS_Interval
  <2>. QED BY <1>5, <1>6, <2>1 DEF FiniteSubsetsOf
<1>8. <<0..(m - 1), V>> \in StrictSubsetOrdering(U)
  BY <1>4, <1>5 DEF StrictSubsetOrdering
<1>. QED BY <1>3, <1>7, <1>8

(* The greatest member of a set of positions.                              *)
LEMMA MaxOfSet ==
  /\ \A n \in Nat \ {0} : Max(1..n) = n /\ (1..n) \ {n} = 1..(n - 1)
  /\ \A n \in Nat : \A t \in SUBSET (1..(n + 1)) : n + 1 \in t =>
        Max(t) = n + 1 /\ t \ {n + 1} \in SUBSET (1..n)
<1>1. ASSUME NEW S, NEW n \in S, \A x \in S : x \in Int /\ n >= x PROVE Max(S) = n
  <2>1. n \in Int /\ \A x \in S : x >= n => x = n
    BY <1>1
  <2>2. \E x \in S : \A y \in S : x >= y
    BY <1>1
  <2>3. Max(S) \in S /\ \A y \in S : Max(S) >= y
    BY <2>2 DEF Max
  <2>. QED BY <2>1, <2>3
<1>2. ASSUME NEW n \in Nat, NEW t \in SUBSET (1..(n + 1)), n + 1 \in t
      PROVE Max(t) = n + 1 /\ t \ {n + 1} \in SUBSET (1..n)
  <2>1. \A x \in t : x \in Int /\ n + 1 >= x
    OBVIOUS
  <2>2. Max(t) = n + 1
    BY <1>1, <1>2, <2>1
  <2>. QED BY <2>2
<1>3. ASSUME NEW n \in Nat \ {0} PROVE Max(1..n) = n /\ (1..n) \ {n} = 1..(n - 1)
  <2>1. n \in 1..n /\ \A x \in 1..n : x \in Int /\ n >= x
    OBVIOUS
  <2>2. Max(1..n) = n
    BY <1>1, <2>1
  <2>. QED BY <2>2
<1>. QED BY <1>2, <1>3

LEMMA MaxIsMember ==
  ASSUME NEW n \in Nat, NEW t \in SUBSET (1..n), t # {}
  PROVE  Max(t) \in t
<1> DEFINE S == {k \in Nat : \A u \in SUBSET (1..k) : u # {} => Max(u) \in u}
<1>1. 0 \in S
  <2>1. \A u \in SUBSET (1..0) : u = {}
    OBVIOUS
  <2>. QED BY <2>1
<1>2. ASSUME NEW k \in Nat, k \in S PROVE k + 1 \in S
  <2>1. ASSUME NEW u \in SUBSET (1..(k + 1)), u # {} PROVE Max(u) \in u
    <3>1. CASE k + 1 \in u
      BY <3>1, MaxOfSet
    <3>2. CASE k + 1 \notin u
      <4>1. u \in SUBSET (1..k)
        BY <3>2
      <4>. QED BY <1>2, <2>1, <4>1
    <3>. QED BY <3>1, <3>2
  <2>. QED BY <2>1
<1>3. n \in S
  <2> HIDE DEF S
  <2>. QED BY <1>1, <1>2, SetInduction
<1>. QED BY <1>3

(* g folds step over the positions in a set, the greatest last, as FoldLeft*)
(* does; there is such a g for any step.                                   *)
FoldsOver(g, base, step, n) ==
  \A t \in SUBSET (1..n) : g[t] = IF t = {} THEN base ELSE step[Max(t)][g[t \ {Max(t)}]]

LEMMA FoldExists ==
  ASSUME NEW A, NEW base \in A, NEW N \in Nat, NEW step \in [1..N -> [A -> A]]
  PROVE  \E g \in [SUBSET (1..N) -> A] : FoldsOver(g, base, step, N)
<1> DEFINE Exists(n) == \E g \in [SUBSET (1..n) -> A] : FoldsOver(g, base, step, n)
           S == {n \in Nat : n <= N => Exists(n)}
<1>1. Exists(0)
  <2> DEFINE g == [t \in SUBSET (1..0) |-> base]
  <2>1. \A t \in SUBSET (1..0) : t = {}
    OBVIOUS
  <2>2. g \in [SUBSET (1..0) -> A] /\ FoldsOver(g, base, step, 0)
    BY <2>1 DEF FoldsOver
  <2>. QED BY <2>2
<1>2. ASSUME NEW n \in Nat, n + 1 <= N, Exists(n) PROVE Exists(n + 1)
  <2>1. PICK g \in [SUBSET (1..n) -> A] : FoldsOver(g, base, step, n)
    BY <1>2
  <2> DEFINE h == [t \in SUBSET (1..(n + 1)) |->
                     IF n + 1 \in t THEN step[n + 1][g[t \ {n + 1}]] ELSE g[t]]
  <2>2. \A t \in SUBSET (1..(n + 1)) : n + 1 \notin t => t \in SUBSET (1..n)
    OBVIOUS
  <2>3. \A t \in SUBSET (1..n) : t \in SUBSET (1..(n + 1)) /\ n + 1 \notin t /\ h[t] = g[t]
    OBVIOUS
  <2>4. step[n + 1] \in [A -> A]
    BY <1>2
  <2>5. h \in [SUBSET (1..(n + 1)) -> A]
    BY <2>1, <2>2, <2>4, MaxOfSet
  <2>6. ASSUME NEW t \in SUBSET (1..(n + 1))
        PROVE  h[t] = IF t = {} THEN base ELSE step[Max(t)][h[t \ {Max(t)}]]
    <3>1. CASE n + 1 \in t
      <4>1. Max(t) = n + 1 /\ t \ {n + 1} \in SUBSET (1..n)
        BY <3>1, MaxOfSet
      <4>2. h[t] = step[n + 1][g[t \ {n + 1}]] /\ h[t \ {n + 1}] = g[t \ {n + 1}]
        BY <3>1, <4>1, <2>3
      <4>. QED BY <3>1, <4>1, <4>2
    <3>2. CASE n + 1 \notin t
      <4>1. t \in SUBSET (1..n) /\ t \ {Max(t)} \in SUBSET (1..n)
        BY <3>2, <2>2
      <4>2. h[t] = g[t] /\ h[t \ {Max(t)}] = g[t \ {Max(t)}]
        BY <4>1, <2>3
      <4>. QED BY <2>1, <4>1, <4>2 DEF FoldsOver
    <3>. QED BY <3>1, <3>2
  <2>. QED BY <2>5, <2>6 DEF FoldsOver
<1> HIDE DEF Exists
<1>3. 0 \in S /\ \A n \in Nat : n \in S => n + 1 \in S
  BY <1>1, <1>2
<1>4. N \in S
  <2> HIDE DEF S
  <2>. QED BY <1>3, SetInduction
<1>5. Exists(N)
  BY <1>4
<1>. QED BY <1>5 DEF Exists


(* Two sequences of values that begin alike and go on alike.               *)
LEMMA AgreeThroughout ==
  ASSUME NEW N \in Nat, NEW f, NEW h, f[0] = h[0],
         \A k \in 1..N : f[k - 1] = h[k - 1] => f[k] = h[k]
  PROVE  f[N] = h[N]
<1> DEFINE S == {n \in Nat : n <= N => f[n] = h[n]}
<1>1. 0 \in S
  OBVIOUS
<1>2. ASSUME NEW n \in Nat, n \in S PROVE n + 1 \in S
  <2> SUFFICES ASSUME n + 1 <= N PROVE f[n + 1] = h[n + 1]
    OBVIOUS
  <2>1. n + 1 \in 1..N /\ (n + 1) - 1 = n /\ f[n] = h[n]
    BY <1>2
  <2>. QED BY <2>1
<1>3. N \in S
  <2> HIDE DEF S
  <2>. QED BY <1>1, <1>2, SetInduction
<1>. QED BY <1>3

-----------------------------------------------------------------------------
(* The usage of a session, message by message.                             *)
Trackers == [turns : Nat, latest : Nat, total : Nat]
Tracked(t, m) == IF m.role = "assistant" THEN Track(t, m.usage) ELSE t
TrackerFold(messages) ==
  CHOOSE g : g = [s \in SUBSET (DOMAIN messages) |->
     IF s = {} THEN EmptyTracker ELSE Tracked(g[s \ {Max(s)}], messages[Max(s)])]

LEMMA TrackerOfFolds == \A messages : TrackerOf(messages) = TrackerFold(messages)[DOMAIN messages]
BY SMT DEF TrackerOf, TrackerFold, FoldLeft, MapThenFoldSet, Tracked

LEMMA TrackedType ==
  ASSUME NEW t \in Trackers, NEW m \in Message
  PROVE  Tracked(t, m) \in Trackers
<1>1. CASE m.role = "assistant"
  <2>1. m.usage \in UsageValues \cup {NoUsage}
    BY <1>1 DEF Message, AssistantMessage, UserMessage, ToolMessage, SystemMessage
  <2>. QED BY <1>1, <2>1, TrackType DEF Tracked, Trackers
<1>2. CASE m.role # "assistant"
  BY <1>2 DEF Tracked
<1>. QED BY <1>1, <1>2

LEMMA TrackerFoldIsRecursive ==
  ASSUME NEW s \in Seq(Message)
  PROVE  \A t \in SUBSET (1..Len(s)) :
           TrackerFold(s)[t] =
             IF t = {} THEN EmptyTracker ELSE Tracked(TrackerFold(s)[t \ {Max(t)}], s[Max(t)])
<1> DEFINE step == [i \in 1..Len(s) |-> [t \in Trackers |-> Tracked(t, s[i])]]
           Recurs(g) == g = [t \in SUBSET (1..Len(s)) |->
                               IF t = {} THEN EmptyTracker ELSE Tracked(g[t \ {Max(t)}], s[Max(t)])]
<1>1. Len(s) \in Nat /\ DOMAIN s = 1..Len(s) /\ \A i \in 1..Len(s) : s[i] \in Message
  OBVIOUS
<1>2. step \in [1..Len(s) -> [Trackers -> Trackers]]
  BY <1>1, TrackedType
<1>3. EmptyTracker \in Trackers
  BY DEF EmptyTracker, Trackers
<1>4. PICK g \in [SUBSET (1..Len(s)) -> Trackers] : FoldsOver(g, EmptyTracker, step, Len(s))
  <2> HIDE DEF step
  <2>. QED BY <1>1, <1>2, <1>3, FoldExists
<1>5. ASSUME NEW t \in SUBSET (1..Len(s)), t # {}
      PROVE  Max(t) \in 1..Len(s) /\ t \ {Max(t)} \in SUBSET (1..Len(s))
  BY <1>1, <1>5, MaxIsMember
<1>6. Recurs(g)
  <2>1. ASSUME NEW t \in SUBSET (1..Len(s)), t # {}
        PROVE  g[t] = Tracked(g[t \ {Max(t)}], s[Max(t)])
    <3>1. g[t] = step[Max(t)][g[t \ {Max(t)}]]
      BY <1>4, <2>1 DEF FoldsOver
    <3>2. g[t \ {Max(t)}] \in Trackers
      BY <1>5, <2>1
    <3>. QED BY <1>5, <2>1, <3>1, <3>2
  <2>2. g[{}] = EmptyTracker
    BY <1>4 DEF FoldsOver
  <2>. QED BY <2>1, <2>2
<1> HIDE DEF Recurs
<1>7. Recurs(TrackerFold(s))
  <2>1. TrackerFold(s) = CHOOSE h : Recurs(h)
    BY <1>1 DEF TrackerFold, Recurs
  <2>. QED BY <1>6, <2>1
<1>. QED BY <1>7 DEF Recurs

LEMMA TrackerFoldSteps ==
  ASSUME NEW s \in Seq(Message)
  PROVE  /\ TrackerFold(s)[1..0] = EmptyTracker
         /\ \A k \in 1..Len(s) : TrackerFold(s)[1..k] = Tracked(TrackerFold(s)[1..(k - 1)], s[k])
<1>1. 1..0 = {} /\ {} \in SUBSET (1..Len(s))
  OBVIOUS
<1>2. ASSUME NEW k \in 1..Len(s)
      PROVE  TrackerFold(s)[1..k] = Tracked(TrackerFold(s)[1..(k - 1)], s[k])
  <2>1. 1..k \in SUBSET (1..Len(s)) /\ k \in 1..k
    OBVIOUS
  <2>2. Max(1..k) = k /\ (1..k) \ {k} = 1..(k - 1)
    BY MaxOfSet
  <2>. QED BY <2>1, <2>2, TrackerFoldIsRecursive
<1>. QED BY <1>1, <1>2, TrackerFoldIsRecursive

LEMMA TrackerOfAppended ==
  ASSUME NEW s \in Seq(Message), NEW m \in Message
  PROVE  TrackerOf(Append(s, m)) = Tracked(TrackerOf(s), m)
<1> DEFINE u == Append(s, m)
           f == [k \in 0..Len(s) |-> TrackerFold(s)[1..k]]
           h == [k \in 0..Len(s) |-> TrackerFold(u)[1..k]]
<1>1. /\ u \in Seq(Message) /\ Len(u) = Len(s) + 1 /\ u[Len(s) + 1] = m
      /\ \A k \in 1..Len(s) : u[k] = s[k]
      /\ Len(s) \in Nat /\ DOMAIN s = 1..Len(s) /\ DOMAIN u = 1..Len(u)
  BY AppendProperties
<1> HIDE DEF u
<1>2. f[0] = h[0]
  BY <1>1, TrackerFoldSteps
<1>3. ASSUME NEW k \in 1..Len(s), f[k - 1] = h[k - 1] PROVE f[k] = h[k]
  <2>1. k - 1 \in 0..Len(s) /\ k \in 0..Len(s) /\ k \in 1..Len(u)
    BY <1>1
  <2>2. f[k] = Tracked(f[k - 1], s[k]) /\ h[k] = Tracked(h[k - 1], u[k])
    BY <1>1, <2>1, TrackerFoldSteps
  <2>. QED BY <1>1, <1>3, <2>2
<1>4. f[Len(s)] = h[Len(s)]
  <2> HIDE DEF f, h
  <2>. QED BY <1>1, <1>2, <1>3, AgreeThroughout
<1>5. TrackerFold(s)[1..Len(s)] = TrackerFold(u)[1..Len(s)]
  BY <1>1, <1>4
<1>6. TrackerFold(u)[1..(Len(s) + 1)] = Tracked(TrackerFold(u)[1..Len(s)], m)
  <2>1. Len(s) + 1 \in 1..Len(u) /\ (Len(s) + 1) - 1 = Len(s)
    BY <1>1
  <2>. QED BY <1>1, <2>1, TrackerFoldSteps
<1>. QED BY <1>1, <1>5, <1>6, TrackerOfFolds DEF u

(* The tools that ran, message by message.                                 *)
RanToo(ids, m) == IF m.role = "tool" /\ m.status \in RanStatuses THEN Append(ids, m.id) ELSE ids
RanFold(messages) ==
  CHOOSE g : g = [s \in SUBSET (DOMAIN messages) |->
     IF s = {} THEN <<>> ELSE RanToo(g[s \ {Max(s)}], messages[Max(s)])]

LEMMA RanIdsFolds == \A messages : RanIds(messages) = RanFold(messages)[DOMAIN messages]
BY SMT DEF RanIds, RanFold, FoldLeft, MapThenFoldSet, RanToo

LEMMA RanTooType ==
  ASSUME NEW t \in Seq(Nat), NEW m \in Message
  PROVE  RanToo(t, m) \in Seq(Nat)
<1>1. m.role = "tool" => m.id \in Nat
  BY DEF Message, AssistantMessage, UserMessage, ToolMessage, SystemMessage
<1>. QED BY <1>1 DEF RanToo

LEMMA RanFoldIsRecursive ==
  ASSUME NEW s \in Seq(Message)
  PROVE  \A t \in SUBSET (1..Len(s)) :
           RanFold(s)[t] =
             IF t = {} THEN <<>> ELSE RanToo(RanFold(s)[t \ {Max(t)}], s[Max(t)])
<1> DEFINE step == [i \in 1..Len(s) |-> [t \in Seq(Nat) |-> RanToo(t, s[i])]]
           Recurs(g) == g = [t \in SUBSET (1..Len(s)) |->
                               IF t = {} THEN <<>> ELSE RanToo(g[t \ {Max(t)}], s[Max(t)])]
<1>1. Len(s) \in Nat /\ DOMAIN s = 1..Len(s) /\ \A i \in 1..Len(s) : s[i] \in Message
  OBVIOUS
<1>2. step \in [1..Len(s) -> [Seq(Nat) -> Seq(Nat)]]
  BY <1>1, RanTooType
<1>3. <<>> \in Seq(Nat)
  BY EmptySeq
<1>4. PICK g \in [SUBSET (1..Len(s)) -> Seq(Nat)] : FoldsOver(g, <<>>, step, Len(s))
  <2> HIDE DEF step
  <2>. QED BY <1>1, <1>2, <1>3, FoldExists
<1>5. ASSUME NEW t \in SUBSET (1..Len(s)), t # {}
      PROVE  Max(t) \in 1..Len(s) /\ t \ {Max(t)} \in SUBSET (1..Len(s))
  BY <1>1, <1>5, MaxIsMember
<1>6. Recurs(g)
  <2>1. ASSUME NEW t \in SUBSET (1..Len(s)), t # {}
        PROVE  g[t] = RanToo(g[t \ {Max(t)}], s[Max(t)])
    <3>1. g[t] = step[Max(t)][g[t \ {Max(t)}]]
      BY <1>4, <2>1 DEF FoldsOver
    <3>2. g[t \ {Max(t)}] \in Seq(Nat)
      BY <1>5, <2>1
    <3>. QED BY <1>5, <2>1, <3>1, <3>2
  <2>2. g[{}] = <<>>
    BY <1>4 DEF FoldsOver
  <2>. QED BY <2>1, <2>2
<1> HIDE DEF Recurs
<1>7. Recurs(RanFold(s))
  <2>1. RanFold(s) = CHOOSE h : Recurs(h)
    BY <1>1 DEF RanFold, Recurs
  <2>. QED BY <1>6, <2>1
<1>. QED BY <1>7 DEF Recurs

LEMMA RanFoldSteps ==
  ASSUME NEW s \in Seq(Message)
  PROVE  /\ RanFold(s)[1..0] = <<>>
         /\ \A k \in 1..Len(s) : RanFold(s)[1..k] = RanToo(RanFold(s)[1..(k - 1)], s[k])
<1>1. 1..0 = {} /\ {} \in SUBSET (1..Len(s))
  OBVIOUS
<1>2. ASSUME NEW k \in 1..Len(s)
      PROVE  RanFold(s)[1..k] = RanToo(RanFold(s)[1..(k - 1)], s[k])
  <2>1. 1..k \in SUBSET (1..Len(s)) /\ k \in 1..k
    OBVIOUS
  <2>2. Max(1..k) = k /\ (1..k) \ {k} = 1..(k - 1)
    BY MaxOfSet
  <2>. QED BY <2>1, <2>2, RanFoldIsRecursive
<1>. QED BY <1>1, <1>2, RanFoldIsRecursive

LEMMA RanOfAppended ==
  ASSUME NEW s \in Seq(Message), NEW m \in Message
  PROVE  RanIds(Append(s, m)) = RanToo(RanIds(s), m)
<1> DEFINE u == Append(s, m)
           f == [k \in 0..Len(s) |-> RanFold(s)[1..k]]
           h == [k \in 0..Len(s) |-> RanFold(u)[1..k]]
<1>1. /\ u \in Seq(Message) /\ Len(u) = Len(s) + 1 /\ u[Len(s) + 1] = m
      /\ \A k \in 1..Len(s) : u[k] = s[k]
      /\ Len(s) \in Nat /\ DOMAIN s = 1..Len(s) /\ DOMAIN u = 1..Len(u)
  BY AppendProperties
<1> HIDE DEF u
<1>2. f[0] = h[0]
  BY <1>1, RanFoldSteps
<1>3. ASSUME NEW k \in 1..Len(s), f[k - 1] = h[k - 1] PROVE f[k] = h[k]
  <2>1. k - 1 \in 0..Len(s) /\ k \in 0..Len(s) /\ k \in 1..Len(u)
    BY <1>1
  <2>2. f[k] = RanToo(f[k - 1], s[k]) /\ h[k] = RanToo(h[k - 1], u[k])
    BY <1>1, <2>1, RanFoldSteps
  <2>. QED BY <1>1, <1>3, <2>2
<1>4. f[Len(s)] = h[Len(s)]
  <2> HIDE DEF f, h
  <2>. QED BY <1>1, <1>2, <1>3, AgreeThroughout
<1>5. RanFold(s)[1..Len(s)] = RanFold(u)[1..Len(s)]
  BY <1>1, <1>4
<1>6. RanFold(u)[1..(Len(s) + 1)] = RanToo(RanFold(u)[1..Len(s)], m)
  <2>1. Len(s) + 1 \in 1..Len(u) /\ (Len(s) + 1) - 1 = Len(s)
    BY <1>1
  <2>. QED BY <1>1, <2>1, RanFoldSteps
<1>. QED BY <1>1, <1>5, <1>6, RanIdsFolds DEF u

-----------------------------------------------------------------------------
(* What ran and what it cost is in the session.                            *)
ToldInv == EffectsMatchTranscript /\ UsageMatchesSession

LEMMA StartTold ==
  RanIds(<<>>) = <<>> /\ TrackerOf(<<>>) = EmptyTracker
<1>1. <<>> \in Seq(Message) /\ Len(<<>>) = 0 /\ DOMAIN <<>> = 1..0
  OBVIOUS
<1>2. RanFold(<<>>)[1..0] = <<>> /\ TrackerFold(<<>>)[1..0] = EmptyTracker
  BY <1>1, RanFoldSteps, TrackerFoldSteps
<1>. QED BY <1>1, <1>2, RanIdsFolds, TrackerOfFolds

LEMMA RanIdsType ==
  ASSUME NEW s \in Seq(Message)
  PROVE  RanIds(s) \in Seq(Nat)
<1> DEFINE S == {n \in Nat : n <= Len(s) => RanFold(s)[1..n] \in Seq(Nat)}
<1>1. Len(s) \in Nat /\ DOMAIN s = 1..Len(s) /\ \A i \in 1..Len(s) : s[i] \in Message
  OBVIOUS
<1>2. 0 \in S
  BY RanFoldSteps, EmptySeq
<1>3. ASSUME NEW n \in Nat, n \in S PROVE n + 1 \in S
  <2> SUFFICES ASSUME n + 1 <= Len(s) PROVE RanFold(s)[1..(n + 1)] \in Seq(Nat)
    OBVIOUS
  <2>1. n + 1 \in 1..Len(s) /\ (n + 1) - 1 = n /\ RanFold(s)[1..n] \in Seq(Nat)
    BY <1>1, <1>3
  <2>2. RanFold(s)[1..(n + 1)] = RanToo(RanFold(s)[1..n], s[n + 1])
    BY <2>1, RanFoldSteps
  <2>. QED BY <1>1, <2>1, <2>2, RanTooType
<1>4. Len(s) \in S
  <2> HIDE DEF S
  <2>. QED BY <1>1, <1>2, <1>3, SetInduction
<1>. QED BY <1>1, <1>4, RanIdsFolds

(* A call is answered: it ran, and its execution was waiting, or it did    *)
(* not, and none was.                                                      *)
LEMMA PushResultTold ==
  ASSUME TypeOK, ToldInv, pc \in ToolPhases, NEW st \in Statuses, PushResult(st),
         st \in RanStatuses <=> pc = "post", UNCHANGED executed
  PROVE  ToldInv'
<1> DEFINE m == [role |-> "tool", id |-> current.id, status |-> st]
<1>1. m \in Message /\ session \in Seq(Message) /\ current.id \in Nat /\ executed \in Seq(Nat)
  BY CurrentIsCall DEF Message, ToolMessage, TypeOK
<1>2. session' = Append(session, m) /\ tracker' = tracker /\ pc' # "post"
  BY DEF PushResult, ResultMessage, AfterAnswer
<1> DEFINE ran == RanIds(session)
<1>3. ran \in Seq(Nat) /\ executed = ran \o (IF pc = "post" THEN <<current.id>> ELSE <<>>)
  BY <1>1, RanIdsType DEF ToldInv, EffectsMatchTranscript
<1>4. RanIds(session') = RanToo(ran, m) /\ TrackerOf(session') = Tracked(TrackerOf(session), m)
  BY <1>1, <1>2, RanOfAppended, TrackerOfAppended
<1> HIDE DEF ran
<1>5. RanToo(ran, m) = IF pc = "post" THEN Append(ran, current.id) ELSE ran
  BY DEF RanToo
<1>6. executed = RanToo(ran, m) /\ executed = executed \o <<>>
  <2>1. CASE pc = "post"
    <3>1. ran \o <<current.id>> = Append(ran, current.id) /\ executed \o <<>> = executed
      BY <1>1, <1>3
    <3>. QED BY <1>3, <1>5, <2>1, <3>1
  <2>2. CASE pc # "post"
    <3>1. ran \o <<>> = ran
      BY <1>3
    <3>. QED BY <1>3, <1>5, <2>2, <3>1
  <2>. QED BY <2>1, <2>2
<1>7. EffectsMatchTranscript'
  BY <1>2, <1>4, <1>6 DEF EffectsMatchTranscript
<1>8. UsageMatchesSession'
  BY <1>2, <1>4 DEF ToldInv, UsageMatchesSession, Tracked
<1>. QED BY <1>7, <1>8 DEF ToldInv

LEMMA QuietStepTold ==
  ASSUME ToldInv, UNCHANGED <<session, tracker, executed>>, pc # "post", pc' # "post"
  PROVE  ToldInv'
<1>1. RanIds(session)' = RanIds(session) /\ TrackerOf(session)' = TrackerOf(session)
  OBVIOUS
<1>. QED BY <1>1 DEF ToldInv, EffectsMatchTranscript, UsageMatchesSession

LEMMA ToldStep ==
  ASSUME TypeOK, ToldInv, [Next]_vars PROVE ToldInv'
<1>1. CASE StartTurn
  <2> DEFINE m == [role |-> "user"]
  <2>1. /\ m \in Message /\ session \in Seq(Message) /\ session' = Append(session, m)
        /\ pc = "idle" /\ pc' = "loop" /\ UNCHANGED <<tracker, executed>>
    BY <1>1 DEF StartTurn, Message, UserMessage, TypeOK
  <2>2. RanIds(session') = RanToo(RanIds(session), m) /\ TrackerOf(session') = Tracked(TrackerOf(session), m)
    BY <2>1, RanOfAppended, TrackerOfAppended
  <2>. QED BY <2>1, <2>2 DEF RanToo, Tracked, ToldInv, EffectsMatchTranscript, UsageMatchesSession
<1>2. ASSUME NEW tools \in Replies, NEW usage \in UsageValues \cup {NoUsage}, ReceiveReply(tools, usage)
      PROVE  ToldInv'
  <2> DEFINE uses == [k \in 1..Len(tools) |-> [id |-> nextId + k - 1, tool |-> tools[k]]]
             m == [role |-> "assistant", calls |-> uses, usage |-> usage]
  <2>1. uses \in Seq(Call)
    BY RepliesType, UsesType DEF TypeOK
  <2>2. /\ session' = Append(session, m) /\ tracker' = Track(tracker, usage)
        /\ pc = "stream" /\ pc' \in {"idle", "authorize"} /\ UNCHANGED executed
    BY <1>2 DEF ReceiveReply, TrackReply, AfterReply
  <2> HIDE DEF uses
  <2>3. m \in Message /\ session \in Seq(Message)
    BY <2>1 DEF Message, AssistantMessage, TypeOK
  <2>4. RanIds(session') = RanToo(RanIds(session), m) /\ TrackerOf(session') = Tracked(TrackerOf(session), m)
    BY <2>2, <2>3, RanOfAppended, TrackerOfAppended
  <2>. QED BY <2>2, <2>4 DEF RanToo, Tracked, ToldInv, EffectsMatchTranscript, UsageMatchesSession
<1>3. ASSUME NEW st \in {"ok", "error"}, Execute(st) PROVE ToldInv'
  <2>1. /\ executed' = Append(executed, current.id) /\ pc = "pre" /\ pc' = "post"
        /\ UNCHANGED <<session, tracker, calls, done>>
    BY <1>3 DEF Execute
  <2>2. executed \in Seq(Nat) /\ current.id \in Nat /\ RanIds(session) \in Seq(Nat)
    BY <2>1, CurrentIsCall, RanIdsType DEF TypeOK
  <2>3. RanIds(session)' = RanIds(session) /\ TrackerOf(session)' = TrackerOf(session) /\ current' = current
    BY <2>1 DEF current
  <2>4. executed = RanIds(session) \o <<>> /\ tracker = TrackerOf(session)
    BY <2>1 DEF ToldInv, EffectsMatchTranscript, UsageMatchesSession
  <2>5. executed' = RanIds(session) \o <<current.id>>
    BY <2>1, <2>2, <2>4
  <2>. QED BY <2>1, <2>3, <2>4, <2>5 DEF ToldInv, EffectsMatchTranscript, UsageMatchesSession
<1>4. CASE PostHookPasses
  <2>1. pc = "post" /\ pc' = "post" /\ UNCHANGED <<session, tracker, executed, calls, done>>
    BY <1>4 DEF PostHookPasses
  <2>2. RanIds(session)' = RanIds(session) /\ TrackerOf(session)' = TrackerOf(session) /\ current' = current
    BY <2>1 DEF current
  <2>. QED BY <2>1, <2>2 DEF ToldInv, EffectsMatchTranscript, UsageMatchesSession
<1>5. CASE UserRefuses \/ DenyCall
  <2>1. pc = "authorize" /\ PushResult("denied") /\ UNCHANGED executed
    BY <1>5 DEF UserRefuses, DenyCall
  <2>. QED BY <2>1, PushResultTold
<1>6. CASE PreHookDenies
  <2>1. pc = "pre" /\ PushResult("blocked") /\ UNCHANGED executed
    BY <1>6 DEF PreHookDenies
  <2>. QED BY <2>1, PushResultTold
<1>7. CASE PostHookDenies
  <2>1. pc = "post" /\ PushResult("vetoed") /\ UNCHANGED executed
    BY <1>7 DEF PostHookDenies
  <2>. QED BY <2>1, PushResultTold
<1>8. CASE RecordExecution
  <2>1. pc = "post" /\ PushResult(status) /\ UNCHANGED executed /\ status \in {"ok", "error"}
    BY <1>8 DEF RecordExecution, TypeOK
  <2>. QED BY <2>1, PushResultTold
<1>9. CASE SendRequest \/ ExceedIterations \/ StreamFails \/ GrantCall \/ UserApproves \/ PreHookPasses
  <2>1. UNCHANGED <<session, tracker, executed>> /\ pc # "post" /\ pc' # "post"
    BY <1>9 DEF SendRequest, ExceedIterations, StreamFails, GrantCall, UserApproves, PreHookPasses
  <2>. QED BY <2>1, QuietStepTold
<1>10. CASE UNCHANGED vars
  <2>1. UNCHANGED <<session, tracker, executed, pc, calls, done>>
    BY <1>10 DEF vars
  <2>2. RanIds(session)' = RanIds(session) /\ TrackerOf(session)' = TrackerOf(session) /\ current' = current
    BY <2>1 DEF current
  <2>. QED BY <2>1, <2>2 DEF ToldInv, EffectsMatchTranscript, UsageMatchesSession
<1>. QED
  BY <1>1, <1>2, <1>3, <1>4, <1>5, <1>6, <1>7, <1>8, <1>9, <1>10 DEF Next, TurnStep, ToolStep

(* The session tells it all: the tools that ran are those its results name,*)
(* once and in their order, each with consent, and the running totals are  *)
(* what a runtime rebuilt from the session computes -- for any turns,      *)
(* calls, hooks and usages.                                                *)
THEOREM SessionTellsItAll == Spec => []SessionTellsAll
<1>1. Init => ToldInv
  BY StartTold DEF Init, ToldInv, EffectsMatchTranscript, UsageMatchesSession
<1>2. TypeOK /\ ToldInv /\ [Next]_vars => ToldInv'
  BY ToldStep
<1>3. ToldInv /\ EffectsAreAuthorized => SessionTellsAll
  BY DEF ToldInv, SessionTellsAll
<1>. QED BY <1>1, <1>2, <1>3, TypeCorrect, NothingRunsUnasked, PTL DEF Spec
-----------------------------------------------------------------------------
(* The isolation of a command (Sandbox).  What the answer says is computed *)
(* when the call looks at the settings, which may change before the shell  *)
(* starts: SandboxInv ties each to what it was computed from.              *)
Chosen ==
  [a \in Aspects |-> CHOOSE v \in IF asked[a] # {} THEN asked[a]
                                   ELSE IF consulted[a] # {} THEN consulted[a]
                                   ELSE {Default[a]} : TRUE]

SandboxInv ==
  /\ machine \in Machines /\ settings \in SettingsWishes
  /\ stage \in {"none", "called", "resolved", "launched"}
  /\ stage # "none" => asked \in CallWishes
  /\ stage \in {"resolved", "launched"} =>
       consulted \in SettingsWishes \cup {Silent} /\ isolation = StatusOf(Chosen)
  /\ stage = "launched" => shell = Launched

LEMMA SandboxStep == SandboxInv /\ [SandboxNext]_sandboxVars => SandboxInv'
<1> SUFFICES ASSUME SandboxInv, [SandboxNext]_sandboxVars PROVE SandboxInv'
  OBVIOUS
<1>1. CASE CallBash
  BY <1>1 DEF CallBash, SandboxInv
<1>2. CASE Resolve
  <2>1. consulted' \in SettingsWishes \cup {Silent}
    BY <1>2 DEF Resolve, SandboxInv, Configured
  <2>2. StatusOf(Chosen)' = StatusOf(Request)
    BY <1>2 DEF Resolve, StatusOf, Missing, Chosen, Request
  <2>. QED BY <1>2, <2>1, <2>2 DEF Resolve, SandboxInv
<1>3. CASE Launch
  <2>1. StatusOf(Chosen)' = StatusOf(Chosen) /\ Launched' = Launched
    BY <1>3 DEF Launch, StatusOf, Missing, Chosen, Launched, Launcher
  <2>. QED BY <1>3, <2>1 DEF Launch, SandboxInv
<1>4. CASE EditSettings \/ LoseFolders \/ UNCHANGED sandboxVars
  <2>1. /\ settings' \in SettingsWishes
        /\ UNCHANGED <<machine, asked, stage, consulted, isolation, shell>>
    BY <1>4 DEF EditSettings, LoseFolders, sandboxVars, SandboxInv
  <2>2. StatusOf(Chosen)' = StatusOf(Chosen) /\ Launched' = Launched
    BY <2>1 DEF StatusOf, Missing, Chosen, Launched, Launcher
  <2>. QED BY <2>1, <2>2 DEF SandboxInv
<1>. QED BY <1>1, <1>2, <1>3, <1>4 DEF SandboxNext

(* What is chosen for an aspect is the one value the call wants for it.    *)
LEMMA ChosenIsWanted ==
  ASSUME SandboxInv, stage \in {"resolved", "launched"}, NEW a \in Aspects
  PROVE  \A v : Wants(a, v) <=> Chosen[a] = v
<1> DEFINE said == IF asked[a] # {} THEN asked[a]
                   ELSE IF consulted[a] # {} THEN consulted[a] ELSE {Default[a]}
<1>1. \A u, v \in asked[a] : u = v
  BY SandboxAssumption DEF SandboxInv
<1>2. \A u, v \in consulted[a] : u = v
  BY SandboxAssumption DEF SandboxInv, Silent
<1>3. said # {} /\ \A u, v \in said : u = v
  BY <1>1, <1>2
<1>4. Chosen[a] = CHOOSE v \in said : TRUE
  BY DEF Chosen
<1>5. Chosen[a] \in said
  BY <1>3, <1>4
<1>6. \A v : Wants(a, v) <=> v \in said
  BY DEF Wants
<1>. QED BY <1>3, <1>5, <1>6

LEMMA ChosenIsBoolean ==
  ASSUME SandboxInv, stage \in {"resolved", "launched"},
         NEW a \in {"enabled", "namespaces", "network"}
  PROVE  Chosen[a] \in BOOLEAN
<1>1. a \in Aspects /\ Wants(a, Chosen[a])
  BY ChosenIsWanted DEF Aspects
<1>2. asked[a] \subseteq BOOLEAN /\ consulted[a] \subseteq BOOLEAN
  BY <1>1, SandboxAssumption DEF SandboxInv, Silent
<1>3. Default[a] \in BOOLEAN
  <2>1. Default["enabled"] = TRUE /\ Default["namespaces"] = TRUE /\ Default["network"] = FALSE
    BY DEF Default
  <2>. QED BY <2>1
<1>. QED BY <1>1, <1>2, <1>3 DEF Wants

LEMMA InvMeansTold == SandboxInv => IsolationIsTold
<1> SUFFICES ASSUME SandboxInv, stage = "launched" PROVE IsolationIsTold
  BY DEF IsolationIsTold
<1> DEFINE r == Chosen
<1>1. r.enabled \in BOOLEAN /\ r.namespaces \in BOOLEAN /\ r.network \in BOOLEAN
  BY ChosenIsBoolean
<1>2. /\ Wants("enabled", FALSE) <=> r.enabled = FALSE
      /\ Wants("network", TRUE) <=> r.network = TRUE
      /\ Wants("namespaces", TRUE) <=> r.namespaces = TRUE
      /\ Wants("filesystem", "off") <=> r.filesystem = "off"
  BY ChosenIsWanted DEF Aspects
<1>3. machine.unshare \in BOOLEAN
  BY SandboxAssumption DEF SandboxInv
<1>4. isolation = StatusOf(r) /\ shell = Launched
  BY DEF SandboxInv
<1> HIDE DEF r
<1>5. /\ isolation.enabled = r.enabled /\ isolation.requested = r
      /\ isolation.active = (r.enabled /\ (r.namespaces \/ r.network => machine.unshare))
      /\ isolation.namespaceActive = (r.enabled /\ r.namespaces /\ machine.unshare)
      /\ isolation.networkActive = (r.enabled /\ r.network /\ machine.unshare)
      /\ isolation.filesystemActive = (r.enabled /\ r.filesystem # "off")
      /\ isolation.reasons = Missing(r)
  BY <1>4 DEF StatusOf
<1>6. /\ "network" \in Missing(r) <=> r.enabled /\ r.network /\ ~machine.unshare
      /\ "namespaces" \in Missing(r) <=> r.enabled /\ r.namespaces /\ ~machine.unshare
      /\ Missing(r) \subseteq {"namespaces", "network", "mounts"}
  BY DEF Missing
<1>7. Missing(r) \subseteq {"mounts"} <=> ~(r.enabled /\ (r.network \/ r.namespaces) /\ ~machine.unshare)
  BY <1>6
<1>8. CASE Launcher
  <2>1. /\ shell.by = "unshare" /\ shell.home = "workspace"
        /\ shell.network = IF isolation.networkActive THEN "own" ELSE "shared"
    BY <1>4, <1>8 DEF Launched
  <2>. QED BY <1>1, <1>2, <1>3, <1>5, <1>6, <1>7, <1>8, <2>1 DEF IsolationIsTold, Launcher
<1>9. CASE ~Launcher
  <2>1. /\ shell.by = "sh" /\ shell.network = "shared"
        /\ shell.home = IF isolation.filesystemActive THEN "workspace" ELSE "user"
    BY <1>4, <1>9 DEF Launched
  <2>. QED BY <1>1, <1>2, <1>3, <1>5, <1>6, <1>7, <1>9, <2>1 DEF IsolationIsTold, Launcher
<1>. QED BY <1>8, <1>9

(* What the answer of a bash command says of its isolation is true of the  *)
(* shell, and what was asked for is in force or said to be missing -- for  *)
(* any wishes, settings that change meanwhile, and machines.               *)
THEOREM IsolationIsAlwaysTold == SandboxSpec => []IsolationIsTold
<1>1. SandboxInit => SandboxInv
  BY DEF SandboxInit, SandboxInv
<1>. QED BY <1>1, SandboxStep, InvMeansTold, PTL DEF SandboxSpec

-----------------------------------------------------------------------------
(* The process of a call (ChildProcesses).  ChildInv follows it to the     *)
(* answer, CallerInv says what the caller knows at each place, and         *)
(* OutputInv where the output is: in the pipe, or read.                    *)
Places == {"idle", "start", "feed", "poll", "kill", "wait", "gather", "told"}
Polls  == Way = "powershell" /\ invocation.limit /\ ~invocation.background

WritesBefore(n) == {k \in Writes : k < n}

ChildInv ==
  /\ program \in Programs /\ caller \in Places
  /\ child \in {"none", "running", "ended", "signalled", "killed"} /\ listens \in BOOLEAN
  /\ at \in Nat \ {0} /\ at <= Len(program.steps) + 1
  /\ child = "none" <=> caller \in {"idle", "start"} \/ (caller = "told" /\ answer.kind = "unstarted")
  /\ child = "ended" => at > Len(program.steps)
  /\ child = "killed" => Polls /\ (caller = "gather" \/ (caller = "told" /\ answer.kind = "timeout"))
  /\ invocation.background /\ caller \notin {"idle", "start"} => caller = "told"

CallerInv ==
  /\ caller \in {"poll", "kill", "gather"} => Polls
  /\ caller = "feed" => Fed
  /\ Polls => caller # "feed" /\ (caller = "wait" => child \in {"ended", "signalled"})
  /\ caller \in {"kill", "gather"} => late
  /\ caller = "gather" => child # "running"
  /\ fed \in Nat

OutputInv ==
  /\ output \in Nat /\ written \in Nat /\ taken \in Nat
  /\ output <= Capacity
  /\ written = taken + output
  /\ ~invocation.background => written = Cardinality(WritesBefore(at))
  /\ Polls /\ caller \in {"idle", "start", "poll", "kill"} => taken = 0
  /\ Polls => written <= Capacity

AnswerInv ==
  caller = "told" =>
    /\ answer.kind \in {"started", "unstarted", "broken", "done", "timeout"}
    /\ answer.kind = "started" => invocation.background
    /\ answer.kind # "started" => ~invocation.background \/ answer.kind = "unstarted"
    /\ answer.kind = "done" =>
         /\ child \in {"ended", "signalled"} /\ answer.output = written
         /\ child = "ended" => at = Len(program.steps) + 1 /\ answer.code = program.code
         /\ child = "signalled" /\ answer.code = 0 => Way \in {"bash", "powershell"}
    /\ answer.kind = "timeout" =>
         /\ late
         /\ Way # "bash" => child # "running" /\ answer.output = written
         /\ Way = "bash" \/ Polls
    /\ answer.kind = "broken" => fed < invocation.payload /\ ~Listening

ProcessInv == ChildInv /\ CallerInv /\ OutputInv /\ AnswerInv

LEMMA WritesAt ==
  ASSUME ChildInv, at <= Len(program.steps)
  PROVE  /\ IsFiniteSet(WritesBefore(at)) /\ Cardinality(WritesBefore(at)) \in Nat
         /\ Cardinality(WritesBefore(at + 1)) =
              Cardinality(WritesBefore(at)) + IF program.steps[at] = "write" THEN 1 ELSE 0
<1>1. program.steps \in Seq({"read", "close", "write", "leave"})
  BY ProcessAssumption DEF ChildInv
<1>2. DOMAIN program.steps = 1..Len(program.steps) /\ Len(program.steps) \in Nat
  BY <1>1
<1>3. IsFiniteSet(WritesBefore(at)) /\ Cardinality(WritesBefore(at)) \in Nat
  <2>1. WritesBefore(at) \subseteq 1..Len(program.steps)
    BY <1>2 DEF WritesBefore, Writes
  <2>2. IsFiniteSet(1..Len(program.steps))
    BY <1>2, FS_Interval
  <2>. QED BY <2>1, <2>2, FS_Subset, FS_CardinalityType
<1>4. at \notin WritesBefore(at)
  BY DEF WritesBefore, ChildInv
<1>5. CASE program.steps[at] = "write"
  <2>1. WritesBefore(at + 1) = WritesBefore(at) \cup {at}
    BY <1>2, <1>5 DEF WritesBefore, Writes, ChildInv
  <2>. QED BY <1>3, <1>4, <1>5, <2>1, FS_AddElement
<1>6. CASE program.steps[at] # "write"
  <2>1. WritesBefore(at + 1) = WritesBefore(at)
    BY <1>2, <1>6 DEF WritesBefore, Writes, ChildInv
  <2>. QED BY <1>3, <1>6, <2>1
<1>. QED BY <1>3, <1>5, <1>6

LEMMA NoWritesYet ==
  ASSUME program \in Programs
  PROVE  Cardinality(WritesBefore(1)) = 0
<1>1. program.steps \in Seq({"read", "close", "write", "leave"})
  BY ProcessAssumption
<1>2. WritesBefore(1) = {}
  BY <1>1 DEF WritesBefore, Writes
<1>. QED BY <1>2, FS_EmptySet

LEMMA AllWrites ==
  ASSUME ChildInv
  PROVE  WritesBefore(Len(program.steps) + 1) = Writes
<1>1. program.steps \in Seq({"read", "close", "write", "leave"})
  BY ProcessAssumption DEF ChildInv
<1>. QED BY <1>1 DEF WritesBefore, Writes

(* What a caller does, it does without moving the process on.              *)
LEMMA CallerStepInv ==
  ASSUME ProcessInv, CallerStep
  PROVE  ProcessInv'
<1> USE DEF Told, Way, Fed, Polls, Places
<1>0. WritesBefore(at)' = WritesBefore(at)
  BY DEF CallerStep, Start, StartFails, Feed, FeedEnds, Poll, Kill, Take, WaitEnds, GiveUpWaiting,
         WritesBefore, Writes
<1>l. program.steps \in Seq({"read", "close", "write", "leave"}) /\ Len(program.steps) \in Nat
  BY ProcessAssumption DEF ProcessInv, ChildInv
<1> USE DEF ProcessInv, ChildInv, CallerInv, OutputInv, AnswerInv
<1>1. CASE Start
  <2>1. CASE invocation.background
    BY <1>0, <1>1, <2>1 DEF Start
  <2>2. CASE ~invocation.background
    BY <1>0, <1>1, <2>2 DEF Start, Watching
  <2>. QED BY <2>1, <2>2
<1>2. CASE StartFails
  BY <1>0, <1>2 DEF StartFails
<1>3. CASE Feed
  BY <1>0, <1>3 DEF Feed, Listening
<1>4. CASE FeedEnds
  BY <1>0, <1>4 DEF FeedEnds
<1>5. CASE Poll
  BY <1>0, <1>5 DEF Poll
<1>6. CASE Kill
  BY <1>0, <1>6 DEF Kill
<1>7. CASE Take
  <2>1. Capacity \in Nat
    BY ProcessAssumption
  <2>2. ChildInv' /\ CallerInv' /\ AnswerInv'
    BY <1>0, <1>7 DEF Take
  <2>3. OutputInv'
    BY <1>0, <1>7, <2>1 DEF Take
  <2>. QED BY <2>2, <2>3
<1>8. CASE WaitEnds
  <2>1. /\ caller' = "told" /\ UNCHANGED <<invocation, program, child, at, listens, fed, output,
                                             written, taken, late>>
        /\ output = 0 /\ child # "running"
    BY <1>8 DEF WaitEnds, OutputOver
  <2>2. CASE caller = "gather"
    <3>1. answer'.kind = "timeout" /\ answer'.output = taken
      BY <1>8, <2>2 DEF WaitEnds
    <3>. QED BY <1>0, <2>1, <2>2, <3>1
  <2>3. CASE caller = "wait"
    <3>1. answer'.kind = "done" /\ answer'.output = taken /\ answer'.code = CodeTold
      BY <1>8, <2>3 DEF WaitEnds
    <3>2. /\ child \in {"ended", "signalled"}
          /\ child = "ended" => at = Len(program.steps) + 1
      BY <1>l, <2>1, <2>3
    <3>3. child = "ended" => CodeTold = program.code
      BY DEF CodeTold, ShellCode, ReplCode, OwnCode, StatusOr
    <3>4. child = "signalled" /\ CodeTold = 0 => Way \in {"bash", "powershell"}
      BY DEF CodeTold, ShellCode, ReplCode, OwnCode, StatusOr, NoCode
    <3>. QED BY <1>0, <2>1, <2>3, <3>1, <3>2, <3>3, <3>4
  <2>. QED BY <1>8, <2>2, <2>3 DEF WaitEnds
<1>9. CASE GiveUpWaiting
  BY <1>0, <1>9 DEF GiveUpWaiting
<1>. QED BY <1>1, <1>2, <1>3, <1>4, <1>5, <1>6, <1>7, <1>8, <1>9 DEF CallerStep

(* What the process does, it does without the caller.                      *)
LEMMA ChildStepInv ==
  ASSUME ProcessInv, ChildStep \/ UserEndsInput \/ Signalled \/ HolderEnds, UNCHANGED Elsewhere
  PROVE  ProcessInv'
<1>l. program.steps \in Seq({"read", "close", "write", "leave"}) /\ Len(program.steps) \in Nat
  BY ProcessAssumption DEF ProcessInv, ChildInv
<1>c. Capacity \in Nat
  BY ProcessAssumption
<1> USE DEF Way, Fed, Polls, Places, Elsewhere, Does, Goes
<1>0. CASE UNCHANGED <<at, output, written>> /\ child' \in {child, "ended", "signalled"}
  <2>1. WritesBefore(at)' = WritesBefore(at)
    BY <1>0 DEF WritesBefore, Writes
  <2>2. child = "running" \/ child' = child
    BY <1>0 DEF ChildStep, ReadOn, ReadToEnd, UserEndsInput, Close, Write, Leave, Exit,
               Signalled, HolderEnds
  <2>3. child' # child /\ child' = "ended" => at > Len(program.steps)
    BY <1>0, <1>l DEF ChildStep, ReadOn, ReadToEnd, UserEndsInput, Close, Write, Leave, Exit,
               Signalled, HolderEnds
  <2>4. listens' \in BOOLEAN /\ (listens' => listens)
    BY <1>0 DEF ChildStep, ReadOn, ReadToEnd, UserEndsInput, Close, Write, Leave, Exit, Signalled,
                HolderEnds, ProcessInv, ChildInv
  <2>. QED
    BY <1>0, <1>l, <2>1, <2>2, <2>3, <2>4
       DEF ProcessInv, ChildInv, CallerInv, OutputInv, AnswerInv, Listening
<1>1. CASE at' = at + 1
  <2>1. child = "running" /\ child' = child /\ at <= Len(program.steps)
    <3>1. at # at + 1
      BY DEF ProcessInv, ChildInv
    <3>2. ~ReadOn /\ ~Exit /\ ~Signalled /\ ~HolderEnds
      BY <1>1, <3>1 DEF ReadOn, Exit, Signalled, HolderEnds
    <3>3. CASE ReadToEnd \/ UserEndsInput \/ Close \/ Leave
      BY <3>3 DEF ReadToEnd, UserEndsInput, Close, Leave
    <3>4. CASE Write
      BY <1>1, <3>1, <3>4 DEF Write
    <3>. QED BY <3>2, <3>3, <3>4 DEF ChildStep
  <2>1a. listens' \in BOOLEAN /\ (listens' => listens)
    <3>1. listens' = listens \/ listens' = FALSE
      BY DEF ChildStep, ReadOn, ReadToEnd, UserEndsInput, Close, Write, Leave, Exit, Signalled,
             HolderEnds
    <3>2. listens \in BOOLEAN
      BY DEF ProcessInv, ChildInv
    <3>3. CASE listens' = listens
      BY <3>2, <3>3
    <3>4. CASE listens' = FALSE
      BY <3>4
    <3>. QED BY <3>1, <3>3, <3>4
  <2>2. \/ program.steps[at] # "write" /\ UNCHANGED <<output, written>>
        \/ invocation.background /\ UNCHANGED <<output, written>>
        \/ /\ program.steps[at] = "write" /\ caller # "told" /\ output < Capacity
           /\ output' = output + 1 /\ written' = written + 1
    BY <1>1, <2>1 DEF ChildStep, ReadOn, ReadToEnd, UserEndsInput, Close, Write, Leave, Exit,
               Signalled, HolderEnds,
                ProcessInv, ChildInv
  <2>3. WritesBefore(at)' = WritesBefore(at + 1)
    BY <1>1 DEF WritesBefore, Writes
  <2>3a. /\ Cardinality(WritesBefore(at)) \in Nat
         /\ Cardinality(WritesBefore(at + 1)) =
              Cardinality(WritesBefore(at)) + IF program.steps[at] = "write" THEN 1 ELSE 0
    BY <2>1, WritesAt DEF ProcessInv
  <2>4. ~invocation.background => Cardinality(WritesBefore(at))' = written'
    BY <2>2, <2>3, <2>3a DEF ProcessInv, OutputInv
  <2>5. ChildInv' /\ CallerInv'
    BY <1>1, <1>l, <2>1, <2>1a DEF ProcessInv, ChildInv, CallerInv
  <2>6. OutputInv'
    <3>1. CASE UNCHANGED <<output, written>>
      BY <2>1, <2>4, <3>1 DEF ProcessInv, OutputInv
    <3>2. CASE output < Capacity /\ output' = output + 1 /\ written' = written + 1 /\ caller # "told"
      <4>1. Polls => taken = 0
        BY <2>1, <3>2 DEF ProcessInv, ChildInv, CallerInv, OutputInv
      <4>. QED BY <1>c, <2>1, <2>4, <3>2, <4>1 DEF ProcessInv, OutputInv
    <3>. QED BY <2>2, <3>1, <3>2
  <2>7. AnswerInv'
    BY <2>1, <2>1a, <2>2 DEF ProcessInv, AnswerInv, OutputInv, Listening
  <2>. QED BY <2>5, <2>6, <2>7 DEF ProcessInv
<1>2. at' = at + 1 \/ (UNCHANGED <<at, output, written>> /\ child' \in {child, "ended", "signalled"})
  BY DEF ChildStep, ReadOn, ReadToEnd, UserEndsInput, Close, Write, Leave, Exit,
               Signalled, HolderEnds
<1>. QED BY <1>0, <1>1, <1>2

LEMMA ProcessInvStep == ProcessInv /\ [ProcessNext]_processVars => ProcessInv'
<1> SUFFICES ASSUME ProcessInv, [ProcessNext]_processVars PROVE ProcessInv'
  OBVIOUS
<1>1. CASE Time
  <2>1. WritesBefore(at)' = WritesBefore(at)
    BY <1>1 DEF Time, WritesBefore, Writes
  <2>. QED
    BY <1>1, <2>1 DEF Time, ProcessInv, ChildInv, CallerInv, OutputInv, AnswerInv, Polls, Way,
             Fed, Listening
<1>2. CASE UNCHANGED processVars
  <2>1. WritesBefore(at)' = WritesBefore(at)
    BY <1>2 DEF processVars, WritesBefore, Writes
  <2>. QED
    BY <1>2, <2>1 DEF processVars, ProcessInv, ChildInv, CallerInv, OutputInv, AnswerInv, Polls, Way,
             Fed, Listening
<1>. QED BY <1>1, <1>2, CallerStepInv, ChildStepInv DEF ProcessNext

(* What a caller is told of a process is what the process did: its code or *)
(* that a signal ended it, all of its output, that it is dead -- for any   *)
(* programs, also such as close their input, payloads, pipes and timeouts, *)
(* whoever else holds the output.                                          *)
THEOREM AnswersAreAlwaysTrue == ProcessSpec => []AnswersAreTrue
<1>1. ProcessInit => ProcessInv
  <2> SUFFICES ASSUME ProcessInit PROVE ProcessInv
    OBVIOUS
  <2>1. program.steps \in Seq({"read", "close", "write", "leave"}) /\ Capacity \in Nat /\ program \in Programs
    BY ProcessAssumption DEF ProcessInit
  <2>2. Cardinality(WritesBefore(at)) = 0
    BY <2>1, NoWritesYet DEF ProcessInit
  <2>. QED
    BY <2>1, <2>2 DEF ProcessInit, Untold, ProcessInv, ChildInv, CallerInv, OutputInv, AnswerInv, Places
<1>2. ProcessInv => AnswersAreTrue
  <2> SUFFICES ASSUME ProcessInv, caller = "told" PROVE AnswersAreTrue
    BY DEF AnswersAreTrue
  <2>1. program.steps \in Seq({"read", "close", "write", "leave"})
    BY ProcessAssumption DEF ProcessInv, ChildInv
  <2>2. answer.kind = "done" /\ child = "ended" => written = Cardinality(Writes)
    BY AllWrites DEF ProcessInv, ChildInv, AnswerInv, OutputInv
  <2>. QED
    BY <2>1, <2>2 DEF AnswersAreTrue, ProcessInv, ChildInv, CallerInv, OutputInv, AnswerInv, Polls,
                     Way, Listening
<1>. QED BY <1>1, <1>2, ProcessInvStep, PTL DEF ProcessSpec
=============================================================================
