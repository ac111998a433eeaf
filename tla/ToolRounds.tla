----------------------------- MODULE ToolRounds -----------------------------
(***************************************************************************)
(* The rounds of a turn as the provider and the tools see them: what a     *)
(* request offers and tells (ApiClient::stream of both clients,            *)
(* build_chat_completion_request of the OpenAI-style provider), how a      *)
(* reply, streamed or whole, becomes a message of the session, and what    *)
(* the executors of the command line and of sub-agents do with its calls.  *)
(* How a stream is gathered from interleaved deltas is module ReplyStream, *)
(* and who has to agree to a call before it runs is module Conversation.   *)
(***************************************************************************)
EXTENDS Naturals, Sequences, SequencesExt

CONSTANTS
  Owners,     \* who runs the turn: see Init
  WireReplies,   \* what a provider may say, per style
  MaxReplies  \* replies in a turn

(* A spelled input is an empty object, another, text that is no JSON, or   *)
(* nothing.                                                                *)
Spelled == {"{}", "object", "cut", ""}

ASSUME RoundAssumption ==
  /\ \A o \in Owners :
       /\ o.who \in {"cli", "agent"} /\ o.kind \in STRING /\ o.tools \subseteq STRING
       /\ o.enabled \in BOOLEAN /\ o.prints \in BOOLEAN
  /\ \A style \in {"claw", "openai"} :
       WireReplies[style] \subseteq
         Seq([is : {"text"}, text : Seq(STRING)] \cup [is : {"thought"}]
             \cup [is : {"call"}, id : {<<>>}, name : STRING, input : Spelled])
  /\ MaxReplies \in Nat

VARIABLES
  owner,    \* [who, tools, enabled, prints] and the kind of a sub-agent
  speaks,   \* the provider's style: claw or openai
  turn,     \* asked, reply, tools, or done
  talk,     \* the session
  asked,    \* the last asked: tools offered and messages
  calls,    \* calls of the last reply that have no result yet
  said,     \* history: the replies as the provider said them
  effects,  \* history: calls whose tool did its work
  spoiled   \* history: calls whose result a hook objected to or was not shown

roundVars == <<owner, speaks, turn, talk, asked, calls, said, effects, spoiled>>

-----------------------------------------------------------------------------
(* The input of a call is a JSON value or text.  As text it is spelled as  *)
(* the provider did, or wrapped: {"raw": <the text that was no JSON>}.     *)
IsJson(spelled) == spelled \in {"{}", "object"}
Value(spelled)  == [wrapped |-> FALSE, of |-> spelled]
Raw(spelled)    == [wrapped |-> TRUE, of |-> spelled]
TextOf(value)   == <<IF value.wrapped THEN "wrapped" ELSE "plain", value.of>>
Parses(text)    == text[1] = "wrapped" \/ IsJson(text[2])

(* parse_tool_arguments and convert_messages: text that is no JSON is      *)
(* wrapped.                                                                *)
Parsed(text) ==
  IF text[1] = "wrapped" THEN Raw(text[2])
  ELSE IF IsJson(text[2]) THEN Value(text[2]) ELSE Raw(text[2])

(* Blocks of a reply and of the session; text is a sequence of letters.    *)
TextBlock(letters)      == [is |-> "text", text |-> letters]
Call(id, name, input)   == [is |-> "call", id |-> id, name |-> name, input |-> input]
Thought                 == [is |-> "thought"]
Result(id, name, error) == [is |-> "result", id |-> id, name |-> name, error |-> error]
Message(role, blocks)   == [role |-> role, blocks |-> blocks]

CallsOf(blocks) ==
  FlattenSeq([i \in DOMAIN blocks |-> IF blocks[i].is = "call" THEN <<blocks[i]>> ELSE <<>>])
Letters(blocks) ==
  FlattenSeq([i \in DOMAIN blocks |-> IF blocks[i].is = "text" THEN blocks[i].text ELSE <<>>])

-----------------------------------------------------------------------------
(* allowed_tools_for_subagent: what an agent of each kind may use.         *)
Reading == {"read_file", "glob_search", "grep_search", "ToolSearch"}
Web     == {"WebFetch", "WebSearch", "StructuredOutput"}
Editing == {"write_file", "edit_file"}
ToolsOf(kind) ==
  CASE kind = "Explore"          -> Reading \cup Web \cup {"Skill"}
    [] kind = "Plan"             -> Reading \cup Web \cup {"Skill", "TodoWrite", "SendUserMessage"}
    [] kind = "Verification"     -> Reading \cup Web \cup {"bash", "TodoWrite", "SendUserMessage", "PowerShell"}
    [] kind = "claw-guide"       -> Reading \cup Web \cup {"Skill", "SendUserMessage"}
    [] kind = "statusline-setup" -> Reading \cup Editing \cup {"bash"}
    [] OTHER -> Reading \cup Web \cup Editing \cup
                {"bash", "TodoWrite", "Skill", "NotebookEdit", "Sleep", "SendUserMessage", "Config",
                 "REPL", "PowerShell"}

BuiltIns == ToolsOf("general-purpose") \cup {"Agent"}
Registered == BuiltIns \cup (IF owner.who = "cli" THEN {"plugin_tool"} ELSE {})

(* The tools a client lists, and the calls its executor lets through: an   *)
(* empty set of allowed tools stands for the command line's None.          *)
Allowed ==
  IF owner.who = "agent" THEN ToolsOf(owner.kind)
  ELSE IF owner.tools = {} THEN Registered ELSE owner.tools
OfferedTools == IF owner.enabled THEN Registered \cap Allowed ELSE {}

(* The prompt of the turn; the command line may have compacted before.     *)
Prompt  == Message("user", <<TextBlock(<<"p">>)>>)
Summary == Message("system", <<TextBlock(<<"s">>)>>)

RoundInit ==
  /\ owner \in Owners
  /\ speaks \in (IF owner.who = "cli" THEN {"claw"} ELSE {"claw", "openai"})
  /\ turn = "request"
  /\ talk \in {<<Prompt>>} \cup (IF owner.who = "cli" THEN {<<Summary, Prompt>>} ELSE {})
  /\ asked = [tools |-> {}, messages |-> <<>>]
  /\ calls = <<>> /\ said = <<>> /\ effects = <<>> /\ spoiled = {}

-----------------------------------------------------------------------------
(* convert_messages: a message for the Claw-style interface.               *)
Converted(message) ==
  Message(IF message.role = "assistant" THEN "assistant" ELSE "user",
          [i \in DOMAIN message.blocks |->
             IF message.blocks[i].is = "call"
             THEN [message.blocks[i] EXCEPT !.input = Parsed(@)] ELSE message.blocks[i]])

(* translate_message: an OpenAI-style assistant's text comes before its    *)
(* calls, and each result is a message of its own.  First, one in which    *)
(* the calls of a message that has text are forgotten.                     *)
OpenAi(role, text, of) == [role |-> role, text |-> text, of |-> of]
TextOrCalls(message) ==
  IF message.role = "assistant"
  THEN <<OpenAi("assistant", Letters(message.blocks),
                IF Letters(message.blocks) = <<>> THEN CallsOf(message.blocks) ELSE <<>>)>>
  ELSE [i \in DOMAIN message.blocks |->
          IF message.blocks[i].is = "result" THEN OpenAi("tool", <<>>, <<message.blocks[i]>>)
          ELSE OpenAi("user", message.blocks[i].text, <<>>)]
Translated(message) ==
  IF message.role = "assistant"
  THEN <<OpenAi("assistant", Letters(message.blocks), CallsOf(message.blocks))>>
  ELSE [i \in DOMAIN message.blocks |->
          IF message.blocks[i].is = "result" THEN OpenAi("tool", <<>>, <<message.blocks[i]>>)
          ELSE OpenAi("user", message.blocks[i].text, <<>>)]

SendRound ==
  /\ turn = "request" /\ Len(said) < MaxReplies
  /\ LET messages == [i \in DOMAIN talk |-> Converted(talk[i])]
     IN asked' = [tools |-> OfferedTools,
                    messages |-> IF speaks = "claw" THEN messages
                                 ELSE FlattenSeq([i \in DOMAIN messages |-> Translated(messages[i])])]
  /\ turn' = "reply"
  /\ UNCHANGED <<owner, speaks, talk, calls, said, effects, spoiled>>

-----------------------------------------------------------------------------
(* What a client gathers of a call's input.  A streamed block starts with  *)
(* an empty object, which counts for nothing, and its input follows: a     *)
(* provider need not send any for an empty object.  In a whole reply the   *)
(* input is a value, which normalize_response makes of OpenAI-style text.  *)
Spellings(form, spelled) ==
  IF form = "stream" /\ speaks = "claw" /\ spelled = "{}" THEN {"{}", ""} ELSE {spelled}
Gathered(form, spelled) ==
  IF form = "stream" THEN <<"plain", spelled>> ELSE TextOf(Parsed(<<"plain", spelled>>))

(* push_output_block and build_assistant_message: thoughts are dropped,    *)
(* texts that follow each other are joined.                                *)
WithText(blocks, letters) ==
  IF letters = <<>> THEN blocks
  ELSE IF blocks # <<>> /\ Last(blocks).is = "text"
       THEN Append(Front(blocks), TextBlock(Last(blocks).text \o letters))
       ELSE Append(blocks, TextBlock(letters))
WithBlock(built, form, b) ==
  CASE b.is = "text" -> WithText(built, b.text)
    [] b.is = "call" -> Append(built, [b EXCEPT !.input = Gathered(form, @)])
    [] OTHER         -> built
Built(form, blocks) ==
  LET built[n \in 0..Len(blocks)] ==
        IF n = 0 THEN <<>> ELSE WithBlock(built[n - 1], form, blocks[n])
  IN built[Len(blocks)]

(* The provider's reply: its ids are its own, and the spelling of each     *)
(* call is what comes over the wire.                                       *)
Uttered(blocks, form, spell) ==
  [i \in DOMAIN blocks |->
     IF blocks[i].is # "call" THEN blocks[i]
     ELSE Call(<<Len(said) + 1, i>>, blocks[i].name, spell[i])]

ReplyArrives(blocks, form) ==
  /\ turn = "reply"
  /\ \E spell \in [DOMAIN blocks -> Spelled] :
       /\ \A i \in DOMAIN blocks :
            spell[i] \in (IF blocks[i].is = "call" THEN Spellings(form, blocks[i].input) ELSE {""})
       /\ LET spoken == Uttered(blocks, form, spell)
              built  == Built(form, spoken)
          IN /\ said' = Append(said, spoken)
             /\ calls' = CallsOf(built)
             /\ IF built = <<>> THEN turn' = "done" /\ UNCHANGED talk
                ELSE /\ talk' = Append(talk, Message("assistant", built))
                     /\ turn' = IF calls' = <<>> THEN "done" ELSE "tools"
  /\ UNCHANGED <<owner, speaks, asked, effects, spoiled>>

-----------------------------------------------------------------------------
(* The result of the next call, which joins the session.                   *)
Answers(error) ==
  /\ talk' = Append(talk, Message("tool", <<Result(Head(calls).id, Head(calls).name, error)>>))
  /\ calls' = Tail(calls)
  /\ turn' = IF Tail(calls) = <<>> THEN "request" ELSE "tools"
  /\ UNCHANGED <<owner, speaks, asked, said>>

(* The executors: the call must be of a tool that is allowed, and its      *)
(* input must parse; then a tool there is may do its work, or fail.  First,*)
(* one that relies on the tools it listed.                                 *)
ParsesOnly(call) == Parses(call.input)
Executable(call) == call.name \in Allowed /\ Parses(call.input)

(* The PostToolUse hook is asked after every call that was executed, and   *)
(* makes an error of a result it objects to.  The runtime of a sub-agent   *)
(* has no hooks.                                                           *)
Executed(failed, unshown) ==
  \E objects \in (IF owner.who = "cli" THEN BOOLEAN ELSE {FALSE}) :
    /\ Answers(failed \/ objects)
    /\ spoiled' = IF unshown \/ objects THEN spoiled \cup {Head(calls).id} ELSE spoiled

RejectCall ==
  turn = "tools" /\ ~Executable(Head(calls)) /\ Executed(TRUE, FALSE) /\ UNCHANGED effects

ToolFails ==
  turn = "tools" /\ Executable(Head(calls)) /\ Executed(TRUE, FALSE) /\ UNCHANGED effects

(* The refusal of the user, of the policy or of the hook before the call.  *)
(* An agent's policy allows all.                                           *)
RefuseCall ==
  turn = "tools" /\ owner.who = "cli" /\ Answers(TRUE) /\ UNCHANGED <<effects, spoiled>>

ToolWorks ==
  /\ turn = "tools" /\ Executable(Head(calls)) /\ Head(calls).name \in Registered
  /\ effects' = Append(effects, Head(calls).id)
  /\ Executed(FALSE, FALSE)

(* The command line prints a result before it is one: when that fails, the *)
(* call counts as failed.                                                  *)
ResultIsNotShown ==
  /\ turn = "tools" /\ owner.prints /\ Executable(Head(calls)) /\ Head(calls).name \in Registered
  /\ effects' = Append(effects, Head(calls).id)
  /\ Executed(TRUE, TRUE)

RoundNext ==
  \/ SendRound
  \/ \E blocks \in WireReplies[speaks], form \in {"stream", "whole"} : ReplyArrives(blocks, form)
  \/ RejectCall \/ ToolFails \/ RefuseCall \/ ToolWorks \/ ResultIsNotShown

RoundSpec == RoundInit /\ [][RoundNext]_roundVars

-----------------------------------------------------------------------------
(* What a request tells, one letter, call or result after the other.       *)
Spelt(letters) == [i \in DOMAIN letters |-> TextBlock(<<letters[i]>>)]
ItemsOf(block) ==
  CASE block.is = "text"    -> Spelt(block.text)
    [] block.is = "thought" -> <<>>
    [] OTHER                -> <<block>>
Items(blocks) == FlattenSeq([i \in DOMAIN blocks |-> ItemsOf(blocks[i])])
ToldBy(message) == IF speaks = "claw" THEN Items(message.blocks) ELSE Spelt(message.text) \o message.of
Told == FlattenSeq([i \in DOMAIN asked.messages |-> ToldBy(asked.messages[i])])

(* What the provider said in a reply, as it should be told: what was no    *)
(* JSON is wrapped.                                                        *)
Meaning(block) ==
  IF block.is # "call" THEN block
  ELSE [block EXCEPT !.input = IF IsJson(@) THEN Value(@) ELSE Raw(@)]
Echo(reply) ==
  LET meant == [i \in DOMAIN reply |-> Meaning(reply[i])] IN
  IF speaks = "claw" THEN Items(meant) ELSE Spelt(Letters(reply)) \o CallsOf(meant)

Opening == IF talk[1] = Summary THEN Spelt(<<"s", "p">>) ELSE Spelt(<<"p">>)
IsAnswer(x, id) == x.is = "result" /\ x.id = id
AnswerTo(id) == CHOOSE x \in ToSet(Told) : IsAnswer(x, id)
(* A provider is told its own replies word for word in the order it said   *)
(* them, each followed by one result for each of its calls, in their       *)
(* order: text keeps its place among the calls with a Claw-style provider  *)
(* and comes before them with an OpenAI-style one, and an input is the     *)
(* JSON that was sent, or tells the text that was none -- nothing at all   *)
(* when a streamed call has an empty object for its input and no more.     *)
RoundsAreTold ==
  turn = "reply" =>
    LET ids(k) == [i \in DOMAIN CallsOf(said[k]) |-> CallsOf(said[k])[i].id]
        answered(k) == Echo(said[k]) \o [i \in DOMAIN ids(k) |-> AnswerTo(ids(k)[i])]
    IN /\ \A k \in DOMAIN said : \A i \in DOMAIN ids(k) : \E x \in ToSet(Told) : IsAnswer(x, ids(k)[i])
       /\ Told = Opening \o FlattenSeq([k \in DOMAIN said |-> answered(k)])

(* A tool works only when the request before offered it -- or, when the    *)
(* request offered none at all, when the user allows it -- and once for a  *)
(* call; no agent starts another.  A result is an error just when the tool *)
(* did not work, the hook after it objected, or it could not be shown: an  *)
(* error is no word that the tool did nothing, but a result without one is *)
(* a word that it worked.                                                  *)
OnlyOfferedToolsWork ==
  /\ IsInjective(effects)
  /\ \A i \in DOMAIN effects :
       \E block \in ToSet(said[effects[i][1]]) :
         /\ block.is = "call" /\ block.id = effects[i]
         /\ IF owner.enabled THEN block.name \in asked.tools ELSE block.name \in Allowed
         /\ owner.who = "agent" => block.name # "Agent"
  /\ \A i \in DOMAIN talk : talk[i].role = "tool" =>
       LET result == talk[i].blocks[1] IN
       result.error <=> (result.id \notin ToSet(effects) \/ result.id \in spoiled)
=============================================================================
