---------------------------- MODULE ModelRequest ----------------------------
(***************************************************************************)
(* One request to a model provider, from the first attempt to the frames   *)
(* of the reply: send_with_retry of both providers with its backoff        *)
(* (api/src/providers), the parsers that put frames together again from    *)
(* the pieces the connection happens to deliver (api/src/sse.rs for the    *)
(* Claw-style provider, openai_compat.rs), and the clients' second request *)
(* when a stream told nothing.  What the frames say is module ReplyStream. *)
(***************************************************************************)
EXTENDS Naturals, Sequences, SequencesExt

CONSTANTS
  Policies,  \* [retries, initial, maximum]: with_retry_policy
  Replies    \* per style, the replies of a provider: sequences of frames, each
             \* a sequence of lines

Styles == {"claw", "openai"}

(* Lines of which a frame is made; an event is a payload in one line or    *)
(* more.  "start" and "text" are payloads, of which a client can use the   *)
(* text; a ping's payload is no event.                                     *)
Payload == {"start", "text", "more"}
Lines   == Payload \cup {"event", "ping", "comment", "done"}

ASSUME RequestAssumption ==
  /\ \A p \in Policies : p.retries \in Nat /\ p.initial \in Nat /\ p.maximum \in Nat
  /\ \A s \in Styles : Replies[s] \subseteq Seq(Seq(Lines))

VARIABLES
  policy,    \* of the client
  style,     \* of the provider
  form,      \* what is asked for: a stream, or then the whole reply at once
  doing,     \* send, sleep, read, or done
  attempts,  \* the attempts of this request so far
  failure,   \* why the last of them failed
  retried,   \* history: the failures that another attempt followed
  slept,     \* history: the waits between the attempts
  answers,   \* history: requests the provider answered
  frames,    \* history: the frames of the stream
  wire,      \* the bytes of it that have not arrived
  buffer,    \* bytes the parser holds
  got,       \* events given to the client
  result     \* what the caller is told

trying      == <<attempts, failure, retried, slept>>
request     == <<policy, style, form, doing, trying>>
stream      == <<frames, wire, buffer, got>>
requestVars == <<request, stream, answers, result>>

Untold == [kind |-> "none"]

RequestInit ==
  /\ policy \in Policies /\ style \in Styles
  /\ form = "stream" /\ doing = "send"
  /\ attempts = 0 /\ failure = "none" /\ retried = {} /\ slept = <<>>
  /\ answers = 0 /\ result = Untold
  /\ frames = <<>> /\ wire = <<>> /\ buffer = <<>> /\ got = <<>>

Tell(what) == doing' = "done" /\ result' = what

-----------------------------------------------------------------------------
(* The sort of failure an attempt may have: no connection or none that     *)
(* lasted until the answer; a status that passes (408, 409, 429, 500, 502, *)
(* 503, 504); any other status.                                            *)
Failures == {"connection", "busy", "refused"}
Retryable(f) == f # "refused"

(* The wait before attempt n + 1: the initial backoff doubled n - 1 times, *)
(* at most the maximum; 1 is shifted in 32 bits, which fails from n = 33.  *)
Least(a, b) == IF a < b THEN a ELSE b
MaxShift == 32
Backoff(p) ==
  LET wait[n \in 1..MaxShift] == IF n = 1 THEN Least(p.initial, p.maximum)
                                 ELSE Least(2 * wait[n - 1], p.maximum)
  IN wait

(* Must the request be given up after its n-th failure?  First, one too    *)
(* late, as if the first attempt was none.                                 *)
RetriedOnceMore(n) == n > policy.retries + 1
OutOfRetries(n) == n > policy.retries

GiveUp(what) == Tell(what) /\ UNCHANGED slept

AttemptFails(f) ==
  LET n == attempts + 1
  IN /\ doing = "send"
     /\ attempts' = n /\ failure' = f
     /\ \/ /\ ~ Retryable(f)
           /\ GiveUp([kind |-> "failed", last |-> f])
        \/ /\ Retryable(f) /\ OutOfRetries(n)
           /\ GiveUp([kind |-> "exhausted", attempts |-> n, last |-> f])
        \/ /\ Retryable(f) /\ ~ OutOfRetries(n) /\ n > MaxShift
           /\ GiveUp([kind |-> "overflow", attempts |-> n])
        \/ /\ Retryable(f) /\ ~ OutOfRetries(n) /\ n <= MaxShift
           /\ doing' = "sleep" /\ slept' = Append(slept, Backoff(policy)[n])
           /\ UNCHANGED result
     /\ UNCHANGED <<policy, style, form, retried, stream, answers>>

Wake ==
  /\ doing = "sleep" /\ doing' = "send"
  /\ retried' = retried \cup {failure}
  /\ UNCHANGED <<policy, style, form, attempts, failure, slept, stream, answers, result>>

-----------------------------------------------------------------------------
(* A provider ends its lines in one way, and each frame with an empty one; *)
(* the connection may end behind the last line of a frame, or anywhere     *)
(* else, which counts as an end too, or break.                             *)
LineEnds == {<<"n">>, <<"r", "n">>}

Bytes(fs, end) ==
  FlattenSeq([i \in DOMAIN fs |->
                FlattenSeq([j \in DOMAIN fs[i] |-> <<fs[i][j]>> \o end]) \o end])

StreamBegins(fs, end) ==
  /\ doing = "send" /\ form = "stream"
  /\ doing' = "read" /\ answers' = answers + 1
  /\ frames' = fs /\ wire' = Bytes(fs, end)
  /\ UNCHANGED <<policy, style, form, trying, buffer, got, result>>

(* The first separator of either kind: two newlines anywhere come before   *)
(* the longer one.                                                         *)
Occurs(mark, bytes) ==
  {i \in 1..Len(bytes) : i + Len(mark) - 1 <= Len(bytes)
                         /\ SubSeq(bytes, i, i + Len(mark) - 1) = mark}
Separators(bytes) ==
  IF Occurs(<<"n", "n">>, bytes) # {} THEN {<<"n", "n">>}
  ELSE {m \in {<<"r", "n", "r", "n">>} : Occurs(m, bytes) # {}}

(* What follows a frame stays in the buffer.                               *)
After(bytes, i, mark) == SubSeq(bytes, i + Len(mark), Len(bytes))

(* parse_frame: the lines with data, joined; a ping, a comment and the     *)
(* closing [DONE] are no event.  An OpenAI-style provider has no pings.    *)
EventOf(text) ==
  LET data == SelectSeq(text, LAMBDA line : line \in Payload \cup {"done"})
  IN IF data \in {<<>>, <<"done">>} \/ Contains(text, "ping") THEN <<>> ELSE <<data>>

(* The frames in the buffer, as long as there is one; each has two bytes.  *)
NextFrame(parser) ==
  LET bytes == parser.buffer
  IN IF Separators(bytes) = {} THEN parser
     ELSE LET mark == CHOOSE m \in Separators(bytes) : TRUE
              i    == CHOOSE k \in Occurs(mark, bytes) :
                        \A l \in Occurs(mark, bytes) : k <= l
          IN [buffer |-> After(bytes, i, mark),
              events |-> parser.events \o EventOf(SubSeq(bytes, 1, i - 1))]
Drained(bytes) ==
  LET parser[n \in 0..Len(bytes) \div 2] ==
        IF n = 0 THEN [buffer |-> bytes, events |-> <<>>] ELSE NextFrame(parser[n - 1])
  IN parser[Len(bytes) \div 2]

(* The next bytes arrive, any number of them.                              *)
Receive(n) ==
  /\ doing = "read" /\ n \in 1..Len(wire)
  /\ LET drained == Drained(buffer \o SubSeq(wire, 1, n))
     IN buffer' = drained.buffer /\ got' = got \o drained.events
  /\ wire' = SubSeq(wire, n + 1, Len(wire))
  /\ UNCHANGED <<request, frames, answers, result>>

Events(fs) == FlattenSeq([i \in DOMAIN fs |-> EventOf(fs[i])])

(* At the end a Claw-style frame needs no empty line behind it, and fails  *)
(* to parse if it is cut: without its other lines, or within a line.       *)
Trailing == IF style = "claw" THEN EventOf(buffer) ELSE <<>>
EndsReadable == Trailing = <<>> \/ IsPrefix(got \o Trailing, Events(frames))
WithinPayload == style = "claw" /\ wire # <<>> /\ Head(wire) \in Payload

(* Did the stream tell anything a client can use?  StreamState makes at    *)
(* least the end of a message out of whatever an OpenAI-style stream says. *)
Useful(events) ==
  \E i \in DOMAIN events : style = "openai" \/ Head(events[i]) = "text"

StreamIsCut ==
  /\ doing = "read" /\ (~ EndsReadable \/ WithinPayload)
  /\ Tell([kind |-> "unreadable"])
  /\ UNCHANGED <<policy, style, form, trying, stream, answers>>

(* The stream ends, wherever it is: if it told nothing, the request is     *)
(* made once more, without streaming, with all its retries.                *)
StreamEnds ==
  /\ doing = "read" /\ EndsReadable
  /\ got' = got \o Trailing /\ buffer' = <<>>
  /\ \/ /\ Useful(got')
        /\ Tell([kind |-> "reply"]) /\ UNCHANGED <<form, trying>>
     \/ /\ ~ Useful(got')
        /\ form' = "whole" /\ doing' = "send" /\ UNCHANGED result
        /\ attempts' = 0 /\ failure' = "none" /\ retried' = {} /\ slept' = <<>>
  /\ UNCHANGED <<policy, style, frames, wire, answers>>

StreamBreaks ==
  /\ doing = "read"
  /\ Tell([kind |-> "broken"])
  /\ UNCHANGED <<policy, style, form, trying, stream, answers>>

(* The reply as a whole, which may not be one.                             *)
WholeReply ==
  /\ doing = "send" /\ form = "whole"
  /\ answers' = answers + 1
  /\ \E kind \in {"reply", "unreadable"} : Tell([kind |-> kind])
  /\ UNCHANGED <<policy, style, form, trying, stream>>

RequestNext ==
  \/ \E f \in Failures : AttemptFails(f)
  \/ Wake
  \/ \E fs \in Replies[style], end \in LineEnds : StreamBegins(fs, end)
  \/ \E n \in 1..Len(wire) : Receive(n)
  \/ StreamIsCut \/ StreamEnds \/ StreamBreaks \/ WholeReply

RequestSpec == RequestInit /\ [][RequestNext]_requestVars

-----------------------------------------------------------------------------
(* The events given to the client are those of the one stream that was     *)
(* answered, whole and in order, however its bytes were cut; all of them,  *)
(* if all bytes came.                                                      *)
FramesArriveWhole ==
  /\ IsPrefix(got, Events(frames))
  /\ (result.kind = "reply" /\ form = "stream" /\ wire = <<>>) => got = Events(frames)

(* A request is attempted again only after a failure that may pass, never  *)
(* after an answer but one that told nothing, and at most as often as the  *)
(* policy says; the waits between grow up to the maximum; and the caller   *)
(* is told the last failure and the true number of attempts -- but for a   *)
(* policy of more retries than the backoff has bits.                       *)
Failed == {"failed", "exhausted", "overflow"}
RetriesAreHonest ==
  /\ attempts <= policy.retries + 1
  /\ retried \subseteq {"connection", "busy"}
  /\ Len(slept) = attempts - (IF result.kind \in Failed THEN 1 ELSE 0)
  /\ \A i \in DOMAIN slept : slept[i] <= policy.maximum /\ (i > 1 => slept[i - 1] <= slept[i])
  /\ answers <= (IF form = "whole" THEN 2 ELSE 1)
  /\ form = "whole" => ~ Useful(got)
  /\ result.kind \in {"failed", "exhausted"} => result.last = failure
  /\ result.kind = "exhausted" => result.attempts = policy.retries + 1
  /\ result.kind = "overflow" => policy.retries > MaxShift
=============================================================================
