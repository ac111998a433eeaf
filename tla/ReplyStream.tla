---------------------------- MODULE ReplyStream ----------------------------
(***************************************************************************)
(* How a streamed reply becomes the events of one model turn.  The         *)
(* provider sends chunks; a chunk of an OpenAI-style provider is a bundle  *)
(* of deltas that StreamState (api/src/providers/openai_compat.rs) turns   *)
(* into the events a Claw-style provider sends itself (claw_provider.rs);  *)
(* a client folds these into text and tool calls: the command line's       *)
(* (claw-cli/src/main.rs) in one slot, the sub-agents' (tools/src/lib.rs)  *)
(* in a slot per block.  The connection may end or break at any time.      *)
(***************************************************************************)
EXTENDS Naturals, Sequences, SequencesExt

CONSTANTS
  Calls,      \* indexes of tool calls, numbers
  Setups,     \* the dialects and clients that work together
  MaxPieces,  \* bound: pieces of one call's arguments
  MaxChunks   \* bound: chunks of a reply in each dialect

Dialects == {"openai", "claw"}
Clients  == {"command line", "agent"}

ASSUME StreamAssumption ==
  /\ Calls \subseteq Nat /\ Setups \subseteq Dialects \X Clients
  /\ MaxPieces \in Nat /\ MaxChunks \in [Dialects -> Nat]

VARIABLES
  dialect,   \* the provider's
  client,    \* whose client reads the reply
  told,      \* history: what the provider has said of calls and of text,
             \* and the block it has open
  finish,    \* history: the finish reason it has given
  chunks,    \* chunks on their way
  sent,      \* history: chunks sent
  connection,\* open, ended or broken
  state,     \* StreamState
  pending,   \* events not yet given to the client
  slots,     \* calls the client is gathering: a set of [at, call, input]
  events,    \* the events the client has gathered
  outcome    \* reading, reply, again (a request without streaming), error

provider == <<told, finish, chunks, sent, connection>>
vars == <<dialect, client, provider, state, pending, slots, events, outcome>>

-----------------------------------------------------------------------------
(* Pieces m+1..n of a call's arguments, the events, and the text block 0.  *)
Pieces(m, n) == [k \in 1..(n - m) |-> m + k]
TextStart    == [kind |-> "start", block |-> 0, call |-> "text"]
TextDelta    == [kind |-> "text"]
Start(i)     == [kind |-> "start", block |-> i + 1, call |-> "tool"]
Delta(i, ps) == [kind |-> "input", block |-> i + 1, pieces |-> ps]
Stop(b)      == [kind |-> "stop", block |-> b]
Began        == [kind |-> "began"]
Usage        == [kind |-> "usage"]
Ended        == [kind |-> "ended"]

Unheard == [named |-> FALSE, got |-> 0, emitted |-> 0, started |-> FALSE,
            stopped |-> FALSE]

Init ==
  /\ \E s \in Setups : dialect = s[1] /\ client = s[2]
  /\ told = [text |-> 0, named |-> {}, pieces |-> [i \in Calls |-> 0], open |-> {}]
  /\ finish = "none" /\ chunks = <<>> /\ sent = 0 /\ connection = "open"
  /\ state = [began |-> FALSE, text |-> "none", finished |-> FALSE,
              calls |-> [i \in Calls |-> Unheard]]
  /\ pending = <<>> /\ slots = {} /\ events = <<>> /\ outcome = "reading"

(***************************************************************************)
(* The providers: external.  An OpenAI-style chunk has text, deltas of     *)
(* calls, which may interleave, and at the end a finish reason.            *)
(***************************************************************************)
Piece(i, named, piece) == [index |-> i, named |-> named, piece |-> piece]

Deltas ==
  LET one == {Piece(i, n, p) : i \in Calls, n \in BOOLEAN, p \in {0, 1}}
  IN {<<>>} \cup {<<d>> : d \in one}
       \cup {<<d, e>> : d \in one, e \in {x \in one : x.named /\ x.piece = 1}}

Sayable(ds) ==
  /\ \A k, l \in DOMAIN ds : ds[k].index = ds[l].index => k = l
  /\ \A k \in DOMAIN ds :
       /\ ds[k].named => ds[k].index \notin told.named
       /\ told.pieces[ds[k].index] + ds[k].piece <= MaxPieces
       /\ ds[k].named \/ ds[k].piece = 1

Transmit(chunk) ==
  /\ connection = "open" /\ finish = "none" /\ sent < MaxChunks[dialect]
  /\ sent' = sent + 1
  /\ chunks' = Append(chunks, chunk)
  /\ UNCHANGED <<connection, state, pending, slots, events, outcome>>

SayChunk(text, ds, reason) ==
  /\ dialect = "openai"
  /\ Sayable(ds)
  /\ Transmit([text |-> text, deltas |-> ds, finish |-> reason])
  /\ finish' = reason
  /\ told' = [told EXCEPT
       !.text = @ + text,
       !.named = @ \cup {d.index : d \in {e \in ToSet(ds) : e.named}},
       !.pieces = [i \in Calls |-> @[i] + (IF \E d \in ToSet(ds) : d.index = i /\ d.piece = 1
                                             THEN 1 ELSE 0)]]

(* A Claw-style provider sends the events, one block after the other.      *)
SayEvent(event) ==
  /\ dialect = "claw"
  /\ Transmit(event)

SayBegan ==
  /\ sent = 0 /\ SayEvent(Began)
  /\ UNCHANGED <<told, finish>>

SayStart(i) ==
  /\ sent > 0 /\ told.open = {} /\ i \notin told.named
  /\ SayEvent(Start(i))
  /\ told' = [told EXCEPT !.named = @ \cup {i}, !.open = {i + 1}]
  /\ UNCHANGED finish

SayTextStart ==
  /\ sent > 0 /\ told.open = {}
  /\ SayEvent(TextStart)
  /\ told' = [told EXCEPT !.open = {0}]
  /\ UNCHANGED finish

SayText ==
  /\ 0 \in told.open
  /\ SayEvent(TextDelta)
  /\ told' = [told EXCEPT !.text = @ + 1]
  /\ UNCHANGED finish

SayPiece(i) ==
  /\ i + 1 \in told.open /\ told.pieces[i] < MaxPieces
  /\ SayEvent(Delta(i, Pieces(told.pieces[i], told.pieces[i] + 1)))
  /\ told' = [told EXCEPT !.pieces[i] = @ + 1]
  /\ UNCHANGED finish

SayStop(b) ==
  /\ b \in told.open
  /\ SayEvent(Stop(b))
  /\ told' = [told EXCEPT !.open = {}]
  /\ UNCHANGED finish

SayEnded ==
  /\ sent > 0 /\ told.open = {}
  /\ SayEvent(Ended)
  /\ finish' = "stop"
  /\ UNCHANGED told

(* The end of the response, after its last chunk or before; or an error.   *)
Close ==
  /\ connection = "open"
  /\ connection' \in {"ended", "broken"}
  /\ UNCHANGED <<told, finish, chunks, sent, state, pending, slots, events, outcome>>

(***************************************************************************)
(* StreamState                                                             *)
(***************************************************************************)
(* ToolCallState: a call is started once its name is known, with whatever  *)
(* of its arguments came before.                                           *)
InputOf(c) == Pieces(c.emitted, c.got)

(* apply                                                                   *)
Heard(c, d) == [c EXCEPT !.named = @ \/ d.named, !.got = @ + d.piece]
DeltaEvents(i, c) == IF c.emitted < c.got THEN <<Delta(i, InputOf(c))>> ELSE <<>>
Spoken(c) == [c EXCEPT !.started = TRUE, !.emitted = c.got]

(* One delta of a call; acc is the calls and the events so far.            *)
TakeDelta(acc, d, reason) ==
  LET c    == Heard(acc.calls[d.index], d)
      ends == reason = "tool_calls" /\ ~c.stopped
  IN IF ~c.named
       THEN [acc EXCEPT !.calls[d.index] = c]
       ELSE [calls  |-> [acc.calls EXCEPT
                           ![d.index] = [Spoken(c) EXCEPT !.stopped = @ \/ ends]],
             events |-> acc.events
                          \o (IF c.started THEN <<>> ELSE <<Start(d.index)>>)
                          \o DeltaEvents(d.index, c)
                          \o (IF ends THEN <<Stop(d.index + 1)>> ELSE <<>>)]

(* Calls that are started and not stopped are stopped, in their order.     *)
InOrder(S) == SetToSortSeq(S, LAMBDA i, j : i < j)
StopOpen(acc) ==
  LET open == {i \in Calls : acc.calls[i].started /\ ~acc.calls[i].stopped}
  IN [calls  |-> [i \in Calls |-> [acc.calls[i] EXCEPT !.stopped = @ \/ i \in open]],
      events |-> acc.events \o [k \in DOMAIN InOrder(open) |-> Stop(InOrder(open)[k] + 1)]]

(* ingest_chunk.                                                           *)
Ingested(chunk) ==
  LET opened == (IF state.began THEN <<>> ELSE <<Began>>)
                  \o (IF chunk.text = 1 /\ state.text = "none" THEN <<TextStart>> ELSE <<>>)
                  \o (IF chunk.text = 1 THEN <<TextDelta>> ELSE <<>>)
      heard  == FoldLeft(LAMBDA acc, d : TakeDelta(acc, d, chunk.finish),
                         [calls |-> state.calls, events |-> opened], chunk.deltas)
      ended  == IF chunk.finish = "tool_calls" THEN StopOpen(heard) ELSE heard
  IN [state  |-> [state EXCEPT !.began = TRUE, !.calls = ended.calls,
                               !.text = IF chunk.text = 1 THEN "started" ELSE @],
      events |-> ended.events]

(* What the client is given after the last chunk of an OpenAI-style reply, *)
(* or after the cut: every open block is stopped.                           *)
TextEnd == IF state.text = "started" THEN <<Stop(0)>> ELSE <<>>
MessageEnd == IF state.began THEN <<Usage, Ended>> ELSE <<>>
Finished == StopOpen([calls |-> state.calls, events |-> TextEnd]).events \o MessageEnd

Ingest ==
  /\ outcome = "reading" /\ pending = <<>> /\ chunks # <<>>
  /\ chunks' = Tail(chunks)
  /\ IF dialect = "openai"
       THEN /\ state' = Ingested(Head(chunks)).state
            /\ pending' = Ingested(Head(chunks)).events
       ELSE pending' = <<Head(chunks)>> /\ UNCHANGED state
  /\ UNCHANGED <<told, finish, sent, connection, slots, events, outcome>>

Finish ==
  /\ outcome = "reading" /\ pending = <<>> /\ chunks = <<>>
  /\ connection = "ended" /\ ~state.finished
  /\ state' = [state EXCEPT !.finished = TRUE]
  /\ pending' = IF dialect = "openai" THEN Finished ELSE <<>>
  /\ UNCHANGED <<provider, slots, events, outcome>>

(***************************************************************************)
(* The clients.                                                            *)
(***************************************************************************)
Place(b) == IF client = "command line" THEN 0 ELSE b
ToolUse(slot) == [kind |-> "tool", call |-> slot.call, input |-> slot.input]

(* A call takes its slot, from one that is still in it.                    *)
Took(e) ==
  IF e.call = "tool"
    THEN {s \in slots : s.at # Place(e.block)}
           \cup {[at |-> Place(e.block), call |-> e.block - 1, input |-> <<>>]}
    ELSE slots

Concerned(b) == {s \in slots : s.at = Place(b)}

(* What is in the slots after a stop; first, everything still.             *)
CopiesSlot(b) == slots
TakesSlot(b)  == slots \ Concerned(b)
SlotsAfter(b) == TakesSlot(b)

Gather ==
  /\ outcome = "reading" /\ pending # <<>>
  /\ pending' = Tail(pending)
  /\ LET e == Head(pending)
     IN CASE e.kind = "start" -> slots' = Took(e) /\ UNCHANGED events
          [] e.kind = "input" ->
               /\ slots' = (slots \ Concerned(e.block))
                    \cup {[s EXCEPT !.input = @ \o e.pieces] : s \in Concerned(e.block)}
               /\ UNCHANGED events
          [] e.kind = "stop" ->
               /\ slots' = SlotsAfter(e.block)
               /\ events' = events \o SetToSeq({ToolUse(s) : s \in Concerned(e.block)})
          [] e.kind \in {"text", "ended"} -> events' = Append(events, e) /\ UNCHANGED slots
          [] OTHER -> UNCHANGED <<slots, events>>
  /\ UNCHANGED <<provider, state, outcome>>

(* At the end of the stream a missing stop is added, unless there is       *)
(* nothing to stop: then the request is made again, without streaming.     *)
Conclude ==
  /\ outcome = "reading" /\ state.finished /\ pending = <<>>
  /\ outcome' = IF events # <<>> THEN "reply" ELSE "again"
  /\ events' = IF events # <<>> /\ ~Contains(events, Ended)
                 THEN Append(events, Ended) ELSE events
  /\ UNCHANGED <<provider, state, pending, slots>>

Fail ==
  /\ outcome = "reading" /\ pending = <<>> /\ chunks = <<>> /\ connection = "broken"
  /\ outcome' = "error"
  /\ UNCHANGED <<provider, state, pending, slots, events>>

ProviderStep ==
  \/ \E text \in {0, 1}, ds \in Deltas, reason \in {"none", "tool_calls", "stop"} :
       SayChunk(text, ds, reason)
  \/ SayBegan \/ SayTextStart \/ SayText \/ SayEnded
  \/ \E i \in Calls : SayStart(i) \/ SayPiece(i)
  \/ \E b \in told.open : SayStop(b)
  \/ Close

ClientStep == Ingest \/ Finish \/ Gather \/ Conclude \/ Fail

Next == (ProviderStep \/ ClientStep) /\ UNCHANGED <<dialect, client>>

Spec == Init /\ [][Next]_vars

-----------------------------------------------------------------------------
Uses == SelectSeq(events, LAMBDA e : e.kind = "tool")
Texts == Len(SelectSeq(events, LAMBDA e : e.kind = "text"))

(* The provider has said all it had to say, and it has arrived.            *)
Whole == finish # "none" /\ outcome = "reply"

TypeOK ==
  /\ told.named \subseteq Calls /\ told.pieces \in [Calls -> 0..MaxPieces]
  /\ connection \in {"open", "ended", "broken"}
  /\ \A i \in Calls :
       LET c == state.calls[i]
       IN /\ c.emitted <= c.got /\ c.got <= told.pieces[i]
          /\ (c.stopped => c.started) /\ (c.started => c.named /\ c.emitted = c.got)
  /\ \A r, s \in slots : r.at = s.at => r = s
  /\ outcome \in {"reading", "reply", "again", "error"}

(* A reply that was sent to its end is gathered as it was sent: all its    *)
(* text, and each call it named, once, with all of its arguments in their  *)
(* order, however the deltas of the calls were interleaved.                *)
WholeIsFaithful ==
  Whole =>
    /\ Texts = told.text
    /\ \A i \in told.named :
         SelectSeq(Uses, LAMBDA u : u.call = i)
           = <<[kind |-> "tool", call |-> i, input |-> Pieces(0, told.pieces[i])]>>
    /\ \A k \in DOMAIN Uses : Uses[k].call \in told.named

(* No call is gathered with the arguments of another or with a gap, even   *)
(* from a reply that was cut: they are the first pieces of its own.  With  *)
(* a Claw-style provider they are all of them: a call that was cut is      *)
(* dropped, since its stop is missing.  (An OpenAI-style reply that was    *)
(* cut gives a call its missing stop.)                                     *)
ArgumentsAreTheirOwn ==
  \A k \in DOMAIN Uses :
    /\ Uses[k].input = Pieces(0, Len(Uses[k].input))
    /\ dialect = "claw" => /\ Uses[k].call + 1 \notin told.open
                          /\ Len(Uses[k].input) = told.pieces[Uses[k].call]

(* What a client gathers is what the provider said, of a whole reply all   *)
(* of it, and of a cut one nothing that was not said.                      *)
ReplyIsFaithful == TypeOK /\ WholeIsFaithful /\ ArgumentsAreTheirOwn
=============================================================================
