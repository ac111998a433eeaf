----------------------------- MODULE Transcript -----------------------------
(***************************************************************************)
(* What a conversation promises to the provider: a log that only grows, in *)
(* which the calls of an assistant message are answered one by one, in     *)
(* order, before anybody else speaks.  ConversationRuntime::run_turn       *)
(* implements it (module Conversation).                                    *)
(***************************************************************************)
EXTENDS Naturals, Sequences

VARIABLES
  log,    \* the messages so far: who spoke, the calls made, the call answered
  owed,   \* ids of the calls that still wait for their result, in order
  open    \* is a turn in progress?

tvars == <<log, owed, open>>

Entry == [who : {"user"}]
           \cup [who : {"assistant"}, ids : Seq(Nat)]
           \cup [who : {"tool"}, id : Nat]

TranscriptTypeOK ==
  /\ log \in Seq(Entry)
  /\ owed \in Seq(Nat)
  /\ open \in BOOLEAN

TInit == log = <<>> /\ owed = <<>> /\ open = FALSE

Ask ==
  /\ ~ open /\ owed = <<>>
  /\ log' = Append(log, [who |-> "user"])
  /\ open' = TRUE
  /\ UNCHANGED owed

(* The assistant speaks; without calls this closes the turn.               *)
Reply ==
  /\ open /\ owed = <<>>
  /\ owed' \in Seq(Nat)
  /\ log' = Append(log, [who |-> "assistant", ids |-> owed'])
  /\ open' = (owed' # <<>>)

Answer ==
  /\ open /\ owed # <<>>
  /\ log' = Append(log, [who |-> "tool", id |-> Head(owed)])
  /\ owed' = Tail(owed)
  /\ UNCHANGED open

(* A turn may fail, but only when no call waits for its result.            *)
GiveUp ==
  /\ open /\ owed = <<>>
  /\ open' = FALSE
  /\ UNCHANGED <<log, owed>>

TNext == Ask \/ Reply \/ Answer \/ GiveUp

TSafety == TInit /\ [][TNext]_tvars

(* Every call is eventually answered.                                      *)
TSpec == TSafety /\ WF_tvars(Answer)

=============================================================================
