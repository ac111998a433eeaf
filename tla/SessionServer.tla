--------------------------- MODULE SessionServer ---------------------------
(***************************************************************************)
(* The session server (server/src/lib.rs): a store of conversations behind *)
(* a read-write lock, one broadcast channel per session, and four kinds of *)
(* request.  Creating takes an id before it takes the lock; posting stores *)
(* the message under the write lock but announces it after the lock is     *)
(* released; watching takes its snapshot and its place in the channel      *)
(* under one read lock and then streams.  Each of these is a step of its   *)
(* own here, so that requests interleave as the tasks of the server do.    *)
(***************************************************************************)
EXTENDS Naturals, Sequences

CONSTANTS
  Creators,     \* clients that create sessions
  Posters,      \* clients that post messages, one request at a time
  Watchers,     \* clients that stream the events of a session
  Capacity,     \* BROADCAST_CAPACITY: events a channel retains
  MaxSessions,  \* bound: session ids given out
  MaxPosts,     \* bound: messages posted by a client,
  Single        \* ... but for these, who post one

ASSUME ServerAssumption ==
  /\ Capacity \in Nat \ {0}
  /\ MaxSessions \in Nat
  /\ MaxPosts \in Nat

VARIABLES
  nextSessionId,  \* next_session_id
  creating,       \* id a create request holds while it waits for the lock, or 0
  live,           \* ids in the session store
  conversation,   \* the messages stored for each session
  channel,        \* the events sent to each session's channel, oldest first
  unannounced,    \* messages stored, each with its session, whose post
                  \* request has not yet announced and answered them
  sent,           \* number of messages each client has posted
  overlapped,     \* history: the pairs of messages of a session of which one
                  \* was stored before the other was answered
  watching,       \* session a watcher streams, or 0
  snapshot,       \* the snapshot its stream starts with
  position,       \* events of the channel its receiver has passed
  received,       \* messages streamed to it after the snapshot
  missed          \* history: has its receiver lagged?

store   == <<nextSessionId, creating, live, conversation, channel>>
clients == <<unannounced, sent, overlapped>>
streams == <<watching, snapshot, position, received, missed>>
vars    == <<store, clients, streams>>

-----------------------------------------------------------------------------
SessionIds == 1..MaxSessions
Message == [from : Posters, n : Nat]

Posted == [session : SessionIds, message : Message]

(* The messages stored in session s whose announcement is still to come.   *)
InFlight(s) == {u.message : u \in {v \in unannounced : v.session = s}}

(* A client posts again when its last post was answered.  First, a server  *)
(* that answers when the message is stored.                                *)
AnsweredWhenStored(p) == TRUE
Answered(p) == \A u \in unannounced : u.message.from # p

(* The event is sent to the end of the channel.                            *)
Sent(events, m) == Append(events, m)

Elements(seq) == {seq[k] : k \in 1..Len(seq)}

NewSessionId == nextSessionId

(* The place of a new receiver: it sees what is sent after subscribe.      *)
(* Below, one event too far.                                               *)
AfterTheNext(s) == Len(channel[s]) + 1
PlaceOfReceiver(s) == Len(channel[s])

(* The receiver's next event was overwritten: the channel has moved on.    *)
Overwritten(w) == Len(channel[watching[w]]) - position[w] > Capacity

-----------------------------------------------------------------------------
Init ==
  /\ nextSessionId = 1
  /\ creating = [c \in Creators |-> 0]
  /\ live = {}
  /\ conversation = [s \in SessionIds |-> <<>>]
  /\ channel = [s \in SessionIds |-> <<>>]
  /\ unannounced = {}
  /\ sent = [p \in Posters |-> 0]
  /\ overlapped = {}
  /\ watching = [w \in Watchers |-> 0]
  /\ snapshot = [w \in Watchers |-> <<>>]
  /\ position = [w \in Watchers |-> 0]
  /\ received = [w \in Watchers |-> <<>>]
  /\ missed = [w \in Watchers |-> FALSE]

(* POST /sessions: the id is taken from the counter ...                    *)
AllocateSessionId(c) ==
  /\ creating[c] = 0
  /\ NewSessionId \in SessionIds
  /\ creating' = [creating EXCEPT ![c] = NewSessionId]
  /\ nextSessionId' = nextSessionId + 1
  /\ UNCHANGED <<live, conversation, channel, clients, streams>>

(* ... and the new session inserted under it once the lock is free.        *)
InsertSession(c) ==
  /\ creating[c] # 0
  /\ live' = live \cup {creating[c]}
  /\ conversation' = [conversation EXCEPT ![creating[c]] = <<>>]
  /\ channel' = [channel EXCEPT ![creating[c]] = <<>>]
  /\ creating' = [creating EXCEPT ![c] = 0]
  /\ UNCHANGED <<nextSessionId, clients, streams>>

(* The client hangs up while the handler waits: the id is never used.      *)
AbandonCreate(c) ==
  /\ creating[c] # 0
  /\ creating' = [creating EXCEPT ![c] = 0]
  /\ UNCHANGED <<nextSessionId, live, conversation, channel, clients, streams>>

(* POST /sessions/{id}/message: the message is stored under the lock ...   *)
StoreMessage(p, s) ==
  LET message == [from |-> p, n |-> sent[p] + 1]
  IN /\ Answered(p)
     /\ sent[p] < (IF p \in Single THEN 1 ELSE MaxPosts)
     /\ s \in live
     /\ sent' = [sent EXCEPT ![p] = sent[p] + 1]
     /\ conversation' =
          [conversation EXCEPT ![s] = Append(conversation[s], message)]
     /\ unannounced' =
          unannounced \cup {[session |-> s, message |-> message]}
     /\ overlapped' = overlapped \cup {{m, message} : m \in InFlight(s)}
     /\ UNCHANGED <<nextSessionId, creating, live, channel, streams>>

(* ... and announced without it; then the client has its answer.           *)
Announce(u) ==
  /\ u \in unannounced
  /\ channel' =
       [channel EXCEPT ![u.session] = Sent(channel[u.session], u.message)]
  /\ unannounced' = unannounced \ {u}
  /\ UNCHANGED <<nextSessionId, creating, live, conversation, sent, overlapped, streams>>

(* GET /sessions/{id}/events: snapshot and subscription under one lock.    *)
Subscribe(w, s) ==
  /\ watching[w] = 0
  /\ s \in live
  /\ watching' = [watching EXCEPT ![w] = s]
  /\ snapshot' = [snapshot EXCEPT ![w] = conversation[s]]
  /\ position' = [position EXCEPT ![w] = PlaceOfReceiver(s)]
  /\ received' = [received EXCEPT ![w] = <<>>]
  /\ missed' = [missed EXCEPT ![w] = FALSE]
  /\ UNCHANGED <<store, clients>>

(* The stream loop: the next event goes to the client ...                  *)
Deliver(w) ==
  /\ watching[w] # 0
  /\ position[w] < Len(channel[watching[w]])
  /\ ~ Overwritten(w)
  /\ received' = [received EXCEPT ![w] =
                    Append(received[w], channel[watching[w]][position[w] + 1])]
  /\ position' = [position EXCEPT ![w] = position[w] + 1]
  /\ UNCHANGED <<store, clients, watching, snapshot, missed>>

(* ... unless it was overwritten: recv reports the lag, the loop continues *)
(* with the oldest event the channel still has.                            *)
Lag(w) ==
  /\ watching[w] # 0
  /\ Overwritten(w)
  /\ position' = [position EXCEPT ![w] = Len(channel[watching[w]]) - Capacity]
  /\ missed' = [missed EXCEPT ![w] = TRUE]
  /\ UNCHANGED <<store, clients, watching, snapshot, received>>

(* The client closes the stream; the next one starts afresh.               *)
Disconnect(w) ==
  /\ watching[w] # 0
  /\ watching' = [watching EXCEPT ![w] = 0]
  /\ UNCHANGED <<store, clients, snapshot, position, received, missed>>

CreateStep(c) == AllocateSessionId(c) \/ InsertSession(c) \/ AbandonCreate(c)
AnnounceStep  == \E u \in unannounced : Announce(u)
PostStep(p)   == \E s \in SessionIds : StoreMessage(p, s)
(* A loop that takes a lag for the end of the stream, and the loop.        *)
StreamStepWithoutLag(w) == Deliver(w)
StreamStep(w) == Deliver(w) \/ Lag(w)
WatchStep(w)  == StreamStep(w) \/ Disconnect(w)
                   \/ \E s \in SessionIds : Subscribe(w, s)

Next ==
  \/ \E c \in Creators : CreateStep(c)
  \/ \E p \in Posters : PostStep(p)
  \/ AnnounceStep
  \/ \E w \in Watchers : WatchStep(w)

(* A handler that need not wait for the lock runs on, and a stream is      *)
(* polled as long as its client reads.                                     *)
Spec ==
  /\ Init /\ [][Next]_vars
  /\ WF_vars(AnnounceStep)
  /\ \A w \in Watchers : WF_vars(StreamStep(w))

-----------------------------------------------------------------------------
TypeOK ==
  /\ nextSessionId \in 1..(MaxSessions + 1)
  /\ creating \in [Creators -> 0..MaxSessions]
  /\ live \subseteq SessionIds
  /\ conversation \in [SessionIds -> Seq(Message)]
  /\ channel \in [SessionIds -> Seq(Message)]
  /\ unannounced \subseteq Posted
  /\ \A u \in unannounced : u.session \in live
  /\ sent \in [Posters -> Nat]
  /\ overlapped \subseteq SUBSET Message
  /\ watching \in [Watchers -> {0} \cup live]
  /\ snapshot \in [Watchers -> Seq(Message)]
  /\ position \in [Watchers -> Nat]
  /\ received \in [Watchers -> Seq(Message)]
  /\ missed \in [Watchers -> BOOLEAN]

Seen(w) == Elements(snapshot[w]) \cup Elements(received[w])

Queued(w) == {channel[watching[w]][k] :
                k \in (position[w] + 1)..Len(channel[watching[w]])}

(* The gap between the snapshot and the stream is closed: whatever the     *)
(* store holds, a watcher that has not lagged has seen, has queued, or     *)
(* will find announced -- though store and announcement are two steps and  *)
(* a watcher may subscribe between them.                                   *)
NothingLost ==
  \A w \in Watchers :
    (watching[w] # 0 /\ ~ missed[w]) =>
      Elements(conversation[watching[w]])
        \subseteq Seen(w) \cup Queued(w) \cup InFlight(watching[w])

(* The messages of one client stay in the order in which it posted them,   *)
(* in the store and in every stream, whatever the other clients do.        *)
InPostingOrder(seq) ==
  \A i, j \in 1..Len(seq) :
    (i < j /\ seq[i].from = seq[j].from) => seq[i].n < seq[j].n

PostersStayInOrder ==
  /\ \A s \in SessionIds : InPostingOrder(conversation[s])
  /\ \A w \in Watchers : InPostingOrder(received[w])

(* The store and the channel may order messages of two clients             *)
(* differently, but no two streams do: what two watchers both received     *)
(* after their snapshots, they received in the same order, lag or no lag.  *)
WatchersAgree ==
  \A v, w \in Watchers :
    (watching[v] # 0 /\ watching[v] = watching[w]) =>
      \A a, b \in 1..Len(received[v]) : \A c, d \in 1..Len(received[w]) :
        (received[v][a] = received[w][c] /\ received[v][b] = received[w][d])
          => (a < b => c < d)

(* Message a of session s was answered before message b was stored.        *)
Precedes(s, a, b) ==
  /\ {a, b} \notin overlapped
  /\ \E i, j \in 1..Len(conversation[s]) :
       i < j /\ conversation[s][i] = a /\ conversation[s][j] = b

(* All that a watcher is shown: the snapshot and then the stream, which    *)
(* may repeat the end of the snapshot.                                     *)
Shown(w) == snapshot[w] \o received[w]

(* A message that was answered before another one was stored is shown to   *)
(* every watcher, each time, before that one: in the snapshot, in the      *)
(* stream, and in one after the other, whenever he subscribed.             *)
PastStaysPast ==
  \A w \in Watchers :
    watching[w] # 0 =>
      \A i, j \in 1..Len(Shown(w)) :
        Precedes(watching[w], Shown(w)[i], Shown(w)[j]) => i < j

(* The order that everybody sees.  Only messages that were posted at the   *)
(* same time may stand one way in the snapshot of a watcher, which has the *)
(* order of the store, and the other way in the streams, which all have    *)
(* that of the announcements.                                              *)
OrderIsShared == PostersStayInOrder /\ WatchersAgree /\ PastStaysPast

(* A message once stored stays: no later request, and no session created   *)
(* at the same time, drops or rewrites a conversation.                     *)
ConversationsOnlyGrow ==
  [][\A s \in live :
       /\ s \in live'
       /\ Len(conversation[s]) <= Len(conversation'[s])
       /\ \A k \in 1..Len(conversation[s]) :
            conversation'[s][k] = conversation[s][k]]_vars

(* Whatever is in the store of a session that is watched reaches the       *)
(* watcher unless he leaves or lags (clients post only so often).          *)
EveryMessageArrives ==
  \A w \in Watchers :
    (watching[w] # 0) ~>
      \/ watching[w] = 0 \/ missed[w]
      \/ Elements(conversation[watching[w]]) \subseteq Seen(w)

-----------------------------------------------------------------------------
(* The inductive form.  An id is held by one create request or live, never *)
(* both, and is below the counter; a message is in a session's store       *)
(* exactly if it is in its channel or in flight; a receiver that has not   *)
(* lagged has shown the client all of the channel it has passed.           *)
IdsAreFresh ==
  /\ \A s \in live : s < nextSessionId
  /\ \A c \in Creators : creating[c] # 0 =>
       creating[c] < nextSessionId /\ creating[c] \notin live
  /\ \A c, d \in Creators :
       (creating[c] # 0 /\ creating[c] = creating[d]) => c = d

StoreMatchesChannel ==
  \A s \in SessionIds :
    Elements(conversation[s]) = Elements(channel[s]) \cup InFlight(s)

PassedIsSeen ==
  \A w \in Watchers :
    watching[w] # 0 =>
      /\ position[w] <= Len(channel[watching[w]])
      /\ ~ missed[w] =>
           \A k \in 1..position[w] : channel[watching[w]][k] \in Seen(w)

DeliveryInv == IdsAreFresh /\ StoreMatchesChannel /\ PassedIsSeen

(* What keeps the posts of one client in order: at most one of them is in  *)
(* flight, it is its last, and all the channels have of it came before; a  *)
(* stream shows only events its receiver has passed.                       *)
LastInFlight ==
  /\ \A u \in unannounced : u.message.n = sent[u.message.from]
  /\ \A u, v \in unannounced : u.message.from = v.message.from => u = v
  /\ \A s \in SessionIds : \A k \in 1..Len(conversation[s]) :
       conversation[s][k].n <= sent[conversation[s][k].from]
  /\ \A s \in SessionIds : \A k \in 1..Len(channel[s]) :
       /\ channel[s][k].n <= sent[channel[s][k].from]
       /\ \A u \in unannounced :
            channel[s][k].from = u.message.from => channel[s][k].n < u.message.n

StreamedIsPassed ==
  \A w \in Watchers :
    watching[w] # 0 =>
      /\ \A a \in 1..Len(received[w]) :
           \E k \in 1..position[w] : channel[watching[w]][k] = received[w][a]
      /\ \A a, b \in 1..Len(received[w]) :
           a < b => \E k, l \in 1..position[w] :
                      /\ k < l
                      /\ channel[watching[w]][k] = received[w][a]
                      /\ channel[watching[w]][l] = received[w][b]

OrderInv ==
  /\ PostersStayInOrder
  /\ \A s \in SessionIds : InPostingOrder(channel[s])
  /\ LastInFlight
  /\ StreamedIsPassed

(* What keeps the past in its place: a message that precedes another one   *)
(* is announced, and was so when that one was stored ...                   *)
StoredPast ==
  \A s \in SessionIds : \A a, b \in Elements(conversation[s]) :
    Precedes(s, a, b) =>
      /\ a \notin InFlight(s)
      /\ \A k, l \in 1..Len(channel[s]) : channel[s][k] = a /\ channel[s][l] = b => k < l

(* ... a snapshot is the store as it was, and who was shown the later of   *)
(* the two in it has a place in the channel behind the earlier one.        *)
ShownPast ==
  \A w \in Watchers, s \in SessionIds :
    watching[w] = s =>
      /\ Len(snapshot[w]) <= Len(conversation[s])
      /\ \A k \in 1..Len(snapshot[w]) : conversation[s][k] = snapshot[w][k]
      /\ \A a \in Elements(conversation[s]), b \in Elements(snapshot[w]) :
           Precedes(s, a, b) =>
             /\ a \notin Elements(received[w])
             /\ \A k \in 1..Len(channel[s]) : channel[s][k] = a => k <= position[w]

PastInv == StoredPast /\ ShownPast

ServerInv == DeliveryInv /\ OrderInv /\ PastInv

=============================================================================
