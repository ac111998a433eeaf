------------------------ MODULE SessionServer_proofs ------------------------
(***************************************************************************)
(* Proofs about SessionServer: type correctness, no message falls between  *)
(* a watcher's snapshot and its stream, order of the streams, and stored   *)
(* messages stay -- for any number of clients, any capacity.               *)
(***************************************************************************)
EXTENDS SessionServer, SequenceTheorems, TLAPS

USE DEF SessionIds

-----------------------------------------------------------------------------
(* The message a client posts next is a message.                           *)
LEMMA NextMessageType ==
  ASSUME TypeOK, NEW p \in Posters
  PROVE  [from |-> p, n |-> sent[p] + 1] \in Message
BY ServerAssumption DEF TypeOK, Message

(* The elements of an extended sequence.                                   *)
LEMMA ElementsAppend ==
  ASSUME NEW S, NEW seq \in Seq(S), NEW e \in S
  PROVE  Elements(Append(seq, e)) = Elements(seq) \cup {e}
BY DEF Elements

(* Appending a later message of its client keeps the posting order.        *)
LEMMA AppendInOrder ==
  ASSUME NEW seq \in Seq(Message), NEW m \in Message, InPostingOrder(seq),
         \A k \in 1..Len(seq) : seq[k].from = m.from => seq[k].n < m.n
  PROVE  InPostingOrder(Append(seq, m))
<1> DEFINE t == Append(seq, m)
<1>1. Len(t) = Len(seq) + 1 /\ t[Len(seq) + 1] = m
  OBVIOUS
<1>2. \A k \in 1..Len(seq) : t[k] = seq[k]
  OBVIOUS
<1>3. SUFFICES ASSUME NEW i \in 1..Len(t), NEW j \in 1..Len(t),
                      i < j, t[i].from = t[j].from
               PROVE  t[i].n < t[j].n
  BY DEF InPostingOrder
<1>4. i \in 1..Len(seq)
  BY <1>1, <1>3
<1>5. CASE j \in 1..Len(seq)
  <2> HIDE DEF t
  <2>. QED BY <1>2, <1>3, <1>4, <1>5 DEF InPostingOrder
<1>6. CASE j = Len(seq) + 1
  <2> HIDE DEF t
  <2>. QED BY <1>1, <1>2, <1>3, <1>4, <1>6
<1>. QED BY <1>1, <1>5, <1>6

(* A watched session is live, and its channel is a sequence of messages.   *)
LEMMA WatchedType ==
  ASSUME TypeOK, NEW w \in Watchers, watching[w] # 0
  PROVE  /\ watching[w] \in live
         /\ watching[w] \in SessionIds
         /\ channel[watching[w]] \in Seq(Message)
         /\ Len(channel[watching[w]]) \in Nat
         /\ position[w] \in Nat
<1>1. watching[w] \in live
  BY DEF TypeOK
<1>2. watching[w] \in SessionIds
  BY <1>1 DEF TypeOK
<1>3. channel[watching[w]] \in Seq(Message)
  BY <1>2 DEF TypeOK
<1>. QED BY <1>1, <1>2, <1>3, LenProperties DEF TypeOK

-----------------------------------------------------------------------------
LEMMA InitType == Init => TypeOK
<1> SUFFICES ASSUME Init PROVE TypeOK
  OBVIOUS
<1>1. <<>> \in Seq(Message)
  OBVIOUS
<1>. QED BY <1>1, ServerAssumption DEF Init, TypeOK

LEMMA StoreMessageType ==
  ASSUME TypeOK, NEW p \in Posters, NEW s \in SessionIds, StoreMessage(p, s)
  PROVE  TypeOK'
<1> DEFINE message == [from |-> p, n |-> sent[p] + 1]
<1>1. message \in Message
  BY NextMessageType
<1>2. /\ s \in live
      /\ sent' = [sent EXCEPT ![p] = sent[p] + 1]
      /\ conversation' =
           [conversation EXCEPT ![s] = Append(conversation[s], message)]
      /\ unannounced' = unannounced \cup {[session |-> s, message |-> message]}
      /\ UNCHANGED <<nextSessionId, creating, live, channel, streams>>
  BY DEF StoreMessage
<1> HIDE DEF message
<1>3. sent' \in [Posters -> Nat]
  BY <1>2, ServerAssumption DEF TypeOK
<1>4. conversation' \in [SessionIds -> Seq(Message)]
  <2>1. Append(conversation[s], message) \in Seq(Message)
    BY <1>1, AppendProperties DEF TypeOK
  <2>. QED BY <1>2, <2>1 DEF TypeOK
<1>5. unannounced' \subseteq Posted /\ \A u \in unannounced' : u.session \in live'
  BY <1>1, <1>2 DEF TypeOK, Posted
<1>6. overlapped' \subseteq SUBSET Message
  <2>1. InFlight(s) \subseteq Message
    BY DEF InFlight, TypeOK, Posted
  <2>2. overlapped' = overlapped \cup {{x, message} : x \in InFlight(s)}
    BY DEF StoreMessage, message
  <2>3. ASSUME NEW x \in InFlight(s) PROVE {x, message} \in SUBSET Message
    BY <1>1, <2>1
  <2>4. overlapped \subseteq SUBSET Message
    BY DEF TypeOK
  <2>. QED BY <2>2, <2>3, <2>4
<1>. QED BY <1>2, <1>3, <1>4, <1>5, <1>6 DEF TypeOK, streams

(* Every step keeps the types.                                             *)
LEMMA NextType == TypeOK /\ [Next]_vars => TypeOK'
<1> SUFFICES ASSUME TypeOK, [Next]_vars PROVE TypeOK'
  OBVIOUS
<1> USE DEF store, clients, streams
<1>1. ASSUME NEW c \in Creators, AllocateSessionId(c) PROVE TypeOK'
  BY <1>1, ServerAssumption DEF AllocateSessionId, NewSessionId, TypeOK
<1>2. ASSUME NEW c \in Creators, InsertSession(c) PROVE TypeOK'
  <2>1. creating[c] \in SessionIds /\ <<>> \in Seq(Message)
    BY <1>2 DEF InsertSession, TypeOK
  <2>2. /\ conversation' \in [SessionIds -> Seq(Message)]
        /\ channel' \in [SessionIds -> Seq(Message)]
        /\ creating' \in [Creators -> 0..MaxSessions]
        /\ live' \subseteq SessionIds
    <3>1. /\ conversation' = [conversation EXCEPT ![creating[c]] = <<>>]
          /\ channel' = [channel EXCEPT ![creating[c]] = <<>>]
          /\ creating' = [creating EXCEPT ![c] = 0]
          /\ live' = live \cup {creating[c]}
      BY <1>2 DEF InsertSession
    <3>2. creating' \in [Creators -> 0..MaxSessions]
      BY <3>1, ServerAssumption DEF TypeOK
    <3>. QED BY <2>1, <3>1, <3>2 DEF TypeOK
  <2>3. live \subseteq live' /\ UNCHANGED <<nextSessionId, clients, streams>>
    BY <1>2 DEF InsertSession
  <2>. QED BY <2>2, <2>3 DEF TypeOK
<1>3. ASSUME NEW c \in Creators, AbandonCreate(c) PROVE TypeOK'
  BY <1>3, ServerAssumption DEF AbandonCreate, TypeOK
<1>4. ASSUME NEW p \in Posters, NEW s \in SessionIds, StoreMessage(p, s)
      PROVE  TypeOK'
  BY <1>4, StoreMessageType
<1>5. ASSUME NEW u \in unannounced, Announce(u) PROVE TypeOK'
  <2>1. u.session \in SessionIds /\ u.message \in Message
    BY DEF TypeOK, Posted
  <2>2. channel' \in [SessionIds -> Seq(Message)]
    BY <1>5, <2>1 DEF Announce, Sent, TypeOK
  <2>. QED BY <1>5, <2>2 DEF Announce, TypeOK
<1>6. ASSUME NEW w \in Watchers, NEW s \in SessionIds, Subscribe(w, s)
      PROVE  TypeOK'
  <2>1. /\ conversation[s] \in Seq(Message)
        /\ <<>> \in Seq(Message)
        /\ PlaceOfReceiver(s) \in Nat
    <3>1. conversation[s] \in Seq(Message) /\ channel[s] \in Seq(Message)
      BY DEF TypeOK
    <3>2. Len(channel[s]) \in Nat
      BY <3>1, LenProperties
    <3>. QED BY <3>1, <3>2 DEF PlaceOfReceiver
  <2>. QED BY <1>6, <2>1 DEF Subscribe, TypeOK
<1>7. ASSUME NEW w \in Watchers, Deliver(w) PROVE TypeOK'
  <2>1. /\ watching[w] \in SessionIds
        /\ position[w] \in Nat
        /\ position[w] + 1 \in 1..Len(channel[watching[w]])
    BY <1>7, WatchedType DEF Deliver
  <2>2. channel[watching[w]][position[w] + 1] \in Message
    BY <2>1, ElementOfSeq DEF TypeOK
  <2>. QED BY <1>7, <2>1, <2>2 DEF Deliver, TypeOK
<1>8. ASSUME NEW w \in Watchers, Lag(w) PROVE TypeOK'
  <2>1. watching[w] \in SessionIds /\ Len(channel[watching[w]]) \in Nat
    BY <1>8, WatchedType DEF Lag
  <2>2. Len(channel[watching[w]]) - Capacity \in Nat
    BY <1>8, <2>1, ServerAssumption DEF Lag, Overwritten, TypeOK
  <2>. QED BY <1>8, <2>2 DEF Lag, TypeOK
<1>9. ASSUME NEW w \in Watchers, Disconnect(w) PROVE TypeOK'
  BY <1>9 DEF Disconnect, TypeOK
<1>10. CASE UNCHANGED vars
  BY <1>10 DEF vars, TypeOK
<1>. QED
  BY <1>1, <1>2, <1>3, <1>4, <1>5, <1>6, <1>7, <1>8, <1>9, <1>10
  DEF Next, CreateStep, PostStep, AnnounceStep, WatchStep, StreamStep

(* The types of the server's state hold in every reachable state.          *)
THEOREM ServerTypeCorrect == Spec => []TypeOK
BY InitType, NextType, PTL DEF Spec

-----------------------------------------------------------------------------
(* One sequence extends another: nothing in it was dropped or changed.     *)
Extends(long, short) ==
  /\ Len(short) <= Len(long)
  /\ \A k \in 1..Len(short) : long[k] = short[k]

LEMMA AppendExtends ==
  ASSUME NEW seq \in Seq(Message), NEW m \in Message
  PROVE  Extends(Append(seq, m), seq) /\ Extends(seq, seq)
BY DEF Extends

(* A live session stays, and its store and its channel only grow.          *)
LEMMA LiveGrows ==
  ASSUME TypeOK, IdsAreFresh, [Next]_vars, NEW s \in live
  PROVE  /\ s \in live'
         /\ Extends(conversation'[s], conversation[s])
         /\ Extends(channel'[s], channel[s])
<1> USE DEF store, clients, streams
<1>0. /\ s \in SessionIds
      /\ conversation[s] \in Seq(Message)
      /\ channel[s] \in Seq(Message)
  BY DEF TypeOK
<1>1. Extends(conversation[s], conversation[s]) /\ Extends(channel[s], channel[s])
  BY <1>0 DEF Extends
<1>2. ASSUME NEW c \in Creators, InsertSession(c)
      PROVE  /\ s \in live'
             /\ conversation'[s] = conversation[s]
             /\ channel'[s] = channel[s]
  <2>1. creating[c] # s
    BY <1>2 DEF InsertSession, IdsAreFresh
  <2>. QED BY <1>0, <1>2, <2>1 DEF InsertSession, TypeOK
<1>3. ASSUME NEW p \in Posters, NEW t \in SessionIds, StoreMessage(p, t)
      PROVE  /\ s \in live'
             /\ Extends(conversation'[s], conversation[s])
             /\ channel'[s] = channel[s]
  <2> DEFINE m == [from |-> p, n |-> sent[p] + 1]
  <2>1. m \in Message
    BY NextMessageType
  <2>2. /\ live' = live /\ channel' = channel
        /\ conversation' =
             [conversation EXCEPT ![t] = Append(conversation[t], m)]
    BY <1>3 DEF StoreMessage
  <2> HIDE DEF m
  <2>3. Extends(Append(conversation[s], m), conversation[s])
    BY <1>0, <2>1, AppendExtends
  <2>4. CASE t = s
    BY <1>0, <2>2, <2>3, <2>4 DEF TypeOK
  <2>5. CASE t # s
    BY <1>0, <1>1, <2>2, <2>5 DEF TypeOK
  <2>. QED BY <2>2, <2>4, <2>5
<1>4. ASSUME NEW u \in unannounced, Announce(u)
      PROVE  /\ s \in live'
             /\ conversation'[s] = conversation[s]
             /\ Extends(channel'[s], channel[s])
  <2>1. u.session \in SessionIds /\ u.message \in Message
    BY DEF TypeOK, Posted
  <2>2. /\ live' = live /\ conversation' = conversation
        /\ channel' = [channel EXCEPT ![u.session] =
                         Append(channel[u.session], u.message)]
    BY <1>4 DEF Announce, Sent
  <2>3. Extends(Append(channel[s], u.message), channel[s])
    BY <1>0, <2>1, AppendExtends
  <2>4. CASE u.session = s
    BY <1>0, <2>2, <2>3, <2>4 DEF TypeOK
  <2>5. CASE u.session # s
    BY <1>0, <1>1, <2>2, <2>5 DEF TypeOK
  <2>. QED BY <2>2, <2>4, <2>5
<1>5. ASSUME UNCHANGED <<live, conversation, channel>>
      PROVE  /\ s \in live'
             /\ conversation'[s] = conversation[s]
             /\ channel'[s] = channel[s]
  BY <1>5
<1>6. ASSUME NEW c \in Creators, AllocateSessionId(c) \/ AbandonCreate(c)
      PROVE  UNCHANGED <<live, conversation, channel>>
  BY <1>6 DEF AllocateSessionId, AbandonCreate
<1>7. ASSUME NEW w \in Watchers, WatchStep(w)
      PROVE  UNCHANGED <<live, conversation, channel>>
  BY <1>7 DEF WatchStep, StreamStep, Subscribe, Deliver, Lag, Disconnect
<1>8. CASE UNCHANGED vars
  BY <1>1, <1>5, <1>8 DEF vars
<1>. QED
  BY <1>1, <1>2, <1>3, <1>4, <1>5, <1>6, <1>7, <1>8
  DEF Next, CreateStep, PostStep, AnnounceStep

-----------------------------------------------------------------------------
(* No two requests and no session ever share an id.                        *)
LEMMA FreshStep == TypeOK /\ IdsAreFresh /\ [Next]_vars => IdsAreFresh'
<1> SUFFICES ASSUME TypeOK, IdsAreFresh, [Next]_vars PROVE IdsAreFresh'
  OBVIOUS
<1> USE DEF store, clients, streams
<1>1. ASSUME NEW c \in Creators, AllocateSessionId(c) PROVE IdsAreFresh'
  <2>1. /\ nextSessionId \in SessionIds
        /\ creating' = [creating EXCEPT ![c] = nextSessionId]
        /\ nextSessionId' = nextSessionId + 1
        /\ live' = live
    BY <1>1 DEF AllocateSessionId, NewSessionId
  <2>2. live \subseteq Nat /\ \A d \in Creators : creating[d] \in Nat
    BY ServerAssumption DEF TypeOK
  <2>3. \A d \in Creators : creating'[d] = IF d = c THEN nextSessionId ELSE creating[d]
    BY <2>1 DEF TypeOK
  <2>. QED BY <2>1, <2>2, <2>3, ServerAssumption DEF IdsAreFresh
<1>2. ASSUME NEW c \in Creators, InsertSession(c) PROVE IdsAreFresh'
  <2>1. \A d \in Creators : creating'[d] = IF d = c THEN 0 ELSE creating[d]
    BY <1>2 DEF InsertSession, TypeOK
  <2>. QED BY <1>2, <2>1 DEF InsertSession, IdsAreFresh
<1>3. ASSUME NEW c \in Creators, AbandonCreate(c) PROVE IdsAreFresh'
  <2>1. \A d \in Creators : creating'[d] = IF d = c THEN 0 ELSE creating[d]
    BY <1>3 DEF AbandonCreate, TypeOK
  <2>. QED BY <1>3, <2>1 DEF AbandonCreate, IdsAreFresh
<1>4. CASE UNCHANGED <<nextSessionId, creating, live>>
  BY <1>4 DEF IdsAreFresh
<1>5. ASSUME NEW p \in Posters, PostStep(p)
      PROVE  UNCHANGED <<nextSessionId, creating, live>>
  BY <1>5 DEF PostStep, StoreMessage
<1>6. AnnounceStep => UNCHANGED <<nextSessionId, creating, live>>
  BY DEF AnnounceStep, Announce
<1>7. ASSUME NEW w \in Watchers, WatchStep(w)
      PROVE  UNCHANGED <<nextSessionId, creating, live>>
  BY <1>7 DEF WatchStep, StreamStep, Subscribe, Deliver, Lag, Disconnect
<1>. QED
  BY <1>1, <1>2, <1>3, <1>4, <1>5, <1>6, <1>7 DEF Next, CreateStep, vars

(* A stored message is announced or in flight.                             *)
LEMMA MatchStep ==
  TypeOK /\ IdsAreFresh /\ StoreMatchesChannel /\ [Next]_vars
    => StoreMatchesChannel'
<1> SUFFICES ASSUME TypeOK, IdsAreFresh, StoreMatchesChannel, [Next]_vars
             PROVE  StoreMatchesChannel'
  OBVIOUS
<1> USE DEF store, clients, streams
<1>1. ASSUME NEW c \in Creators, InsertSession(c) PROVE StoreMatchesChannel'
  <2>1. /\ creating[c] \in SessionIds
        /\ creating[c] \notin live
        /\ conversation' = [conversation EXCEPT ![creating[c]] = <<>>]
        /\ channel' = [channel EXCEPT ![creating[c]] = <<>>]
        /\ unannounced' = unannounced
    BY <1>1 DEF InsertSession, TypeOK, IdsAreFresh
  <2>2. InFlight(creating[c]) = {}
    BY <2>1 DEF InFlight, TypeOK
  <2>3. Elements(<<>>) = {}
    BY DEF Elements
  <2>4. \A s \in SessionIds : InFlight(s)' = InFlight(s)
    BY <2>1 DEF InFlight
  <2>5. ASSUME NEW s \in SessionIds
        PROVE  Elements(conversation'[s]) = Elements(channel'[s]) \cup InFlight(s)'
    <3>1. CASE s = creating[c]
      BY <2>1, <2>2, <2>3, <2>4, <3>1 DEF TypeOK
    <3>2. CASE s # creating[c]
      BY <2>1, <2>4, <3>2 DEF TypeOK, StoreMatchesChannel
    <3>. QED BY <3>1, <3>2
  <2>. QED BY <2>5 DEF StoreMatchesChannel
<1>2. ASSUME NEW p \in Posters, NEW t \in SessionIds, StoreMessage(p, t)
      PROVE  StoreMatchesChannel'
  <2> DEFINE m == [from |-> p, n |-> sent[p] + 1]
  <2>1. m \in Message
    BY NextMessageType
  <2>2. /\ channel' = channel
        /\ conversation' =
             [conversation EXCEPT ![t] = Append(conversation[t], m)]
        /\ unannounced' = unannounced \cup {[session |-> t, message |-> m]}
    BY <1>2 DEF StoreMessage
  <2> HIDE DEF m
  <2>3. /\ InFlight(t)' = InFlight(t) \cup {m}
        /\ \A s \in SessionIds \ {t} : InFlight(s)' = InFlight(s)
    <3> DEFINE u == [session |-> t, message |-> m]
    <3>0. u.session = t /\ u.message = m
      OBVIOUS
    <3>1. \A s, x : x \in InFlight(s)
            <=> \E v \in unannounced : v.session = s /\ v.message = x
      BY DEF InFlight
    <3> HIDE DEF u
    <3>2. \A s, x : x \in InFlight(s)'
            <=> \E v \in unannounced \cup {u} : v.session = s /\ v.message = x
      BY <2>2 DEF InFlight, u
    <3>3. \A s, x : x \in InFlight(s)'
            <=> x \in InFlight(s) \/ (s = t /\ x = m)
      BY <3>0, <3>1, <3>2
    <3>4. InFlight(t)' = InFlight(t) \cup {m}
      BY <3>3
    <3>5. \A s \in SessionIds \ {t} : InFlight(s)' = InFlight(s)
      BY <3>3
    <3>. QED BY <3>4, <3>5
  <2>4. ASSUME NEW s \in SessionIds
        PROVE  Elements(conversation'[s]) = Elements(channel'[s]) \cup InFlight(s)'
    <3>0. conversation[s] \in Seq(Message)
      BY DEF TypeOK
    <3>1. CASE s = t
      <4>1. conversation'[s] = Append(conversation[s], m)
        BY <2>2, <3>1 DEF TypeOK
      <4>2. Elements(conversation'[s]) = Elements(conversation[s]) \cup {m}
        BY <2>1, <3>0, <4>1, ElementsAppend
      <4>. QED BY <2>2, <2>3, <3>1, <4>2 DEF StoreMatchesChannel
    <3>2. CASE s # t
      <4>1. conversation'[s] = conversation[s]
        BY <2>2, <3>2 DEF TypeOK
      <4>. QED BY <2>2, <2>3, <3>2, <4>1 DEF StoreMatchesChannel
    <3>. QED BY <3>1, <3>2
  <2>. QED BY <2>4 DEF StoreMatchesChannel
<1>3. ASSUME NEW u \in unannounced, Announce(u) PROVE StoreMatchesChannel'
  <2>1. u.session \in SessionIds /\ u.message \in Message
    BY DEF TypeOK, Posted
  <2>2. /\ conversation' = conversation
        /\ channel' = [channel EXCEPT ![u.session] =
                         Append(channel[u.session], u.message)]
        /\ unannounced' = unannounced \ {u}
    BY <1>3 DEF Announce, Sent
  <2>3. /\ InFlight(u.session)' \cup {u.message} = InFlight(u.session)
        /\ \A s \in SessionIds \ {u.session} : InFlight(s)' = InFlight(s)
    <3>1. \A s, m : m \in InFlight(s)
            <=> \E v \in unannounced : v.session = s /\ v.message = m
      BY DEF InFlight
    <3>2. \A s, m : m \in InFlight(s)'
            <=> \E v \in unannounced \ {u} : v.session = s /\ v.message = m
      BY <2>2 DEF InFlight
    <3>3. \A m : m \in InFlight(u.session)
            <=> m = u.message \/ m \in InFlight(u.session)'
      BY <3>1, <3>2
    <3>4. \A s \in SessionIds \ {u.session} : \A m :
            m \in InFlight(s)' <=> m \in InFlight(s)
      BY <3>1, <3>2
    <3>5. InFlight(u.session)' \cup {u.message} = InFlight(u.session)
      BY <3>3
    <3>. QED BY <3>4, <3>5
  <2>4. ASSUME NEW s \in SessionIds
        PROVE  Elements(conversation'[s]) = Elements(channel'[s]) \cup InFlight(s)'
    <3>0. channel[s] \in Seq(Message)
      BY DEF TypeOK
    <3>1. CASE s = u.session
      <4>1. channel'[s] = Append(channel[s], u.message)
        BY <2>2, <3>1 DEF TypeOK
      <4>2. Elements(channel'[s]) = Elements(channel[s]) \cup {u.message}
        BY <2>1, <3>0, <4>1, ElementsAppend
      <4>. QED BY <2>2, <2>3, <3>1, <4>2 DEF StoreMatchesChannel
    <3>2. CASE s # u.session
      <4>1. channel'[s] = channel[s]
        BY <2>2, <3>2 DEF TypeOK
      <4>. QED BY <2>2, <2>3, <3>2, <4>1 DEF StoreMatchesChannel
    <3>. QED BY <3>1, <3>2
  <2>. QED BY <2>4 DEF StoreMatchesChannel
<1>4. CASE UNCHANGED <<conversation, channel, unannounced>>
  BY <1>4 DEF StoreMatchesChannel, InFlight
<1>5. ASSUME NEW c \in Creators, AllocateSessionId(c) \/ AbandonCreate(c)
      PROVE  UNCHANGED <<conversation, channel, unannounced>>
  BY <1>5 DEF AllocateSessionId, AbandonCreate
<1>6. ASSUME NEW w \in Watchers, WatchStep(w)
      PROVE  UNCHANGED <<conversation, channel, unannounced>>
  BY <1>6 DEF WatchStep, StreamStep, Subscribe, Deliver, Lag, Disconnect
<1>. QED
  BY <1>1, <1>2, <1>3, <1>4, <1>5, <1>6
  DEF Next, CreateStep, PostStep, AnnounceStep, vars

-----------------------------------------------------------------------------
(* A step of another watcher, or of no watcher, leaves a stream alone.     *)
LEMMA OtherStreams ==
  ASSUME TypeOK, [Next]_vars, NEW w \in Watchers, ~ WatchStep(w)
  PROVE  /\ watching'[w] = watching[w]
         /\ snapshot'[w] = snapshot[w]
         /\ position'[w] = position[w]
         /\ received'[w] = received[w]
         /\ missed'[w] = missed[w]
<1> USE DEF store, clients, streams
<1>1. ASSUME NEW v \in Watchers, WatchStep(v)
      PROVE  /\ watching'[w] = watching[w]
             /\ snapshot'[w] = snapshot[w]
             /\ position'[w] = position[w]
             /\ received'[w] = received[w]
             /\ missed'[w] = missed[w]
  BY <1>1 DEF WatchStep, StreamStep, Subscribe, Deliver, Lag, Disconnect, TypeOK
<1>2. CASE UNCHANGED streams
  BY <1>2
<1>3. ASSUME NEW c \in Creators, CreateStep(c) PROVE UNCHANGED streams
  BY <1>3 DEF CreateStep, AllocateSessionId, InsertSession, AbandonCreate
<1>4. ASSUME NEW p \in Posters, PostStep(p) PROVE UNCHANGED streams
  BY <1>4 DEF PostStep, StoreMessage
<1>5. AnnounceStep => UNCHANGED streams
  BY DEF AnnounceStep, Announce
<1>. QED BY <1>1, <1>2, <1>3, <1>4, <1>5 DEF Next, vars

(* A watcher's own step leaves the store and the channels alone.           *)
LEMMA WatchLeavesStore ==
  ASSUME NEW w \in Watchers, WatchStep(w)
  PROVE  UNCHANGED <<live, conversation, channel, unannounced, sent>>
BY DEF WatchStep, StreamStep, Subscribe, Deliver, Lag, Disconnect, store, clients

(* Every event a receiver has passed has been shown.                       *)
LEMMA PassedStep ==
  TypeOK /\ IdsAreFresh /\ StoreMatchesChannel /\ PassedIsSeen /\ [Next]_vars
    => PassedIsSeen'
<1> SUFFICES ASSUME TypeOK, IdsAreFresh, StoreMatchesChannel, PassedIsSeen,
                    [Next]_vars, NEW w \in Watchers, watching'[w] # 0
             PROVE  /\ position'[w] <= Len(channel'[watching'[w]])
                    /\ ~ missed'[w] =>
                         \A k \in 1..position'[w] :
                           channel'[watching'[w]][k] \in Seen(w)'
  BY DEF PassedIsSeen
<1> DEFINE s == watching[w]
           ch == channel[s]
<1>1. CASE ~ WatchStep(w)
  <2>1. /\ watching'[w] = s /\ position'[w] = position[w]
        /\ missed'[w] = missed[w] /\ Seen(w)' = Seen(w)
    BY <1>1, OtherStreams DEF Seen
  <2>2. s \in live /\ s \in SessionIds /\ position[w] \in Nat /\ ch \in Seq(Message)
    BY <2>1, WatchedType
  <2>3. Extends(channel'[s], ch)
    BY <2>2, LiveGrows
  <2>4. /\ position[w] <= Len(ch)
        /\ ~ missed[w] => \A k \in 1..position[w] : ch[k] \in Seen(w)
    BY <2>1 DEF PassedIsSeen
  <2>5. channel'[s] \in Seq(Message)
    <3>1. channel' \in [SessionIds -> Seq(Message)]
      BY NextType DEF TypeOK
    <3>. QED BY <2>2, <3>1
  <2>. QED BY <2>1, <2>2, <2>3, <2>4, <2>5, LenProperties DEF Extends
<1>2. ASSUME NEW t \in SessionIds, Subscribe(w, t)
      PROVE  /\ position'[w] <= Len(channel'[watching'[w]])
             /\ \A k \in 1..position'[w] : channel'[watching'[w]][k] \in Seen(w)'
  <2>1. /\ watching'[w] = t /\ snapshot'[w] = conversation[t]
        /\ position'[w] = Len(channel[t])
        /\ channel' = channel
    BY <1>2 DEF Subscribe, PlaceOfReceiver, TypeOK, store
  <2>2. channel[t] \in Seq(Message) /\ Len(channel[t]) \in Nat
    BY LenProperties DEF TypeOK
  <2>3. Elements(channel[t]) \subseteq Elements(conversation[t])
    BY DEF StoreMatchesChannel
  <2>4. Elements(conversation[t]) \subseteq Seen(w)'
    BY <2>1 DEF Seen
  <2>5. \A k \in 1..Len(channel[t]) : channel[t][k] \in Elements(channel[t])
    BY DEF Elements
  <2>. QED BY <2>1, <2>2, <2>3, <2>4, <2>5
<1>3. CASE Deliver(w)
  <2>1. /\ s # 0
        /\ position[w] < Len(ch)
        /\ watching' = watching /\ channel' = channel
        /\ snapshot' = snapshot /\ missed' = missed
        /\ received'[w] = Append(received[w], ch[position[w] + 1])
        /\ position'[w] = position[w] + 1
    BY <1>3 DEF Deliver, TypeOK, store
  <2>2. ch \in Seq(Message) /\ position[w] \in Nat /\ Len(ch) \in Nat
    BY <2>1, WatchedType
  <2>3. ch[position[w] + 1] \in Message
    BY <2>1, <2>2, ElementOfSeq
  <2>4. Elements(received'[w]) = Elements(received[w]) \cup {ch[position[w] + 1]}
    BY <2>1, <2>3, ElementsAppend DEF TypeOK
  <2>5. Seen(w)' = Seen(w) \cup {ch[position[w] + 1]}
    BY <2>1, <2>4 DEF Seen
  <2>6. ~ missed[w] => \A k \in 1..position[w] : ch[k] \in Seen(w)
    BY <2>1 DEF PassedIsSeen
  <2>. QED BY <2>1, <2>2, <2>5, <2>6
<1>4. CASE Lag(w)
  <2>1. /\ s # 0 /\ missed'[w] = TRUE
        /\ watching' = watching /\ channel' = channel
        /\ position'[w] = Len(ch) - Capacity
    BY <1>4 DEF Lag, TypeOK, store
  <2>2. Len(ch) \in Nat
    BY <2>1, WatchedType
  <2>. QED BY <2>1, <2>2, ServerAssumption
<1>5. CASE Disconnect(w)
  BY <1>5 DEF Disconnect, TypeOK
<1>. QED BY <1>1, <1>2, <1>3, <1>4, <1>5 DEF WatchStep, StreamStep

(* The invariant that closes the gap between snapshot and stream.          *)
LEMMA DeliveryStep == TypeOK /\ DeliveryInv /\ [Next]_vars => DeliveryInv'
BY FreshStep, MatchStep, PassedStep DEF DeliveryInv

LEMMA InitDelivery == Init => DeliveryInv
<1> SUFFICES ASSUME Init PROVE DeliveryInv
  OBVIOUS
<1>1. \A s \in SessionIds : conversation[s] = <<>> /\ channel[s] = <<>>
  BY DEF Init
<1>2. \A s \in SessionIds : InFlight(s) = {}
  BY DEF Init, InFlight
<1>3. StoreMatchesChannel
  BY <1>1, <1>2 DEF StoreMatchesChannel
<1>4. IdsAreFresh /\ PassedIsSeen
  BY DEF Init, IdsAreFresh, PassedIsSeen
<1>. QED BY <1>3, <1>4 DEF DeliveryInv

(* The conjunction that is inductive together with the types.              *)
THEOREM DeliveryInvariant == Spec => [](TypeOK /\ DeliveryInv)
<1>1. Init => TypeOK /\ DeliveryInv
  BY InitType, InitDelivery
<1>2. (TypeOK /\ DeliveryInv) /\ [Next]_vars => (TypeOK /\ DeliveryInv)'
  BY NextType, DeliveryStep
<1>. QED BY <1>1, <1>2, PTL DEF Spec

(* No message falls between a watcher's snapshot and its stream, though    *)
(* send_message stores and announces in two steps.                         *)
THEOREM NothingIsLost == Spec => []NothingLost
<1>1. TypeOK /\ DeliveryInv => NothingLost
  <2> SUFFICES ASSUME TypeOK, DeliveryInv, NEW w \in Watchers,
                      watching[w] # 0, ~ missed[w],
                      NEW m \in Elements(conversation[watching[w]])
               PROVE  m \in Seen(w) \cup Queued(w) \cup InFlight(watching[w])
    BY DEF NothingLost
  <2> DEFINE s == watching[w]
  <2>1. s \in SessionIds /\ Len(channel[s]) \in Nat /\ position[w] \in Nat
    BY WatchedType
  <2>2. m \in Elements(channel[s]) \/ m \in InFlight(s)
    BY <2>1 DEF DeliveryInv, StoreMatchesChannel
  <2>3. ASSUME NEW k \in 1..Len(channel[s]), m = channel[s][k]
        PROVE  m \in Seen(w) \cup Queued(w)
    <3>1. CASE k <= position[w]
      BY <2>1, <2>3, <3>1 DEF DeliveryInv, PassedIsSeen
    <3>2. CASE k > position[w]
      BY <2>1, <2>3, <3>2 DEF Queued
    <3>. QED BY <2>1, <3>1, <3>2
  <2>. QED BY <2>2, <2>3 DEF Elements
<1>. QED BY <1>1, DeliveryInvariant, PTL

(* A stored message stays: nothing drops or rewrites a conversation.       *)
THEOREM ConversationsGrow == Spec => ConversationsOnlyGrow
<1>1. TypeOK /\ DeliveryInv /\ [Next]_vars =>
        [\A s \in live :
           /\ s \in live'
           /\ Len(conversation[s]) <= Len(conversation'[s])
           /\ \A k \in 1..Len(conversation[s]) :
                conversation'[s][k] = conversation[s][k]]_vars
  BY LiveGrows DEF DeliveryInv, Extends
<1>. QED BY <1>1, DeliveryInvariant, PTL DEF Spec, ConversationsOnlyGrow

-----------------------------------------------------------------------------
(* One post of a client is in flight at a time, and it is its latest.      *)
LEMMA LastStep == TypeOK /\ LastInFlight /\ [Next]_vars => LastInFlight'
<1> SUFFICES ASSUME TypeOK, LastInFlight, [Next]_vars PROVE LastInFlight'
  OBVIOUS
<1> USE DEF store, clients, streams
<1>1. ASSUME NEW c \in Creators, InsertSession(c) PROVE LastInFlight'
  <2>1. /\ creating[c] \in SessionIds
        /\ conversation' = [conversation EXCEPT ![creating[c]] = <<>>]
        /\ channel' = [channel EXCEPT ![creating[c]] = <<>>]
        /\ unannounced' = unannounced /\ sent' = sent
    BY <1>1 DEF InsertSession, TypeOK
  <2>2. \A s \in SessionIds :
          /\ conversation'[s] = IF s = creating[c] THEN <<>> ELSE conversation[s]
          /\ channel'[s] = IF s = creating[c] THEN <<>> ELSE channel[s]
    BY <2>1 DEF TypeOK
  <2>. QED BY <2>1, <2>2 DEF LastInFlight
<1>2. ASSUME NEW p \in Posters, NEW t \in SessionIds, StoreMessage(p, t)
      PROVE  LastInFlight'
  <2> DEFINE m == [from |-> p, n |-> sent[p] + 1]
             u == [session |-> t, message |-> m]
  <2>1. m \in Message /\ m.from = p /\ m.n = sent[p] + 1 /\ u.message = m
    BY NextMessageType
  <2>2. /\ channel' = channel
        /\ conversation' =
             [conversation EXCEPT ![t] = Append(conversation[t], m)]
        /\ unannounced' = unannounced \cup {u}
        /\ sent' = [sent EXCEPT ![p] = sent[p] + 1]
        /\ \A v \in unannounced : v.message.from # p
    BY <1>2 DEF StoreMessage, Answered
  <2> HIDE DEF m, u
  <2>3. \A q \in Posters : /\ sent[q] \in Nat
                           /\ sent'[q] = IF q = p THEN sent[p] + 1 ELSE sent[q]
    BY <2>2, ServerAssumption DEF TypeOK
  <2>4. \A v \in unannounced : v.message.from \in Posters
    BY DEF TypeOK, Posted, Message
  <2>5. \A v \in unannounced' : v.message.n = sent'[v.message.from]
    BY <2>1, <2>2, <2>3, <2>4 DEF LastInFlight
  <2>6. \A v, w \in unannounced' : v.message.from = w.message.from => v = w
    BY <2>1, <2>2 DEF LastInFlight
  <2>7. ASSUME NEW s \in SessionIds, NEW k \in 1..Len(conversation'[s])
        PROVE  conversation'[s][k].n <= sent'[conversation'[s][k].from]
    <3>1. conversation[s] \in Seq(Message)
      BY DEF TypeOK
    <3>2. \A j \in 1..Len(conversation[s]) :
            /\ conversation[s][j].from \in Posters /\ conversation[s][j].n \in Nat
            /\ conversation[s][j].n <= sent'[conversation[s][j].from]
      <4> TAKE j \in 1..Len(conversation[s])
      <4>1. conversation[s][j] \in Message
        BY <3>1, ElementOfSeq
      <4>2. conversation[s][j].from \in Posters /\ conversation[s][j].n \in Nat
        BY <4>1 DEF Message
      <4>3. conversation[s][j].n <= sent[conversation[s][j].from]
        BY DEF LastInFlight
      <4>. QED BY <2>3, <4>2, <4>3
    <3>3. CASE s = t
      <4>1. conversation'[s] = Append(conversation[s], m)
        BY <2>2, <3>3 DEF TypeOK
      <4>2. \/ k \in 1..Len(conversation[s]) /\ conversation'[s][k] = conversation[s][k]
            \/ conversation'[s][k] = m
        BY <2>1, <3>1, <4>1, AppendProperties
      <4>3. CASE k \in 1..Len(conversation[s]) /\ conversation'[s][k] = conversation[s][k]
        BY <3>2, <4>3
      <4>4. CASE conversation'[s][k] = m
        <5>1. sent'[p] = sent[p] + 1 /\ sent'[p] \in Nat
          BY <2>3
        <5>. QED BY <2>1, <4>4, <5>1
      <4>. QED BY <4>2, <4>3, <4>4
    <3>4. CASE s # t
      <4>1. conversation'[s] = conversation[s]
        BY <2>2, <3>4 DEF TypeOK
      <4>. QED BY <3>2, <4>1
    <3>. QED BY <3>3, <3>4
  <2>8. ASSUME NEW s \in SessionIds, NEW k \in 1..Len(channel'[s])
        PROVE  /\ channel'[s][k].n <= sent'[channel'[s][k].from]
               /\ \A v \in unannounced' :
                    channel'[s][k].from = v.message.from
                      => channel'[s][k].n < v.message.n
    <3>1. k \in 1..Len(channel[s]) /\ channel[s] \in Seq(Message)
      BY <2>2 DEF TypeOK
    <3>2. channel[s][k].from \in Posters /\ channel[s][k].n \in Nat
      <4>1. channel[s][k] \in Message
        BY <3>1, ElementOfSeq
      <4>. QED BY <4>1 DEF Message
    <3>3. channel[s][k].n <= sent[channel[s][k].from]
      BY <3>1 DEF LastInFlight
    <3>4. \A v \in unannounced :
            channel[s][k].from = v.message.from => channel[s][k].n < v.message.n
      BY <3>1 DEF LastInFlight
    <3>. QED BY <2>1, <2>2, <2>3, <3>2, <3>3, <3>4
  <2>. QED BY <2>5, <2>6, <2>7, <2>8 DEF LastInFlight
<1>3. ASSUME NEW u \in unannounced, Announce(u) PROVE LastInFlight'
  <2>1. /\ u.session \in SessionIds /\ u.message \in Message
        /\ u.message.from \in Posters /\ u.message.n \in Nat
    BY DEF TypeOK, Posted, Message
  <2>2. /\ conversation' = conversation /\ sent' = sent
        /\ channel' = [channel EXCEPT ![u.session] =
                         Append(channel[u.session], u.message)]
        /\ unannounced' = unannounced \ {u}
    BY <1>3 DEF Announce, Sent
  <2>3. /\ u.message.n = sent[u.message.from]
        /\ \A v \in unannounced' : v.message.from # u.message.from
    BY <2>2 DEF LastInFlight
  <2>4. ASSUME NEW s \in SessionIds, NEW k \in 1..Len(channel'[s])
        PROVE  /\ channel'[s][k].n <= sent'[channel'[s][k].from]
               /\ \A v \in unannounced' :
                    channel'[s][k].from = v.message.from
                      => channel'[s][k].n < v.message.n
    <3>1. channel[s] \in Seq(Message)
      BY DEF TypeOK
    <3>2. CASE s = u.session
      <4>1. channel'[s] = Append(channel[s], u.message)
        BY <2>2, <3>2 DEF TypeOK
      <4>2. \/ k \in 1..Len(channel[s]) /\ channel'[s][k] = channel[s][k]
            \/ channel'[s][k] = u.message
        BY <2>1, <3>1, <4>1, AppendProperties
      <4>. QED BY <2>1, <2>2, <2>3, <4>2, ServerAssumption DEF LastInFlight, TypeOK
    <3>3. CASE s # u.session
      <4>1. channel'[s] = channel[s]
        BY <2>2, <3>3 DEF TypeOK
      <4>. QED BY <2>2, <4>1 DEF LastInFlight
    <3>. QED BY <3>2, <3>3
  <2>. QED BY <2>2, <2>4 DEF LastInFlight
<1>4. CASE UNCHANGED <<conversation, channel, unannounced, sent>>
  BY <1>4 DEF LastInFlight
<1>5. ASSUME NEW c \in Creators, AllocateSessionId(c) \/ AbandonCreate(c)
      PROVE  UNCHANGED <<conversation, channel, unannounced, sent>>
  BY <1>5 DEF AllocateSessionId, AbandonCreate
<1>. QED
  BY <1>1, <1>2, <1>3, <1>4, <1>5, WatchLeavesStore
  DEF Next, CreateStep, PostStep, AnnounceStep, vars

(* The store and the channels keep the posting order.                      *)
LEMMA StoredOrderStep ==
  ASSUME TypeOK, LastInFlight, [Next]_vars,
         \A s \in SessionIds :
           InPostingOrder(conversation[s]) /\ InPostingOrder(channel[s])
  PROVE  \A s \in SessionIds :
           InPostingOrder(conversation'[s]) /\ InPostingOrder(channel'[s])
<1> USE DEF store, clients, streams
<1> DEFINE Ordered == \A s \in SessionIds :
             InPostingOrder(conversation'[s]) /\ InPostingOrder(channel'[s])
<1>1. ASSUME NEW c \in Creators, InsertSession(c) PROVE Ordered
  <2>1. \A s \in SessionIds :
          /\ conversation'[s] = IF s = creating[c] THEN <<>> ELSE conversation[s]
          /\ channel'[s] = IF s = creating[c] THEN <<>> ELSE channel[s]
    BY <1>1 DEF InsertSession, TypeOK
  <2>2. InPostingOrder(<<>>)
    BY DEF InPostingOrder
  <2>. QED BY <2>1, <2>2
<1>2. ASSUME NEW p \in Posters, NEW t \in SessionIds, StoreMessage(p, t)
      PROVE  Ordered
  <2> DEFINE m == [from |-> p, n |-> sent[p] + 1]
  <2>1. m \in Message /\ m.from = p /\ m.n = sent[p] + 1
    BY NextMessageType
  <2>2. /\ channel' = channel
        /\ conversation' =
             [conversation EXCEPT ![t] = Append(conversation[t], m)]
    BY <1>2 DEF StoreMessage
  <2> HIDE DEF m
  <2>3. conversation[t] \in Seq(Message) /\ sent[p] \in Nat
    BY ServerAssumption DEF TypeOK
  <2>4. \A k \in 1..Len(conversation[t]) :
          conversation[t][k].from = m.from => conversation[t][k].n < m.n
    <3> TAKE k \in 1..Len(conversation[t])
    <3>1. conversation[t][k] \in Message
      BY <2>3, ElementOfSeq
    <3>. QED BY <2>1, <2>3, <3>1 DEF LastInFlight, Message
  <2>5. InPostingOrder(Append(conversation[t], m))
    BY <2>1, <2>3, <2>4, AppendInOrder
  <2>6. \A s \in SessionIds :
          conversation'[s] = IF s = t THEN Append(conversation[t], m)
                                      ELSE conversation[s]
    BY <2>2 DEF TypeOK
  <2>. QED BY <2>2, <2>5, <2>6
<1>3. ASSUME NEW u \in unannounced, Announce(u) PROVE Ordered
  <2>1. u.session \in SessionIds /\ u.message \in Message
    BY DEF TypeOK, Posted
  <2>2. /\ conversation' = conversation
        /\ channel' = [channel EXCEPT ![u.session] =
                         Append(channel[u.session], u.message)]
    BY <1>3 DEF Announce, Sent
  <2>3. channel[u.session] \in Seq(Message)
    BY <2>1 DEF TypeOK
  <2>4. InPostingOrder(Append(channel[u.session], u.message))
    BY <2>1, <2>3, AppendInOrder DEF LastInFlight
  <2>5. \A s \in SessionIds :
          channel'[s] = IF s = u.session THEN Append(channel[u.session], u.message)
                                         ELSE channel[s]
    BY <2>2 DEF TypeOK
  <2>. QED BY <2>2, <2>4, <2>5
<1>4. ASSUME UNCHANGED <<conversation, channel>> PROVE Ordered
  BY <1>4
<1>5. ASSUME NEW c \in Creators, AllocateSessionId(c) \/ AbandonCreate(c)
      PROVE  UNCHANGED <<conversation, channel>>
  BY <1>5 DEF AllocateSessionId, AbandonCreate
<1>6. ASSUME NEW w \in Watchers, WatchStep(w)
      PROVE  UNCHANGED <<conversation, channel>>
  BY <1>6, WatchLeavesStore
<1>7. ASSUME UNCHANGED vars PROVE UNCHANGED <<conversation, channel>>
  BY <1>7 DEF vars
<1> HIDE DEF Ordered
<1>8. ASSUME NEW c \in Creators, CreateStep(c) PROVE Ordered
  BY <1>1, <1>4, <1>5, <1>8 DEF CreateStep
<1>9. ASSUME NEW p \in Posters, PostStep(p) PROVE Ordered
  BY <1>2, <1>9 DEF PostStep
<1>10. Ordered
  BY <1>3, <1>4, <1>6, <1>7, <1>8, <1>9 DEF Next, AnnounceStep
<1>. QED BY <1>10 DEF Ordered

-----------------------------------------------------------------------------
(* What a stream has shown, it has shown in the channel's order.           *)
LEMMA StreamedStep ==
  TypeOK /\ DeliveryInv /\ StreamedIsPassed /\ [Next]_vars => StreamedIsPassed'
<1> SUFFICES ASSUME TypeOK, DeliveryInv, StreamedIsPassed, [Next]_vars,
                    NEW w \in Watchers, watching'[w] # 0
             PROVE
               /\ \A a \in 1..Len(received'[w]) :
                    \E k \in 1..position'[w] :
                      channel'[watching'[w]][k] = received'[w][a]
               /\ \A a, b \in 1..Len(received'[w]) :
                    a < b => \E k, l \in 1..position'[w] :
                               /\ k < l
                               /\ channel'[watching'[w]][k] = received'[w][a]
                               /\ channel'[watching'[w]][l] = received'[w][b]
  BY DEF StreamedIsPassed
<1> DEFINE s == watching[w]
           ch == channel[s]
           rec == received[w]
           pos == position[w]
<1>0. ASSUME s # 0
      PROVE  /\ s \in live /\ ch \in Seq(Message) /\ Len(ch) \in Nat
             /\ pos \in Nat /\ pos <= Len(ch) /\ rec \in Seq(Message)
             /\ \A a \in 1..Len(rec) : \E k \in 1..pos : ch[k] = rec[a]
             /\ \A a, b \in 1..Len(rec) :
                  a < b => \E k, l \in 1..pos :
                             k < l /\ ch[k] = rec[a] /\ ch[l] = rec[b]
  <2>1. s \in live /\ ch \in Seq(Message) /\ Len(ch) \in Nat /\ pos \in Nat
    BY <1>0, WatchedType
  <2>2. pos <= Len(ch)
    BY <1>0 DEF DeliveryInv, PassedIsSeen
  <2>3. rec \in Seq(Message)
    BY DEF TypeOK
  <2>. QED BY <1>0, <2>1, <2>2, <2>3 DEF StreamedIsPassed
<1>1. CASE ~ WatchStep(w)
  <2>1. watching'[w] = s /\ position'[w] = pos /\ received'[w] = rec
    BY <1>1, OtherStreams
  <2>2. Extends(channel'[s], ch)
    BY <1>0, <2>1, LiveGrows DEF DeliveryInv
  <2>3. \A k \in 1..pos : channel'[watching'[w]][k] = ch[k]
    BY <1>0, <2>1, <2>2 DEF Extends
  <2>4. /\ \A a \in 1..Len(rec) : \E k \in 1..pos : ch[k] = rec[a]
        /\ \A a, b \in 1..Len(rec) :
             a < b => \E k, l \in 1..pos : k < l /\ ch[k] = rec[a] /\ ch[l] = rec[b]
    BY <1>0, <2>1
  <2> HIDE DEF ch, rec, pos
  <2>5. received'[w] = rec /\ position'[w] = pos
    BY <2>1 DEF rec, pos
  <2>6. ASSUME NEW a \in 1..Len(received'[w])
        PROVE  \E k \in 1..position'[w] : channel'[watching'[w]][k] = received'[w][a]
    <3>1. PICK k \in 1..pos : ch[k] = rec[a]
      BY <2>4, <2>5
    <3>2. k \in 1..position'[w] /\ channel'[watching'[w]][k] = received'[w][a]
      BY <2>3, <2>5, <3>1
    <3>. QED BY <3>2
  <2>7. ASSUME NEW a \in 1..Len(received'[w]), NEW b \in 1..Len(received'[w]), a < b
        PROVE  \E k, l \in 1..position'[w] :
                 /\ k < l
                 /\ channel'[watching'[w]][k] = received'[w][a]
                 /\ channel'[watching'[w]][l] = received'[w][b]
    <3>1. PICK k \in 1..pos, l \in 1..pos : k < l /\ ch[k] = rec[a] /\ ch[l] = rec[b]
      BY <2>4, <2>5, <2>7
    <3>2. k \in 1..position'[w] /\ channel'[watching'[w]][k] = received'[w][a]
      BY <2>3, <2>5, <3>1
    <3>3. l \in 1..position'[w] /\ channel'[watching'[w]][l] = received'[w][b]
      BY <2>3, <2>5, <3>1
    <3>. QED BY <3>1, <3>2, <3>3
  <2>. QED BY <2>6, <2>7
<1>2. ASSUME NEW t \in SessionIds, Subscribe(w, t)
      PROVE  received'[w] = <<>>
  BY <1>2 DEF Subscribe, TypeOK
<1>3. CASE Deliver(w)
  <2>1. /\ s # 0 /\ pos < Len(ch)
        /\ watching'[w] = s /\ channel' = channel
        /\ received'[w] = Append(rec, ch[pos + 1])
        /\ position'[w] = pos + 1
    BY <1>3 DEF Deliver, TypeOK, store
  <2>2. ch[pos + 1] \in Message
    BY <1>0, <2>1, ElementOfSeq
  <2>3. Len(received'[w]) = Len(rec) + 1 /\ Len(rec) \in Nat
    BY <1>0, <2>1, <2>2, AppendProperties, LenProperties
  <2>4. \A a \in 1..Len(received'[w]) :
          received'[w][a] = IF a = Len(rec) + 1 THEN ch[pos + 1] ELSE rec[a]
    BY <1>0, <2>1, <2>2, <2>3, AppendProperties
  <2>5. channel'[watching'[w]] = ch
    BY <2>1
  <2> HIDE DEF ch, rec, pos
  <2>6. ASSUME NEW a \in 1..Len(received'[w])
        PROVE  \E k \in 1..position'[w] : ch[k] = received'[w][a]
    <3>1. position'[w] = pos + 1 /\ pos \in Nat /\ s # 0
      BY <1>0, <2>1
    <3>2. CASE a = Len(rec) + 1
      <4>1. pos + 1 \in 1..position'[w] /\ received'[w][a] = ch[pos + 1]
        BY <2>4, <3>1, <3>2
      <4>. QED BY <4>1
    <3>3. CASE a # Len(rec) + 1
      <4>1. a \in 1..Len(rec) /\ received'[w][a] = rec[a]
        BY <2>3, <2>4, <3>3
      <4>2. PICK k \in 1..pos : ch[k] = rec[a]
        BY <1>0, <3>1, <4>1
      <4>3. k \in 1..position'[w]
        BY <3>1
      <4>. QED BY <4>1, <4>2, <4>3
    <3>. QED BY <3>2, <3>3
  <2>7. ASSUME NEW a \in 1..Len(received'[w]), NEW b \in 1..Len(received'[w]), a < b
        PROVE  \E k, l \in 1..position'[w] :
                 k < l /\ ch[k] = received'[w][a] /\ ch[l] = received'[w][b]
    <3>1. a \in 1..Len(rec) /\ received'[w][a] = rec[a]
      BY <2>3, <2>4, <2>7
    <3>2. CASE b = Len(rec) + 1
      <4>1. PICK k \in 1..pos : ch[k] = rec[a]
        BY <1>0, <2>1, <3>1
      <4>2. /\ k \in 1..position'[w] /\ pos + 1 \in 1..position'[w]
            /\ k < pos + 1
        BY <1>0, <2>1
      <4>. QED BY <2>4, <3>1, <3>2, <4>1, <4>2
    <3>3. CASE b # Len(rec) + 1
      <4>1. b \in 1..Len(rec) /\ received'[w][b] = rec[b]
        BY <2>3, <2>4, <3>3
      <4>2. PICK k \in 1..pos, l \in 1..pos :
              k < l /\ ch[k] = rec[a] /\ ch[l] = rec[b]
        BY <1>0, <2>1, <2>7, <3>1, <4>1
      <4>3. k \in 1..position'[w] /\ l \in 1..position'[w]
        BY <1>0, <2>1
      <4>. QED BY <3>1, <4>1, <4>2, <4>3
    <3>. QED BY <3>2, <3>3
  <2>8. \A a \in 1..Len(received'[w]) :
          \E k \in 1..position'[w] :
            channel'[watching'[w]][k] = received'[w][a]
    BY <2>5, <2>6
  <2>9. \A a, b \in 1..Len(received'[w]) :
          a < b => \E k, l \in 1..position'[w] :
                     /\ k < l
                     /\ channel'[watching'[w]][k] = received'[w][a]
                     /\ channel'[watching'[w]][l] = received'[w][b]
    <3> TAKE a, b \in 1..Len(received'[w])
    <3> HAVE a < b
    <3>1. PICK k \in 1..position'[w], l \in 1..position'[w] :
            k < l /\ ch[k] = received'[w][a] /\ ch[l] = received'[w][b]
      BY <2>7
    <3>. QED BY <2>5, <3>1
  <2>. QED BY <2>8, <2>9
<1>4. CASE Lag(w)
  <2>1. /\ s # 0 /\ watching'[w] = s /\ channel' = channel
        /\ received'[w] = rec
        /\ position'[w] = Len(ch) - Capacity
        /\ Len(ch) - pos > Capacity
    BY <1>4 DEF Lag, Overwritten, TypeOK, store
  <2>2. position'[w] \in Nat /\ pos <= position'[w]
    BY <1>0, <2>1, ServerAssumption
  <2>3. channel'[watching'[w]] = ch
    BY <2>1
  <2> HIDE DEF ch, rec, pos
  <2>4. 1..pos \subseteq 1..position'[w]
    BY <1>0, <2>1, <2>2
  <2>5. \A a \in 1..Len(rec) : \E k \in 1..pos : ch[k] = rec[a]
    BY <1>0, <2>1
  <2>6. \A a, b \in 1..Len(rec) : a < b =>
          \E k, l \in 1..pos : k < l /\ ch[k] = rec[a] /\ ch[l] = rec[b]
    BY <1>0, <2>1
  <2>7. \A a, b \in 1..Len(rec) : a < b =>
          \E k, l \in 1..position'[w] : k < l /\ ch[k] = rec[a] /\ ch[l] = rec[b]
    BY <2>4, <2>6
  <2>8. \A a \in 1..Len(rec) : \E k \in 1..position'[w] : ch[k] = rec[a]
    BY <2>4, <2>5
  <2>. QED BY <2>1, <2>3, <2>7, <2>8
<1>5. CASE Disconnect(w)
  BY <1>5 DEF Disconnect, TypeOK
<1>. QED BY <1>1, <1>2, <1>3, <1>4, <1>5 DEF WatchStep, StreamStep

(* A stream appends what the channel holds after all that it has shown.    *)
LEMMA StreamOrderStep ==
  ASSUME TypeOK, DeliveryInv, OrderInv, [Next]_vars, NEW w \in Watchers
  PROVE  InPostingOrder(received'[w])
<1> DEFINE s == watching[w]
           ch == channel[s]
           pos == position[w]
<1>0. InPostingOrder(received[w]) /\ received[w] \in Seq(Message)
  BY DEF OrderInv, PostersStayInOrder, TypeOK
<1>1. CASE Deliver(w)
  <2>1. /\ s # 0 /\ pos < Len(ch)
        /\ received'[w] = Append(received[w], ch[pos + 1])
    BY <1>1 DEF Deliver, TypeOK
  <2>2. s \in SessionIds /\ ch \in Seq(Message) /\ Len(ch) \in Nat /\ pos \in Nat
    BY <2>1, WatchedType
  <2>3. ch[pos + 1] \in Message
    BY <2>1, <2>2, ElementOfSeq
  <2>4. InPostingOrder(ch)
    BY <2>2 DEF OrderInv
  <2>5. ASSUME NEW a \in 1..Len(received[w]),
               received[w][a].from = ch[pos + 1].from
        PROVE  received[w][a].n < ch[pos + 1].n
    <3>1. PICK k \in 1..pos : ch[k] = received[w][a]
      BY <2>1 DEF OrderInv, StreamedIsPassed
    <3>2. k \in 1..Len(ch) /\ pos + 1 \in 1..Len(ch) /\ k < pos + 1
      BY <2>1, <2>2
    <3> HIDE DEF ch, pos
    <3>. QED BY <2>4, <2>5, <3>1, <3>2 DEF InPostingOrder
  <2>. QED BY <1>0, <2>1, <2>3, <2>5, AppendInOrder
<1>2. ASSUME NEW t \in SessionIds, Subscribe(w, t)
      PROVE  InPostingOrder(received'[w])
  <2>1. received'[w] = <<>>
    BY <1>2 DEF Subscribe, TypeOK
  <2>. QED BY <2>1 DEF InPostingOrder
<1>3. CASE Lag(w) \/ Disconnect(w)
  BY <1>0, <1>3 DEF Lag, Disconnect
<1>4. CASE ~ WatchStep(w)
  BY <1>0, <1>4, OtherStreams
<1>. QED BY <1>1, <1>2, <1>3, <1>4 DEF WatchStep, StreamStep

LEMMA OrderStep ==
  TypeOK /\ DeliveryInv /\ OrderInv /\ [Next]_vars => OrderInv'
<1> SUFFICES ASSUME TypeOK, DeliveryInv, OrderInv, [Next]_vars PROVE OrderInv'
  OBVIOUS
<1>1. LastInFlight' /\ StreamedIsPassed'
  BY LastStep, StreamedStep DEF OrderInv
<1>2. \A s \in SessionIds :
        InPostingOrder(conversation'[s]) /\ InPostingOrder(channel'[s])
  BY StoredOrderStep DEF OrderInv, PostersStayInOrder
<1>3. \A w \in Watchers : InPostingOrder(received'[w])
  BY StreamOrderStep
<1>. QED BY <1>1, <1>2, <1>3 DEF OrderInv, PostersStayInOrder

LEMMA InitOrder == Init => OrderInv
<1> SUFFICES ASSUME Init PROVE OrderInv
  OBVIOUS
<1>1. InPostingOrder(<<>>)
  BY DEF InPostingOrder
<1>2. /\ \A s \in SessionIds : conversation[s] = <<>> /\ channel[s] = <<>>
      /\ \A w \in Watchers : received[w] = <<>>
      /\ unannounced = {}
  BY DEF Init
<1>. QED
  BY <1>1, <1>2 DEF Init, OrderInv, PostersStayInOrder, LastInFlight, StreamedIsPassed

-----------------------------------------------------------------------------
(* The past of a message.  Nothing stored or announced is posted again.    *)
LEMMA NextIsNew ==
  ASSUME TypeOK, LastInFlight, NEW p \in Posters, NEW s \in SessionIds
  PROVE  /\ [from |-> p, n |-> sent[p] + 1] \notin Elements(conversation[s])
         /\ [from |-> p, n |-> sent[p] + 1] \notin Elements(channel[s])
<1>1. sent[p] \in Nat
  BY DEF TypeOK
<1>. QED BY <1>1 DEF LastInFlight, Elements

(* What is in flight after a step was before, or is posted by it.          *)
LEMMA InFlightStep ==
  ASSUME TypeOK, [Next]_vars, NEW s \in SessionIds, NEW x \in InFlight(s)'
  PROVE  x \in InFlight(s) \/ \E p \in Posters : x = [from |-> p, n |-> sent[p] + 1]
<1> USE DEF store, clients, streams
<1>1. PICK u \in unannounced' : u.session = s /\ x = u.message
  BY DEF InFlight
<1>2. CASE u \in unannounced
  BY <1>1, <1>2 DEF InFlight
<1>3. CASE u \notin unannounced
  <2>1. \E p \in Posters : PostStep(p)
    BY <1>3 DEF Next, CreateStep, AllocateSessionId, InsertSession, AbandonCreate, AnnounceStep,
                Announce, WatchStep, StreamStep, Subscribe, Deliver, Lag, Disconnect, vars
  <2>. QED BY <1>1, <1>3, <2>1 DEF PostStep, StoreMessage
<1>. QED BY <1>2, <1>3

(* A place of a channel was there before, or is that of what was in flight.*)
LEMMA ChannelStep ==
  ASSUME TypeOK, [Next]_vars, NEW s \in SessionIds, NEW k \in 1..Len(channel'[s])
  PROVE  \/ k \in 1..Len(channel[s]) /\ channel'[s][k] = channel[s][k]
         \/ k = Len(channel[s]) + 1 /\ channel'[s][k] \in InFlight(s)
<1> USE DEF store, clients, streams
<1>0. channel[s] \in Seq(Message)
  BY DEF TypeOK
<1>1. CASE channel'[s] = channel[s]
  BY <1>1
<1>2. ASSUME NEW c \in Creators, InsertSession(c), channel'[s] # channel[s]
      PROVE  channel'[s] = <<>>
  BY <1>2 DEF InsertSession, TypeOK
<1>3. ASSUME NEW u \in unannounced, Announce(u), channel'[s] # channel[s]
      PROVE  \/ k \in 1..Len(channel[s]) /\ channel'[s][k] = channel[s][k]
             \/ k = Len(channel[s]) + 1 /\ channel'[s][k] \in InFlight(s)
  <2>1. u.session = s /\ channel'[s] = Append(channel[s], u.message)
    BY <1>3 DEF Announce, Sent, TypeOK
  <2>2. u.message \in InFlight(s) /\ u.message \in Message
    BY <2>1 DEF InFlight, TypeOK, Posted
  <2>3. /\ Len(channel'[s]) = Len(channel[s]) + 1 /\ Len(channel[s]) \in Nat
        /\ \A l \in 1..Len(channel[s]) : channel'[s][l] = channel[s][l]
        /\ channel'[s][Len(channel[s]) + 1] = u.message
    BY <1>0, <2>1, <2>2, AppendProperties
  <2>4. k \in 1..Len(channel[s]) \/ k = Len(channel[s]) + 1
    BY <2>3
  <2>5. CASE k \in 1..Len(channel[s])
    <3>1. channel'[s][k] = channel[s][k]
      BY ONLY <2>3, <2>5
    <3>. QED BY ONLY <2>5, <3>1
  <2>6. CASE k = Len(channel[s]) + 1
    <3>1. channel'[s][k] = u.message
      BY <2>3, <2>6
    <3>. QED BY <2>2, <2>6, <3>1
  <2>. QED BY <2>4, <2>5, <2>6
<1>4. channel'[s] = channel[s] \/ (\E c \in Creators : InsertSession(c)) \/ AnnounceStep
  BY DEF Next, CreateStep, AllocateSessionId, AbandonCreate, PostStep, StoreMessage,
         WatchStep, StreamStep, Subscribe, Deliver, Lag, Disconnect, vars
<1>. QED BY <1>1, <1>2, <1>3, <1>4 DEF AnnounceStep

(* What precedes a message after a step did so before, or the step posts   *)
(* that message and the other one is not in flight.                        *)
LEMMA PrecedesStep ==
  ASSUME TypeOK, [Next]_vars, NEW s \in SessionIds, NEW a, NEW b, Precedes(s, a, b)'
  PROVE  \/ Precedes(s, a, b)
         \/ /\ a \in Elements(conversation[s]) /\ a \notin InFlight(s) /\ channel' = channel
            /\ \E p \in Posters : b = [from |-> p, n |-> sent[p] + 1]
<1> USE DEF store, clients, streams
<1>0. conversation[s] \in Seq(Message) /\ Len(conversation[s]) \in Nat
  <2>1. conversation[s] \in Seq(Message)
    BY DEF TypeOK
  <2>. QED BY <2>1, LenProperties
<1>1. PICK i \in 1..Len(conversation'[s]), j \in 1..Len(conversation'[s]) :
        i < j /\ conversation'[s][i] = a /\ conversation'[s][j] = b
  BY DEF Precedes
<1>2. {a, b} \notin overlapped'
  BY DEF Precedes
<1>3. CASE conversation'[s] = conversation[s] /\ overlapped \subseteq overlapped'
  BY <1>1, <1>2, <1>3 DEF Precedes
<1>4. ASSUME NEW c \in Creators, InsertSession(c), conversation'[s] # conversation[s]
      PROVE  FALSE
  <2>1. conversation'[s] = <<>>
    BY <1>4 DEF InsertSession, TypeOK
  <2>. QED BY <1>1, <2>1
<1>5. ASSUME NEW p \in Posters, NEW t \in SessionIds, StoreMessage(p, t),
             conversation'[s] # conversation[s]
      PROVE  \/ Precedes(s, a, b)
             \/ /\ a \in Elements(conversation[s]) /\ a \notin InFlight(s) /\ channel' = channel
                /\ b = [from |-> p, n |-> sent[p] + 1]
  <2> DEFINE m == [from |-> p, n |-> sent[p] + 1]
  <2>1. /\ t = s /\ conversation'[s] = Append(conversation[s], m)
        /\ overlapped' = overlapped \cup {{x, m} : x \in InFlight(s)}
        /\ channel' = channel
    BY <1>5 DEF StoreMessage, TypeOK
  <2>2. m \in Message
    BY NextMessageType
  <2> HIDE DEF m
  <2>3. /\ Len(conversation'[s]) = Len(conversation[s]) + 1
        /\ \A k \in 1..Len(conversation[s]) : conversation'[s][k] = conversation[s][k]
        /\ conversation'[s][Len(conversation[s]) + 1] = m
    BY <1>0, <2>1, <2>2
  <2>4. i \in 1..Len(conversation[s]) /\ conversation[s][i] = a
    BY <1>0, <1>1, <2>3
  <2>5. CASE j \in 1..Len(conversation[s])
    BY <1>1, <1>2, <2>1, <2>3, <2>4, <2>5 DEF Precedes
  <2>6. CASE j = Len(conversation[s]) + 1
    <3>1. b = m
      BY <1>1, <2>3, <2>6
    <3>2. a \notin InFlight(s)
      BY <1>2, <2>1, <3>1
    <3>. QED BY <2>1, <2>4, <3>1, <3>2 DEF m, Elements
  <2>. QED BY <1>0, <1>1, <2>3, <2>5, <2>6
<1>6. \/ conversation'[s] = conversation[s]
      \/ \E c \in Creators : InsertSession(c)
      \/ \E p \in Posters, t \in SessionIds : StoreMessage(p, t)
  BY DEF Next, CreateStep, AllocateSessionId, AbandonCreate, PostStep, AnnounceStep, Announce,
         WatchStep, StreamStep, Subscribe, Deliver, Lag, Disconnect, vars
<1>7. overlapped \subseteq overlapped'
  BY DEF Next, CreateStep, AllocateSessionId, InsertSession, AbandonCreate, PostStep, StoreMessage,
         AnnounceStep, Announce, WatchStep, StreamStep, Subscribe, Deliver, Lag, Disconnect, vars
<1>. QED BY <1>3, <1>4, <1>5, <1>6, <1>7

LEMMA PrecedesStored ==
  ASSUME NEW s, NEW a, NEW b, Precedes(s, a, b)
  PROVE  a \in Elements(conversation[s]) /\ b \in Elements(conversation[s])
BY DEF Precedes, Elements

LEMMA StoredPastStep ==
  TypeOK /\ LastInFlight /\ StoredPast /\ [Next]_vars => StoredPast'
<1> SUFFICES ASSUME TypeOK, LastInFlight, StoredPast, [Next]_vars,
                    NEW s \in SessionIds, NEW a, NEW b, Precedes(s, a, b)'
             PROVE  /\ a \notin InFlight(s)'
                    /\ \A k, l \in 1..Len(channel'[s]) :
                         channel'[s][k] = a /\ channel'[s][l] = b => k < l
  BY DEF StoredPast
<1>1. a \in Elements(conversation[s]) /\ a \notin InFlight(s)
  BY PrecedesStep, PrecedesStored DEF StoredPast
<1>2. a \notin InFlight(s)'
  BY <1>1, InFlightStep, NextIsNew
<1>3. ASSUME NEW k \in 1..Len(channel'[s]), NEW l \in 1..Len(channel'[s]),
             channel'[s][k] = a, channel'[s][l] = b
      PROVE  k < l
  <2>0. Len(channel[s]) \in Nat
    BY DEF TypeOK
  <2>1. k \in 1..Len(channel[s]) /\ channel[s][k] = a
    BY <1>1, <1>3, ChannelStep
  <2>2. CASE Precedes(s, a, b)
    <3>1. CASE l \in 1..Len(channel[s]) /\ channel'[s][l] = channel[s][l]
      BY <1>3, <2>1, <2>2, <3>1, PrecedesStored DEF StoredPast
    <3>2. CASE l = Len(channel[s]) + 1
      BY <2>0, <2>1, <3>2
    <3>. QED BY <3>1, <3>2, ChannelStep
  <2>3. CASE ~ Precedes(s, a, b)
    <3>1. channel' = channel /\ \E p \in Posters : b = [from |-> p, n |-> sent[p] + 1]
      BY <2>3, PrecedesStep
    <3>2. b \in Elements(channel[s])
      BY <1>3, <3>1 DEF Elements
    <3>. QED BY <3>1, <3>2, NextIsNew
  <2>. QED BY <2>2, <2>3
<1>. QED BY <1>2, <1>3

LEMMA ShownPastStep ==
  TypeOK /\ DeliveryInv /\ LastInFlight /\ PastInv /\ [Next]_vars => ShownPast'
<1> SUFFICES ASSUME TypeOK, DeliveryInv, LastInFlight, PastInv, [Next]_vars,
                    NEW w \in Watchers, NEW s \in SessionIds, watching'[w] = s
             PROVE  /\ Len(snapshot'[w]) <= Len(conversation'[s])
                    /\ \A k \in 1..Len(snapshot'[w]) : conversation'[s][k] = snapshot'[w][k]
                    /\ \A a \in Elements(conversation'[s]), b \in Elements(snapshot'[w]) :
                         Precedes(s, a, b)' =>
                           /\ a \notin Elements(received'[w])
                           /\ \A k \in 1..Len(channel'[s]) :
                                channel'[s][k] = a => k <= position'[w]
  BY DEF ShownPast
<1>0. s # 0
  OBVIOUS
<1>1. CASE ~ WatchStep(w)
  <2>1. /\ watching[w] = s /\ snapshot'[w] = snapshot[w] /\ position'[w] = position[w]
        /\ received'[w] = received[w]
    BY <1>1, OtherStreams
  <2>2. s \in live /\ position[w] \in Nat
    BY <1>0, <2>1, WatchedType
  <2>3. Extends(conversation'[s], conversation[s])
    BY <2>2, LiveGrows DEF DeliveryInv
  <2>4. /\ Len(snapshot[w]) <= Len(conversation[s])
        /\ \A k \in 1..Len(snapshot[w]) : conversation[s][k] = snapshot[w][k]
    BY <2>1 DEF PastInv, ShownPast
  <2>5. /\ Len(snapshot[w]) \in Nat /\ Len(conversation[s]) \in Nat /\ Len(conversation'[s]) \in Nat
    <3>1. conversation' \in [SessionIds -> Seq(Message)]
      BY NextType DEF TypeOK
    <3>2. conversation'[s] \in Seq(Message) /\ conversation[s] \in Seq(Message)
          /\ snapshot[w] \in Seq(Message)
      BY <3>1 DEF TypeOK
    <3>. QED BY <3>2, LenProperties
  <2>6. /\ Len(snapshot[w]) <= Len(conversation'[s])
        /\ \A k \in 1..Len(snapshot[w]) : conversation'[s][k] = snapshot[w][k]
    BY <2>3, <2>4, <2>5 DEF Extends
  <2>7. ASSUME NEW a, NEW b \in Elements(snapshot[w]), Precedes(s, a, b)'
        PROVE  /\ a \notin Elements(received[w])
               /\ \A k \in 1..Len(channel'[s]) : channel'[s][k] = a => k <= position[w]
    <3>1. b \in Elements(conversation[s])
      BY <2>4, <2>5 DEF Elements
    <3>2. Precedes(s, a, b)
      BY <2>7, <3>1, PrecedesStep, NextIsNew
    <3>3. a \in Elements(conversation[s])
      BY <3>2, PrecedesStored
    <3>4. /\ a \notin Elements(received[w])
          /\ \A k \in 1..Len(channel[s]) : channel[s][k] = a => k <= position[w]
      BY <2>1, <2>7, <3>2, <3>3 DEF PastInv, ShownPast
    <3>5. a \notin InFlight(s)
      BY <3>1, <3>2, <3>3 DEF PastInv, StoredPast
    <3>. QED BY <3>4, <3>5, ChannelStep
  <2>. QED BY <2>1, <2>6, <2>7
<1>2. ASSUME NEW t \in SessionIds, Subscribe(w, t)
      PROVE  /\ s = t /\ snapshot'[w] = conversation'[s] /\ received'[w] = <<>>
             /\ position'[w] = Len(channel'[s])
  BY <1>2 DEF Subscribe, PlaceOfReceiver, TypeOK, store
<1>3. ASSUME Deliver(w) \/ Lag(w)
      PROVE  /\ watching[w] = s /\ snapshot'[w] = snapshot[w] /\ conversation' = conversation
             /\ channel' = channel /\ overlapped' = overlapped
             /\ position[w] \in Nat /\ position'[w] \in Nat /\ position[w] <= position'[w]
             /\ Elements(received'[w])
                  \subseteq Elements(received[w])
                              \cup {channel[s][k] : k \in (position[w] + 1)..Len(channel[s])}
  <2>1. watching[w] = s /\ UNCHANGED <<watching, snapshot, conversation, channel, overlapped>>
    BY <1>3 DEF Deliver, Lag, store, clients
  <2>2. channel[s] \in Seq(Message) /\ Len(channel[s]) \in Nat /\ position[w] \in Nat
    BY <1>0, <2>1, WatchedType
  <2>3. CASE Deliver(w)
    <3>1. /\ position[w] < Len(channel[s]) /\ position'[w] = position[w] + 1
          /\ received'[w] = Append(received[w], channel[s][position[w] + 1])
      BY <2>1, <2>3 DEF Deliver, TypeOK
    <3>2. /\ channel[s][position[w] + 1] \in Message
          /\ position[w] + 1 \in (position[w] + 1)..Len(channel[s])
      BY <2>2, <3>1, ElementOfSeq
    <3>3. Elements(received'[w]) = Elements(received[w]) \cup {channel[s][position[w] + 1]}
      BY <3>1, <3>2, ElementsAppend DEF TypeOK
    <3>. QED BY <2>1, <2>2, <3>1, <3>2, <3>3
  <2>4. CASE Lag(w)
    <3>1. /\ position'[w] = Len(channel[s]) - Capacity /\ received'[w] = received[w]
          /\ Len(channel[s]) - position[w] > Capacity
      BY <2>1, <2>4 DEF Lag, Overwritten, TypeOK
    <3>. QED BY <2>1, <2>2, <3>1, ServerAssumption
  <2>. QED BY <1>3, <2>3, <2>4
<1>4. CASE Deliver(w) \/ Lag(w)
  <2>1. /\ Len(snapshot[w]) <= Len(conversation[s])
        /\ \A k \in 1..Len(snapshot[w]) : conversation[s][k] = snapshot[w][k]
    BY <1>3, <1>4 DEF PastInv, ShownPast
  <2>2. ASSUME NEW a \in Elements(conversation[s]), NEW b \in Elements(snapshot[w]), Precedes(s, a, b)'
        PROVE  /\ a \notin Elements(received'[w])
               /\ \A k \in 1..Len(channel[s]) : channel[s][k] = a => k <= position'[w]
    <3>1. Precedes(s, a, b)
      BY <1>3, <1>4, <2>2 DEF Precedes
    <3>2. /\ a \notin Elements(received[w])
          /\ \A k \in 1..Len(channel[s]) : channel[s][k] = a => k <= position[w]
      BY <1>3, <1>4, <2>2, <3>1 DEF PastInv, ShownPast
    <3>3. Len(channel[s]) \in Nat /\ position[w] \in Nat /\ position'[w] \in Nat
          /\ position[w] <= position'[w]
      BY <1>0, <1>3, <1>4, WatchedType
    <3>4. \A k \in (position[w] + 1)..Len(channel[s]) : channel[s][k] # a
      BY <3>2, <3>3
    <3>5. a \notin Elements(received'[w])
      BY <1>3, <1>4, <3>2, <3>4
    <3>. QED BY <3>2, <3>3, <3>5
  <2>3. /\ snapshot'[w] = snapshot[w] /\ conversation'[s] = conversation[s]
        /\ channel'[s] = channel[s]
    BY <1>3, <1>4
  <2>. QED BY <2>1, <2>2, <2>3
<1>5. CASE \E t \in SessionIds : Subscribe(w, t)
  <2>1. /\ snapshot'[w] = conversation'[s] /\ received'[w] = <<>>
        /\ position'[w] = Len(channel'[s])
    BY <1>2, <1>5
  <2>2. Len(conversation'[s]) \in Nat /\ Len(channel'[s]) \in Nat
    <3>1. conversation' \in [SessionIds -> Seq(Message)] /\ channel' \in [SessionIds -> Seq(Message)]
      BY NextType DEF TypeOK
    <3>. QED BY <3>1
  <2>3. Elements(received'[w]) = {}
    BY <2>1 DEF Elements
  <2>. QED BY <2>1, <2>2, <2>3
<1>6. ~ Disconnect(w)
  BY <1>0 DEF Disconnect, TypeOK
<1>. QED BY <1>1, <1>4, <1>5, <1>6 DEF WatchStep, StreamStep

LEMMA PastStep == TypeOK /\ DeliveryInv /\ OrderInv /\ PastInv /\ [Next]_vars => PastInv'
BY StoredPastStep, ShownPastStep DEF PastInv, OrderInv

LEMMA InitPast == Init => PastInv
<1> SUFFICES ASSUME Init PROVE PastInv
  OBVIOUS
<1>1. \A s \in SessionIds : Elements(conversation[s]) = {}
  BY DEF Init, Elements
<1>. QED BY <1>1 DEF Init, PastInv, StoredPast, ShownPast

(* The whole inductive invariant of the server.                            *)
THEOREM ServerInvariant == Spec => [](TypeOK /\ ServerInv)
<1>1. Init => TypeOK /\ ServerInv
  BY InitType, InitDelivery, InitOrder, InitPast DEF ServerInv
<1>2. (TypeOK /\ ServerInv) /\ [Next]_vars => (TypeOK /\ ServerInv)'
  BY NextType, DeliveryStep, OrderStep, PastStep DEF ServerInv
<1>. QED BY <1>1, <1>2, PTL DEF Spec

(* The posts of one client stay in order, in the store and in the streams. *)
THEOREM PostersInOrder == Spec => []PostersStayInOrder
<1>1. ServerInv => PostersStayInOrder
  BY DEF ServerInv, OrderInv
<1>. QED BY <1>1, ServerInvariant, PTL

(* A place the receiver has passed is a place of the channel.              *)
LEMMA PassedIsPlace ==
  ASSUME NEW p \in Nat, NEW l \in Nat, p <= l
  PROVE  \A i \in 1..p : i \in 1..l
OBVIOUS

(* In a channel no two places hold the same message.                       *)
LEMMA PlacesDiffer ==
  ASSUME NEW seq, InPostingOrder(seq), seq \in Seq(Message),
         NEW k \in 1..Len(seq), NEW l \in 1..Len(seq), seq[k] = seq[l]
  PROVE  k = l
<1>1. seq[k] \in Message
  BY ElementOfSeq
<1>2. seq[k].n \in Nat
  BY <1>1 DEF Message
<1>. QED BY <1>2 DEF InPostingOrder

(* Two messages a stream has shown stand in this order in its channel.     *)
LEMMA ShownInOrder ==
  ASSUME StreamedIsPassed, NEW w \in Watchers, watching[w] # 0,
         NEW x \in 1..Len(received[w]), NEW y \in 1..Len(received[w]), x < y
  PROVE  \E i, j \in 1..position[w] :
           /\ i < j
           /\ channel[watching[w]][i] = received[w][x]
           /\ channel[watching[w]][j] = received[w][y]
BY DEF StreamedIsPassed

(* No two streams of a session disagree about the order of what both show  *)
(* after their snapshots.                                                  *)
THEOREM WatchersDoAgree == Spec => []WatchersAgree
<1>1. TypeOK /\ ServerInv => WatchersAgree
  <2> SUFFICES ASSUME TypeOK, ServerInv, NEW v \in Watchers, NEW w \in Watchers,
                      watching[v] # 0, watching[v] = watching[w],
                      NEW a \in 1..Len(received[v]), NEW b \in 1..Len(received[v]),
                      NEW c \in 1..Len(received[w]), NEW d \in 1..Len(received[w]),
                      received[v][a] = received[w][c],
                      received[v][b] = received[w][d], a < b, ~ (c < d)
               PROVE  FALSE
    BY DEF WatchersAgree
  <2> DEFINE ch == channel[watching[v]]
  <2>1. /\ ch \in Seq(Message) /\ Len(ch) \in Nat
        /\ position[v] \in Nat /\ position[w] \in Nat
        /\ watching[v] \in SessionIds
    BY WatchedType
  <2>2. InPostingOrder(ch)
    BY <2>1 DEF ServerInv, OrderInv
  <2>3. position[v] <= Len(ch) /\ position[w] <= Len(ch)
    BY DEF ServerInv, DeliveryInv, PassedIsSeen
  <2>4. PICK k \in 1..position[v], l \in 1..position[v] :
          k < l /\ ch[k] = received[v][a] /\ ch[l] = received[v][b]
    BY DEF ServerInv, OrderInv, StreamedIsPassed
  <2>5. /\ \A i \in 1..position[v] : i \in 1..Len(ch)
        /\ \A i \in 1..position[w] : i \in 1..Len(ch)
    <3> HIDE DEF ch
    <3>. QED BY <2>1, <2>3, PassedIsPlace
  <2>6. CASE c = d
    <3>1. ch[k] = ch[l]
      BY <2>4, <2>6
    <3> HIDE DEF ch
    <3>2. k = l
      BY <2>1, <2>2, <2>5, <3>1, PlacesDiffer
    <3>. QED BY <2>4, <3>2
  <2>7. CASE d < c
    <3>1. PICK i \in 1..position[w], j \in 1..position[w] :
            i < j /\ ch[i] = received[w][d] /\ ch[j] = received[w][c]
      <4>1. watching[w] # 0 /\ StreamedIsPassed
        BY DEF ServerInv, OrderInv
      <4>2. PICK i \in 1..position[w], j \in 1..position[w] :
              /\ i < j
              /\ channel[watching[w]][i] = received[w][d]
              /\ channel[watching[w]][j] = received[w][c]
        BY <2>7, <4>1, ShownInOrder
      <4>. QED BY <4>2
    <3>2. i \in 1..Len(ch) /\ j \in 1..Len(ch)
      BY <2>5
    <3>3. ch[i] = ch[l] /\ ch[j] = ch[k]
      BY <2>4, <3>1
    <3> HIDE DEF ch
    <3>4. i = l /\ j = k
      BY <2>1, <2>2, <2>5, <3>2, <3>3, PlacesDiffer
    <3>. QED BY <2>4, <3>1, <3>4
  <2>8. Len(received[w]) \in Nat
    BY LenProperties DEF TypeOK
  <2>. QED BY <2>6, <2>7, <2>8
<1>. QED BY <1>1, ServerInvariant, PTL

(* A message that was answered before another one was stored comes before  *)
(* it in all that a watcher is shown.                                      *)
THEOREM PastStays == Spec => []PastStaysPast
<1>1. TypeOK /\ ServerInv => PastStaysPast
  <2> SUFFICES ASSUME TypeOK, ServerInv, NEW w \in Watchers, NEW s \in SessionIds, watching[w] = s,
                      NEW i \in 1..Len(Shown(w)), NEW j \in 1..Len(Shown(w)),
                      NEW a, NEW b, a = Shown(w)[i], b = Shown(w)[j], Precedes(s, a, b)
               PROVE  i < j
    BY WatchedType DEF PastStaysPast
  <2> DEFINE ch == channel[s]
  <2>1. /\ ch \in Seq(Message) /\ Len(ch) \in Nat /\ position[w] \in Nat
        /\ conversation[s] \in Seq(Message) /\ InPostingOrder(conversation[s])
        /\ InPostingOrder(ch) /\ position[w] <= Len(ch)
    <3>1. s # 0
      OBVIOUS
    <3>2. ch \in Seq(Message) /\ Len(ch) \in Nat /\ position[w] \in Nat
      BY <3>1, WatchedType
    <3>3. position[w] <= Len(ch)
      BY <3>1 DEF ServerInv, DeliveryInv, PassedIsSeen
    <3>4. conversation[s] \in Seq(Message)
      BY DEF TypeOK
    <3>. QED BY <3>2, <3>3, <3>4 DEF ServerInv, OrderInv, PostersStayInOrder
  <2>2. PICK n \in Nat, o \in Nat : n = Len(snapshot[w]) /\ o = Len(received[w])
    <3>1. snapshot[w] \in Seq(Message) /\ received[w] \in Seq(Message)
      BY DEF TypeOK
    <3>. QED BY <3>1, LenProperties
  <2>3. /\ Len(Shown(w)) = n + o
        /\ \A k \in 1..n : Shown(w)[k] = snapshot[w][k]
        /\ \A k \in (n + 1)..(n + o) : Shown(w)[k] = received[w][k - n]
    <3>1. snapshot[w] \in Seq(Message) /\ received[w] \in Seq(Message)
      BY DEF TypeOK
    <3>2. /\ Len(Shown(w)) = n + o
          /\ \A k \in 1..(n + o) :
               Shown(w)[k] = IF k <= n THEN snapshot[w][k] ELSE received[w][k - n]
      BY <2>2, <3>1, ConcatProperties DEF Shown
    <3>0. n \in Nat /\ o \in Nat
      BY <2>2
    <3>3. \A k \in 1..n : k \in 1..(n + o) /\ k <= n
      BY <3>0
    <3>4. \A k \in (n + 1)..(n + o) : k \in 1..(n + o) /\ ~ (k <= n)
      BY <3>0
    <3>. QED BY <3>2, <3>3, <3>4
  <2>4. /\ n <= Len(conversation[s]) /\ Len(conversation[s]) \in Nat
        /\ \A k \in 1..n : conversation[s][k] = snapshot[w][k]
    <3>1. Len(conversation[s]) \in Nat
      BY <2>1, LenProperties
    <3>. QED BY <2>2, <3>1 DEF ServerInv, PastInv, ShownPast
  <2>5. a \in Elements(conversation[s]) /\ b \in Elements(conversation[s])
    BY PrecedesStored
  <2>6. PICK x \in 1..Len(conversation[s]), y \in 1..Len(conversation[s]) :
          x < y /\ conversation[s][x] = a /\ conversation[s][y] = b
    BY DEF Precedes
  <2>7. a # b
    BY <2>1, <2>6, PlacesDiffer
  <2>8. i \in Nat /\ j \in Nat /\ i \in 1..(n + o) /\ j \in 1..(n + o)
    BY <2>3
  <2>9. CASE j <= n
    <3>1. b = snapshot[w][j] /\ j \in 1..n
      BY <2>3, <2>8, <2>9
    <3>2. a \notin Elements(received[w])
      <4>1. b \in Elements(snapshot[w])
        BY <2>2, <3>1 DEF Elements
      <4>. QED BY <2>5, <4>1 DEF ServerInv, PastInv, ShownPast
    <3>3. i <= n
      <4> SUFFICES ASSUME i > n PROVE FALSE
        BY <2>8
      <4>1. i \in (n + 1)..(n + o) /\ i - n \in 1..o
        BY <2>8
      <4>2. a = received[w][i - n]
        BY <2>3, <4>1
      <4>. QED BY <2>2, <3>2, <4>1, <4>2 DEF Elements
    <3>4. /\ i \in 1..n /\ i \in 1..Len(conversation[s])
          /\ j \in 1..Len(conversation[s])
      BY <2>4, <2>8, <3>1, <3>3
    <3>5. conversation[s][i] = a /\ conversation[s][j] = b
      BY <2>3, <2>4, <3>1, <3>4
    <3>6. x = i /\ y = j
      BY <2>1, <2>6, <3>4, <3>5, PlacesDiffer
    <3>. QED BY <2>6, <3>6
  <2>10. CASE j > n /\ i > n
    <3>1. /\ i \in (n + 1)..(n + o) /\ j \in (n + 1)..(n + o)
          /\ i - n \in 1..o /\ j - n \in 1..o
      BY <2>8, <2>10
    <3>2. received[w][i - n] = a /\ received[w][j - n] = b
      BY <2>3, <3>1
    <3>3. i # j
      BY <2>7
    <3>4. ASSUME j - n < i - n PROVE FALSE
      <4>1. PICK k \in 1..position[w], l \in 1..position[w] :
              /\ k < l
              /\ channel[watching[w]][k] = received[w][j - n]
              /\ channel[watching[w]][l] = received[w][i - n]
        <5>1. StreamedIsPassed /\ watching[w] # 0
          BY DEF ServerInv, OrderInv
        <5>. QED BY <2>2, <3>1, <3>4, <5>1, ShownInOrder
      <4>2. k \in 1..Len(ch) /\ l \in 1..Len(ch) /\ ch[k] = b /\ ch[l] = a
        BY <2>1, <3>2, <4>1, PassedIsPlace
      <4>3. l < k
        BY <2>5, <4>2 DEF ServerInv, PastInv, StoredPast
      <4>. QED BY <2>1, <4>1, <4>3
    <3>. QED BY <2>8, <3>3, <3>4
  <2>11. CASE j > n /\ i <= n
    BY <2>8, <2>11
  <2>. QED BY <2>8, <2>9, <2>10, <2>11
<1>. QED BY <1>1, ServerInvariant, PTL

(* The order that everybody sees: that of the posts of each client, and of *)
(* whatever was answered before it was stored, for all; that of what was   *)
(* posted at the same time, for all the streams.                           *)
THEOREM OrderShared == Spec => []OrderIsShared
BY PostersInOrder, WatchersDoAgree, PastStays, PTL DEF OrderIsShared
=============================================================================
