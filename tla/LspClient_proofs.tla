-------------------------- MODULE LspClient_proofs --------------------------
(***************************************************************************)
(* Proofs about LspClient: callers that share one client stay in step with *)
(* the server, with their requests as with their documents -- for any      *)
(* number of callers, documents and messages, whatever the server says     *)
(* and wherever a caller gives up.                                         *)
(***************************************************************************)
EXTENDS LspClient, SequenceTheorems, TLAPS

(* Where a call can be, and that what is waited for is all it holds.       *)
CallInv ==
  \A c \in Callers :
    /\ at[c] # "idle" => (op[c] = "shutdown" <=> doc[c] = NoDocument)
    /\ at[c] = "check" => op[c] \notin {"open", "shutdown"}
    /\ at[c] \in {"open", "opened"} => op[c] \in {"open", "change", "query"}
    /\ at[c] \in {"raise", "change"} => op[c] = "change"
    /\ at[c] = "save" => op[c] = "save"
    /\ at[c] \in {"close", "closed"} => op[c] = "close"
    /\ at[c] \in {"register", "send", "wait"} => op[c] \in {"query", "shutdown"}
    /\ at[c] = "exit" => op[c] = "shutdown"
    /\ at[c] \notin {"send", "wait"} => reply[c] = Nothing
    /\ at[c] \in {"send", "wait"} => request[c] # 0

TypeInv == TypeOK /\ CallInv /\ nextId # 0

-----------------------------------------------------------------------------
(* An id is claimed for a caller by its request, by its entry in the map,  *)
(* by the server that was asked, and by the answer on its way.             *)
Entry(i, c)  == [id |-> i, by |-> c]
Answer(i, c) == [kind |-> "answer", id |-> i, by |-> c]
Sent(m)      == \E k \in 1..Len(output) : output[k] = m

Claim(i, c) ==
  \/ request[c] = i
  \/ Entry(i, c) \in pending
  \/ Entry(i, c) \in asked
  \/ Sent(Answer(i, c))

(* No id is claimed for two callers, nor before it was given out.          *)
IdsInv ==
  /\ \A i \in Nat, c \in Callers : Claim(i, c) => i < nextId
  /\ \A i \in Nat \ {0}, c, b \in Callers : Claim(i, c) /\ Claim(i, b) => c = b

BorrowedInv ==
  \A k \in 1..Len(output) : output[k].kind = "request" => output[k].id \in borrowed

RequestInv == IdsInv /\ BorrowedInv /\ AnswersAreTheirs

-----------------------------------------------------------------------------
(* What a caller at work on a document knows of it.                        *)
Ready(c, d) ==
  /\ at[c] \in {"check", "raise", "save", "close", "register", "send", "wait"} =>
       version[d] = seen[d]
  /\ at[c] \in {"raise", "save", "close", "register", "send", "wait"} => version[d] # 0
  /\ at[c] = "open"   => version[d] = 0 /\ seen[d] = 0
  /\ at[c] = "opened" => version[d] = 0 /\ seen[d] = 1
  /\ at[c] = "change" => text[c] = version[d] /\ text[c] > seen[d] /\ seen[d] # 0
  /\ at[c] = "closed" => seen[d] = 0

(* An undisturbed document has at most one caller at work on it; client    *)
(* and server agree on it when there is none.                              *)
DocumentInv(d) ==
  d \notin disturbed =>
    /\ \A c, b \in Busy(d) : c = b
    /\ server = "up" =>
         /\ Busy(d) = {} => version[d] = seen[d]
         /\ \A c \in Busy(d) : Ready(c, d)

ViewInv == broken \subseteq disturbed /\ \A d \in Documents : DocumentInv(d)

ClientInv == TypeInv /\ RequestInv /\ ViewInv

-----------------------------------------------------------------------------
(* Sequences of what the server sent.                                      *)
LEMMA MessageAppended ==
  ASSUME NEW S, NEW seq \in Seq(S), NEW m \in S
  PROVE  /\ Append(seq, m) \in Seq(S)
         /\ \A k \in 1..Len(Append(seq, m)) :
              \/ Append(seq, m)[k] = m
              \/ k \in 1..Len(seq) /\ Append(seq, m)[k] = seq[k]
BY AppendProperties

LEMMA MessageRead ==
  ASSUME NEW S, NEW seq \in Seq(S), seq # <<>>
  PROVE  /\ Tail(seq) \in Seq(S)
         /\ Head(seq) \in S /\ 1 \in 1..Len(seq) /\ seq[1] = Head(seq)
         /\ \A k \in 1..Len(Tail(seq)) : k + 1 \in 1..Len(seq) /\ Tail(seq)[k] = seq[k + 1]
BY HeadTailProperties

-----------------------------------------------------------------------------
LEMMA InitType == Init => TypeInv
<1> SUFFICES ASSUME Init PROVE TypeInv
  OBVIOUS
<1>1. calls \in Nat /\ unasked \in Nat
  BY LspAssumption DEF Init
<1>2. output \in Seq(Output)
  BY DEF Init
<1>3. TypeOK
  BY <1>1, <1>2 DEF Init, TypeOK, Places, Operations, Nothing
<1>4. CallInv
  BY DEF Init, CallInv
<1>. QED BY <1>3, <1>4 DEF TypeInv, Init

USE DEF Places, Operations

LEMMA ValuesType ==
  /\ Nothing \in {Nothing, Failure} \cup Output /\ Failure \in {Nothing, Failure} \cup Output
  /\ Nothing # Failure
  /\ \A m \in Output : m # Nothing /\ m # Failure
  /\ \A m \in Output : m.kind = "answer" => m.id \in Nat /\ m.by \in Callers /\ m = Answer(m.id, m.by)
  /\ \A m \in Output : m.kind = "request" => m.id \in Nat
  /\ \A m \in Output : m.kind = "diagnostics" => m.doc \in Documents /\ m.found \in Nat
BY DEF Nothing, Failure, Output, Answer

LEMMA CheckedIsNext ==
  ASSUME NEW o \in Operations, NEW isOpen \in BOOLEAN
  PROVE  /\ o = "change" => AfterCheck(o, isOpen) = IF isOpen THEN "raise" ELSE "open"
         /\ o = "query" => AfterCheck(o, isOpen) = IF isOpen THEN "register" ELSE "open"
         /\ o \notin {"change", "query"} => AfterCheck(o, isOpen) = IF isOpen THEN o ELSE "idle"
<1>1. CASE o = "change"
  BY <1>1 DEF AfterCheck
<1>2. CASE o = "query"
  BY <1>2 DEF AfterCheck
<1>3. CASE o \notin {"change", "query"}
  BY <1>3 DEF AfterCheck
<1>. QED BY <1>1, <1>2, <1>3

(* A step of a caller.                                                     *)
LEMMA CallerType ==
  ASSUME TypeInv, NEW c \in Callers, CallerStep(c)
  PROVE  TypeInv'
<1> USE DEF TypeInv, TypeOK, Goto, tasks, memory, process, history
<1>1. CASE Check(c)
  <2>1. PICK next \in Places :
          /\ at' = [at EXCEPT ![c] = next]
          /\ op[c] = "change" => next \in {"raise", "open"}
          /\ op[c] = "query" => next \in {"register", "open", "idle"}
          /\ op[c] \notin {"change", "query"} => next \in {op[c], "idle"}
    <3>1. op[c] \in Operations /\ at[c] = "check" /\ op[c] \notin {"open", "shutdown"}
      BY <1>1 DEF Check, CallInv
    <3>. QED BY <1>1, <3>1, CheckedIsNext DEF Check
  <2>2. UNCHANGED <<op, doc, text, request, reply, late, memory, process, history>>
    BY <1>1 DEF Check
  <2>3. at[c] = "check" /\ op[c] \notin {"open", "shutdown"}
    BY <1>1 DEF Check, CallInv
  <2>4. CallInv'
    BY <2>1, <2>2, <2>3 DEF CallInv
  <2>. QED BY <2>1, <2>2, <2>4
<1>2. CASE NotifyFails(c)
  BY <1>2 DEF NotifyFails, CallInv
<1>3. ASSUME at[c] \in {"open", "opened", "raise", "change", "save", "close", "closed"}
      PROVE  doc[c] \in Documents
  BY <1>3 DEF CallInv
<1>4. CASE SendOpen(c)
  BY <1>3, <1>4 DEF SendOpen, Notify, CallInv
<1>5. CASE SendChange(c)
  BY <1>3, <1>5 DEF SendChange, Notify, CallInv
<1>6. CASE SendSave(c)
  BY <1>3, <1>6 DEF SendSave, Notify, CallInv
<1>7. CASE SendClose(c)
  BY <1>3, <1>7 DEF SendClose, Notify, CallInv
<1>8. CASE RecordOpen(c)
  BY <1>3, <1>8 DEF RecordOpen, Remember, AfterOpen, CallInv
<1>9. CASE RaiseVersion(c)
  BY <1>3, <1>9 DEF RaiseVersion, Remember, CallInv
<1>10. CASE RecordClose(c)
  BY <1>3, <1>10 DEF RecordClose, Remember, CallInv
<1>11. CASE Register(c)
  <2>1. nextId' \in Nat /\ pending' \subseteq Asked /\ \A p \in pending' : p.id < nextId'
    BY <1>11 DEF Register, FreshId, Asked
  <2>2. nextId' # 0
    BY <1>11 DEF Register
  <2>. QED BY <1>11, <2>1, <2>2 DEF Register, FreshId, CallInv
<1>12. CASE SendRequest(c)
  <2>1. asked' \subseteq Asked
    BY <1>12 DEF SendRequest, Asked
  <2>2. broken' \subseteq Documents
    BY <1>12 DEF SendRequest, CallInv
  <2>. QED BY <1>12, <2>1, <2>2 DEF SendRequest, CallInv
<1>13. CASE SendRequestFails(c)
  BY <1>13 DEF SendRequestFails, AfterAnswer, CallInv
<1>14. CASE TakeReply(c)
  BY <1>14 DEF TakeReply, AfterAnswer, CallInv
<1>15. CASE Kill(c)
  BY <1>15 DEF Kill, CallInv
<1>. QED
  BY <1>1, <1>2, <1>4, <1>5, <1>6, <1>7, <1>8, <1>9, <1>10, <1>11, <1>12, <1>13, <1>14, <1>15
     DEF CallerStep

LEMMA BeginType ==
  ASSUME TypeInv, NEW c \in Callers, NEW o \in Operations,
         NEW d \in Documents \cup {NoDocument}, Begin(c, o, d)
  PROVE  TypeInv'
<1> USE DEF TypeInv, TypeOK, Goto, memory, process
<1>1. disturbed' \subseteq Documents
  BY DEF Begin, Disturbs
<1>2. calls' \in Nat
  BY DEF Begin
<1>3. CallInv'
  BY DEF Begin, CallInv
<1>. QED BY <1>1, <1>2, <1>3 DEF Begin

LEMMA AbandonType ==
  ASSUME TypeInv, NEW c \in Callers, Abandon(c)
  PROVE  TypeInv'
<1> USE DEF TypeInv, TypeOK, Goto, memory, process
<1>1. disturbed' \subseteq Documents
  BY DEF Abandon, CallInv
<1>2. CallInv'
  BY DEF Abandon, CallInv
<1>. QED BY <1>1, <1>2 DEF Abandon

(* A step of the server.                                                   *)
LEMMA SayType ==
  ASSUME TypeInv, NEW m \in Output, Say(m), asked' \subseteq asked,
         unasked' \in Nat, borrowed' \subseteq Nat
  PROVE  TypeInv'
<1> USE DEF TypeInv, TypeOK, tasks, memory, history
<1>1. output' \in Seq(Output)
  BY MessageAppended DEF Say
<1>2. CallInv'
  BY DEF Say, CallInv
<1>. QED BY <1>1, <1>2 DEF Say

LEMMA SayUnaskedType ==
  ASSUME TypeInv, NEW m \in Output, SayUnasked(m), borrowed' \subseteq Nat
  PROVE  TypeInv'
<1>1. Say(m) /\ asked' \subseteq asked
  BY DEF SayUnasked
<1>2. unasked' \in Nat
  BY DEF SayUnasked, TypeInv, TypeOK
<1>. QED BY <1>1, <1>2, SayType

LEMMA ServerType == TypeInv /\ ServerStep => TypeInv'
<1> SUFFICES ASSUME TypeInv, ServerStep PROVE TypeInv'
  OBVIOUS
<1>0. /\ asked \subseteq Asked /\ unasked \in Nat /\ nextId \in Nat /\ borrowed \subseteq Nat
  BY DEF TypeInv, TypeOK
<1>2. ASSUME NEW r \in asked, AnswerRequest(r)
      PROVE  TypeInv'
  <2> DEFINE m == [kind |-> "answer", id |-> r.id, by |-> r.by]
  <2>1. m \in Output
    BY <1>0 DEF Asked, Output
  <2>2. Say(m) /\ asked' \subseteq asked /\ unasked' = unasked /\ borrowed' = borrowed
    BY <1>2 DEF AnswerRequest
  <2> HIDE DEF m
  <2>. QED BY <1>0, <2>1, <2>2, SayType
<1>3. ASSUME NEW id \in 2..nextId, AskClient(id)
      PROVE  TypeInv'
  <2> DEFINE m == [kind |-> "request", id |-> id]
  <2>1. id \in Nat
    BY <1>0
  <2>2. m \in Output
    BY <2>1 DEF Output
  <2>3. SayUnasked(m) /\ borrowed' \subseteq Nat
    BY <1>0, <1>3, <2>1 DEF AskClient
  <2> HIDE DEF m
  <2>. QED BY <2>2, <2>3, SayUnaskedType
<1>4. ASSUME NEW d \in Documents, NEW n \in {0, unasked}, Publish(d, n)
      PROVE  TypeInv'
  <2> DEFINE m == [kind |-> "diagnostics", doc |-> d, found |-> n]
  <2>1. m \in Output
    BY <1>0 DEF Output
  <2>2. SayUnasked(m) /\ borrowed' \subseteq Nat
    BY <1>0, <1>4 DEF Publish
  <2> HIDE DEF m
  <2>. QED BY <2>1, <2>2, SayUnaskedType
<1>5. CASE Garble
  <2> DEFINE m == [kind |-> "garbage"]
  <2>1. m \in Output
    BY DEF Output
  <2>2. SayUnasked(m) /\ borrowed' \subseteq Nat
    BY <1>0, <1>5 DEF Garble
  <2> HIDE DEF m
  <2>. QED BY <2>1, <2>2, SayUnaskedType
<1>6. CASE Die
  BY <1>6 DEF Die, CallInv, TypeInv, TypeOK, tasks, memory, history
<1>. QED BY <1>2, <1>3, <1>4, <1>5, <1>6 DEF ServerStep

(* A step of the task that reads.                                          *)
LEMMA ReaderType == TypeInv /\ ReaderStep => TypeInv'
<1> SUFFICES ASSUME TypeInv, ReaderStep PROVE TypeInv'
  OBVIOUS
<1> USE DEF TypeInv, TypeOK, tasks, process, history
<1>1. ASSUME NEW senders \in SUBSET pending, NEW what \in {Failure} \cup Output,
             HandOver(senders, what), UNCHANGED <<at, op, doc, request, nextId>>
      PROVE  /\ pending' \subseteq Asked /\ \A p \in pending' : p.id < nextId'
             /\ reply' \in [Callers -> {Nothing, Failure} \cup Output]
             /\ CallInv'
  <2>1. reply' \in [Callers -> {Nothing, Failure} \cup Output]
    BY <1>1 DEF HandOver
  <2>2. \A c \in Callers : at[c] \notin {"send", "wait"} => reply'[c] = reply[c]
    BY <1>1 DEF HandOver, Receivers
  <2>3. CallInv'
    BY <1>1, <2>2 DEF CallInv
  <2>. QED BY <1>1, <2>1, <2>3 DEF HandOver
<1>2. CASE ReadMessageWithId
  <2>1. Head(output) \in Output /\ output' \in Seq(Output)
    BY <1>2, MessageRead DEF ReadMessageWithId
  <2>. QED BY <1>1, <1>2, <2>1 DEF ReadMessageWithId
<1>3. CASE ReadDiagnostics
  <2>1. Head(output) \in Output /\ output' \in Seq(Output)
    BY <1>3, MessageRead DEF ReadDiagnostics
  <2>2. diagnostics' \in [Documents -> Nat]
    BY <1>3, <2>1, ValuesType DEF ReadDiagnostics
  <2>3. CallInv'
    BY <1>3 DEF ReadDiagnostics, CallInv
  <2>. QED BY <1>3, <2>1, <2>2, <2>3 DEF ReadDiagnostics
<1>4. CASE ReaderFails
  BY <1>1, <1>4 DEF ReaderFails, AllSenders
<1>5. CASE ReaderEnds
  BY <1>5 DEF ReaderEnds, CallInv
<1>. QED BY <1>2, <1>3, <1>4, <1>5 DEF ReaderStep

LEMMA NextType == TypeInv /\ [Next]_vars => TypeInv'
<1> SUFFICES ASSUME TypeInv, [Next]_vars PROVE TypeInv'
  OBVIOUS
<1>1. CASE UNCHANGED vars
  BY <1>1 DEF vars, tasks, memory, process, history, TypeInv, TypeOK, CallInv
<1>. QED BY <1>1, CallerType, BeginType, AbandonType, ServerType, ReaderType DEF Next

(* The types of all that client and server hold, and what kind of call is  *)
(* at which place.                                                         *)
THEOREM ClientTypeCorrect == Spec => []TypeInv
BY InitType, NextType, PTL DEF Spec

-----------------------------------------------------------------------------
(* Requests.  What the server sent, one message later and one earlier.     *)
LEMMA SentMore ==
  ASSUME TypeInv, NEW m \in Output, output' = Append(output, m), NEW n
  PROVE  Sent(n)' => Sent(n) \/ n = m
<1>1. output \in Seq(Output)
  BY DEF TypeInv, TypeOK
<1>. QED BY <1>1, MessageAppended DEF Sent

LEMMA SentLess ==
  ASSUME TypeInv, output # <<>>, output' = Tail(output)
  PROVE  /\ \A n : Sent(n)' => Sent(n)
         /\ Sent(Head(output)) /\ Head(output) \in Output
         /\ BorrowedInv /\ borrowed' = borrowed => BorrowedInv'
<1>1. output \in Seq(Output)
  BY DEF TypeInv, TypeOK
<1>2. /\ Head(output) \in Output /\ 1 \in 1..Len(output) /\ output[1] = Head(output)
      /\ \A k \in 1..Len(Tail(output)) :
           k + 1 \in 1..Len(output) /\ Tail(output)[k] = output[k + 1]
  BY <1>1, MessageRead
<1>3. \A k \in 1..Len(output') : \E j \in 1..Len(output) : output'[k] = output[j]
  BY <1>2
<1>. QED BY <1>2, <1>3 DEF Sent, BorrowedInv

LEMMA ClaimsShrink ==
  ASSUME IdsInv, nextId' = nextId,
         \A i \in Nat, c \in Callers : Claim(i, c)' => Claim(i, c)
  PROVE  IdsInv'
BY DEF IdsInv

(* Whose answer a caller may hold, and how he is found.                    *)
Waits(c)      == at[c] \in {"send", "wait"}
Registered(c) == {p \in pending : p.id = request[c]} = {Entry(request[c], c)}
HoldsOwn(c) ==
  \/ reply[c] \in {Nothing, Failure}
  \/ reply[c] = Answer(request[c], c)
  \/ request[c] \in borrowed

LEMMA AnswersInParts ==
  AnswersAreTheirs <=>
    \A c \in Callers : HoldsOwn(c) /\ (Waits(c) /\ reply[c] = Nothing => Registered(c))
BY DEF AnswersAreTheirs, WaitersAreRegistered, HoldsOwn, Waits, Registered, Entry, Answer

(* A step that is not about requests, or is the end of one.                *)
LEMMA OtherRequests ==
  ASSUME RequestInv, UNCHANGED <<request, pending, asked, output, nextId, borrowed>>,
         \A c \in Callers : reply'[c] \in {reply[c], Nothing},
         \A c \in Callers : at'[c] \in {"send", "wait"} =>
                             at[c] \in {"send", "wait"} /\ reply'[c] = reply[c]
  PROVE  RequestInv'
<1>1. IdsInv'
  BY ClaimsShrink DEF RequestInv, Claim, Sent
<1>2. BorrowedInv'
  BY DEF RequestInv, BorrowedInv
<1>3. AnswersAreTheirs'
  <2> SUFFICES ASSUME NEW c \in Callers
               PROVE  HoldsOwn(c)' /\ (Waits(c) /\ reply[c] = Nothing => Registered(c))'
    BY DEF AnswersAreTheirs, WaitersAreRegistered, HoldsOwn, Waits, Registered, Entry, Answer
  <2>1. HoldsOwn(c) /\ (Waits(c) /\ reply[c] = Nothing => Registered(c))
    BY AnswersInParts DEF RequestInv
  <2>. QED BY <2>1 DEF HoldsOwn, Waits, Registered
<1>. QED BY <1>1, <1>2, <1>3 DEF RequestInv

LEMMA RegisterRequests ==
  ASSUME TypeInv, RequestInv, NEW c \in Callers, Register(c)
  PROVE  RequestInv'
<1> DEFINE id == nextId
<1>1. /\ request' = [request EXCEPT ![c] = id] /\ nextId' = id + 1
      /\ pending' = {p \in pending : p.id # id} \cup {Entry(id, c)}
      /\ at' = [at EXCEPT ![c] = "send"] /\ at[c] = "register"
      /\ UNCHANGED <<reply, asked, output, borrowed>>
  BY DEF Register, FreshId, Goto, Entry, process
<1>2. /\ request \in [Callers -> Nat] /\ id \in Nat /\ id # 0 /\ at \in [Callers -> Places]
      /\ reply[c] = Nothing
  BY <1>1 DEF TypeInv, TypeOK, CallInv
<1>3. \A i \in Nat, b \in Callers : Claim(i, b)' => Claim(i, b) \/ (i = id /\ b = c)
  BY <1>1, <1>2 DEF Claim, Sent, Entry
<1>4. \A i \in Nat, b \in Callers : Claim(i, b) => i < id
  BY DEF RequestInv, IdsInv
<1>5. IdsInv'
  <2>1. \A i \in Nat, b \in Callers : Claim(i, b)' => i < nextId'
    BY <1>1, <1>2, <1>3, <1>4
  <2>2. ASSUME NEW i \in Nat \ {0}, NEW a \in Callers, NEW b \in Callers,
               Claim(i, a)', Claim(i, b)'
        PROVE  a = b
    <3>1. CASE i = id
      <4>1. ~ Claim(i, a) /\ ~ Claim(i, b)
        BY <1>2, <1>4, <3>1
      <4>. QED BY <1>3, <2>2, <4>1
    <3>2. CASE i # id
      <4>1. Claim(i, a) /\ Claim(i, b)
        BY <1>3, <2>2, <3>2
      <4>. QED BY <4>1 DEF RequestInv, IdsInv
    <3>. QED BY <3>1, <3>2
  <2>. QED BY <2>1, <2>2 DEF IdsInv
<1>6. BorrowedInv'
  BY <1>1 DEF RequestInv, BorrowedInv
<1>7. ASSUME NEW b \in Callers
      PROVE  HoldsOwn(b)' /\ (Waits(b) /\ reply[b] = Nothing => Registered(b))'
  <2>1. HoldsOwn(b) /\ (Waits(b) /\ reply[b] = Nothing => Registered(b))
    BY AnswersInParts DEF RequestInv
  <2>2. CASE b = c
    <3>1. reply'[b] = Nothing /\ request'[b] = id
      BY <1>1, <1>2, <2>2
    <3>2. Registered(b)'
      BY <1>1, <2>2, <3>1 DEF Registered, Entry
    <3>. QED BY <3>1, <3>2 DEF HoldsOwn
  <2>3. CASE b # c
    <3>1. request'[b] = request[b] /\ at'[b] = at[b] /\ request[b] # id
      <4>1. Claim(request[b], b) /\ request[b] \in Nat
        BY <1>2 DEF Claim
      <4>. QED BY <1>1, <1>2, <1>4, <2>3, <4>1
    <3>2. {p \in pending' : p.id = request[b]} = {p \in pending : p.id = request[b]}
      BY <1>1, <3>1 DEF Entry
    <3>. QED BY <1>1, <2>1, <3>1, <3>2 DEF HoldsOwn, Waits, Registered
  <2>. QED BY <2>2, <2>3
<1>8. AnswersAreTheirs'
  BY <1>7
     DEF AnswersAreTheirs, WaitersAreRegistered, HoldsOwn, Waits, Registered, Entry, Answer
<1>. QED BY <1>5, <1>6, <1>8 DEF RequestInv

LEMMA SendRequests ==
  ASSUME TypeInv, RequestInv, NEW c \in Callers, SendRequest(c)
  PROVE  RequestInv'
<1>1. /\ asked' = asked \cup {Entry(request[c], c)}
      /\ at' = [at EXCEPT ![c] = "wait"] /\ at[c] = "send"
      /\ UNCHANGED <<request, reply, pending, output, nextId, borrowed>>
  BY DEF SendRequest, Goto, Entry, memory
<1>2. \A i \in Nat, b \in Callers : Claim(i, b)' => Claim(i, b)
  BY <1>1 DEF Claim, Sent, Entry
<1>3. IdsInv'
  BY <1>1, <1>2, ClaimsShrink DEF RequestInv
<1>4. BorrowedInv'
  BY <1>1 DEF RequestInv, BorrowedInv
<1>5. ASSUME NEW b \in Callers
      PROVE  HoldsOwn(b)' /\ (Waits(b) /\ reply[b] = Nothing => Registered(b))'
  <2>1. HoldsOwn(b) /\ (Waits(b) /\ reply[b] = Nothing => Registered(b))
    BY AnswersInParts DEF RequestInv
  <2>2. Waits(b)' => Waits(b)
    BY <1>1 DEF Waits, TypeInv, TypeOK
  <2>. QED BY <1>1, <2>1, <2>2 DEF HoldsOwn, Registered
<1>6. AnswersAreTheirs'
  BY <1>5
     DEF AnswersAreTheirs, WaitersAreRegistered, HoldsOwn, Waits, Registered, Entry, Answer
<1>. QED BY <1>3, <1>4, <1>6 DEF RequestInv

(* Entries that leave the map: their callers hold something, or wait no    *)
(* longer; nobody else's entry goes.                                       *)
LEMMA HandedOver ==
  ASSUME TypeInv, RequestInv, NEW senders \in SUBSET pending,
         UNCHANGED <<request, asked, nextId, borrowed>>, pending' = pending \ senders,
         IdsInv', BorrowedInv',
         \A c \in Callers : HoldsOwn(c)',
         \A c \in Callers : at'[c] \in {"send", "wait"} => at[c] \in {"send", "wait"},
         \A c \in Callers : at'[c] \in {"send", "wait"} /\ reply'[c] = Nothing =>
                             reply[c] = Nothing /\ Entry(request[c], c) \notin senders
  PROVE  RequestInv'
<1>1. ASSUME NEW c \in Callers, (Waits(c) /\ reply[c] = Nothing)'
      PROVE  Registered(c)'
  <2>1. Waits(c) /\ reply[c] = Nothing /\ Entry(request[c], c) \notin senders
    BY <1>1 DEF Waits
  <2>2. Registered(c)
    BY <2>1, AnswersInParts DEF RequestInv
  <2>. QED BY <2>1, <2>2 DEF Registered
<1>2. AnswersAreTheirs'
  BY <1>1
     DEF AnswersAreTheirs, WaitersAreRegistered, HoldsOwn, Waits, Registered, Entry, Answer
<1>. QED BY <1>2 DEF RequestInv

LEMMA SendFailsRequests ==
  ASSUME TypeInv, RequestInv, NEW c \in Callers, SendRequestFails(c)
  PROVE  RequestInv'
<1> DEFINE senders == {p \in pending : p.id = request[c]}
<1>1. /\ pending' = pending \ senders /\ reply' = [reply EXCEPT ![c] = Nothing]
      /\ at' = [at EXCEPT ![c] = AfterAnswer(op[c])] /\ at[c] = "send"
      /\ UNCHANGED <<request, asked, output, nextId, borrowed>>
  BY DEF SendRequestFails, Goto, process
<1>2. /\ at \in [Callers -> Places] /\ reply \in [Callers -> {Nothing, Failure} \cup Output]
      /\ request \in [Callers -> Nat] /\ request[c] # 0
  BY <1>1 DEF TypeInv, TypeOK, CallInv
<1>3. AfterAnswer(op[c]) \notin {"send", "wait"}
  BY DEF AfterAnswer
<1>4. IdsInv'
  BY <1>1, ClaimsShrink DEF RequestInv, Claim, Sent
<1>5. BorrowedInv'
  BY <1>1 DEF RequestInv, BorrowedInv
<1>6. \A b \in Callers : HoldsOwn(b)'
  BY <1>1, <1>2, AnswersInParts DEF RequestInv, HoldsOwn
<1>7. \A b \in Callers : at'[b] \in {"send", "wait"} => b # c /\ at'[b] = at[b] /\ reply'[b] = reply[b]
  BY <1>1, <1>2, <1>3
<1>8. ASSUME NEW b \in Callers \ {c}
      PROVE  Entry(request[b], b) \notin senders
  <2>1. Claim(request[b], b) /\ Claim(request[c], c)
    BY DEF Claim
  <2>2. request[b] # request[c]
    BY <1>2, <2>1 DEF RequestInv, IdsInv
  <2>. QED BY <2>2 DEF Entry
<1> HIDE DEF senders
<1>9. senders \in SUBSET pending
  BY DEF senders
<1>. QED BY <1>1, <1>4, <1>5, <1>6, <1>7, <1>8, <1>9, HandedOver

(* Whatever the server says, its answers are to what it was asked.         *)
LEMMA SayRequests ==
  ASSUME TypeInv, RequestInv, NEW m \in Output, Say(m), asked' \subseteq asked,
         borrowed \subseteq borrowed',
         m.kind = "request" => m.id \in borrowed',
         m.kind = "answer" => Entry(m.id, m.by) \in asked
  PROVE  RequestInv'
<1>1. /\ output' = Append(output, m) /\ output \in Seq(Output)
      /\ UNCHANGED <<at, request, reply, pending, nextId>>
  BY DEF Say, tasks, memory, TypeInv, TypeOK
<1>2. IdsInv'
  <2>1. ASSUME NEW i \in Nat, NEW c \in Callers, Claim(i, c)'
        PROVE  Claim(i, c)
    <3>1. Sent(Answer(i, c))' => Sent(Answer(i, c)) \/ Answer(i, c) = m
      BY <1>1, SentMore
    <3>2. Answer(i, c) = m => Entry(i, c) \in asked
      BY DEF Answer
    <3>. QED BY <1>1, <2>1, <3>1, <3>2 DEF Claim
  <2>. QED BY <1>1, <2>1, ClaimsShrink DEF RequestInv
<1>3. BorrowedInv'
  <2>1. \A k \in 1..Len(output') :
          output'[k] = m \/ (k \in 1..Len(output) /\ output'[k] = output[k])
    BY <1>1, MessageAppended
  <2>. QED BY <2>1 DEF RequestInv, BorrowedInv
<1>4. AnswersAreTheirs'
  <2>1. ASSUME NEW c \in Callers
        PROVE  HoldsOwn(c)' /\ (Waits(c) /\ reply[c] = Nothing => Registered(c))'
    BY <1>1, AnswersInParts DEF RequestInv, HoldsOwn, Waits, Registered
  <2>. QED
    BY <2>1 DEF AnswersAreTheirs, WaitersAreRegistered, HoldsOwn, Waits, Registered, Entry, Answer
<1>. QED BY <1>2, <1>3, <1>4 DEF RequestInv

LEMMA ServerRequests == TypeInv /\ RequestInv /\ ServerStep => RequestInv'
<1> SUFFICES ASSUME TypeInv, RequestInv, ServerStep PROVE RequestInv'
  OBVIOUS
<1>0. /\ asked \subseteq Asked /\ unasked \in Nat /\ nextId \in Nat
  BY DEF TypeInv, TypeOK
<1>1. ASSUME NEW r \in asked, AnswerRequest(r)
      PROVE  RequestInv'
  <2> DEFINE m == [kind |-> "answer", id |-> r.id, by |-> r.by]
  <2>1. m \in Output /\ m.kind = "answer" /\ Entry(m.id, m.by) = r
    BY <1>0 DEF Asked, Output, Entry
  <2>2. Say(m) /\ asked' \subseteq asked /\ borrowed' = borrowed
    BY <1>1 DEF AnswerRequest
  <2> HIDE DEF m
  <2>. QED BY <2>1, <2>2, SayRequests
<1>2. ASSUME NEW id \in 2..nextId, AskClient(id)
      PROVE  RequestInv'
  <2> DEFINE m == [kind |-> "request", id |-> id]
  <2>1. m \in Output /\ m.kind = "request" /\ m.id = id
    <3>1. id \in Nat
      BY <1>0
    <3>. QED BY <3>1 DEF Output
  <2>2. Say(m) /\ asked' = asked /\ borrowed' = borrowed \cup {id}
    BY <1>2 DEF AskClient, SayUnasked
  <2> HIDE DEF m
  <2>. QED BY <2>1, <2>2, SayRequests
<1>3. ASSUME NEW d \in Documents, NEW n \in {0, unasked}, Publish(d, n)
      PROVE  RequestInv'
  <2> DEFINE m == [kind |-> "diagnostics", doc |-> d, found |-> n]
  <2>1. m \in Output /\ m.kind = "diagnostics"
    BY <1>0 DEF Output
  <2>2. Say(m) /\ asked' = asked /\ borrowed' = borrowed
    BY <1>3 DEF Publish, SayUnasked
  <2> HIDE DEF m
  <2>. QED BY <2>1, <2>2, SayRequests
<1>4. CASE Garble
  <2> DEFINE m == [kind |-> "garbage"]
  <2>1. m \in Output /\ m.kind = "garbage"
    BY DEF Output
  <2>2. Say(m) /\ asked' = asked /\ borrowed' = borrowed
    BY <1>4 DEF Garble, SayUnasked
  <2> HIDE DEF m
  <2>. QED BY <2>1, <2>2, SayRequests
<1>5. CASE Die
  BY <1>5, OtherRequests DEF Die, tasks, memory
<1>. QED BY <1>1, <1>2, <1>3, <1>4, <1>5 DEF ServerStep

LEMMA ReaderRequests == TypeInv /\ RequestInv /\ ReaderStep => RequestInv'
<1> SUFFICES ASSUME TypeInv, RequestInv, ReaderStep PROVE RequestInv'
  OBVIOUS
<1>0. \A c \in Callers : HoldsOwn(c)
  BY AnswersInParts DEF RequestInv
<1>1. CASE ReadMessageWithId
  <2> DEFINE m == Head(output)
             senders == {p \in pending : p.id = m.id}
  <2>1. /\ output # <<>> /\ output' = Tail(output) /\ m.kind \in {"answer", "request"}
        /\ HandOver(senders, m)
        /\ UNCHANGED <<at, request, nextId, asked, borrowed>>
    BY <1>1 DEF ReadMessageWithId
  <2>2. /\ \A n : Sent(n)' => Sent(n)
        /\ Sent(m) /\ m \in Output /\ BorrowedInv'
    BY <2>1, SentLess DEF RequestInv
  <2>3. pending' = pending \ senders /\ senders \subseteq pending
    BY <2>1 DEF HandOver
  <2>4. IdsInv'
    BY <2>1, <2>2, <2>3, ClaimsShrink DEF RequestInv, Claim
  <2>5. ASSUME NEW c \in Receivers(senders)
        PROVE  /\ m.kind = "answer" => m = Answer(request[c], c)
               /\ m.kind = "request" => request[c] \in borrowed
    <3>1. c \in Callers /\ request[c] = m.id /\ request[c] \in Nat \ {0}
      BY DEF Receivers, TypeInv, TypeOK, CallInv
    <3>2. ASSUME m.kind = "answer" PROVE m = Answer(request[c], c)
      <4>1. m = Answer(m.id, m.by) /\ m.by \in Callers
        BY <2>2, <3>2, ValuesType
      <4>2. Claim(m.id, m.by) /\ Claim(request[c], c)
        BY <2>2, <4>1 DEF Claim
      <4>3. c = m.by
        BY <3>1, <4>1, <4>2 DEF RequestInv, IdsInv
      <4>. QED BY <3>1, <4>1, <4>3
    <3>3. m.kind = "request" => m.id \in borrowed
      BY <2>2 DEF RequestInv, BorrowedInv, Sent
    <3>. QED BY <3>1, <3>2, <3>3
  <2>6. \A c \in Callers : reply'[c] = IF c \in Receivers(senders) THEN m ELSE reply[c]
    BY <2>1 DEF HandOver
  <2>7. \A c \in Callers : HoldsOwn(c)'
    BY <1>0, <2>1, <2>5, <2>6 DEF HoldsOwn
  <2>8. ASSUME NEW c \in Callers, at'[c] \in {"send", "wait"}, reply'[c] = Nothing
        PROVE  reply[c] = Nothing /\ Entry(request[c], c) \notin senders
    <3>1. c \notin Receivers(senders)
      BY <2>2, <2>6, <2>8, ValuesType
    <3>. QED BY <2>1, <2>6, <2>8, <3>1 DEF Receivers, Entry
  <2> HIDE DEF senders
  <2>. QED BY <2>1, <2>2, <2>3, <2>4, <2>7, <2>8, HandedOver
<1>2. CASE ReadDiagnostics
  <2>1. /\ output # <<>> /\ output' = Tail(output)
        /\ UNCHANGED <<at, request, reply, pending, nextId, asked, borrowed>>
    BY <1>2 DEF ReadDiagnostics, tasks
  <2>2. (\A n : Sent(n)' => Sent(n)) /\ BorrowedInv'
    BY <2>1, SentLess DEF RequestInv
  <2>3. IdsInv'
    BY <2>1, <2>2, ClaimsShrink DEF RequestInv, Claim
  <2>4. \A c \in Callers : HoldsOwn(c)'
    BY <1>0, <2>1 DEF HoldsOwn
  <2>5. {} \in SUBSET pending /\ pending' = pending \ {}
    BY <2>1
  <2>. QED BY <2>1, <2>2, <2>3, <2>4, <2>5, HandedOver
<1>3. CASE ReaderFails
  <2>1. /\ HandOver(pending, Failure)
        /\ UNCHANGED <<at, request, nextId, asked, output, borrowed>>
    BY <1>3 DEF ReaderFails, AllSenders, process
  <2>2. pending' = pending \ pending
    BY <2>1 DEF HandOver
  <2>3. IdsInv'
    BY <2>1, <2>2, ClaimsShrink DEF RequestInv, Claim, Sent
  <2>4. BorrowedInv'
    BY <2>1 DEF RequestInv, BorrowedInv
  <2>5. \A c \in Callers : reply'[c] = IF c \in Receivers(pending) THEN Failure ELSE reply[c]
    BY <2>1 DEF HandOver
  <2>6. \A c \in Callers : HoldsOwn(c)'
    BY <1>0, <2>1, <2>5 DEF HoldsOwn
  <2>7. ASSUME NEW c \in Callers, at'[c] \in {"send", "wait"}, reply'[c] = Nothing
        PROVE  reply[c] = Nothing /\ Entry(request[c], c) \notin pending
    <3>1. c \notin Receivers(pending)
      BY <2>5, <2>7, ValuesType
    <3>. QED BY <2>1, <2>5, <2>7, <3>1 DEF Receivers, Entry
  <2>. QED BY <2>1, <2>2, <2>3, <2>4, <2>6, <2>7, HandedOver
<1>4. CASE ReaderEnds
  BY <1>4, OtherRequests DEF ReaderEnds, tasks, process
<1>. QED BY <1>1, <1>2, <1>3, <1>4 DEF ReaderStep

LEMMA CallerRequests ==
  ASSUME TypeInv, RequestInv, NEW c \in Callers, CallerStep(c)
  PROVE  RequestInv'
<1> USE DEF TypeInv, TypeOK, Goto, tasks, memory, process
<1>1. ASSUME NEW place \in Places \ {"send", "wait"}, at' = [at EXCEPT ![c] = place],
             UNCHANGED <<request, reply, pending, asked, output, nextId, borrowed>>
      PROVE  RequestInv'
  <2>1. \A b \in Callers : at'[b] \in {"send", "wait"} => at[b] \in {"send", "wait"}
    BY <1>1
  <2>. QED BY <1>1, <2>1, OtherRequests
<1>2. CASE Check(c)
  <2>1. op[c] \in Operations \ {"open", "shutdown"}
    BY <1>2 DEF Check, CallInv
  <2>2. AfterCheck(op[c], version[doc[c]] # 0) \in Places \ {"send", "wait"}
    BY <2>1, CheckedIsNext
  <2>. QED BY <1>1, <1>2, <2>2 DEF Check
<1>3. CASE NotifyFails(c)
  BY <1>1, <1>3 DEF NotifyFails
<1>4. CASE SendOpen(c) \/ SendChange(c) \/ SendSave(c) \/ SendClose(c)
  BY <1>1, <1>4 DEF SendOpen, SendChange, SendSave, SendClose, Notify
<1>5. CASE RecordOpen(c) \/ RaiseVersion(c) \/ RecordClose(c)
  <2>1. AfterOpen(op[c]) \in Places \ {"send", "wait"}
    BY DEF AfterOpen
  <2>. QED BY <1>1, <1>5, <2>1 DEF RecordOpen, RaiseVersion, RecordClose, Remember
<1>6. CASE TakeReply(c)
  <2>1. AfterAnswer(op[c]) \notin {"send", "wait"}
    BY DEF AfterAnswer
  <2>2. \A b \in Callers : reply'[b] \in {reply[b], Nothing}
    BY <1>6 DEF TakeReply
  <2>3. \A b \in Callers : at'[b] \in {"send", "wait"} =>
                            at[b] \in {"send", "wait"} /\ reply'[b] = reply[b]
    BY <1>6, <2>1 DEF TakeReply
  <2>. QED BY <1>6, <2>2, <2>3, OtherRequests DEF TakeReply
<1>7. CASE Kill(c)
  BY <1>1, <1>7 DEF Kill
<1>. QED
  BY <1>2, <1>3, <1>4, <1>5, <1>6, <1>7, RegisterRequests, SendRequests, SendFailsRequests
     DEF CallerStep

LEMMA AbandonRequests ==
  ASSUME TypeInv, RequestInv, NEW c \in Callers, Abandon(c)
  PROVE  RequestInv'
<1> USE DEF TypeInv, TypeOK, Goto, memory, process
<1>1. \A b \in Callers : reply'[b] \in {reply[b], Nothing}
  BY DEF Abandon
<1>2. \A b \in Callers : at'[b] \in {"send", "wait"} =>
                          at[b] \in {"send", "wait"} /\ reply'[b] = reply[b]
  BY DEF Abandon
<1>. QED BY <1>1, <1>2, OtherRequests DEF Abandon

LEMMA BeginRequests ==
  ASSUME TypeInv, RequestInv, NEW c \in Callers, NEW o \in Operations,
         NEW d \in Documents \cup {NoDocument}, Begin(c, o, d)
  PROVE  RequestInv'
<1> USE DEF TypeInv, TypeOK, Goto, memory, process
<1>1. \A b \in Callers : at'[b] \in {"send", "wait"} => at[b] \in {"send", "wait"}
  BY DEF Begin
<1>. QED BY <1>1, OtherRequests DEF Begin

LEMMA InitRequests == Init => RequestInv
<1> SUFFICES ASSUME Init PROVE RequestInv
  OBVIOUS
<1>1. \A i \in Nat, c \in Callers : Claim(i, c) => i = 0
  BY DEF Init, Claim, Sent
<1>2. IdsInv
  BY <1>1 DEF Init, IdsInv
<1>3. BorrowedInv
  BY DEF Init, BorrowedInv
<1>4. AnswersAreTheirs
  BY DEF Init, AnswersAreTheirs, WaitersAreRegistered
<1>. QED BY <1>2, <1>3, <1>4 DEF RequestInv

LEMMA NextRequests == TypeInv /\ RequestInv /\ [Next]_vars => RequestInv'
<1> SUFFICES ASSUME TypeInv, RequestInv, [Next]_vars PROVE RequestInv'
  OBVIOUS
<1>1. CASE UNCHANGED vars
  BY <1>1, OtherRequests DEF vars, tasks, memory, process
<1>. QED
  BY <1>1, CallerRequests, BeginRequests, AbandonRequests, ServerRequests, ReaderRequests DEF Next

(* Whoever waits can be found, and nobody is handed an answer to another   *)
(* caller's request, unless the server used its id for its own.            *)
THEOREM AnswersFindTheirCallers == Spec => []AnswersAreTheirs
<1>1. RequestInv => AnswersAreTheirs
  BY DEF RequestInv
<1>. QED BY <1>1, InitRequests, NextRequests, ClientTypeCorrect, PTL DEF Spec

-----------------------------------------------------------------------------
(* Documents.  A step of a caller that goes on to a place: what must hold  *)
(* of its own document then; the others are as they were.                  *)
LEMMA CallerMoves ==
  ASSUME TypeInv, ViewInv, NEW c \in Callers, NEW place \in Places,
         at[c] # "idle", at' = [at EXCEPT ![c] = place], UNCHANGED doc,
         disturbed \subseteq disturbed', server' = "up" => server = "up",
         \A d \in Documents \ {doc[c]} : version'[d] = version[d] /\ seen'[d] = seen[d],
         \A b \in Callers \ {c} : text'[b] = text[b],
         /\ doc[c] \in Documents \ disturbed' /\ server' = "up"
         /\ Ready(c, doc[c])
         => IF place = "idle" THEN version'[doc[c]] = seen'[doc[c]] ELSE Ready(c, doc[c])'
  PROVE  \A d \in Documents : DocumentInv(d)'
<1> SUFFICES ASSUME NEW d \in Documents, d \notin disturbed'
             PROVE  /\ \A a, b \in Busy(d)' : a = b
                    /\ server' = "up" =>
                         /\ Busy(d)' = {} => version'[d] = seen'[d]
                         /\ \A a \in Busy(d)' : Ready(a, d)'
  BY DEF DocumentInv
<1>1. /\ \A a, b \in Busy(d) : a = b
      /\ server = "up" =>
           /\ Busy(d) = {} => version[d] = seen[d]
           /\ \A a \in Busy(d) : Ready(a, d)
  BY DEF ViewInv, DocumentInv
<1>2. at \in [Callers -> Places]
  BY DEF TypeInv, TypeOK
<1>3. CASE d = doc[c]
  <2>1. c \in Busy(d) /\ Busy(d) = {c}
    BY <1>1, <1>3 DEF Busy
  <2>2. Busy(d)' = IF place = "idle" THEN {} ELSE {c}
    BY <1>2, <1>3, <2>1 DEF Busy
  <2>3. server' = "up" => Ready(c, d)
    BY <1>1, <2>1
  <2>. QED BY <1>3, <2>2, <2>3
<1>4. CASE d # doc[c]
  <2>1. Busy(d)' = Busy(d) /\ c \notin Busy(d)
    BY <1>2, <1>4 DEF Busy
  <2>2. version'[d] = version[d] /\ seen'[d] = seen[d]
    BY <1>4
  <2>3. \A a \in Busy(d) : a \in Callers \ {c} /\ at'[a] = at[a] /\ text'[a] = text[a]
    BY <1>2, <2>1 DEF Busy
  <2>4. \A a \in Busy(d) : Ready(a, d) => Ready(a, d)'
    BY <2>2, <2>3 DEF Ready
  <2>. QED BY <1>1, <2>1, <2>2, <2>4
<1>. QED BY <1>3, <1>4

(* A step that is no caller's.                                             *)
LEMMA NobodyMoves ==
  ASSUME ViewInv, UNCHANGED <<at, doc, text, version, seen, disturbed, broken>>,
         server' = "up" => server = "up"
  PROVE  ViewInv'
BY DEF ViewInv, DocumentInv, Busy, Ready

LEMMA BeginView ==
  ASSUME TypeInv, ViewInv, NEW c \in Callers, NEW o \in Operations,
         NEW e \in Documents \cup {NoDocument}, Begin(c, o, e)
  PROVE  ViewInv'
<1> DEFINE place == CASE o = "open" -> "open" [] o = "shutdown" -> "register" [] OTHER -> "check"
<1>1. /\ at[c] = "idle" /\ at' = [at EXCEPT ![c] = place] /\ doc' = [doc EXCEPT ![c] = e]
      /\ o = "shutdown" <=> e = NoDocument
      /\ disturbed' = IF Disturbs(o, e) THEN disturbed \cup {e} ELSE disturbed
      /\ UNCHANGED <<text, version, seen, server, broken>>
  BY DEF Begin, Goto, memory, process
<1>2. /\ at \in [Callers -> Places] /\ doc \in [Callers -> Documents \cup {NoDocument}]
  BY DEF TypeInv, TypeOK
<1>3. place # "idle" /\ (o = "open" => place = "open")
      /\ (o \notin {"open", "shutdown"} => place = "check")
  OBVIOUS
<1> HIDE DEF place
<1>4. ASSUME NEW d \in Documents, d \notin disturbed'
      PROVE  /\ \A a, b \in Busy(d)' : a = b
             /\ server' = "up" =>
                  /\ Busy(d)' = {} => version'[d] = seen'[d]
                  /\ \A a \in Busy(d)' : Ready(a, d)'
  <2>1. d \notin disturbed /\ (d = e => ~ Disturbs(o, e)) /\ d # NoDocument
    BY <1>1, <1>4, LspAssumption
  <2>2. /\ \A a, b \in Busy(d) : a = b
        /\ server = "up" =>
             /\ Busy(d) = {} => version[d] = seen[d]
             /\ \A a \in Busy(d) : Ready(a, d)
    BY <2>1 DEF ViewInv, DocumentInv
  <2>3. c \notin Busy(d) /\ Busy(d)' = IF d = e THEN Busy(d) \cup {c} ELSE Busy(d)
    BY <1>1, <1>2, <1>3 DEF Busy
  <2>4. \A a \in Busy(d) : Ready(a, d) => Ready(a, d)'
    BY <1>1, <1>2, <2>3 DEF Ready, Busy
  <2>5. CASE d = e
    <3>1. Busy(d) = {} /\ (o = "open" => version[d] = 0) /\ o # "shutdown"
      BY <1>1, <2>1, <2>5 DEF Disturbs
    <3>2. server' = "up" => Ready(c, d)'
      BY <1>1, <1>2, <1>3, <2>2, <3>1 DEF Ready
    <3>. QED BY <2>3, <2>5, <3>1, <3>2
  <2>6. CASE d # e
    BY <1>1, <2>2, <2>3, <2>4, <2>6
  <2>. QED BY <2>5, <2>6
<1>5. broken' \subseteq disturbed'
  BY <1>1 DEF ViewInv
<1>. QED BY <1>4, <1>5 DEF ViewInv, DocumentInv

(* A caller that is ready is allowed what it does, and what it leaves is   *)
(* what the next place, or no place, asks for.                             *)
LEMMA CallerView ==
  ASSUME TypeInv, ViewInv, NEW c \in Callers, CallerStep(c)
  PROVE  ViewInv'
<1> DEFINE d == doc[c]
<1> USE DEF Goto, tasks, memory, process, history
<1>0. /\ at \in [Callers -> Places] /\ op \in [Callers -> Operations]
      /\ doc \in [Callers -> Documents \cup {NoDocument}] /\ text \in [Callers -> Nat]
      /\ version \in [Documents -> Nat] /\ seen \in [Documents -> Nat]
  BY DEF TypeInv, TypeOK
<1>1. broken \subseteq disturbed
  BY DEF ViewInv
<1>2. (at[c] # "idle" /\ d \in Documents \ disturbed /\ server = "up") => Ready(c, d)
  BY DEF ViewInv, DocumentInv, Busy
<1>3. /\ at[c] \in {"check", "open", "opened", "raise", "change", "save", "close", "closed"}
         => d \in Documents
      /\ at[c] \in {"register", "send", "wait"} /\ op[c] = "query" => d \in Documents
      /\ op[c] = "shutdown" /\ at[c] # "idle" => d \notin Documents
  BY <1>0, LspAssumption DEF TypeInv, CallInv
<1>4. CASE Check(c)
  <2>1. at[c] = "check" /\ op[c] \in Operations \ {"open", "shutdown"} /\ d \in Documents
    BY <1>0, <1>3, <1>4 DEF Check, TypeInv, CallInv
  <2>2. PICK place \in Places :
          /\ at' = [at EXCEPT ![c] = place]
          /\ place = "idle" \/ place = AfterCheck(op[c], version[d] # 0)
    <3>1. AfterCheck(op[c], version[d] # 0) \in Places
      BY <2>1, CheckedIsNext
    <3>. QED BY <1>4, <3>1 DEF Check
  <2>3. /\ place \in {"idle", "open", "raise", "register", "save", "close"}
        /\ version[d] # 0 => place # "open"
        /\ version[d] = 0 => place \in {"idle", "open"}
    BY <2>1, <2>2, CheckedIsNext
  <2>4. UNCHANGED <<doc, text, version, seen, server, disturbed, broken>>
    BY <1>4 DEF Check
  <2>5. Ready(c, d) => IF place = "idle" THEN version'[d] = seen'[d] ELSE Ready(c, d)'
    BY <1>0, <2>1, <2>2, <2>3, <2>4 DEF Ready
  <2>6. \A e \in Documents : DocumentInv(e)'
    BY <2>1, <2>2, <2>4, <2>5, CallerMoves
  <2>. QED BY <1>1, <2>4, <2>6 DEF ViewInv
<1>5. CASE NotifyFails(c)
  <2>1. /\ at[c] # "idle" /\ at' = [at EXCEPT ![c] = "idle"] /\ server' = "dead"
        /\ UNCHANGED <<doc, text, version, seen, server, disturbed, broken>>
    BY <1>5 DEF NotifyFails
  <2>2. \A e \in Documents : DocumentInv(e)'
    BY <2>1, CallerMoves
  <2>. QED BY <1>1, <2>1, <2>2 DEF ViewInv
<1>6. ASSUME NEW legal \in BOOLEAN, NEW view \in Nat, Notify(c, legal, view),
             UNCHANGED version, at[c] # "idle", d \in Documents,
             NEW place \in Places, at' = [at EXCEPT ![c] = place],
             Ready(c, d) => /\ legal
                            /\ (seen'[d] = view =>
                                  IF place = "idle" THEN version'[d] = seen'[d] ELSE Ready(c, d)')
      PROVE  ViewInv'
  <2>1. /\ server = "up" /\ seen' = [seen EXCEPT ![d] = view]
        /\ broken' = IF legal THEN broken ELSE broken \cup {d}
        /\ UNCHANGED <<doc, text, server, disturbed>>
    BY <1>6 DEF Notify
  <2>2. seen'[d] = view /\ \A e \in Documents \ {d} : seen'[e] = seen[e]
    BY <1>0, <1>6, <2>1
  <2>3. \A e \in Documents : DocumentInv(e)'
    BY <1>6, <2>1, <2>2, CallerMoves
  <2>4. legal \/ d \in disturbed
    BY <1>2, <1>6, <2>1
  <2>. QED BY <1>1, <2>1, <2>3, <2>4 DEF ViewInv
<1>7. CASE SendOpen(c)
  <2>1. /\ at[c] = "open" /\ Notify(c, seen[d] = 0, 1) /\ at' = [at EXCEPT ![c] = "opened"]
        /\ d \in Documents /\ UNCHANGED <<version, doc, text>>
    BY <1>3, <1>7 DEF SendOpen, Notify
  <2>2. Ready(c, d) => seen[d] = 0 /\ (seen'[d] = 1 => Ready(c, d)')
    BY <1>0, <2>1 DEF Ready
  <2>. QED BY <1>6, <2>1, <2>2
<1>8. CASE SendChange(c)
  <2> DEFINE legal == seen[d] # 0 /\ text[c] > seen[d]
  <2>1. /\ at[c] = "change" /\ Notify(c, legal, text[c]) /\ at' = [at EXCEPT ![c] = "idle"]
        /\ d \in Documents /\ UNCHANGED version
    BY <1>3, <1>8 DEF SendChange, Notify
  <2>2. Ready(c, d) => legal /\ text[c] = version[d]
    BY <2>1 DEF Ready
  <2>3. text[c] \in Nat /\ legal \in BOOLEAN
    BY <1>0
  <2> HIDE DEF legal
  <2>. QED BY <1>6, <2>1, <2>2, <2>3
<1>9. CASE SendSave(c)
  <2>1. /\ at[c] = "save" /\ Notify(c, seen[d] # 0, seen[d]) /\ at' = [at EXCEPT ![c] = "idle"]
        /\ d \in Documents /\ UNCHANGED version
    BY <1>3, <1>9 DEF SendSave, Notify
  <2>2. Ready(c, d) => seen[d] # 0 /\ version[d] = seen[d]
    BY <2>1 DEF Ready
  <2>3. seen[d] \in Nat
    BY <1>0, <2>1
  <2>. QED BY <1>6, <2>1, <2>2, <2>3
<1>10. CASE SendClose(c)
  <2>1. /\ at[c] = "close" /\ Notify(c, seen[d] # 0, 0) /\ at' = [at EXCEPT ![c] = "closed"]
        /\ d \in Documents /\ UNCHANGED <<version, doc, text>>
    BY <1>3, <1>10 DEF SendClose, Notify
  <2>2. Ready(c, d) => seen[d] # 0 /\ (seen'[d] = 0 => Ready(c, d)')
    BY <1>0, <2>1 DEF Ready
  <2>. QED BY <1>6, <2>1, <2>2
<1>11. ASSUME NEW v \in Nat, Remember(c, v), at[c] # "idle", d \in Documents,
              \A b \in Callers \ {c} : text'[b] = text[b],
              NEW place \in Places, at' = [at EXCEPT ![c] = place],
              Ready(c, d) /\ version'[d] = v /\ seen'[d] = seen[d] =>
                IF place = "idle" THEN version'[d] = seen'[d] ELSE Ready(c, d)'
       PROVE  ViewInv'
  <2>1. /\ version' = [version EXCEPT ![d] = v]
        /\ UNCHANGED <<doc, seen, server, disturbed, broken>>
    BY <1>11 DEF Remember
  <2>2. version'[d] = v /\ \A e \in Documents \ {d} : version'[e] = version[e]
    BY <1>0, <1>11, <2>1
  <2>3. \A e \in Documents : DocumentInv(e)'
    BY <1>11, <2>1, <2>2, CallerMoves
  <2>. QED BY <1>1, <2>1, <2>3 DEF ViewInv
<1>12. CASE RecordOpen(c)
  <2>1. /\ at[c] = "opened" /\ Remember(c, 1) /\ at' = [at EXCEPT ![c] = AfterOpen(op[c])]
        /\ d \in Documents /\ UNCHANGED <<text, doc>>
    BY <1>3, <1>12 DEF RecordOpen, Remember
  <2>2. AfterOpen(op[c]) \in {"register", "idle"}
    BY DEF AfterOpen
  <2>3. Ready(c, d) /\ version'[d] = 1 /\ seen'[d] = seen[d] =>
          IF AfterOpen(op[c]) = "idle" THEN version'[d] = seen'[d] ELSE Ready(c, d)'
    BY <1>0, <2>1, <2>2 DEF Ready
  <2>. QED BY <1>11, <2>1, <2>2, <2>3
<1>13. CASE RaiseVersion(c)
  <2>1. /\ at[c] = "raise" /\ Remember(c, version[d] + 1) /\ at' = [at EXCEPT ![c] = "change"]
        /\ d \in Documents /\ UNCHANGED doc /\ text' = [text EXCEPT ![c] = version[d] + 1]
    BY <1>3, <1>13 DEF RaiseVersion, Remember
  <2>2. version[d] \in Nat /\ version[d] + 1 \in Nat /\ text'[c] = version[d] + 1
        /\ \A b \in Callers \ {c} : text'[b] = text[b]
    BY <1>0, <2>1
  <2>3. Ready(c, d) /\ version'[d] = version[d] + 1 /\ seen'[d] = seen[d] => Ready(c, d)'
    BY <1>0, <2>1, <2>2 DEF Ready
  <2>. QED BY <1>11, <2>1, <2>2, <2>3
<1>14. CASE RecordClose(c)
  <2>1. /\ at[c] = "closed" /\ Remember(c, 0) /\ at' = [at EXCEPT ![c] = "idle"]
        /\ d \in Documents /\ UNCHANGED text
    BY <1>3, <1>14 DEF RecordClose
  <2>2. Ready(c, d) /\ version'[d] = 0 /\ seen'[d] = seen[d] => version'[d] = seen'[d]
    BY <2>1 DEF Ready
  <2>. QED BY <1>11, <2>1, <2>2
<1>15. ASSUME NEW place \in Places, at' = [at EXCEPT ![c] = place],
              at[c] \in {"register", "send", "wait", "exit"},
              UNCHANGED <<doc, text, version, seen, disturbed>>, server' = "up" => server = "up",
              at[c] # "exit" => place \in {"send", "wait", "idle", "exit"},
              d \in Documents => place # "exit" /\ at[c] # "exit"
       PROVE  \A e \in Documents : DocumentInv(e)'
  <2>1. d \in Documents /\ Ready(c, d) =>
          IF place = "idle" THEN version'[d] = seen'[d] ELSE Ready(c, d)'
    BY <1>0, <1>15 DEF Ready
  <2>. QED BY <1>15, <2>1, CallerMoves
<1>16. AfterAnswer(op[c]) \in {"exit", "idle"} /\ (AfterAnswer(op[c]) = "exit" => op[c] = "shutdown")
  BY DEF AfterAnswer
<1>17. CASE Register(c)
  <2>1. \A e \in Documents : DocumentInv(e)'
    BY <1>15, <1>17 DEF Register
  <2>. QED BY <1>1, <1>17, <2>1 DEF Register, ViewInv
<1>18. CASE SendRequest(c)
  <2>1. \A e \in Documents : DocumentInv(e)'
    BY <1>15, <1>18 DEF SendRequest
  <2>2. broken' \subseteq disturbed
    <3>1. ASSUME op[c] = "query", seen[d] = 0 PROVE d \in disturbed
      <4>1. at[c] = "send" /\ server = "up"
        BY <1>18 DEF SendRequest
      <4>2. d \in Documents
        BY <1>3, <3>1, <4>1
      <4>3. Ready(c, d) => seen[d] # 0
        BY <4>1 DEF Ready
      <4>. QED BY <1>2, <3>1, <4>1, <4>2, <4>3
    <3>. QED BY <1>1, <1>18, <3>1 DEF SendRequest
  <2>. QED BY <1>18, <2>1, <2>2 DEF SendRequest, ViewInv
<1>19. CASE SendRequestFails(c)
  <2>1. \A e \in Documents : DocumentInv(e)'
    BY <1>3, <1>15, <1>16, <1>19 DEF SendRequestFails
  <2>. QED BY <1>1, <1>19, <2>1 DEF SendRequestFails, ViewInv
<1>20. CASE TakeReply(c)
  <2>1. \A e \in Documents : DocumentInv(e)'
    BY <1>3, <1>15, <1>16, <1>20 DEF TakeReply
  <2>. QED BY <1>1, <1>20, <2>1 DEF TakeReply, ViewInv
<1>21. CASE Kill(c)
  <2>1. op[c] = "shutdown"
    BY <1>21 DEF Kill, TypeInv, CallInv
  <2>2. \A e \in Documents : DocumentInv(e)'
    BY <1>3, <1>15, <1>21, <2>1 DEF Kill
  <2>. QED BY <1>1, <1>21, <2>2 DEF Kill, ViewInv
<1>. QED
  BY <1>4, <1>5, <1>7, <1>8, <1>9, <1>10, <1>12, <1>13, <1>14, <1>17, <1>18, <1>19, <1>20, <1>21
     DEF CallerStep

(* Giving up in the middle of a change of what both sides know disturbs    *)
(* the document; elsewhere they agree.                                     *)
LEMMA AbandonView ==
  ASSUME TypeInv, ViewInv, NEW c \in Callers, Abandon(c)
  PROVE  ViewInv'
<1> DEFINE d == doc[c]
<1>1. /\ at[c] # "idle" /\ at' = [at EXCEPT ![c] = "idle"] /\ at[c] \in Places
      /\ disturbed' = IF at[c] \in {"opened", "change", "closed"} THEN disturbed \cup {d} ELSE disturbed
      /\ UNCHANGED <<doc, text, version, seen, server, broken>>
  BY DEF Abandon, Goto, memory, process, TypeInv, TypeOK
<1>2. d \in Documents => at[c] # "exit"
  BY LspAssumption DEF TypeInv, CallInv
<1>3. (d \in Documents \ disturbed' /\ Ready(c, d)) => version'[d] = seen'[d]
  BY <1>1, <1>2 DEF Ready
<1>4. \A e \in Documents : DocumentInv(e)'
  BY <1>1, <1>3, CallerMoves
<1>. QED BY <1>1, <1>4 DEF ViewInv

LEMMA ServerView == ViewInv /\ ServerStep => ViewInv'
<1> SUFFICES ASSUME ViewInv, ServerStep PROVE ViewInv'
  OBVIOUS
<1>1. ASSUME NEW m, Say(m) PROVE ViewInv'
  BY <1>1, NobodyMoves DEF Say, tasks, memory, history
<1>2. CASE Die
  BY <1>2, NobodyMoves DEF Die, tasks, memory, history
<1>. QED
  BY <1>1, <1>2 DEF ServerStep, AnswerRequest, AskClient, Publish, Garble, SayUnasked

LEMMA ReaderView == ViewInv /\ ReaderStep => ViewInv'
<1> SUFFICES ASSUME ViewInv, ReaderStep PROVE ViewInv'
  OBVIOUS
<1>1. UNCHANGED <<at, doc, text, version, seen, server, disturbed, broken>>
  BY DEF ReaderStep, ReadMessageWithId, ReadDiagnostics, ReaderFails, ReaderEnds,
         tasks, process, history
<1>. QED BY <1>1, NobodyMoves

LEMMA InitView == Init => ViewInv
BY DEF Init, ViewInv, DocumentInv, Busy

LEMMA NextView == TypeInv /\ ViewInv /\ [Next]_vars => ViewInv'
<1> SUFFICES ASSUME TypeInv, ViewInv, [Next]_vars PROVE ViewInv'
  OBVIOUS
<1>1. CASE UNCHANGED vars
  BY <1>1, NobodyMoves DEF vars, tasks, memory, process, history
<1>. QED BY <1>1, CallerView, BeginView, AbandonView, ServerView, ReaderView DEF Next

(* The inductive invariant: ids have one owner, what is sent under one was *)
(* asked under it, and a document nobody disturbed has at most one caller  *)
(* at work on it, who knows what the server has.                           *)
THEOREM ClientInvariant == Spec => []ClientInv
<1>1. Init => ClientInv
  BY InitType, InitRequests, InitView DEF ClientInv
<1>2. ClientInv /\ [Next]_vars => ClientInv'
  BY NextType, NextRequests, NextView DEF ClientInv
<1>. QED BY <1>1, <1>2, PTL DEF Spec

(* An answer can find whoever waits and is his own; the server is sent     *)
(* nothing the protocol forbids, and between operations both sides agree   *)
(* on every document that callers left to one another.                     *)
THEOREM ClientStaysInStep == Spec => []ClientIsInStep
<1>1. ClientInv => ClientIsInStep
  BY DEF ClientInv, RequestInv, ViewInv, DocumentInv, ClientIsInStep, DocumentsFollowProtocol
<1>. QED BY <1>1, ClientInvariant, PTL
=============================================================================
