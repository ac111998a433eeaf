----------------------------- MODULE LspClient -----------------------------
(***************************************************************************)
(* One client of a language server (lsp/src/client.rs), once connected.    *)
(* Callers work through it at the same time; each lock taken and each      *)
(* message written is a step of its own.  A task reads what the server     *)
(* sends and hands answers to the callers that wait for them by their id.  *)
(* The server keeps its own view of the documents, answers in any order,   *)
(* sends diagnostics and requests of its own, may send what cannot be      *)
(* parsed, and may die.                                                    *)
(***************************************************************************)
EXTENDS Naturals, Sequences

CONSTANTS
  Callers,      \* tasks that call the client
  Documents,
  NoDocument,   \* stands for: a call that is about no document
  MaxEvents     \* bound: calls begun and messages the server sends unasked,
                \* together; how many of each is chosen at the start

Operations == {"open", "change", "save", "close", "query", "shutdown"}

ASSUME LspAssumption ==
  /\ NoDocument \notin Documents
  /\ MaxEvents \in Nat

VARIABLES
  at,          \* where a caller is
  op,          \* the operation it called
  doc,         \* the document it called it for
  text,        \* the version it is about to send
  request,     \* the id of its request
  reply,       \* what its receiver holds: nothing, an error, whose answer
  nextId,      \* next_request_id
  pending,     \* pending_requests: who waits for an id
  version,     \* open_documents: a version, or 0
  diagnostics, \* the diagnostics kept for a document
  reader,      \* the task of spawn_reader
  server,      \* the process
  asked,       \* requests the server has and has not answered
  seen,        \* the server's own view: the version it has, or 0 if closed
  output,      \* what it sent and the reader has not read
  calls,       \* bound: calls left to begin
  unasked,     \* bound: messages left to send unasked
  borrowed,    \* history: ids the server used for requests of its own
  disturbed,   \* history: documents with two callers at work on them, one
               \* that gave up in the middle, or one opened twice
  broken,      \* history: documents for which the server was sent what the
               \* protocol forbids
  late         \* history: callers whose request came after the reader ended

tasks   == <<at, op, doc, text, request, reply, late>>
memory  == <<nextId, pending, version, diagnostics, reader>>
process == <<server, asked, seen, output, unasked, borrowed>>
history == <<calls, disturbed, broken>>
vars    == <<tasks, memory, process, history>>

-----------------------------------------------------------------------------
Nothing == [kind |-> "nothing"]
Failure == [kind |-> "error"]
Busy(d) == {c \in Callers : at[c] # "idle" /\ doc[c] = d}

(* Where a caller goes once it knows whether its document is open, once    *)
(* its document is open, and once it has its answer.  First, a change that *)
(* does not look.                                                          *)
NoLook(o, isOpen) ==
  CASE o = "change" -> "raise"
    [] o = "query"  -> IF isOpen THEN "register" ELSE "open"
    [] OTHER        -> IF isOpen THEN o ELSE "idle"
AfterCheck(o, isOpen) ==
  CASE o = "change" -> IF isOpen THEN "raise" ELSE "open"
    [] o = "query"  -> IF isOpen THEN "register" ELSE "open"
    [] OTHER        -> IF isOpen THEN o ELSE "idle"
AfterOpen(o)   == IF o = "query" THEN "register" ELSE "idle"
AfterAnswer(o) == IF o = "shutdown" THEN "exit" ELSE "idle"

(* The state connect leaves: initialize had the first id.                  *)
Init ==
  /\ at = [c \in Callers |-> "idle"] /\ op = [c \in Callers |-> "open"]
  /\ doc = [c \in Callers |-> NoDocument] /\ text = [c \in Callers |-> 0]
  /\ request = [c \in Callers |-> 0] /\ reply = [c \in Callers |-> Nothing]
  /\ late = [c \in Callers |-> FALSE]
  /\ nextId = 2 /\ pending = {} /\ reader = "running"
  /\ version = [d \in Documents |-> 0] /\ diagnostics = [d \in Documents |-> 0]
  /\ server = "up" /\ asked = {} /\ output = <<>>
  /\ seen = [d \in Documents |-> 0]
  /\ calls \in 1..MaxEvents /\ unasked = MaxEvents - calls
  /\ borrowed = {}
  /\ disturbed = {} /\ broken = {}

Goto(c, place) == at' = [at EXCEPT ![c] = place]

(* Another caller is at work on the document, or it is opened although it  *)
(* is open: open_document does not look.                                   *)
Disturbs(o, d) ==
  /\ d # NoDocument
  /\ Busy(d) # {} \/ (o = "open" /\ version[d] # 0)

Begin(c, o, d) ==
  /\ at[c] = "idle"
  /\ calls > 0
  /\ o = "shutdown" <=> d = NoDocument
  /\ calls' = calls - 1
  /\ op' = [op EXCEPT ![c] = o]
  /\ doc' = [doc EXCEPT ![c] = d]
  /\ Goto(c, CASE o = "open" -> "open" [] o = "shutdown" -> "register" [] OTHER -> "check")
  /\ disturbed' = IF Disturbs(o, d) THEN disturbed \cup {d} ELSE disturbed
  /\ UNCHANGED <<text, request, reply, late, memory, process, broken>>

(* is_document_open; a query then reads the file, which may fail.          *)
Check(c) ==
  /\ at[c] = "check"
  /\ LET next == AfterCheck(op[c], version[doc[c]] # 0)
     IN \/ Goto(c, next)
        \/ op[c] = "query" /\ next = "open" /\ Goto(c, "idle")
  /\ UNCHANGED <<op, doc, text, request, reply, late, memory, process, history>>

(***************************************************************************)
(* Notifications: the server has them in the order in which they are       *)
(* written; `legal' says whether the protocol allows them now.             *)
(***************************************************************************)
Notify(c, legal, view) ==
  /\ server = "up"
  /\ seen' = [seen EXCEPT ![doc[c]] = view]
  /\ broken' = IF legal THEN broken ELSE broken \cup {doc[c]}
  /\ UNCHANGED <<op, doc, text, request, reply, late, memory, server, asked,
                 output, unasked, borrowed, calls, disturbed>>

(* The write fails: the call returns the error.                            *)
NotifyFails(c) ==
  /\ at[c] \in {"open", "change", "save", "close"}
  /\ server = "dead"
  /\ Goto(c, "idle")
  /\ UNCHANGED <<op, doc, text, request, reply, late, memory, process, history>>

SendOpen(c) ==
  /\ at[c] = "open"
  /\ Notify(c, seen[doc[c]] = 0, 1)
  /\ Goto(c, "opened")

SendChange(c) ==
  /\ at[c] = "change"
  /\ Notify(c, seen[doc[c]] # 0 /\ text[c] > seen[doc[c]], text[c])
  /\ Goto(c, "idle")

SendSave(c) ==
  /\ at[c] = "save"
  /\ Notify(c, seen[doc[c]] # 0, seen[doc[c]])
  /\ Goto(c, "idle")

SendClose(c) ==
  /\ at[c] = "close"
  /\ Notify(c, seen[doc[c]] # 0, 0)
  /\ Goto(c, "closed")

(* What the client remembers of its documents.                             *)
Remember(c, v) ==
  /\ version' = [version EXCEPT ![doc[c]] = v]
  /\ UNCHANGED <<op, doc, request, reply, late, nextId, pending, diagnostics,
                 reader, process, history>>

RecordOpen(c) ==
  /\ at[c] = "opened"
  /\ Remember(c, 1)
  /\ Goto(c, AfterOpen(op[c]))
  /\ UNCHANGED text

RaiseVersion(c) ==
  /\ at[c] = "raise"
  /\ Remember(c, version[doc[c]] + 1)
  /\ text' = [text EXCEPT ![c] = version[doc[c]] + 1]
  /\ Goto(c, "change")

RecordClose(c) ==
  /\ at[c] = "closed"
  /\ Remember(c, 0)
  /\ Goto(c, "idle")
  /\ UNCHANGED text

(***************************************************************************)
(* request: register under a fresh id, write, wait for the receiver.       *)
(***************************************************************************)
FreshId == nextId

Register(c) ==
  /\ at[c] = "register"
  /\ request' = [request EXCEPT ![c] = FreshId]
  /\ nextId' = nextId + 1
  /\ pending' = {p \in pending : p.id # FreshId} \cup {[id |-> FreshId, by |-> c]}
  /\ late' = [late EXCEPT ![c] = reader # "running"]
  /\ Goto(c, "send")
  /\ UNCHANGED <<op, doc, text, reply, version, diagnostics, reader, process,
                 history>>

SendRequest(c) ==
  /\ at[c] = "send"
  /\ server = "up"
  /\ asked' = asked \cup {[id |-> request[c], by |-> c]}
  /\ broken' = IF op[c] = "query" /\ seen[doc[c]] = 0 THEN broken \cup {doc[c]}
                                                      ELSE broken
  /\ Goto(c, "wait")
  /\ UNCHANGED <<op, doc, text, request, reply, late, memory, server, seen,
                 output, unasked, borrowed, calls, disturbed>>

SendRequestFails(c) ==
  /\ at[c] = "send"
  /\ server = "dead"
  /\ pending' = {p \in pending : p.id # request[c]}
  /\ reply' = [reply EXCEPT ![c] = Nothing]
  /\ Goto(c, AfterAnswer(op[c]))
  /\ UNCHANGED <<op, doc, text, request, late, nextId, version, diagnostics,
                 reader, process, history>>

(* The answer, an error, or one that cannot be parsed.                     *)
TakeReply(c) ==
  /\ at[c] = "wait"
  /\ reply[c] # Nothing
  /\ reply' = [reply EXCEPT ![c] = Nothing]
  /\ Goto(c, AfterAnswer(op[c]))
  /\ UNCHANGED <<op, doc, text, request, late, memory, process, history>>

(* shutdown, whatever came of its request: notify exit, kill and wait.     *)
Kill(c) ==
  /\ at[c] = "exit"
  /\ server' = "dead"
  /\ Goto(c, "idle")
  /\ UNCHANGED <<op, doc, text, request, reply, late, memory, asked, seen,
                 output, unasked, borrowed, history>>

(* The caller's future is dropped between two of its steps.                *)
Abandon(c) ==
  /\ at[c] # "idle"
  /\ Goto(c, "idle")
  /\ reply' = [reply EXCEPT ![c] = Nothing]
  /\ disturbed' = IF at[c] \in {"opened", "change", "closed"}
                    THEN disturbed \cup {doc[c]} ELSE disturbed
  /\ UNCHANGED <<op, doc, text, request, late, memory, process, calls, broken>>

CallerStep(c) ==
  \/ Check(c) \/ NotifyFails(c)
  \/ SendOpen(c) \/ SendChange(c) \/ SendSave(c) \/ SendClose(c)
  \/ RecordOpen(c) \/ RaiseVersion(c) \/ RecordClose(c)
  \/ Register(c) \/ SendRequest(c) \/ SendRequestFails(c)
  \/ TakeReply(c) \/ Kill(c)

(***************************************************************************)
(* The server: external, as the client finds it.                           *)
(***************************************************************************)
Say(message) ==
  /\ server = "up"
  /\ output' = Append(output, message)
  /\ UNCHANGED <<tasks, memory, server, seen, history>>

AnswerRequest(r) ==
  /\ r \in asked
  /\ asked' = asked \ {r}
  /\ Say([kind |-> "answer", id |-> r.id, by |-> r.by])
  /\ UNCHANGED <<unasked, borrowed>>

SayUnasked(message) ==
  /\ unasked > 0
  /\ unasked' = unasked - 1
  /\ Say(message)
  /\ UNCHANGED asked

(* A request of its own; its ids are its own, too.                         *)
AskClient(id) ==
  /\ SayUnasked([kind |-> "request", id |-> id])
  /\ borrowed' = borrowed \cup {id}

(* The diagnostics of a document: some, or none any more (0).              *)
Publish(d, n) ==
  /\ SayUnasked([kind |-> "diagnostics", doc |-> d, found |-> n])
  /\ UNCHANGED borrowed

Garble ==
  /\ SayUnasked([kind |-> "garbage"])
  /\ UNCHANGED borrowed

Die ==
  /\ server = "up"
  /\ server' = "dead"
  /\ UNCHANGED <<tasks, memory, asked, seen, output, unasked,
                 borrowed, history>>

ServerStep ==
  \/ \E r \in asked : AnswerRequest(r)
  \/ \E id \in 2..nextId : AskClient(id)
  \/ \E d \in Documents : Publish(d, 0) \/ Publish(d, unasked)
  \/ Garble \/ Die

(***************************************************************************)
(* The task of spawn_reader.                                               *)
(***************************************************************************)
(* The callers whose receivers belong to these senders; an abandoned       *)
(* receiver is gone.                                                       *)
Receivers(senders) ==
  {c \in Callers : /\ at[c] \in {"send", "wait"}
                   /\ [id |-> request[c], by |-> c] \in senders}

HandOver(senders, what) ==
  /\ pending' = pending \ senders
  /\ reply' = [c \in Callers |-> IF c \in Receivers(senders) THEN what ELSE reply[c]]

(* Any message with an id, the server's own requests too, goes to whoever  *)
(* waits for this id.                                                      *)
ReadMessageWithId ==
  /\ reader = "running" /\ output # <<>>
  /\ Head(output).kind \in {"answer", "request"}
  /\ HandOver({p \in pending : p.id = Head(output).id}, Head(output))
  /\ output' = Tail(output)
  /\ UNCHANGED <<at, op, doc, text, request, late, nextId, version, diagnostics,
                 reader, server, asked, seen, unasked, borrowed,
                 history>>

(* What was published replaces what is kept; an empty list removes it.     *)
ReadDiagnostics ==
  /\ reader = "running" /\ output # <<>>
  /\ LET m == Head(output)
     IN /\ m.kind = "diagnostics"
        /\ diagnostics' = [diagnostics EXCEPT ![m.doc] = m.found]
  /\ output' = Tail(output)
  /\ UNCHANGED <<tasks, nextId, pending, version, reader, server, asked, seen,
                 unasked, borrowed, history>>

(* The callers an error is given to when the reader fails: all who wait.   *)
NoSenders  == {}
AllSenders == pending

(* A message that cannot be parsed, or is cut off by the server's death.   *)
ReaderFails ==
  /\ reader = "running"
  /\ IF output # <<>> THEN Head(output).kind = "garbage" ELSE server = "dead"
  /\ reader' = "failed"
  /\ HandOver(AllSenders, Failure)
  /\ UNCHANGED <<at, op, doc, text, request, late, nextId, version, diagnostics,
                 process, history>>

(* The end of the output between two messages: the task just returns.      *)
ReaderEnds ==
  /\ reader = "running"
  /\ output = <<>> /\ server = "dead"
  /\ reader' = "ended"
  /\ UNCHANGED <<tasks, nextId, pending, version, diagnostics, process, history>>

ReaderStep == ReadMessageWithId \/ ReadDiagnostics \/ ReaderFails \/ ReaderEnds

Next ==
  \/ \E c \in Callers :
       \/ CallerStep(c) \/ Abandon(c)
       \/ \E o \in Operations, d \in Documents \cup {NoDocument} : Begin(c, o, d)
  \/ ServerStep
  \/ ReaderStep

(* Tasks are polled when they can go on; and a server answers what it was  *)
(* asked, as long as it lives.                                             *)
Spec ==
  /\ Init /\ [][Next]_vars
  /\ \A c \in Callers : WF_vars(CallerStep(c))
  /\ WF_vars(ReaderStep)
  /\ WF_vars(\E r \in asked : AnswerRequest(r))

-----------------------------------------------------------------------------
Places == {"idle", "check", "open", "opened", "raise", "change", "save", "close",
           "closed", "register", "send", "wait", "exit"}
Asked == [id : Nat, by : Callers]
Output == [kind : {"answer"}, id : Nat, by : Callers]
            \cup [kind : {"request"}, id : Nat]
            \cup [kind : {"diagnostics"}, doc : Documents, found : Nat]
            \cup [kind : {"garbage"}]

TypeOK ==
  /\ at \in [Callers -> Places] /\ op \in [Callers -> Operations]
  /\ doc \in [Callers -> Documents \cup {NoDocument}]
  /\ text \in [Callers -> Nat] /\ request \in [Callers -> Nat]
  /\ reply \in [Callers -> {Nothing, Failure} \cup Output]
  /\ late \in [Callers -> BOOLEAN]
  /\ nextId \in Nat /\ pending \subseteq Asked
  /\ \A p \in pending : p.id < nextId
  /\ version \in [Documents -> Nat] /\ diagnostics \in [Documents -> Nat]
  /\ reader \in {"running", "failed", "ended"}
  /\ server \in {"up", "dead"} /\ asked \subseteq Asked
  /\ seen \in [Documents -> Nat]
  /\ output \in Seq(Output)
  /\ calls \in Nat /\ unasked \in Nat /\ borrowed \subseteq Nat
  /\ disturbed \subseteq Documents /\ broken \subseteq Documents

(* Nobody waits for an answer that cannot find him: whoever waits is in    *)
(* the map under his id, alone.                                            *)
WaitersAreRegistered ==
  \A c \in Callers :
    (at[c] \in {"send", "wait"} /\ reply[c] = Nothing) =>
      {p \in pending : p.id = request[c]} = {[id |-> request[c], by |-> c]}

(* An answer can find whoever waits for one, and goes to the caller that   *)
(* asked, unless the server used the caller's id for a request of its own. *)
AnswersAreTheirs ==
  /\ WaitersAreRegistered
  /\ \A c \in Callers :
       \/ reply[c] \in {Nothing, Failure}
       \/ reply[c] = [kind |-> "answer", id |-> request[c], by |-> c]
       \/ request[c] \in borrowed

(* Every request ends, in an answer or an error, as long as the reader     *)
(* runs or fails: only an output that ends between two messages leaves     *)
(* callers waiting, and a call that comes after the reader is gone.        *)
RequestsEnd ==
  \A c \in Callers :
    (at[c] = "wait") ~> (at[c] # "wait" \/ reader = "ended" \/ late[c])

(* The server is never sent what the protocol forbids -- a second open, a  *)
(* change, save, close or query of a closed document, an old version --    *)
(* unless two callers worked on the document at once, one gave up in the   *)
(* middle or opened it twice: the other operations look first, and each    *)
(* remembers what it did.  So between operations client and server agree   *)
(* on the document.                                                        *)
DocumentsFollowProtocol ==
  /\ broken \subseteq disturbed
  /\ \A d \in Documents \ disturbed :
       (server = "up" /\ Busy(d) = {}) => version[d] = seen[d]

(* Callers that share one client stay in step with its server, with their  *)
(* requests as with their documents.                                       *)
ClientIsInStep == AnswersAreTheirs /\ DocumentsFollowProtocol

=============================================================================
