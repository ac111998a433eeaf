----------------------------- MODULE McpServers -----------------------------
(***************************************************************************)
(* The manager of MCP servers (runtime/src/mcp_stdio.rs).  Its methods     *)
(* take it exclusively, so it does one thing at a time; the servers are    *)
(* processes of their own, reached through two pipes.  A method starts and *)
(* initializes a server when it needs it, writes a request, and takes the  *)
(* next frame of the server for the answer, whatever its id.  A method's   *)
(* future may be dropped while it waits.  A process may die.               *)
(***************************************************************************)
EXTENDS Naturals, Sequences, SequencesExt

CONSTANTS
  Order,       \* the names of the servers, in the order of their map
  Tools,       \* names of tools
  Names,       \* qualified names
  NameOf,      \* [server, tool] -> its qualified name
  MaxId,       \* the greatest id of a request: u64::MAX
  Budgets      \* bound: methods called, may a listing have further paged,
               \* frames sent unasked; one of these is chosen at the start

Servers == Range(Order)

ASSUME McpAssumption ==
  /\ Order \in Seq(Servers) /\ IsInjective(Order)
  /\ NameOf \in [Servers \X Tools -> Names] /\ Tools # {}
  /\ MaxId \in Nat \ {0}
  /\ Budgets \subseteq [calls : Nat, paged : BOOLEAN, unasked : Nat]

VARIABLES
  task,        \* the method under way: none, discover, call, shutdown
  step,        \* where it is
  queue,       \* the servers it has still to visit, the first one now
  tool,        \* the tool it calls
  asked,       \* the request it waits for
  process,     \* a server's process: none, up, dead
  initialized, \* the manager's flag for a server
  index,       \* tool_index: a set of routes
  nextId,      \* next_request_id
  inbox,       \* requests a server has not answered
  outbox,      \* frames of a server not read
  greeted,     \* servers that have answered initialize
  result,      \* what the last method gave its caller
  calls, paged, unasked,  \* bound: what is left of the budget
  listed,      \* history: routes the servers told in this discovery
  slipped,     \* history: servers with a frame too many on its way
  misused      \* history: servers that got a request the protocol forbids,
               \* without having slipped

manager == <<task, step, queue, tool, asked, initialized, index, nextId, result>>
servers == <<process, inbox, outbox, greeted>>
history == <<calls, paged, unasked, listed, slipped, misused>>
vars    == <<manager, servers, history>>

Route(s, t) == [name |-> NameOf[<<s, t>>], server |-> s, tool |-> t]
Unasked == [id |-> 0, method |-> "none"]
Failure == [kind |-> "failure"]
Current == Head(queue)

Init ==
  /\ task = "none" /\ step = "idle" /\ queue = <<>> /\ asked = Unasked
  /\ tool = (CHOOSE t \in Tools : TRUE)
  /\ index = {} /\ nextId = 1 /\ result = Failure
  /\ process = [s \in Servers |-> "none"]
  /\ initialized = [s \in Servers |-> FALSE]
  /\ inbox = [s \in Servers |-> <<>>] /\ outbox = [s \in Servers |-> <<>>]
  /\ \E b \in Budgets : calls = b.calls /\ paged = b.paged /\ unasked = b.unasked
  /\ greeted = {}
  /\ listed = {} /\ slipped = {} /\ misused = {}

(* A method begins with the servers it visits, and ends with its result.   *)
Begin(kind, where, visits) ==
  /\ step = "idle" /\ calls > 0
  /\ calls' = calls - 1 /\ listed' = {}
  /\ task' = kind /\ step' = where /\ queue' = visits
  /\ UNCHANGED <<asked, initialized, index, nextId, result, servers, paged,
                 unasked, slipped, misused>>

End(what) ==
  /\ task' = "none" /\ step' = "idle" /\ queue' = <<>> /\ asked' = Unasked
  /\ result' = what

DiscoverTools ==
  /\ Begin("discover", IF Order = <<>> THEN "idle" ELSE "ready", Order)
  /\ UNCHANGED tool

(* A name without a route is refused at once, which changes nothing.       *)
CallTool(name) ==
  \E r \in index :
    /\ r.name = name
    /\ Begin("call", "ready", <<r.server>>)
    /\ tool' = r.tool

Shutdown ==
  /\ Begin("shutdown", IF Order = <<>> THEN "idle" ELSE "stop", Order)
  /\ UNCHANGED tool

(***************************************************************************)
(* ensure_server_ready                                                     *)
(***************************************************************************)
(* A new process, and a stopped one, is not initialized.                   *)
FlagsWithout(s) == [initialized EXCEPT ![s] = FALSE]

(* A process that is there counts as running, dead or not.                 *)
Spawn ==
  /\ step = "ready" /\ process[Current] = "none"
  /\ process' = [process EXCEPT ![Current] = "up"]
  /\ initialized' = FlagsWithout(Current)
  /\ UNCHANGED <<task, step, queue, tool, asked, index, nextId, result, inbox,
                 outbox, greeted, history>>

SpawnFails ==
  /\ step = "ready" /\ process[Current] = "none"
  /\ End(Failure)
  /\ UNCHANGED <<tool, initialized, index, nextId, servers, history>>

(* The routes kept when the listing of a server begins.                    *)
RoutesKept(s) == {r \in index : r.server # s}

Continue ==
  /\ step = "ready" /\ process[Current] # "none"
  /\ \/ ~initialized[Current] /\ step' = "initialize" /\ UNCHANGED index
     \/ initialized[Current] /\ task = "call" /\ step' = "call" /\ UNCHANGED index
     \/ /\ initialized[Current] /\ task # "call"
        /\ step' = "list" /\ index' = RoutesKept(Current)
  /\ UNCHANGED <<task, queue, tool, asked, initialized, nextId, result, servers,
                 history>>

(***************************************************************************)
(* request: write, then read one frame.                                    *)
(***************************************************************************)
Requesting == step \in {"initialize", "list", "call"}

(* take_request_id: the last id is taken again and again.                  *)
TakeRequestId == IF nextId < MaxId THEN nextId + 1 ELSE nextId

(* What is written; first, a write that is tried twice.                    *)
Twice(request) == <<request, request>>
Once(request)  == <<request>>
Written(request) == Once(request)

(* initialize comes first, and once it was answered never again.           *)
Allowed(s, method) == method = "initialize" <=> s \notin greeted

Send ==
  /\ Requesting /\ process[Current] = "up"
  /\ LET request == [id |-> nextId, method |-> step]
     IN /\ asked' = request
        /\ inbox' = [inbox EXCEPT ![Current] = @ \o Written(request)]
        /\ misused' = IF Allowed(Current, step) \/ Current \in slipped
                          THEN misused ELSE misused \cup {Current}
  /\ nextId' = TakeRequestId
  /\ step' = "read"
  /\ UNCHANGED <<task, queue, tool, initialized, index, result, process, outbox,
                 greeted, calls, paged, unasked, listed, slipped>>

SendFails ==
  /\ Requesting /\ process[Current] = "dead"
  /\ nextId' = TakeRequestId
  /\ End(Failure)
  /\ UNCHANGED <<tool, initialized, index, servers, history>>

Frame == Head(outbox[Current])
Read ==
  /\ step = "read" /\ outbox[Current] # <<>>
  /\ outbox' = [outbox EXCEPT ![Current] = Tail(@)]
  /\ UNCHANGED <<tool, nextId, process, inbox, greeted, calls, paged, unasked,
                 slipped, misused>>

(* A result is read as the result of the method asked for: an answer to    *)
(* another method lacks its fields, but all fields of a tool's result are  *)
(* optional, so anything is one.                                           *)
HasResult ==
  /\ Frame.kind = "result"
  /\ asked.method \in {"call", Frame.method}

ReadInitialized ==
  /\ Read
  /\ asked.method = "initialize" /\ HasResult
  /\ initialized' = [initialized EXCEPT ![Current] = TRUE]
  /\ step' = "ready" /\ asked' = Unasked
  /\ UNCHANGED <<task, queue, index, result, listed>>

(* A route replaces another of the same name; of those of a page with the  *)
(* same name the one that comes last is left.                              *)
OnePerName(routes) ==
  {left \in SUBSET routes :
     /\ \A q, r \in left : q.name = r.name => q = r
     /\ \A r \in routes : \E q \in left : q.name = r.name}

Indexed(routes) ==
  {r \in index : \A q \in routes : q.name # r.name} \cup routes

ReadPage ==
  /\ Read
  /\ asked.method = "list" /\ HasResult
  /\ LET routes == {Route(Current, t) : t \in Frame.tools}
     IN /\ \E left \in OnePerName(routes) : index' = Indexed(left)
        /\ listed' = listed \cup routes
  /\ \/ /\ Frame.more
        /\ step' = "list" /\ asked' = Unasked
        /\ UNCHANGED <<task, queue, result>>
     \/ /\ ~Frame.more /\ Len(queue) > 1
        /\ step' = "ready" /\ queue' = Tail(queue) /\ asked' = Unasked
        /\ UNCHANGED <<task, result>>
     \/ ~Frame.more /\ Len(queue) <= 1 /\ End([kind |-> "tools"])
  /\ UNCHANGED initialized

(* A tool's answer is given to the caller: a result, an error, or neither. *)
ReadToolAnswer ==
  /\ Read
  /\ asked.method = "call" /\ Frame.kind # "noise"
  /\ End([kind |-> "answer", to |-> asked.id, id |-> Frame.id,
          inStep |-> Current \notin slipped])
  /\ UNCHANGED <<initialized, index, listed>>

(* An error, neither result nor error, or what cannot be read.             *)
ReadFailure ==
  /\ Read
  /\ IF asked.method = "call" THEN Frame.kind = "noise" ELSE ~HasResult
  /\ End(Failure)
  /\ UNCHANGED <<initialized, index, listed>>

(* The end of the pipe; first, one that reads as nothing yet.              *)
EndUnnoticed(s) == FALSE
EndReached(s) == process[s] = "dead" /\ outbox[s] = <<>>
AtEnd(s) == EndReached(s)

ReadEnd ==
  /\ step = "read" /\ AtEnd(Current)
  /\ End(Failure)
  /\ UNCHANGED <<tool, initialized, index, nextId, servers, history>>

(***************************************************************************)
(* shutdown, one server after the other.                                   *)
(***************************************************************************)
StopServer ==
  /\ step = "stop"
  /\ process' = [process EXCEPT ![Current] = "none"]
  /\ inbox' = [inbox EXCEPT ![Current] = <<>>]
  /\ outbox' = [outbox EXCEPT ![Current] = <<>>]
  /\ greeted' = greeted \ {Current} /\ slipped' = slipped \ {Current}
  /\ initialized' = FlagsWithout(Current)
  /\ IF Len(queue) > 1
       THEN queue' = Tail(queue) /\ UNCHANGED <<task, step, asked, result>>
       ELSE End([kind |-> "stopped"])
  /\ UNCHANGED <<tool, index, nextId, calls, paged, unasked, listed, misused>>

(* The process cannot be waited for or killed, or the future is dropped.   *)
StopFails ==
  /\ step = "stop" /\ process[Current] # "none"
  /\ End(Failure)
  /\ UNCHANGED <<tool, initialized, index, nextId, servers, history>>

(* The method's future is dropped while it waits for the server.           *)
Abandon ==
  /\ step = "read"
  /\ slipped' = slipped \cup {Current}
  /\ End(Failure)
  /\ UNCHANGED <<tool, initialized, index, nextId, servers, calls, paged,
                 unasked, listed, misused>>

ManagerStep ==
  \/ Spawn \/ SpawnFails \/ Continue \/ Send \/ SendFails
  \/ ReadInitialized \/ ReadPage \/ ReadToolAnswer \/ ReadFailure \/ ReadEnd
  \/ StopServer \/ StopFails

(***************************************************************************)
(* The servers: external.                                                  *)
(***************************************************************************)
Say(s, frame) ==
  /\ process[s] = "up"
  /\ outbox' = [outbox EXCEPT ![s] = Append(@, frame)]
  /\ UNCHANGED <<manager, process, calls, listed, misused>>

Answer(s, kind, tools, more) ==
  /\ inbox[s] # <<>>
  /\ LET request == Head(inbox[s])
     IN /\ request.method # "list" => tools = {} /\ ~more
        /\ Say(s, [kind |-> kind, id |-> request.id, method |-> request.method,
                   tools |-> tools, more |-> more])
        /\ greeted' = IF request.method = "initialize" /\ kind = "result"
                        THEN greeted \cup {s} ELSE greeted
  /\ more => paged
  /\ inbox' = [inbox EXCEPT ![s] = Tail(@)]
  /\ UNCHANGED <<paged, unasked, slipped>>

(* A notification, which has no id, or a request of the server's own.      *)
SayUnasked(s, kind) ==
  /\ unasked > 0
  /\ unasked' = unasked - 1
  /\ Say(s, [kind |-> kind, id |-> 0, method |-> "none", tools |-> {}, more |-> FALSE])
  /\ slipped' = slipped \cup {s}
  /\ UNCHANGED <<inbox, greeted, paged>>

Die(s) ==
  /\ process[s] = "up"
  /\ process' = [process EXCEPT ![s] = "dead"]
  /\ UNCHANGED <<manager, inbox, outbox, greeted, history>>

SomeAnswer(s) ==
  \/ \E tools \in SUBSET Tools, more \in BOOLEAN : Answer(s, "result", tools, more)
  \/ Answer(s, "error", {}, FALSE)

ServerStep(s) ==
  \/ SomeAnswer(s)
  \/ SayUnasked(s, "noise") \/ SayUnasked(s, "request")
  \/ Die(s)

Next ==
  \/ DiscoverTools \/ \E n \in Names : CallTool(n) \/ Shutdown
  \/ ManagerStep \/ Abandon
  \/ \E s \in Servers : ServerStep(s)

(* The method under way is polled; a server that lives answers.            *)
Fairness == WF_vars(ManagerStep) /\ \A s \in Servers : WF_vars(SomeAnswer(s))

Spec == Init /\ [][Next]_vars /\ Fairness

-----------------------------------------------------------------------------
Methods == {"initialize", "list", "call"}
Requests == [id : Nat, method : Methods]
Frames == [kind : {"result", "error", "noise", "request"}, id : Nat,
           method : Methods \cup {"none"}, tools : SUBSET Tools, more : BOOLEAN]
Routes == [name : Names, server : Servers, tool : Tools]

TypeOK ==
  /\ task \in {"none", "discover", "call", "shutdown"}
  /\ step \in Methods \cup {"idle", "ready", "read", "stop"}
  /\ queue \in Seq(Servers) /\ (step # "idle" => queue # <<>>)
  /\ tool \in Tools /\ asked \in Requests \cup {Unasked}
  /\ (step = "read" => asked \in Requests /\ asked.id <= nextId)
  /\ process \in [Servers -> {"none", "up", "dead"}]
  /\ initialized \in [Servers -> BOOLEAN]
  /\ index \subseteq Routes /\ listed \subseteq Routes
  /\ \A q, r \in index : q.name = r.name => q = r
  /\ nextId \in Nat
  /\ inbox \in [Servers -> Seq(Requests)] /\ outbox \in [Servers -> Seq(Frames)]
  /\ greeted \subseteq Servers /\ slipped \subseteq Servers
  /\ misused \subseteq Servers
  /\ result.kind \in {"failure", "tools", "answer", "stopped"}
  /\ calls \in Nat /\ paged \in BOOLEAN /\ unasked \in Nat

(* The answer a caller is given to his tool call is the answer to his tool *)
(* call, as long as no earlier call of the server was dropped while it     *)
(* waited and the server has sent nothing unasked since it was started:    *)
(* nothing is left in the pipe by any other failure.  And a server is      *)
(* initialized before anything else is asked of it, and not again once it  *)
(* is, with the same exception: the flag follows the process through       *)
(* failed starts, deaths and shutdowns.                                    *)
AnswerIsOwn ==
  /\ TypeOK
  /\ (result.kind = "answer" /\ result.inStep) => result.id = result.to
  /\ misused = {}

(* After a discovery that succeeded, the routes are those the servers told *)
(* this time, but for names two of them share: of these the last one wins. *)
RoutesMatchListing ==
  result.kind = "tools" /\ step = "idle" =>
    /\ index \subseteq listed
    /\ \A r \in listed : \E q \in index : q.name = r.name

(* What a caller learns of the servers is true of them: his answer, and    *)
(* which server has which tool.                                            *)
CallersAreTold == AnswerIsOwn /\ RoutesMatchListing

(* Every method ends, as long as servers that live answer: the death of a  *)
(* server ends the wait for it.  The exception is a server that has a      *)
(* further page whenever it is asked for one, for ever: nobody counts the  *)
(* pages of a listing.                                                     *)
MethodsEnd ==
  \/ []<><<ReadPage /\ step' = "list">>_vars
  \/ (step # "idle") ~> (step = "idle")
=============================================================================
