------------------------- MODULE Extensions_proofs -------------------------
(***************************************************************************)
(* Proofs about what extends the program.  Of McpServers: a caller is      *)
(* given the answer to his own call, the handshake is kept, and the routes *)
(* say what the last listing said -- for any servers, tools and names,     *)
(* whatever fails or dies.  Of PluginStore: whatever step of a command or  *)
(* of a sync fails or is the last the program does, files, registry and    *)
(* settings agree again as soon as a command, or a sync, succeeds -- for   *)
(* any plugins and versions.                                               *)
(***************************************************************************)
EXTENDS McpServers, PluginStore, SequenceTheorems, TLAPS

Tasks == {"none", "discover", "call", "shutdown"}
Steps == Methods \cup {"idle", "ready", "read", "stop"}

USE DEF Methods, Requests, Tasks, Steps

-----------------------------------------------------------------------------
LEMMA HeadAndTail ==
  ASSUME NEW S, NEW q \in Seq(S), q # <<>>
  PROVE  /\ Head(q) \in S /\ Tail(q) \in Seq(S)
         /\ Len(q) \in Nat \ {0} /\ (Len(q) > 1 <=> Tail(q) # <<>>)
<1>1. /\ Len(q) \in Nat \ {0} /\ Tail(q) \in Seq(S) /\ Len(Tail(q)) = Len(q) - 1
      /\ Head(q) \in S
  OBVIOUS
<1>2. Tail(q) = <<>> <=> Len(Tail(q)) = 0
  BY <1>1, EmptySeq
<1>. QED BY <1>1, <1>2

LEMMA CurrentType ==
  ASSUME TypeOK, step # "idle"
  PROVE  Current \in Servers
BY HeadAndTail DEF TypeOK, Current

LEMMA FrameType ==
  ASSUME TypeOK, step # "idle", outbox[Current] # <<>>
  PROVE  Frame \in Frames /\ Tail(outbox[Current]) \in Seq(Frames)
<1>1. outbox[Current] \in Seq(Frames)
  BY CurrentType DEF TypeOK
<1>. QED BY <1>1, HeadAndTail DEF Frame

LEMMA RouteType ==
  ASSUME NEW s \in Servers, NEW t \in Tools
  PROVE  Route(s, t) \in Routes /\ Route(s, t).server = s
<1>1. NameOf[<<s, t>>] \in Names
  BY McpAssumption
<1>. QED BY <1>1 DEF Route, Routes

LEMMA InitType == Init => TypeOK
<1> SUFFICES ASSUME Init PROVE TypeOK
  OBVIOUS
<1>1. tool \in Tools
  BY McpAssumption DEF Init
<1>2. calls \in Nat /\ paged \in BOOLEAN /\ unasked \in Nat
  BY McpAssumption DEF Init
<1>. QED BY <1>1, <1>2 DEF Init, TypeOK, Failure

(* The steps of a method that end it, or leave its servers alone.          *)
LEMMA BeginType ==
  ASSUME TypeOK, NEW kind \in Tasks, NEW where \in Steps \ {"read"}, NEW visits \in Seq(Servers),
         Begin(kind, where, visits), tool' \in Tools, where # "idle" => visits # <<>>
  PROVE  TypeOK'
BY DEF Begin, TypeOK, servers

LEMMA EndType ==
  ASSUME TypeOK, NEW what, what.kind \in {"failure", "tools", "answer", "stopped"}, End(what)
  PROVE  /\ task' \in Tasks /\ step' = "idle" /\ queue' \in Seq(Servers)
         /\ asked' = Unasked /\ result' = what
         /\ result'.kind \in {"failure", "tools", "answer", "stopped"}
BY EmptySeq DEF End

LEMMA PageType ==
  ASSUME TypeOK, ReadPage
  PROVE  /\ index' \subseteq Routes /\ listed' \subseteq Routes
         /\ \A q, r \in index' : q.name = r.name => q = r
<1> DEFINE routes == {Route(Current, t) : t \in Frame.tools}
<1>1. routes \subseteq Routes
  <2>1. Frame.tools \subseteq Tools /\ Current \in Servers
    BY FrameType, CurrentType DEF ReadPage, Read, Frames
  <2>. QED BY <2>1, RouteType
<1> HIDE DEF routes
<1>2. PICK left \in OnePerName(routes) : index' = Indexed(left) /\ listed' = listed \cup routes
  BY DEF ReadPage, routes
<1>3. left \subseteq routes /\ \A q, r \in left : q.name = r.name => q = r
  BY <1>2 DEF OnePerName
<1>. QED BY <1>1, <1>2, <1>3 DEF Indexed, TypeOK

LEMMA NextType == TypeOK /\ [Next]_vars => TypeOK'
<1> SUFFICES ASSUME TypeOK, [Next]_vars PROVE TypeOK'
  OBVIOUS
<1>0. Order \in Seq(Servers) /\ <<>> \in Seq(Servers)
  BY McpAssumption
<1>1. CASE DiscoverTools
  BY <1>0, <1>1, BeginType DEF DiscoverTools, TypeOK
<1>2. ASSUME NEW n \in Names, CallTool(n) PROVE TypeOK'
  <2>1. PICK r \in index : Begin("call", "ready", <<r.server>>) /\ tool' = r.tool
    BY <1>2 DEF CallTool
  <2>2. r.server \in Servers /\ r.tool \in Tools
    BY DEF TypeOK, Routes
  <2>3. <<r.server>> \in Seq(Servers) /\ <<r.server>> # <<>>
    BY <2>2
  <2>. QED BY <2>1, <2>2, <2>3, BeginType
<1>3. CASE Shutdown
  BY <1>0, <1>3, BeginType DEF Shutdown, TypeOK
<1>4. CASE Spawn
  BY <1>4, CurrentType DEF Spawn, FlagsWithout, TypeOK, history
<1>5. CASE SpawnFails \/ SendFails \/ ReadEnd \/ StopFails
  <2>1. End(Failure) /\ nextId' \in {nextId, TakeRequestId} /\ UNCHANGED <<tool, initialized, index, servers, history>>
    BY <1>5 DEF SpawnFails, SendFails, ReadEnd, StopFails, TypeOK
  <2>2. Failure.kind \in {"failure", "tools", "answer", "stopped"}
    BY DEF Failure
  <2>3. TakeRequestId \in Nat
    BY DEF TypeOK, TakeRequestId
  <2>. QED BY <2>1, <2>2, <2>3, EndType DEF TypeOK, servers, history
<1>6. CASE Continue
  <2>1. step' \in {"initialize", "call", "list"} /\ index' \subseteq index
    BY <1>6 DEF Continue, RoutesKept
  <2>. QED BY <1>6, <2>1 DEF Continue, TypeOK, servers, history
<1>7. CASE Send
  <2>1. [id |-> nextId, method |-> step] \in Requests /\ Current \in Servers
    BY <1>7, CurrentType DEF Send, Requesting, TypeOK
  <2>2. inbox' \in [Servers -> Seq(Requests)]
    BY <1>7, <2>1 DEF Send, Written, Once, TypeOK
  <2>3. misused' \subseteq Servers
    BY <1>7, <2>1 DEF Send, TypeOK
  <2>4. nextId' \in Nat /\ nextId <= nextId'
    BY <1>7 DEF Send, TakeRequestId, TypeOK
  <2>. QED BY <1>7, <2>1, <2>2, <2>3, <2>4 DEF Send, Requesting, TypeOK
<1>8. ASSUME Read
      PROVE  outbox' \in [Servers -> Seq(Frames)] /\ Current \in Servers /\ step # "idle"
             /\ UNCHANGED <<tool, nextId, process, inbox, greeted, calls, paged, unasked,
                            slipped, misused>>
  BY <1>8, FrameType, CurrentType DEF Read, TypeOK
<1>9. CASE ReadInitialized
  BY <1>8, <1>9 DEF ReadInitialized, TypeOK
<1>10. CASE ReadPage
  <2>1. \/ step' = "list" /\ asked' = Unasked /\ UNCHANGED <<task, queue, result>>
        \/ Len(queue) > 1 /\ step' = "ready" /\ queue' = Tail(queue) /\ asked' = Unasked
           /\ UNCHANGED <<task, result>>
        \/ End([kind |-> "tools"])
    BY <1>10 DEF ReadPage
  <2>2. Len(queue) > 1 => Tail(queue) \in Seq(Servers) /\ Tail(queue) # <<>>
    BY <1>8, <1>10, HeadAndTail DEF ReadPage, TypeOK
  <2>3. UNCHANGED initialized
    BY <1>10 DEF ReadPage
  <2>4. /\ task' \in Tasks /\ step' \in {"list", "ready", "idle"} /\ queue' \in Seq(Servers)
        /\ (step' # "idle" => queue' # <<>>)
        /\ asked' = Unasked /\ result'.kind \in {"failure", "tools", "answer", "stopped"}
    <3>1. CASE step' = "list" /\ asked' = Unasked /\ UNCHANGED <<task, queue, result>>
      BY <1>8, <1>10, <3>1 DEF TypeOK, ReadPage
    <3>2. CASE Len(queue) > 1 /\ step' = "ready" /\ queue' = Tail(queue) /\ asked' = Unasked
               /\ UNCHANGED <<task, result>>
      BY <2>2, <3>2 DEF TypeOK
    <3>3. CASE End([kind |-> "tools"])
      BY <3>3, EmptySeq DEF End
    <3>. QED BY <2>1, <3>1, <3>2, <3>3
  <2>. QED BY <1>8, <1>10, <2>3, <2>4, PageType DEF ReadPage, TypeOK
<1>11. CASE ReadToolAnswer \/ ReadFailure
  <2>1. /\ task' \in Tasks /\ step' = "idle" /\ queue' \in Seq(Servers) /\ asked' = Unasked
        /\ result'.kind \in {"failure", "answer"}
        /\ UNCHANGED <<initialized, index, listed>>
    <3>1. CASE ReadToolAnswer
      <4> DEFINE what == [kind |-> "answer", to |-> asked.id, id |-> Frame.id,
                          inStep |-> Current \notin slipped]
      <4>1. End(what) /\ UNCHANGED <<initialized, index, listed>>
        BY <3>1 DEF ReadToolAnswer
      <4>2. what.kind = "answer"
        OBVIOUS
      <4> HIDE DEF what
      <4>. QED BY <4>1, <4>2, EmptySeq DEF End
    <3>2. CASE ReadFailure
      BY <3>2, EmptySeq DEF ReadFailure, Failure, End
    <3>. QED BY <1>11, <3>1, <3>2
  <2>2. Read
    BY <1>11 DEF ReadToolAnswer, ReadFailure
  <2>3. /\ task' \in {"none", "discover", "call", "shutdown"}
        /\ result'.kind \in {"failure", "tools", "answer", "stopped"}
    BY <2>1
  <2>. QED BY <1>8, <2>1, <2>2, <2>3 DEF TypeOK
<1>12. CASE StopServer
  <2>1. Current \in Servers /\ queue # <<>> /\ queue \in Seq(Servers)
    BY <1>12, CurrentType DEF StopServer, TypeOK
  <2>2. \/ Len(queue) > 1 /\ queue' = Tail(queue) /\ UNCHANGED <<task, step, asked, result>>
        \/ End([kind |-> "stopped"])
    BY <1>12 DEF StopServer
  <2>3. /\ task' \in Tasks /\ step' \in {"stop", "idle"} /\ queue' \in Seq(Servers)
        /\ (step' # "idle" => queue' # <<>>)
        /\ asked' \in Requests \cup {Unasked}
        /\ result'.kind \in {"failure", "tools", "answer", "stopped"}
    <3>1. CASE Len(queue) > 1 /\ queue' = Tail(queue) /\ UNCHANGED <<task, step, asked, result>>
      BY <1>12, <2>1, <3>1, HeadAndTail DEF StopServer, TypeOK
    <3>2. CASE End([kind |-> "stopped"])
      BY <3>2, EmptySeq DEF End
    <3>. QED BY <2>2, <3>1, <3>2
  <2>. QED BY <1>12, <2>1, <2>3 DEF StopServer, FlagsWithout, TypeOK
<1>13. CASE Abandon
  <2>1. Failure.kind \in {"failure", "tools", "answer", "stopped"}
    BY DEF Failure
  <2>. QED BY <1>13, <2>1, CurrentType, EndType DEF Abandon, TypeOK, servers
<1>14. ASSUME NEW s \in Servers, NEW kind \in {"result", "error"}, NEW tools \in SUBSET Tools,
              NEW more \in BOOLEAN, Answer(s, kind, tools, more)
       PROVE  TypeOK'
  <2> DEFINE request == Head(inbox[s])
             f == [kind |-> kind, id |-> request.id, method |-> request.method,
                   tools |-> tools, more |-> more]
  <2>1. inbox[s] \in Seq(Requests) /\ inbox[s] # <<>>
    BY <1>14 DEF Answer, TypeOK
  <2>2. request \in Requests /\ Tail(inbox[s]) \in Seq(Requests)
    BY <2>1, HeadAndTail
  <2>3. f \in Frames
    BY <2>2 DEF Frames
  <2>4. outbox' = [outbox EXCEPT ![s] = Append(@, f)]
    BY <1>14 DEF Answer, Say
  <2> HIDE DEF f
  <2>5. outbox' \in [Servers -> Seq(Frames)]
    BY <2>3, <2>4 DEF TypeOK
  <2>6. inbox' \in [Servers -> Seq(Requests)] /\ greeted' \subseteq Servers /\ paged' \in BOOLEAN
    BY <1>14, <2>2 DEF Answer, TypeOK
  <2>. QED BY <1>14, <2>5, <2>6 DEF Answer, Say, manager, TypeOK
<1>15. ASSUME NEW s \in Servers, NEW kind \in {"noise", "request"}, SayUnasked(s, kind)
       PROVE  TypeOK'
  <2> DEFINE f == [kind |-> kind, id |-> 0, method |-> "none", tools |-> {}, more |-> FALSE]
  <2>1. f \in Frames
    BY DEF Frames
  <2>2. outbox' = [outbox EXCEPT ![s] = Append(@, f)]
    BY <1>15 DEF SayUnasked, Say
  <2> HIDE DEF f
  <2>3. outbox' \in [Servers -> Seq(Frames)]
    BY <2>1, <2>2 DEF TypeOK
  <2>. QED BY <1>15, <2>3 DEF SayUnasked, Say, manager, TypeOK
<1>16. ASSUME NEW s \in Servers, Die(s) PROVE TypeOK'
  BY <1>16 DEF Die, manager, history, TypeOK
<1>17. CASE UNCHANGED vars
  BY <1>17 DEF vars, manager, servers, history, TypeOK
<1>18. ASSUME NEW s \in Servers, ServerStep(s) PROVE TypeOK'
  BY <1>14, <1>15, <1>16, <1>18 DEF ServerStep, SomeAnswer
<1>. QED
  BY <1>1, <1>2, <1>3, <1>4, <1>5, <1>6, <1>7, <1>9, <1>10, <1>11, <1>12, <1>13, <1>17, <1>18
  DEF Next, ManagerStep

(* The types of the manager's state and of the pipes, in every behaviour.  *)
THEOREM McpTypeCorrect == Spec => []TypeOK
BY InitType, NextType, PTL DEF Spec

-----------------------------------------------------------------------------
(* The pipes of a server that has not slipped: while nobody waits for it   *)
(* they are empty, but for a request a dead server will never read; while  *)
(* the manager waits they hold its request or the answer to it.  And the   *)
(* manager's flag is what the server remembers, but for the moment between *)
(* the answer to initialize and its reading.                               *)
Agreed(s) == initialized[s] <=> s \in greeted

QuietPipes(s) ==
  /\ outbox[s] = <<>> /\ (process[s] = "up" => inbox[s] = <<>>)
  /\ Agreed(s)

AnswersAsked(f) ==
  f \in Frames /\ f.kind \in {"result", "error"} /\ f.id = asked.id /\ f.method = asked.method

Greets(f) == f.method = "initialize" /\ f.kind = "result"

AskedPipes(s) == outbox[s] = <<>> /\ inbox[s] = <<asked>> /\ Agreed(s)
AnsweredPipes(s) ==
  \E f \in Frames :
    /\ AnswersAsked(f) /\ outbox[s] = <<f>> /\ inbox[s] = <<>>
    /\ Greets(f) => s \in greeted
    /\ ~Greets(f) => Agreed(s)

Awaited(s) == step = "read" /\ s = Current

PipesInv ==
  \A s \in Servers : s \notin slipped =>
    /\ Awaited(s) => AskedPipes(s) \/ AnsweredPipes(s)
    /\ ~Awaited(s) => QuietPipes(s)

(* A server without a process knows nothing and is sent nothing.           *)
AbsentInv ==
  \A s \in Servers : process[s] = "none" =>
    inbox[s] = <<>> /\ outbox[s] = <<>> /\ s \notin greeted /\ ~initialized[s]

(* Requests go to a process, initialize to one that is not initialized,    *)
(* all others to one that is; only a discovery lists, only a shutdown      *)
(* stops.                                                                  *)
Listing == step = "list" \/ (step = "read" /\ asked.method = "list")

StepInv ==
  /\ step \in Methods \cup {"read"} => process[Current] # "none"
  /\ step = "initialize" => ~initialized[Current]
  /\ step \in {"list", "call"} => initialized[Current]
  /\ step = "read" => (asked.method = "initialize" <=> ~initialized[Current])
  /\ step \in Methods \cup {"read", "ready"} => task \in {"discover", "call"}
  /\ Listing => task = "discover"
  /\ step = "stop" => task = "shutdown"

OwnInv ==
  /\ (result.kind = "answer" /\ result.inStep) => result.id = result.to
  /\ misused = {}

InStepInv == PipesInv /\ AbsentInv /\ StepInv /\ OwnInv

(* What the first frame of a server in step is.                            *)
LEMMA FrameAnswers ==
  ASSUME TypeOK, InStepInv, Read, Current \notin slipped
  PROVE  /\ AnswersAsked(Frame)
         /\ outbox'[Current] = <<>> /\ inbox'[Current] = <<>>
         /\ Greets(Frame) => Current \in greeted
         /\ ~Greets(Frame) => Agreed(Current)
<1>1. Current \in Servers /\ Awaited(Current) /\ outbox[Current] # <<>>
  BY CurrentType DEF Read, Awaited
<1>2. AnsweredPipes(Current)
  BY <1>1 DEF InStepInv, PipesInv, AskedPipes
<1>3. PICK f \in Frames : /\ AnswersAsked(f) /\ outbox[Current] = <<f>> /\ inbox[Current] = <<>>
                          /\ Greets(f) => Current \in greeted
                          /\ ~Greets(f) => Agreed(Current)
  BY <1>2 DEF AnsweredPipes
<1>4. Frame = f /\ Tail(outbox[Current]) = <<>>
  BY <1>3 DEF Frame
<1>5. outbox'[Current] = Tail(outbox[Current]) /\ inbox' = inbox
  BY <1>1 DEF Read, TypeOK
<1>. QED BY <1>3, <1>4, <1>5

(* A step that touches no pipe and changes no flag keeps the pipes, if     *)
(* nobody is waiting before or after.                                      *)
LEMMA PipesKept ==
  ASSUME TypeOK, PipesInv, step # "read", step' # "read",
         UNCHANGED <<process, inbox, outbox, greeted, initialized, slipped>>
  PROVE  PipesInv'
BY DEF PipesInv, Awaited, QuietPipes, Agreed

LEMMA InitInStep == Init => InStepInv
BY DEF Init, InStepInv, PipesInv, AbsentInv, StepInv, OwnInv, Awaited, QuietPipes, Agreed,
       Listing, Failure

(* A method that begins finds the pipes quiet.                             *)
LEMMA BeginInStep ==
  ASSUME TypeOK, InStepInv, NEW kind \in Tasks, NEW where \in {"idle", "ready", "stop"},
         NEW visits, Begin(kind, where, visits),
         where = "ready" => kind \in {"discover", "call"}, where = "stop" => kind = "shutdown"
  PROVE  InStepInv'
<1>1. PipesInv'
  BY PipesKept DEF Begin, servers, InStepInv
<1>. QED BY <1>1 DEF Begin, servers, InStepInv, AbsentInv, StepInv, OwnInv, Listing

(* A method that fails before it waits, or is failed to be stopped.        *)
LEMMA FailureInStep ==
  ASSUME TypeOK, InStepInv, step # "read", End(Failure),
         UNCHANGED <<initialized, servers, slipped, misused>>
  PROVE  InStepInv'
<1>1. PipesInv'
  BY PipesKept DEF End, servers, InStepInv
<1>. QED BY <1>1 DEF End, Failure, servers, InStepInv, AbsentInv, StepInv, OwnInv, Listing

LEMMA SpawnInStep == TypeOK /\ InStepInv /\ Spawn => InStepInv'
<1> SUFFICES ASSUME TypeOK, InStepInv, Spawn PROVE InStepInv'
  OBVIOUS
<1>1. /\ step = "ready" /\ Current \in Servers /\ process[Current] = "none"
      /\ step' = step /\ Current' = Current
      /\ process' = [process EXCEPT ![Current] = "up"]
      /\ initialized' = [initialized EXCEPT ![Current] = FALSE]
      /\ UNCHANGED <<inbox, outbox, greeted, slipped, misused, result, task, asked>>
  BY CurrentType DEF Spawn, FlagsWithout, Current, history
<1>2. \A s \in Servers : /\ process'[s] = IF s = Current THEN "up" ELSE process[s]
                         /\ initialized'[s] = IF s = Current THEN FALSE ELSE initialized[s]
  BY <1>1 DEF TypeOK
<1>3. PipesInv'
  BY <1>1, <1>2 DEF InStepInv, PipesInv, AbsentInv, Awaited, QuietPipes, Agreed
<1>4. AbsentInv'
  BY <1>1, <1>2 DEF InStepInv, AbsentInv
<1>. QED BY <1>1, <1>2, <1>3, <1>4 DEF InStepInv, StepInv, OwnInv, Listing

LEMMA ContinueInStep == TypeOK /\ InStepInv /\ Continue => InStepInv'
<1> SUFFICES ASSUME TypeOK, InStepInv, Continue PROVE InStepInv'
  OBVIOUS
<1>1. /\ step = "ready" /\ process[Current] # "none" /\ Current' = Current
      /\ step' \in Methods
      /\ step' = "initialize" <=> ~initialized[Current]
      /\ step' = "list" => task # "call"
      /\ UNCHANGED <<task, asked, initialized, result, process, inbox, outbox, greeted,
                     slipped, misused>>
  BY DEF Continue, Current, servers, history
<1>2. PipesInv'
  BY <1>1, PipesKept DEF InStepInv
<1>. QED BY <1>1, <1>2 DEF InStepInv, AbsentInv, StepInv, OwnInv, Listing

(* The request is alone in the pipe.                                       *)
LEMMA SendInStep == TypeOK /\ InStepInv /\ Send => InStepInv'
<1> SUFFICES ASSUME TypeOK, InStepInv, Send PROVE InStepInv'
  OBVIOUS
<1>1. /\ step \in Methods /\ step' = "read" /\ Current' = Current /\ Current \in Servers
      /\ process[Current] = "up"
      /\ asked' = [id |-> nextId, method |-> step]
      /\ inbox' = [inbox EXCEPT ![Current] = @ \o <<asked'>>]
      /\ UNCHANGED <<task, initialized, result, process, outbox, greeted, slipped>>
  BY CurrentType DEF Send, Requesting, Written, Once, Current
<1>2. Current \notin slipped => QuietPipes(Current)
  BY <1>1 DEF InStepInv, PipesInv, Awaited
<1>3. \A s \in Servers \ {Current} : inbox'[s] = inbox[s]
  BY <1>1 DEF TypeOK
<1>4. Current \notin slipped => inbox'[Current] = <<asked'>>
  BY <1>1, <1>2 DEF QuietPipes, TypeOK
<1>5. PipesInv'
  BY <1>1, <1>2, <1>3, <1>4
  DEF InStepInv, PipesInv, Awaited, QuietPipes, AskedPipes, Agreed
<1>6. AbsentInv'
  BY <1>1, <1>3 DEF InStepInv, AbsentInv
<1>7. misused' = {}
  <2>1. Allowed(Current, step) \/ Current \in slipped
    BY <1>1, <1>2 DEF QuietPipes, Agreed, Allowed, InStepInv, StepInv
  <2>. QED BY <2>1 DEF Send, InStepInv, OwnInv
<1>8. asked'.method = step
  BY <1>1
<1>. QED BY <1>1, <1>5, <1>6, <1>7, <1>8 DEF InStepInv, StepInv, OwnInv, Listing

(* Reading leaves the pipes of the server quiet, if its flag is right.     *)
LEMMA ReadQuiets ==
  ASSUME TypeOK, InStepInv, Read, step' # "read",
         \A s \in Servers \ {Current} : initialized'[s] = initialized[s],
         Current \notin slipped => (initialized'[Current] <=> Current \in greeted')
  PROVE  PipesInv' /\ UNCHANGED <<process, inbox, greeted, slipped, misused>>
<1>1. /\ step = "read" /\ Current \in Servers
      /\ \A s \in Servers \ {Current} : outbox'[s] = outbox[s]
      /\ UNCHANGED <<process, inbox, greeted, slipped, misused>>
  BY CurrentType DEF Read, TypeOK
<1>2. Current \notin slipped => outbox'[Current] = <<>> /\ inbox'[Current] = <<>>
  BY FrameAnswers
<1> SUFFICES ASSUME NEW s \in Servers, s \notin slipped PROVE QuietPipes(s)'
  BY <1>1 DEF PipesInv, Awaited
<1>3. CASE s = Current
  BY <1>1, <1>2, <1>3 DEF QuietPipes, Agreed
<1>4. CASE s # Current
  BY <1>1, <1>4 DEF InStepInv, PipesInv, Awaited, QuietPipes, Agreed
<1>. QED BY <1>3, <1>4

LEMMA AbsentKept ==
  ASSUME TypeOK, InStepInv, Read,
         \A s \in Servers \ {Current} : initialized'[s] = initialized[s]
  PROVE  AbsentInv'
<1>1. /\ Current \in Servers /\ process[Current] # "none"
      /\ \A s \in Servers \ {Current} : outbox'[s] = outbox[s]
      /\ UNCHANGED <<process, inbox, greeted>>
  BY CurrentType DEF Read, InStepInv, StepInv, TypeOK
<1>. QED BY <1>1 DEF InStepInv, AbsentInv

LEMMA ReadInitializedInStep == TypeOK /\ InStepInv /\ ReadInitialized => InStepInv'
<1> SUFFICES ASSUME TypeOK, InStepInv, ReadInitialized PROVE InStepInv'
  OBVIOUS
<1>1. /\ Read /\ step = "read" /\ Current \in Servers /\ HasResult
      /\ asked.method = "initialize"
      /\ initialized' = [initialized EXCEPT ![Current] = TRUE]
      /\ step' = "ready" /\ asked' = Unasked
      /\ UNCHANGED <<task, queue, result>>
  BY CurrentType DEF ReadInitialized, Read
<1>2. Current \notin slipped => Current \in greeted
  BY <1>1, FrameAnswers DEF HasResult, Greets
<1>3. /\ \A s \in Servers \ {Current} : initialized'[s] = initialized[s]
      /\ initialized'[Current] /\ greeted' = greeted
  BY <1>1 DEF TypeOK, Read
<1>4. PipesInv' /\ UNCHANGED <<process, inbox, greeted, slipped, misused>>
  <2>1. Current \notin slipped => (initialized'[Current] <=> Current \in greeted')
    BY <1>2, <1>3
  <2>. QED BY <1>1, <1>3, <2>1, ReadQuiets
<1>5. AbsentInv'
  BY <1>1, <1>3, AbsentKept
<1>6. task \in {"discover", "call"}
  BY <1>1 DEF InStepInv, StepInv
<1>. QED BY <1>1, <1>4, <1>5, <1>6 DEF InStepInv, StepInv, OwnInv, Listing

(* Any other answer finds the flag right.                                  *)
LEMMA OtherAnswersQuiet ==
  ASSUME TypeOK, InStepInv, Read, step' # "read", UNCHANGED initialized,
         asked.method # "initialize" \/ Frame.kind # "result"
  PROVE  PipesInv' /\ AbsentInv' /\ UNCHANGED <<process, slipped, misused>>
<1>1. Current \notin slipped => Agreed(Current)
  BY FrameAnswers DEF AnswersAsked, Greets
<1>2. greeted' = greeted
  BY DEF Read
<1>3. \A s \in Servers \ {Current} : initialized'[s] = initialized[s]
  OBVIOUS
<1>4. Current \notin slipped => (initialized'[Current] <=> Current \in greeted')
  BY <1>1, <1>2 DEF Agreed
<1>. QED BY <1>3, <1>4, ReadQuiets, AbsentKept

LEMMA ReadPageInStep == TypeOK /\ InStepInv /\ ReadPage => InStepInv'
<1> SUFFICES ASSUME TypeOK, InStepInv, ReadPage PROVE InStepInv'
  OBVIOUS
<1>1. Read /\ step = "read" /\ asked.method = "list" /\ UNCHANGED initialized
  BY DEF ReadPage, Read
<1>2. \/ step' = "list" /\ asked' = Unasked /\ UNCHANGED <<task, queue, result>>
      \/ step' = "ready" /\ asked' = Unasked /\ UNCHANGED <<task, result>>
      \/ End([kind |-> "tools"])
  BY DEF ReadPage
<1>3. step' \in {"list", "ready", "idle"}
  BY <1>2 DEF End
<1>4. PipesInv' /\ AbsentInv' /\ UNCHANGED <<process, slipped, misused>>
  BY <1>1, <1>3, OtherAnswersQuiet
<1>5. task = "discover" /\ initialized[Current] /\ process[Current] # "none"
  BY <1>1 DEF InStepInv, StepInv, Listing
<1>6. CASE step' = "list" /\ asked' = Unasked /\ UNCHANGED <<task, queue, result>>
  <2>1. Current' = Current
    BY <1>6 DEF Current
  <2>. QED BY <1>1, <1>4, <1>5, <1>6, <2>1 DEF InStepInv, StepInv, OwnInv, Listing
<1>7. CASE step' = "ready" /\ asked' = Unasked /\ UNCHANGED <<task, result>>
  BY <1>4, <1>5, <1>7 DEF InStepInv, StepInv, OwnInv, Listing
<1>8. CASE End([kind |-> "tools"])
  <2>1. step' = "idle" /\ result'.kind = "tools"
    BY <1>8 DEF End
  <2>. QED BY <1>4, <2>1 DEF InStepInv, StepInv, OwnInv, Listing
<1>. QED BY <1>2, <1>6, <1>7, <1>8

LEMMA ReadToolAnswerInStep == TypeOK /\ InStepInv /\ ReadToolAnswer => InStepInv'
<1> SUFFICES ASSUME TypeOK, InStepInv, ReadToolAnswer PROVE InStepInv'
  OBVIOUS
<1> DEFINE what == [kind |-> "answer", to |-> asked.id, id |-> Frame.id,
                    inStep |-> Current \notin slipped]
<1>1. Read /\ asked.method = "call" /\ UNCHANGED initialized /\ End(what)
  BY DEF ReadToolAnswer
<1>2. step' = "idle" /\ result' = what
  BY <1>1 DEF End
<1>3. PipesInv' /\ AbsentInv' /\ UNCHANGED <<process, slipped, misused>>
  BY <1>1, <1>2, OtherAnswersQuiet
<1>4. Current \notin slipped => Frame.id = asked.id
  BY <1>1, FrameAnswers DEF AnswersAsked
<1>5. (result'.inStep) => result'.id = result'.to
  BY <1>2, <1>4
<1> HIDE DEF what
<1>. QED BY <1>2, <1>3, <1>5 DEF InStepInv, StepInv, OwnInv, Listing

LEMMA ReadFailureInStep == TypeOK /\ InStepInv /\ ReadFailure => InStepInv'
<1> SUFFICES ASSUME TypeOK, InStepInv, ReadFailure PROVE InStepInv'
  OBVIOUS
<1>1. /\ Read /\ UNCHANGED initialized /\ step' = "idle" /\ result'.kind = "failure"
      /\ asked.method # "call" => ~HasResult
  BY DEF ReadFailure, End, Failure
<1>2. \A s \in Servers \ {Current} : initialized'[s] = initialized[s]
  BY <1>1
<1>3. Current \notin slipped => (initialized'[Current] <=> Current \in greeted')
  <2> SUFFICES ASSUME Current \notin slipped PROVE Agreed(Current)
    BY <1>1 DEF Agreed, Read
  <2>1. /\ Frame.method = asked.method
        /\ ~Greets(Frame) => Agreed(Current)
    BY <1>1, FrameAnswers DEF AnswersAsked
  <2>2. ~Greets(Frame)
    BY <1>1, <2>1 DEF Greets, HasResult
  <2>. QED BY <2>1, <2>2
<1>4. step' # "read"
  BY <1>1
<1>5. PipesInv' /\ AbsentInv' /\ UNCHANGED <<process, slipped, misused>>
  BY <1>1, <1>2, <1>3, <1>4, ReadQuiets, AbsentKept
<1>. QED BY <1>1, <1>5 DEF InStepInv, StepInv, OwnInv, Listing

(* The end of the pipe is read, or the method is dropped: nobody waits for *)
(* the server any more; it is dead, or has slipped.                        *)
LEMMA LeftInStep ==
  ASSUME TypeOK, InStepInv, step = "read", End(Failure),
         UNCHANGED <<initialized, servers, misused>>,
         slipped' = slipped \/ slipped' = slipped \cup {Current},
         Current \notin slipped' => process[Current] = "dead" /\ outbox[Current] = <<>>
  PROVE  InStepInv'
<1>1. Current \in Servers /\ step' = "idle" /\ result'.kind = "failure"
  BY CurrentType DEF End, Failure
<1>2. PipesInv'
  <2> SUFFICES ASSUME NEW s \in Servers, s \notin slipped' PROVE QuietPipes(s)'
    BY <1>1 DEF PipesInv, Awaited
  <2>1. CASE s # Current
    BY <2>1 DEF servers, InStepInv, PipesInv, Awaited, QuietPipes, Agreed
  <2>2. CASE s = Current
    <3>1. AskedPipes(s) \/ AnsweredPipes(s)
      BY <2>2 DEF InStepInv, PipesInv, Awaited
    <3>2. ~AnsweredPipes(s)
      BY <2>2 DEF AnsweredPipes
    <3>. QED BY <2>2, <3>1, <3>2 DEF AskedPipes, QuietPipes, Agreed, servers
  <2>. QED BY <2>1, <2>2
<1>. QED BY <1>1, <1>2 DEF servers, InStepInv, AbsentInv, StepInv, OwnInv, Listing

LEMMA StopServerInStep == TypeOK /\ InStepInv /\ StopServer => InStepInv'
<1> SUFFICES ASSUME TypeOK, InStepInv, StopServer PROVE InStepInv'
  OBVIOUS
<1>1. /\ step = "stop" /\ Current \in Servers
      /\ process' = [process EXCEPT ![Current] = "none"]
      /\ inbox' = [inbox EXCEPT ![Current] = <<>>]
      /\ outbox' = [outbox EXCEPT ![Current] = <<>>]
      /\ initialized' = [initialized EXCEPT ![Current] = FALSE]
      /\ greeted' = greeted \ {Current} /\ slipped' = slipped \ {Current}
      /\ misused' = misused
  BY CurrentType DEF StopServer, FlagsWithout
<1>2. /\ step' = "idle" \/ (step' = "stop" /\ task' = task)
      /\ result' = result \/ result'.kind = "stopped"
  BY DEF StopServer, End
<1>3. /\ process'[Current] = "none" /\ inbox'[Current] = <<>> /\ outbox'[Current] = <<>>
      /\ ~initialized'[Current]
      /\ \A s \in Servers \ {Current} :
           /\ process'[s] = process[s] /\ inbox'[s] = inbox[s] /\ outbox'[s] = outbox[s]
           /\ initialized'[s] = initialized[s]
  BY <1>1 DEF TypeOK
<1>4. PipesInv'
  <2> SUFFICES ASSUME NEW s \in Servers, s \notin slipped' PROVE QuietPipes(s)'
    BY <1>2 DEF PipesInv, Awaited
  <2>1. CASE s = Current
    BY <1>1, <1>3, <2>1 DEF QuietPipes, Agreed
  <2>2. CASE s # Current
    BY <1>1, <1>3, <2>2 DEF InStepInv, PipesInv, Awaited, QuietPipes, Agreed
  <2>. QED BY <2>1, <2>2
<1>5. AbsentInv'
  BY <1>1, <1>3 DEF InStepInv, AbsentInv
<1>. QED BY <1>1, <1>2, <1>4, <1>5 DEF InStepInv, StepInv, OwnInv, Listing

(* A server answers only what it was asked, so one in step answers the     *)
(* request the manager waits for.                                          *)
LEMMA AnswerInStep ==
  ASSUME TypeOK, InStepInv, NEW s \in Servers, NEW kind \in {"result", "error"},
         NEW tools \in SUBSET Tools, NEW more \in BOOLEAN, Answer(s, kind, tools, more)
  PROVE  InStepInv'
<1>1. inbox[s] \in Seq(Requests) /\ inbox[s] # <<>> /\ process[s] = "up"
  BY DEF Answer, Say, TypeOK
<1>2. PICK request \in Requests : request = Head(inbox[s])
  BY <1>1, HeadAndTail
<1>3. PICK f \in Frames :
        f = [kind |-> kind, id |-> request.id, method |-> request.method,
             tools |-> tools, more |-> more]
  BY DEF Frames
<1>4. /\ outbox' = [outbox EXCEPT ![s] = Append(@, f)]
      /\ inbox' = [inbox EXCEPT ![s] = Tail(@)]
      /\ greeted' = IF request.method = "initialize" /\ kind = "result"
                      THEN greeted \cup {s} ELSE greeted
      /\ UNCHANGED <<manager, process, slipped, misused>>
  BY <1>2, <1>3 DEF Answer, Say
<1>5. /\ outbox'[s] = Append(outbox[s], f) /\ inbox'[s] = Tail(inbox[s])
      /\ \A t \in Servers \ {s} : outbox'[t] = outbox[t] /\ inbox'[t] = inbox[t]
                                  /\ (t \in greeted' <=> t \in greeted)
  BY <1>4 DEF TypeOK
<1>6. \A t \in Servers : Awaited(t)' <=> Awaited(t)
  BY <1>4 DEF manager, Awaited, Current
<1>7. ASSUME s \notin slipped PROVE Awaited(s) /\ AnsweredPipes(s)'
  <2>1. Awaited(s) /\ AskedPipes(s)
    BY <1>1, <1>7 DEF InStepInv, PipesInv, QuietPipes, AnsweredPipes
  <2>2. request = asked /\ Tail(inbox[s]) = <<>> /\ outbox[s] = <<>> /\ Agreed(s)
    BY <1>2, <2>1 DEF AskedPipes
  <2>3. f.kind = kind /\ f.id = asked'.id /\ f.method = asked'.method
    BY <1>3, <1>4, <2>2 DEF manager
  <2>4. outbox'[s] = <<f>> /\ inbox'[s] = <<>>
    BY <1>5, <2>2
  <2>5. Greets(f) => s \in greeted'
    BY <1>3, <1>4 DEF Greets
  <2>6. ~Greets(f) => Agreed(s)'
    BY <1>3, <1>4, <2>2 DEF Greets, Agreed, manager
  <2>. QED BY <2>1, <2>3, <2>4, <2>5, <2>6 DEF AnsweredPipes, AnswersAsked, Greets
<1>8. PipesInv'
  <2> SUFFICES ASSUME NEW t \in Servers, t \notin slipped
               PROVE  /\ Awaited(t) => (AskedPipes(t) \/ AnsweredPipes(t))'
                      /\ ~Awaited(t) => QuietPipes(t)'
    BY <1>4, <1>6 DEF PipesInv
  <2>1. CASE t = s
    BY <1>7, <2>1
  <2>2. CASE t # s
    <3>1. /\ Awaited(t) => AskedPipes(t) \/ AnsweredPipes(t)
          /\ ~Awaited(t) => QuietPipes(t)
      BY DEF InStepInv, PipesInv
    <3>2. Agreed(t)' <=> Agreed(t)
      BY <1>4, <1>5, <2>2 DEF manager, Agreed
    <3>3. QuietPipes(t) => QuietPipes(t)'
      BY <1>4, <1>5, <2>2, <3>2 DEF QuietPipes
    <3>4. AskedPipes(t) => AskedPipes(t)'
      BY <1>4, <1>5, <2>2, <3>2 DEF AskedPipes, manager
    <3>5. AnsweredPipes(t) => AnsweredPipes(t)'
      BY <1>4, <1>5, <2>2, <3>2 DEF AnsweredPipes, AnswersAsked, Greets, manager
    <3>. QED BY <3>1, <3>3, <3>4, <3>5
  <2>. QED BY <2>1, <2>2
<1>9. AbsentInv'
  BY <1>1, <1>4, <1>5 DEF manager, InStepInv, AbsentInv
<1>. QED BY <1>4, <1>8, <1>9 DEF manager, InStepInv, StepInv, OwnInv, Listing, Current

(* What a server says unasked makes it slip.                               *)
LEMMA UnaskedInStep ==
  ASSUME TypeOK, InStepInv, NEW s \in Servers, NEW kind \in {"noise", "request"},
         SayUnasked(s, kind)
  PROVE  InStepInv'
<1>1. /\ process[s] = "up" /\ slipped' = slipped \cup {s}
      /\ \A t \in Servers \ {s} : outbox'[t] = outbox[t]
      /\ UNCHANGED <<manager, process, inbox, greeted, misused>>
  BY DEF SayUnasked, Say, TypeOK
<1>2. PipesInv'
  BY <1>1 DEF manager, InStepInv, PipesInv, Awaited, QuietPipes, AskedPipes, AnsweredPipes,
     AnswersAsked, Agreed, Current
<1>3. AbsentInv'
  BY <1>1 DEF manager, InStepInv, AbsentInv
<1>. QED BY <1>1, <1>2, <1>3 DEF manager, InStepInv, StepInv, OwnInv, Listing, Current

LEMMA DieInStep ==
  ASSUME TypeOK, InStepInv, NEW s \in Servers, Die(s)
  PROVE  InStepInv'
<1>1. /\ process[s] = "up"
      /\ \A t \in Servers : process'[t] = IF t = s THEN "dead" ELSE process[t]
      /\ UNCHANGED <<manager, inbox, outbox, greeted, misused, slipped>>
  BY DEF Die, TypeOK, history
<1>2. PipesInv'
  BY <1>1 DEF manager, InStepInv, PipesInv, Awaited, QuietPipes, AskedPipes, AnsweredPipes,
     AnswersAsked, Agreed, Current
<1>3. AbsentInv'
  BY <1>1 DEF manager, InStepInv, AbsentInv
<1>4. step # "idle" => Current \in Servers
  BY CurrentType
<1>. QED BY <1>1, <1>2, <1>3, <1>4
         DEF manager, InStepInv, StepInv, OwnInv, Listing, Current, TypeOK

LEMMA InStepStep == TypeOK /\ InStepInv /\ [Next]_vars => InStepInv'
<1> SUFFICES ASSUME TypeOK, InStepInv, [Next]_vars PROVE InStepInv'
  OBVIOUS
<1>1. CASE DiscoverTools \/ Shutdown
  BY <1>1, BeginInStep DEF DiscoverTools, Shutdown
<1>2. ASSUME NEW n \in Names, CallTool(n) PROVE InStepInv'
  BY <1>2, BeginInStep DEF CallTool
<1>3. CASE SpawnFails \/ SendFails \/ StopFails
  BY <1>3, FailureInStep DEF SpawnFails, SendFails, StopFails, Requesting, history
<1>4. CASE Spawn \/ Continue \/ Send
  BY <1>4, SpawnInStep, ContinueInStep, SendInStep
<1>5. CASE ReadInitialized \/ ReadPage \/ ReadToolAnswer \/ ReadFailure
  BY <1>5, ReadInitializedInStep, ReadPageInStep, ReadToolAnswerInStep, ReadFailureInStep
<1>6. CASE ReadEnd
  BY <1>6, LeftInStep DEF ReadEnd, AtEnd, EndReached, history
<1>7. CASE Abandon
  BY <1>7, LeftInStep DEF Abandon
<1>8. CASE StopServer
  BY <1>8, StopServerInStep
<1>9. ASSUME NEW s \in Servers, ServerStep(s) PROVE InStepInv'
  BY <1>9, AnswerInStep, UnaskedInStep, DieInStep DEF ServerStep, SomeAnswer
<1>10. CASE UNCHANGED vars
  BY <1>10 DEF vars, manager, servers, history, InStepInv, PipesInv, AbsentInv, StepInv, OwnInv,
     Awaited, QuietPipes, AskedPipes, AnsweredPipes, AnswersAsked, Agreed, Listing, Current
<1>. QED
  BY <1>1, <1>2, <1>3, <1>4, <1>5, <1>6, <1>7, <1>8, <1>9, <1>10 DEF Next, ManagerStep

(* The pipes of a server that has not slipped hold the request waited for, *)
(* its answer, or nothing.                                                 *)
THEOREM PipesStayInStep == Spec => []InStepInv
BY InitInStep, InStepStep, McpTypeCorrect, PTL DEF Spec

(* A caller is given the answer to his own call, and the handshake is kept *)
(* with every server that has not slipped.                                 *)
THEOREM EveryAnswerIsOwn == Spec => []AnswerIsOwn
<1>1. TypeOK /\ InStepInv => AnswerIsOwn
  BY DEF InStepInv, OwnInv, AnswerIsOwn
<1>. QED BY <1>1, PipesStayInStep, McpTypeCorrect, PTL

-----------------------------------------------------------------------------
(* The routes during a discovery: those of the servers still to be listed  *)
(* are old ones, all others were told this time, and every name told this  *)
(* time has a route that was.                                              *)
Pending == IF Listing THEN Range(Tail(queue)) ELSE Range(queue)

NamesCovered == \A r \in listed : \E q \in index \cap listed : q.name = r.name

DiscoveryInv ==
  task = "discover" /\ step # "idle" =>
    /\ IsInjective(queue)
    /\ \A r \in listed : r.server \notin Pending
    /\ \A r \in index : r.server \in Pending \/ r \in listed
    /\ NamesCovered

RoutesInv == DiscoveryInv /\ RoutesMatchListing

LEMMA HeadIsApart ==
  ASSUME NEW S, NEW q \in Seq(S), q # <<>>
  PROVE  /\ Range(q) = {Head(q)} \cup Range(Tail(q))
         /\ IsInjective(q) => IsInjective(Tail(q)) /\ Head(q) \notin Range(Tail(q))
<1>1. /\ Len(q) \in Nat \ {0} /\ Tail(q) \in Seq(S) /\ Len(Tail(q)) = Len(q) - 1
      /\ Head(q) = q[1] /\ \A i \in 1..Len(Tail(q)) : Tail(q)[i] = q[i + 1]
  OBVIOUS
<1>2. DOMAIN q = 1..Len(q) /\ DOMAIN Tail(q) = 1..(Len(q) - 1)
  BY <1>1
<1>3. Range(q) \subseteq {Head(q)} \cup Range(Tail(q))
  <2> SUFFICES ASSUME NEW i \in 1..Len(q) PROVE q[i] = Head(q) \/ q[i] \in Range(Tail(q))
    BY <1>2 DEF Range
  <2>1. i # 1 => i - 1 \in DOMAIN Tail(q) /\ Tail(q)[i - 1] = q[i]
    BY <1>1, <1>2
  <2>. QED BY <1>1, <2>1 DEF Range
<1>4. \A j \in DOMAIN Tail(q) : j + 1 \in DOMAIN q /\ j + 1 # 1 /\ Tail(q)[j] = q[j + 1]
  BY <1>1, <1>2
<1>5. {Head(q)} \cup Range(Tail(q)) \subseteq Range(q)
  BY <1>1, <1>2, <1>4 DEF Range
<1>6. ASSUME IsInjective(q)
      PROVE  IsInjective(Tail(q)) /\ Head(q) \notin Range(Tail(q))
  <2>1. \A a, b \in DOMAIN q : q[a] = q[b] => a = b
    BY <1>6 DEF IsInjective
  <2>2. Head(q) \notin Range(Tail(q))
    BY <1>1, <1>2, <1>4, <2>1 DEF Range
  <2>3. ASSUME NEW a \in DOMAIN Tail(q), NEW b \in DOMAIN Tail(q), Tail(q)[a] = Tail(q)[b]
        PROVE  a = b
    <3>1. a + 1 = b + 1
      BY <1>4, <2>1, <2>3
    <3>. QED BY <1>1, <1>2, <3>1
  <2>. QED BY <2>2, <2>3 DEF IsInjective
<1>. QED BY <1>3, <1>5, <1>6

(* Without servers there are no routes.                                    *)
LEMMA NoServersNoRoutes ==
  ASSUME TypeOK, Order = <<>>
  PROVE  index = {}
BY DEF TypeOK, Routes, Servers, Range

LEMMA InitRoutes == Init => RoutesInv
BY DEF Init, Failure, RoutesInv, DiscoveryInv, RoutesMatchListing

LEMMA BeginRoutes ==
  ASSUME TypeOK, NEW kind \in {"discover", "shutdown"}, NEW where \in {"ready", "stop"},
         Begin(kind, IF Order = <<>> THEN "idle" ELSE where, Order)
  PROVE  RoutesInv'
<1>1. listed' = {} /\ index' = index /\ queue' = Order
      /\ step' = IF Order = <<>> THEN "idle" ELSE where
  BY DEF Begin
<1>2. CASE Order = <<>>
  BY <1>1, <1>2, NoServersNoRoutes DEF RoutesInv, DiscoveryInv, RoutesMatchListing
<1>3. CASE Order # <<>>
  <2>1. ~Listing' /\ step' # "idle"
    BY <1>1, <1>3 DEF Listing
  <2>2. Pending' = Servers
    BY <1>1, <2>1 DEF Pending, Servers
  <2>3. IsInjective(queue)'
    BY <1>1, McpAssumption
  <2>4. \A r \in index : r.server \in Servers
    BY DEF TypeOK, Routes
  <2>. QED BY <1>1, <2>1, <2>2, <2>3, <2>4
           DEF RoutesInv, DiscoveryInv, RoutesMatchListing, NamesCovered
<1>. QED BY <1>2, <1>3

(* A step that touches no route, and ends no listing.                      *)
LEMMA RoutesKeptByStep ==
  ASSUME RoutesInv, step # "idle", step' # "idle",
         UNCHANGED <<task, queue, index, listed>>, Listing' <=> Listing
  PROVE  RoutesInv'
BY DEF RoutesInv, DiscoveryInv, RoutesMatchListing, NamesCovered, Pending

(* A method that ends with anything but tools.                             *)
LEMMA EndRoutes ==
  ASSUME step' = "idle", result'.kind # "tools"
  PROVE  RoutesInv'
BY DEF RoutesInv, DiscoveryInv, RoutesMatchListing

LEMMA ContinueRoutes == TypeOK /\ RoutesInv /\ Continue => RoutesInv'
<1> SUFFICES ASSUME TypeOK, RoutesInv, Continue PROVE RoutesInv'
  OBVIOUS
<1>1. /\ step = "ready" /\ ~Listing /\ UNCHANGED <<task, queue, listed>>
      /\ queue \in Seq(Servers) /\ queue # <<>>
  BY DEF Continue, Listing, history, TypeOK
<1>2. CASE step' \in {"initialize", "call"} /\ UNCHANGED index
  <2>1. ~Listing'
    BY <1>2 DEF Listing
  <2>. QED BY <1>1, <1>2, <2>1, RoutesKeptByStep
<1>3. CASE step' = "list" /\ index' = RoutesKept(Current)
  <2>1. Pending = {Current} \cup Pending'
    BY <1>1, <1>3, HeadIsApart DEF Pending, Listing, Current
  <2>2. index' = {r \in index : r.server # Current}
    BY <1>3 DEF RoutesKept
  <2> SUFFICES ASSUME task = "discover" PROVE DiscoveryInv'
    BY <1>1, <1>3 DEF RoutesInv, DiscoveryInv, RoutesMatchListing
  <2>3. /\ IsInjective(queue) /\ \A r \in listed : r.server \notin Pending
        /\ \A r \in index : r.server \in Pending \/ r \in listed
        /\ NamesCovered
    BY <1>1 DEF RoutesInv, DiscoveryInv
  <2>4. NamesCovered'
    BY <1>1, <2>1, <2>2, <2>3 DEF NamesCovered
  <2>. QED BY <1>1, <2>1, <2>2, <2>3, <2>4 DEF DiscoveryInv
<1>. QED BY <1>2, <1>3 DEF Continue

(* A page of a listing: its routes are the current server's.               *)
LEMMA PageRoutes ==
  ASSUME TypeOK, RoutesInv, StepInv, ReadPage
  PROVE  /\ IsInjective(queue)
         /\ \A r \in listed' : r.server \notin Range(Tail(queue))
         /\ \A r \in index' : r.server \in Range(Tail(queue)) \/ r \in listed'
         /\ NamesCovered'
<1> DEFINE routes == {Route(Current, t) : t \in Frame.tools}
<1>1. Read /\ step = "read" /\ asked.method = "list" /\ Listing /\ task = "discover"
  BY DEF ReadPage, Read, StepInv, Listing
<1>2. /\ IsInjective(queue) /\ \A r \in listed : r.server \notin Range(Tail(queue))
      /\ \A r \in index : r.server \in Range(Tail(queue)) \/ r \in listed
      /\ NamesCovered
  BY <1>1 DEF RoutesInv, DiscoveryInv, Pending
<1>3. \A r \in routes : r.server = Current
  <2>1. Frame.tools \subseteq Tools /\ Current \in Servers
    BY <1>1, FrameType, CurrentType DEF Read, Frames
  <2>. QED BY <2>1, RouteType
<1>4. Current \notin Range(Tail(queue))
  BY <1>1, <1>2, HeadIsApart DEF Current, TypeOK
<1> HIDE DEF routes
<1>5. PICK left \in OnePerName(routes) : index' = Indexed(left) /\ listed' = listed \cup routes
  BY DEF ReadPage, routes
<1>6. left \subseteq routes /\ \A r \in routes : \E q \in left : q.name = r.name
  BY DEF OnePerName
<1>7. index' = {r \in index : \A q \in left : q.name # r.name} \cup left
  BY <1>5 DEF Indexed
<1>8. NamesCovered'
  <2> SUFFICES ASSUME NEW r \in listed' PROVE \E q \in index' \cap listed' : q.name = r.name
    BY DEF NamesCovered
  <2>1. CASE r \in routes
    BY <1>5, <1>6, <1>7, <2>1
  <2>2. CASE r \in listed
    <3>1. PICK q \in index \cap listed : q.name = r.name
      BY <1>2, <2>2 DEF NamesCovered
    <3>2. CASE \E l \in left : l.name = q.name
      BY <1>5, <1>6, <1>7, <3>1, <3>2
    <3>3. CASE \A l \in left : l.name # q.name
      BY <1>5, <1>7, <3>1, <3>3
    <3>. QED BY <3>2, <3>3
  <2>. QED BY <1>5, <2>1, <2>2
<1>. QED BY <1>2, <1>3, <1>4, <1>5, <1>6, <1>7, <1>8

LEMMA ReadPageRoutes == TypeOK /\ StepInv /\ RoutesInv /\ ReadPage => RoutesInv'
<1> SUFFICES ASSUME TypeOK, StepInv, RoutesInv, ReadPage PROVE RoutesInv'
  OBVIOUS
<1>1. queue \in Seq(Servers) /\ queue # <<>>
  BY DEF ReadPage, Read, TypeOK
<1>2. CASE step' = "list" /\ queue' = queue
  <2>1. Pending' = Range(Tail(queue))
    BY <1>2 DEF Pending, Listing
  <2>. QED BY <1>2, <2>1, PageRoutes DEF RoutesInv, DiscoveryInv, RoutesMatchListing
<1>3. CASE step' = "ready" /\ queue' = Tail(queue)
  <2>1. Pending' = Range(Tail(queue))
    BY <1>3 DEF Pending, Listing
  <2>2. IsInjective(queue)'
    BY <1>1, <1>3, PageRoutes, HeadIsApart
  <2>. QED BY <1>3, <2>1, <2>2, PageRoutes DEF RoutesInv, DiscoveryInv, RoutesMatchListing
<1>4. CASE Len(queue) <= 1 /\ End([kind |-> "tools"])
  <2>1. Tail(queue) = <<>> /\ step' = "idle"
    BY <1>1, <1>4, HeadAndTail DEF End
  <2>2. Range(Tail(queue)) = {}
    BY <2>1 DEF Range
  <2>3. index' \subseteq listed' /\ NamesCovered'
    BY <2>2, PageRoutes
  <2>. QED BY <2>1, <2>3 DEF RoutesInv, DiscoveryInv, RoutesMatchListing, NamesCovered
<1>. QED BY <1>2, <1>3, <1>4 DEF ReadPage

LEMMA RoutesStep == TypeOK /\ StepInv /\ RoutesInv /\ [Next]_vars => RoutesInv'
<1> SUFFICES ASSUME TypeOK, StepInv, RoutesInv, [Next]_vars PROVE RoutesInv'
  OBVIOUS
<1>1. CASE DiscoverTools \/ Shutdown
  BY <1>1, BeginRoutes DEF DiscoverTools, Shutdown
<1>2. ASSUME NEW n \in Names, CallTool(n) PROVE RoutesInv'
  BY <1>2 DEF CallTool, Begin, RoutesInv, DiscoveryInv, RoutesMatchListing
<1>3. CASE SpawnFails \/ SendFails \/ ReadEnd \/ StopFails \/ Abandon \/ ReadFailure
  <2>1. step' = "idle" /\ result'.kind = "failure"
    BY <1>3 DEF SpawnFails, SendFails, ReadEnd, StopFails, Abandon, ReadFailure, End, Failure
  <2>. QED BY <2>1, EndRoutes
<1>4. CASE ReadToolAnswer
  <2>1. \E what : what.kind = "answer" /\ End(what)
    BY <1>4 DEF ReadToolAnswer
  <2>2. step' = "idle" /\ result'.kind = "answer"
    BY <2>1 DEF End
  <2>. QED BY <2>2, EndRoutes
<1>5. CASE Continue \/ ReadPage
  BY <1>5, ContinueRoutes, ReadPageRoutes
<1>6. CASE Spawn
  BY <1>6, RoutesKeptByStep DEF Spawn, Listing, history
<1>7. CASE Send
  <2>1. /\ step # "idle" /\ step' = "read" /\ asked'.method = step
        /\ UNCHANGED <<task, queue, index, listed>>
    BY <1>7 DEF Send, Requesting
  <2>2. Listing' <=> Listing
    BY <1>7, <2>1 DEF Listing, Send, Requesting
  <2>. QED BY <2>1, <2>2, RoutesKeptByStep
<1>8. CASE ReadInitialized
  BY <1>8, RoutesKeptByStep DEF ReadInitialized, Read, Listing
<1>9. CASE StopServer
  <2>1. step = "stop"
    BY <1>9 DEF StopServer
  <2>2. CASE End([kind |-> "stopped"])
    <3>1. step' = "idle" /\ result'.kind = "stopped"
      BY <2>2 DEF End
    <3>. QED BY <3>1, EndRoutes
  <2>3. CASE UNCHANGED <<task, step, asked, result>>
    BY <1>9, <2>1, <2>3 DEF StopServer, RoutesInv, DiscoveryInv, RoutesMatchListing, StepInv
  <2>. QED BY <1>9, <2>2, <2>3 DEF StopServer
<1>10. ASSUME NEW s \in Servers, ServerStep(s) PROVE RoutesInv'
  <2>1. UNCHANGED <<task, step, queue, asked, index, result, listed>>
    BY <1>10 DEF ServerStep, SomeAnswer, Answer, SayUnasked, Say, Die, manager, history
  <2>. QED BY <2>1 DEF RoutesInv, DiscoveryInv, RoutesMatchListing, NamesCovered, Pending, Listing
<1>11. CASE UNCHANGED vars
  BY <1>11 DEF vars, manager, history, RoutesInv, DiscoveryInv, RoutesMatchListing, NamesCovered,
     Pending, Listing
<1>. QED
  BY <1>1, <1>2, <1>3, <1>4, <1>5, <1>6, <1>7, <1>8, <1>9, <1>10, <1>11 DEF Next, ManagerStep

(* What callers are told of the servers is true, in every behaviour: their *)
(* own answers, and the routes of the last listing.                        *)
THEOREM EveryCallerIsTold == Spec => []CallersAreTold
<1>1. RoutesInv /\ AnswerIsOwn => CallersAreTold
  BY DEF RoutesInv, CallersAreTold
<1>2. InStepInv => StepInv
  BY DEF InStepInv
<1>3. Spec => []RoutesInv
  BY <1>2, InitRoutes, RoutesStep, McpTypeCorrect, PipesStayInStep, PTL DEF Spec
<1>. QED BY <1>1, <1>3, EveryAnswerIsOwn, PTL

-----------------------------------------------------------------------------
(* Sources are there and have a version while they are copied.             *)
SourcesInv ==
  /\ place = "replace" => shipped[target] # 0
  /\ place = "bundled" => \A p \in waiting : shipped[p] # 0

TypeInv == StoreTypeOK /\ SourcesInv

-----------------------------------------------------------------------------
(* Which commands pass through a place, and for which plugins.             *)
PlaceInv ==
  /\ place \in {"source", "replace"} => command \in {"install", "update"}
  /\ place = "load" => command \in {"install", "update", "uninstall"}
  /\ place = "remove" => command = "uninstall"
  /\ place = "store" => command \in {"install", "update", "uninstall"}
  /\ place = "settings" => command \in {"install", "uninstall", "enable", "disable"}
  /\ (place # "idle" /\ command = "install") => target \in External
  /\ (place \in {"remove", "store", "settings"} /\ command = "uninstall") => target \in External

(* The registry in memory is the one of the file, but for the target.      *)
CopyInv ==
  /\ (place \in {"source", "replace"} /\ command = "update") => copy = registry
  /\ place \in {"remove", "store"} => \A p \in Plugins \ {target} : copy[p] = registry[p]
  /\ place \in {"bundled", "sync store"} => \A p \in External : copy[p] = registry[p]

(* What the command under way has done to its target, spoiled or not.      *)
InstallInv ==
  command = "install" =>
    /\ place = "load" => shipped[target] # 0 /\ folders[target] = Whole(shipped[target])
    /\ place = "store" => copy[target] # 0 /\ folders[target] = Whole(copy[target])
    /\ place = "settings" => registry[target] # 0 /\ folders[target] = Whole(registry[target])

UninstallInv ==
  command = "uninstall" =>
    /\ place \in {"remove", "store"} => copy[target] = 0
    /\ place = "store" => folders[target] = NoFiles
    /\ place = "settings" => registry[target] = 0 /\ folders[target] = NoFiles

UpdateInv ==
  command = "update" =>
    /\ place \in {"source", "replace", "store"} => registry[target] # 0
    /\ place = "store" =>
         /\ shipped[target] # 0 /\ copy[target] = shipped[target]
         /\ folders[target] = Whole(shipped[target])

FlagInv == (place = "settings" /\ command \in {"enable", "disable"}) => Found(target)

(* Two commands end in the settings; until then their target is between    *)
(* two states, and so is that of an update whose record is not stored.     *)
Settled(p) ==
  /\ folders[p] = (IF registry[p] = 0 THEN NoFiles ELSE Whole(registry[p]))
  /\ settings[p] = wanted[p]
  /\ registry[p] = 0 <=> wanted[p] = "unset"

Between(p) ==
  /\ p = target
  /\ \/ command = "install" /\ place \in {"load", "store", "settings"}
     \/ command = "uninstall" /\ place \in {"store", "settings"}
     \/ command = "update" /\ place = "store" /\ settings[p] = wanted[p] /\ wanted[p] # "unset"

AgreeInv == \A p \in External \ spoiled : Settled(p) \/ Between(p)

MemoryInv == place # "idle" => "settings" \notin torn /\ enabled = settings

CommandInv ==
  /\ PlaceInv /\ CopyInv
  /\ InstallInv /\ UninstallInv /\ UpdateInv /\ FlagInv
  /\ AgreeInv /\ MemoryInv

-----------------------------------------------------------------------------
(* Bundled plugins.  A record of the version that is shipped means that    *)
(* all its files are there, and no record is of a version still to come.   *)
RecordsInv ==
  \A p \in Bundled : shipped[p] # 0 =>
    /\ registry[p] <= shipped[p]
    /\ (p \notin interrupted /\ registry[p] = shipped[p]) => folders[p] = Whole(shipped[p])

(* During a sync: what has been looked at is up to date in memory.         *)
SyncInv ==
  place = "bundled" =>
    /\ \A p \in Bundled : shipped[p] # 0 =>
         /\ copy[p] \in {registry[p], shipped[p]}
         /\ (p \notin interrupted /\ copy[p] = shipped[p]) => folders[p] = Whole(shipped[p])
         /\ p \in waiting \/ copy[p] = shipped[p]
    /\ changed \/ copy = registry

(* Before and after the registry is stored.                                *)
UpToDate(records) ==
  \A p \in Bundled :
    /\ records[p] = shipped[p]
    /\ (shipped[p] # 0 /\ p \notin interrupted) => folders[p] = Whole(shipped[p])

StoredInv ==
  /\ place = "sync store" => UpToDate(copy)
  /\ place = "discover" => UpToDate(registry)
  /\ current => place = "idle"

BundledInv == RecordsInv /\ SyncInv /\ StoredInv /\ BundledAreCurrent

StoreInv == TypeInv /\ CommandInv /\ BundledInv

-----------------------------------------------------------------------------
(* Directories.                                                            *)
AllDirectories == [state : {"none", "bare", "broken", "hollow", "whole"}, version : 0..MaxVersion]
Sound(d) == d \in AllDirectories /\ (d.version # 0 <=> Loadable(d))

LEMMA VersionsExist == MaxVersion \in Nat /\ 0 \in 0..MaxVersion /\ 1 \in 0..MaxVersion
BY StoreAssumption

LEMMA SomeDirectories ==
  /\ Sound(NoFiles) /\ Sound(Bare) /\ Sound(Broken)
  /\ \A v \in 0..MaxVersion : v # 0 => Sound(Whole(v)) /\ Sound(Hollow(v))
BY VersionsExist
   DEF Sound, AllDirectories, Loadable, NoFiles, Bare, Broken, Whole, Hollow, Directory

LEMMA HalfRemovedType ==
  ASSUME NEW d, Sound(d), NEW e \in HalfRemoved(d)
  PROVE  Sound(e)
<1>1. d.version \in 0..MaxVersion /\ (Loadable(d) => d.version # 0)
  BY DEF Sound, AllDirectories
<1>2. e \in {d, Bare, Broken} \/ (Loadable(d) /\ e = Hollow(d.version))
  BY DEF HalfRemoved
<1>. QED BY <1>1, <1>2, SomeDirectories

LEMMA HalfCopiedType ==
  ASSUME NEW v \in 0..MaxVersion, v # 0, NEW e \in HalfCopied(v)
  PROVE  Sound(e)
BY SomeDirectories DEF HalfCopied

(* The part of the types that speaks of the directories.                   *)
FoldersSound == folders \in [Plugins -> AllDirectories] /\ \A p \in Plugins : Sound(folders[p])

LEMMA FoldersAreSound ==
  ASSUME StoreTypeOK
  PROVE  FoldersSound
BY DEF StoreTypeOK, FoldersSound, Sound, AllDirectories

LEMMA OneFolderChanges ==
  ASSUME FoldersSound, NEW p \in Plugins, NEW d, Sound(d), folders' = [folders EXCEPT ![p] = d]
  PROVE  FoldersSound'
BY DEF FoldersSound, Sound

(* A step that keeps the rest of the types, and gives the places theirs.   *)
LEMMA TypesKept ==
  ASSUME StoreTypeOK, FoldersSound', place' \in Places,
         shipped' \in [Plugins -> 0..MaxVersion],
         registry' \in [Plugins -> 0..MaxVersion], copy' \in [Plugins -> 0..MaxVersion],
         settings' \in [Plugins -> FlagValues], enabled' \in [Plugins -> FlagValues],
         wanted' \in [Plugins -> FlagValues],
         torn' \subseteq {"registry", "settings"}, waiting' \subseteq Bundled,
         command' \in PluginCommands, target' \in Plugins, changes' \in Nat
  PROVE  StoreTypeOK'
BY DEF StoreTypeOK, FoldersSound, Sound, AllDirectories

LEMMA NothingRecorded == NoRecords \in [Plugins -> 0..MaxVersion] /\ Unset \in [Plugins -> FlagValues]
BY VersionsExist DEF NoRecords, Unset, FlagValues

LEMMA StoreInitType == StoreInit => TypeInv
<1> SUFFICES ASSUME StoreInit PROVE TypeInv
  OBVIOUS
<1>1. shipped \in [Plugins -> 0..MaxVersion] /\ changes \in Nat
  BY VersionsExist, StoreAssumption DEF StoreInit
<1>2. FoldersSound
  BY SomeDirectories DEF StoreInit, FoldersSound, Sound
<1>3. StoreTypeOK
  BY <1>1, <1>2, NothingRecorded
     DEF StoreInit, StoreTypeOK, FoldersSound, Sound, AllDirectories, Places, PluginCommands
<1>. QED BY <1>3 DEF TypeInv, SourcesInv, StoreInit

(* A command that gives up, with the files whatever its last step left.    *)
LEMMA GiveUpType ==
  ASSUME TypeInv, NEW spoils, GiveUp(spoils), FoldersSound',
         registry' \in [Plugins -> 0..MaxVersion], settings' \in [Plugins -> FlagValues],
         torn' \subseteq {"registry", "settings"}
  PROVE  TypeInv'
<1>1. place' = "idle" /\ UNCHANGED <<shipped, inMemory, changes, wanted>>
  BY DEF GiveUp
<1>2. StoreTypeOK'
  BY <1>1, TypesKept DEF TypeInv, StoreTypeOK, inMemory, Places
<1>. QED BY <1>1, <1>2 DEF TypeInv, SourcesInv

LEMMA RegistryFailsType ==
  ASSUME TypeInv, NEW spoils, WriteRegistryFails(spoils), UNCHANGED <<folders, settings>>
  PROVE  TypeInv'
<1>1. FoldersSound'
  BY FoldersAreSound DEF TypeInv, FoldersSound, Sound
<1>2. CASE UNCHANGED <<registry, torn>> /\ GiveUp(spoils)
  BY <1>1, <1>2, GiveUpType DEF TypeInv, StoreTypeOK
<1>3. CASE registry' = NoRecords /\ torn' \in {torn, torn \cup {"registry"}} /\ GiveUp(Plugins)
  BY <1>1, <1>3, GiveUpType, NothingRecorded DEF TypeInv, StoreTypeOK
<1>. QED BY <1>2, <1>3 DEF WriteRegistryFails

LEMMA CommandType == TypeInv /\ CommandStep => TypeInv'
<1> SUFFICES ASSUME TypeInv, CommandStep PROVE TypeInv'
  OBVIOUS
<1>0. FoldersSound /\ (UNCHANGED folders => FoldersSound')
  BY FoldersAreSound DEF TypeInv, FoldersSound, Sound
<1>1. CASE FindSource
  <2>1. StoreTypeOK'
    BY <1>0, <1>1, TypesKept
    DEF FindSource, TypeInv, StoreTypeOK, disk, inMemory, storeHistory, Places
  <2>. QED BY <1>1, <2>1 DEF FindSource, TypeInv, SourcesInv, inMemory
<1>2. CASE SourceFails
  BY <1>0, <1>2, GiveUpType DEF SourceFails, disk, TypeInv, StoreTypeOK
<1>3. CASE Replace
  <2>1. target \in Plugins /\ shipped[target] \in 0..MaxVersion /\ shipped[target] # 0
    BY <1>3 DEF Replace, TypeInv, SourcesInv, StoreTypeOK
  <2>2. FoldersSound'
    <3>1. Sound(Whole(shipped[target]))
      BY <2>1, SomeDirectories
    <3>2. folders' = [folders EXCEPT ![target] = Whole(shipped[target])]
      BY <1>3 DEF Replace
    <3>. QED BY <1>0, <2>1, <3>1, <3>2, OneFolderChanges
  <2>3. copy' \in [Plugins -> 0..MaxVersion] /\ place' \in {"store", "load"}
    BY <1>3, <2>1 DEF Replace, TypeInv, StoreTypeOK
  <2>4. StoreTypeOK'
    BY <1>3, <2>2, <2>3, TypesKept DEF Replace, TypeInv, StoreTypeOK, Places
  <2>. QED BY <2>3, <2>4 DEF TypeInv, SourcesInv
<1>4. CASE ReplaceFails
  <2>1. target \in Plugins /\ shipped[target] \in 0..MaxVersion /\ shipped[target] # 0
    BY <1>4 DEF ReplaceFails, TypeInv, SourcesInv, StoreTypeOK
  <2>2. PICK d \in HalfRemoved(folders[target]) \cup HalfCopied(shipped[target]) :
          folders' = [folders EXCEPT ![target] = d]
    BY <1>4 DEF ReplaceFails
  <2>3. Sound(d)
    BY <1>0, <2>1, HalfRemovedType, HalfCopiedType DEF FoldersSound
  <2>4. FoldersSound'
    BY <1>0, <2>1, <2>2, <2>3, OneFolderChanges
  <2>. QED BY <1>4, <2>4, GiveUpType DEF ReplaceFails, TypeInv, StoreTypeOK
<1>5. CASE LoadRegistry
  <2>1. folders[target].version \in 0..MaxVersion
    BY <1>0 DEF FoldersSound, Sound, AllDirectories, TypeInv, StoreTypeOK
  <2>2. copy' \in [Plugins -> 0..MaxVersion] /\ place' \in {"store", "source", "remove"}
    BY <1>5, <2>1, VersionsExist DEF LoadRegistry, Recorded, TypeInv, StoreTypeOK
  <2>3. StoreTypeOK'
    BY <1>0, <1>5, <2>2, TypesKept DEF LoadRegistry, disk, storeHistory, TypeInv, StoreTypeOK, Places
  <2>. QED BY <2>2, <2>3 DEF TypeInv, SourcesInv
<1>6. CASE LoadRegistryFails
  BY <1>0, <1>6, GiveUpType DEF LoadRegistryFails, disk, TypeInv, StoreTypeOK
<1>7. CASE RemoveFiles
  <2>1. FoldersSound'
    BY <1>0, <1>7, SomeDirectories, OneFolderChanges DEF RemoveFiles, TypeInv, StoreTypeOK
  <2>2. StoreTypeOK'
    BY <1>7, <2>1, TypesKept DEF RemoveFiles, inMemory, storeHistory, TypeInv, StoreTypeOK, Places
  <2>. QED BY <1>7, <2>2 DEF RemoveFiles, TypeInv, SourcesInv
<1>8. CASE RemoveFilesFails
  <2>1. target \in Plugins
    BY DEF TypeInv, StoreTypeOK
  <2>2. PICK d \in HalfRemoved(folders[target]) : folders' = [folders EXCEPT ![target] = d]
    BY <1>8 DEF RemoveFilesFails
  <2>3. FoldersSound'
    BY <1>0, <2>1, <2>2, HalfRemovedType, OneFolderChanges DEF FoldersSound
  <2>. QED BY <1>8, <2>3, GiveUpType DEF RemoveFilesFails, TypeInv, StoreTypeOK
<1>9. CASE StoreRegistry
  <2>1. place' \in {"sync", "settings"} /\ registry' = copy
    BY <1>9 DEF StoreRegistry
  <2>2. StoreTypeOK'
    BY <1>0, <1>9, <2>1, TypesKept
    DEF StoreRegistry, inMemory, storeHistory, TypeInv, StoreTypeOK, Places
  <2>. QED BY <2>1, <2>2 DEF TypeInv, SourcesInv
<1>10. CASE StoreRegistryFails
  BY <1>10, RegistryFailsType DEF StoreRegistryFails
<1>11. CASE WriteSettings
  <2>1. Flag \in FlagValues
    BY DEF Flag, FlagValues
  <2>2. /\ settings' \in [Plugins -> FlagValues] /\ enabled' \in [Plugins -> FlagValues]
        /\ wanted' \in [Plugins -> FlagValues] /\ place' \in {"sync", "idle"}
    BY <1>11, <2>1 DEF WriteSettings, TypeInv, StoreTypeOK
  <2>3. StoreTypeOK'
    BY <1>0, <1>11, <2>2, TypesKept DEF WriteSettings, TypeInv, StoreTypeOK, Places
  <2>. QED BY <2>2, <2>3 DEF TypeInv, SourcesInv
<1>12. CASE WriteSettingsFails
  <2>1. \E spoils : GiveUp(spoils)
    BY <1>12 DEF WriteSettingsFails
  <2>2. /\ UNCHANGED <<folders, registry>> /\ torn' \subseteq {"registry", "settings"}
        /\ settings' \in [Plugins -> FlagValues]
    BY <1>12, NothingRecorded DEF WriteSettingsFails, TypeInv, StoreTypeOK
  <2>. QED BY <1>0, <2>1, <2>2, GiveUpType DEF TypeInv, StoreTypeOK
<1>. QED
  BY <1>1, <1>2, <1>3, <1>4, <1>5, <1>6, <1>7, <1>8, <1>9, <1>10, <1>11, <1>12 DEF CommandStep

LEMMA SyncFailsType ==
  ASSUME TypeInv, SyncFails
  PROVE  TypeInv'
<1>0. FoldersSound /\ (UNCHANGED folders => FoldersSound')
  BY FoldersAreSound DEF TypeInv, FoldersSound, Sound
<1>1. UNCHANGED <<registry, settings, torn>> /\ \E spoils : GiveUp(spoils)
  BY DEF SyncFails, disk
<1>2. FoldersSound'
  <2>1. CASE UNCHANGED folders
    BY <1>0, <2>1
  <2>2. ASSUME place = "bundled", NEW p \in waiting,
               NEW d \in HalfRemoved(folders[p]) \cup HalfCopied(shipped[p]),
               folders' = [folders EXCEPT ![p] = d]
        PROVE  FoldersSound'
    <3>1. p \in Plugins /\ shipped[p] \in 0..MaxVersion /\ shipped[p] # 0
      BY <2>2 DEF TypeInv, SourcesInv, StoreTypeOK, Plugins
    <3>2. Sound(d)
      BY <1>0, <3>1, HalfRemovedType, HalfCopiedType DEF FoldersSound
    <3>. QED BY <1>0, <2>2, <3>1, <3>2, OneFolderChanges
  <2>3. ASSUME NEW p \in StaleBundled, NEW gone \in SUBSET StaleBundled, NEW d \in HalfRemoved(folders[p]),
               folders' = [q \in Plugins |-> IF q = p THEN d ELSE IF q \in gone THEN NoFiles ELSE folders[q]]
        PROVE  FoldersSound'
    <3>1. Sound(d)
      BY <1>0, HalfRemovedType DEF FoldersSound, StaleBundled, Plugins
    <3>. QED BY <1>0, <2>3, <3>1, SomeDirectories DEF FoldersSound, Sound
  <2>. QED BY <2>1, <2>2, <2>3 DEF SyncFails, disk
<1>. QED BY <1>1, <1>2, GiveUpType DEF TypeInv, StoreTypeOK

LEMMA ListType == TypeInv /\ ListStep => TypeInv'
<1> SUFFICES ASSUME TypeInv, ListStep PROVE TypeInv'
  OBVIOUS
<1>0. FoldersSound /\ (UNCHANGED folders => FoldersSound')
  BY FoldersAreSound DEF TypeInv, FoldersSound, Sound
<1>1. CASE BeginSync
  <2>1. waiting' \subseteq Bundled /\ \A p \in waiting' : shipped'[p] # 0
    BY <1>1 DEF BeginSync, Shipped
  <2>2. StoreTypeOK'
    BY <1>0, <1>1, <2>1, TypesKept DEF BeginSync, disk, storeHistory, TypeInv, StoreTypeOK, Places
  <2>. QED BY <1>1, <2>1, <2>2 DEF BeginSync, TypeInv, SourcesInv
<1>2. CASE SyncPlugin
  <2>1. PICK p \in waiting :
          /\ IF NeedsSync(p)
               THEN /\ folders' = [folders EXCEPT ![p] = Whole(shipped[p])]
                    /\ copy' = [copy EXCEPT ![p] = shipped[p]]
               ELSE UNCHANGED <<folders, copy>>
          /\ waiting' = waiting \ {p}
    BY <1>2 DEF SyncPlugin
  <2>2. p \in Plugins /\ shipped[p] \in 0..MaxVersion /\ shipped[p] # 0
    BY <1>2 DEF SyncPlugin, TypeInv, SourcesInv, StoreTypeOK, Plugins
  <2>3. Sound(Whole(shipped[p]))
    BY <2>2, SomeDirectories
  <2>4. FoldersSound' /\ copy' \in [Plugins -> 0..MaxVersion]
    <3>1. CASE NeedsSync(p)
      BY <1>0, <2>1, <2>2, <2>3, <3>1, OneFolderChanges DEF TypeInv, StoreTypeOK
    <3>2. CASE ~NeedsSync(p)
      BY <1>0, <2>1, <3>2 DEF TypeInv, StoreTypeOK
    <3>. QED BY <3>1, <3>2
  <2>5. StoreTypeOK'
    BY <1>2, <2>1, <2>4, TypesKept DEF SyncPlugin, TypeInv, StoreTypeOK
  <2>. QED BY <1>2, <2>1, <2>5 DEF SyncPlugin, TypeInv, SourcesInv
<1>3. CASE DropStale
  <2>1. FoldersSound'
    BY <1>0, <1>3, SomeDirectories DEF DropStale, FoldersSound, Sound
  <2>2. copy' \in [Plugins -> 0..MaxVersion] /\ place' \in {"sync store", "discover"}
    BY <1>3, VersionsExist DEF DropStale, TypeInv, StoreTypeOK
  <2>3. StoreTypeOK'
    BY <1>3, <2>1, <2>2, TypesKept DEF DropStale, storeHistory, TypeInv, StoreTypeOK, Places
  <2>. QED BY <2>2, <2>3 DEF TypeInv, SourcesInv
<1>4. CASE StoreSync
  <2>1. StoreTypeOK'
    BY <1>0, <1>4, TypesKept DEF StoreSync, inMemory, storeHistory, TypeInv, StoreTypeOK, Places
  <2>. QED BY <1>4, <2>1 DEF StoreSync, TypeInv, SourcesInv
<1>5. CASE Discover
  <2>1. registry' \in [Plugins -> 0..MaxVersion] /\ place' \in {"settings", "idle"}
    BY <1>5, VersionsExist DEF Discover, Pruned, TypeInv, StoreTypeOK
  <2>2. StoreTypeOK'
    BY <1>0, <1>5, <2>1, TypesKept DEF Discover, inMemory, storeHistory, TypeInv, StoreTypeOK, Places
  <2>. QED BY <2>1, <2>2 DEF TypeInv, SourcesInv
<1>6. CASE DiscoverFails
  <2>1. UNCHANGED <<folders, settings>>
    BY <1>6 DEF DiscoverFails
  <2>2. CASE UNCHANGED <<registry, torn>> /\ GiveUp({})
    BY <1>0, <2>1, <2>2, GiveUpType DEF TypeInv, StoreTypeOK
  <2>. QED BY <1>6, <2>1, <2>2, RegistryFailsType DEF DiscoverFails
<1>7. CASE SyncFails
  BY <1>7, SyncFailsType
<1>8. CASE StoreSyncFails
  BY <1>8, RegistryFailsType DEF StoreSyncFails
<1>. QED BY <1>1, <1>2, <1>3, <1>4, <1>5, <1>6, <1>7, <1>8 DEF ListStep

LEMMA StoreNextType == TypeInv /\ [StoreNext]_storeVars => TypeInv'
<1> SUFFICES ASSUME TypeInv, [StoreNext]_storeVars PROVE TypeInv'
  OBVIOUS
<1>0. FoldersSound /\ (UNCHANGED folders => FoldersSound')
  BY FoldersAreSound DEF TypeInv, FoldersSound, Sound
<1>1. ASSUME NEW c \in PluginCommands, NEW p \in Plugins, BeginCommand(c, p)
      PROVE  TypeInv'
  <2>1. place' \in {"sync", "source", "load"} /\ changes' \in Nat
    BY <1>1, StoreAssumption DEF BeginCommand, TypeInv, StoreTypeOK
  <2>2. StoreTypeOK'
    BY <1>0, <1>1, <2>1, TypesKept DEF BeginCommand, disk, storeHistory, TypeInv, StoreTypeOK, Places
  <2>. QED BY <2>1, <2>2 DEF TypeInv, SourcesInv
<1>2. ASSUME NEW p \in Plugins, Release(p) \/ Withdraw(p)
      PROVE  TypeInv'
  <2>1. shipped' \in [Plugins -> 0..MaxVersion]
    BY <1>2, VersionsExist DEF Release, Withdraw, TypeInv, StoreTypeOK
  <2>2. place = "idle" /\ UNCHANGED <<disk, place, inMemory, changes, storeHistory>>
    BY <1>2 DEF Release, Withdraw
  <2>3. StoreTypeOK'
    BY <1>0, <2>1, <2>2, TypesKept DEF disk, inMemory, storeHistory, TypeInv, StoreTypeOK
  <2>. QED BY <2>2, <2>3 DEF TypeInv, SourcesInv
<1>3. ASSUME NEW file, Repair(file)
      PROVE  TypeInv'
  <2>1. StoreTypeOK'
    BY <1>0, <1>3, TypesKept DEF Repair, inMemory, storeHistory, TypeInv, StoreTypeOK
  <2>. QED BY <1>3, <2>1 DEF Repair, TypeInv, SourcesInv
<1>4. CASE UNCHANGED storeVars
  BY <1>4 DEF storeVars, disk, inMemory, storeHistory, TypeInv, StoreTypeOK, SourcesInv
<1>. QED
  BY <1>1, <1>2, <1>3, <1>4, CommandType, ListType DEF StoreNext

(* The types of the three stores and of what a command has in memory.      *)
THEOREM StoreTypeCorrect == StoreSpec => []TypeInv
BY StoreInitType, StoreNextType, PTL DEF StoreSpec

-----------------------------------------------------------------------------
(* What commands keep.  Where nothing is between two states, the external  *)
(* plugins that are not spoiled are settled.                               *)
LEMMA SettledOutside ==
  ASSUME CommandInv, NEW p \in External \ spoiled,
         p # target \/ place \notin {"load", "store", "settings"}
  PROVE  Settled(p)
BY DEF CommandInv, AgreeInv, Between

LEMMA GiveUpAgrees ==
  ASSUME NEW spoils, GiveUp(spoils),
         \A p \in External \ (spoiled \cup spoils) :
           /\ Settled(p)
           /\ folders'[p] = folders[p] /\ registry'[p] = registry[p] /\ settings'[p] = settings[p]
  PROVE  CommandInv'
<1>1. place' = "idle" /\ spoiled' = spoiled \cup spoils /\ wanted' = wanted
  BY DEF GiveUp
<1>2. AgreeInv'
  BY <1>1 DEF AgreeInv, Settled
<1>. QED BY <1>1, <1>2 DEF CommandInv, PlaceInv, CopyInv, InstallInv, UninstallInv, UpdateInv,
                           FlagInv, MemoryInv

LEMMA RegistryFailsAgrees ==
  ASSUME TypeInv, CommandInv, NEW spoils, WriteRegistryFails(spoils), UNCHANGED <<folders, settings>>,
         \A p \in External \ (spoiled \cup spoils) : Settled(p)
  PROVE  CommandInv'
<1>1. CASE UNCHANGED <<registry, torn>> /\ GiveUp(spoils)
  BY <1>1, GiveUpAgrees
<1>2. CASE GiveUp(Plugins)
  BY <1>2, GiveUpAgrees DEF Plugins
<1>. QED BY <1>1, <1>2 DEF WriteRegistryFails

(* Every failing step of a command.                                        *)
LEMMA FailingAgrees ==
  ASSUME TypeInv, CommandInv,
         \/ SourceFails \/ ReplaceFails \/ LoadRegistryFails \/ RemoveFilesFails
         \/ StoreRegistryFails \/ WriteSettingsFails
  PROVE  CommandInv'
<1>1. CASE SourceFails
  BY <1>1, GiveUpAgrees, SettledOutside DEF SourceFails, disk
<1>2. CASE ReplaceFails \/ RemoveFilesFails
  <2>1. \E d : folders' = [folders EXCEPT ![target] = d]
    BY <1>2 DEF ReplaceFails, RemoveFilesFails
  <2>2. \A p \in External \ {target} : folders'[p] = folders[p]
    BY <2>1 DEF TypeInv, StoreTypeOK, Plugins
  <2>. QED BY <1>2, <2>2, GiveUpAgrees, SettledOutside DEF ReplaceFails, RemoveFilesFails
<1>3. CASE LoadRegistryFails
  <2>1. CASE command = "install"
    BY <1>3, <2>1, GiveUpAgrees, SettledOutside DEF LoadRegistryFails, disk
  <2>2. CASE command # "install"
    <3>1. \A p \in External \ spoiled : Settled(p)
      BY <1>3, <2>2 DEF LoadRegistryFails, CommandInv, AgreeInv, Between
    <3>. QED BY <1>3, <2>2, <3>1, GiveUpAgrees DEF LoadRegistryFails, disk
  <2>. QED BY <2>1, <2>2
<1>4. CASE StoreRegistryFails
  BY <1>4, RegistryFailsAgrees, SettledOutside DEF StoreRegistryFails
<1>5. CASE WriteSettingsFails
  <2>1. CASE UNCHANGED <<settings, torn>> /\ GiveUp({target})
    BY <1>5, <2>1, GiveUpAgrees, SettledOutside DEF WriteSettingsFails
  <2>2. CASE GiveUp(Plugins)
    BY <2>2, GiveUpAgrees DEF Plugins
  <2>. QED BY <1>5, <2>1, <2>2 DEF WriteSettingsFails
<1>. QED BY <1>1, <1>2, <1>3, <1>4, <1>5

(* The steps of a command that succeed.                                    *)
LEMMA FindSourceAgrees == TypeInv /\ CommandInv /\ FindSource => CommandInv'
<1> SUFFICES ASSUME TypeInv, CommandInv, FindSource PROVE CommandInv'
  OBVIOUS
<1>1. /\ place = "source" /\ place' = "replace" /\ shipped[target] # 0
      /\ UNCHANGED <<folders, registry, settings, torn, command, target, copy, enabled, wanted, spoiled>>
  BY DEF FindSource, disk, inMemory, storeHistory
<1>2. AgreeInv'
  BY <1>1, SettledOutside DEF AgreeInv, Settled
<1>. QED BY <1>1, <1>2 DEF CommandInv, PlaceInv, CopyInv, InstallInv, UninstallInv, UpdateInv,
                           FlagInv, MemoryInv

LEMMA ReplaceAgrees == TypeInv /\ CommandInv /\ Replace => CommandInv'
<1> SUFFICES ASSUME TypeInv, CommandInv, Replace PROVE CommandInv'
  OBVIOUS
<1>1. /\ place = "replace" /\ command \in {"install", "update"} /\ target \in Plugins
      /\ shipped[target] # 0 /\ folders' = [folders EXCEPT ![target] = Whole(shipped[target])]
      /\ UNCHANGED <<shipped, registry, settings, torn, command, target, enabled, wanted, spoiled>>
  BY DEF Replace, CommandInv, PlaceInv, TypeInv, SourcesInv, StoreTypeOK
<1>2. /\ folders'[target] = Whole(shipped[target])
      /\ \A p \in Plugins \ {target} : folders'[p] = folders[p]
  BY <1>1 DEF TypeInv, StoreTypeOK
<1>3. CASE command = "install"
  <2>1. place' = "load" /\ copy' = copy
    BY <1>3 DEF Replace
  <2>2. AgreeInv'
    <3> SUFFICES ASSUME NEW p \in External \ spoiled PROVE Settled(p)' \/ Between(p)'
      BY <1>1 DEF AgreeInv
    <3>1. CASE p = target
      BY <1>1, <1>3, <2>1, <3>1 DEF Between
    <3>2. CASE p # target
      BY <1>1, <1>2, <3>2, SettledOutside DEF Settled, Plugins
    <3>. QED BY <3>1, <3>2
  <2>. QED BY <1>1, <1>2, <1>3, <2>1, <2>2
           DEF CommandInv, PlaceInv, CopyInv, InstallInv, UninstallInv, UpdateInv, FlagInv, MemoryInv
<1>4. CASE command = "update"
  <2>1. place' = "store" /\ copy' = [copy EXCEPT ![target] = shipped[target]] /\ copy = registry
    BY <1>1, <1>4 DEF Replace, CommandInv, CopyInv
  <2>2. /\ copy'[target] = shipped[target]
        /\ \A p \in Plugins \ {target} : copy'[p] = registry[p]
    BY <1>1, <2>1 DEF TypeInv, StoreTypeOK
  <2>3. registry[target] # 0
    BY <1>1, <1>4 DEF CommandInv, UpdateInv
  <2>4. AgreeInv'
    <3> SUFFICES ASSUME NEW p \in External \ spoiled PROVE Settled(p)' \/ Between(p)'
      BY <1>1 DEF AgreeInv
    <3>1. Settled(p)
      BY <1>1, SettledOutside
    <3>2. CASE p = target
      BY <1>1, <1>4, <2>1, <2>3, <3>1, <3>2 DEF Between, Settled
    <3>3. CASE p # target
      BY <1>1, <1>2, <3>1, <3>3 DEF Settled, Plugins
    <3>. QED BY <3>2, <3>3
  <2>. QED BY <1>1, <1>2, <1>4, <2>1, <2>2, <2>3, <2>4
           DEF CommandInv, PlaceInv, CopyInv, InstallInv, UninstallInv, UpdateInv, FlagInv, MemoryInv
<1>. QED BY <1>1, <1>3, <1>4

LEMMA LoadRegistryAgrees == TypeInv /\ CommandInv /\ LoadRegistry => CommandInv'
<1> SUFFICES ASSUME TypeInv, CommandInv, LoadRegistry PROVE CommandInv'
  OBVIOUS
<1>1. /\ place = "load" /\ target \in Plugins
      /\ UNCHANGED <<shipped, folders, registry, settings, torn, command, target, enabled,
                     wanted, spoiled>>
  BY DEF LoadRegistry, disk, storeHistory, TypeInv, StoreTypeOK
<1>2. CASE command = "install" /\ copy' = Recorded(folders[target].version) /\ place' = "store"
  <2>1. shipped[target] # 0 /\ folders[target] = Whole(shipped[target]) /\ target \in External
    BY <1>1, <1>2 DEF CommandInv, InstallInv, PlaceInv
  <2>2. /\ copy'[target] = shipped[target]
        /\ \A p \in Plugins \ {target} : copy'[p] = registry[p]
    BY <1>1, <1>2, <2>1 DEF Recorded, Whole, Directory, TypeInv, StoreTypeOK
  <2>3. AgreeInv'
    BY <1>1, <1>2 DEF CommandInv, AgreeInv, Between, Settled
  <2>. QED BY <1>1, <1>2, <2>1, <2>2, <2>3
           DEF CommandInv, PlaceInv, CopyInv, InstallInv, UninstallInv, UpdateInv, FlagInv, MemoryInv
<1>3. CASE command = "update" /\ registry[target] # 0 /\ copy' = registry /\ place' = "source"
  <2>1. AgreeInv'
    BY <1>1, <1>3 DEF CommandInv, AgreeInv, Between, Settled
  <2>. QED BY <1>1, <1>3, <2>1
           DEF CommandInv, PlaceInv, CopyInv, InstallInv, UninstallInv, UpdateInv, FlagInv, MemoryInv
<1>4. CASE command = "uninstall" /\ target \notin Bundled /\ copy' = Recorded(0) /\ place' = "remove"
  <2>1. /\ copy'[target] = 0 /\ target \in External
        /\ \A p \in Plugins \ {target} : copy'[p] = registry[p]
    BY <1>1, <1>4 DEF Recorded, TypeInv, StoreTypeOK, Plugins
  <2>2. AgreeInv'
    BY <1>1, <1>4 DEF CommandInv, AgreeInv, Between, Settled
  <2>. QED BY <1>1, <1>4, <2>1, <2>2
           DEF CommandInv, PlaceInv, CopyInv, InstallInv, UninstallInv, UpdateInv, FlagInv, MemoryInv
<1>. QED BY <1>2, <1>3, <1>4 DEF LoadRegistry

LEMMA RemoveFilesAgrees == TypeInv /\ CommandInv /\ RemoveFiles => CommandInv'
<1> SUFFICES ASSUME TypeInv, CommandInv, RemoveFiles PROVE CommandInv'
  OBVIOUS
<1>1. /\ place = "remove" /\ place' = "store" /\ command = "uninstall"
      /\ target \in External /\ target \in Plugins
      /\ folders' = [folders EXCEPT ![target] = NoFiles]
      /\ UNCHANGED <<shipped, registry, settings, torn, command, target, copy, enabled, wanted, spoiled>>
  BY DEF RemoveFiles, inMemory, storeHistory, CommandInv, PlaceInv, TypeInv, StoreTypeOK
<1>2. /\ folders'[target] = NoFiles
      /\ \A p \in Plugins \ {target} : folders'[p] = folders[p]
  BY <1>1 DEF TypeInv, StoreTypeOK
<1>3. AgreeInv'
  <2> SUFFICES ASSUME NEW p \in External \ spoiled PROVE Settled(p)' \/ Between(p)'
    BY <1>1 DEF AgreeInv
  <2>1. CASE p = target
    BY <1>1, <2>1 DEF Between
  <2>2. CASE p # target
    BY <1>1, <1>2, <2>2, SettledOutside DEF Settled, Plugins
  <2>. QED BY <2>1, <2>2
<1>. QED BY <1>1, <1>2, <1>3
         DEF CommandInv, PlaceInv, CopyInv, InstallInv, UninstallInv, UpdateInv, FlagInv, MemoryInv

LEMMA StoreRegistryAgrees == TypeInv /\ CommandInv /\ StoreRegistry => CommandInv'
<1> SUFFICES ASSUME TypeInv, CommandInv, StoreRegistry PROVE CommandInv'
  OBVIOUS
<1>1. /\ place = "store" /\ command \in {"install", "update", "uninstall"}
      /\ place' = (IF command = "update" THEN "sync" ELSE "settings") /\ registry' = copy
      /\ UNCHANGED <<shipped, folders, settings, torn, command, target, copy, enabled, wanted, spoiled>>
  BY DEF StoreRegistry, inMemory, storeHistory, CommandInv, PlaceInv
<1>2. \A p \in Plugins \ {target} : registry'[p] = registry[p]
  BY <1>1 DEF CommandInv, CopyInv
<1>3. AgreeInv'
  <2> SUFFICES ASSUME NEW p \in External \ spoiled PROVE Settled(p)' \/ Between(p)'
    BY <1>1 DEF AgreeInv
  <2>1. CASE p # target
    BY <1>1, <1>2, <2>1, SettledOutside DEF Settled, Plugins
  <2>2. CASE p = target /\ command # "update"
    BY <1>1, <2>2 DEF Between
  <2>3. CASE p = target /\ command = "update"
    <3>1. shipped[p] # 0 /\ copy[p] = shipped[p] /\ folders[p] = Whole(shipped[p]) /\ registry[p] # 0
      BY <1>1, <2>3 DEF CommandInv, UpdateInv
    <3>2. settings[p] = wanted[p] /\ wanted[p] # "unset"
      BY <1>1, <2>3, <3>1 DEF CommandInv, AgreeInv, Settled, Between
    <3>. QED BY <1>1, <3>1, <3>2 DEF Settled
  <2>. QED BY <2>1, <2>2, <2>3
<1>. QED BY <1>1, <1>3
         DEF CommandInv, PlaceInv, CopyInv, InstallInv, UninstallInv, UpdateInv, FlagInv, MemoryInv

LEMMA WriteSettingsAgrees == TypeInv /\ CommandInv /\ WriteSettings => CommandInv'
<1> SUFFICES ASSUME TypeInv, CommandInv, WriteSettings PROVE CommandInv'
  OBVIOUS
<1>1. /\ place = "settings" /\ command \in {"install", "uninstall", "enable", "disable"}
      /\ target \in Plugins /\ place' \in {"sync", "idle"}
      /\ settings' = [settings EXCEPT ![target] = Flag]
      /\ enabled' = [enabled EXCEPT ![target] = Flag]
      /\ wanted' = [wanted EXCEPT ![target] = Flag]
      /\ spoiled' = (IF command \in {"install", "uninstall"} THEN spoiled \ {target} ELSE spoiled)
      /\ UNCHANGED <<shipped, folders, registry, torn, command, target, copy>>
  BY DEF WriteSettings, CommandInv, PlaceInv, TypeInv, StoreTypeOK
<1>2. /\ settings'[target] = Flag /\ wanted'[target] = Flag
      /\ \A p \in Plugins \ {target} : settings'[p] = settings[p] /\ wanted'[p] = wanted[p]
  BY <1>1 DEF TypeInv, StoreTypeOK
<1>3. MemoryInv'
  <2>1. "settings" \notin torn /\ enabled = settings
    BY <1>1 DEF CommandInv, MemoryInv
  <2>. QED BY <1>1, <2>1 DEF MemoryInv
<1>4. AgreeInv'
  <2> SUFFICES ASSUME NEW p \in External \ spoiled' PROVE Settled(p)'
    BY DEF AgreeInv
  <2>1. CASE p # target
    BY <1>1, <1>2, <2>1, SettledOutside DEF Settled, Plugins
  <2>2. CASE p = target /\ command = "install"
    BY <1>1, <1>2, <2>2 DEF CommandInv, InstallInv, Settled, Flag
  <2>3. CASE p = target /\ command = "uninstall"
    BY <1>1, <1>2, <2>3 DEF CommandInv, UninstallInv, Settled, Flag
  <2>4. CASE p = target /\ command \in {"enable", "disable"}
    <3>1. Settled(p) /\ Loadable(folders[p])
      BY <1>1, <2>4 DEF CommandInv, AgreeInv, Between, FlagInv, Found
    <3>2. registry[p] # 0
      BY <3>1 DEF Settled, Loadable, NoFiles, Directory
    <3>3. Flag \in {"on", "off"}
      BY <2>4 DEF Flag
    <3>. QED BY <1>1, <1>2, <2>4, <3>1, <3>2, <3>3 DEF Settled
  <2>. QED BY <1>1, <2>1, <2>2, <2>3, <2>4
<1>. QED BY <1>1, <1>3, <1>4
         DEF CommandInv, PlaceInv, CopyInv, InstallInv, UninstallInv, UpdateInv, FlagInv

(* A step of a listing leaves alone what belongs to external plugins.      *)
LEMMA ListingAgrees ==
  ASSUME TypeInv, CommandInv, place \in {"sync", "bundled", "sync store", "discover"},
         place' \in {"bundled", "sync store", "discover", "settings", "idle"},
         place' = "settings" => command \in {"enable", "disable"} /\ Found(target)',
         place' \in {"bundled", "sync store"} => \A p \in External : copy'[p] = registry'[p],
         \A p \in External \ spoiled : folders'[p] = folders[p] /\ registry'[p] = registry[p],
         UNCHANGED <<settings, torn, command, target, enabled, wanted, spoiled>>
  PROVE  CommandInv'
<1>1. AgreeInv'
  BY SettledOutside DEF AgreeInv, Settled
<1>. QED BY <1>1
         DEF CommandInv, PlaceInv, CopyInv, InstallInv, UninstallInv, UpdateInv, FlagInv, MemoryInv

LEMMA ListStepAgrees == TypeInv /\ CommandInv /\ ListStep => CommandInv'
<1> SUFFICES ASSUME TypeInv, CommandInv, ListStep PROVE CommandInv'
  OBVIOUS
<1>1. CASE BeginSync
  BY <1>1, ListingAgrees DEF BeginSync, disk, storeHistory
<1>2. CASE SyncPlugin
  <2>1. PICK p \in waiting :
          IF NeedsSync(p)
            THEN /\ folders' = [folders EXCEPT ![p] = Whole(shipped[p])]
                 /\ copy' = [copy EXCEPT ![p] = shipped[p]]
            ELSE UNCHANGED <<folders, copy>>
    BY <1>2 DEF SyncPlugin
  <2>2. p \in Bundled /\ External \cap Bundled = {}
    BY StoreAssumption DEF TypeInv, StoreTypeOK
  <2>3. \A q \in External : folders'[q] = folders[q] /\ copy'[q] = copy[q]
    BY <2>1, <2>2 DEF TypeInv, StoreTypeOK, Plugins
  <2>4. \A q \in External : copy[q] = registry[q]
    BY <1>2 DEF SyncPlugin, CommandInv, CopyInv
  <2>. QED BY <1>2, <2>3, <2>4, ListingAgrees DEF SyncPlugin
<1>3. CASE DropStale
  <2>1. \A q \in External : q \notin StaleBundled /\ q \in Plugins
    BY StoreAssumption DEF StaleBundled, Plugins
  <2>2. \A q \in External : folders'[q] = folders[q] /\ copy'[q] = copy[q]
    BY <1>3, <2>1 DEF DropStale
  <2>3. \A q \in External : copy[q] = registry[q]
    BY <1>3 DEF DropStale, CommandInv, CopyInv
  <2>. QED BY <1>3, <2>2, <2>3, ListingAgrees DEF DropStale, storeHistory
<1>4. CASE StoreSync
  <2>1. \A q \in External : copy[q] = registry[q]
    BY <1>4 DEF StoreSync, CommandInv, CopyInv
  <2>. QED BY <1>4, <2>1, ListingAgrees DEF StoreSync, inMemory, storeHistory
<1>5. CASE Discover
  <2>1. /\ place = "discover" /\ registry' = Pruned /\ place' \in {"settings", "idle"}
        /\ place' = "settings" => command \in {"enable", "disable"} /\ Found(target)
        /\ \A p \in Plugins : folders[p].state # "broken"
        /\ UNCHANGED <<folders, settings, torn, command, target, enabled, wanted, spoiled>>
    BY <1>5 DEF Discover, inMemory, storeHistory
  <2>2. \A p \in External \ spoiled : registry'[p] = registry[p]
    <3> SUFFICES ASSUME NEW p \in External \ spoiled PROVE Pruned[p] = registry[p]
      BY <2>1
    <3>1. Settled(p)
      BY <2>1, SettledOutside
    <3>2. p \notin StaleRecords
      BY <3>1 DEF Settled, StaleRecords, Whole, Directory
    <3>. QED BY <3>2 DEF Pruned, Plugins
  <2>3. place' = "settings" => Found(target)'
    BY <2>1 DEF Found, Loadable, Pruned, StaleRecords, TypeInv, StoreTypeOK
  <2>. QED BY <2>1, <2>2, <2>3, ListingAgrees
<1>6. CASE DiscoverFails
  <2>1. place = "discover" /\ UNCHANGED <<folders, settings>>
    BY <1>6 DEF DiscoverFails
  <2>2. \A p \in External \ (spoiled \cup {}) : Settled(p)
    BY <2>1, SettledOutside
  <2>3. CASE GiveUp({}) /\ UNCHANGED <<registry, torn>>
    BY <2>1, <2>2, <2>3, GiveUpAgrees
  <2>4. CASE WriteRegistryFails({})
    BY <2>1, <2>2, <2>4, RegistryFailsAgrees
  <2>. QED BY <1>6, <2>3, <2>4 DEF DiscoverFails
<1>7. CASE SyncFails
  <2>1. /\ place \in {"sync", "bundled"} /\ GiveUp({})
        /\ UNCHANGED <<registry, settings, torn>>
    BY <1>7 DEF SyncFails, disk
  <2>2. \A q \in External : folders'[q] = folders[q]
    <3>1. \A p \in waiting : p \in Bundled
      BY DEF TypeInv, StoreTypeOK
    <3>2. \A q \in External : q \in Plugins /\ q \notin Bundled
      BY StoreAssumption DEF Plugins
    <3>3. CASE UNCHANGED disk
      BY <3>3 DEF disk
    <3>4. ASSUME NEW p \in waiting, NEW d, folders' = [folders EXCEPT ![p] = d]
          PROVE  \A q \in External : folders'[q] = folders[q]
      BY <3>1, <3>2, <3>4 DEF TypeInv, StoreTypeOK
    <3>5. ASSUME NEW p \in StaleBundled, NEW gone \in SUBSET StaleBundled, NEW d,
                 folders' = [q \in Plugins |-> IF q = p THEN d ELSE IF q \in gone THEN NoFiles ELSE folders[q]]
          PROVE  \A q \in External : folders'[q] = folders[q]
      BY <3>2, <3>5 DEF StaleBundled
    <3>. QED BY <1>7, <3>3, <3>4, <3>5 DEF SyncFails
  <2>. QED BY <2>1, <2>2, GiveUpAgrees, SettledOutside
<1>8. CASE StoreSyncFails
  BY <1>8, RegistryFailsAgrees, SettledOutside DEF StoreSyncFails
<1>. QED BY <1>1, <1>2, <1>3, <1>4, <1>5, <1>6, <1>7, <1>8 DEF ListStep

LEMMA InitAgrees == StoreInit => CommandInv
BY DEF StoreInit, CommandInv, PlaceInv, CopyInv, InstallInv, UninstallInv, UpdateInv, FlagInv,
       AgreeInv, Settled, MemoryInv, NoRecords, Unset, Plugins

LEMMA NextAgrees == TypeInv /\ CommandInv /\ [StoreNext]_storeVars => CommandInv'
<1> SUFFICES ASSUME TypeInv, CommandInv, [StoreNext]_storeVars PROVE CommandInv'
  OBVIOUS
<1>1. ASSUME NEW c \in PluginCommands, NEW p \in Plugins, BeginCommand(c, p)
      PROVE  CommandInv'
  <2>1. /\ place = "idle" /\ "settings" \notin torn /\ command' = c /\ target' = p
        /\ (c = "install" => p \in External) /\ enabled' = settings
        /\ place' = CASE c \in {"list", "enable", "disable"} -> "sync"
                      [] c = "install" -> "source"
                      [] OTHER -> "load"
        /\ UNCHANGED <<folders, registry, settings, torn, wanted, spoiled>>
    BY <1>1 DEF BeginCommand, disk, storeHistory
  <2>2. \/ place' = "sync" /\ c \in {"list", "enable", "disable"}
        \/ place' = "source" /\ c = "install"
        \/ place' = "load" /\ c \in {"update", "uninstall"}
    BY <2>1 DEF PluginCommands
  <2>3. AgreeInv'
    BY <2>1, SettledOutside DEF AgreeInv, Settled
  <2>. QED BY <2>1, <2>2, <2>3
           DEF CommandInv, PlaceInv, CopyInv, InstallInv, UninstallInv, UpdateInv, FlagInv, MemoryInv
<1>2. CASE CommandStep
  BY <1>2, FailingAgrees, FindSourceAgrees, ReplaceAgrees, LoadRegistryAgrees, RemoveFilesAgrees,
     StoreRegistryAgrees, WriteSettingsAgrees DEF CommandStep
<1>3. CASE ListStep
  BY <1>3, ListStepAgrees
<1>4. ASSUME NEW p, Release(p) \/ Withdraw(p) \/ Repair(p)
      PROVE  CommandInv'
  <2>1. /\ place = "idle"
        /\ UNCHANGED <<folders, registry, settings, place, command, target, copy, enabled, wanted, spoiled>>
    BY <1>4 DEF Release, Withdraw, Repair, disk, inMemory, storeHistory
  <2>. QED BY <2>1 DEF CommandInv, PlaceInv, CopyInv, InstallInv, UninstallInv, UpdateInv, FlagInv,
                       AgreeInv, Settled, Between, MemoryInv
<1>5. CASE UNCHANGED storeVars
  BY <1>5 DEF storeVars, disk, inMemory, storeHistory, CommandInv, PlaceInv, CopyInv, InstallInv,
     UninstallInv, UpdateInv, FlagInv, Found, AgreeInv, Settled, Between, MemoryInv
<1>. QED BY <1>1, <1>2, <1>3, <1>4, <1>5 DEF StoreNext

(* What a command that succeeded has done to an external plugin holds until*)
(* the next command fails on it: files, record and flag agree.             *)
THEOREM StoresAlwaysAgree == StoreSpec => []StoresAgree
<1>1. TypeInv /\ CommandInv => StoresAgree
  BY SettledOutside DEF TypeInv, CommandInv, MemoryInv, Settled, StoresAgree
<1>2. StoreSpec => []CommandInv
  BY InitAgrees, NextAgrees, StoreTypeCorrect, PTL DEF StoreSpec
<1>. QED BY <1>1, <1>2, StoreTypeCorrect, PTL

-----------------------------------------------------------------------------
(* What a sync leaves.  A step that neither begins nor ends one has to     *)
(* keep the records only.                                                  *)
LEMMA RecordsSuffice ==
  ASSUME BundledInv, place # "idle", RecordsInv', UNCHANGED current,
         place' \notin {"bundled", "sync store", "discover"}
  PROVE  BundledInv'
BY DEF BundledInv, SyncInv, StoredInv, BundledAreCurrent

(* The registry stays, loses records, or has all of them lost.             *)
LEMMA FewerRecords ==
  ASSUME TypeInv, RecordsInv, UNCHANGED <<shipped, folders, interrupted>>,
         \A p \in Bundled : registry'[p] \in {0, registry[p]}
  PROVE  RecordsInv'
<1>1. \A p \in Bundled : registry[p] \in Nat /\ shipped[p] \in Nat
  BY VersionsExist DEF TypeInv, StoreTypeOK, Plugins
<1>. QED BY <1>1 DEF RecordsInv

(* Only a plugin changes that is external, or not shipped.                 *)
LEMMA OtherFolders ==
  ASSUME RecordsInv, UNCHANGED <<shipped, registry, interrupted>>,
         \A p \in Bundled : shipped[p] # 0 => folders'[p] = folders[p]
  PROVE  RecordsInv'
BY DEF RecordsInv

LEMMA RegistryFailsBundled ==
  ASSUME TypeInv, BundledInv, place # "idle", NEW spoils, WriteRegistryFails(spoils),
         UNCHANGED <<folders, interrupted>>
  PROVE  BundledInv'
<1>1. place' = "idle" /\ UNCHANGED <<shipped, current>>
  BY DEF WriteRegistryFails, GiveUp
<1>2. \A p \in Bundled : registry'[p] \in {0, registry[p]}
  BY DEF WriteRegistryFails, NoRecords, Plugins
<1>3. RecordsInv'
  BY <1>1, <1>2, FewerRecords DEF BundledInv
<1>. QED BY <1>1, <1>3, RecordsSuffice

LEMMA CommandBundled == TypeInv /\ CommandInv /\ BundledInv /\ CommandStep => BundledInv'
<1> SUFFICES ASSUME TypeInv, CommandInv, BundledInv, CommandStep PROVE BundledInv'
  OBVIOUS
<1>0. RecordsInv /\ External \cap Bundled = {} /\ target \in Plugins
  BY StoreAssumption DEF BundledInv, TypeInv, StoreTypeOK
<1>1. CASE FindSource
  <2>1. RecordsInv'
    BY <1>0, <1>1, OtherFolders DEF FindSource, disk, storeHistory
  <2>. QED BY <1>1, <2>1, RecordsSuffice DEF FindSource
<1>2. CASE SourceFails \/ LoadRegistryFails \/ WriteSettingsFails
  <2>1. /\ place # "idle" /\ place' = "idle"
        /\ UNCHANGED <<shipped, folders, registry, interrupted, current>>
    BY <1>2 DEF SourceFails, LoadRegistryFails, WriteSettingsFails, GiveUp, disk
  <2>2. RecordsInv'
    BY <1>0, <2>1, OtherFolders
  <2>. QED BY <2>1, <2>2, RecordsSuffice
<1>3. CASE Replace
  <2>1. /\ place = "replace" /\ place' \in {"store", "load"} /\ shipped[target] # 0
        /\ folders' = [folders EXCEPT ![target] = Whole(shipped[target])]
        /\ interrupted' = interrupted \ {target} /\ UNCHANGED <<shipped, registry, current>>
    BY <1>3 DEF Replace, TypeInv, SourcesInv
  <2>2. /\ folders'[target] = Whole(shipped[target])
        /\ \A p \in Plugins \ {target} : folders'[p] = folders[p]
    BY <1>0, <2>1 DEF TypeInv, StoreTypeOK
  <2>3. RecordsInv'
    BY <1>0, <2>1, <2>2 DEF RecordsInv, Plugins
  <2>. QED BY <2>1, <2>3, RecordsSuffice
<1>4. CASE ReplaceFails
  <2>1. /\ place = "replace" /\ place' = "idle" /\ UNCHANGED <<shipped, registry, current>>
        /\ interrupted' = interrupted \cup ({target} \cap Bundled)
    BY <1>4 DEF ReplaceFails, GiveUp
  <2>2. \A p \in Plugins \ {target} : folders'[p] = folders[p]
    BY <1>4 DEF ReplaceFails, TypeInv, StoreTypeOK
  <2>3. RecordsInv'
    BY <1>0, <2>1, <2>2 DEF RecordsInv, Plugins
  <2>. QED BY <2>1, <2>3, RecordsSuffice
<1>5. CASE LoadRegistry
  <2>1. place # "idle" /\ place' \in {"store", "source", "remove"}
        /\ UNCHANGED <<shipped, folders, registry, interrupted, current>>
    BY <1>5 DEF LoadRegistry, disk, storeHistory
  <2>2. RecordsInv'
    BY <1>0, <2>1, OtherFolders
  <2>. QED BY <2>1, <2>2, RecordsSuffice
<1>6. CASE RemoveFiles \/ RemoveFilesFails
  <2>1. /\ place = "remove" /\ place' \in {"store", "idle"}
        /\ UNCHANGED <<shipped, registry, interrupted, current>>
    BY <1>6 DEF RemoveFiles, RemoveFilesFails, GiveUp, storeHistory
  <2>2. target \in External
    BY <2>1 DEF CommandInv, PlaceInv
  <2>3. \A p \in Plugins \ {target} : folders'[p] = folders[p]
    BY <1>6 DEF RemoveFiles, RemoveFilesFails, TypeInv, StoreTypeOK
  <2>4. RecordsInv'
    BY <1>0, <2>1, <2>2, <2>3, OtherFolders DEF Plugins
  <2>. QED BY <2>1, <2>4, RecordsSuffice
<1>7. CASE StoreRegistry
  <2>1. /\ place = "store" /\ place' \in {"sync", "settings"} /\ registry' = copy
        /\ UNCHANGED <<shipped, folders, interrupted, current>>
    BY <1>7 DEF StoreRegistry, storeHistory
  <2>2. \A p \in Plugins \ {target} : copy[p] = registry[p]
    BY <2>1 DEF CommandInv, CopyInv
  <2>3. target \in Bundled =>
          shipped[target] # 0 /\ copy[target] = shipped[target] /\ folders[target] = Whole(shipped[target])
    BY <1>0, <2>1 DEF CommandInv, PlaceInv, UpdateInv
  <2>4. \A p \in Bundled : shipped[p] \in Nat
    BY VersionsExist DEF TypeInv, StoreTypeOK, Plugins
  <2>5. RecordsInv'
    BY <1>0, <2>1, <2>2, <2>3, <2>4 DEF RecordsInv, Plugins
  <2>. QED BY <2>1, <2>5, RecordsSuffice
<1>8. CASE StoreRegistryFails
  BY <1>8, RegistryFailsBundled DEF StoreRegistryFails
<1>9. CASE WriteSettings
  <2>1. /\ place # "idle" /\ place' \in {"sync", "idle"}
        /\ UNCHANGED <<shipped, folders, registry, interrupted, current>>
    BY <1>9 DEF WriteSettings
  <2>2. RecordsInv'
    BY <1>0, <2>1, OtherFolders
  <2>. QED BY <2>1, <2>2, RecordsSuffice
<1>. QED BY <1>1, <1>2, <1>3, <1>4, <1>5, <1>6, <1>7, <1>8, <1>9 DEF CommandStep

LEMMA BeginSyncBundled == TypeInv /\ BundledInv /\ BeginSync => BundledInv'
<1> SUFFICES ASSUME TypeInv, BundledInv, BeginSync PROVE BundledInv'
  OBVIOUS
<1>1. /\ place = "sync" /\ place' = "bundled" /\ copy' = registry
      /\ waiting' = {p \in Bundled : shipped[p] # 0}
      /\ UNCHANGED <<shipped, folders, registry, interrupted, current>>
  BY DEF BeginSync, Shipped, disk, storeHistory
<1>2. ~current
  BY <1>1 DEF BundledInv, StoredInv
<1>. QED BY <1>1, <1>2
         DEF BundledInv, RecordsInv, SyncInv, StoredInv, BundledAreCurrent

(* A plugin is made whole before its record is new.                        *)
LEMMA SyncPluginBundled == TypeInv /\ BundledInv /\ SyncPlugin => BundledInv'
<1> SUFFICES ASSUME TypeInv, BundledInv, SyncPlugin PROVE BundledInv'
  OBVIOUS
<1>1. /\ place = "bundled" /\ place' = "bundled" /\ UNCHANGED <<shipped, registry, current>>
      /\ RecordsInv /\ SyncInv /\ ~current
  BY DEF SyncPlugin, BundledInv, StoredInv
<1>2. PICK p \in waiting :
        /\ IF NeedsSync(p)
             THEN /\ folders' = [folders EXCEPT ![p] = Whole(shipped[p])]
                  /\ copy' = [copy EXCEPT ![p] = shipped[p]]
                  /\ changed' = TRUE
                  /\ interrupted' = interrupted \ {p}
             ELSE UNCHANGED <<folders, copy, changed, interrupted>>
        /\ waiting' = waiting \ {p}
  BY DEF SyncPlugin
<1>3. p \in Bundled /\ p \in Plugins
  BY DEF TypeInv, StoreTypeOK, Plugins
<1>4. CASE NeedsSync(p)
  <2>1. /\ folders'[p] = Whole(shipped[p]) /\ copy'[p] = shipped[p]
        /\ \A q \in Bundled \ {p} : folders'[q] = folders[q] /\ copy'[q] = copy[q]
    BY <1>2, <1>3, <1>4 DEF TypeInv, StoreTypeOK, Plugins
  <2>2. RecordsInv'
    BY <1>1, <1>2, <1>4, <2>1 DEF RecordsInv
  <2>3. SyncInv'
    BY <1>1, <1>2, <1>4, <2>1 DEF SyncInv
  <2>. QED BY <1>1, <2>2, <2>3 DEF BundledInv, StoredInv, BundledAreCurrent
<1>5. CASE ~NeedsSync(p)
  <2>1. copy[p] = shipped[p]
    BY <1>5 DEF NeedsSync
  <2>2. RecordsInv'
    BY <1>1, <1>2, <1>5 DEF RecordsInv
  <2>3. SyncInv'
    BY <1>1, <1>2, <1>5, <2>1 DEF SyncInv
  <2>. QED BY <1>1, <2>2, <2>3 DEF BundledInv, StoredInv, BundledAreCurrent
<1>. QED BY <1>4, <1>5

LEMMA DropStaleBundled == TypeInv /\ BundledInv /\ DropStale => BundledInv'
<1> SUFFICES ASSUME TypeInv, BundledInv, DropStale PROVE BundledInv'
  OBVIOUS
<1>1. /\ place = "bundled" /\ waiting = {} /\ RecordsInv /\ SyncInv /\ ~current
      /\ place' = (IF changed \/ StaleBundled # {} THEN "sync store" ELSE "discover")
      /\ UNCHANGED <<shipped, registry, interrupted, current>>
  BY DEF DropStale, BundledInv, StoredInv, storeHistory
<1>2. \A p \in Bundled :
        /\ p \in StaleBundled <=> copy[p] # 0 /\ shipped[p] = 0
        /\ folders'[p] = (IF p \in StaleBundled THEN NoFiles ELSE folders[p])
        /\ copy'[p] = (IF p \in StaleBundled THEN 0 ELSE copy[p])
  BY DEF DropStale, StaleBundled, Plugins
<1>3. RecordsInv'
  BY <1>1, <1>2, OtherFolders
<1>4. UpToDate(copy)'
  BY <1>1, <1>2 DEF UpToDate, SyncInv
<1>5. place' = "discover" => UpToDate(registry)'
  <2> SUFFICES ASSUME place' = "discover" PROVE UpToDate(registry)'
    OBVIOUS
  <2>1. copy = registry /\ \A p \in Bundled : copy'[p] = registry'[p]
    BY <1>1, <1>2 DEF SyncInv
  <2>. QED BY <1>4, <2>1 DEF UpToDate
<1>. QED BY <1>1, <1>3, <1>4, <1>5 DEF BundledInv, SyncInv, StoredInv, BundledAreCurrent

(* A sync that fails has only touched what its record will mend.           *)
LEMMA SyncFailsBundled ==
  ASSUME TypeInv, BundledInv, SyncFails, UNCHANGED interrupted
  PROVE  BundledInv'
<1>1. /\ place \in {"sync", "bundled"} /\ place' = "idle"
      /\ UNCHANGED <<shipped, registry, current>> /\ RecordsInv
  BY DEF SyncFails, GiveUp, disk, BundledInv
<1>2. CASE UNCHANGED disk
  <2>1. RecordsInv'
    BY <1>1, <1>2, OtherFolders DEF disk
  <2>. QED BY <1>1, <2>1, RecordsSuffice
<1>3. ASSUME place = "bundled", NEW p \in waiting, NeedsSync(p),
             NEW d, folders' = [folders EXCEPT ![p] = d]
      PROVE  BundledInv'
  <2>1. p \in Bundled /\ shipped[p] # 0
    BY <1>3 DEF TypeInv, SourcesInv, StoreTypeOK
  <2>2. \A q \in Bundled \ {p} : folders'[q] = folders[q]
    BY <1>3 DEF TypeInv, StoreTypeOK, Plugins
  <2>3. p \notin interrupted => registry[p] # shipped[p]
    <3> SUFFICES ASSUME p \notin interrupted, registry[p] = shipped[p] PROVE FALSE
      OBVIOUS
    <3>1. copy[p] = shipped[p] /\ folders[p] = Whole(shipped[p])
      BY <1>1, <1>3, <2>1 DEF BundledInv, SyncInv, RecordsInv
    <3>. QED BY <1>3, <3>1 DEF NeedsSync, Loadable, Whole, Directory
  <2>4. RecordsInv'
    BY <1>1, <2>1, <2>2, <2>3 DEF RecordsInv
  <2>. QED BY <1>1, <2>4, RecordsSuffice
<1>4. ASSUME NEW p \in StaleBundled, NEW gone \in SUBSET StaleBundled, NEW d,
             folders' = [q \in Plugins |-> IF q = p THEN d ELSE IF q \in gone THEN NoFiles ELSE folders[q]]
      PROVE  BundledInv'
  <2>1. \A q \in Bundled : shipped[q] # 0 => folders'[q] = folders[q]
    BY <1>4 DEF StaleBundled, Plugins
  <2>2. RecordsInv'
    BY <1>1, <2>1, OtherFolders
  <2>. QED BY <1>1, <2>2, RecordsSuffice
<1>. QED BY <1>2, <1>3, <1>4 DEF SyncFails

LEMMA StoreSyncBundled == TypeInv /\ BundledInv /\ StoreSync => BundledInv'
<1> SUFFICES ASSUME TypeInv, BundledInv, StoreSync PROVE BundledInv'
  OBVIOUS
<1>1. /\ place = "sync store" /\ place' = "discover" /\ registry' = copy
      /\ UNCHANGED <<shipped, folders, interrupted, current>>
      /\ UpToDate(copy) /\ ~current
  BY DEF StoreSync, BundledInv, StoredInv, storeHistory
<1>2. UpToDate(registry)'
  BY <1>1 DEF UpToDate
<1>3. \A p \in Bundled : shipped[p] \in Nat
  BY VersionsExist DEF TypeInv, StoreTypeOK, Plugins
<1>4. \A p \in Bundled :
        /\ registry'[p] = shipped'[p] /\ shipped'[p] <= shipped'[p]
        /\ (shipped'[p] # 0 /\ p \notin interrupted') => folders'[p] = Whole(shipped'[p])
  <2>1. UpToDate(copy)
    BY <1>1
  <2> SUFFICES ASSUME NEW p \in Bundled
               PROVE  /\ registry'[p] = shipped'[p] /\ shipped'[p] <= shipped'[p]
                      /\ (shipped'[p] # 0 /\ p \notin interrupted') => folders'[p] = Whole(shipped'[p])
    OBVIOUS
  <2>2. /\ copy[p] = shipped[p]
        /\ (shipped[p] # 0 /\ p \notin interrupted) => folders[p] = Whole(shipped[p])
    BY <2>1 DEF UpToDate
  <2>3. shipped[p] <= shipped[p]
    BY <1>3
  <2>. QED BY <1>1, <2>2, <2>3
<1>5. RecordsInv'
  BY <1>4 DEF RecordsInv
<1>. QED BY <1>1, <1>2, <1>5 DEF BundledInv, SyncInv, StoredInv, BundledAreCurrent

LEMMA DiscoverBundled == TypeInv /\ BundledInv /\ Discover => BundledInv'
<1> SUFFICES ASSUME TypeInv, BundledInv, Discover PROVE BundledInv'
  OBVIOUS
<1>1. /\ place = "discover" /\ registry' = Pruned
      /\ \A p \in Plugins : folders[p].state # "broken"
      /\ place' \in {"settings", "idle"} /\ (current' => place' = "idle")
      /\ UNCHANGED <<shipped, folders, interrupted>> /\ UpToDate(registry) /\ RecordsInv
  BY DEF Discover, BundledInv, StoredInv, storeHistory
<1>2. \A p \in Plugins : registry'[p] = IF p \in StaleRecords THEN 0 ELSE registry[p]
  BY <1>1 DEF Pruned
<1>3. RecordsInv'
  BY <1>1, <1>2, FewerRecords DEF Plugins
<1>4. ASSUME NEW p \in Bundled \ interrupted, shipped[p] # 0
      PROVE  folders[p] = Whole(shipped[p]) /\ registry'[p] = shipped[p]
  <2>1. folders[p] = Whole(shipped[p]) /\ registry[p] = shipped[p]
    BY <1>1, <1>4 DEF UpToDate
  <2>2. p \notin StaleRecords
    BY <2>1 DEF StaleRecords, Whole, Directory
  <2>. QED BY <1>2, <2>1, <2>2 DEF Plugins
<1>5. ASSUME NEW p \in Plugins, registry'[p] # 0
      PROVE  Loadable(folders[p])
  <2>1. p \notin StaleRecords /\ registry[p] # 0
    BY <1>2, <1>5
  <2>. QED BY <1>1, <2>1 DEF StaleRecords, Loadable, TypeInv, StoreTypeOK
<1>6. \A p \in Bundled : shipped[p] = 0 => registry'[p] = 0
  BY <1>1, <1>2 DEF UpToDate, Plugins
<1>. QED BY <1>1, <1>3, <1>4, <1>5, <1>6 DEF BundledInv, SyncInv, StoredInv, BundledAreCurrent

LEMMA DiscoverFailsBundled == TypeInv /\ BundledInv /\ DiscoverFails => BundledInv'
<1> SUFFICES ASSUME TypeInv, BundledInv, DiscoverFails PROVE BundledInv'
  OBVIOUS
<1>1. place = "discover" /\ UNCHANGED <<folders, interrupted>>
  BY DEF DiscoverFails
<1>2. CASE GiveUp({}) /\ UNCHANGED <<registry, torn>>
  <2>1. place' = "idle" /\ UNCHANGED <<shipped, current>>
    BY <1>2 DEF GiveUp
  <2>2. RecordsInv'
    BY <1>1, <1>2, <2>1, OtherFolders DEF BundledInv
  <2>. QED BY <1>1, <2>1, <2>2, RecordsSuffice
<1>3. CASE WriteRegistryFails({})
  BY <1>1, <1>3, RegistryFailsBundled
<1>. QED BY <1>2, <1>3 DEF DiscoverFails

LEMMA InitBundled == StoreInit => BundledInv
<1> SUFFICES ASSUME StoreInit PROVE BundledInv
  OBVIOUS
<1>1. \A p \in Bundled : registry[p] = 0 /\ shipped[p] = 1
  BY DEF StoreInit, NoRecords, Plugins
<1>. QED BY <1>1 DEF StoreInit, BundledInv, RecordsInv, SyncInv, StoredInv, BundledAreCurrent

LEMMA NextBundled == TypeInv /\ CommandInv /\ BundledInv /\ [StoreNext]_storeVars => BundledInv'
<1> SUFFICES ASSUME TypeInv, CommandInv, BundledInv, [StoreNext]_storeVars PROVE BundledInv'
  OBVIOUS
<1>1. ASSUME NEW c \in PluginCommands, NEW p \in Plugins, BeginCommand(c, p)
      PROVE  BundledInv'
  <2>1. /\ place' \in {"sync", "source", "load"} /\ ~current'
        /\ UNCHANGED <<shipped, folders, registry, interrupted>>
    BY <1>1 DEF BeginCommand, disk, storeHistory
  <2>2. RecordsInv'
    BY <2>1, OtherFolders DEF BundledInv
  <2>. QED BY <2>1, <2>2 DEF BundledInv, SyncInv, StoredInv, BundledAreCurrent
<1>2. CASE CommandStep
  BY <1>2, CommandBundled
<1>3. CASE ListStep
  <2>1. CASE StoreSyncFails /\ UNCHANGED interrupted
    BY <2>1, RegistryFailsBundled DEF StoreSyncFails
  <2>. QED BY <1>3, <2>1, BeginSyncBundled, SyncPluginBundled, DropStaleBundled, SyncFailsBundled,
              StoreSyncBundled, DiscoverBundled, DiscoverFailsBundled DEF ListStep
<1>4. ASSUME NEW p \in Plugins, Release(p) \/ Withdraw(p)
      PROVE  BundledInv'
  <2>1. /\ place = "idle" /\ place' = "idle" /\ ~current'
        /\ UNCHANGED <<folders, registry, interrupted>>
    BY <1>4 DEF Release, Withdraw, disk, storeHistory
  <2>2. /\ \A q \in Plugins \ {p} : shipped'[q] = shipped[q]
        /\ shipped'[p] = 0 \/ (shipped[p] # 0 /\ shipped'[p] = shipped[p] + 1)
    BY <1>4 DEF Release, Withdraw, TypeInv, StoreTypeOK
  <2>3. \A q \in Plugins : registry[q] \in Nat /\ shipped[q] \in Nat
    BY VersionsExist DEF TypeInv, StoreTypeOK
  <2>4. RecordsInv'
    BY <2>1, <2>2, <2>3 DEF BundledInv, RecordsInv, Plugins
  <2>. QED BY <2>1, <2>4 DEF BundledInv, SyncInv, StoredInv, BundledAreCurrent
<1>5. CASE UNCHANGED storeVars \/ \E file : Repair(file)
  <2>1. UNCHANGED <<shipped, folders, registry, settings, place, copy, waiting, changed, current, interrupted>>
    BY <1>5 DEF storeVars, Repair, disk, inMemory, storeHistory
  <2>. QED BY <2>1 DEF BundledInv, RecordsInv, SyncInv, StoredInv, UpToDate, BundledAreCurrent
<1>. QED BY <1>1, <1>2, <1>3, <1>4, <1>5 DEF StoreNext

(* After a listing that succeeded the bundled plugins are there and of the *)
(* shipped version, and every record has files that load -- whatever syncs *)
(* and commands failed before, wherever they failed.                       *)
THEOREM PluginsStayConsistent == StoreSpec => []PluginsAreConsistent
<1>1. BundledInv => BundledAreCurrent
  BY DEF BundledInv
<1>2. StoreSpec => []CommandInv
  BY InitAgrees, NextAgrees, StoreTypeCorrect, PTL DEF StoreSpec
<1>3. StoreSpec => []BundledInv
  BY <1>2, InitBundled, NextBundled, StoreTypeCorrect, PTL DEF StoreSpec
<1>4. StoresAgree /\ BundledAreCurrent => PluginsAreConsistent
  BY DEF PluginsAreConsistent
<1>. QED BY <1>1, <1>3, <1>4, StoresAlwaysAgree, PTL
=============================================================================
