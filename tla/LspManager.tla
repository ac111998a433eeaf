----------------------------- MODULE LspManager -----------------------------
(***************************************************************************)
(* The table of language-server clients (lsp/src/manager.rs): one client   *)
(* per server, made by the first caller that needs it while it holds the   *)
(* lock of the whole table, and a shutdown that empties the table and      *)
(* stops the clients one after the other, without the lock.  A client is a *)
(* process and the requests that wait for its answers, without a timeout:  *)
(* one whose output ends in the middle of a message fails them, one whose  *)
(* output ends between two leaves them waiting (client.rs).  What a client *)
(* does besides is module LspClient.                                       *)
(***************************************************************************)
EXTENDS Naturals, Sequences, SequencesExt, FiniteSets

CONSTANTS
  Callers,     \* tasks that call the manager
  Servers,     \* names of configured servers
  MaxStarted,  \* bound: processes started
  MaxCalls     \* bound: calls begun

ASSUME ManagerAssumption == MaxStarted \in Nat /\ MaxCalls \in Nat

Nobody == "nobody"
ASSUME CallersAssumption == Nobody \notin Callers

VARIABLES
  at,       \* where a caller is
  server,   \* the server its call is about
  client,   \* the client it has or is making: a number, or 0
  drained,  \* the clients its shutdown has taken and not yet stopped
  lock,     \* who holds the lock of the table
  clients,  \* the table: server -> client, 0 if none
  process,  \* client -> its server and its process
  calls,    \* history: calls begun
  lost      \* history: clients dropped before their process was stopped

vars == <<at, server, client, drained, lock, clients, process, calls, lost>>

Started == DOMAIN process
Connecting == {"initialize", "greeted"}
Goto(c, place) == at' = [at EXCEPT ![c] = place]
Running(n) == process[n].state \in {"up", "silent"}

(* A request can be written to a process that runs.  It is answered by one *)
(* that is up, and fails when the output was cut off; else it waits.       *)
Returns(n) == process[n].state = "up" \/ process[n].cut

Init ==
  /\ at = [c \in Callers |-> "idle"]
  /\ server \in [Callers -> Servers]
  /\ client = [c \in Callers |-> 0] /\ drained = [c \in Callers |-> <<>>]
  /\ lock = Nobody /\ clients = [s \in Servers |-> 0]
  /\ process = <<>> /\ calls = 0 /\ lost = {}

(* A call about a document of server s, or the manager's shutdown.         *)
Call(c, s, place) ==
  /\ at[c] = "idle" /\ calls < MaxCalls
  /\ calls' = calls + 1
  /\ server' = [server EXCEPT ![c] = s]
  /\ Goto(c, place)
  /\ UNCHANGED <<client, drained, lock, clients, process, lost>>

Find(c) ==
  /\ at[c] = "find" /\ lock = Nobody
  /\ clients[server[c]] # 0
  /\ client' = [client EXCEPT ![c] = clients[server[c]]]
  /\ Goto(c, "use")
  /\ UNCHANGED <<server, drained, lock, clients, process, calls, lost>>

(* connect runs under the lock.  First, one that lets the lock go before.  *)
ConnectUnlocked(c) == Nobody
ConnectLocked(c) == c
HolderWhileConnecting(c) == ConnectLocked(c)

StartServer(c) ==
  /\ at[c] = "find" /\ lock = Nobody
  /\ clients[server[c]] = 0 /\ Len(process) < MaxStarted
  /\ process' = Append(process, [of |-> server[c], state |-> "up", cut |-> FALSE])
  /\ client' = [client EXCEPT ![c] = Len(process) + 1]
  /\ lock' = HolderWhileConnecting(c)
  /\ Goto(c, "initialize")
  /\ UNCHANGED <<server, drained, clients, calls, lost>>

(* The command cannot be spawned.                                          *)
SpawnFails(c) ==
  /\ at[c] = "find" /\ lock = Nobody
  /\ clients[server[c]] = 0
  /\ Goto(c, "idle")
  /\ UNCHANGED <<server, client, drained, lock, clients, process, calls, lost>>

(* The request to initialize is written.                                   *)
Greet(c) ==
  /\ at[c] = "initialize" /\ Running(client[c])
  /\ Goto(c, "greeted")
  /\ UNCHANGED <<server, client, drained, lock, clients, process, calls, lost>>

(* Its answer comes, and "initialized" is written.                         *)
InTable(c) == [clients EXCEPT ![server[c]] = client[c]]
TableWith(c) == InTable(c)

Initialized(c) ==
  /\ at[c] = "greeted"
  /\ process[client[c]].state = "up"
  /\ clients' = TableWith(c)
  /\ lock' = Nobody
  /\ Goto(c, "use")
  /\ UNCHANGED <<server, client, drained, process, calls, lost>>

(* It cannot be written, or the answer is an error: the client is dropped, *)
(* its process is not stopped.                                             *)
InitializeFails(c) ==
  /\ \/ at[c] = "initialize" /\ ~Running(client[c])
     \/ at[c] = "greeted" /\ Returns(client[c])
  /\ lost' = lost \cup {client[c]}
  /\ client' = [client EXCEPT ![c] = 0]
  /\ lock' = Nobody
  /\ Goto(c, "idle")
  /\ UNCHANGED <<server, drained, clients, process, calls>>

(* A query waits for its answer; a notification that is written, and what  *)
(* cannot be, ends the call.                                               *)
Query(c) ==
  /\ at[c] = "use" /\ Running(client[c])
  /\ Goto(c, "queried")
  /\ UNCHANGED <<server, client, drained, lock, clients, process, calls, lost>>

Use(c) ==
  /\ at[c] = "use" \/ (at[c] = "queried" /\ Returns(client[c]))
  /\ client' = [client EXCEPT ![c] = 0]
  /\ Goto(c, "idle")
  /\ UNCHANGED <<server, drained, lock, clients, process, calls, lost>>

InUse == {n \in Started : \E s \in Servers : clients[s] = n}

(* What a shutdown leaves in the table; first, everything.                 *)
Undrained == clients
Cleared == [s \in Servers |-> 0]
AfterDrain == Cleared

(* The lock is let go before the clients are stopped; first, one that is   *)
(* not.                                                                    *)
StopsLocked(c)   == c
StopsUnlocked(c) == Nobody
HolderWhileStopping(c) == StopsUnlocked(c)

Drain(c) ==
  /\ at[c] = "drain" /\ lock = Nobody
  /\ drained' = [drained EXCEPT ![c] = SetToSeq(InUse)]
  /\ clients' = AfterDrain
  /\ lock' = HolderWhileStopping(c)
  /\ Goto(c, "stop")
  /\ UNCHANGED <<server, client, process, calls, lost>>

(* LspClient::shutdown: its request is written, and waits.                 *)
AskToStop(c) ==
  /\ at[c] = "stop" /\ drained[c] # <<>> /\ Running(Head(drained[c]))
  /\ Goto(c, "stopping")
  /\ UNCHANGED <<server, client, drained, lock, clients, process, calls, lost>>

(* Whatever the answer, the process is killed: its output is cut off or    *)
(* just ends.  First, a shutdown that ends after the first client.         *)
StopAtFirst(c) == <<>>
RestOf(c) == Tail(drained[c])
StillToStop(c) == RestOf(c)

Ended(n, state) ==
  \E cut \in BOOLEAN :
    /\ Running(n) \/ cut = process[n].cut
    /\ process' = [process EXCEPT ![n] = [of |-> process[n].of, state |-> state, cut |-> cut]]

StopNext(c) ==
  /\ drained[c] # <<>>
  /\ \/ at[c] = "stop" /\ ~Running(Head(drained[c]))
     \/ at[c] = "stopping" /\ Returns(Head(drained[c]))
  /\ Ended(Head(drained[c]), "stopped")
  /\ drained' = [drained EXCEPT ![c] = StillToStop(c)]
  /\ Goto(c, "stop")
  /\ UNCHANGED <<server, client, lock, clients, calls, lost>>

StopEnds(c) ==
  /\ at[c] = "stop" /\ drained[c] = <<>>
  /\ Goto(c, "idle")
  /\ UNCHANGED <<server, client, drained, lock, clients, process, calls, lost>>

(* The caller's future is dropped, and with it its guard and its clients.  *)
Abandon(c) ==
  /\ at[c] # "idle"
  /\ lost' = lost \cup ToSet(drained[c])
                  \cup (IF at[c] \in Connecting THEN {client[c]} ELSE {})
  /\ drained' = [drained EXCEPT ![c] = <<>>]
  /\ client' = [client EXCEPT ![c] = 0]
  /\ lock' = IF lock = c THEN Nobody ELSE lock
  /\ Goto(c, "idle")
  /\ UNCHANGED <<server, clients, process, calls>>

(* collect_workspace_diagnostics: takes the clients of the table, makes    *)
(* none, and reads what each has kept.                                     *)
Collect(c) ==
  /\ at[c] = "collect" /\ lock = Nobody
  /\ Goto(c, "idle")
  /\ UNCHANGED <<server, client, drained, lock, clients, process, calls, lost>>

(* External: a server stops answering, or dies.                            *)
FallSilent(n) ==
  /\ process[n].state = "up"
  /\ process' = [process EXCEPT ![n].state = "silent"]
  /\ UNCHANGED <<at, server, client, drained, lock, clients, calls, lost>>

Die(n) ==
  /\ Running(n) /\ Ended(n, "dead")
  /\ UNCHANGED <<at, server, client, drained, lock, clients, calls, lost>>

CallerStep(c) ==
  \/ Find(c) \/ StartServer(c) \/ SpawnFails(c)
  \/ Greet(c) \/ Initialized(c) \/ InitializeFails(c) \/ Query(c) \/ Use(c)
  \/ Drain(c) \/ AskToStop(c) \/ StopNext(c) \/ StopEnds(c) \/ Collect(c)

Next ==
  \/ \E c \in Callers :
       \/ CallerStep(c) \/ Abandon(c)
       \/ \E s \in Servers : Call(c, s, "find")
       \/ \E place \in {"drain", "collect"} : Call(c, server[c], place)
  \/ \E n \in Started : FallSilent(n) \/ Die(n)

(* A task goes on when it can: the lock is fair (it queues), so each       *)
(* caller gets it when it is free again and again.                         *)
Spec ==
  /\ Init /\ [][Next]_vars
  /\ \A c \in Callers : SF_vars(CallerStep(c))

-----------------------------------------------------------------------------
Places ==
  Connecting \cup {"idle", "find", "use", "queried", "drain", "stop", "stopping", "collect"}

TypeOK ==
  /\ at \in [Callers -> Places] /\ server \in [Callers -> Servers]
  /\ process \in Seq([of : Servers,
                      state : {"up", "silent", "dead", "stopped"}, cut : BOOLEAN])
  /\ client \in [Callers -> Started \cup {0}]
  /\ drained \in [Callers -> Seq(Started)]
  /\ lock \in Callers \cup {Nobody}
  /\ \A c \in Callers :
       /\ at[c] \in Connecting <=> lock = c
       /\ at[c] \in Connecting \cup {"use", "queried"} => client[c] # 0
       /\ at[c] = "stopping" => drained[c] # <<>>
  /\ clients \in [Servers -> Started \cup {0}]
  /\ calls \in Nat /\ lost \subseteq Started

(* The table has a client under its own server's name, never one that was  *)
(* stopped or that a shutdown is about to stop: whoever asks gets one that *)
(* nobody ends behind his back, unless he has it already.                  *)
TableIsFresh ==
  \A s \in Servers : clients[s] # 0 =>
    /\ process[clients[s]].of = s
    /\ process[clients[s]].state # "stopped"
    /\ \A c \in Callers : ~Contains(drained[c], clients[s])

(* The inductive form: a client that is being initialized is not yet in    *)
(* the table, nobody is about to stop it, and its server has no other.     *)
Initializing ==
  \A c \in Callers : at[c] \in Connecting =>
    /\ process[client[c]].of = server[c]
    /\ clients[server[c]] = 0
    /\ \A d \in Callers : ~Contains(drained[d], client[c])

TableInv == TableIsFresh /\ Initializing

(* No process is forgotten: one that runs is in the table, being           *)
(* initialized or being stopped, or was lost because its initialize failed *)
(* or the caller that had it went away.                                    *)
ProcessesAreAccounted ==
  \A n \in Started : Running(n) =>
    \/ n \in InUse \cup lost
    \/ \E c \in Callers : Contains(drained[c], n) \/ (at[c] \in Connecting /\ client[c] = n)

(* A client in the table is never replaced by another: two callers that    *)
(* need a server at the same time get the same one.                        *)
NeverReplaced ==
  [][\A s \in Servers :
       clients[s] # 0 => clients'[s] \in {0, clients[s]}]_vars

(* Everyone gets on, but for who waits for an answer that cannot come any  *)
(* more, because the server is silent or its output has ended between two  *)
(* messages -- that of a process that died or that another caller stopped. *)
(* Such a caller waits for ever: in a query, in his shutdown, or holding   *)
(* the lock; and in that case only do others wait with him.                *)
Mute(n) ==
  process[n].state = "silent" \/ (process[n].state \in {"dead", "stopped"} /\ ~process[n].cut)
CallersGetOn ==
  \A c \in Callers :
    (at[c] # "idle") ~>
      \/ at[c] = "idle"
      \/ lock # Nobody /\ at[lock] = "greeted" /\ Mute(client[lock])
      \/ at[c] = "queried" /\ Mute(client[c])
      \/ at[c] = "stopping" /\ Mute(Head(drained[c]))
=============================================================================
