------------------------- MODULE LspManager_proofs -------------------------
(***************************************************************************)
(* Proofs about LspManager: the table of clients holds, for each server,   *)
(* a client of that server that no shutdown has stopped or is about to     *)
(* stop, and never replaces it by another -- for any number of callers and *)
(* servers, whatever fails and whoever is dropped.                         *)
(* And about LineEditor: whatever keys are pressed, in whatever order and  *)
(* mode, texts keep their characters whole, cursors stay between them, and *)
(* what was typed comes back from the history.                             *)
(***************************************************************************)
EXTENDS LspManager, LineEditor, FiniteSetTheorems, SequenceTheorems, WellFoundedInduction, TLAPS

States == {"up", "silent", "dead", "stopped"}
Processes == [of : Servers, state : States, cut : BOOLEAN]

-----------------------------------------------------------------------------
(* The sequences the manager works with.                                   *)
LEMMA StartedIsInterval ==
  ASSUME process \in Seq(Processes)
  PROVE  /\ Len(process) \in Nat /\ Started = 1..Len(process)
         /\ IsFiniteSet(Started) /\ Started \subseteq Nat /\ 0 \notin Started
<1>1. Len(process) \in Nat /\ Started = 1..Len(process)
  BY DEF Started
<1>. QED BY <1>1, FS_Interval

LEMMA StartedGrows ==
  ASSUME process \in Seq(Processes), NEW p \in Processes,
         process' = Append(process, p)
  PROVE  /\ process' \in Seq(Processes)
         /\ Len(process') = Len(process) + 1
         /\ Started' = Started \cup {Len(process) + 1}
         /\ process'[Len(process) + 1] = p
         /\ \A n \in Started : process'[n] = process[n]
<1>1. /\ process' \in Seq(Processes) /\ Len(process') = Len(process) + 1
      /\ \A n \in 1..Len(process) : process'[n] = process[n]
      /\ process'[Len(process) + 1] = p
  BY AppendProperties
<1>2. Len(process) \in Nat /\ Started = 1..Len(process) /\ Started' = 1..Len(process')
  BY <1>1 DEF Started
<1>. QED BY <1>1, <1>2

LEMMA ProcessChanges ==
  ASSUME process \in Seq(Processes), NEW n \in Started, NEW p \in Processes,
         p.of = process[n].of, process' = [process EXCEPT ![n] = p]
  PROVE  /\ process' \in Seq(Processes)
         /\ Len(process') = Len(process)
         /\ Started' = Started
         /\ process'[n] = p
         /\ \A m \in Started : process'[m].of = process[m].of
         /\ \A m \in Started \ {n} : process'[m] = process[m]
<1>1. Len(process) \in Nat /\ Started = 1..Len(process)
  BY StartedIsInterval
<1>2. process \in [1..Len(process) -> Processes]
  OBVIOUS
<1>4. process' \in [1..Len(process) -> Processes]
  BY <1>1, <1>2
<1>5. process' \in Seq(Processes)
  BY <1>1, <1>4, SeqDef
<1>6. Len(process') = Len(process) /\ Started' = Started
  BY <1>1, <1>4 DEF Started
<1>7. process'[n] = p /\ process'[n].of = process[n].of
  BY <1>1, <1>2
<1>8. \A m \in Started \ {n} : process'[m] = process[m]
  BY <1>1, <1>2
<1>. QED BY <1>5, <1>6, <1>7, <1>8

(* What happens to a process leaves the others alone, and starts none.     *)
LEMMA ProcessEnds ==
  ASSUME process \in Seq(Processes), NEW n \in Started,
         NEW st \in {"dead", "stopped"}, Ended(n, st)
  PROVE  /\ process' \in Seq(Processes)
         /\ Started' = Started
         /\ process'[n].state = st
         /\ \A m \in Started : process'[m].of = process[m].of
         /\ \A m \in Started \ {n} : process'[m] = process[m]
<1>1. process[n] \in Processes
  BY StartedIsInterval
<1>2. PICK cut \in BOOLEAN :
        process' = [process EXCEPT ![n] = [of |-> process[n].of, state |-> st, cut |-> cut]]
  BY DEF Ended
<1>3. [of |-> process[n].of, state |-> st, cut |-> cut] \in Processes
  BY <1>1 DEF Processes, States
<1>4. PICK p \in Processes : /\ process' = [process EXCEPT ![n] = p]
                             /\ p.of = process[n].of /\ p.state = st
  BY <1>2, <1>3
<1>. QED BY <1>4, ProcessChanges

LEMMA ServerActs ==
  ASSUME process \in Seq(Processes), NEW n \in Started, FallSilent(n) \/ Die(n)
  PROVE  /\ process' \in Seq(Processes)
         /\ Started' = Started
         /\ process[n].state \in {"up", "silent"}
         /\ process'[n].state \in {"silent", "dead"}
         /\ \A m \in Started : process'[m].of = process[m].of
         /\ \A m \in Started \ {n} : process'[m] = process[m]
<1>1. process[n] \in Processes
  BY StartedIsInterval
<1>2. CASE FallSilent(n)
  <2>1. [process[n] EXCEPT !.state = "silent"] \in Processes
    BY <1>1 DEF Processes, States
  <2>2. [process[n] EXCEPT !.state = "silent"].of = process[n].of
    BY <1>1 DEF Processes
  <2>3. process' = [process EXCEPT ![n] = [process[n] EXCEPT !.state = "silent"]]
    BY <1>2 DEF FallSilent
  <2>4. [process[n] EXCEPT !.state = "silent"].state = "silent"
    BY <1>1 DEF Processes
  <2>. QED BY <1>2, <2>1, <2>2, <2>3, <2>4, ProcessChanges DEF FallSilent
<1>3. CASE Die(n)
  BY <1>3, ProcessEnds DEF Die, Running
<1>. QED BY <1>2, <1>3

(* SetToSeq lists a set: all of it, and nothing else.                      *)
LEMMA SetToSeqLists ==
  ASSUME NEW S, IsFiniteSet(S)
  PROVE  /\ SetToSeq(S) \in Seq(S)
         /\ \A e \in S : Contains(SetToSeq(S), e)
<1>1. Cardinality(S) \in Nat /\ ExistsBijection(1..Cardinality(S), S)
  BY FS_CardinalityType
<1>2. PICK f \in Bijection(1..Cardinality(S), S) : TRUE
  BY <1>1 DEF ExistsBijection
<1>3. f \in [1..Cardinality(S) -> S] /\ IsInjective(f)
  BY <1>2 DEF Bijection, Injection, IsInjective
<1>4. SetToSeq(S) \in [1..Cardinality(S) -> S] /\ IsInjective(SetToSeq(S))
  BY <1>3 DEF SetToSeq
<1>5. SetToSeq(S) \in Seq(S) /\ Len(SetToSeq(S)) = Cardinality(S)
  BY <1>1, <1>4, SeqDef
<1>6. SetToSeq(S) \in Surjection(1..Cardinality(S), S)
  <2>1. SetToSeq(S) \in Injection(1..Cardinality(S), S)
    BY <1>4 DEF Injection, IsInjective
  <2>2. Cardinality(1..Cardinality(S)) = Cardinality(S)
    BY <1>1, FS_Interval
  <2>. QED BY <2>1, <2>2, FS_Injection
<1>7. \A e \in S : \E i \in 1..Len(SetToSeq(S)) : SetToSeq(S)[i] = e
  BY <1>5, <1>6 DEF Surjection
<1>. QED BY <1>5, <1>7 DEF Contains

LEMMA TailHasLess ==
  ASSUME NEW S, NEW q \in Seq(S), q # <<>>
  PROVE  /\ Tail(q) \in Seq(S) /\ Head(q) \in S /\ Contains(q, Head(q))
         /\ \A e : Contains(Tail(q), e) => Contains(q, e)
         /\ \A e : Contains(q, e) => e = Head(q) \/ Contains(Tail(q), e)
<1>1. /\ Len(q) \in Nat \ {0} /\ Tail(q) \in Seq(S) /\ Len(Tail(q)) = Len(q) - 1
      /\ \A i \in 1..(Len(q) - 1) : Tail(q)[i] = q[i + 1]
      /\ Head(q) = q[1]
  OBVIOUS
<1>2. ASSUME NEW e, Contains(q, e), e # Head(q)
      PROVE  Contains(Tail(q), e)
  <2>1. PICK i \in 1..Len(q) : q[i] = e
    BY <1>2 DEF Contains
  <2>2. i - 1 \in 1..Len(Tail(q)) /\ Tail(q)[i - 1] = e
    BY <1>1, <1>2, <2>1
  <2>. QED BY <2>2 DEF Contains
<1>. QED BY <1>1, <1>2 DEF Contains

-----------------------------------------------------------------------------
(* Steps that change no more than what a caller holds and where it is.     *)
Quiet(c) ==
  \/ Find(c) \/ SpawnFails(c) \/ Greet(c) \/ Query(c) \/ Use(c) \/ AskToStop(c)
  \/ StopEnds(c) \/ Collect(c)

LEMMA InitType == Init => TypeOK
<1> SUFFICES ASSUME Init PROVE TypeOK
  OBVIOUS
<1>1. <<>> \in Seq(Processes) /\ Started = {}
  BY DEF Init, Started
<1>2. <<>> \in Seq(Started)
  OBVIOUS
<1>. QED BY <1>1, <1>2, CallersAssumption DEF Init, TypeOK, Places, Processes, States, Connecting

USE DEF Places, Processes, States, Goto, Connecting

(* Every step keeps the types.                                             *)
LEMMA NextType == TypeOK /\ [Next]_vars => TypeOK'
<1> SUFFICES ASSUME TypeOK, [Next]_vars PROVE TypeOK'
  OBVIOUS
<1>0. process \in Seq(Processes) /\ Started = 1..Len(process) /\ Len(process) \in Nat
      /\ IsFiniteSet(Started)
  BY StartedIsInterval DEF TypeOK
<1>1. ASSUME NEW c \in Callers, NEW s \in Servers, NEW place \in {"find", "drain", "collect"},
             Call(c, s, place)
      PROVE  TypeOK'
  BY <1>1, CallersAssumption DEF Call, TypeOK, Started
<1>2. ASSUME NEW c \in Callers, Quiet(c)
      PROVE  TypeOK'
  BY <1>2, CallersAssumption DEF Quiet, Find, SpawnFails, Greet, Query, Use, AskToStop, StopEnds, Collect, TypeOK, Started
<1>3. ASSUME NEW c \in Callers, StartServer(c) PROVE TypeOK'
  <2>1. [of |-> server[c], state |-> "up", cut |-> FALSE] \in Processes
    BY DEF TypeOK
  <2>2. /\ process' \in Seq(Processes)
        /\ Started' = Started \cup {Len(process) + 1}
    BY <1>0, <1>3, <2>1, StartedGrows DEF StartServer
  <2>3. drained' \in [Callers -> Seq(Started')]
    BY <1>3, <2>2 DEF StartServer, TypeOK
  <2>4. \A d \in Callers : at'[d] \in Connecting <=> lock' = d
    BY <1>3, CallersAssumption
       DEF StartServer, HolderWhileConnecting, ConnectLocked, TypeOK
  <2>5. client'[c] # 0 /\ \A d \in Callers \ {c} : client'[d] = client[d] /\ at'[d] = at[d]
    BY <1>0, <1>3 DEF StartServer, TypeOK
  <2>. QED BY <1>3, <2>2, <2>3, <2>4, <2>5
              DEF StartServer, HolderWhileConnecting, ConnectLocked, TypeOK
<1>4. ASSUME NEW c \in Callers, Initialized(c) PROVE TypeOK'
  <2>1. lock = c
    BY <1>4 DEF Initialized, TypeOK
  <2>. QED BY <1>4, <2>1, CallersAssumption
              DEF Initialized, TableWith, InTable, TypeOK, Started
<1>5. ASSUME NEW c \in Callers, InitializeFails(c) PROVE TypeOK'
  <2>1. lock = c
    BY <1>5 DEF InitializeFails, TypeOK
  <2>2. client[c] \in Started
    BY <1>5 DEF InitializeFails, TypeOK
  <2>. QED BY <1>5, <2>1, <2>2, CallersAssumption DEF InitializeFails, TypeOK, Started
<1>6. ASSUME NEW c \in Callers, Drain(c) PROVE TypeOK'
  <2>1. SetToSeq(InUse) \in Seq(Started)
    <3>1. InUse \subseteq Started
      BY DEF InUse
    <3>2. IsFiniteSet(InUse)
      BY <1>0, <3>1, FS_Subset
    <3>. QED BY <3>1, <3>2, SetToSeqLists
  <2>. QED BY <1>6, <2>1, CallersAssumption
              DEF Drain, AfterDrain, Cleared, HolderWhileStopping, StopsUnlocked,
                  TypeOK, Started
<1>7. ASSUME NEW c \in Callers, StopNext(c) PROVE TypeOK'
  <2>1. drained[c] \in Seq(Started)
    BY DEF TypeOK
  <2>2. Head(drained[c]) \in Started /\ Tail(drained[c]) \in Seq(Started)
    BY <1>7, <2>1, TailHasLess DEF StopNext
  <2>3. process' \in Seq(Processes) /\ Started' = Started
    BY <1>0, <1>7, <2>2, ProcessEnds DEF StopNext
  <2>. QED BY <1>7, <2>2, <2>3 DEF StopNext, StillToStop, RestOf, TypeOK
<1>8. ASSUME NEW c \in Callers, Abandon(c) PROVE TypeOK'
  <2>1. Started' = Started /\ process' = process
    BY <1>8 DEF Abandon, Started
  <2>2. lost' \subseteq Started
    <3>1. ToSet(drained[c]) \subseteq Started
      <4>1. drained[c] \in Seq(Started)
        BY DEF TypeOK
      <4>. QED BY <4>1 DEF ToSet
    <3>2. at[c] \in Connecting => client[c] \in Started
      BY DEF TypeOK
    <3>. QED BY <1>8, <3>1, <3>2 DEF Abandon, TypeOK
  <2>3. drained' \in [Callers -> Seq(Started)]
    BY <1>8 DEF Abandon, TypeOK
  <2>4. \A d \in Callers : at'[d] \in Connecting <=> lock' = d
    BY <1>8, CallersAssumption DEF Abandon, TypeOK
  <2>. QED BY <1>8, <2>1, <2>2, <2>3, <2>4 DEF Abandon, TypeOK
<1>9. ASSUME NEW n \in Started, FallSilent(n) \/ Die(n) PROVE TypeOK'
  <2>1. process' \in Seq(Processes) /\ Started' = Started
    BY <1>0, <1>9, ServerActs
  <2>. QED BY <1>9, <2>1 DEF FallSilent, Die, TypeOK
<1>10. CASE UNCHANGED vars
  BY <1>10 DEF vars, TypeOK, Started
<1>11. \A c \in Callers : server[c] \in Servers
  BY DEF TypeOK
<1>. QED
  BY <1>1, <1>2, <1>3, <1>4, <1>5, <1>6, <1>7, <1>8, <1>9, <1>10, <1>11 DEF Next, CallerStep, Quiet

(* The types of the manager's state, in every behaviour.                   *)
THEOREM ManagerTypeCorrect == Spec => []TypeOK
BY InitType, NextType, PTL DEF Spec

-----------------------------------------------------------------------------
(* A step that starts, stops and drains nothing and leaves the table alone *)
(* keeps the invariant, if nobody begins to initialize.                    *)
LEMMA QuietStep ==
  ASSUME TypeOK, TableInv,
         clients' = clients, drained' = drained, process' = process,
         \A c \in Callers : at'[c] \in Connecting =>
           at[c] \in Connecting /\ client'[c] = client[c] /\ server'[c] = server[c]
  PROVE  TableInv'
BY DEF TableInv, TableIsFresh, Initializing, Contains

(* Every step keeps the invariant.                                         *)
LEMMA TableStep == TypeOK /\ TableInv /\ [Next]_vars => TableInv'
<1> SUFFICES ASSUME TypeOK, TableInv, [Next]_vars PROVE TableInv'
  OBVIOUS
<1>0. /\ process \in Seq(Processes) /\ Started = 1..Len(process) /\ Len(process) \in Nat
      /\ \A c \in Callers : drained[c] \in Seq(Started)
      /\ \A s \in Servers : clients[s] \in Started \cup {0}
      /\ \A c \in Callers : server[c] \in Servers /\ client[c] \in Started \cup {0}
  BY StartedIsInterval DEF TypeOK
<1>a. \A c \in Callers : \A e : Contains(drained[c], e) => e \in Started
  BY <1>0 DEF Contains
<1>1. ASSUME NEW c \in Callers, NEW s \in Servers, NEW place \in {"find", "drain", "collect"},
             Call(c, s, place)
      PROVE  TableInv'
  BY <1>1, QuietStep DEF Call, TypeOK
<1>2. ASSUME NEW c \in Callers, Quiet(c)
      PROVE  TableInv'
  BY <1>2, QuietStep DEF Quiet, Find, SpawnFails, Greet, Query, Use, AskToStop, StopEnds, Collect, TypeOK
<1>3. ASSUME NEW c \in Callers, StartServer(c) PROVE TableInv'
  <2> DEFINE n == Len(process) + 1
  <2>1. [of |-> server[c], state |-> "up", cut |-> FALSE] \in Processes
    BY <1>0
  <2>2. /\ process'[n] = [of |-> server[c], state |-> "up", cut |-> FALSE]
        /\ \A m \in Started : process'[m] = process[m]
        /\ n \notin Started
    BY <1>0, <1>3, <2>1, StartedGrows DEF StartServer
  <2>3. TableIsFresh'
    BY <1>0, <1>3, <2>2 DEF StartServer, TableInv, TableIsFresh
  <2>4. ASSUME NEW d \in Callers, at'[d] \in Connecting
        PROVE  d = c
    BY <1>3, <2>4, CallersAssumption DEF StartServer, TypeOK
  <2>5. client'[c] = n /\ server' = server /\ clients'[server[c]] = 0 /\ drained' = drained
    BY <1>3 DEF StartServer, TypeOK
  <2>6. \A d \in Callers : ~Contains(drained[d], n)
    BY <1>a, <2>2
  <2>7. Initializing'
    BY <2>2, <2>4, <2>5, <2>6 DEF Initializing, Contains
  <2>. QED BY <2>3, <2>7 DEF TableInv
<1>4. ASSUME NEW c \in Callers, Initialized(c) PROVE TableInv'
  <2>1. /\ process[client[c]].of = server[c] /\ process[client[c]].state = "up"
        /\ \A d \in Callers : ~Contains(drained[d], client[c])
    BY <1>4 DEF Initialized, TableInv, Initializing
  <2>2. \A s \in Servers : clients'[s] = IF s = server[c] THEN client[c] ELSE clients[s]
    BY <1>0, <1>4 DEF Initialized, TableWith, InTable, TypeOK
  <2>3. TableIsFresh'
    BY <1>4, <2>1, <2>2 DEF Initialized, TableInv, TableIsFresh, Contains
  <2>4. \A d \in Callers : at'[d] \notin Connecting
    BY <1>4 DEF Initialized, TypeOK
  <2>. QED BY <2>3, <2>4 DEF TableInv, Initializing
<1>5. ASSUME NEW c \in Callers, InitializeFails(c) PROVE TableInv'
  BY <1>5, QuietStep DEF InitializeFails, TypeOK
<1>6. ASSUME NEW c \in Callers, Drain(c) PROVE TableInv'
  <2>1. \A s \in Servers : clients'[s] = 0
    BY <1>6 DEF Drain, AfterDrain, Cleared
  <2>2. \A d \in Callers : at'[d] \notin Connecting
    BY <1>6, CallersAssumption DEF Drain, TypeOK
  <2>. QED BY <2>1, <2>2 DEF TableInv, TableIsFresh, Initializing
<1>7. ASSUME NEW c \in Callers, StopNext(c) PROVE TableInv'
  <2> DEFINE h == Head(drained[c])
  <2>1. /\ h \in Started /\ Contains(drained[c], h)
        /\ \A e : Contains(Tail(drained[c]), e) => Contains(drained[c], e)
    BY <1>0, <1>7, TailHasLess DEF StopNext
  <2>2. /\ \A m \in Started : process'[m].of = process[m].of
        /\ \A m \in Started \ {h} : process'[m] = process[m]
    BY <1>0, <1>7, <2>1, ProcessEnds DEF StopNext
  <2>3. \A d \in Callers : \A e : Contains(drained'[d], e) => Contains(drained[d], e)
    BY <1>7, <2>1 DEF StopNext, StillToStop, RestOf, TypeOK
  <2>4. TableIsFresh'
    <3> SUFFICES ASSUME NEW s \in Servers, clients[s] # 0
                 PROVE  /\ process'[clients[s]].of = s
                        /\ process'[clients[s]].state # "stopped"
                        /\ \A d \in Callers : ~Contains(drained'[d], clients[s])
      BY <1>7 DEF StopNext, TableIsFresh, Contains
    <3>1. /\ process[clients[s]].of = s /\ process[clients[s]].state # "stopped"
          /\ \A d \in Callers : ~Contains(drained[d], clients[s])
      BY DEF TableInv, TableIsFresh
    <3>2. clients[s] \in Started \ {h}
      BY <1>0, <2>1, <3>1
    <3>. QED BY <2>2, <2>3, <3>1, <3>2
  <2>5. Initializing'
    <3> SUFFICES ASSUME NEW d \in Callers, at[d] \in Connecting
                 PROVE  /\ process'[client[d]].of = server[d]
                        /\ clients[server[d]] = 0
                        /\ \A e \in Callers : ~Contains(drained'[e], client[d])
      BY <1>7 DEF StopNext, Initializing, Contains
    <3>1. client[d] \in Started
      BY <1>0 DEF TypeOK
    <3>. QED BY <2>2, <2>3, <3>1 DEF TableInv, Initializing
  <2>. QED BY <2>4, <2>5 DEF TableInv
<1>8. ASSUME NEW c \in Callers, Abandon(c) PROVE TableInv'
  <2>1. \A d \in Callers : \A e : Contains(drained'[d], e) => Contains(drained[d], e)
    BY <1>8 DEF Abandon, TypeOK, Contains
  <2>2. \A d \in Callers : at'[d] \in Connecting =>
          at[d] \in Connecting /\ client'[d] = client[d] /\ server'[d] = server[d]
    BY <1>8 DEF Abandon, TypeOK
  <2>3. clients' = clients /\ process' = process /\ server' = server
    BY <1>8 DEF Abandon
  <2>4. TableIsFresh'
    <3> SUFFICES ASSUME NEW s \in Servers, clients[s] # 0
                 PROVE  /\ process[clients[s]].of = s
                        /\ process[clients[s]].state # "stopped"
                        /\ \A d \in Callers : ~Contains(drained'[d], clients[s])
      BY <2>3 DEF TableIsFresh, Contains
    <3>. QED BY <2>1 DEF TableInv, TableIsFresh
  <2>5. Initializing'
    <3> SUFFICES ASSUME NEW d \in Callers, at'[d] \in Connecting
                 PROVE  /\ process[client'[d]].of = server[d]
                        /\ clients[server[d]] = 0
                        /\ \A e \in Callers : ~Contains(drained'[e], client'[d])
      BY <2>3 DEF Initializing, Contains
    <3>. QED BY <2>1, <2>2, <2>3 DEF TableInv, Initializing
  <2>. QED BY <2>4, <2>5 DEF TableInv
<1>9. ASSUME NEW n \in Started, FallSilent(n) \/ Die(n) PROVE TableInv'
  <2>1. /\ process'[n].state \in {"silent", "dead"}
        /\ \A m \in Started : process'[m].of = process[m].of
        /\ \A m \in Started \ {n} : process'[m] = process[m]
    BY <1>0, <1>9, ServerActs
  <2>2. TableIsFresh'
    BY <1>0, <1>9, <2>1 DEF FallSilent, Die, TableInv, TableIsFresh, Contains
  <2>3. Initializing'
    <3>1. \A d \in Callers : at[d] \in Connecting => client[d] \in Started
      BY <1>0 DEF TypeOK
    <3>. QED BY <1>9, <2>1, <3>1 DEF FallSilent, Die, TableInv, Initializing, Contains
  <2>. QED BY <2>2, <2>3 DEF TableInv
<1>10. CASE UNCHANGED vars
  BY <1>10, QuietStep DEF vars
<1>. QED
  BY <1>0, <1>1, <1>2, <1>3, <1>4, <1>5, <1>6, <1>7, <1>8, <1>9, <1>10 DEF Next, CallerStep, Quiet

THEOREM TableInvariant == Spec => []TableInv
<1>1. Init => TableInv
  BY DEF Init, TableInv, TableIsFresh, Initializing
<1>. QED BY <1>1, TableStep, ManagerTypeCorrect, PTL DEF Spec

(* The table has, for each server, a client of that server which no        *)
(* shutdown has stopped or is about to stop.                               *)
THEOREM TableStaysFresh == Spec => []TableIsFresh
<1>1. TableInv => TableIsFresh
  BY DEF TableInv
<1>. QED BY <1>1, TableInvariant, PTL

(* A client in the table is never replaced: connect runs under the lock,   *)
(* and whoever looked before found the client.                             *)
THEOREM ClientsAreNeverReplaced == Spec => NeverReplaced
<1>1. TypeOK /\ TableInv /\ [Next]_vars =>
        [\A s \in Servers : clients[s] # 0 => clients'[s] \in {0, clients[s]}]_vars
  <2> SUFFICES ASSUME TypeOK, TableInv, Next, NEW s \in Servers, clients[s] # 0
               PROVE  clients'[s] \in {0, clients[s]}
    BY DEF vars
  <2>1. ASSUME NEW c \in Callers, Initialized(c)
        PROVE  clients'[s] \in {0, clients[s]}
    <3>1. clients[server[c]] = 0
      BY <2>1 DEF Initialized, TableInv, Initializing
    <3>. QED BY <2>1, <3>1 DEF Initialized, TableWith, InTable, TypeOK
  <2>2. ASSUME NEW c \in Callers, Drain(c)
        PROVE  clients'[s] \in {0, clients[s]}
    BY <2>2 DEF Drain, AfterDrain, Cleared
  <2>3. (\E c \in Callers : Initialized(c) \/ Drain(c)) \/ clients' = clients
    BY DEF Next, CallerStep, Call, Find, StartServer, SpawnFails, Greet, InitializeFails, Query,
           Use, AskToStop, StopNext, StopEnds, Collect, Abandon, FallSilent, Die
  <2>. QED BY <2>1, <2>2, <2>3
<1>. QED BY <1>1, ManagerTypeCorrect, TableInvariant, PTL DEF Spec, NeverReplaced

-----------------------------------------------------------------------------
(* Who has taken clients from the table is stopping them: nobody else has  *)
(* any.  A drain that forgot earlier ones would lose them.                 *)
OnlyStoppersHold ==
  \A c \in Callers : at[c] \notin {"stop", "stopping"} => drained[c] = <<>>

Accounted(n) ==
  \/ n \in InUse \cup lost
  \/ \E c \in Callers : Contains(drained[c], n) \/ (at[c] \in Connecting /\ client[c] = n)

AccountsInv == OnlyStoppersHold /\ \A n \in Started : Running(n) => Accounted(n)

LEMMA HoldersStep == TypeOK /\ OnlyStoppersHold /\ [Next]_vars => OnlyStoppersHold'
<1> SUFFICES ASSUME TypeOK, OnlyStoppersHold, [Next]_vars PROVE OnlyStoppersHold'
  OBVIOUS
<1> USE DEF TypeOK, OnlyStoppersHold
<1>1. ASSUME NEW c \in Callers, NEW s \in Servers, NEW place \in {"find", "drain", "collect"},
             Call(c, s, place)
      PROVE  OnlyStoppersHold'
  BY <1>1 DEF Call
<1>2. ASSUME NEW c \in Callers, Quiet(c)
      PROVE  OnlyStoppersHold'
  BY <1>2 DEF Quiet, Find, SpawnFails, Greet, Query, Use, AskToStop, StopEnds, Collect
<1>3. ASSUME NEW c \in Callers, StartServer(c) \/ Initialized(c) \/ InitializeFails(c)
      PROVE  OnlyStoppersHold'
  BY <1>3 DEF StartServer, Initialized, InitializeFails
<1>4. ASSUME NEW c \in Callers, Drain(c) \/ StopNext(c) \/ Abandon(c)
      PROVE  OnlyStoppersHold'
  BY <1>4 DEF Drain, StopNext, Abandon
<1>5. ASSUME NEW n \in Started, FallSilent(n) \/ Die(n)
      PROVE  OnlyStoppersHold'
  BY <1>5 DEF FallSilent, Die
<1>6. CASE UNCHANGED vars
  BY <1>6 DEF vars
<1>. QED BY <1>1, <1>2, <1>3, <1>4, <1>5, <1>6 DEF Next, CallerStep, Quiet

(* A step that forgets nothing keeps what was accounted for.               *)
LEMMA NothingForgotten ==
  ASSUME TypeOK, NEW n \in Started, Accounted(n),
         \A s \in Servers : clients[s] = n => clients'[s] = n,
         Started \subseteq Started', lost \subseteq lost',
         \A c \in Callers : Contains(drained[c], n) => Contains(drained'[c], n),
         \A c \in Callers : (at[c] \in Connecting /\ client[c] = n) =>
           at'[c] \in Connecting /\ client'[c] = n
  PROVE  Accounted(n)'
BY DEF Accounted, InUse

LEMMA AccountsStep ==
  TypeOK /\ TableInv /\ AccountsInv /\ [Next]_vars => AccountsInv'
<1> SUFFICES ASSUME TypeOK, TableInv, AccountsInv, [Next]_vars, NEW n \in Started',
                    Running(n)'
             PROVE  Accounted(n)'
  BY HoldersStep DEF AccountsInv
<1>0. /\ process \in Seq(Processes) /\ Started = 1..Len(process) /\ Len(process) \in Nat
      /\ IsFiniteSet(Started)
      /\ \A c \in Callers : drained[c] \in Seq(Started)
      /\ \A c \in Callers : server[c] \in Servers
  BY StartedIsInterval DEF TypeOK
<1>1. ASSUME NEW c \in Callers, NEW s \in Servers, NEW place \in {"find", "drain", "collect"},
             Call(c, s, place)
      PROVE  Accounted(n)'
  <2>1. n \in Started /\ Running(n)
    BY <1>1 DEF Call, Started, Running
  <2>. QED BY <1>1, <2>1, NothingForgotten DEF Call, AccountsInv, TypeOK, Started
<1>2. ASSUME NEW c \in Callers, Quiet(c)
      PROVE  Accounted(n)'
  <2>1. n \in Started /\ Running(n)
    BY <1>2 DEF Quiet, Find, SpawnFails, Greet, Query, Use, AskToStop, StopEnds, Collect, Started, Running
  <2>. QED BY <1>2, <2>1, NothingForgotten
              DEF Quiet, Find, SpawnFails, Greet, Query, Use, AskToStop, StopEnds, Collect, AccountsInv, TypeOK, Started
<1>3. ASSUME NEW c \in Callers, StartServer(c) PROVE Accounted(n)'
  <2>1. [of |-> server[c], state |-> "up", cut |-> FALSE] \in Processes
    BY <1>0
  <2>2. /\ Started' = Started \cup {Len(process) + 1}
        /\ \A m \in Started : process'[m] = process[m]
    BY <1>0, <1>3, <2>1, StartedGrows DEF StartServer
  <2>3. CASE n = Len(process) + 1
    BY <1>3, <2>3 DEF StartServer, TypeOK, Accounted
  <2>4. CASE n \in Started
    <3>1. Accounted(n)
      BY <2>2, <2>4 DEF Running, AccountsInv
    <3>. QED BY <1>3, <2>2, <2>4, <3>1, NothingForgotten DEF StartServer, TypeOK
  <2>. QED BY <2>2, <2>3, <2>4
<1>4. ASSUME NEW c \in Callers, Initialized(c) PROVE Accounted(n)'
  <2>1. n \in Started /\ Accounted(n)
    BY <1>4 DEF Initialized, Started, Running, AccountsInv
  <2>2. \A s \in Servers : clients'[s] = IF s = server[c] THEN client[c] ELSE clients[s]
    BY <1>0, <1>4 DEF Initialized, TableWith, InTable, TypeOK
  <2>3. CASE n = client[c]
    <3>1. clients'[server[c]] = n /\ server[c] \in Servers /\ n \in Started'
      BY <1>0, <2>2, <2>3
    <3>2. n \in InUse'
      BY <3>1 DEF InUse
    <3>. QED BY <3>2 DEF Accounted
  <2>4. CASE n # client[c]
    <3>1. clients[server[c]] = 0 /\ n # 0
      BY <1>0, <1>4, <2>1 DEF Initialized, TableInv, Initializing
    <3>2. \A s \in Servers : clients[s] = n => clients'[s] = n
      BY <2>2, <3>1
    <3>. QED BY <1>4, <2>1, <2>4, <3>2, NothingForgotten DEF Initialized, TypeOK, Started
  <2>. QED BY <2>3, <2>4
<1>5. ASSUME NEW c \in Callers, InitializeFails(c) PROVE Accounted(n)'
  <2>1. n \in Started /\ Accounted(n)
    BY <1>5 DEF InitializeFails, Started, Running, AccountsInv
  <2>2. CASE n = client[c]
    BY <1>5, <2>2 DEF InitializeFails, Accounted
  <2>3. CASE n # client[c]
    BY <1>5, <2>1, <2>3, NothingForgotten DEF InitializeFails, TypeOK, Started
  <2>. QED BY <2>2, <2>3
<1>6. ASSUME NEW c \in Callers, Drain(c) PROVE Accounted(n)'
  <2>1. n \in Started /\ Accounted(n)
    BY <1>6 DEF Drain, Started, Running, AccountsInv
  <2>2. drained[c] = <<>>
    BY <1>6 DEF Drain, AccountsInv, OnlyStoppersHold
  <2>3. /\ drained'[c] = SetToSeq(InUse)
        /\ \A d \in Callers \ {c} : drained'[d] = drained[d]
    BY <1>6 DEF Drain, TypeOK
  <2>4. CASE n \in InUse
    <3>1. IsFiniteSet(InUse)
      BY <1>0, FS_Subset DEF InUse
    <3>2. Contains(drained'[c], n)
      BY <2>3, <2>4, <3>1, SetToSeqLists
    <3>. QED BY <3>2 DEF Accounted
  <2>5. CASE n \in lost
    BY <1>6, <2>5 DEF Drain, Accounted
  <2>6. ASSUME NEW d \in Callers, Contains(drained[d], n) PROVE Accounted(n)'
    <3>1. d # c
      BY <2>2, <2>6 DEF Contains
    <3>. QED BY <2>3, <2>6, <3>1 DEF Accounted
  <2>7. ASSUME NEW d \in Callers, at[d] \in Connecting, client[d] = n PROVE Accounted(n)'
    BY <1>6, <2>7 DEF Drain, Accounted, TypeOK
  <2>. QED BY <2>1, <2>4, <2>5, <2>6, <2>7 DEF Accounted
<1>7. ASSUME NEW c \in Callers, StopNext(c) PROVE Accounted(n)'
  <2> DEFINE h == Head(drained[c])
  <2>1. /\ h \in Started
        /\ \A e : Contains(drained[c], e) => e = h \/ Contains(Tail(drained[c]), e)
    BY <1>0, <1>7, TailHasLess DEF StopNext
  <2>2. /\ Started' = Started
        /\ process'[h].state = "stopped"
        /\ \A m \in Started \ {h} : process'[m] = process[m]
    BY <1>0, <1>7, <2>1, ProcessEnds DEF StopNext
  <2>3. n \in Started /\ n # h
    BY <2>2 DEF Running
  <2>4. Accounted(n)
    BY <2>2, <2>3 DEF Running, AccountsInv
  <2>5. \A d \in Callers : Contains(drained[d], n) => Contains(drained'[d], n)
    BY <1>7, <2>1, <2>3 DEF StopNext, StillToStop, RestOf, TypeOK
  <2>. QED BY <1>7, <2>2, <2>3, <2>4, <2>5, NothingForgotten DEF StopNext
<1>8. ASSUME NEW c \in Callers, Abandon(c) PROVE Accounted(n)'
  <2>1. n \in Started /\ Accounted(n)
    BY <1>8 DEF Abandon, Started, Running, AccountsInv
  <2>2. CASE n \in InUse \cup lost
    BY <1>8, <2>2 DEF Abandon, Accounted, InUse, Started
  <2>3. ASSUME NEW d \in Callers, Contains(drained[d], n) PROVE Accounted(n)'
    <3>1. CASE d = c
      BY <1>8, <2>3, <3>1 DEF Abandon, Accounted, Contains, ToSet
    <3>2. CASE d # c
      BY <1>8, <2>3, <3>2 DEF Abandon, Accounted, TypeOK
    <3>. QED BY <3>1, <3>2
  <2>4. ASSUME NEW d \in Callers, at[d] \in Connecting, client[d] = n PROVE Accounted(n)'
    BY <1>8, <2>4 DEF Abandon, Accounted, TypeOK
  <2>. QED BY <2>1, <2>2, <2>3, <2>4 DEF Accounted
<1>9. ASSUME NEW m \in Started, FallSilent(m) \/ Die(m)
      PROVE  Accounted(n)'
  <2>1. /\ Started' = Started /\ process[m].state \in {"up", "silent"}
        /\ \A k \in Started \ {m} : process'[k] = process[k]
    BY <1>0, <1>9, ServerActs
  <2>2. n \in Started /\ Running(n)
    BY <1>9, <2>1 DEF Running
  <2>. QED BY <1>9, <2>1, <2>2, NothingForgotten DEF FallSilent, Die, AccountsInv
<1>10. CASE UNCHANGED vars
  <2>1. n \in Started /\ Running(n)
    BY <1>10 DEF vars, Started, Running
  <2>. QED BY <1>10, <2>1, NothingForgotten DEF vars, AccountsInv, Started
<1>. QED
  BY <1>0, <1>1, <1>2, <1>3, <1>4, <1>5, <1>6, <1>7, <1>8, <1>9, <1>10 DEF Next, CallerStep, Quiet

(* No process is forgotten: a server that runs is in the table, being      *)
(* initialized, about to be stopped, or was lost by a failed initialize or *)
(* a caller that went away.                                                *)
THEOREM EveryProcessIsAccounted == Spec => []ProcessesAreAccounted
<1>1. Init => AccountsInv
  BY DEF Init, AccountsInv, OnlyStoppersHold, Started
<1>2. AccountsInv => ProcessesAreAccounted
  BY DEF AccountsInv, Accounted, ProcessesAreAccounted
<1>. QED
  BY <1>1, <1>2, AccountsStep, ManagerTypeCorrect, TableInvariant, PTL DEF Spec

-----------------------------------------------------------------------------
(* The line editor.  Texts are cut and joined where characters begin.      *)
Chars == STRING \cup {"lead", "tail", Newline, ":"}
Texts == {t \in Seq(Chars) : Whole(t)}

LEMMA CutIs ==
  ASSUME NEW t \in Texts, NEW i \in 0..Len(t), Boundary(t, i)
  PROVE  /\ Before(t, i) \in Texts /\ Len(Before(t, i)) = i /\ \A k \in 1..i : Before(t, i)[k] = t[k]
         /\ After(t, i) \in Texts /\ Len(After(t, i)) = Len(t) - i
         /\ \A k \in 1..(Len(t) - i) : After(t, i)[k] = t[i + k]
<1> DEFINE n == Len(t)
           b == Before(t, i)
           a == After(t, i)
<1>1. t \in Seq(Chars) /\ n \in Nat /\ DOMAIN t = 1..n /\ \A k \in 1..n : t[k] \in Chars
  BY DEF Texts
<1>2. \A k \in 1..n : /\ t[k] = "tail" => k > 1 /\ t[k - 1] = "lead"
                      /\ t[k] = "lead" => k < n /\ t[k + 1] = "tail"
  BY <1>1 DEF Texts, Whole
<1>3. i < n => t[i + 1] # "tail"
  BY DEF Boundary
<1>4. b \in Seq(Chars) /\ Len(b) = i /\ DOMAIN b = 1..i /\ \A k \in 1..i : b[k] = t[k]
  <2>1. \A k \in 1..i : t[k] \in Chars
    BY <1>1
  <2>. QED BY <1>1, <2>1, SubSeqProperties DEF Before
<1>5. a \in Seq(Chars) /\ Len(a) = n - i /\ DOMAIN a = 1..(n - i) /\ \A k \in 1..(n - i) : a[k] = t[i + k]
  <2>1. \A k \in (i + 1)..n : t[k] \in Chars
    BY <1>1
  <2>2. /\ a \in Seq(Chars)
        /\ Len(a) = IF i + 1 <= n THEN n - (i + 1) + 1 ELSE 0
        /\ \A k \in 1..(n - (i + 1) + 1) : a[k] = t[(i + 1) + k - 1]
    <3>1. i + 1 \in Int /\ n \in Int
      BY <1>1
    <3>. QED BY <2>1, <3>1, SubSeqProperties DEF After
  <2> HIDE DEF a, n
  <2>3. Len(a) = n - i /\ n - (i + 1) + 1 = n - i
    BY <1>1, <2>2
  <2>4. \A k \in 1..(n - i) : (i + 1) + k - 1 = i + k
    OBVIOUS
  <2>5. DOMAIN a = 1..(n - i)
    BY <2>2, <2>3
  <2>. QED BY <2>2, <2>3, <2>4, <2>5
<1> HIDE DEF a, b
<1>6. Whole(b)
  <2> SUFFICES ASSUME NEW k \in 1..i
               PROVE  /\ b[k] = "tail" => k > 1 /\ b[k - 1] = "lead"
                      /\ b[k] = "lead" => k < Len(b) /\ b[k + 1] = "tail"
    BY <1>4 DEF Whole
  <2>1. k \in 1..n /\ b[k] = t[k] /\ (k > 1 => b[k - 1] = t[k - 1]) /\ (k < i => b[k + 1] = t[k + 1])
    BY <1>1, <1>4
  <2>. QED BY <1>1, <1>2, <1>3, <1>4, <2>1
<1>7. Whole(a)
  <2> SUFFICES ASSUME NEW k \in 1..(n - i)
               PROVE  /\ a[k] = "tail" => k > 1 /\ a[k - 1] = "lead"
                      /\ a[k] = "lead" => k < Len(a) /\ a[k + 1] = "tail"
    BY <1>5 DEF Whole
  <2>1. /\ i + k \in 1..n /\ a[k] = t[i + k] /\ (k > 1 => a[k - 1] = t[(i + k) - 1])
        /\ k < n - i => a[k + 1] = t[(i + k) + 1]
    BY <1>1, <1>5
  <2>. QED BY <1>1, <1>2, <1>3, <1>5, <2>1
<1>. QED BY <1>4, <1>5, <1>6, <1>7 DEF a, b, Texts

LEMMA JoinIs ==
  ASSUME NEW s \in Texts, NEW t \in Texts
  PROVE  /\ s \o t \in Texts /\ Len(s \o t) = Len(s) + Len(t)
         /\ \A k \in 1..Len(s) : (s \o t)[k] = s[k]
         /\ \A k \in 1..Len(t) : (s \o t)[Len(s) + k] = t[k]
         /\ Boundary(s \o t, Len(s))
<1> DEFINE u == s \o t
           m == Len(s)
           n == Len(t)
<1>1. /\ s \in Seq(Chars) /\ t \in Seq(Chars) /\ Whole(s) /\ Whole(t) /\ m \in Nat /\ n \in Nat
      /\ DOMAIN s = 1..m /\ DOMAIN t = 1..n
  BY DEF Texts
<1>2. /\ u \in Seq(Chars) /\ Len(u) = m + n /\ DOMAIN u = 1..(m + n)
      /\ \A k \in 1..m : u[k] = s[k]
      /\ \A k \in 1..n : u[m + k] = t[k]
  BY <1>1, ConcatProperties
<1> HIDE DEF u, m, n
<1>3. ASSUME NEW k \in 1..(m + n)
      PROVE  /\ u[k] = "tail" => k > 1 /\ u[k - 1] = "lead"
             /\ u[k] = "lead" => k < m + n /\ u[k + 1] = "tail"
  <2>1. CASE k \in 1..m
    <3>1. u[k] = s[k] /\ (k > 1 => u[k - 1] = s[k - 1]) /\ (k < m => u[k + 1] = s[k + 1])
      BY <1>1, <1>2, <2>1
    <3>2. k < m => u[k + 1] = s[k + 1]
      BY <3>1
    <3>3. /\ s[k] = "tail" => k > 1 /\ s[k - 1] = "lead"
          /\ s[k] = "lead" => k < m /\ s[k + 1] = "tail"
      BY <1>1, <2>1 DEF Whole, m
    <3>. QED BY <1>1, <2>1, <3>1, <3>3
  <2>2. CASE k \notin 1..m
    <3> DEFINE h == k - m
    <3>1. h \in 1..n /\ k = m + h
      BY <1>1, <2>2
    <3> HIDE DEF h
    <3>2. u[k] = t[h] /\ (h > 1 => u[k - 1] = t[h - 1]) /\ (h < n => u[k + 1] = t[h + 1])
      <4>1. h > 1 => h - 1 \in 1..n /\ k - 1 = m + (h - 1)
        BY <1>1, <3>1
      <4>2. h < n => h + 1 \in 1..n /\ k + 1 = m + (h + 1)
        BY <1>1, <3>1
      <4>. QED BY <1>2, <3>1, <4>1, <4>2
    <3>3. /\ t[h] = "tail" => h > 1 /\ t[h - 1] = "lead"
          /\ t[h] = "lead" => h < n /\ t[h + 1] = "tail"
      BY <1>1, <3>1 DEF Whole, n
    <3>. QED BY <1>1, <3>1, <3>2, <3>3
  <2>. QED BY <2>1, <2>2
<1>4. Whole(u)
  BY <1>2, <1>3 DEF Whole
<1>5. Boundary(u, m)
  <2>1. n > 0 => t[1] # "tail"
    BY <1>1 DEF Whole
  <2>2. n > 0 => u[m + 1] = t[1]
    BY <1>1, <1>2
  <2>. QED BY <1>1, <1>2, <2>1, <2>2 DEF Boundary
<1>. QED BY <1>2, <1>4, <1>5 DEF u, m, n, Texts

(* Induction over the naturals, for a set of them.                         *)
LEMMA SetInduction ==
  ASSUME NEW S, 0 \in S, \A n \in Nat : n \in S => n + 1 \in S
  PROVE  \A n \in Nat : n \in S
<1> SUFFICES ASSUME NEW n \in Nat, n \notin S PROVE FALSE
  OBVIOUS
<1> DEFINE U == 0..n
           T == {V \in FiniteSubsetsOf(U) : \E m \in U : V = 0..m /\ m \notin S}
<1>1. 0..n \in T
  <2>1. IsFiniteSet(0..n)
    BY FS_Interval
  <2>. QED BY <2>1 DEF FiniteSubsetsOf
<1>2. \E V \in T : \A W \in T : ~ (<<W, V>> \in StrictSubsetOrdering(U))
  <2>1. T \subseteq FiniteSubsetsOf(U) /\ T # {}
    BY <1>1
  <2> HIDE DEF T, U
  <2>2. IsWellFoundedOn(StrictSubsetOrdering(U), FiniteSubsetsOf(U))
    BY FS_StrictSubsetOrderingWellFounded
  <2>. QED BY <2>1, <2>2, WFMin
<1>3. PICK V \in T : \A W \in T : ~ (<<W, V>> \in StrictSubsetOrdering(U))
  BY <1>2
<1>4. PICK m \in U : V = 0..m /\ m \notin S
  OBVIOUS
<1>5. m # 0 /\ m - 1 \in U /\ m - 1 \in Nat
  BY <1>4
<1>6. m - 1 \notin S
  BY <1>4, <1>5
<1>7. 0..(m - 1) \in T
  <2>1. IsFiniteSet(0..(m - 1))
    BY <1>5, FS_Interval
  <2>. QED BY <1>5, <1>6, <2>1 DEF FiniteSubsetsOf
<1>8. <<0..(m - 1), V>> \in StrictSubsetOrdering(U)
  BY <1>4, <1>5 DEF StrictSubsetOrdering
<1>. QED BY <1>3, <1>7, <1>8

(* The greatest and the least of some positions.                           *)
LEMMA ExtremesExist ==
  ASSUME NEW n \in Nat, NEW S \in SUBSET (0..n), S # {}
  PROVE  /\ Largest(S) \in S /\ \A j \in S : j <= Largest(S)
         /\ Smallest(S) \in S /\ \A j \in S : Smallest(S) <= j
<1>1. \E i \in S : \A j \in S : j <= i
  <2> DEFINE T == {m \in Nat : \A R \in SUBSET S : (R # {} /\ R \subseteq 0..m) => \E i \in R : \A j \in R : j <= i}
  <2>1. 0 \in T
    <3>1. ASSUME NEW R \in SUBSET S, R # {}, R \subseteq 0..0 PROVE \E i \in R : \A j \in R : j <= i
      <4>1. PICK x : x \in R
        BY <3>1
      <4>2. ASSUME NEW j \in R PROVE j = 0
        <5>1. j \in 0..0
          BY <3>1
        <5>. QED BY <5>1
      <4>. QED BY <4>1, <4>2
    <3>. QED BY <3>1
  <2>2. ASSUME NEW m \in Nat, m \in T PROVE m + 1 \in T
    <3> SUFFICES ASSUME NEW R \in SUBSET S, R # {}, R \subseteq 0..(m + 1)
                 PROVE  \E i \in R : \A j \in R : j <= i
      OBVIOUS
    <3>1. CASE m + 1 \in R
      BY <3>1
    <3>2. CASE m + 1 \notin R
      BY <2>2, <3>2
    <3>. QED BY <3>1, <3>2
  <2> HIDE DEF T
  <2>3. n \in T
    BY <2>1, <2>2, SetInduction
  <2>. QED BY <2>3 DEF T
<1>2. \E i \in S : \A j \in S : i <= j
  <2> DEFINE T == {m \in Nat : \A R \in SUBSET S : (R # {} /\ \E x \in R : x <= m) => \E i \in R : \A j \in R : i <= j}
  <2>1. 0 \in T
    OBVIOUS
  <2>2. ASSUME NEW m \in Nat, m \in T PROVE m + 1 \in T
    <3> SUFFICES ASSUME NEW R \in SUBSET S, NEW x \in R, x <= m + 1
                 PROVE  \E i \in R : \A j \in R : i <= j
      OBVIOUS
    <3>1. CASE \E y \in R : y <= m
      BY <2>2, <3>1
    <3>2. CASE \A y \in R : ~ (y <= m)
      BY <3>2
    <3>. QED BY <3>1, <3>2
  <2> HIDE DEF T
  <2>3. n \in T
    BY <2>1, <2>2, SetInduction
  <2>4. \E x \in S : x <= n
    <3>1. PICK x : x \in S
      OBVIOUS
    <3>2. x \in 0..n
      BY <3>1
    <3>. QED BY <3>1, <3>2
  <2>5. S \in SUBSET S
    OBVIOUS
  <2>. QED BY <2>3, <2>4, <2>5 DEF T
<1>. QED BY <1>1, <1>2 DEF Largest, Smallest

(* The neighbours of an offset, the ends of its line and what a line is    *)
(* deleted between are offsets where characters begin.                     *)
LEMMA TextFacts ==
  ASSUME NEW t \in Texts
  PROVE  /\ t \in Seq(Chars) /\ Len(t) \in Nat /\ DOMAIN t = 1..Len(t)
         /\ Boundary(t, 0) /\ Boundary(t, Len(t))
         /\ \A i : Boundary(t, i) => i \in 0..Len(t)
         /\ \A j \in 1..Len(t) : t[j] = Newline => Boundary(t, j) /\ Boundary(t, j - 1)
<1>1. t \in Seq(Chars) /\ Len(t) \in Nat /\ DOMAIN t = 1..Len(t) /\ Whole(t)
  BY DEF Texts
<1>2. Boundary(t, 0)
  <2>1. CASE Len(t) = 0
    BY <2>1 DEF Boundary
  <2>2. CASE Len(t) # 0
    <3>1. 1 \in DOMAIN t /\ ~ (1 > 1)
      BY <1>1, <2>2
    <3>2. t[1] # "tail"
      BY <1>1, <3>1 DEF Whole
    <3>3. 0 \in 0..(Len(t) - 1) /\ 0 + 1 = 1
      BY <1>1, <2>2
    <3>. QED BY <3>2, <3>3 DEF Boundary
  <2>. QED BY <2>1, <2>2
<1>3. ASSUME NEW j \in 1..Len(t), t[j] = Newline PROVE Boundary(t, j) /\ Boundary(t, j - 1)
  <2>1. Newline # "tail" /\ Newline # "lead"
    BY DEF Newline
  <2>2. j < Len(t) => t[j + 1] # "tail"
    <3> SUFFICES ASSUME j < Len(t), t[j + 1] = "tail" PROVE FALSE
      OBVIOUS
    <3>1. j + 1 \in DOMAIN t /\ (j + 1) - 1 = j
      BY <1>1
    <3>2. t[j] = "lead"
      BY <1>1, <3>1 DEF Whole
    <3>. QED BY <1>3, <2>1, <3>2
  <2>3. j - 1 \in 0..(Len(t) - 1) /\ (j - 1) + 1 = j
    BY <1>1
  <2>4. Boundary(t, j - 1)
    BY <1>3, <2>1, <2>3 DEF Boundary
  <2>5. CASE j = Len(t)
    BY <2>4, <2>5 DEF Boundary
  <2>6. CASE j # Len(t)
    <3>1. j \in 0..(Len(t) - 1) /\ j < Len(t)
      <4>1. j \in 1..Len(t) /\ Len(t) \in Nat
        BY <1>1, <1>3
      <4>. QED BY <2>6, <4>1
    <3>. QED BY <2>2, <2>4, <3>1 DEF Boundary
  <2>. QED BY <2>5, <2>6
<1>4. ASSUME NEW i, Boundary(t, i) PROVE i \in 0..Len(t)
  <2>1. i = Len(t) \/ i \in 0..(Len(t) - 1)
    BY <1>4 DEF Boundary
  <2>. QED BY <1>1, <2>1
<1>5. Boundary(t, Len(t))
  BY DEF Boundary
<1>. QED BY <1>1, <1>2, <1>3, <1>4, <1>5

LEMMA NeighboursAre ==
  ASSUME NEW t \in Texts, NEW i \in 0..Len(t)
  PROVE  /\ Boundary(t, PreviousBoundary(t, i)) /\ PreviousBoundary(t, i) <= i
         /\ \A j : (Boundary(t, j) /\ j < i) => j <= PreviousBoundary(t, i)
         /\ Boundary(t, NextBoundary(t, i)) /\ NextBoundary(t, i) >= i
<1>1. Len(t) \in Nat /\ Boundary(t, 0) /\ Boundary(t, Len(t))
  BY TextFacts
<1>2. /\ Boundary(t, PreviousBoundary(t, i)) /\ PreviousBoundary(t, i) <= i
      /\ \A j : (Boundary(t, j) /\ j < i) => j <= PreviousBoundary(t, i)
  <2> DEFINE S == {0} \cup {j \in 0..(i - 1) : Boundary(t, j)}
  <2>1. S \in SUBSET (0..i) /\ S # {} /\ i \in Nat /\ \A j \in S : Boundary(t, j)
    BY <1>1
  <2>5. ASSUME NEW j, Boundary(t, j), j < i PROVE j \in S
    <3>1. j \in 0..Len(t)
      BY <2>5, TextFacts
    <3>. QED BY <2>5, <3>1
  <2> HIDE DEF S
  <2>2. Largest(S) \in S /\ \A j \in S : j <= Largest(S)
    BY <2>1, ExtremesExist
  <2>3. PreviousBoundary(t, i) = Largest(S)
    BY DEF PreviousBoundary, S
  <2>4. Largest(S) \in 0..i /\ Boundary(t, Largest(S))
    BY <2>1, <2>2
  <2>. QED BY <2>2, <2>3, <2>4, <2>5
<1>3. Boundary(t, NextBoundary(t, i)) /\ NextBoundary(t, i) >= i
  <2> DEFINE S == {Len(t)} \cup {j \in (i + 1)..Len(t) : Boundary(t, j)}
  <2>1. S \in SUBSET (0..Len(t)) /\ S # {} /\ \A j \in S : Boundary(t, j) /\ j >= i
    BY <1>1
  <2> HIDE DEF S
  <2>2. Smallest(S) \in S
    BY <1>1, <2>1, ExtremesExist
  <2>3. NextBoundary(t, i) = Smallest(S)
    BY DEF NextBoundary, S
  <2>. QED BY <2>1, <2>2, <2>3
<1>. QED BY <1>2, <1>3

LEMMA LineEndsAre ==
  ASSUME NEW t \in Texts, NEW i \in 0..Len(t)
  PROVE  /\ Boundary(t, LineStart(t, i)) /\ LineStart(t, i) \in 0..i
         /\ LineStart(t, i) > 0 => Boundary(t, LineStart(t, i) - 1)
         /\ Boundary(t, LineEnd(t, i)) /\ LineEnd(t, i) \in i..Len(t)
         /\ Boundary(t, Least(LineEnd(t, i) + 1, Len(t)))
         /\ Least(LineEnd(t, i) + 1, Len(t)) \in i..Len(t)
<1>1. /\ Len(t) \in Nat /\ Boundary(t, 0) /\ Boundary(t, Len(t))
      /\ \A j \in 1..Len(t) : t[j] = Newline => Boundary(t, j) /\ Boundary(t, j - 1)
  BY TextFacts
<1>2. /\ Boundary(t, LineStart(t, i)) /\ LineStart(t, i) \in 0..i
      /\ LineStart(t, i) > 0 => Boundary(t, LineStart(t, i) - 1)
  <2> DEFINE S == {0} \cup {j \in 1..i : t[j] = Newline}
  <2>1. /\ S \in SUBSET (0..i) /\ S # {} /\ i \in Nat
        /\ \A j \in S : Boundary(t, j) /\ (j > 0 => Boundary(t, j - 1))
    BY <1>1
  <2> HIDE DEF S
  <2>2. Largest(S) \in S
    BY <2>1, ExtremesExist
  <2>3. LineStart(t, i) = Largest(S)
    BY DEF LineStart, S
  <2>. QED BY <2>1, <2>2, <2>3
<1>3. /\ LineEnd(t, i) \in i..Len(t) /\ Boundary(t, LineEnd(t, i))
      /\ LineEnd(t, i) < Len(t) => Boundary(t, LineEnd(t, i) + 1)
  <2> DEFINE S == {Len(t)} \cup {j \in i..(Len(t) - 1) : t[j + 1] = Newline}
  <2>1. S \in SUBSET (0..Len(t)) /\ S # {} /\ S \subseteq i..Len(t)
    BY <1>1
  <2>2. ASSUME NEW j \in S PROVE Boundary(t, j) /\ (j < Len(t) => Boundary(t, j + 1))
    <3>1. CASE j = Len(t)
      BY <1>1, <3>1
    <3>2. CASE j # Len(t)
      <4>1. j + 1 \in 1..Len(t) /\ t[j + 1] = Newline /\ (j + 1) - 1 = j
        BY <1>1, <3>2
      <4>. QED BY <1>1, <4>1
    <3>. QED BY <3>1, <3>2
  <2> HIDE DEF S
  <2>3. Smallest(S) \in S
    BY <1>1, <2>1, ExtremesExist
  <2>4. LineEnd(t, i) = Smallest(S)
    BY DEF LineEnd, S
  <2>. QED BY <2>1, <2>2, <2>3, <2>4
<1>4. /\ Boundary(t, Least(LineEnd(t, i) + 1, Len(t)))
      /\ Least(LineEnd(t, i) + 1, Len(t)) \in i..Len(t)
  <2> DEFINE e == LineEnd(t, i)
             S == {e + 1, Len(t)}
  <2>1. S \in SUBSET (0..(Len(t) + 1)) /\ S # {} /\ Len(t) + 1 \in Nat
    BY <1>1, <1>3
  <2> HIDE DEF S, e
  <2>2. Smallest(S) \in S /\ \A j \in S : Smallest(S) <= j
    BY <2>1, ExtremesExist
  <2>3. Least(e + 1, Len(t)) = Smallest(S)
    BY DEF Least, S
  <2>4. Smallest(S) = e + 1 \/ Smallest(S) = Len(t)
    BY <2>2 DEF S
  <2>5. Smallest(S) <= Len(t)
    BY <2>2 DEF S
  <2>6. CASE Smallest(S) = Len(t)
    BY <1>1, <2>3, <2>6 DEF e
  <2>7. CASE Smallest(S) = e + 1
    BY <1>1, <1>3, <2>3, <2>5, <2>7 DEF e
  <2>. QED BY <2>4, <2>6, <2>7
<1>. QED BY <1>2, <1>3, <1>4

LEMMA DrainedIs ==
  ASSUME NEW t \in Texts, NEW i, NEW j, Boundary(t, i), Boundary(t, j), i <= j
  PROVE  /\ Drained(t, i, j) \in Texts /\ Boundary(Drained(t, i, j), i)
         /\ \A k : (Boundary(t, k) /\ k <= i) => Boundary(Drained(t, i, j), k)
         /\ Len(Drained(t, i, j)) = Len(t) - (j - i)
         /\ i > 0 => Drained(t, i, j)[1] = t[1]
<1> DEFINE u == Before(t, i)
           v == After(t, j)
           d == u \o v
<1>1. Len(t) \in Nat /\ i \in 0..Len(t) /\ j \in 0..Len(t)
  BY TextFacts
<1>2. u \in Texts /\ Len(u) = i /\ \A k \in 1..i : u[k] = t[k]
  BY <1>1, CutIs
<1>3. v \in Texts /\ Len(v) = Len(t) - j
  BY <1>1, CutIs
<1>4. Drained(t, i, j) = d
  BY DEF Drained
<1> HIDE DEF u, v, d
<1>5. d \in Texts /\ Len(d) = i + (Len(t) - j) /\ Boundary(d, i) /\ \A k \in 1..i : d[k] = t[k]
  BY <1>2, <1>3, JoinIs DEF d
<1>6. ASSUME NEW k, Boundary(t, k), k <= i PROVE Boundary(d, k)
  <2>1. k \in 0..Len(t)
    BY <1>6, TextFacts
  <2>2. CASE k = i
    BY <1>5, <2>2
  <2>3. CASE k # i
    <3>1. k + 1 \in 1..i /\ k \in 0..(Len(t) - 1) /\ k \in 0..(Len(d) - 1)
      BY <1>1, <1>5, <1>6, <2>1, <2>3
    <3>2. t[k + 1] # "tail"
      BY <1>6, <3>1 DEF Boundary
    <3>3. d[k + 1] # "tail"
      BY <1>5, <3>1, <3>2
    <3>. QED BY <3>1, <3>3 DEF Boundary
  <2>. QED BY <2>2, <2>3
<1>7. Len(d) = Len(t) - (j - i)
  BY <1>1, <1>5
<1>8. i > 0 => d[1] = t[1]
  <2>1. i > 0 => 1 \in 1..i
    BY <1>1
  <2>. QED BY <1>5, <2>1
<1>. QED BY <1>4, <1>5, <1>6, <1>7, <1>8

LEMMA InsertedIs ==
  ASSUME NEW t \in Texts, NEW i, NEW b \in Texts, Boundary(t, i)
  PROVE  /\ Inserted(t, i, b) \in Texts
         /\ Boundary(Inserted(t, i, b), i) /\ Boundary(Inserted(t, i, b), i + Len(b))
         /\ Starts(b) => Boundary(Inserted(t, i, b), i + 1)
         /\ i > 0 => Inserted(t, i, b)[1] = t[1]
<1> DEFINE u == Before(t, i)
           v == After(t, i)
           ub == u \o b
           d == ub \o v
<1>1. Len(t) \in Nat /\ i \in 0..Len(t)
  BY TextFacts
<1>2. /\ u \in Texts /\ Len(u) = i /\ \A k \in 1..i : u[k] = t[k]
      /\ v \in Texts
  BY <1>1, CutIs
<1>3. Inserted(t, i, b) = d
  BY DEF Inserted
<1>4. Len(b) \in Nat /\ b \in Seq(Chars)
  BY TextFacts
<1> HIDE DEF u, v
<1>5. /\ ub \in Texts /\ Len(ub) = i + Len(b) /\ \A k \in 1..i : ub[k] = t[k]
      /\ \A k \in 1..Len(b) : ub[i + k] = b[k]
      /\ Boundary(ub, i)
  BY <1>2, JoinIs
<1> HIDE DEF ub
<1>6. /\ d \in Texts /\ \A k \in 1..(i + Len(b)) : d[k] = ub[k]
      /\ Boundary(d, i + Len(b)) /\ Len(d) = i + Len(b) + Len(v) /\ Len(v) \in Nat
  <2>1. Len(v) \in Nat
    BY <1>2, TextFacts
  <2>2. /\ d \in Texts /\ Len(d) = Len(ub) + Len(v) /\ Boundary(d, Len(ub))
        /\ \A k \in 1..Len(ub) : d[k] = ub[k]
    BY <1>2, <1>5, JoinIs
  <2> HIDE DEF d
  <2>. QED BY <1>5, <2>1, <2>2
<1> HIDE DEF d
<1>7. Boundary(d, i)
  <2>1. CASE Len(b) = 0
    BY <1>1, <1>6, <2>1
  <2>2. CASE Len(b) # 0
    <3>1. i \in 0..(Len(ub) - 1) /\ i # Len(ub) /\ i + 1 \in 1..(i + Len(b)) /\ i \in 0..(Len(d) - 1)
      BY <1>1, <1>4, <1>5, <1>6, <2>2
    <3>2. ub[i + 1] # "tail"
      BY <1>5, <3>1 DEF Boundary
    <3>. QED BY <1>6, <3>1, <3>2 DEF Boundary
  <2>. QED BY <2>1, <2>2
<1>8. ASSUME Starts(b) PROVE Boundary(d, i + 1)
  <2>1. b # <<>> /\ b[1] = Newline
    BY <1>4, <1>8, HeadTailProperties DEF Starts
  <2>2. 1 \in 1..Len(b)
    BY <1>4, <2>1
  <2>3. d[i + 1] = Newline
    <3>1. i + 1 \in 1..(i + Len(b))
      BY <1>1, <1>4, <2>2
    <3>. QED BY <1>5, <1>6, <2>1, <2>2, <3>1
  <2>4. i + 1 \in 1..Len(d)
    BY <1>1, <1>4, <1>6, <2>2
  <2>. QED BY <1>6, <2>3, <2>4, TextFacts
<1>9. ASSUME i > 0 PROVE d[1] = t[1]
  <2>1. 1 \in 1..i /\ 1 \in 1..(i + Len(b))
    BY <1>1, <1>4, <1>9
  <2>. QED BY <1>5, <1>6, <2>1
<1>. QED BY <1>3, <1>6, <1>7, <1>8, <1>9

(* What is inserted by a key, and the line that is put back.               *)
LEMMA BytesAre ==
  /\ \A c \in Typed : Bytes(c) \in Texts
  /\ <<Newline>> \in Texts /\ <<":">> \in Texts /\ <<>> \in Texts
  /\ Len(<<":">>) = 1 /\ <<":">>[1] = ":" /\ Len(<<>>) = 0
<1>1. ASSUME NEW c \in Chars \ {"lead", "tail"} PROVE <<c>> \in Texts
  <2>1. <<c>> \in Seq(Chars) /\ DOMAIN <<c>> = {1} /\ <<c>>[1] = c
    OBVIOUS
  <2>2. Whole(<<c>>)
    BY <1>1, <2>1 DEF Whole
  <2>. QED BY <2>1, <2>2 DEF Texts
<1>2. <<"lead", "tail">> \in Texts
  <2> DEFINE w == <<"lead", "tail">>
  <2>1. w \in Seq(Chars) /\ DOMAIN w = 1..2 /\ Len(w) = 2 /\ w[1] = "lead" /\ w[2] = "tail"
    BY DEF Chars
  <2> HIDE DEF w
  <2>2. Whole(w)
    <3> SUFFICES ASSUME NEW k \in 1..2
                 PROVE  /\ w[k] = "tail" => k > 1 /\ w[k - 1] = "lead"
                        /\ w[k] = "lead" => k < Len(w) /\ w[k + 1] = "tail"
      BY <2>1 DEF Whole
    <3>1. k = 1 \/ k = 2
      OBVIOUS
    <3>. QED BY <2>1, <3>1
  <2>3. w \in Texts
    BY <2>1, <2>2 DEF Texts
  <2>. QED BY <2>3 DEF w
<1>3. ASSUME NEW c \in Typed PROVE Bytes(c) \in Texts
  <2>1. c \in Chars \ {"lead", "tail"}
    BY TextsAssumption DEF Chars
  <2>. QED BY <1>1, <1>2, <2>1 DEF Bytes
<1>4. Newline \in Chars \ {"lead", "tail"} /\ ":" \in Chars \ {"lead", "tail"}
  BY DEF Chars, Newline
<1>5. <<>> \in Texts
  BY DEF Texts, Whole
<1>. QED BY <1>1, <1>3, <1>4, <1>5

(* Counted from the left, a set of positions grows by one at each of them: *)
(* each number up to its size is the count at one of them.                 *)
LEMMA RanksExist ==
  ASSUME NEW n \in Nat, NEW S \in SUBSET (1..n)
  PROVE  /\ S \cap 1..0 = {} /\ Cardinality(S \cap 1..0) = 0
         /\ Cardinality(S) \in Nat
         /\ \A k \in 1..Cardinality(S) : \E i \in S : Cardinality(S \cap 1..i) = k
<1> DEFINE c == [m \in Nat |-> Cardinality(S \cap 1..m)]
           T == {m \in Nat : m <= n => c[m] \in Nat /\ \A k \in 1..c[m] : \E i \in S : i <= m /\ c[i] = k}
<1>1. S \cap 1..0 = {} /\ c[0] = 0
  BY FS_EmptySet
<1>2. ASSUME NEW m \in Nat PROVE IsFiniteSet(S \cap 1..m) /\ c[m] \in Nat
  <2>1. IsFiniteSet(1..m)
    BY FS_Interval
  <2>2. S \cap 1..m \in SUBSET (1..m)
    OBVIOUS
  <2>3. IsFiniteSet(S \cap 1..m)
    BY <2>1, <2>2, FS_Subset
  <2>. QED BY <2>3, FS_CardinalityType
<1>3. ASSUME NEW m \in Nat
      PROVE  c[m + 1] = IF m + 1 \in S THEN c[m] + 1 ELSE c[m]
  <2>. m + 1 \in Nat /\ c[m + 1] = Cardinality(S \cap 1..(m + 1)) /\ c[m] = Cardinality(S \cap 1..m)
    OBVIOUS
  <2> HIDE DEF c, T
  <2>1. CASE m + 1 \in S
    <3>1. S \cap 1..(m + 1) = (S \cap 1..m) \cup {m + 1} /\ m + 1 \notin S \cap 1..m
      BY <2>1
    <3>. QED BY <1>2, <2>1, <3>1, FS_AddElement
  <2>2. CASE m + 1 \notin S
    <3>1. S \cap 1..(m + 1) = S \cap 1..m
      BY <2>2
    <3>. QED BY <2>2, <3>1
  <2>. QED BY <2>1, <2>2
<1>4. 0 \in T
  BY <1>1
<1> HIDE DEF c
<1>5. ASSUME NEW m \in Nat, m \in T PROVE m + 1 \in T
  <2>5. m + 1 \in Nat
    BY <1>5
  <2>6. c[m + 1] \in Nat
    <3> HIDE DEF T
    <3>. QED BY <1>2, <2>5
  <2> SUFFICES ASSUME m + 1 <= n, NEW k \in 1..c[m + 1]
               PROVE  \E i \in S : i <= m + 1 /\ c[i] = k
    BY <2>5, <2>6
  <2>1. m <= n /\ c[m] \in Nat /\ \A h \in 1..c[m] : \E i \in S : i <= m /\ c[i] = h
    BY <1>5
  <2>2. CASE k \in 1..c[m]
    <3>1. PICK i \in S : i <= m /\ c[i] = k
      BY <2>1, <2>2
    <3>2. i <= m + 1
      BY <3>1
    <3>. QED BY <3>1, <3>2
  <2>3. CASE k \notin 1..c[m]
    <3>1. m + 1 \in S /\ c[m + 1] = k
      BY <1>2, <1>3, <2>1, <2>3
    <3>. QED BY <3>1
  <2>. QED BY <2>2, <2>3
<1> HIDE DEF T
<1>6. \A m \in Nat : m \in T
  BY <1>4, <1>5, SetInduction
<1>7. \A m \in 0..n : \A k \in 1..c[m] : \E i \in S : i <= m /\ c[i] = k
  BY <1>6 DEF T
<1>8. \A m \in 0..n : m \in Nat /\ c[m] = Cardinality(S \cap 1..m)
  BY DEF c
<1>9. c[n] = Cardinality(S) /\ n \in 0..n
  <2>1. S \cap 1..n = S
    OBVIOUS
  <2>. QED BY <1>8, <2>1
<1>10. ASSUME NEW k \in 1..Cardinality(S)
       PROVE  \E i \in S : Cardinality(S \cap 1..i) = k
  <2>1. k \in 1..c[n]
    BY <1>9
  <2>2. PICK i \in S : i <= n /\ c[i] = k
    BY <1>7, <1>9, <2>1
  <2>3. c[i] = Cardinality(S \cap 1..i)
    BY DEF c
  <2>. QED BY <2>2, <2>3
<1>11. Cardinality(S \cap 1..0) = 0
  BY <1>1, FS_EmptySet
<1>12. Cardinality(S) \in Nat
  BY <1>2, <1>9
<1>. QED BY <1>1, <1>10, <1>11, <1>12

LEMMA VerticalIs ==
  ASSUME NEW t \in Texts, NEW i, Boundary(t, i), NEW row \in Int
  PROVE  Boundary(t, Vertical(t, i, row))
<1>1. Len(t) \in Nat /\ i \in 0..Len(t)
  BY TextFacts
<1>2. CASE row \notin 0..Row(t, Len(t))
  BY <1>2 DEF Vertical
<1>3. CASE row \in 0..Row(t, Len(t))
  <2> DEFINE n == Len(t)
             S == {j \in 1..n : t[j] = Newline}
             At == {j \in 0..n : Row(t, j) = row}
             start == Smallest(At)
             end == LineEnd(t, start)
             Ends_ == {end} \cup {j \in start..end : Boundary(t, j) /\ Column(t, j) = Column(t, i)}
  <2>1. \A j \in 0..n : Row(t, j) = Cardinality(S \cap 1..j)
    <3>1. ASSUME NEW j \in 0..n PROVE Row(t, j) = Cardinality(S \cap 1..j)
      <4>1. {k \in 1..j : t[k] = Newline} = S \cap 1..j
        BY <1>1
      <4>. QED BY <4>1 DEF Row
    <3>. QED BY <3>1
  <2>2. At # {}
    <3>1. n \in Nat /\ S \in SUBSET (1..n) /\ 0 \in 0..n /\ n \in 0..n
      BY <1>1
    <3> HIDE DEF S, n
    <3>2. /\ Cardinality(S \cap 1..0) = 0 /\ Cardinality(S) \in Nat
          /\ \A k \in 1..Cardinality(S) : \E j \in S : Cardinality(S \cap 1..j) = k
      BY <3>1, RanksExist
    <3>3. S \cap 1..n = S
      BY <3>1
    <3>4. Row(t, 0) = 0
      BY <2>1, <3>1, <3>2
    <3>5. row \in 0..Cardinality(S)
      BY <1>3, <2>1, <3>1, <3>3 DEF n
    <3>6. CASE row = 0
      BY <3>1, <3>4, <3>6
    <3>7. CASE row # 0
      <4>1. row \in 1..Cardinality(S)
        BY <3>2, <3>5, <3>7
      <4> HIDE DEF At
      <4>2. PICK j \in S : Cardinality(S \cap 1..j) = row
        BY <3>2, <4>1
      <4>3. j \in 0..n
        BY <3>1
      <4>. QED BY <2>1, <4>2, <4>3 DEF At
    <3>. QED BY <3>6, <3>7
  <2>3. start \in 0..n
    <3>1. At \in SUBSET (0..n) /\ n \in Nat
      BY <1>1
    <3> HIDE DEF At, n
    <3>2. Smallest(At) \in At
      BY <2>2, <3>1, ExtremesExist
    <3>. QED BY <3>1, <3>2
  <2> HIDE DEF At, S, start
  <2>4. Boundary(t, end) /\ end \in start..n
    BY <2>3, LineEndsAre
  <2> HIDE DEF end
  <2>5. Ends_ \in SUBSET (0..n) /\ Ends_ # {} /\ \A j \in Ends_ : Boundary(t, j)
    BY <1>1, <2>3, <2>4
  <2>6. Vertical(t, i, row) = Smallest(Ends_)
    BY <1>3 DEF Vertical, start, end, At
  <2> HIDE DEF Ends_, n
  <2>7. n \in Nat
    BY <1>1 DEF n
  <2>8. Smallest(Ends_) \in Ends_
    BY <2>5, <2>7, ExtremesExist
  <2>. QED BY <2>5, <2>6, <2>8
<1>. QED BY <1>2, <1>3

(* The completions of a prefix are commands, whose characters all take a   *)
(* byte.                                                                   *)
Narrow(t) == \A i \in 0..Len(t) : Boundary(t, i)

LEMMA ExtendingIs ==
  ASSUME NEW p
  PROVE  /\ Len(Extending(p)) \in Nat /\ DOMAIN Extending(p) = 1..Len(Extending(p))
         /\ Extending(p) # <<>> => Len(Extending(p)) > 0 /\ Head(Extending(p)) = Extending(p)[1]
         /\ \A k \in 1..Len(Extending(p)) : Extending(p)[k] \in Texts /\ Narrow(Extending(p)[k])
<1> DEFINE n == Len(Completions)
           longer == {i \in DOMAIN Completions : IsPrefix(p, Completions[i]) /\ Completions[i] # p}
           N == Cardinality(longer)
           e == Extending(p)
           pick(k) == CHOOSE i \in longer : Cardinality(longer \cap 1..i) = k
<1>1. n \in Nat /\ DOMAIN Completions = 1..n /\ \A i \in 1..n : Completions[i] \in Seq(STRING \ {"lead", "tail"})
  BY TextsAssumption
<1>2. longer \in SUBSET (1..n) /\ longer \cap 1..n = longer
  BY <1>1
<1>3. e = [k \in 1..N |-> Completions[pick(k)]]
  BY DEF Extending
<1> HIDE DEF longer, e
<1>4. N \in Nat /\ \A k \in 1..N : \E i \in longer : Cardinality(longer \cap 1..i) = k
  <2>1. /\ Cardinality(longer) \in Nat
        /\ \A k \in 1..Cardinality(longer) : \E i \in longer : Cardinality(longer \cap 1..i) = k
    <3> HIDE DEF n
    <3>. QED BY <1>1, <1>2, RanksExist
  <2>. QED BY <2>1
<1>5. \A k \in 1..N : pick(k) \in longer
  BY <1>4
<1> HIDE DEF N, pick
<1>6. ASSUME NEW t \in Seq(STRING \ {"lead", "tail"}) PROVE t \in Texts /\ Narrow(t)
  <2>1. Len(t) \in Nat /\ DOMAIN t = 1..Len(t) /\ \A i \in 1..Len(t) : t[i] \in STRING /\ t[i] # "lead" /\ t[i] # "tail"
    BY <1>6
  <2>2. t \in Seq(Chars)
    BY <1>6, SeqMonotonic DEF Chars
  <2>3. Whole(t)
    BY <2>1 DEF Whole
  <2>4. Narrow(t)
    <3>1. ASSUME NEW i \in 0..Len(t) PROVE Boundary(t, i)
      <4>1. CASE i = Len(t)
        BY <4>1 DEF Boundary
      <4>2. CASE i # Len(t)
        <5>1. i + 1 \in 1..Len(t) /\ i \in 0..(Len(t) - 1)
          <6>1. i \in 0..Len(t) /\ Len(t) \in Nat
            BY <2>1, <3>1
          <6>. QED BY <4>2, <6>1
        <5>. QED BY <2>1, <5>1 DEF Boundary
      <4>. QED BY <4>1, <4>2
    <3>. QED BY <3>1 DEF Narrow
  <2>. QED BY <2>2, <2>3, <2>4 DEF Texts
<1>7. \A k \in 1..N : e[k] \in Texts /\ Narrow(e[k])
  BY <1>1, <1>2, <1>3, <1>5, <1>6
<1>8. Len(e) = N /\ DOMAIN e = 1..N
  BY <1>3, <1>4
<1>9. e # <<>> => Len(e) > 0 /\ Head(e) = e[1]
  <2>1. e \in Seq(Texts)
    BY <1>4, <1>7, <1>8, <1>3
  <2>. QED BY <2>1, HeadTailProperties
<1>. QED BY <1>4, <1>7, <1>8, <1>9 DEF e

-----------------------------------------------------------------------------
(* The session: its text and command have whole characters, and its        *)
(* cursors are between them.  The anchor of a selection is between         *)
(* characters or at the end of the text or behind it.                      *)
Modes == {"plain", "insert", "normal", "visual", "command"}
Sessions ==
  [text : Texts, cursor : Nat, mode : Modes, operator : {"none", "d", "y"}, anchor : Nat \cup {NoAnchor},
   command : Texts, spot : Nat, index : Nat, backup : Texts]

Sound(s) ==
  /\ s \in Sessions
  /\ Boundary(s.text, s.cursor)
  /\ s.mode = "visual" => s.anchor # NoAnchor
  /\ s.mode = "command" => Boundary(s.command, s.spot) /\ s.spot > 0 /\ s.command[1] = ":"

Anchored(s) == s.mode = "visual" => Boundary(s.text, s.anchor) \/ s.anchor >= Len(s.text)

(* What one key leaves alone.                                              *)
KeepsWalk(r, s) == r.index = s.index /\ r.backup = s.backup
KeepsText(r, s) == r.text = s.text /\ r.mode = s.mode /\ r.anchor = s.anchor

LEMMA CursorSet ==
  ASSUME NEW s \in Sessions, NEW i \in Nat
  PROVE  LET r == [s EXCEPT !.cursor = i] IN
         /\ r \in Sessions /\ r.cursor = i /\ r.text = s.text /\ r.mode = s.mode /\ r.anchor = s.anchor
         /\ r.operator = s.operator /\ r.command = s.command /\ r.spot = s.spot /\ KeepsWalk(r, s)
BY DEF Sessions, KeepsWalk

LEMMA SpotSet ==
  ASSUME NEW s \in Sessions, NEW i \in Nat
  PROVE  LET r == [s EXCEPT !.spot = i] IN
         /\ r \in Sessions /\ r.spot = i /\ r.text = s.text /\ r.mode = s.mode /\ r.anchor = s.anchor
         /\ r.operator = s.operator /\ r.command = s.command /\ r.cursor = s.cursor /\ KeepsWalk(r, s)
BY DEF Sessions, KeepsWalk

LEMMA TextSet ==
  ASSUME NEW s \in Sessions, NEW t \in Texts
  PROVE  LET r == [s EXCEPT !.text = t] IN
         /\ r \in Sessions /\ r.text = t /\ r.cursor = s.cursor /\ r.mode = s.mode /\ r.anchor = s.anchor
         /\ r.operator = s.operator /\ r.command = s.command /\ r.spot = s.spot /\ KeepsWalk(r, s)
BY DEF Sessions, KeepsWalk

LEMMA CommandSet ==
  ASSUME NEW s \in Sessions, NEW t \in Texts
  PROVE  LET r == [s EXCEPT !.command = t] IN
         /\ r \in Sessions /\ r.command = t /\ r.cursor = s.cursor /\ r.mode = s.mode /\ r.anchor = s.anchor
         /\ r.operator = s.operator /\ r.text = s.text /\ r.spot = s.spot /\ KeepsWalk(r, s)
BY DEF Sessions, KeepsWalk

LEMMA OperatorSet ==
  ASSUME NEW s \in Sessions, NEW o \in {"none", "d", "y"}
  PROVE  LET r == [s EXCEPT !.operator = o] IN
         /\ r \in Sessions /\ r.operator = o /\ r.cursor = s.cursor /\ r.mode = s.mode /\ r.anchor = s.anchor
         /\ r.command = s.command /\ r.text = s.text /\ r.spot = s.spot /\ KeepsWalk(r, s)
BY DEF Sessions, KeepsWalk

LEMMA ModeSet ==
  ASSUME NEW s \in Sessions, NEW mode \in Modes
  PROVE  /\ InMode(s, mode) \in Sessions /\ InMode(s, mode).mode = mode
         /\ InMode(s, mode).cursor = s.cursor /\ InMode(s, mode).text = s.text
         /\ InMode(s, mode).command = s.command /\ InMode(s, mode).spot = s.spot
         /\ InMode(s, mode).anchor = (IF mode = "visual" THEN s.cursor ELSE NoAnchor)
         /\ KeepsWalk(InMode(s, mode), s)
<1>1. (IF mode = "visual" THEN s.cursor ELSE NoAnchor) \in Nat \cup {NoAnchor}
  BY DEF Sessions
<1>. QED BY <1>1 DEF InMode, Sessions, KeepsWalk

(* Part of a text, between two offsets where characters begin.             *)
LEMMA SliceIs ==
  ASSUME NEW t \in Texts, NEW i, NEW j, Boundary(t, i), Boundary(t, j), i <= j
  PROVE  SubSeq(t, i + 1, j) \in Texts
<1>1. Len(t) \in Nat /\ i \in 0..Len(t) /\ j \in 0..Len(t) /\ t \in Seq(Chars)
  BY TextFacts
<1> DEFINE b == Before(t, j)
<1>2. b \in Texts /\ Len(b) = j /\ \A k \in 1..j : b[k] = t[k]
  BY <1>1, CutIs
<1>3. b = SubSeq(t, 1, j)
  BY DEF Before
<1> HIDE DEF b
<1>4. Boundary(b, i)
  <2>1. CASE i = j
    BY <1>2, <2>1 DEF Boundary
  <2>2. CASE i # j
    <3>1. i + 1 \in 1..j /\ i \in 0..(Len(t) - 1) /\ i \in 0..(Len(b) - 1) /\ i # Len(t)
      BY <1>1, <1>2, <2>2
    <3>2. t[i + 1] # "tail"
      BY <3>1 DEF Boundary
    <3>. QED BY <1>2, <3>1, <3>2 DEF Boundary
  <2>. QED BY <2>1, <2>2
<1>5. After(b, i) \in Texts
  <2>1. i \in 0..Len(b)
    BY <1>1, <1>2
  <2>. QED BY <1>2, <1>4, <2>1, CutIs
<1>6. After(b, i) = SubSeq(t, i + 1, j)
  <2>1. CASE i = j
    <3>1. SubSeq(t, i + 1, j) = <<>> /\ SubSeq(b, i + 1, j) = <<>>
      BY <1>1, <2>1, SubSeqEmpty
    <3>. QED BY <1>2, <3>1 DEF After
  <2>2. CASE i # j
    <3> DEFINE u == SubSeq(t, i + 1, j)
               v == SubSeq(b, i + 1, j)
    <3>1. i + 1 \in Int /\ j \in Int /\ i + 1 <= j /\ 1 <= i + 1 /\ b \in Seq(Chars)
      BY <1>1, <1>2, <2>2, TextFacts
    <3>2. \A k \in (i + 1)..j : t[k] \in Chars /\ b[k] \in Chars
      BY <1>1, <1>2, <3>1
    <3>3. /\ u \in Seq(Chars) /\ Len(u) = j - (i + 1) + 1
          /\ \A k \in 1..(j - (i + 1) + 1) : u[k] = t[(i + 1) + k - 1]
      BY <3>1, <3>2, SubSeqProperties
    <3>4. /\ v \in Seq(Chars) /\ Len(v) = j - (i + 1) + 1
          /\ \A k \in 1..(j - (i + 1) + 1) : v[k] = b[(i + 1) + k - 1]
      BY <3>1, <3>2, SubSeqProperties
    <3> HIDE DEF u, v
    <3>5. ASSUME NEW k \in 1..Len(u) PROVE u[k] = v[k]
      <4>1. (i + 1) + k - 1 \in 1..j
        BY <1>1, <3>3
      <4>. QED BY <1>2, <3>3, <3>4, <4>1
    <3>6. u = v
      BY <3>3, <3>4, <3>5, SeqEqual
    <3>. QED BY <1>2, <3>6 DEF After, u, v
  <2>. QED BY <2>1, <2>2
<1>. QED BY <1>5, <1>6

(* What is edited, and how a change of it and a move keep it sound.        *)
LEMMA ActiveIs ==
  ASSUME NEW s, Sound(s)
  PROVE  /\ Active(s) \in Texts /\ Boundary(Active(s), Cursor(s)) /\ Cursor(s) \in 0..Len(Active(s))
         /\ s.mode = "command" => Cursor(s) > 0 /\ Active(s)[1] = ":" /\ Boundary(Active(s), 1)
         /\ s.mode # "command" => Active(s) = s.text /\ Cursor(s) = s.cursor
<1>1. /\ Active(s) \in Texts /\ Boundary(Active(s), Cursor(s))
      /\ s.mode = "command" => Cursor(s) > 0 /\ Active(s)[1] = ":"
  BY DEF Sound, Sessions, Active, Cursor
<1>2. Cursor(s) \in 0..Len(Active(s)) /\ Len(Active(s)) \in Nat
  BY <1>1, TextFacts
<1>3. ASSUME s.mode = "command" PROVE Boundary(Active(s), 1)
  <2> DEFINE c == Active(s)
  <2>1. c \in Texts /\ c[1] = ":" /\ 1 \in 1..Len(c)
    BY <1>1, <1>2, <1>3
  <2> HIDE DEF c
  <2>2. Len(c) \in Nat /\ DOMAIN c = 1..Len(c) /\ Whole(c)
    BY <2>1, TextFacts DEF Texts
  <2>3. Boundary(c, 1)
    <3>1. CASE Len(c) = 1
      BY <3>1 DEF Boundary
    <3>2. CASE Len(c) # 1
      <4>1. 1 + 1 \in DOMAIN c /\ 1 \in 0..(Len(c) - 1) /\ (1 + 1) - 1 = 1
        BY <2>1, <2>2, <3>2
      <4>2. c[1] # "lead"
        BY <2>1
      <4>3. c[1 + 1] # "tail"
        BY <2>2, <4>1, <4>2 DEF Whole
      <4>. QED BY <4>1, <4>3 DEF Boundary
    <3>. QED BY <3>1, <3>2
  <2>. QED BY <2>3 DEF c
<1>. QED BY <1>1, <1>2, <1>3 DEF Active, Cursor

LEMMA MovedIs ==
  ASSUME NEW s, Sound(s), NEW i, Boundary(Active(s), i), s.mode = "command" => i > 0
  PROVE  Sound(Moved(s, i)) /\ KeepsText(Moved(s, i), s) /\ KeepsWalk(Moved(s, i), s)
<1>1. s \in Sessions
  BY DEF Sound
<1>2. i \in Nat
  <2>1. Active(s) \in Texts
    BY ActiveIs
  <2>2. i \in 0..Len(Active(s)) /\ Len(Active(s)) \in Nat
    BY <2>1, TextFacts
  <2>. QED BY <2>2
<1>3. CASE s.mode = "command"
  <2> DEFINE r == [s EXCEPT !.spot = i]
  <2>1. /\ r \in Sessions /\ r.spot = i /\ r.text = s.text /\ r.mode = s.mode /\ r.anchor = s.anchor
        /\ r.command = s.command /\ r.cursor = s.cursor /\ KeepsWalk(r, s)
    BY <1>1, <1>2, SpotSet
  <2>2. Moved(s, i) = r /\ Active(s) = s.command
    BY <1>3 DEF Moved, Active
  <2> HIDE DEF r
  <2>. QED BY <1>3, <2>1, <2>2 DEF Sound, KeepsText
<1>4. CASE s.mode # "command"
  <2> DEFINE r == [s EXCEPT !.cursor = i]
  <2>1. /\ r \in Sessions /\ r.cursor = i /\ r.text = s.text /\ r.mode = s.mode /\ r.anchor = s.anchor
        /\ r.command = s.command /\ r.spot = s.spot /\ KeepsWalk(r, s)
    BY <1>1, <1>2, CursorSet
  <2>2. Moved(s, i) = r /\ Active(s) = s.text
    BY <1>4 DEF Moved, Active
  <2> HIDE DEF r
  <2>. QED BY <1>4, <2>1, <2>2 DEF Sound, KeepsText
<1>. QED BY <1>3, <1>4

LEMMA ChangedIs ==
  ASSUME NEW s, Sound(s), NEW t \in Texts, NEW i, Boundary(t, i),
         s.mode = "command" => i > 0 /\ t[1] = ":"
  PROVE  /\ Sound(Moved(Changed(s, t), i)) /\ KeepsWalk(Moved(Changed(s, t), i), s)
         /\ Moved(Changed(s, t), i).mode = s.mode /\ Moved(Changed(s, t), i).anchor = s.anchor
         /\ Moved(Changed(s, t), i).text = IF s.mode = "command" THEN s.text ELSE t
<1>1. s \in Sessions
  BY DEF Sound
<1>2. i \in Nat
  <2>1. i \in 0..Len(t) /\ Len(t) \in Nat
    BY TextFacts
  <2>. QED BY <2>1
<1>3. CASE s.mode = "command"
  <2> DEFINE c == [s EXCEPT !.command = t]
             r == [c EXCEPT !.spot = i]
  <2>1. /\ c \in Sessions /\ c.command = t /\ c.text = s.text /\ c.mode = s.mode /\ c.anchor = s.anchor
        /\ c.cursor = s.cursor /\ KeepsWalk(c, s)
    BY <1>1, CommandSet
  <2> HIDE DEF c
  <2>2. /\ r \in Sessions /\ r.spot = i /\ r.text = c.text /\ r.mode = c.mode /\ r.anchor = c.anchor
        /\ r.command = c.command /\ r.cursor = c.cursor /\ KeepsWalk(r, c)
    BY <1>2, <2>1, SpotSet
  <2>3. Moved(Changed(s, t), i) = r
    BY <1>3, <2>1 DEF Moved, Changed, c
  <2> HIDE DEF r
  <2>. QED BY <1>3, <2>1, <2>2, <2>3 DEF Sound, KeepsWalk
<1>4. CASE s.mode # "command"
  <2> DEFINE c == [s EXCEPT !.text = t]
             r == [c EXCEPT !.cursor = i]
  <2>1. /\ c \in Sessions /\ c.text = t /\ c.command = s.command /\ c.mode = s.mode /\ c.anchor = s.anchor
        /\ c.spot = s.spot /\ KeepsWalk(c, s)
    BY <1>1, TextSet
  <2> HIDE DEF c
  <2>2. /\ r \in Sessions /\ r.cursor = i /\ r.text = c.text /\ r.mode = c.mode /\ r.anchor = c.anchor
        /\ r.command = c.command /\ r.spot = c.spot /\ KeepsWalk(r, c)
    BY <1>2, <2>1, CursorSet
  <2>3. Moved(Changed(s, t), i) = r
    BY <1>4, <2>1 DEF Moved, Changed, c
  <2> HIDE DEF r
  <2>. QED BY <1>4, <2>1, <2>2, <2>3 DEF Sound, KeepsWalk
<1>. QED BY <1>3, <1>4

(* What each key makes of a session is sound, its anchor stays right, and  *)
(* the place in the history and the text kept for it are left alone.       *)
Fine(r, s) == Sound(r) /\ KeepsWalk(r, s) /\ (Anchored(s) => Anchored(r))

LEMMA FineIs ==
  /\ \A r, s : (Sound(r) /\ KeepsWalk(r, s) /\ KeepsText(r, s)) => Fine(r, s)
  /\ \A r, s : (Sound(r) /\ KeepsWalk(r, s) /\ r.mode # "visual") => Fine(r, s)
  /\ \A s : Sound(s) => Fine(s, s)
BY DEF Fine, KeepsText, KeepsWalk, Anchored

LEMMA InsertIs ==
  ASSUME NEW s, Sound(s), s.mode # "visual", NEW b \in Texts
  PROVE  Fine(Insert(s, b), s)
<1> DEFINE t == Inserted(Active(s), Cursor(s), b)
           i == Cursor(s) + Len(b)
<1>1. /\ Active(s) \in Texts /\ Boundary(Active(s), Cursor(s)) /\ Cursor(s) \in Nat /\ Len(b) \in Nat
      /\ s.mode = "command" => Cursor(s) > 0 /\ Active(s)[1] = ":"
  BY ActiveIs, TextFacts
<1>2. t \in Texts /\ Boundary(t, i) /\ (Cursor(s) > 0 => t[1] = Active(s)[1])
  BY <1>1, InsertedIs
<1>3. Insert(s, b) = Moved(Changed(s, t), i)
  BY DEF Insert
<1>4. s.mode = "command" => i > 0 /\ t[1] = ":"
  BY <1>1, <1>2
<1> HIDE DEF t, i
<1>5. Sound(Moved(Changed(s, t), i)) /\ KeepsWalk(Moved(Changed(s, t), i), s) /\ Moved(Changed(s, t), i).mode = s.mode
  BY <1>2, <1>4, ChangedIs
<1>. QED BY <1>3, <1>5, FineIs

LEMMA MotionsAre ==
  ASSUME NEW s, Sound(s)
  PROVE  /\ Fine(Left(s), s) /\ Fine(Right(s), s) /\ Fine(Home(s), s) /\ Fine(End(s), s)
         /\ s.mode # "command" => Fine(Up(s), s) /\ Fine(Down(s), s)
<1> DEFINE a == Active(s)
           c == Cursor(s)
<1>1. /\ a \in Texts /\ Boundary(a, c) /\ c \in 0..Len(a) /\ Boundary(a, Len(a)) /\ Len(a) \in Nat
      /\ s.mode = "command" => c > 0 /\ Boundary(a, 1) /\ a = s.command
      /\ s.mode # "command" => a = s.text /\ c = s.cursor
  BY ActiveIs, TextFacts DEF Active
<1> HIDE DEF a, c
<1>2. ASSUME NEW i, Boundary(a, i), s.mode = "command" => i > 0 PROVE Fine(Moved(s, i), s)
  BY <1>2, MovedIs, FineIs DEF a
<1>3. Fine(Left(s), s)
  <2> DEFINE p == PreviousBoundary(a, c)
             i == IF s.mode = "command" /\ p = 0 THEN 1 ELSE p
  <2>1. Boundary(a, p) /\ p \in 0..Len(a)
    BY <1>1, NeighboursAre, TextFacts
  <2>2. Left(s) = Moved(s, i)
    BY DEF Left, a, c
  <2> HIDE DEF p
  <2>3. Boundary(a, i) /\ (s.mode = "command" => i > 0)
    BY <1>1, <2>1
  <2> HIDE DEF i
  <2>. QED BY <1>2, <2>2, <2>3
<1>4. Fine(Right(s), s)
  <2> DEFINE i == NextBoundary(a, c)
  <2>1. Boundary(a, i) /\ i >= c /\ i \in 0..Len(a)
    BY <1>1, NeighboursAre, TextFacts
  <2>2. Right(s) = Moved(s, i)
    BY DEF Right, a, c
  <2> HIDE DEF i
  <2>3. s.mode = "command" => i > 0
    BY <1>1, <2>1
  <2>. QED BY <1>2, <2>1, <2>2, <2>3
<1>5. s.mode # "command" => /\ Boundary(a, LineStart(s.text, s.cursor)) /\ Boundary(a, LineEnd(s.text, s.cursor))
  BY <1>1, LineEndsAre
<1>6. Fine(Home(s), s)
  <2> DEFINE i == IF s.mode = "command" THEN 1 ELSE LineStart(s.text, s.cursor)
  <2>1. Home(s) = Moved(s, i)
    BY DEF Home
  <2>2. Boundary(a, i) /\ (s.mode = "command" => i > 0)
    BY <1>1, <1>5
  <2> HIDE DEF i
  <2>. QED BY <1>2, <2>1, <2>2
<1>7. Fine(End(s), s)
  <2> DEFINE i == IF s.mode = "command" THEN Len(s.command) ELSE LineEnd(s.text, s.cursor)
  <2>1. End(s) = Moved(s, i)
    BY DEF End
  <2>2. Boundary(a, i) /\ (s.mode = "command" => i > 0)
    BY <1>1, <1>5
  <2> HIDE DEF i
  <2>. QED BY <1>2, <2>1, <2>2
<1>8. ASSUME s.mode # "command" PROVE Fine(Up(s), s) /\ Fine(Down(s), s)
  <2>1. Row(s.text, s.cursor) \in Nat
    <3> DEFINE n == s.cursor
               S == {j \in 1..n : s.text[j] = Newline}
    <3>1. n \in Nat /\ S \in SUBSET (1..n)
      BY <1>1, <1>8
    <3> HIDE DEF n, S
    <3>2. Cardinality(S) \in Nat
      BY <3>1, RanksExist
    <3>. QED BY <3>2 DEF Row, n, S
  <2>2. /\ Boundary(a, Vertical(s.text, s.cursor, Row(s.text, s.cursor) - 1))
        /\ Boundary(a, Vertical(s.text, s.cursor, Row(s.text, s.cursor) + 1))
    BY <1>1, <1>8, <2>1, VerticalIs
  <2>3. /\ Up(s) = Moved(s, Vertical(s.text, s.cursor, Row(s.text, s.cursor) - 1))
        /\ Down(s) = Moved(s, Vertical(s.text, s.cursor, Row(s.text, s.cursor) + 1))
    BY <1>8 DEF Up, Down, Moved
  <2>. QED BY <1>2, <1>8, <2>2, <2>3
<1>. QED BY <1>3, <1>4, <1>6, <1>7, <1>8

LEMMA LeaveIs ==
  ASSUME NEW s, Sound(s)
  PROVE  Fine(LeaveCommand(s), s)
<1> DEFINE c == [s EXCEPT !.command = <<>>]
           r == [c EXCEPT !.spot = 0]
<1>1. /\ c \in Sessions /\ c.text = s.text /\ c.cursor = s.cursor /\ KeepsWalk(c, s)
  BY BytesAre, CommandSet DEF Sound
<1> HIDE DEF c
<1>2. /\ r \in Sessions /\ r.text = c.text /\ r.cursor = c.cursor /\ KeepsWalk(r, c)
  BY <1>1, SpotSet
<1>3. LeaveCommand(s) = InMode(r, "normal")
  BY DEF LeaveCommand, r, c
<1> HIDE DEF r
<1>4. "normal" \in Modes
  BY DEF Modes
<1>5. /\ InMode(r, "normal") \in Sessions /\ InMode(r, "normal").mode = "normal"
      /\ InMode(r, "normal").cursor = r.cursor /\ InMode(r, "normal").text = r.text
      /\ KeepsWalk(InMode(r, "normal"), r)
  BY <1>2, <1>4, ModeSet
<1>6. Sound(InMode(r, "normal")) /\ KeepsWalk(InMode(r, "normal"), s)
  BY <1>1, <1>2, <1>5 DEF Sound, KeepsWalk
<1>. QED BY <1>3, <1>5, <1>6, FineIs

LEMMA InModeIs ==
  ASSUME NEW s, Sound(s), NEW mode \in Modes \ {"command"}
  PROVE  Fine(InMode(s, mode), s)
<1> DEFINE r == InMode(s, mode)
<1>1. /\ r \in Sessions /\ r.mode = mode /\ r.cursor = s.cursor /\ r.text = s.text
      /\ r.anchor = (IF mode = "visual" THEN s.cursor ELSE NoAnchor) /\ KeepsWalk(r, s)
  BY ModeSet DEF Sound
<1> HIDE DEF r
<1>2. s.cursor \in Nat
  BY DEF Sound, Sessions
<1>3. Sound(r)
  BY <1>1, <1>2 DEF Sound, NoAnchor
<1>4. Anchored(r)
  BY <1>1 DEF Anchored, Sound
<1>. QED BY <1>1, <1>3, <1>4 DEF Fine, r

LEMMA BackspaceIs ==
  ASSUME NEW s, Sound(s)
  PROVE  Fine(Backspace(s), s)
<1>1. CASE s.mode \in {"normal", "visual"}
  <2>1. Backspace(s) = Left(s)
    BY <1>1 DEF Backspace
  <2>. QED BY <2>1, MotionsAre
<1>2. CASE s.mode \notin {"normal", "visual"} /\ s.mode = "command" /\ s.spot <= 1
  <2>1. Backspace(s) = LeaveCommand(s)
    BY <1>2 DEF Backspace
  <2>. QED BY <2>1, LeaveIs
<1>3. CASE s.mode \notin {"normal", "visual"} /\ ~ (s.mode = "command" /\ s.spot <= 1)
  <2> DEFINE a == Active(s)
             c == Cursor(s)
             i == PreviousBoundary(a, c)
             t == Drained(a, i, c)
  <2>1. Backspace(s) = Moved(Changed(s, t), i)
    BY <1>3 DEF Backspace
  <2>2. /\ a \in Texts /\ Boundary(a, c) /\ c \in 0..Len(a) /\ Len(a) \in Nat
        /\ s.mode = "command" => c = s.spot /\ a[1] = ":" /\ Boundary(a, 1)
    BY ActiveIs, TextFacts DEF Cursor
  <2> HIDE DEF a, c
  <2>3. Boundary(a, i) /\ i <= c /\ \A j : (Boundary(a, j) /\ j < c) => j <= i
    BY <2>2, NeighboursAre
  <2>4. i \in 0..Len(a)
    BY <2>2, <2>3, TextFacts
  <2> HIDE DEF i
  <2>5. t \in Texts /\ Boundary(t, i) /\ (i > 0 => t[1] = a[1])
    BY <2>2, <2>3, DrainedIs
  <2> HIDE DEF t
  <2>6. s.mode = "command" => i > 0 /\ t[1] = ":"
    <3>1. ASSUME s.mode = "command" PROVE i > 0
      <4>1. 1 < c
        BY <1>3, <2>2, <3>1
      <4>2. 1 <= i
        BY <2>2, <2>3, <3>1, <4>1
      <4>. QED BY <2>4, <4>2
    <3>. QED BY <2>2, <2>5, <3>1
  <2>7. Sound(Moved(Changed(s, t), i)) /\ KeepsWalk(Moved(Changed(s, t), i), s) /\ Moved(Changed(s, t), i).mode = s.mode
    BY <2>5, <2>6, ChangedIs
  <2>. QED BY <1>3, <2>1, <2>7, FineIs
<1>. QED BY <1>1, <1>2, <1>3

LEMMA EscapeIs ==
  ASSUME NEW s, Sound(s)
  PROVE  Fine(Escape(s), s)
<1>. "normal" \in Modes \ {"command"}
  BY DEF Modes
<1>1. CASE s.mode = "insert"
  <2> DEFINE i == PreviousBoundary(s.text, s.cursor)
             r == [s EXCEPT !.cursor = i]
  <2>1. Boundary(s.text, i)
    BY <1>1, ActiveIs, NeighboursAre
  <2>2. r = Moved(s, i) /\ Active(s) = s.text
    BY <1>1 DEF Moved, Active
  <2> HIDE DEF i
  <2>3. Sound(r) /\ KeepsWalk(r, s)
    BY <1>1, <2>1, <2>2, MovedIs
  <2>4. Escape(s) = InMode(r, "normal")
    BY <1>1 DEF Escape, r, i
  <2> HIDE DEF r
  <2>5. Fine(InMode(r, "normal"), r)
    BY <2>3, InModeIs
  <2>6. InMode(r, "normal").mode = "normal"
    BY <2>3, ModeSet DEF Sound
  <2>7. Sound(InMode(r, "normal")) /\ KeepsWalk(InMode(r, "normal"), s)
    BY <2>3, <2>5 DEF Fine, KeepsWalk
  <2>. QED BY <2>4, <2>6, <2>7, FineIs
<1>2. CASE s.mode = "visual"
  <2>1. Escape(s) = InMode(s, "normal")
    BY <1>2 DEF Escape
  <2>. QED BY <2>1, InModeIs
<1>3. CASE s.mode = "command"
  <2>1. Escape(s) = LeaveCommand(s)
    BY <1>3 DEF Escape
  <2>. QED BY <2>1, LeaveIs
<1>4. CASE s.mode \notin {"insert", "visual", "command"}
  <2>1. Escape(s) = s
    BY <1>4 DEF Escape
  <2>. QED BY <2>1, FineIs
<1>. QED BY <1>1, <1>2, <1>3, <1>4

(* A deletion of the character at the cursor: the anchor may then lie      *)
(* within a character if it is behind the cursor, which rendering does not *)
(* survive, or beyond the end.                                             *)
LEMMA DeleteIs ==
  ASSUME NEW s, Sound(s), Anchored(s)
  PROVE  /\ Sound(DeleteUnder(s)) /\ KeepsWalk(DeleteUnder(s), s)
         /\ RenderPanics(DeleteUnder(s)) => s.mode = "visual" /\ s.cursor < s.anchor
         /\ ~ RenderPanics(DeleteUnder(s)) => Anchored(DeleteUnder(s))
<1> DEFINE a == Active(s)
           c == Cursor(s)
           j == NextBoundary(a, c)
           t == Drained(a, c, j)
           r == DeleteUnder(s)
<1>1. /\ a \in Texts /\ Boundary(a, c) /\ c \in 0..Len(a) /\ Len(a) \in Nat
      /\ s.mode = "command" => c > 0 /\ a[1] = ":" /\ c = s.spot
      /\ s.mode # "command" => a = s.text /\ c = s.cursor
  BY ActiveIs, TextFacts DEF Cursor
<1>2. r = Changed(s, t)
  BY DEF DeleteUnder
<1> HIDE DEF a, c, r
<1>3. Boundary(a, j) /\ c <= j
  BY <1>1, NeighboursAre
<1> HIDE DEF j
<1>4. /\ t \in Texts /\ Boundary(t, c) /\ (c > 0 => t[1] = a[1])
      /\ \A k : (Boundary(a, k) /\ k <= c) => Boundary(t, k)
  BY <1>1, <1>3, DrainedIs
<1> HIDE DEF t
<1>5. /\ r \in Sessions /\ r.mode = s.mode /\ r.anchor = s.anchor /\ r.cursor = s.cursor /\ r.spot = s.spot
      /\ KeepsWalk(r, s)
      /\ s.mode = "command" => r.command = t /\ r.text = s.text
      /\ s.mode # "command" => r.text = t
  <2>1. s \in Sessions
    BY DEF Sound
  <2>2. CASE s.mode = "command"
    <3>1. r = [s EXCEPT !.command = t]
      BY <1>2, <2>2 DEF Changed
    <3>. QED BY <1>4, <2>1, <2>2, <3>1, CommandSet
  <2>3. CASE s.mode # "command"
    <3>1. r = [s EXCEPT !.text = t]
      BY <1>2, <2>3 DEF Changed
    <3>. QED BY <1>4, <2>1, <2>3, <3>1, TextSet
  <2>. QED BY <2>2, <2>3
<1>6. Sound(r)
  BY <1>1, <1>4, <1>5 DEF Sound
<1>7. ASSUME s.mode = "visual", ~ (s.cursor < s.anchor) PROVE Boundary(r.text, s.anchor)
  <2>1. s.anchor \in Nat /\ s.anchor <= c /\ r.text = t /\ a = s.text
    BY <1>1, <1>5, <1>7 DEF Sound, Sessions, NoAnchor
  <2>2. Boundary(a, s.anchor)
    <3>1. CASE s.anchor >= Len(a)
      <4>1. s.anchor = c /\ s.anchor \in Nat
        BY <1>1, <2>1, <3>1
      <4>. QED BY <1>1, <4>1
    <3>2. CASE ~ (s.anchor >= Len(a))
      BY <1>7, <2>1, <3>2 DEF Anchored
    <3>. QED BY <3>1, <3>2
  <2>. QED BY <1>4, <2>1, <2>2
<1>8. RenderPanics(r) => s.mode = "visual" /\ s.cursor < s.anchor
  BY <1>5 DEF RenderPanics
<1>9. ASSUME ~ RenderPanics(r) PROVE Anchored(r)
  <2>1. CASE r.mode = "visual" /\ s.cursor < s.anchor
    <3>1. ~ (r.anchor < Len(r.text)) \/ Boundary(r.text, r.anchor)
      BY <1>5, <1>9, <2>1 DEF RenderPanics
    <3>2. r.anchor \in Nat /\ Len(r.text) \in Nat
      <4>1. r.text \in Texts /\ r.anchor \in Nat
        BY <1>6, <2>1 DEF Sound, Sessions, NoAnchor
      <4>. QED BY <4>1, TextFacts
    <3>. QED BY <3>1, <3>2 DEF Anchored
  <2>2. CASE r.mode = "visual" /\ ~ (s.cursor < s.anchor)
    BY <1>5, <1>7, <2>2 DEF Anchored
  <2>3. CASE r.mode # "visual"
    BY <2>3 DEF Anchored
  <2>. QED BY <2>1, <2>2, <2>3
<1>. QED BY <1>5, <1>6, <1>8, <1>9 DEF r

(* Lines are deleted, kept and put back whole.                             *)
LEMMA YankedIs ==
  ASSUME NEW s, Sound(s)
  PROVE  Yanked(s) \in Texts
<1>1. s.text \in Texts /\ s.cursor \in 0..Len(s.text)
  <2>1. s.text \in Texts
    BY DEF Sound, Sessions
  <2>. QED BY <2>1, TextFacts DEF Sound
<1>2. /\ Boundary(s.text, LineFrom(s)) /\ LineFrom(s) \in 0..s.cursor
      /\ Boundary(s.text, LineTo(s)) /\ LineTo(s) \in s.cursor..Len(s.text)
  BY <1>1, LineEndsAre DEF LineFrom, LineTo
<1>3. LineFrom(s) <= LineTo(s)
  BY <1>1, <1>2
<1>. QED BY <1>1, <1>2, <1>3, SliceIs DEF Yanked

LEMMA DeleteLineIs ==
  ASSUME NEW s, Sound(s), s.mode = "normal"
  PROVE  Fine(DeleteLine(s), s)
<1> DEFINE from == DeleteFrom(s)
           to == LineTo(s)
           t == Drained(s.text, from, to)
           i == Least(from, Len(t))
<1>1. s.text \in Texts /\ s.cursor \in 0..Len(s.text) /\ Len(s.text) \in Nat /\ s \in Sessions
  <2>1. s.text \in Texts
    BY DEF Sound, Sessions
  <2>. QED BY <2>1, TextFacts DEF Sound
<1>2. /\ Boundary(s.text, LineFrom(s)) /\ LineFrom(s) \in 0..s.cursor
      /\ LineFrom(s) > 0 => Boundary(s.text, LineFrom(s) - 1)
      /\ Boundary(s.text, to) /\ to \in s.cursor..Len(s.text)
  BY <1>1, LineEndsAre DEF LineFrom, LineTo
<1>3. Boundary(s.text, from) /\ from <= to /\ from \in Nat
  BY <1>1, <1>2 DEF DeleteFrom
<1> HIDE DEF from, to
<1>4. t \in Texts /\ Boundary(t, from)
  BY <1>1, <1>2, <1>3, DrainedIs
<1>5. from \in 0..Len(t) /\ Len(t) \in Nat
  BY <1>4, TextFacts
<1>6. i = from
  <2> DEFINE S == {from, Len(t)}
  <2>1. S \in SUBSET (0..Len(t)) /\ S # {}
    BY <1>5
  <2> HIDE DEF S, t
  <2>2. Smallest(S) \in S /\ \A j \in S : Smallest(S) <= j
    BY <1>5, <2>1, ExtremesExist
  <2>3. Smallest(S) <= from /\ (Smallest(S) = from \/ Smallest(S) = Len(t))
    BY <2>2 DEF S
  <2>4. Smallest(S) = from
    BY <1>5, <2>3
  <2>. QED BY <2>4 DEF Least, S
<1>7. DeleteLine(s) = Moved(Changed(s, t), i)
  <2>1. DeleteLine(s) = [s EXCEPT !.text = t, !.cursor = i]
    BY DEF DeleteLine, t, i, from, to
  <2>2. [s EXCEPT !.text = t].mode = s.mode
    BY <1>1, <1>4, TextSet
  <2> HIDE DEF t, i
  <2>3. Moved(Changed(s, t), i) = [[s EXCEPT !.text = t] EXCEPT !.cursor = i]
    BY <2>2 DEF Moved, Changed
  <2>4. [s EXCEPT !.text = t, !.cursor = i] = [[s EXCEPT !.text = t] EXCEPT !.cursor = i]
    BY <1>1 DEF Sessions
  <2>. QED BY <2>1, <2>3, <2>4
<1> HIDE DEF t, i
<1>8. /\ Sound(Moved(Changed(s, t), i)) /\ KeepsWalk(Moved(Changed(s, t), i), s)
      /\ Moved(Changed(s, t), i).mode = s.mode
  BY <1>4, <1>6, ChangedIs
<1>. QED BY <1>7, <1>8, FineIs

LEMMA InsertionIs ==
  ASSUME NEW s, s.text \in Texts, NEW line \in Texts, NEW i
  PROVE  Insertion(s, line, i) \in Texts
<1> DEFINE head == IF i = Len(s.text) /\ s.text # <<>> /\ ~Ends(s.text) THEN <<Newline>> ELSE <<>>
           full == head \o line
<1>1. head \in Texts
  BY BytesAre
<1> HIDE DEF head
<1>2. full \in Texts
  BY <1>1, JoinIs
<1>3. Append(full, Newline) = full \o <<Newline>>
  <2>1. full \in Seq(Chars) /\ Newline \in Chars
    BY <1>2, TextFacts DEF Chars
  <2>. QED BY <2>1, AppendIsConcat
<1> HIDE DEF full
<1>4. full \o <<Newline>> \in Texts
  BY <1>2, BytesAre, JoinIs
<1>. QED BY <1>2, <1>3, <1>4 DEF Insertion, full, head

LEMMA PasteIs ==
  ASSUME NEW s, Sound(s), s.mode = "normal", NEW line \in Texts
  PROVE  Fine(Paste(s, line), s)
<1> DEFINE i == Least(LineEnd(s.text, s.cursor) + 1, Len(s.text))
           b == Insertion(s, line, i)
           t == Inserted(s.text, i, b)
           k == IF Starts(b) THEN i + 1 ELSE i
<1>1. s.text \in Texts /\ s.cursor \in 0..Len(s.text) /\ Len(s.text) \in Nat /\ s \in Sessions
  <2>1. s.text \in Texts
    BY DEF Sound, Sessions
  <2>. QED BY <2>1, TextFacts DEF Sound
<1>2. Boundary(s.text, i)
  BY <1>1, LineEndsAre
<1> HIDE DEF i
<1>3. b \in Texts
  BY <1>1, InsertionIs
<1> HIDE DEF b
<1>4. t \in Texts /\ Boundary(t, k)
  BY <1>1, <1>2, <1>3, InsertedIs
<1>5. [s EXCEPT !.text = t, !.cursor = k] = Moved(Changed(s, t), k)
  <2>1. [s EXCEPT !.text = t].mode = s.mode
    BY <1>1, <1>4, TextSet
  <2> HIDE DEF t, k
  <2>2. Moved(Changed(s, t), k) = [[s EXCEPT !.text = t] EXCEPT !.cursor = k]
    BY <2>1 DEF Moved, Changed
  <2>3. [s EXCEPT !.text = t, !.cursor = k] = [[s EXCEPT !.text = t] EXCEPT !.cursor = k]
    BY <1>1 DEF Sessions
  <2>. QED BY <2>2, <2>3
<1>6. Paste(s, line) = IF line = <<>> THEN s ELSE [s EXCEPT !.text = t, !.cursor = k]
  BY DEF Paste, i, b
<1> HIDE DEF t, k
<1>7. /\ Sound(Moved(Changed(s, t), k)) /\ KeepsWalk(Moved(Changed(s, t), k), s)
      /\ Moved(Changed(s, t), k).mode = s.mode
  BY <1>4, ChangedIs
<1>. QED BY <1>5, <1>6, <1>7, FineIs

LEMMA TakenIs ==
  ASSUME NEW s, Sound(s), NEW o \in {"none", "d", "y"}
  PROVE  /\ Fine([s EXCEPT !.operator = o], s) /\ [s EXCEPT !.operator = o].mode = s.mode
         /\ [s EXCEPT !.operator = o].cursor = s.cursor /\ [s EXCEPT !.operator = o].text = s.text
<1> DEFINE r == [s EXCEPT !.operator = o]
<1>1. /\ r \in Sessions /\ r.cursor = s.cursor /\ r.mode = s.mode /\ r.anchor = s.anchor
      /\ r.command = s.command /\ r.text = s.text /\ r.spot = s.spot /\ KeepsWalk(r, s)
  BY OperatorSet DEF Sound
<1> HIDE DEF r
<1>2. Sound(r) /\ KeepsText(r, s)
  BY <1>1 DEF Sound, KeepsText
<1>. QED BY <1>1, <1>2, FineIs DEF r

(* A step of the walk through the history.                                 *)
LEMMA FromHistoryIs ==
  ASSUME NEW s, Sound(s), s.mode # "command", NEW i \in Nat, NEW t \in Texts
  PROVE  /\ Sound(FromHistory(s, i, t)) /\ Anchored(FromHistory(s, i, t))
         /\ FromHistory(s, i, t).index = i /\ FromHistory(s, i, t).backup = s.backup
         /\ FromHistory(s, i, t).text = t
         /\ FromHistory(s, i, t).mode \in {"plain", "insert", "normal"}
<1> DEFINE r == FromHistory(s, i, t)
           mode == IF s.mode \in {"plain", "insert"} THEN s.mode ELSE "normal"
<1>1. Len(t) \in Nat /\ Boundary(t, Len(t))
  BY TextFacts
<1>2. mode \in Modes /\ mode \in {"plain", "insert", "normal"} /\ NoAnchor \in Nat \cup {NoAnchor}
  BY DEF Modes
<1>3. s \in Sessions
  BY DEF Sound
<1>4. r = [s EXCEPT !.index = i, !.text = t, !.cursor = Len(t), !.operator = "none", !.anchor = NoAnchor, !.mode = mode]
  BY <1>3 DEF FromHistory, Sessions
<1> HIDE DEF mode, r
<1>5. /\ r \in Sessions /\ r.text = t /\ r.cursor = Len(t) /\ r.mode = mode /\ r.index = i /\ r.backup = s.backup
  BY <1>1, <1>2, <1>3, <1>4 DEF Sessions
<1>6. Sound(r) /\ Anchored(r)
  BY <1>1, <1>2, <1>5 DEF Sound, Anchored
<1>. QED BY <1>2, <1>5, <1>6 DEF r

LEMMA RestoredIs ==
  ASSUME NEW s, Sound(s), s.mode # "command"
  PROVE  /\ Sound(Restored(s)) /\ Anchored(Restored(s))
         /\ Restored(s).index = 0 /\ Restored(s).text = s.backup
<1> DEFINE h == FromHistory(s, 0, s.backup)
           r == [h EXCEPT !.backup = <<>>]
           mode == IF vim THEN "insert" ELSE "plain"
<1>1. s.backup \in Texts /\ 0 \in Nat
  BY DEF Sound, Sessions
<1>2. Sound(h) /\ h.index = 0 /\ h.text = s.backup /\ h.mode \in {"plain", "insert", "normal"}
  BY <1>1, FromHistoryIs
<1> HIDE DEF h
<1>3. <<>> \in Texts /\ h \in Sessions
  BY <1>2, BytesAre DEF Sound
<1>4. /\ r \in Sessions /\ r.text = h.text /\ r.cursor = h.cursor /\ r.mode = h.mode /\ r.index = h.index
  BY <1>3 DEF Sessions
<1> HIDE DEF r
<1>5. Sound(r)
  BY <1>2, <1>4 DEF Sound
<1>6. mode \in Modes \ {"command"} /\ mode \in Modes /\ mode # "visual"
  BY DEF Modes
<1>7. Restored(s) = InMode(r, mode)
  BY DEF Restored, r, h
<1> HIDE DEF mode
<1>8. Fine(InMode(r, mode), r) /\ InMode(r, mode).mode = mode /\ InMode(r, mode).text = r.text
  BY <1>4, <1>5, <1>6, InModeIs, ModeSet
<1>9. Sound(InMode(r, mode)) /\ InMode(r, mode).index = 0 /\ Anchored(InMode(r, mode))
  BY <1>2, <1>4, <1>6, <1>8 DEF Fine, KeepsWalk, Anchored
<1>. QED BY <1>2, <1>4, <1>7, <1>8, <1>9

-----------------------------------------------------------------------------
(* Whatever keys are pressed: the session is sound, so are the lines it    *)
(* can take texts from, and the text set aside for the walk through the    *)
(* history is the one that was typed.  While Tab is pressed, the text is   *)
(* the completion that was offered last.                                   *)
Cycling(cs, s) ==
  \E p : \E n \in Nat \ {0} :
    /\ cs = <<[prefix |-> p, next |-> n, matches |-> Extending(p)]>>
    /\ Extending(p) # <<>> /\ s.mode # "command" /\ s.cursor = Len(s.text)
    /\ s.text = Following(Extending(p), n - 1)

WalkIsKept == session.index # 0 => session.backup = draft

EditorInv ==
  /\ Sound(session)
  /\ program = "reading" => Anchored(session)
  /\ yank \in Texts /\ lines \in Seq(Texts) /\ session.index <= Len(lines)
  /\ WalkIsKept
  /\ completion = <<>> \/ Cycling(completion, session)

(* What a step shows of the two properties.                                *)
PanicIsDelete == program' = "panicked" => Delete /\ session.mode = "visual" /\ session.cursor < session.anchor
WalkComesBack == (session.index # 0 /\ session'.index = 0) => session'.text = draft
CompletionGoesOn ==
  (completion # <<>> /\ completion' # <<>>) =>
     LET all == Extending(completion[1].prefix) IN
     \E i \in DOMAIN all : all[i] = session.text /\ session'.text = all[(i % Len(all)) + 1]

LEMMA NewSessionIs ==
  ASSUME NEW v
  PROVE  Sound(NewSession(v)) /\ Anchored(NewSession(v)) /\ NewSession(v).index = 0
<1> DEFINE s == NewSession(v)
           mode == IF v THEN "insert" ELSE "plain"
<1>1. <<>> \in Texts /\ Len(<<>>) = 0 /\ mode \in Modes /\ mode # "visual" /\ mode # "command"
  BY BytesAre DEF Modes
<1>2. s = [text |-> <<>>, cursor |-> 0, mode |-> mode, operator |-> "none", anchor |-> NoAnchor,
           command |-> <<>>, spot |-> 0, index |-> 0, backup |-> <<>>]
  BY DEF NewSession
<1> HIDE DEF mode, s
<1>3. s \in Sessions /\ s.text = <<>> /\ s.cursor = 0 /\ s.mode = mode /\ s.index = 0
  BY <1>1, <1>2 DEF Sessions
<1>4. Boundary(s.text, s.cursor)
  BY <1>1, <1>3 DEF Boundary
<1>. QED BY <1>1, <1>3, <1>4 DEF Sound, Anchored, s

LEMMA EditorStarts == EditorInit => EditorInv
<1> SUFFICES ASSUME EditorInit PROVE EditorInv
  OBVIOUS
<1>1. Sound(session) /\ Anchored(session) /\ session.index = 0
  BY NewSessionIs DEF EditorInit
<1>2. lines \in Seq(Seq(STRING)) /\ \A i \in DOMAIN lines : Whole(lines[i])
  BY TextsAssumption DEF EditorInit
<1>3. Len(lines) \in Nat /\ DOMAIN lines = 1..Len(lines) /\ \A i \in 1..Len(lines) : lines[i] \in Seq(STRING)
  BY <1>2
<1>4. \A i \in 1..Len(lines) : lines[i] \in Texts
  BY <1>2, <1>3, SeqMonotonic DEF Texts, Chars
<1>5. lines \in Seq(Texts)
  BY <1>2, <1>3, <1>4
<1>. QED BY <1>1, <1>3, <1>5, BytesAre DEF EditorInit, EditorInv, WalkIsKept

(* Most keys edit the session and leave everything else alone.             *)
LEMMA ShownIs ==
  ASSUME EditorInv, NEW r, Sound(r), Anchored(r), Shows(r)
  PROVE  Sound(session') /\ (program' = "reading" => Anchored(session')) /\ program' # "panicked"
<1>1. ~ RenderPanics(r)
  <2> SUFFICES ASSUME RenderPanics(r) PROVE FALSE
    OBVIOUS
  <2>1. r.anchor \in Nat /\ Len(r.text) \in Nat
    <3>1. r.text \in Texts /\ r.anchor \in Nat
      BY DEF RenderPanics, Sound, Sessions, NoAnchor
    <3>. QED BY <3>1, TextFacts
  <2>. QED BY <2>1 DEF RenderPanics, Anchored
<1>. QED BY <1>1 DEF Shows

LEMMA FineKeeps ==
  ASSUME EditorInv, program = "reading", NEW r, Fine(r, session), Shows(r),
         completion' = <<>>, UNCHANGED <<lines, draft>>, yank' \in Texts
  PROVE  EditorInv' /\ program' # "panicked" /\ WalkComesBack /\ CompletionGoesOn
<1>1. session' = r /\ Sound(r) /\ Anchored(r) /\ r.index = session.index /\ r.backup = session.backup
  BY DEF EditorInv, Fine, KeepsWalk, Shows
<1>2. /\ Sound(session') /\ (program' = "reading" => Anchored(session')) /\ program' # "panicked"
  BY <1>1, ShownIs
<1>3. WalkIsKept' /\ session'.index <= Len(lines')
  BY <1>1 DEF EditorInv, WalkIsKept
<1>. QED BY <1>1, <1>2, <1>3 DEF EditorInv, WalkComesBack, CompletionGoesOn

LEMMA EditsKeep ==
  ASSUME EditorInv, NEW r, Edits(r), program = "reading" => Fine(r, session)
  PROVE  EditorInv' /\ program' # "panicked" /\ WalkComesBack /\ CompletionGoesOn
<1>1. /\ program = "reading" /\ Shows(r) /\ completion' = <<>> /\ UNCHANGED <<lines, draft>> /\ yank' = yank
  BY DEF Edits, Press
<1>2. yank' \in Texts
  BY <1>1 DEF EditorInv
<1>. QED BY <1>1, <1>2, FineKeeps

LEMMA ReadsNextKeeps ==
  ASSUME EditorInv, NEW v, NEW O, NEW new, ReadsNext(v, O, new), "panicked" \notin O, new \in Seq(Texts)
  PROVE  EditorInv' /\ program' # "panicked" /\ completion' = <<>> /\ session' = NewSession(v)
<1>1. /\ session' = NewSession(v) /\ lines' = new /\ yank' = yank /\ completion' = <<>> /\ program' \in O
  BY DEF ReadsNext
<1>2. Sound(session') /\ Anchored(session') /\ session'.index = 0
  BY <1>1, NewSessionIs
<1>3. Len(lines') \in Nat /\ lines' \in Seq(Texts)
  BY <1>1
<1>. QED BY <1>1, <1>2, <1>3 DEF EditorInv, WalkIsKept

LEMMA OlderKeeps ==
  ASSUME EditorInv, Older
  PROVE  EditorInv' /\ program' # "panicked" /\ WalkComesBack /\ completion' = <<>>
<1>1. /\ Sound(session) /\ Anchored(session) /\ yank' = yank /\ lines' = lines /\ completion' = <<>>
      /\ yank \in Texts /\ lines \in Seq(Texts) /\ session.index <= Len(lines) /\ WalkIsKept
  BY DEF EditorInv, Older, Press
<1>2. CASE session.mode = "command" \/ lines = <<>>
  <2>1. Shows(session) /\ draft' = draft
    BY <1>2 DEF Older
  <2>2. Fine(session, session) /\ program = "reading"
    BY <1>1, FineIs DEF Older, Press
  <2>. QED BY <1>1, <2>1, <2>2, FineKeeps
<1>3. CASE session.mode # "command" /\ lines # <<>>
  <2> DEFINE i == IF session.index = 0 THEN Len(lines) ELSE Largest({1, session.index - 1})
             s == IF session.index = 0 THEN [session EXCEPT !.backup = session.text] ELSE session
             r == FromHistory(s, i, lines[i])
  <2>1. Shows(r) /\ draft' = IF session.index = 0 THEN session.text ELSE draft
    BY <1>3 DEF Older
  <2>2. session \in Sessions /\ session.index \in Nat /\ session.text \in Texts
    BY <1>1 DEF Sound, Sessions
  <2>3. Len(lines) \in Nat /\ Len(lines) > 0 /\ \A h \in 1..Len(lines) : lines[h] \in Texts
    BY <1>1, <1>3
  <2>4. i \in 1..Len(lines)
    <3>1. CASE session.index = 0
      BY <2>3, <3>1
    <3>2. CASE session.index # 0
      <4> DEFINE S == {1, session.index - 1}
      <4>1. S \in SUBSET (0..Len(lines)) /\ S # {} /\ 1 \in S
        BY <1>1, <2>2, <2>3, <3>2
      <4> HIDE DEF S
      <4>2. Largest(S) \in S /\ 1 <= Largest(S)
        BY <2>3, <4>1, ExtremesExist
      <4>3. Largest(S) \in 1..Len(lines)
        <5> DEFINE m == Largest(S)
        <5>1. m \in 0..Len(lines) /\ 1 <= m
          BY <4>1, <4>2
        <5> HIDE DEF m
        <5>2. m \in 1..Len(lines)
          BY <2>3, <5>1
        <5>. QED BY <5>2 DEF m
      <4>. QED BY <3>2, <4>3 DEF S
    <3>. QED BY <3>1, <3>2
  <2>5. /\ s \in Sessions /\ s.text = session.text /\ s.cursor = session.cursor /\ s.mode = session.mode
        /\ s.anchor = session.anchor
        /\ s.backup = IF session.index = 0 THEN session.text ELSE session.backup
    <3> DEFINE b == [session EXCEPT !.backup = session.text]
    <3>1. /\ b \in Sessions /\ b.text = session.text /\ b.cursor = session.cursor /\ b.mode = session.mode
          /\ b.anchor = session.anchor /\ b.backup = session.text
      BY <2>2 DEF Sessions
    <3> HIDE DEF b
    <3>2. s = IF session.index = 0 THEN b ELSE session
      BY DEF b
    <3> HIDE DEF s
    <3>. QED BY <2>2, <3>1, <3>2
  <2> HIDE DEF i, s
  <2>6. Sound(s)
    BY <1>1, <1>3, <2>5 DEF Sound
  <2>7. lines[i] \in Texts /\ i \in Nat
    BY <2>3, <2>4
  <2>8. Sound(r) /\ Anchored(r) /\ r.index = i /\ r.backup = s.backup
    BY <1>3, <2>5, <2>6, <2>7, FromHistoryIs
  <2> HIDE DEF r
  <2>9. session' = r
    BY <2>1 DEF Shows
  <2>10. Sound(session') /\ (program' = "reading" => Anchored(session')) /\ program' # "panicked"
    BY <2>1, <2>8, ShownIs
  <2>11. WalkIsKept'
    BY <1>1, <2>1, <2>5, <2>8, <2>9 DEF WalkIsKept
  <2>12. session'.index # 0 /\ session'.index <= Len(lines')
    BY <1>1, <2>3, <2>4, <2>8, <2>9
  <2>. QED BY <1>1, <2>10, <2>11, <2>12 DEF EditorInv, WalkComesBack
<1>. QED BY <1>2, <1>3

LEMMA NewerKeeps ==
  ASSUME EditorInv, Newer
  PROVE  EditorInv' /\ program' # "panicked" /\ WalkComesBack /\ completion' = <<>>
<1> DEFINE i == session.index + 1
           onward == FromHistory(session, i, lines[i])
<1>1. /\ program = "reading" /\ Sound(session) /\ Anchored(session) /\ yank' = yank /\ lines' = lines
      /\ completion' = <<>> /\ draft' = draft /\ yank \in Texts /\ lines \in Seq(Texts)
      /\ session.index <= Len(lines) /\ WalkIsKept /\ session.index \in Nat /\ Len(lines) \in Nat
  BY DEF EditorInv, Newer, Edits, Press, Sound, Sessions
<1>2. CASE session.mode = "command" \/ session.index = 0
  <2>1. Shows(session)
    BY <1>2 DEF Newer, Edits
  <2>2. Fine(session, session)
    BY <1>1, FineIs
  <2>. QED BY <1>1, <2>1, <2>2, FineKeeps
<1>3. CASE ~ (session.mode = "command" \/ session.index = 0) /\ session.index \in 1..(Len(lines) - 1)
  <2>1. Shows(onward)
    BY <1>3 DEF Newer, Edits
  <2>2. i \in 1..Len(lines) /\ i \in Nat
    BY <1>1, <1>3
  <2>3. lines[i] \in Texts
    BY <1>1, <2>2
  <2> HIDE DEF i
  <2>4. Sound(onward) /\ Anchored(onward) /\ onward.index = i /\ onward.backup = session.backup
    BY <1>1, <1>3, <2>2, <2>3, FromHistoryIs
  <2> HIDE DEF onward
  <2>5. session' = onward
    BY <2>1 DEF Shows
  <2>6. Sound(session') /\ (program' = "reading" => Anchored(session')) /\ program' # "panicked"
    BY <2>1, <2>4, ShownIs
  <2>7. WalkIsKept' /\ session'.index # 0 /\ session'.index <= Len(lines')
    BY <1>1, <1>3, <2>2, <2>4, <2>5 DEF WalkIsKept
  <2>. QED BY <1>1, <2>6, <2>7 DEF EditorInv, WalkComesBack
<1>4. CASE ~ (session.mode = "command" \/ session.index = 0) /\ session.index \notin 1..(Len(lines) - 1)
  <2>1. Shows(Restored(session))
    BY <1>4 DEF Newer, Edits
  <2>2. /\ Sound(Restored(session)) /\ Anchored(Restored(session))
        /\ Restored(session).index = 0 /\ Restored(session).text = session.backup
    BY <1>1, <1>4, RestoredIs
  <2>3. session' = Restored(session)
    BY <2>1 DEF Shows
  <2>4. Sound(session') /\ (program' = "reading" => Anchored(session')) /\ program' # "panicked"
    BY <2>1, <2>2, ShownIs
  <2>5. session'.text = draft
    BY <1>1, <1>4, <2>2, <2>3 DEF WalkIsKept
  <2>. QED BY <1>1, <2>2, <2>3, <2>4, <2>5 DEF EditorInv, WalkIsKept, WalkComesBack
<1>. QED BY <1>2, <1>3, <1>4

(* Tab: the next completion of the prefix, after the last the first.       *)
LEMMA RemainderIs ==
  ASSUME NEW m \in Nat, m > 0, NEW q \in Int, NEW k \in 0..(m - 1)
  PROVE  (m * q + k) % m = k
<1> DEFINE x == m * q + k
           h == x \div m
           l == x % m
<1>1. x \in Int
  OBVIOUS
<1>2. x = m * h + l /\ h \in Int /\ l \in 0..(m - 1)
  <2> HIDE DEF x
  <2>. QED BY <1>1
<1> HIDE DEF h, l
<1>3. ASSUME NEW d \in Nat \ {0} PROVE m * d >= m
  <2>1. m * d = m + m * (d - 1) /\ d - 1 \in Nat
    OBVIOUS
  <2>2. m * (d - 1) \in Nat
    BY <2>1
  <2>. QED BY <2>1, <2>2
<1>4. m * h + l = m * q + k
  BY <1>2
<1>5. ~ (h > q)
  <2> SUFFICES ASSUME h > q PROVE FALSE
    OBVIOUS
  <2> DEFINE d == h - q
  <2>1. d \in Nat \ {0} /\ m * h = m * q + m * d
    BY <1>2
  <2> HIDE DEF d
  <2>2. m * d >= m /\ m * d \in Int /\ m * q \in Int
    BY <1>3, <2>1
  <2>. QED BY <1>2, <1>4, <2>1, <2>2
<1>6. ~ (h < q)
  <2> SUFFICES ASSUME h < q PROVE FALSE
    OBVIOUS
  <2> DEFINE d == q - h
  <2>1. d \in Nat \ {0} /\ m * q = m * h + m * d
    BY <1>2
  <2> HIDE DEF d
  <2>2. m * d >= m /\ m * d \in Int /\ m * h \in Int
    BY <1>2, <1>3, <2>1
  <2>. QED BY <1>2, <1>4, <2>1, <2>2
<1>7. h = q
  BY <1>2, <1>5, <1>6
<1>8. l = k
  BY <1>2, <1>4, <1>7
<1>. QED BY <1>8 DEF l

LEMMA FollowingIs ==
  ASSUME NEW p, Extending(p) # <<>>, NEW n \in Nat
  PROVE  LET e == Extending(p)
             i == (n % Len(e)) + 1 IN
         /\ i \in DOMAIN e /\ Following(e, n) = e[i] /\ e[i] \in Texts /\ Narrow(e[i])
         /\ Following(e, n + 1) = e[(i % Len(e)) + 1]
<1> DEFINE e == Extending(p)
           L == Len(e)
           i == (n % L) + 1
<1>1. L \in Nat /\ L > 0 /\ DOMAIN e = 1..L /\ \A k \in 1..L : e[k] \in Texts /\ Narrow(e[k])
  BY ExtendingIs
<1> HIDE DEF e, L
<1>2. n % L \in 0..(L - 1)
  BY <1>1
<1>3. i \in 1..L
  BY <1>1, <1>2
<1>4. (n + 1) % L = i % L
  <2>1. CASE i < L
    <3>1. i % L = i
      BY <1>1, <1>3, <2>1
    <3>2. (n + 1) % L = (n % L) + 1
      <4> DEFINE q == n \div L
                 k == n % L
      <4>1. n = L * q + k /\ q \in Int
        BY <1>1
      <4>2. n + 1 = L * q + (k + 1) /\ k + 1 \in 0..(L - 1) /\ q \in Int
        BY <1>1, <1>2, <2>1, <4>1
      <4> HIDE DEF q, k
      <4>3. (L * q + (k + 1)) % L = k + 1
        BY <1>1, <4>2, RemainderIs
      <4>. QED BY <4>2, <4>3 DEF k
    <3>. QED BY <3>1, <3>2
  <2>2. CASE ~ (i < L)
    <3>1. i = L
      BY <1>1, <1>3, <2>2
    <3>2. i % L = 0
      BY <1>1, <3>1
    <3>3. (n + 1) % L = 0
      <4> DEFINE q == n \div L
      <4>1. n = L * q + (n % L) /\ q \in Int
        BY <1>1
      <4>2. n + 1 = L * (q + 1) + 0 /\ q + 1 \in Int /\ 0 \in 0..(L - 1)
        BY <1>1, <1>2, <3>1, <4>1
      <4> HIDE DEF q
      <4>3. (L * (q + 1) + 0) % L = 0
        BY <1>1, <4>2, RemainderIs
      <4>. QED BY <4>2, <4>3
    <3>. QED BY <3>2, <3>3
  <2>. QED BY <2>1, <2>2
<1>5. /\ i \in DOMAIN e /\ Following(e, n) = e[i] /\ e[i] \in Texts /\ Narrow(e[i])
      /\ Following(e, n + 1) = e[(i % L) + 1]
  BY <1>1, <1>3, <1>4 DEF Following, L
<1>. QED BY <1>5 DEF e, L

LEMMA OffersIs ==
  ASSUME EditorInv, program = "reading", session.mode # "command",
         NEW t \in Texts, Narrow(t), Offers(t), UNCHANGED draft
  PROVE  /\ Sound(session') /\ (program' = "reading" => Anchored(session')) /\ program' # "panicked"
         /\ session'.text = t /\ session'.cursor = Len(t) /\ session'.mode # "command"
         /\ session'.index = session.index /\ WalkIsKept'
<1> DEFINE r == [session EXCEPT !.text = t, !.cursor = Len(t)]
           u == [session EXCEPT !.text = t]
<1>1. Sound(session) /\ session \in Sessions /\ Len(t) \in Nat /\ Boundary(t, Len(t)) /\ WalkIsKept
  BY TextFacts DEF EditorInv, Sound
<1>2. /\ u \in Sessions /\ u.text = t /\ u.mode = session.mode /\ u.anchor = session.anchor
      /\ KeepsWalk(u, session)
  BY <1>1, TextSet
<1>3. r = [u EXCEPT !.cursor = Len(t)]
  BY <1>1 DEF Sessions
<1> HIDE DEF u, r
<1>4. /\ r \in Sessions /\ r.text = t /\ r.cursor = Len(t) /\ r.mode = session.mode /\ r.anchor = session.anchor
      /\ KeepsWalk(r, session)
  BY <1>1, <1>2, <1>3, CursorSet DEF KeepsWalk
<1>5. Sound(r)
  BY <1>1, <1>4 DEF Sound
<1>6. Anchored(r)
  <2> SUFFICES ASSUME r.mode = "visual" PROVE Boundary(r.text, r.anchor) \/ r.anchor >= Len(r.text)
    BY DEF Anchored
  <2>1. r.anchor \in Nat
    BY <1>5 DEF Sound, Sessions, NoAnchor
  <2>2. CASE r.anchor \in 0..Len(t)
    BY <1>4, <2>2 DEF Narrow
  <2>3. CASE r.anchor \notin 0..Len(t)
    BY <1>1, <1>4, <2>1, <2>3
  <2>. QED BY <2>2, <2>3
<1>7. Shows(r)
  BY DEF Offers, r
<1>8. session' = r
  BY <1>7 DEF Shows
<1>9. WalkIsKept'
  BY <1>1, <1>4, <1>8 DEF WalkIsKept, KeepsWalk
<1>. QED BY <1>4, <1>5, <1>6, <1>7, <1>8, <1>9, ShownIs DEF KeepsWalk

LEMMA TabKeeps ==
  ASSUME EditorInv, Tab
  PROVE  EditorInv' /\ program' # "panicked" /\ WalkComesBack /\ CompletionGoesOn
<1>1. /\ program = "reading" /\ yank' = yank /\ lines' = lines /\ draft' = draft
      /\ Sound(session) /\ Anchored(session) /\ yank \in Texts /\ lines \in Seq(Texts)
      /\ session.index <= Len(lines) /\ (completion = <<>> \/ Cycling(completion, session))
  BY DEF EditorInv, Tab, Press
<1>2. CASE Shows(session) /\ completion' = <<>>
  <2>1. Fine(session, session)
    BY <1>1, FineIs
  <2>. QED BY <1>1, <1>2, <2>1, FineKeeps
<1>3. CASE ~ (Shows(session) /\ completion' = <<>>) /\ completion = <<>>
  <2> DEFINE e == Extending(session.text)
  <2>1. /\ session.mode # "command" /\ e # <<>> /\ Offers(Head(e))
        /\ completion' = <<[prefix |-> session.text, next |-> 1, matches |-> e]>>
    BY <1>3 DEF Tab
  <2>2. Head(e) = e[1] /\ e[1] \in Texts /\ Narrow(e[1]) /\ Following(e, 0) = e[1]
    <3>1. Len(e) \in Nat /\ Len(e) > 0 /\ Head(e) = e[1] /\ \A k \in 1..Len(e) : e[k] \in Texts /\ Narrow(e[k])
      BY <2>1, ExtendingIs
    <3> HIDE DEF e
    <3>2. 0 % Len(e) = 0 /\ 1 \in 1..Len(e)
      BY <3>1
    <3>. QED BY <3>1, <3>2 DEF Following
  <2> HIDE DEF e
  <2>3. Offers(e[1])
    BY <2>1, <2>2 DEF Offers
  <2>4. /\ Sound(session') /\ (program' = "reading" => Anchored(session')) /\ program' # "panicked"
        /\ session'.text = e[1] /\ session'.cursor = Len(e[1]) /\ session'.mode # "command"
        /\ session'.index = session.index /\ WalkIsKept'
    BY <1>1, <2>1, <2>2, <2>3, OffersIs
  <2>5. Cycling(completion', session')
    <3>1. 1 \in Nat \ {0} /\ 1 - 1 = 0
      OBVIOUS
    <3>. QED BY <2>1, <2>2, <2>4, <3>1 DEF Cycling, e
  <2>. QED BY <1>1, <1>3, <2>4, <2>5 DEF EditorInv, WalkComesBack, CompletionGoesOn
<1>4. CASE ~ (Shows(session) /\ completion' = <<>>) /\ completion # <<>>
  <2>14. PICK p : \E n \in Nat \ {0} :
           /\ completion = <<[prefix |-> p, next |-> n, matches |-> Extending(p)]>>
           /\ Extending(p) # <<>> /\ session.mode # "command" /\ session.cursor = Len(session.text)
           /\ session.text = Following(Extending(p), n - 1)
    BY <1>1, <1>4 DEF Cycling
  <2>1. PICK n \in Nat \ {0} :
          /\ completion = <<[prefix |-> p, next |-> n, matches |-> Extending(p)]>>
          /\ Extending(p) # <<>> /\ session.mode # "command" /\ session.cursor = Len(session.text)
          /\ session.text = Following(Extending(p), n - 1)
    BY <2>14
  <2> DEFINE e == Extending(p)
             i == ((n - 1) % Len(e)) + 1
             t == Following(e, n)
             one == [prefix |-> p, next |-> n, matches |-> e]
  <2>2. n - 1 \in Nat /\ (n - 1) + 1 = n /\ n \in Nat /\ n + 1 \in Nat \ {0} /\ (n + 1) - 1 = n
    BY <2>1
  <2>3. i \in DOMAIN e /\ session.text = e[i] /\ Following(e, (n - 1) + 1) = e[(i % Len(e)) + 1]
    BY <2>1, <2>2, FollowingIs
  <2>4. t = e[(i % Len(e)) + 1]
    BY <2>2, <2>3
  <2>5. t \in Texts /\ Narrow(t)
    BY <2>1, <2>2, FollowingIs
  <2>6. DOMAIN e = 1..Len(e)
    BY ExtendingIs
  <2> HIDE DEF i, t, e
  <2>7. Contains(e, session.text)
    BY <2>3, <2>6 DEF Contains
  <2>8. completion[1] = one /\ one.prefix = p /\ one.next = n /\ one.matches = e /\ [one EXCEPT !.next = n + 1] = [prefix |-> p, next |-> n + 1, matches |-> e]
    BY <2>1 DEF e
  <2> HIDE DEF one
  <2>9. Offers(t) /\ completion' = <<[one EXCEPT !.next = @ + 1]>>
    BY <1>4, <2>1, <2>7, <2>8 DEF Tab, Offers, t
  <2>10. completion' = <<[prefix |-> p, next |-> n + 1, matches |-> e]>>
    BY <2>8, <2>9 DEF one
  <2>11. /\ Sound(session') /\ (program' = "reading" => Anchored(session')) /\ program' # "panicked"
         /\ session'.text = t /\ session'.cursor = Len(t) /\ session'.mode # "command"
         /\ session'.index = session.index /\ WalkIsKept'
    BY <1>1, <2>1, <2>5, <2>9, OffersIs
  <2>12. Cycling(completion', session')
    BY <2>1, <2>2, <2>10, <2>11 DEF Cycling, e, t
  <2>13. CompletionGoesOn
    BY <2>3, <2>4, <2>8, <2>11 DEF CompletionGoesOn, e
  <2>. QED BY <1>1, <2>11, <2>12, <2>13 DEF EditorInv, WalkComesBack
<1>. QED BY <1>2, <1>3, <1>4

(* Each key in turn.                                                       *)
LEMMA KeysKeep ==
  ASSUME EditorInv, TypeChar \/ TypeNewline \/ Move \/ Erase \/ Leave \/ Motion \/ ChangeMode
                    \/ (\E ch \in {"d", "y"} : Operator(ch)) \/ PasteLine
  PROVE  EditorInv' /\ program' # "panicked" /\ WalkComesBack /\ CompletionGoesOn
<1>. /\ Sound(session) /\ yank \in Texts
  BY DEF EditorInv
<1>1. CASE TypeChar
  <2>1. PICK c \in Typed : Typing /\ Edits(Insert(session, Bytes(c)))
    BY <1>1 DEF TypeChar
  <2>2. Fine(Insert(session, Bytes(c)), session)
    BY <2>1, BytesAre, InsertIs DEF Typing
  <2>. QED BY <2>1, <2>2, EditsKeep
<1>2. CASE TypeNewline
  <2>1. Typing /\ Edits(Insert(session, <<Newline>>))
    BY <1>2 DEF TypeNewline
  <2>2. Fine(Insert(session, <<Newline>>), session)
    BY <2>1, BytesAre, InsertIs DEF Typing
  <2>. QED BY <2>1, <2>2, EditsKeep
<1>3. CASE Move
  <2>1. PICK s \in {Left(session), Right(session), Home(session), End(session)} : Edits(s)
    BY <1>3 DEF Move
  <2>2. Fine(s, session)
    BY MotionsAre
  <2>. QED BY <2>1, <2>2, EditsKeep
<1>4. CASE Erase
  <2>1. Edits(Backspace(session)) /\ Fine(Backspace(session), session)
    BY <1>4, BackspaceIs DEF Erase
  <2>. QED BY <2>1, EditsKeep
<1>5. CASE Leave
  <2>1. Edits(Escape(session)) /\ Fine(Escape(session), session)
    BY <1>5, EscapeIs DEF Leave
  <2>. QED BY <2>1, EditsKeep
<1>6. /\ Fine(Taken, session) /\ Taken.mode = session.mode /\ Sound(Taken)
      /\ \A r : Fine(r, Taken) => Fine(r, session)
  <2>1. Fine(Taken, session) /\ Taken.mode = session.mode
    BY TakenIs DEF Taken
  <2>. QED BY <2>1 DEF Fine, KeepsWalk
<1>7. CASE Motion
  <2>1. /\ session.mode \in {"normal", "visual"}
        /\ \E s \in {Left(Taken), Down(Taken), Up(Taken), Right(Taken), Taken} : Edits(s)
    BY <1>7 DEF Motion
  <2>2. PICK s \in {Left(Taken), Down(Taken), Up(Taken), Right(Taken), Taken} : Edits(s)
    BY <2>1
  <2>3. Fine(s, session)
    BY <1>6, <2>1, MotionsAre
  <2>. QED BY <2>2, <2>3, EditsKeep
<1>8. CASE ChangeMode
  <2>1. CASE session.mode = "normal" /\ \E mode \in {"insert", "visual"} : Edits(InMode(session, mode))
    <3>1. PICK mode \in {"insert", "visual"} : Edits(InMode(session, mode))
      BY <2>1
    <3>2. Fine(InMode(session, mode), session)
      BY InModeIs DEF Modes
    <3>. QED BY <3>1, <3>2, EditsKeep
  <2>2. CASE session.mode = "visual" /\ Edits(InMode(session, "normal"))
    <3>1. "normal" \in Modes \ {"command"}
      BY DEF Modes
    <3>2. Fine(InMode(session, "normal"), session)
      BY <3>1, InModeIs
    <3>. QED BY <2>2, <3>2, EditsKeep
  <2>3. CASE session.mode = "normal" /\ Edits([InMode(session, "command") EXCEPT !.command = <<":">>, !.spot = 1])
    <3> DEFINE m == InMode(session, "command")
               c == [m EXCEPT !.command = <<":">>]
               r == [c EXCEPT !.spot = 1]
    <3>1. /\ m \in Sessions /\ m.mode = "command" /\ m.text = session.text /\ m.cursor = session.cursor
          /\ KeepsWalk(m, session)
      BY ModeSet DEF Modes, Sound
    <3> HIDE DEF m
    <3>2. <<":">> \in Texts /\ Len(<<":">>) = 1 /\ <<":">>[1] = ":"
      BY BytesAre
    <3>3. /\ c \in Sessions /\ c.command = <<":">> /\ c.mode = m.mode /\ c.text = m.text /\ c.cursor = m.cursor
          /\ KeepsWalk(c, m)
      BY <3>1, <3>2, CommandSet
    <3> HIDE DEF c
    <3>4. /\ r \in Sessions /\ r.spot = 1 /\ r.command = c.command /\ r.mode = c.mode /\ r.text = c.text
          /\ r.cursor = c.cursor /\ KeepsWalk(r, c)
      BY <3>3, SpotSet
    <3>5. [m EXCEPT !.command = <<":">>, !.spot = 1] = r
      BY <3>1 DEF c, Sessions
    <3> HIDE DEF r
    <3>6. Boundary(<<":">>, 1)
      BY <3>2 DEF Boundary
    <3>7. Sound(r)
      BY <3>1, <3>2, <3>3, <3>4, <3>6 DEF Sound
    <3>8. Fine(r, session)
      BY <3>1, <3>3, <3>4, <3>7, FineIs DEF KeepsWalk
    <3>9. Edits([m EXCEPT !.command = <<":">>, !.spot = 1])
      BY <2>3 DEF m
    <3>10. Edits(r)
      BY <3>5, <3>9 DEF Edits, Shows
    <3>. QED BY <3>8, <3>10, EditsKeep
  <2>. QED BY <1>8, <2>1, <2>2, <2>3 DEF ChangeMode
<1>9. CASE \E ch \in {"d", "y"} : Operator(ch)
  <2>1. PICK ch \in {"d", "y"} : Edits([session EXCEPT !.operator = ch])
    BY <1>9 DEF Operator
  <2>2. Fine([session EXCEPT !.operator = ch], session)
    BY TakenIs
  <2>. QED BY <2>1, <2>2, EditsKeep
<1>10. CASE PasteLine
  <2>1. session.mode = "normal" /\ Edits(Paste(Taken, yank))
    BY <1>10 DEF PasteLine
  <2>2. Fine(Paste(Taken, yank), session)
    BY <1>6, <2>1, PasteIs
  <2>. QED BY <2>1, <2>2, EditsKeep
<1>. QED BY <1>1, <1>2, <1>3, <1>4, <1>5, <1>7, <1>8, <1>9, <1>10

LEMMA LineKeysKeep ==
  ASSUME EditorInv, CutLine \/ CopyLine
  PROVE  EditorInv' /\ program' # "panicked" /\ WalkComesBack /\ CompletionGoesOn
<1>1. Sound(session) /\ Yanked(session) \in Texts
  BY YankedIs DEF EditorInv
<1>2. /\ Fine(Taken, session) /\ Taken.mode = session.mode /\ Sound(Taken)
      /\ \A r : Fine(r, Taken) => Fine(r, session)
  <2>1. Fine(Taken, session) /\ Taken.mode = session.mode
    BY <1>1, TakenIs DEF Taken
  <2>. QED BY <2>1 DEF Fine, KeepsWalk
<1>3. CASE CutLine
  <2>1. /\ session.mode = "normal" /\ program = "reading" /\ Shows(DeleteLine(Taken)) /\ completion' = <<>>
        /\ yank' = Yanked(session) /\ UNCHANGED <<lines, draft>>
    BY <1>3 DEF CutLine, KeepLine, Press
  <2>2. Fine(DeleteLine(Taken), session)
    BY <1>2, <2>1, DeleteLineIs
  <2>3. yank' \in Texts
    BY <1>1, <2>1
  <2>. QED BY <2>1, <2>2, <2>3, FineKeeps
<1>4. CASE CopyLine
  <2>1. /\ program = "reading" /\ Shows(Taken) /\ completion' = <<>>
        /\ yank' = Yanked(session) /\ UNCHANGED <<lines, draft>>
    BY <1>4 DEF CopyLine, KeepLine, Press
  <2>2. yank' \in Texts
    BY <1>1, <2>1
  <2>. QED BY <1>2, <2>1, <2>2, FineKeeps
<1>. QED BY <1>3, <1>4

LEMMA DeleteKeeps ==
  ASSUME EditorInv, Delete
  PROVE  EditorInv' /\ PanicIsDelete /\ WalkComesBack /\ completion' = <<>>
<1> DEFINE r == DeleteUnder(session)
<1>1. /\ program = "reading" /\ Shows(r) /\ completion' = <<>> /\ UNCHANGED <<lines, yank, draft>>
      /\ Sound(session) /\ Anchored(session) /\ yank \in Texts /\ lines \in Seq(Texts)
      /\ session.index <= Len(lines) /\ WalkIsKept
  BY DEF EditorInv, Delete, Edits, Press
<1>2. /\ Sound(r) /\ r.index = session.index /\ r.backup = session.backup
      /\ RenderPanics(r) => session.mode = "visual" /\ session.cursor < session.anchor
      /\ ~ RenderPanics(r) => Anchored(r)
  BY <1>1, DeleteIs DEF KeepsWalk
<1> HIDE DEF r
<1>3. session' = r /\ (program' = IF RenderPanics(r) THEN "panicked" ELSE "reading")
  BY <1>1 DEF Shows
<1>. QED BY <1>1, <1>2, <1>3 DEF EditorInv, WalkIsKept, PanicIsDelete, WalkComesBack

LEMMA ReturnsKeep ==
  ASSUME EditorInv, Interrupt \/ EndOfInput \/ Submit
  PROVE  EditorInv' /\ program' # "panicked" /\ completion' = <<>>
<1>1. Active(session) \in Texts /\ lines \in Seq(Texts)
  BY ActiveIs DEF EditorInv
<1>2. CASE Interrupt
  <2>1. \E O : ReadsNext(vim, O, lines) /\ "panicked" \notin O
    BY <1>2 DEF Interrupt
  <2>. QED BY <1>1, <2>1, ReadsNextKeeps
<1>3. CASE EndOfInput
  <2>1. ReadsNext(vim, {"over"}, lines) /\ "panicked" \notin {"over"}
    BY <1>3 DEF EndOfInput
  <2>. QED BY <1>1, <2>1, ReadsNextKeeps
<1>4. CASE Submit
  <2> DEFINE line == Active(session)
             word == Trimmed(line)
             new == IF word[1] = "/" THEN lines ELSE Append(lines, line)
  <2>1. new \in Seq(Texts)
    BY <1>1
  <2>2. \/ ReadsNext(~vim, {"reading"}, lines) \/ ReadsNext(vim, {"over"}, lines)
        \/ ReadsNext(vim, {"reading"}, lines) \/ ReadsNext(vim, {"reading", "over"}, new)
    BY <1>4 DEF Submit
  <2> HIDE DEF new
  <2>3. "panicked" \notin {"over"} /\ "panicked" \notin {"reading"} /\ "panicked" \notin {"reading", "over"}
    OBVIOUS
  <2>. QED BY <1>1, <2>1, <2>2, <2>3, ReadsNextKeeps
<1>. QED BY <1>2, <1>3, <1>4

(* A line that is submitted or dropped ends the walk, without Newer.       *)
LEMMA EditorStep ==
  ASSUME EditorInv, EditorNext
  PROVE  EditorInv' /\ PanicIsDelete /\ (Newer => WalkComesBack) /\ (Tab => CompletionGoesOn)
<1>1. CASE TypeChar \/ TypeNewline \/ Move \/ Erase \/ Leave \/ Motion \/ ChangeMode
           \/ (\E ch \in {"d", "y"} : Operator(ch)) \/ PasteLine
  <2>1. EditorInv' /\ program' # "panicked" /\ WalkComesBack /\ CompletionGoesOn
    BY <1>1, KeysKeep
  <2>. QED BY <2>1 DEF PanicIsDelete
<1>2. CASE CutLine \/ CopyLine
  <2>1. EditorInv' /\ program' # "panicked" /\ WalkComesBack /\ CompletionGoesOn
    BY <1>2, LineKeysKeep
  <2>. QED BY <2>1 DEF PanicIsDelete
<1>3. CASE Delete
  BY <1>3, DeleteKeeps DEF CompletionGoesOn
<1>4. Newer => EditorInv' /\ program' # "panicked" /\ WalkComesBack /\ completion' = <<>>
  BY NewerKeeps
<1>5. Tab => EditorInv' /\ program' # "panicked" /\ CompletionGoesOn
  BY TabKeeps
<1>6. CASE Older
  <2>1. EditorInv' /\ program' # "panicked" /\ WalkComesBack /\ completion' = <<>>
    BY <1>6, OlderKeeps
  <2>. QED BY <2>1 DEF PanicIsDelete, CompletionGoesOn
<1>7. CASE Interrupt \/ EndOfInput \/ Submit
  <2>1. EditorInv' /\ program' # "panicked" /\ completion' = <<>>
    BY <1>7, ReturnsKeep
  <2>. QED BY <1>4, <2>1 DEF PanicIsDelete, CompletionGoesOn
<1>8. CASE Newer
  BY <1>4, <1>8 DEF PanicIsDelete, CompletionGoesOn
<1>9. CASE Tab
  BY <1>4, <1>5, <1>9 DEF PanicIsDelete
<1>. QED BY <1>1, <1>2, <1>3, <1>6, <1>7, <1>8, <1>9 DEF EditorNext

(* Whatever keys are pressed, the text, the command, the lines and what    *)
(* was kept of them have whole characters, and the cursors are between     *)
(* them.                                                                   *)
THEOREM EditorStaysSound == EditorSpec => []EditorInv
<1>1. EditorInit => EditorInv
  BY EditorStarts
<1>2. EditorInv /\ [EditorNext]_editorVars => EditorInv'
  <2> SUFFICES ASSUME EditorInv, [EditorNext]_editorVars PROVE EditorInv'
    OBVIOUS
  <2>1. CASE EditorNext
    BY <2>1, EditorStep
  <2>2. CASE UNCHANGED editorVars
    BY <2>2 DEF editorVars, EditorInv, WalkIsKept
  <2>. QED BY <2>1, <2>2
<1>. QED BY <1>1, <1>2, PTL DEF EditorSpec

(* No sequence of keys tears a character or leaves a cursor within one     *)
(* (insert_active_text, handle_backspace, delete_current_line, paste_after *)
(* and the motions), and rendering panics only when a character was        *)
(* deleted before the anchor of a selection: for any characters, history,  *)
(* completions and lengths.                                                *)
THEOREM CursorsAreWhole == EditorSpec => CursorsStayWhole
<1> DEFINE A == /\ Whole(session'.text) /\ Boundary(session'.text, session'.cursor)
                /\ session'.mode = "command" =>
                     /\ Whole(session'.command) /\ session'.command[1] = ":"
                     /\ session'.spot > 0 /\ Boundary(session'.command, session'.spot)
                /\ program' = "panicked" => Delete /\ session.mode = "visual" /\ session.cursor < session.anchor
<1>1. EditorInv /\ [EditorNext]_editorVars => [A]_editorVars
  <2> SUFFICES ASSUME EditorInv, EditorNext PROVE A
    OBVIOUS
  <2>1. EditorInv' /\ PanicIsDelete
    BY EditorStep
  <2>2. Sound(session')
    BY <2>1 DEF EditorInv
  <2>3. Whole(session'.text) /\ Whole(session'.command)
    BY <2>2 DEF Sound, Sessions, Texts
  <2>. QED BY <2>1, <2>2, <2>3 DEF Sound, PanicIsDelete
<1>2. EditorSpec => []EditorInv
  BY EditorStaysSound
<1>. QED BY <1>1, <1>2, PTL DEF EditorSpec, CursorsStayWhole

(* history_up and history_down, however they are mixed with other keys,    *)
(* end with the text that was typed, and complete_slash_command offers the *)
(* commands that begin with what was typed, one after the other.           *)
THEOREM TypedComesBack == EditorSpec => NothingTypedIsLost
<1> DEFINE A == /\ (Newer /\ session.index # 0 /\ session'.index = 0) => session'.text = draft
                /\ (Tab /\ completion # <<>> /\ completion' # <<>>) =>
                     LET all == Extending(completion[1].prefix) IN
                     \E i \in DOMAIN all : all[i] = session.text /\ session'.text = all[(i % Len(all)) + 1]
<1>1. EditorInv /\ [EditorNext]_editorVars => [A]_editorVars
  <2> SUFFICES ASSUME EditorInv, EditorNext PROVE A
    OBVIOUS
  <2>. QED BY EditorStep DEF WalkComesBack, CompletionGoesOn
<1>2. EditorSpec => []EditorInv
  BY EditorStaysSound
<1>. QED BY <1>1, <1>2, PTL DEF EditorSpec, NothingTypedIsLost
=============================================================================
