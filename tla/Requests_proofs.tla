-------------------------- MODULE Requests_proofs --------------------------
(***************************************************************************)
(* Proofs about what goes to a provider and what comes of it, from the     *)
(* login that pays for it to the tools that a reply may call:              *)
(*   CredentialStore: the credentials stay whole and the login is kept, as *)
(*     long as no two saves overlap.  The one program that saves has the   *)
(*     temporary file to itself, and what is saved can be used.            *)
(*   Instructions: the instruction files reach the prompt, once each and   *)
(*     within the budget.  What is written is what is not left of it.      *)
(*   ModelRequest: retries are honest.  The waits are as many as the       *)
(*     attempts and those of the policy, one after the other.              *)
(*   ToolRounds: only tools that were offered do anything.  The calls of a *)
(*     turn are those of the last reply, and what waits or has worked is   *)
(*     among them.  And the rounds are told: a session is the replies, as  *)
(*     the client builds them, each with the results of its calls, and the *)
(*     interface of neither provider loses a letter or a call of it.       *)
(*   ProviderChoice: a client is made where one can be, and goes to the    *)
(*     right provider.  The environment stays what it was at the first     *)
(*     look, and so does the login unless it is known to have changed.     *)
(***************************************************************************)
EXTENDS CredentialStore, Instructions, ModelRequest, ToolRounds, ProviderChoice,
        SequenceTheorems, FiniteSetTheorems, TLAPS

(* Induction over the naturals, over the members of a set: the provers do  *)
(* not instantiate a theorem about a predicate, but they do one about a    *)
(* set, such as WFMin.                                                     *)
LEMMA SetInduction ==
  ASSUME NEW S, 0 \in S, \A n \in Nat : n \in S => n + 1 \in S
  PROVE  \A n \in Nat : n \in S
<1> SUFFICES ASSUME NEW n \in Nat, n \notin S PROVE FALSE
  OBVIOUS
<1> DEFINE U == 0..n
           T == {V \in FiniteSubsetsOf(U) : \E m \in U : V = 0..m /\ m \notin S}
<1>1. 0..n \in T
  <2>1. IsFiniteSet(0..n)
    BY FS_Interval
  <2>. QED BY <2>1 DEF FiniteSubsetsOf
<1>2. \E V \in T : \A W \in T : ~ (<<W, V>> \in StrictSubsetOrdering(U))
  <2>1. T \subseteq FiniteSubsetsOf(U) /\ T # {}
    BY <1>1
  <2> HIDE DEF T, U
  <2>2. IsWellFoundedOn(StrictSubsetOrdering(U), FiniteSubsetsOf(U))
    BY FS_StrictSubsetOrderingWellFounded
  <2>. QED BY <2>1, <2>2, WFMin
<1>3. PICK V \in T : \A W \in T : ~ (<<W, V>> \in StrictSubsetOrdering(U))
  BY <1>2
<1>4. PICK m \in U : V = 0..m /\ m \notin S
  OBVIOUS
<1>5. m # 0 /\ m - 1 \in U /\ m - 1 \in Nat
  BY <1>4
<1>6. m - 1 \notin S
  BY <1>4, <1>5
<1>7. 0..(m - 1) \in T
  <2>1. IsFiniteSet(0..(m - 1))
    BY <1>5, FS_Interval
  <2>. QED BY <1>5, <1>6, <2>1 DEF FiniteSubsetsOf
<1>8. <<0..(m - 1), V>> \in StrictSubsetOrdering(U)
  BY <1>4, <1>5 DEF StrictSubsetOrdering
<1>. QED BY <1>3, <1>7, <1>8

(* What a loop makes of a sequence: there is a function that gives its     *)
(* result after each member, whatever the member does to it.               *)
Loops(g, base, step, n) == g[0] = base /\ \A i \in 1..n : g[i] = step[i][g[i - 1]]

LEMMA LoopExists ==
  ASSUME NEW A, NEW base \in A, NEW N \in Nat, NEW step \in [1..N -> [A -> A]]
  PROVE  \E g \in [0..N -> A] : Loops(g, base, step, N)
<1> DEFINE Exists(n) == \E g \in [0..n -> A] : Loops(g, base, step, n)
           S == {n \in Nat : n <= N => Exists(n)}
<1>1. Exists(0)
  <2> DEFINE g == [i \in 0..0 |-> base]
  <2>1. g \in [0..0 -> A] /\ Loops(g, base, step, 0)
    BY DEF Loops
  <2>. QED BY <2>1
<1>2. ASSUME NEW n \in Nat, n + 1 <= N, Exists(n) PROVE Exists(n + 1)
  <2>1. PICK g \in [0..n -> A] : Loops(g, base, step, n)
    BY <1>2
  <2> DEFINE next == step[n + 1][g[n]]
             h == [i \in 0..(n + 1) |-> IF i = n + 1 THEN next ELSE g[i]]
  <2>2. step[n + 1] \in [A -> A] /\ g[n] \in A
    BY <1>2, <2>1
  <2>3. next \in A
    BY <2>2
  <2> HIDE DEF next
  <2>4. h \in [0..(n + 1) -> A]
    <3>1. ASSUME NEW i \in 0..(n + 1) PROVE (IF i = n + 1 THEN next ELSE g[i]) \in A
      <4>1. i = n + 1 \/ i \in 0..n
        OBVIOUS
      <4>. QED BY <2>1, <2>3, <4>1
    <3>. QED BY <3>1
  <2>5. ASSUME NEW i \in 1..(n + 1) PROVE h[i] = step[i][h[i - 1]]
    <3>1. i - 1 \in 0..n /\ h[i - 1] = g[i - 1]
      OBVIOUS
    <3>2. CASE i = n + 1
      BY <3>1, <3>2 DEF next
    <3>3. CASE i # n + 1
      <4>1. i \in 1..n /\ h[i] = g[i]
        BY <3>3
      <4>. QED BY <2>1, <3>1, <4>1 DEF Loops
    <3>. QED BY <3>2, <3>3
  <2>6. h[0] = base
    BY <2>1 DEF Loops
  <2> HIDE DEF h
  <2>7. Loops(h, base, step, n + 1)
    BY <2>5, <2>6 DEF Loops
  <2>. QED BY <2>4, <2>7
<1> HIDE DEF Exists
<1>3. 0 \in S /\ \A n \in Nat : n \in S => n + 1 \in S
  BY <1>1, <1>2
<1>4. N \in S
  <2> HIDE DEF S
  <2>. QED BY <1>3, SetInduction
<1>5. Exists(N)
  BY <1>4
<1>. QED BY <1>5 DEF Exists

-----------------------------------------------------------------------------
TokenSets == [access : Nat, refresh : Nat]
Objects   == [state : {"object"}, oauth : TokenSets, others : BOOLEAN]
Contents  == {Absent, Empty, Garbled} \cup Objects
Steps     == {"idle", "load", "callback", "refresh", "save", "open", "fill", "rename"}

CredentialType ==
  /\ real \in Contents /\ temp \in Contents
  /\ at \in [Programs -> Steps] /\ fd \in [Programs -> Handles]
  /\ token \in [Programs -> TokenSets] /\ root \in [Programs -> Contents]
  /\ issued \in Nat /\ overlapped \in BOOLEAN

(* What a program has in memory and in its hands at each step of a save.   *)
MemoryInv ==
  \A p \in Programs :
    /\ root[p] # Absent => at[p] \in {"open", "fill", "rename"}
    /\ at[p] \in {"open", "fill", "rename"} => root[p].state = "object"
    /\ at[p] \notin {"fill", "rename"} => fd[p] = "none"

(* Without an overlap, one program has the temporary file to itself.       *)
AloneInv ==
  ~overlapped =>
    /\ \A p, q \in Programs : at[p] \in {"fill", "rename"} /\ at[q] \in {"fill", "rename"} => p = q
    /\ \A p \in Programs :
         /\ at[p] \in {"fill", "rename"} => fd[p] = "temp"
         /\ at[p] = "fill" => temp = Empty
         /\ at[p] = "rename" => temp = root[p]

CredentialInv == CredentialType /\ MemoryInv /\ AloneInv /\ CredentialsAreWhole

USE DEF Steps, Handles

-----------------------------------------------------------------------------
(* The contents a file can have.                                           *)
LEMMA FileKinds ==
  /\ None \in TokenSets
  /\ Absent.state = "absent" /\ Empty.state = "empty" /\ Garbled.state = "garbled"
  /\ \A t \in TokenSets, o \in BOOLEAN :
       Object(t, o) \in Objects /\ Object(t, o).others = o
  /\ \A file \in Objects : file.state = "object" /\ file \notin {Absent, Empty, Garbled}
BY DEF None, TokenSets, Objects, Absent, Empty, Garbled, NotObject, Object

(* The object a file is read as keeps its other entries, with any token.   *)
LEMMA RootKeeps ==
  ASSUME NEW file \in Contents, Readable(file), NEW t \in TokenSets
  PROVE  /\ [RootOf(file) EXCEPT !.oauth = t] \in Objects
         /\ [RootOf(file) EXCEPT !.oauth = t].others = RootOf(file).others
         /\ RootOf([RootOf(file) EXCEPT !.oauth = t]) = [RootOf(file) EXCEPT !.oauth = t]
<1>1. RootOf(file) \in Objects
  BY FileKinds DEF RootOf, Contents, Readable
<1>2. [RootOf(file) EXCEPT !.oauth = t] \in Objects
  BY <1>1 DEF Objects
<1>3. [RootOf(file) EXCEPT !.oauth = t].others = RootOf(file).others
  BY <1>1 DEF Objects
<1>4. RootOf([RootOf(file) EXCEPT !.oauth = t]) = [RootOf(file) EXCEPT !.oauth = t]
  BY <1>2, FileKinds DEF RootOf
<1>. QED BY <1>2, <1>3, <1>4

(* A saved token is a token set.                                           *)
LEMMA SavedToken ==
  ASSUME NEW file \in Contents, Readable(file) PROVE RootOf(file).oauth \in TokenSets
<1>1. RootOf(file) \in Objects
  BY FileKinds DEF RootOf, Contents, Readable
<1>. QED BY <1>1 DEF Objects

LEMMA InitInv == CredentialInit => CredentialInv
<1> SUFFICES ASSUME CredentialInit PROVE CredentialInv
  OBVIOUS
<1>1. Object(None, TRUE) \in Objects /\ None \in TokenSets
  BY FileKinds
<1>2. CredentialType
  BY <1>1 DEF CredentialInit, CredentialType, Contents
<1>3. MemoryInv /\ AloneInv
  BY DEF CredentialInit, MemoryInv, AloneInv
<1>4. CredentialsAreWhole
  BY <1>1, FileKinds DEF CredentialInit, CredentialsAreWhole
<1>. QED BY <1>2, <1>3, <1>4 DEF CredentialInv

-----------------------------------------------------------------------------
(* A step that leaves the files and the handles alone, and what every      *)
(* program has read, or that ends a command: all but the four of a save.   *)
LEMMA OtherStep ==
  ASSUME CredentialInv, NEW p \in Programs,
         UNCHANGED <<real, temp, overlapped>>,
         at[p] \notin {"open", "fill", "rename"},
         at' \in [Programs -> Steps], at'[p] \notin {"open", "fill", "rename"},
         \A q \in Programs \ {p} : at'[q] = at[q],
         fd' = fd \/ fd' = [fd EXCEPT ![p] = "none"],
         root' = root \/ root' = [root EXCEPT ![p] = Absent],
         token' \in [Programs -> TokenSets], issued' \in Nat
  PROVE  CredentialInv'
<1> USE DEF CredentialInv
<1>1. root[p] = Absent /\ fd[p] = "none"
  BY DEF MemoryInv
<1>2. fd' = fd /\ root' = root
  BY <1>1 DEF CredentialType
<1>3. CredentialType'
  BY <1>2 DEF CredentialType
<1>4. \A q \in Programs : at'[q] \in {"open", "fill", "rename"} => q # p /\ at'[q] = at[q]
  OBVIOUS
<1>5. MemoryInv'
  BY <1>1, <1>2, <1>4 DEF MemoryInv
<1>6. AloneInv'
  BY <1>2, <1>4 DEF AloneInv
<1>7. CredentialsAreWhole'
  BY <1>2 DEF CredentialsAreWhole, RootOf
<1>. QED BY <1>3, <1>5, <1>6, <1>7

LEMMA OverStep ==
  ASSUME CredentialType, NEW p \in Programs, Over(p)
  PROVE  /\ at' \in [Programs -> Steps] /\ at'[p] = "idle" /\ \A q \in Programs \ {p} : at'[q] = at[q]
         /\ token' \in [Programs -> TokenSets]
         /\ root' = [root EXCEPT ![p] = Absent] /\ fd' = [fd EXCEPT ![p] = "none"]
BY FileKinds DEF CredentialType, Over

-----------------------------------------------------------------------------
(* The steps of a save.                                                    *)
LEMMA ReadStep ==
  ASSUME CredentialInv, NEW p \in Programs, ReadRoot(p) PROVE CredentialInv'
<1> USE DEF CredentialInv
<1> DEFINE t == IF task[p] = "logout" THEN None ELSE token[p]
           new == [RootOf(real) EXCEPT !.oauth = t]
<1>1. /\ at[p] = "save" /\ Readable(real) /\ root' = [root EXCEPT ![p] = new] /\ at' = [at EXCEPT ![p] = "open"]
      /\ UNCHANGED <<real, temp, fd, token, issued, overlapped>>
  BY DEF ReadRoot, Goto, bothFiles, server, history
<1>2. t \in TokenSets /\ real \in Contents
  BY FileKinds DEF CredentialType
<1>3. new \in Objects /\ new.others = RootOf(real).others
  BY <1>1, <1>2, RootKeeps
<1> HIDE DEF new
<1>4. CredentialType'
  BY <1>1, <1>3 DEF CredentialType, Contents
<1>5. MemoryInv'
  BY <1>1, <1>3, FileKinds DEF MemoryInv, CredentialType
<1>6. AloneInv'
  <2>1. \A q \in Programs : at'[q] \in {"fill", "rename"} => q # p /\ at'[q] = at[q] /\ root'[q] = root[q]
    BY <1>1 DEF CredentialType
  <2>. QED BY <1>1, <2>1 DEF AloneInv
<1>7. CredentialsAreWhole'
  <2>1. RootOf(real)' = RootOf(real)
    BY <1>1 DEF RootOf
  <2>2. \A q \in Programs : root'[q] = IF q = p THEN new ELSE root[q]
    BY <1>1 DEF CredentialType
  <2>. QED BY <1>1, <1>3, <2>1, <2>2 DEF CredentialsAreWhole
<1>. QED BY <1>4, <1>5, <1>6, <1>7

LEMMA OpenStep ==
  ASSUME CredentialInv, NEW p \in Programs, OpenTemp(p) PROVE CredentialInv'
<1> USE DEF CredentialInv
<1>1. /\ at[p] = "open" /\ temp' = Empty /\ real' = real
      /\ fd' = [fd EXCEPT ![p] = "temp"] /\ at' = [at EXCEPT ![p] = "fill"]
      /\ overlapped' = (overlapped \/ \E q \in Programs \ {p} : at[q] \in {"fill", "rename"})
      /\ UNCHANGED <<token, root, issued>>
  BY DEF OpenTemp, Target, Goto, server
<1>2. CredentialType'
  <2>1. overlapped' \in BOOLEAN
    BY <1>1
  <2>. QED BY <1>1, <2>1 DEF CredentialType, Contents
<1>3. MemoryInv'
  BY <1>1 DEF MemoryInv, CredentialType
<1>4. AloneInv'
  <2> SUFFICES ASSUME ~overlapped'
               PROVE  /\ \A q \in Programs : at'[q] \in {"fill", "rename"} => q = p
                      /\ at'[p] = "fill" /\ fd'[p] = "temp" /\ temp' = Empty
    BY DEF AloneInv
  <2>1. \A q \in Programs \ {p} : at[q] \notin {"fill", "rename"}
    BY <1>1
  <2>. QED BY <1>1, <2>1 DEF CredentialType
<1>5. CredentialsAreWhole'
  BY <1>1 DEF CredentialsAreWhole, RootOf
<1>. QED BY <1>2, <1>3, <1>4, <1>5

LEMMA FillStep ==
  ASSUME CredentialInv, NEW p \in Programs, FillTemp(p) PROVE CredentialInv'
<1> USE DEF CredentialInv
<1>1. /\ at[p] = "fill" /\ at' = [at EXCEPT ![p] = "rename"]
      /\ temp' \in IF fd[p] = "temp" THEN FilledOver(temp, root[p]) ELSE {temp}
      /\ real' \in IF fd[p] = "real" THEN FilledOver(real, root[p]) ELSE {real}
      /\ UNCHANGED <<fd, token, root, issued, overlapped>>
  BY DEF FillTemp, Goto, server, history
<1>2. \A file : FilledOver(file, root[p]) \subseteq Contents
  BY DEF FilledOver, CredentialType, Contents
<1>3. CredentialType'
  BY <1>1, <1>2 DEF CredentialType
<1>4. MemoryInv'
  BY <1>1 DEF MemoryInv, CredentialType
<1>5. ASSUME ~overlapped PROVE real' = real /\ temp' = root[p]
  <2>1. fd[p] = "temp" /\ temp = Empty
    BY <1>1, <1>5 DEF AloneInv
  <2>. QED BY <1>1, <2>1 DEF FilledOver
<1>6. AloneInv'
  <2> SUFFICES ASSUME ~overlapped
               PROVE  /\ \A q \in Programs : at'[q] \in {"fill", "rename"} => q = p
                      /\ at'[p] = "rename" /\ fd'[p] = "temp" /\ temp' = root'[p]
    BY <1>1 DEF AloneInv
  <2>1. \A q \in Programs : at[q] \in {"fill", "rename"} => q = p
    BY <1>1 DEF AloneInv
  <2>2. fd[p] = "temp"
    BY <1>1 DEF AloneInv
  <2>. QED BY <1>1, <1>5, <2>1, <2>2 DEF CredentialType
<1>7. CredentialsAreWhole'
  BY <1>1, <1>5 DEF CredentialsAreWhole, RootOf
<1>. QED BY <1>3, <1>4, <1>6, <1>7

LEMMA RenameStep ==
  ASSUME CredentialInv, NEW p \in Programs, Rename(p) PROVE CredentialInv'
<1> USE DEF CredentialInv
<1>1. /\ at[p] = "rename" /\ real' = temp /\ temp' = Absent
      /\ at' = [at EXCEPT ![p] = "idle"] /\ token' = [token EXCEPT ![p] = None]
      /\ root' = [root EXCEPT ![p] = Absent]
      /\ fd' = [q \in Programs |-> IF q = p THEN "none" ELSE StaysWith(fd[q])]
      /\ UNCHANGED <<issued, overlapped>>
  BY DEF Rename, server, history
<1>2. CredentialType'
  <2>1. fd' \in [Programs -> Handles]
    BY <1>1 DEF CredentialType, StaysWith
  <2>. QED BY <1>1, <2>1, FileKinds DEF CredentialType, Contents
<1>3. \A q \in Programs \ {p} : at'[q] = at[q] /\ root'[q] = root[q] /\ fd'[q] = StaysWith(fd[q])
  BY <1>1 DEF CredentialType
<1>4. at'[p] = "idle" /\ root'[p] = Absent /\ fd'[p] = "none"
  BY <1>1 DEF CredentialType
<1>5. MemoryInv'
  BY <1>3, <1>4 DEF MemoryInv, StaysWith
<1>6. ASSUME ~overlapped
      PROVE  /\ \A q \in Programs : at'[q] \notin {"fill", "rename"}
             /\ temp = root[p] /\ root[p] \in Objects
  <2>1. \A q \in Programs : at[q] \in {"fill", "rename"} => q = p
    BY <1>1, <1>6 DEF AloneInv
  <2>2. temp = root[p] /\ root[p].state = "object"
    BY <1>1, <1>6 DEF AloneInv, MemoryInv
  <2>. QED BY <1>3, <1>4, <2>1, <2>2, FileKinds DEF CredentialType, Contents
<1>7. AloneInv'
  BY <1>1, <1>6 DEF AloneInv
<1>8. CredentialsAreWhole'
  <2>1. \A q \in Programs : ~overlapped /\ root[q] # Absent => root[q].others = root[p].others
    <3>1. ASSUME ~overlapped PROVE root[p] # Absent
      BY <1>6, <3>1, FileKinds
    <3>. QED BY <3>1 DEF CredentialsAreWhole
  <2>2. ASSUME ~overlapped PROVE RootOf(real') = root[p] /\ real'.state = "object"
    BY <1>1, <1>6, <2>2, FileKinds DEF RootOf
  <2>3. RootOf(real)' = RootOf(real')
    BY DEF RootOf
  <2>. QED BY <1>1, <1>3, <1>4, <2>1, <2>2, <2>3 DEF CredentialsAreWhole
<1>. QED BY <1>2, <1>5, <1>7, <1>8

(* A save that fails, or the end of the program in the middle of one.      *)
LEMMA FailStep ==
  ASSUME CredentialInv, NEW p \in Programs, SaveFails(p) PROVE CredentialInv'
<1> USE DEF CredentialInv
<1>1. /\ at[p] \in {"save", "open", "fill", "rename"}
      /\ temp' \in IF at[p] = "fill" /\ fd[p] = "temp" THEN {temp, Garbled} ELSE {temp}
      /\ real' \in IF at[p] = "fill" /\ fd[p] = "real" THEN {real, Garbled} ELSE {real}
      /\ Over(p) /\ UNCHANGED <<issued, overlapped>>
  BY DEF SaveFails, server
<1>2. /\ at' \in [Programs -> Steps] /\ at'[p] = "idle" /\ \A q \in Programs \ {p} : at'[q] = at[q]
      /\ token' \in [Programs -> TokenSets]
      /\ root' = [root EXCEPT ![p] = Absent] /\ fd' = [fd EXCEPT ![p] = "none"]
  BY <1>1, OverStep
<1>3. CredentialType'
  BY <1>1, <1>2 DEF CredentialType, Contents
<1>4. \A q \in Programs : /\ root'[q] = IF q = p THEN Absent ELSE root[q]
                          /\ fd'[q] = IF q = p THEN "none" ELSE fd[q]
  BY <1>2 DEF CredentialType
<1>5. MemoryInv'
  BY <1>2, <1>4 DEF MemoryInv
<1>6. ASSUME ~overlapped, at[p] \in {"fill", "rename"}
      PROVE  \A q \in Programs : at'[q] \notin {"fill", "rename"}
  BY <1>2, <1>6 DEF AloneInv
<1>7. ASSUME ~overlapped PROVE real' = real /\ (at[p] \notin {"fill", "rename"} => temp' = temp)
  BY <1>1, <1>7 DEF AloneInv
<1>8. AloneInv'
  <2> SUFFICES ASSUME ~overlapped, at[p] \notin {"fill", "rename"} PROVE AloneInv'
    BY <1>1, <1>6 DEF AloneInv
  <2>1. \A q \in Programs : at'[q] \in {"fill", "rename"} =>
          q # p /\ at'[q] = at[q] /\ root'[q] = root[q] /\ fd'[q] = fd[q]
    BY <1>2, <1>4
  <2>. QED BY <1>1, <1>7, <2>1 DEF AloneInv
<1>9. CredentialsAreWhole'
  <2>1. ~overlapped => RootOf(real)' = RootOf(real)
    BY <1>7 DEF RootOf
  <2>. QED BY <1>1, <1>4, <1>7, <2>1 DEF CredentialsAreWhole
<1>. QED BY <1>3, <1>5, <1>8, <1>9

(* The steps of a command that do not save, and those that end it.         *)
LEMMA CommandStep ==
  ASSUME CredentialInv, NEW p \in Programs,
         \/ \E c \in {"start", "login", "logout"} : Begin(p, c)
         \/ Authorize(p) \/ AuthorizeFails(p) \/ LoadToken(p) \/ Refresh(p) \/ RefreshFails(p)
  PROVE  CredentialInv'
<1>t. CredentialType
  BY DEF CredentialInv
<1>1. CASE \E c \in {"start", "login", "logout"} : Begin(p, c)
  <2>1. PICK c \in {"start", "login", "logout"} : Begin(p, c)
    BY <1>1
  <2>2. FirstStep[c] \in {"load", "callback", "save"}
    BY DEF FirstStep
  <2>3. at[p] = "idle" /\ at' = [at EXCEPT ![p] = FirstStep[c]]
        /\ UNCHANGED <<real, temp, fd, token, root, issued, overlapped>>
    BY <2>1 DEF Begin, Goto, bothFiles, server, history
  <2>4. at' \in [Programs -> Steps] /\ at'[p] = FirstStep[c] /\ \A q \in Programs \ {p} : at'[q] = at[q]
    BY <1>t, <2>2, <2>3 DEF CredentialType
  <2>. QED BY <1>t, <2>2, <2>3, <2>4, OtherStep DEF CredentialType
<1>2. CASE Authorize(p) \/ Refresh(p)
  <2>1. /\ at[p] \in {"callback", "refresh"} /\ at' = [at EXCEPT ![p] = "save"] /\ issued' = issued + 1
        /\ UNCHANGED <<real, temp, fd, root, overlapped>>
    BY <1>2 DEF Authorize, Refresh, Goto, bothFiles, history
  <2>2. \E t \in TokenSets : token' = [token EXCEPT ![p] = t]
    <3>1. PICK refresh \in {0, issued + 1}, kept \in {0, token[p].refresh} :
            token' = [token EXCEPT ![p] = Answered(issued + 1, refresh, kept)]
      BY <1>2 DEF Authorize, Refresh
    <3>2. kept \in Nat /\ issued \in Nat
      BY <1>t DEF CredentialType, TokenSets
    <3>3. Answered(issued + 1, refresh, kept) \in TokenSets
      BY <3>2 DEF Answered, TokenSets
    <3>. QED BY <3>1, <3>3
  <2>3. token' \in [Programs -> TokenSets] /\ issued' \in Nat
    BY <1>t, <2>1, <2>2 DEF CredentialType
  <2>4. at' \in [Programs -> Steps] /\ at'[p] = "save" /\ \A q \in Programs \ {p} : at'[q] = at[q]
    BY <1>t, <2>1 DEF CredentialType
  <2>. QED BY <2>1, <2>3, <2>4, OtherStep
<1>3. CASE AuthorizeFails(p) \/ RefreshFails(p)
  <2>1. at[p] \in {"callback", "refresh"} /\ Over(p) /\ UNCHANGED <<real, temp, issued, overlapped>>
    BY <1>3 DEF AuthorizeFails, RefreshFails, server, history
  <2>. QED BY <1>t, <2>1, OverStep, OtherStep DEF CredentialType
<1>4. CASE LoadToken(p)
  <2>1. at[p] = "load" /\ UNCHANGED <<real, temp, issued, overlapped>>
    BY <1>4 DEF LoadToken, server, history
  <2>2. CASE Over(p)
    BY <1>t, <2>1, <2>2, OverStep, OtherStep DEF CredentialType
  <2>3. CASE ~Over(p)
    <3>1. /\ Readable(real) /\ at' = [at EXCEPT ![p] = "refresh"]
          /\ token' = [token EXCEPT ![p] = RootOf(real).oauth] /\ UNCHANGED <<fd, root>>
      BY <1>4, <2>3 DEF LoadToken, Goto
    <3>2. RootOf(real).oauth \in TokenSets
      BY <1>t, <3>1, SavedToken DEF CredentialType
    <3>3. token' \in [Programs -> TokenSets] /\ issued' \in Nat
      BY <1>t, <2>1, <3>1, <3>2 DEF CredentialType
    <3>4. at' \in [Programs -> Steps] /\ at'[p] = "refresh" /\ \A q \in Programs \ {p} : at'[q] = at[q]
      BY <1>t, <3>1 DEF CredentialType
    <3>. QED BY <2>1, <3>1, <3>3, <3>4, OtherStep
  <2>. QED BY <2>2, <2>3
<1>. QED BY <1>1, <1>2, <1>3, <1>4

LEMMA NextInv == CredentialInv /\ [CredentialNext]_credentialVars => CredentialInv'
<1> SUFFICES ASSUME CredentialInv, [CredentialNext]_credentialVars PROVE CredentialInv'
  OBVIOUS
<1>1. CASE \E p \in Programs, c \in {"start", "login", "logout"} : Begin(p, c)
  BY <1>1, CommandStep
<1>2. CASE \E p \in Programs : ProgramStep(p)
  BY <1>2, CommandStep, ReadStep, OpenStep, FillStep, RenameStep, FailStep DEF ProgramStep
<1>3. CASE UNCHANGED <<bothFiles, memory, issued, overlapped>>
  BY <1>3 DEF CredentialInv, CredentialType, MemoryInv, AloneInv, CredentialsAreWhole, RootOf, bothFiles, memory
<1>4. CASE \E t \in 1..MaxTokens : Expire(t)
  BY <1>3, <1>4 DEF Expire, history
<1>5. CASE UNCHANGED credentialVars
  BY <1>3, <1>5 DEF credentialVars, server, history
<1>. QED BY <1>1, <1>2, <1>4, <1>5 DEF CredentialNext

(* As long as no two saves overlap, credentials.json is absent or a whole  *)
(* object with all the user's other entries, whatever fails and whenever a *)
(* program ends, for any number of programs.                               *)
THEOREM CredentialsStayWhole == CredentialSpec => []CredentialsAreWhole
<1>1. CredentialInv => CredentialsAreWhole
  BY DEF CredentialInv
<1>. QED BY <1>1, InitInv, NextInv, PTL DEF CredentialSpec
-----------------------------------------------------------------------------
(* The login is kept.  A token that is being saved is one that can be used *)
(* (SavingInv), so that a rename puts a usable one in place; and when the  *)
(* one in the file cannot be used any more, a program is saving another    *)
(* (KeptInv).                                                              *)
Saving == {"save", "open", "fill", "rename"}

StillGood(t) == t.refresh \in honoured \/ t.access \in bare

TaskInv ==
  /\ 0 \notin honoured
  /\ \A p \in Programs :
       /\ at[p] \in {"idle", "load", "callback"} \/ task[p] = "logout" => token[p] = None
       /\ at[p] \in {"load", "refresh"} => task[p] = "start"
       /\ at[p] = "callback" => task[p] = "login"
       /\ at[p] \in {"open", "fill", "rename"} => root[p].oauth = token[p]

SavingInv ==
  ~crossed => \A p \in Programs : at[p] \in Saving /\ task[p] # "logout" => StillGood(token[p])

Replaced == \E p \in Programs : at[p] \in Saving /\ token[p].refresh \in honoured

KeptInv ==
  LET login == RootOf(real).oauth IN
    ~overlapped /\ ~dropped /\ ~crossed /\ login # None => StillGood(login) \/ Replaced

LoginInv ==
  /\ task \in [Programs -> {"start", "login", "logout"}]
  /\ TaskInv /\ SavingInv /\ KeptInv

(* Without an overlap, only a rename changes the file.                     *)
LEMMA FileStays ==
  ASSUME CredentialInv, NEW p \in Programs,
         OpenTemp(p) \/ FillTemp(p) \/ SaveFails(p), ~overlapped'
  PROVE  real' = real /\ ~overlapped
<1>1. CASE OpenTemp(p)
  BY <1>1 DEF OpenTemp, Target
<1>2. CASE FillTemp(p) \/ SaveFails(p)
  <2>1. ~overlapped
    BY <1>2 DEF FillTemp, SaveFails, history
  <2>2. at[p] = "fill" => fd[p] = "temp"
    BY <2>1 DEF CredentialInv, AloneInv
  <2>. QED BY <1>2, <2>1, <2>2 DEF FillTemp, SaveFails
<1>. QED BY <1>1, <1>2

(* A step of a save that keeps the tokens, the tasks and the server.       *)
LEMMA SaveGoesOn ==
  ASSUME CredentialInv, LoginInv, NEW p \in Programs,
         ReadRoot(p) \/ OpenTemp(p) \/ FillTemp(p)
  PROVE  LoginInv'
<1> USE DEF CredentialInv, LoginInv
<1>1. /\ UNCHANGED <<task, token, server, dropped, crossed>>
      /\ at[p] \in Saving /\ at' \in [Programs -> Steps] /\ at'[p] \in {"open", "fill", "rename"}
      /\ \A q \in Programs \ {p} : at'[q] = at[q]
  BY DEF ReadRoot, OpenTemp, FillTemp, Goto, history, Saving, CredentialType
<1>2. /\ \A q \in Programs \ {p} : root'[q] = root[q]
      /\ root'[p].oauth = token[p]
  <2>1. CASE ReadRoot(p)
    <3>1. root' = [root EXCEPT ![p] = [RootOf(real) EXCEPT !.oauth =
                     IF task[p] = "logout" THEN None ELSE token[p]]] /\ Readable(real)
      BY <2>1 DEF ReadRoot
    <3>2. RootOf(real) \in Objects
      BY <3>1, FileKinds DEF RootOf, Contents, Readable, CredentialType
    <3>3. root'[p].oauth = IF task[p] = "logout" THEN None ELSE token[p]
      BY <3>1, <3>2 DEF CredentialType, Objects
    <3>. QED BY <3>1, <3>3 DEF TaskInv, CredentialType
  <2>2. CASE OpenTemp(p) \/ FillTemp(p)
    BY <2>2 DEF OpenTemp, FillTemp, TaskInv
  <2>. QED BY <2>1, <2>2
<1>3. TaskInv'
  BY <1>1, <1>2 DEF TaskInv, server
<1>4. SavingInv'
  BY <1>1 DEF SavingInv, StillGood, server, Saving
<1>5. ~overlapped' => ~overlapped /\ real' = real
  BY FileStays DEF ReadRoot, history, bothFiles
<1>6. KeptInv'
  <2>1. Replaced => Replaced'
    BY <1>1 DEF Replaced, server, Saving
  <2>. QED BY <1>1, <1>5, <2>1 DEF KeptInv, StillGood, server, RootOf
<1>. QED BY <1>1, <1>3, <1>4, <1>6

LEMMA RenameKeepsLogin ==
  ASSUME CredentialInv, LoginInv, NEW p \in Programs, Rename(p)
  PROVE  LoginInv'
<1> USE DEF CredentialInv, LoginInv
<1>1. /\ at[p] = "rename" /\ real' = temp
      /\ at' = [at EXCEPT ![p] = "idle"] /\ token' = [token EXCEPT ![p] = None]
      /\ root' = [root EXCEPT ![p] = Absent]
      /\ UNCHANGED <<task, server, overlapped, dropped, crossed>>
  BY DEF Rename, history
<1>2. TaskInv'
  BY <1>1 DEF TaskInv, server, CredentialType
<1>3. SavingInv'
  BY <1>1 DEF SavingInv, StillGood, server, Saving, CredentialType
<1>4. KeptInv'
  <2> SUFFICES ASSUME ~overlapped, ~crossed, RootOf(real)'.oauth # None
               PROVE  StillGood(RootOf(real).oauth)'
    BY <1>1 DEF KeptInv
  <2>1. temp = root[p] /\ root[p].state = "object"
    BY <1>1 DEF AloneInv, MemoryInv
  <2>2. RootOf(real)' = root[p]
    BY <1>1, <2>1, FileKinds DEF RootOf
  <2>3. root[p].oauth = token[p]
    BY <1>1 DEF TaskInv
  <2>4. task[p] # "logout"
    BY <2>2, <2>3 DEF TaskInv
  <2>5. StillGood(token[p])
    BY <1>1, <2>4 DEF SavingInv, Saving
  <2>. QED BY <1>1, <2>2, <2>3, <2>5 DEF StillGood, server
<1>. QED BY <1>1, <1>2, <1>3, <1>4

(* A command ends, with a new token only if that is noted.                 *)
LEMMA EndKeepsLogin ==
  ASSUME CredentialInv, LoginInv, NEW p \in Programs, Over(p),
         UNCHANGED <<server, crossed>>,
         ~overlapped' /\ ~dropped' =>
           ~overlapped /\ ~dropped /\ real' = real /\ (at[p] \in Saving => token[p] = None)
  PROVE  LoginInv'
<1> USE DEF CredentialInv, LoginInv
<1>1. /\ at' = [at EXCEPT ![p] = "idle"] /\ token' = [token EXCEPT ![p] = None]
      /\ root' = [root EXCEPT ![p] = Absent] /\ UNCHANGED task
  BY DEF Over
<1>2. TaskInv'
  BY <1>1 DEF TaskInv, server, CredentialType
<1>3. SavingInv'
  BY <1>1 DEF SavingInv, StillGood, server, Saving, CredentialType
<1>4. KeptInv'
  <2> SUFFICES ASSUME ~overlapped', ~dropped', ~crossed', RootOf(real)'.oauth # None
               PROVE  StillGood(RootOf(real).oauth)' \/ Replaced'
    BY DEF KeptInv
  <2>1. RootOf(real)' = RootOf(real)
    BY DEF RootOf
  <2>2. StillGood(RootOf(real).oauth) \/ Replaced
    BY <2>1 DEF KeptInv
  <2>3. ASSUME Replaced PROVE Replaced'
    <3>1. PICK q \in Programs : at[q] \in Saving /\ token[q].refresh \in honoured
      BY <2>3 DEF Replaced
    <3>2. q # p
      BY <3>1 DEF TaskInv, None
    <3>. QED BY <1>1, <3>1, <3>2 DEF Replaced, server, CredentialType
  <2>. QED BY <2>1, <2>2, <2>3 DEF StillGood, server
<1>. QED BY <1>1, <1>2, <1>3, <1>4

(* The server's answer to a login: a token that can be used.               *)
LEMMA AuthorizeKeepsLogin ==
  ASSUME CredentialInv, LoginInv, NEW p \in Programs, Authorize(p)
  PROVE  LoginInv'
<1> USE DEF CredentialInv, LoginInv
<1>1. PICK refresh \in {0, issued + 1} :
        /\ token' = [token EXCEPT ![p] = Answered(issued + 1, refresh, 0)]
        /\ honoured' = honoured \cup ({refresh} \ {0})
        /\ bare' = IF refresh = 0 THEN bare \cup {issued + 1} ELSE bare
  BY DEF Authorize
<1>2. /\ at[p] = "callback" /\ at' = [at EXCEPT ![p] = "save"]
      /\ UNCHANGED <<real, task, root, overlapped, dropped, crossed>>
  BY DEF Authorize, Goto, history, bothFiles
<1>3. issued + 1 # 0
  BY DEF CredentialType
<1>4. token'[p].access = issued + 1 /\ token'[p].refresh = refresh
  BY <1>1 DEF Answered, CredentialType
<1>5. StillGood(token[p])'
  BY <1>1, <1>4 DEF StillGood
<1>6. \A t : StillGood(t) => StillGood(t)'
  BY <1>1 DEF StillGood
<1>7. \A q \in Programs \ {p} : at'[q] = at[q] /\ token'[q] = token[q]
  BY <1>1, <1>2 DEF CredentialType
<1>8. TaskInv'
  BY <1>1, <1>2, <1>3, <1>7 DEF TaskInv, CredentialType
<1>9. SavingInv'
  BY <1>2, <1>5, <1>6, <1>7 DEF SavingInv
<1>10. KeptInv'
  <2>1. Replaced => Replaced'
    BY <1>1, <1>2, <1>7 DEF Replaced, Saving
  <2>. QED BY <1>2, <1>6, <2>1 DEF KeptInv, RootOf
<1>. QED BY <1>2, <1>8, <1>9, <1>10

(* ... and to a refresh: who holds the old one now holds one that is void, *)
(* but the program that asked has the new one.                             *)
LEMMA RefreshKeepsLogin ==
  ASSUME CredentialInv, LoginInv, NEW p \in Programs, Refresh(p)
  PROVE  LoginInv'
<1> USE DEF CredentialInv, LoginInv
<1>1. PICK refresh \in {0, issued + 1} :
        /\ token' = [token EXCEPT ![p] = Answered(issued + 1, refresh, token[p].refresh)]
        /\ honoured' = IF refresh = 0 THEN honoured
                       ELSE (honoured \ {token[p].refresh}) \cup {refresh}
        /\ crossed' = \/ crossed
                      \/ /\ refresh # 0
                         /\ \E q \in Programs \ {p} : at[q] # "refresh" /\ token[q].refresh = token[p].refresh
  BY DEF Refresh
<1>2. /\ at[p] = "refresh" /\ at' = [at EXCEPT ![p] = "save"] /\ token[p].refresh \in honoured
      /\ UNCHANGED <<real, task, root, bare, overlapped, dropped>>
  BY DEF Refresh, Goto, bothFiles
<1>3. issued + 1 # 0
  BY DEF CredentialType
<1>4. token'[p].refresh = IF refresh # 0 THEN refresh ELSE token[p].refresh
  BY <1>1 DEF Answered, CredentialType
<1>5. token'[p].refresh \in honoured'
  BY <1>1, <1>2, <1>4
<1>6. \A q \in Programs \ {p} : at'[q] = at[q] /\ token'[q] = token[q]
  BY <1>1, <1>2 DEF CredentialType
<1>7. at'[p] = "save" /\ Replaced'
  BY <1>2, <1>5 DEF Replaced, Saving, CredentialType
<1>8. TaskInv'
  <2>1. 0 \notin honoured'
    BY <1>1, <1>3 DEF TaskInv
  <2>2. task[p] = "start"
    BY <1>2 DEF TaskInv
  <2>. QED BY <1>2, <1>6, <1>7, <2>1, <2>2 DEF TaskInv
<1>9. SavingInv'
  <2> SUFFICES ASSUME ~crossed', NEW q \in Programs, at'[q] \in Saving, task'[q] # "logout"
               PROVE  StillGood(token[q])'
    BY DEF SavingInv
  <2>1. CASE q = p
    BY <1>5, <2>1 DEF StillGood
  <2>2. CASE q # p
    <3>1. StillGood(token[q])
      BY <1>1, <1>2, <1>6, <2>2 DEF SavingInv
    <3>2. refresh = 0 \/ token[q].refresh # token[p].refresh
      BY <1>1, <1>6, <2>2 DEF Saving
    <3>. QED BY <1>1, <1>2, <1>6, <2>2, <3>1, <3>2 DEF StillGood
  <2>. QED BY <2>1, <2>2
<1>10. KeptInv'
  BY <1>7 DEF KeptInv
<1>. QED BY <1>2, <1>8, <1>9, <1>10

LEMMA LoginStep == CredentialInv /\ LoginInv /\ [CredentialNext]_credentialVars => LoginInv'
<1> SUFFICES ASSUME CredentialInv, LoginInv, [CredentialNext]_credentialVars PROVE LoginInv'
  OBVIOUS
<1>1. CASE \E p \in Programs, c \in {"start", "login", "logout"} : Begin(p, c)
  <2>1. PICK p \in Programs, c \in {"start", "login", "logout"} : Begin(p, c)
    BY <1>1
  <2>2. /\ at[p] = "idle" /\ at' = [at EXCEPT ![p] = FirstStep[c]] /\ task' = [task EXCEPT ![p] = c]
        /\ UNCHANGED <<real, token, root, server, history>>
    BY <2>1 DEF Begin, Goto, bothFiles
  <2>3. /\ FirstStep["start"] = "load" /\ FirstStep["login"] = "callback" /\ FirstStep["logout"] = "save"
    BY DEF FirstStep
  <2>4. \A q \in Programs \ {p} : at'[q] = at[q] /\ task'[q] = task[q]
    BY <2>2 DEF CredentialInv, CredentialType, LoginInv
  <2>5. at'[p] = FirstStep[c] /\ task'[p] = c /\ token[p] = None
    BY <2>2 DEF CredentialInv, CredentialType, LoginInv, TaskInv
  <2>6. TaskInv'
    BY <2>2, <2>3, <2>4, <2>5 DEF TaskInv, LoginInv, server
  <2>7. SavingInv'
    BY <2>2, <2>3, <2>4, <2>5 DEF SavingInv, LoginInv, StillGood, server, history, Saving
  <2>8. KeptInv'
    <3>1. Replaced => Replaced'
      BY <2>2, <2>4, <2>5 DEF Replaced, server, Saving, TaskInv, LoginInv, None
    <3>. QED BY <2>2, <3>1 DEF KeptInv, LoginInv, StillGood, server, history, RootOf
  <2>. QED BY <2>2, <2>6, <2>7, <2>8 DEF LoginInv
<1>2. ASSUME NEW p \in Programs, AuthorizeFails(p) \/ RefreshFails(p) \/ (LoadToken(p) /\ Over(p)) \/ SaveFails(p)
      PROVE  LoginInv'
  <2>1. /\ Over(p) /\ UNCHANGED <<server, crossed>>
    BY <1>2 DEF AuthorizeFails, RefreshFails, LoadToken, SaveFails, history
  <2>2. CASE SaveFails(p)
    <3>1. ~overlapped' => real' = real /\ ~overlapped
      BY <2>2, FileStays
    <3>2. ~dropped' => ~dropped /\ token[p] = None
      BY <2>2 DEF SaveFails, Holding
    <3>. QED BY <2>1, <3>1, <3>2, EndKeepsLogin
  <2>3. CASE ~SaveFails(p)
    <3>1. at[p] \notin Saving /\ UNCHANGED <<real, overlapped, dropped>>
      BY <1>2, <2>3 DEF AuthorizeFails, RefreshFails, LoadToken, history, Saving
    <3>. QED BY <2>1, <3>1, EndKeepsLogin
  <2>. QED BY <2>2, <2>3
<1>3. ASSUME NEW p \in Programs, LoadToken(p), ~Over(p) PROVE LoginInv'
  <2>1. /\ at[p] = "load" /\ at' = [at EXCEPT ![p] = "refresh"]
        /\ token' = [token EXCEPT ![p] = RootOf(real).oauth]
        /\ UNCHANGED <<real, task, root, server, history>>
    BY <1>3 DEF LoadToken, Goto, bothFiles
  <2>2. \A q \in Programs \ {p} : at'[q] = at[q] /\ token'[q] = token[q]
    BY <2>1 DEF CredentialInv, CredentialType
  <2>3. at'[p] = "refresh" /\ task[p] = "start"
    BY <2>1 DEF CredentialInv, CredentialType, LoginInv, TaskInv
  <2>4. TaskInv'
    BY <2>1, <2>2, <2>3 DEF TaskInv, LoginInv, server
  <2>5. SavingInv'
    BY <2>1, <2>2, <2>3 DEF SavingInv, LoginInv, StillGood, server, history, Saving
  <2>6. KeptInv'
    <3>1. Replaced => Replaced'
      BY <2>1, <2>2 DEF Replaced, server, Saving
    <3>. QED BY <2>1, <3>1 DEF KeptInv, LoginInv, StillGood, server, history, RootOf
  <2>. QED BY <2>1, <2>4, <2>5, <2>6 DEF LoginInv
<1>4. CASE UNCHANGED <<bothFiles, memory, honoured, bare, history>>
  BY <1>4 DEF LoginInv, TaskInv, SavingInv, KeptInv, Replaced, StillGood, RootOf, bothFiles, memory, history
<1>5. CASE \E t \in 1..MaxTokens : Expire(t)
  BY <1>4, <1>5 DEF Expire
<1>6. CASE UNCHANGED credentialVars
  BY <1>4, <1>6 DEF credentialVars, server
<1>. QED BY <1>1, <1>2, <1>3, <1>5, <1>6, SaveGoesOn, RenameKeepsLogin, AuthorizeKeepsLogin, RefreshKeepsLogin
         DEF CredentialNext, ProgramStep

(* As long as no two saves overlap, no new token fails to be saved and no  *)
(* two programs refresh one token, the saved login can be used again, or a *)
(* program is about to save one that can -- for any number of programs,    *)
(* whatever the server hands out and whatever else fails.                  *)
THEOREM LoginStaysKept == CredentialSpec => []LoginIsKept
<1>1. CredentialInit => LoginInv
  BY FileKinds DEF CredentialInit, LoginInv, TaskInv, SavingInv, KeptInv, RootOf, Saving, Object, None,
                   Absent, NotObject
<1>2. LoginInv => LoginIsKept
  BY DEF LoginInv, KeptInv, LoginIsKept, StillGood, Replaced
<1>. QED BY <1>1, <1>2, InitInv, NextInv, LoginStep, PTL DEF CredentialSpec

-----------------------------------------------------------------------------
(* The copies left out, text after text.                                   *)
Texts == [is : {"text"}, says : STRING, length : Nat]

LEMMA WithNewType ==
  ASSUME NEW kept \in Seq(Texts), NEW text \in Texts
  PROVE  WithNew(kept, text) \in Seq(Texts)
BY DEF WithNew

LEMMA CopiesLoop ==
  ASSUME NEW texts \in Seq(Texts)
  PROVE  \E g \in [0..Len(texts) -> Seq(Texts)] :
           /\ g[0] = <<>> /\ WithoutCopies(texts) = g[Len(texts)]
           /\ \A i \in 1..Len(texts) : g[i] = WithNew(g[i - 1], texts[i])
<1> DEFINE N == Len(texts)
           A == Seq(Texts)
           step == [i \in 1..N |-> [a \in A |-> WithNew(a, texts[i])]]
           Recurs(g) == g = [n \in 0..N |-> IF n = 0 THEN <<>> ELSE WithNew(g[n - 1], texts[n])]
<1>1. N \in Nat /\ \A i \in 1..N : texts[i] \in Texts
  OBVIOUS
<1>2. step \in [1..N -> [A -> A]] /\ <<>> \in A
  <2>1. \A i \in 1..N : \A a \in A : WithNew(a, texts[i]) \in A
    BY <1>1, WithNewType
  <2>. QED BY <2>1
<1>3. PICK g \in [0..N -> A] : Loops(g, <<>>, step, N)
  <2> HIDE DEF step, A, N
  <2>. QED BY <1>1, <1>2, LoopExists
<1>4. \A i \in 1..N : g[i] = WithNew(g[i - 1], texts[i])
  <2> TAKE i \in 1..N
  <2>1. i - 1 \in 0..N /\ g[i - 1] \in A
    BY <1>1, <1>3
  <2>. QED BY <1>3, <2>1 DEF Loops
<1>5. g[0] = <<>>
  BY <1>3 DEF Loops
<1>6. Recurs(g)
  <2>1. \A n \in 0..N : g[n] = IF n = 0 THEN <<>> ELSE WithNew(g[n - 1], texts[n])
    BY <1>4, <1>5
  <2>. QED BY <1>3, <2>1
<1> DEFINE kept == CHOOSE h : Recurs(h)
<1>7. WithoutCopies(texts) = kept[N]
  BY DEF WithoutCopies
<1> HIDE DEF Recurs
<1>8. Recurs(kept)
  BY <1>6
<1> HIDE DEF kept
<1>9. /\ kept[0] = <<>>
      /\ \A n \in 1..N : kept[n] = WithNew(kept[n - 1], texts[n])
  BY <1>8 DEF Recurs
<1> DEFINE S == {n \in Nat : n <= N => kept[n] = g[n]}
<1>10. 0 \in S /\ \A n \in Nat : n \in S => n + 1 \in S
  <2>1. 0 \in S
    BY <1>5, <1>9
  <2>2. ASSUME NEW n \in Nat, n \in S, n + 1 <= N PROVE kept[n + 1] = g[n + 1]
    <3>1. n + 1 \in 1..N /\ (n + 1) - 1 = n /\ kept[n] = g[n]
      BY <1>1, <2>2
    <3>. QED BY <1>4, <1>9, <3>1
  <2>. QED BY <2>1, <2>2
<1>11. N \in S
  <2> HIDE DEF S
  <2>. QED BY <1>1, <1>10, SetInduction
<1>12. WithoutCopies(texts) = g[N]
  BY <1>1, <1>7, <1>11
<1> HIDE DEF step
<1>. QED BY <1>3, <1>4, <1>5, <1>12

(* Among the first n of the texts nothing is lost, nothing comes twice, and*)
(* a first copy comes before any of the next text.                         *)
Distinct(kept, texts, n) ==
  /\ \A i \in 1..n : \E s \in DOMAIN kept : kept[s].says = texts[i].says
  /\ \A s \in DOMAIN kept : \E i \in 1..n : texts[i].says = kept[s].says
  /\ \A s, t \in DOMAIN kept : kept[s].says = kept[t].says => s = t
  /\ \A s, t \in DOMAIN kept : s < t =>
       \E i \in 1..n : texts[i].says = kept[s].says /\ \A j \in 1..i : texts[j].says # kept[t].says

LEMMA NewStaysDistinct ==
  ASSUME NEW texts \in Seq(Texts), NEW n \in 1..Len(texts), NEW kept \in Seq(Texts),
         Distinct(kept, texts, n - 1)
  PROVE  Distinct(WithNew(kept, texts[n]), texts, n)
<1>0. n \in Nat /\ n - 1 \in Nat /\ 1..(n - 1) \subseteq 1..n /\ n \in 1..n
      /\ \A i \in 1..n : i \in 1..(n - 1) \/ i = n
  OBVIOUS
<1>1. CASE \E s \in DOMAIN kept : kept[s].says = texts[n].says
  <2>1. WithNew(kept, texts[n]) = kept
    BY <1>1 DEF WithNew
  <2>. QED BY <1>0, <1>1, <2>1 DEF Distinct
<1>2. CASE \A s \in DOMAIN kept : kept[s].says # texts[n].says
  <2> DEFINE all == Append(kept, texts[n])
             m == Len(kept) + 1
  <2>1. /\ texts[n] \in Texts /\ Len(kept) \in Nat /\ DOMAIN kept = 1..Len(kept)
        /\ DOMAIN all = 1..m /\ all[m] = texts[n] /\ \A s \in 1..Len(kept) : all[s] = kept[s]
        /\ \A s \in 1..m : s \in 1..Len(kept) \/ s = m
    <3>1. texts[n] \in Texts
      OBVIOUS
    <3>. QED BY <3>1, AppendProperties
  <2>2. WithNew(kept, texts[n]) = all
    BY <1>2 DEF WithNew
  <2> HIDE DEF all
  <2>3. ASSUME NEW i \in 1..n PROVE \E s \in DOMAIN all : all[s].says = texts[i].says
    <3>1. CASE i = n
      <4>1. m \in DOMAIN all
        BY <2>1
      <4>. QED BY <2>1, <3>1, <4>1
    <3>2. CASE i # n
      <4>1. PICK s \in DOMAIN kept : kept[s].says = texts[i].says
        BY <1>0, <3>2 DEF Distinct
      <4>2. s \in DOMAIN all /\ all[s] = kept[s]
        BY <2>1
      <4>. QED BY <4>1, <4>2
    <3>. QED BY <3>1, <3>2
  <2>4. \A s \in DOMAIN all : \E i \in 1..n : texts[i].says = all[s].says
    BY <1>0, <2>1 DEF Distinct
  <2>5. \A s, t \in DOMAIN all : all[s].says = all[t].says => s = t
    BY <1>2, <2>1 DEF Distinct
  <2>6. ASSUME NEW s \in DOMAIN all, NEW t \in DOMAIN all, s < t
        PROVE  \E i \in 1..n : texts[i].says = all[s].says /\ \A j \in 1..i : texts[j].says # all[t].says
    <3>1. s \in DOMAIN kept /\ all[s] = kept[s]
      BY <2>1, <2>6
    <3>2. CASE t # m
      <4>1. t \in DOMAIN kept /\ all[t] = kept[t]
        BY <2>1, <3>2
      <4>2. PICK i \in 1..(n - 1) :
               texts[i].says = kept[s].says /\ \A j \in 1..i : texts[j].says # kept[t].says
        BY <2>6, <3>1, <4>1 DEF Distinct
      <4>. QED BY <1>0, <3>1, <4>1, <4>2
    <3>3. CASE t = m
      <4>1. PICK i \in 1..(n - 1) : texts[i].says = kept[s].says
        BY <3>1 DEF Distinct
      <4>2. ASSUME NEW j \in 1..i PROVE texts[j].says # texts[n].says
        <5>1. j \in 1..(n - 1)
          BY <1>0
        <5>2. PICK u \in DOMAIN kept : kept[u].says = texts[j].says
          BY <5>1 DEF Distinct
        <5>. QED BY <1>2, <5>2
      <4>. QED BY <1>0, <2>1, <3>1, <3>3, <4>1, <4>2
    <3>. QED BY <3>2, <3>3
  <2>. QED BY <2>2, <2>3, <2>4, <2>5, <2>6 DEF Distinct
<1>. QED BY <1>1, <1>2

LEMMA CopiesAreLeftOut ==
  ASSUME NEW texts \in Seq(Texts)
  PROVE  WithoutCopies(texts) \in Seq(Texts) /\ Distinct(WithoutCopies(texts), texts, Len(texts))
<1> DEFINE N == Len(texts)
<1>1. PICK g \in [0..N -> Seq(Texts)] :
          /\ g[0] = <<>> /\ WithoutCopies(texts) = g[N]
          /\ \A i \in 1..N : g[i] = WithNew(g[i - 1], texts[i])
  BY CopiesLoop
<1> DEFINE S == {n \in Nat : n <= N => Distinct(g[n], texts, n)}
<1>2. 0 \in S
  BY <1>1 DEF Distinct
<1>3. ASSUME NEW n \in Nat, n \in S PROVE n + 1 \in S
  <2> SUFFICES ASSUME n + 1 <= N PROVE Distinct(g[n + 1], texts, n + 1)
    OBVIOUS
  <2>1. n + 1 \in 1..N /\ (n + 1) - 1 = n /\ n \in 0..N /\ Distinct(g[n], texts, n)
    BY <1>3
  <2>2. g[n] \in Seq(Texts) /\ g[n + 1] = WithNew(g[n], texts[n + 1])
    BY <1>1, <2>1
  <2>. QED BY <2>1, <2>2, NewStaysDistinct
<1>4. N \in S
  <2> HIDE DEF S
  <2>. QED BY <1>2, <1>3, SetInduction
<1>5. Distinct(g[N], texts, N) /\ N \in 0..N
  BY <1>4
<1>. QED BY <1>1, <1>5

-----------------------------------------------------------------------------
(* The size of a prompt grows by that of each section.                     *)
Sections == [says : STRING, kept : Nat, marks : Nat]

LEMMA SizeType == \A s \in Sections : Size(s) \in Nat
BY DEF Size, Sections

LEMMA SizesLoop ==
  ASSUME NEW texts \in Seq(Sections)
  PROVE  \E g \in [0..Len(texts) -> Nat] :
           /\ g[0] = 0 /\ SizeOfAll(texts) = g[Len(texts)]
           /\ \A i \in 1..Len(texts) : g[i] = g[i - 1] + Size(texts[i])
<1> DEFINE N == Len(texts)
           A == Nat
           step == [i \in 1..N |-> [a \in A |-> a + Size(texts[i])]]
           Recurs(g) == g = [n \in 0..N |-> IF n = 0 THEN 0 ELSE g[n - 1] + Size(texts[n])]
<1>1. N \in Nat /\ \A i \in 1..N : texts[i] \in Sections
  OBVIOUS
<1>2. step \in [1..N -> [A -> A]] /\ 0 \in A
  <2>1. \A i \in 1..N : \A a \in A : a + Size(texts[i]) \in A
    BY <1>1, SizeType
  <2>. QED BY <2>1
<1>3. PICK g \in [0..N -> A] : Loops(g, 0, step, N)
  <2> HIDE DEF step, A, N
  <2>. QED BY <1>1, <1>2, LoopExists
<1>4. \A i \in 1..N : g[i] = g[i - 1] + Size(texts[i])
  <2> TAKE i \in 1..N
  <2>1. i - 1 \in 0..N
    BY <1>1
  <2>2. g[i - 1] \in A
    <3> HIDE DEF A, step
    <3>. QED BY <1>3, <2>1
  <2>. QED BY <1>3, <2>2 DEF Loops
<1>5. g[0] = 0
  BY <1>3 DEF Loops
<1>6. Recurs(g)
  <2>1. \A n \in 0..N : g[n] = IF n = 0 THEN 0 ELSE g[n - 1] + Size(texts[n])
    BY <1>4, <1>5
  <2>. QED BY <1>3, <2>1
<1> DEFINE sum == CHOOSE h : Recurs(h)
<1>7. SizeOfAll(texts) = sum[N]
  BY DEF SizeOfAll
<1> HIDE DEF Recurs
<1>8. Recurs(sum)
  BY <1>6
<1> HIDE DEF sum
<1>9. /\ sum[0] = 0
      /\ \A n \in 1..N : sum[n] = sum[n - 1] + Size(texts[n])
  BY <1>8 DEF Recurs
<1> DEFINE S == {n \in Nat : n <= N => sum[n] = g[n]}
<1>10. 0 \in S /\ \A n \in Nat : n \in S => n + 1 \in S
  <2>1. 0 \in S
    BY <1>5, <1>9
  <2>2. ASSUME NEW n \in Nat, n \in S, n + 1 <= N PROVE sum[n + 1] = g[n + 1]
    <3>1. n + 1 \in 1..N /\ (n + 1) - 1 = n /\ sum[n] = g[n]
      BY <1>1, <2>2
    <3>. QED BY <1>4, <1>9, <3>1
  <2>. QED BY <2>1, <2>2
<1>11. N \in S
  <2> HIDE DEF S
  <2>. QED BY <1>1, <1>10, SetInduction
<1>12. SizeOfAll(texts) = g[N]
  BY <1>1, <1>7, <1>11
<1> HIDE DEF step
<1>. QED BY <1>3, <1>4, <1>5, <1>12

LEMMA SizeOfMore ==
  ASSUME NEW texts \in Seq(Sections), NEW new \in Sections
  PROVE  /\ SizeOfAll(texts) \in Nat
         /\ SizeOfAll(Append(texts, new)) = SizeOfAll(texts) + Size(new)
<1> DEFINE N == Len(texts)
           all == Append(texts, new)
<1>1. /\ N \in Nat /\ all \in Seq(Sections) /\ Len(all) = N + 1 /\ all[N + 1] = new
      /\ \A i \in 1..N : all[i] = texts[i]
  BY AppendProperties
<1> HIDE DEF all
<1>2. PICK g \in [0..N -> Nat] :
        /\ g[0] = 0 /\ SizeOfAll(texts) = g[N]
        /\ \A i \in 1..N : g[i] = g[i - 1] + Size(texts[i])
  BY SizesLoop
<1>3. PICK h \in [0..(N + 1) -> Nat] :
        /\ h[0] = 0 /\ SizeOfAll(all) = h[N + 1]
        /\ \A i \in 1..(N + 1) : h[i] = h[i - 1] + Size(all[i])
  <2>1. \E h \in [0..Len(all) -> Nat] :
          /\ h[0] = 0 /\ SizeOfAll(all) = h[Len(all)]
          /\ \A i \in 1..Len(all) : h[i] = h[i - 1] + Size(all[i])
    <3>1. all \in Seq(Sections)
      BY <1>1
    <3>. QED BY <3>1, SizesLoop
  <2>. QED BY <1>1, <2>1
<1> DEFINE S == {n \in Nat : n <= N => h[n] = g[n]}
<1>4. 0 \in S
  BY <1>2, <1>3
<1>5. ASSUME NEW n \in Nat, n \in S PROVE n + 1 \in S
  <2> SUFFICES ASSUME n + 1 <= N PROVE h[n + 1] = g[n + 1]
    OBVIOUS
  <2>1. n + 1 \in 1..N /\ n + 1 \in 1..(N + 1) /\ (n + 1) - 1 = n /\ h[n] = g[n]
    BY <1>1, <1>5
  <2>. QED BY <1>1, <1>2, <1>3, <2>1
<1>6. N \in S
  <2> HIDE DEF S
  <2>. QED BY <1>1, <1>4, <1>5, SetInduction
<1>7. h[N] = g[N] /\ h[N + 1] = h[N] + Size(new) /\ g[N] \in Nat
  BY <1>1, <1>2, <1>3, <1>6
<1>. QED BY <1>2, <1>3, <1>7 DEF all

(* What is rendered says what the file says, and is the file whole if it   *)
(* fits, or is marked as cut and uses the budget of a file or what is left.*)
LEMMA RenderedFits ==
  ASSUME left \in Nat \ {0}, NEW file \in Texts
  PROVE  LET text == Rendered(file) IN
           /\ text \in Sections /\ text.says = file.says
           /\ (text.kept = file.length /\ text.marks = 0) \/ text.marks >= Mark
           /\ text.marks > 0 => Size(text) >= PerFile \/ Size(text) >= left
           /\ Size(text) < left + 2 * Mark
<1> DEFINE most  == Lesser(PerFile, left)
           whole == [says |-> file.says, kept |-> file.length, marks |-> 0]
           once  == Cut(whole, most)
<1>1. /\ PerFile \in Nat /\ left \in Nat /\ Mark \in Nat /\ Mark > 0 /\ left > 0
      /\ file.length \in Nat /\ file.says \in STRING
      /\ most \in Nat /\ most <= PerFile /\ most <= left /\ (most = PerFile \/ most = left)
  BY InstructionAssumption DEF Lesser, Texts
<1>2. Rendered(file) = Cut(once, PerFile)
  BY DEF Rendered
<1> HIDE DEF most
<1>3. whole \in Sections /\ Size(whole) = file.length
  BY <1>1 DEF Sections, Size
<1>4. CASE file.length <= most
  <2>1. once = whole
    BY <1>3, <1>4 DEF Cut
  <2>2. Rendered(file) = whole
    BY <1>1, <1>2, <1>3, <1>4, <2>1 DEF Cut
  <2>. QED BY <1>1, <1>3, <1>4, <2>2
<1>5. CASE ~(file.length <= most)
  <2>1. Lesser(file.length, most) = most
    BY <1>1, <1>5 DEF Lesser
  <2>2. once = [says |-> file.says, kept |-> most, marks |-> most - most + Mark]
    BY <1>3, <1>5, <2>1 DEF Cut
  <2>3. once = [says |-> file.says, kept |-> most, marks |-> Mark] /\ Size(once) = most + Mark
    <3>1. most - most + Mark = Mark
      BY <1>1
    <3>. QED BY <2>2, <3>1 DEF Size
  <2> HIDE DEF once, whole
  <2>4. CASE most + Mark <= PerFile
    <3>1. Rendered(file) = once
      BY <1>2, <2>3, <2>4 DEF Cut
    <3>2. once \in Sections /\ once.says = file.says /\ once.marks = Mark
      BY <1>1, <2>3 DEF Sections
    <3>3. most = left
      BY <1>1, <2>4
    <3>. QED BY <1>1, <2>3, <3>1, <3>2, <3>3
  <2>5. CASE ~(most + Mark <= PerFile)
    <3>1. Lesser(most, PerFile) = most
      BY <1>1 DEF Lesser
    <3>2. Rendered(file) = [says |-> file.says, kept |-> most, marks |-> PerFile - most + Mark]
      BY <1>2, <2>3, <2>5, <3>1 DEF Cut
    <3>3. PerFile - most + Mark \in Nat /\ PerFile - most + Mark >= Mark
          /\ most + (PerFile - most + Mark) = PerFile + Mark
      BY <1>1
    <3>4. Rendered(file) \in Sections /\ Size(Rendered(file)) = PerFile + Mark
      BY <1>1, <3>2, <3>3 DEF Size, Sections
    <3>. QED BY <1>1, <2>5, <3>2, <3>3, <3>4
  <2>. QED BY <2>4, <2>5
<1>. QED BY <1>4, <1>5

-----------------------------------------------------------------------------
(* The budget: what is left is what is not written yet, until it is used   *)
(* up; then it is exceeded by less than two marks.  A text that was cut was*)
(* too long for a file, or the last that was written.                      *)
InstructionType ==
  /\ places \in Seq(Candidate) /\ found \in Seq(Texts) /\ distinct \in Seq(Texts)
  /\ sections \in Seq(Sections) /\ left \in 0..Total
  /\ status \in {"reading", "writing", "complete", "omitted", "failed"}

BudgetInv ==
  /\ left > 0 => Written = Total - left
  /\ left = 0 => Written >= Total /\ Written < Total + 2 * Mark

(* Each text is that of the distinct one at its place.                     *)
SectionsInv ==
  /\ Len(sections) <= Len(distinct)
  /\ \A i \in 1..Len(sections) :
       /\ sections[i].says = distinct[i].says
       /\ sections[i].kept = distinct[i].length \/ sections[i].marks >= Mark
       /\ sections[i].marks > 0 => Size(sections[i]) >= PerFile \/ left = 0

StatusInv ==
  /\ status \in {"reading", "failed"} => sections = <<>> /\ distinct = <<>>
  /\ status \notin {"reading", "failed"} => Distinct(distinct, found, Len(found))
  /\ status = "writing" => Len(sections) < Len(distinct)
  /\ status = "complete" => Len(sections) = Len(distinct)
  /\ status = "omitted" => Len(sections) < Len(distinct) /\ left = 0

InstructionInv == InstructionType /\ BudgetInv /\ SectionsInv /\ StatusInv

LEMMA WrittenNothing == SizeOfAll(<<>>) = 0
<1>1. <<>> \in Seq(Sections) /\ Len(<<>>) = 0
  OBVIOUS
<1>2. PICK g \in [0..Len(<<>>) -> Nat] : g[0] = 0 /\ SizeOfAll(<<>>) = g[Len(<<>>)]
  BY <1>1, SizesLoop
<1>. QED BY <1>1, <1>2

LEMMA InstructionsStart == InstructionInit => InstructionInv
<1> SUFFICES ASSUME InstructionInit PROVE InstructionInv
  OBVIOUS
<1>1. InstructionType
  BY InstructionAssumption DEF InstructionInit, InstructionType
<1>2. BudgetInv
  BY InstructionAssumption, WrittenNothing DEF InstructionInit, BudgetInv, Written
<1>3. SectionsInv /\ StatusInv
  BY DEF InstructionInit, SectionsInv, StatusInv
<1>. QED BY <1>1, <1>2, <1>3 DEF InstructionInv

LEMMA PlaceStep == InstructionInv /\ ReadPlace => InstructionInv'
<1> SUFFICES ASSUME InstructionInv, ReadPlace PROVE InstructionInv'
  OBVIOUS
<1> USE DEF InstructionInv
<1>1. InstructionType'
  <2>1. Head(places) \in Candidate /\ Tail(places) \in Seq(Candidate)
    BY HeadTailProperties DEF ReadPlace, InstructionType
  <2>2. Head(places).is = "text" => Head(places) \in Texts
    BY <2>1 DEF Candidate, Texts
  <2>3. found' \in Seq(Texts)
    BY <2>2 DEF ReadPlace, InstructionType
  <2>. QED BY <2>1, <2>3 DEF ReadPlace, InstructionType
<1>2. BudgetInv' /\ SectionsInv'
  BY DEF ReadPlace, BudgetInv, SectionsInv, Written
<1>3. StatusInv'
  BY DEF ReadPlace, StatusInv
<1>. QED BY <1>1, <1>2, <1>3

LEMMA CopiesStep == InstructionInv /\ LeaveCopiesOut => InstructionInv'
<1> SUFFICES ASSUME InstructionInv, LeaveCopiesOut PROVE InstructionInv'
  OBVIOUS
<1> USE DEF InstructionInv
<1>0. distinct' \in Seq(Texts) /\ Distinct(distinct', found, Len(found)) /\ sections = <<>> /\ found' = found
  BY CopiesAreLeftOut DEF LeaveCopiesOut, InstructionType, StatusInv
<1>1. InstructionType'
  BY <1>0 DEF LeaveCopiesOut, InstructionType
<1>2. BudgetInv'
  BY DEF LeaveCopiesOut, BudgetInv, Written
<1>3. SectionsInv'
  BY <1>0 DEF LeaveCopiesOut, SectionsInv
<1>4. StatusInv'
  <2>1. distinct' # <<>> => Len(distinct') > 0
    BY <1>0
  <2>. QED BY <1>0, <2>1 DEF LeaveCopiesOut, StatusInv
<1>. QED BY <1>1, <1>2, <1>3, <1>4

LEMMA SectionStep == InstructionInv /\ WriteSection => InstructionInv'
<1> SUFFICES ASSUME InstructionInv, WriteSection PROVE InstructionInv'
  OBVIOUS
<1> USE DEF InstructionInv
<1> DEFINE text == Rendered(Pending)
           n == Len(sections)
<1>1. /\ n \in Nat /\ n < Len(distinct) /\ Pending = distinct[n + 1] /\ Pending \in Texts
      /\ left \in Nat \ {0} /\ Written = Total - left
      /\ Total \in Nat /\ Mark \in Nat \ {0} /\ PerFile \in Nat /\ left <= Total
  BY InstructionAssumption DEF WriteSection, StatusInv, BudgetInv, InstructionType, Pending
<1>2. /\ text \in Sections /\ text.says = Pending.says
      /\ (text.kept = Pending.length /\ text.marks = 0) \/ text.marks >= Mark
      /\ text.marks > 0 => Size(text) >= PerFile \/ Size(text) >= left
      /\ Size(text) < left + 2 * Mark
  BY <1>1, RenderedFits
<1>3. sections' = Append(sections, text) /\ left' = left - Lesser(Size(text), left)
  BY DEF WriteSection, Charged
<1> HIDE DEF text
<1>4. Size(text) \in Nat
  BY <1>2, SizeType
<1>5. Written' = Written + Size(text)
  <2>1. Written' = SizeOfAll(Append(sections, text))
    BY <1>3 DEF Written
  <2>. QED BY <1>2, <2>1, SizeOfMore DEF InstructionType, Written
<1>6. /\ left' \in 0..Total
      /\ Size(text) < left => left' = left - Size(text) /\ left' > 0
      /\ Size(text) >= left => left' = 0
  BY <1>1, <1>3, <1>4 DEF Lesser
<1>7. /\ sections' \in Seq(Sections) /\ Len(sections') = n + 1 /\ sections'[n + 1] = text
      /\ \A i \in 1..n : sections'[i] = sections[i]
      /\ \A i \in 1..(n + 1) : i \in 1..n \/ i = n + 1
  BY <1>1, <1>2, <1>3, AppendProperties DEF InstructionType
<1>8. InstructionType'
  BY <1>6, <1>7 DEF WriteSection, InstructionType
<1>9. BudgetInv'
  BY <1>1, <1>2, <1>4, <1>5, <1>6 DEF BudgetInv
<1>10. SectionsInv'
  <2>1. distinct' = distinct
    BY DEF WriteSection
  <2>2. Len(sections') <= Len(distinct')
    BY <1>1, <1>7, <2>1 DEF InstructionType
  <2>3. ASSUME NEW i \in 1..n
        PROVE  /\ sections'[i].says = distinct[i].says
               /\ sections'[i].kept = distinct[i].length \/ sections'[i].marks >= Mark
               /\ sections'[i].marks > 0 => Size(sections'[i]) >= PerFile \/ left' = 0
    <3>1. left # 0
      BY <1>1
    <3>. QED BY <1>7, <3>1 DEF SectionsInv
  <2>4. /\ text.says = distinct[n + 1].says
        /\ text.kept = distinct[n + 1].length \/ text.marks >= Mark
        /\ text.marks > 0 => Size(text) >= PerFile \/ left' = 0
    BY <1>1, <1>2, <1>6
  <2>5. ASSUME NEW i \in 1..(n + 1)
        PROVE  /\ sections'[i].says = distinct[i].says
               /\ sections'[i].kept = distinct[i].length \/ sections'[i].marks >= Mark
               /\ sections'[i].marks > 0 => Size(sections'[i]) >= PerFile \/ left' = 0
    BY <1>7, <2>3, <2>4
  <2>. QED BY <1>7, <2>1, <2>2, <2>5 DEF SectionsInv
<1>11. StatusInv'
  <2>1. status' # "complete" => Len(sections') < Len(distinct')
    BY <1>1, <1>7 DEF WriteSection, InstructionType
  <2>. QED BY <2>1 DEF WriteSection, StatusInv
<1>. QED BY <1>8, <1>9, <1>10, <1>11

LEMMA NoteStep == InstructionInv /\ WriteNote => InstructionInv'
BY DEF InstructionInv, InstructionType, BudgetInv, SectionsInv, StatusInv, Written, WriteNote

LEMMA InstructionsStay == InstructionInv /\ [InstructionNext]_instructionVars => InstructionInv'
<1>1. InstructionInv /\ UNCHANGED instructionVars => InstructionInv'
  BY DEF InstructionInv, InstructionType, BudgetInv, SectionsInv, StatusInv, Written, instructionVars
<1>. QED BY <1>1, PlaceStep, CopiesStep, SectionStep, NoteStep DEF InstructionNext

LEMMA InstructionsInvFits == InstructionInv => InstructionsFit
<1> SUFFICES ASSUME InstructionInv PROVE InstructionsFit
  OBVIOUS
<1> USE DEF InstructionInv
<1>1. /\ DOMAIN sections = 1..Len(sections) /\ DOMAIN distinct = 1..Len(distinct)
      /\ DOMAIN found = 1..Len(found) /\ Len(sections) \in Nat /\ Len(distinct) \in Nat /\ Len(found) \in Nat
      /\ 1..Len(sections) \subseteq 1..Len(distinct)
  BY DEF InstructionType, SectionsInv
<1>2. Written < Total + 2 * Mark /\ (left = 0 => Written >= Total)
  BY InstructionAssumption DEF BudgetInv, InstructionType
<1>3. \A i \in DOMAIN sections :
        /\ sections[i].says = distinct[i].says
        /\ sections[i].kept = distinct[i].length \/ sections[i].marks >= Mark
        /\ sections[i].marks > 0 => Size(sections[i]) >= PerFile \/ Written >= Total
  BY <1>1, <1>2 DEF SectionsInv
<1>4. ASSUME NEW s \in DOMAIN sections, NEW t \in DOMAIN sections, s < t
      PROVE  \E i \in DOMAIN found :
               found[i].says = sections[s].says /\ \A j \in 1..i : found[j].says # sections[t].says
  <2>1. Distinct(distinct, found, Len(found))
    <3>1. sections # <<>>
      OBVIOUS
    <3>. QED BY <3>1 DEF StatusInv
  <2>2. s \in DOMAIN distinct /\ t \in DOMAIN distinct
    BY <1>1
  <2>3. PICK i \in 1..Len(found) :
          found[i].says = distinct[s].says /\ \A j \in 1..i : found[j].says # distinct[t].says
    BY <1>4, <2>1, <2>2 DEF Distinct
  <2>. QED BY <1>1, <1>3, <2>3
<1>5. ASSUME status = "complete", NEW i \in DOMAIN found
      PROVE  \E s \in DOMAIN sections :
               /\ sections[s].says = found[i].says
               /\ \A t \in DOMAIN sections : sections[t].says = found[i].says => t = s
  <2>1. Distinct(distinct, found, Len(found)) /\ Len(sections) = Len(distinct)
    BY <1>5 DEF StatusInv
  <2>2. PICK s \in DOMAIN distinct : distinct[s].says = found[i].says
    BY <1>1, <2>1 DEF Distinct
  <2>3. s \in DOMAIN sections /\ sections[s].says = found[i].says
    BY <1>1, <1>3, <2>1, <2>2
  <2>4. \A t \in DOMAIN sections : sections[t].says = found[i].says => t = s
    BY <1>1, <1>3, <2>1, <2>2, <2>3 DEF Distinct
  <2>. QED BY <2>3, <2>4
<1>6. status = "omitted" => Len(sections) < Len(distinct) /\ Written >= Total
  BY <1>2 DEF StatusInv
<1>. QED BY <1>2, <1>3, <1>4, <1>5, <1>6 DEF InstructionsFit

(* The instruction files reach the prompt, for any files and any budgets:  *)
(* each text once, the outer before the inner, whole or marked as cut,     *)
(* within the budget but for the marks, or a note says that some are       *)
(* missing (render_instruction_files).                                     *)
THEOREM InstructionsStayFit == InstructionSpec => []InstructionsFit
<1>1. InstructionSpec => []InstructionInv
  BY InstructionsStart, InstructionsStay, PTL DEF InstructionSpec
<1>. QED BY <1>1, InstructionsInvFits, PTL

-----------------------------------------------------------------------------
(* The waits of a policy: each is at most the maximum, and none is shorter *)
(* than the one before.                                                    *)
LEMMA LeastIs ==
  ASSUME NEW a \in Nat, NEW b \in Nat
  PROVE  Least(a, b) \in Nat /\ Least(a, b) <= a /\ Least(a, b) <= b /\ (Least(a, b) = a \/ Least(a, b) = b)
BY DEF Least

LEMMA WaitsGrow ==
  ASSUME NEW p \in Policies
  PROVE  \A n \in 1..MaxShift :
           /\ Backoff(p)[n] \in Nat /\ Backoff(p)[n] <= p.maximum
           /\ n > 1 => Backoff(p)[n - 1] <= Backoff(p)[n]
<1> DEFINE N == MaxShift
           base == Least(p.initial, p.maximum)
           step == [i \in 1..N |-> [a \in Nat |-> Least(2 * a, p.maximum)]]
           First == [i \in 1..N |-> [a \in Nat |-> IF i = 1 THEN base ELSE step[i][a]]]
           Recurs(w) == w = [n \in 1..N |-> IF n = 1 THEN base ELSE Least(2 * w[n - 1], p.maximum)]
<1>1. p.initial \in Nat /\ p.maximum \in Nat /\ N \in Nat /\ N = 32
  BY RequestAssumption DEF MaxShift
<1>2. base \in Nat /\ base <= p.maximum
  BY <1>1, LeastIs
<1>3. \A a \in Nat : Least(2 * a, p.maximum) \in Nat /\ Least(2 * a, p.maximum) <= p.maximum
  <2>1. ASSUME NEW a \in Nat PROVE Least(2 * a, p.maximum) \in Nat /\ Least(2 * a, p.maximum) <= p.maximum
    <3>1. 2 * a \in Nat
      OBVIOUS
    <3>. QED BY <1>1, <3>1, LeastIs
  <2>. QED BY <2>1
<1>4. First \in [1..N -> [Nat -> Nat]]
  BY <1>2, <1>3
<1> HIDE DEF base
<1>5. PICK g \in [0..N -> Nat] : Loops(g, 0, First, N)
  <2>1. 0 \in Nat
    OBVIOUS
  <2> HIDE DEF First, N
  <2>. QED BY <1>1, <1>4, <2>1, LoopExists
<1>6. \A i \in 1..N : g[i] = IF i = 1 THEN base ELSE Least(2 * g[i - 1], p.maximum)
  <2> TAKE i \in 1..N
  <2>1. g[i] = First[i][g[i - 1]]
    <3> HIDE DEF First
    <3>. QED BY <1>5 DEF Loops
  <2>2. i - 1 \in 0..N
    BY <1>1
  <2>3. g[i - 1] \in Nat
    <3> HIDE DEF N
    <3>. QED BY <1>5, <2>2
  <2>. QED BY <2>1, <2>3
<1>7. \E w : Recurs(w)
  <2> DEFINE w == [n \in 1..N |-> g[n]]
  <2>1. ASSUME NEW n \in 1..N PROVE w[n] = IF n = 1 THEN base ELSE Least(2 * w[n - 1], p.maximum)
    <3>1. CASE n = 1
      BY <1>6, <3>1
    <3>2. CASE n # 1
      <4>1. n - 1 \in 1..N
        BY <1>1, <3>2
      <4>. QED BY <1>6, <3>2, <4>1
    <3>. QED BY <3>1, <3>2
  <2>2. Recurs(w)
    <3>1. w = [n \in 1..N |-> w[n]]
      OBVIOUS
    <3> HIDE DEF w
    <3>. QED BY <2>1, <3>1
  <2>. QED BY <2>2
<1> DEFINE wait == CHOOSE w : Recurs(w)
<1>8. Backoff(p) = wait
  BY DEF Backoff, base
<1> HIDE DEF Recurs
<1>9. Recurs(wait)
  BY <1>7
<1> HIDE DEF wait
<1>10. \A n \in 1..N : wait[n] = IF n = 1 THEN base ELSE Least(2 * wait[n - 1], p.maximum)
  BY <1>9 DEF Recurs
<1> DEFINE S == {n \in Nat : n + 1 \in 1..N => wait[n + 1] \in Nat /\ wait[n + 1] <= p.maximum}
<1>11. \A n \in Nat : n \in S
  <2>1. 0 \in S
    BY <1>1, <1>2, <1>10
  <2>2. ASSUME NEW n \in Nat, n \in S PROVE n + 1 \in S
    <3> SUFFICES ASSUME (n + 1) + 1 \in 1..N
                 PROVE  wait[(n + 1) + 1] \in Nat /\ wait[(n + 1) + 1] <= p.maximum
      OBVIOUS
    <3>1. n + 1 \in 1..N /\ (n + 1) + 1 # 1 /\ ((n + 1) + 1) - 1 = n + 1
      BY <1>1
    <3>2. wait[n + 1] \in Nat
      BY <2>2, <3>1
    <3>3. wait[(n + 1) + 1] = Least(2 * wait[n + 1], p.maximum)
      BY <1>10, <3>1
    <3>. QED BY <1>3, <3>2, <3>3
  <2> HIDE DEF S
  <2>. QED BY <2>1, <2>2, SetInduction
<1>12. ASSUME NEW n \in 1..N
       PROVE  /\ wait[n] \in Nat /\ wait[n] <= p.maximum
              /\ n > 1 => wait[n - 1] <= wait[n]
  <2>1. n - 1 \in Nat /\ (n - 1) + 1 = n
    BY <1>1
  <2>2. wait[n] \in Nat /\ wait[n] <= p.maximum
    BY <1>11, <2>1
  <2>3. ASSUME n > 1 PROVE wait[n - 1] <= wait[n]
    <3>1. n - 1 \in 1..N /\ (n - 1) - 1 \in Nat /\ ((n - 1) - 1) + 1 = n - 1
      BY <1>1, <2>3
    <3>2. wait[n - 1] \in Nat /\ wait[n - 1] <= p.maximum
      BY <1>11, <3>1
    <3>3. wait[n] = Least(2 * wait[n - 1], p.maximum)
      BY <1>10, <2>3
    <3>4. wait[n] = 2 * wait[n - 1] \/ wait[n] = p.maximum
      BY <3>3 DEF Least
    <3>. QED BY <1>1, <3>2, <3>4
  <2>. QED BY <2>2, <2>3
<1>. QED BY <1>8, <1>12

-----------------------------------------------------------------------------
(* What is counted: the waits are the attempts but for one that ended it;  *)
(* while it goes on, the retries are not used up.                          *)
CountsInv ==
  /\ policy \in Policies /\ attempts \in Nat /\ slept \in Seq(Nat)
  /\ doing # "done" => attempts <= policy.retries /\ result = Untold
  /\ attempts <= policy.retries + 1
  /\ doing = "sleep" => failure \in {"connection", "busy"}
  /\ retried \subseteq {"connection", "busy"}
  /\ Len(slept) = attempts - (IF result.kind \in Failed THEN 1 ELSE 0)
  /\ \A i \in 1..Len(slept) : i <= MaxShift /\ slept[i] = Backoff(policy)[i]

(* The provider has answered once when a stream is read, and once when the *)
(* reply is asked for as a whole, the stream having told nothing.          *)
AnswersInv ==
  /\ doing \in {"send", "sleep", "read", "done"} /\ form \in {"stream", "whole"} /\ answers \in Nat
  /\ doing \in {"send", "sleep"} => answers <= (IF form = "whole" THEN 1 ELSE 0)
  /\ doing = "read" => form = "stream"
  /\ answers <= (IF form = "whole" THEN 2 ELSE 1)
  /\ form = "whole" => ~ Useful(got)

ToldInv ==
  /\ result.kind \in {"failed", "exhausted"} => result.last = failure
  /\ result.kind = "exhausted" => result.attempts = policy.retries + 1
  /\ result.kind = "overflow" => policy.retries > MaxShift

RequestInv == CountsInv /\ AnswersInv /\ ToldInv

USE DEF Failed, Untold

LEMMA RequestStarts == RequestInit => RequestInv
<1> SUFFICES ASSUME RequestInit PROVE RequestInv
  OBVIOUS
<1>1. /\ policy \in Policies /\ policy.retries \in Nat /\ attempts = 0 /\ slept = <<>>
      /\ doing = "send" /\ form = "stream" /\ retried = {} /\ answers = 0 /\ result = [kind |-> "none"]
  BY RequestAssumption DEF RequestInit
<1>2. /\ slept \in Seq(Nat) /\ Len(slept) = 0 /\ \A i \in 1..Len(slept) : FALSE
  BY <1>1
<1>3. CountsInv
  <2>1. result.kind \notin Failed /\ Len(slept) = attempts - 0
    BY <1>1, <1>2
  <2>2. Len(slept) = attempts - (IF result.kind \in Failed THEN 1 ELSE 0)
    BY <2>1
  <2>3. attempts \in Nat /\ attempts <= policy.retries /\ attempts <= policy.retries + 1 /\ result = Untold
    BY <1>1
  <2>. QED BY <1>1, <1>2, <2>2, <2>3 DEF CountsInv
<1>4. AnswersInv /\ ToldInv
  BY <1>1 DEF AnswersInv, ToldInv
<1>. QED BY <1>3, <1>4 DEF RequestInv

LEMMA FailureStep ==
  ASSUME RequestInv, NEW f \in Failures, AttemptFails(f)
  PROVE  RequestInv'
<1> DEFINE n == attempts + 1
           r == policy.retries
<1>1. /\ policy \in Policies /\ attempts \in Nat /\ n \in Nat /\ r \in Nat /\ attempts <= r
      /\ slept \in Seq(Nat) /\ Len(slept) = attempts /\ result = Untold
      /\ doing = "send" /\ policy' = policy /\ style' = style /\ form' = form /\ got' = got /\ answers' = answers
      /\ retried' = retried /\ attempts' = n /\ failure' = f /\ MaxShift \in Nat
  BY RequestAssumption DEF RequestInv, CountsInv, AttemptFails, stream, MaxShift
<1>2. /\ retried \subseteq {"connection", "busy"}
      /\ \A i \in 1..Len(slept) : i <= MaxShift /\ slept[i] = Backoff(policy)[i]
  BY DEF RequestInv, CountsInv
<1>3. \/ /\ doing' = "done" /\ slept' = slept
         /\ \/ result' = [kind |-> "failed", last |-> f]
            \/ n > r /\ result' = [kind |-> "exhausted", attempts |-> n, last |-> f]
            \/ n <= r /\ n > MaxShift /\ result' = [kind |-> "overflow", attempts |-> n]
      \/ /\ f \in {"connection", "busy"} /\ n <= r /\ n <= MaxShift
         /\ doing' = "sleep" /\ slept' = Append(slept, Backoff(policy)[n]) /\ result' = result
  BY <1>1 DEF AttemptFails, GiveUp, Tell, OutOfRetries, Retryable, Failures
<1>4. AnswersInv'
  <2>1. AnswersInv /\ doing' \in {"done", "sleep"}
    BY <1>3 DEF RequestInv
  <2>. QED BY <1>1, <2>1 DEF AnswersInv, Useful
<1>5. CASE doing' = "done"
  <2>1. /\ slept' = slept
        /\ \/ result' = [kind |-> "failed", last |-> f]
           \/ n > r /\ result' = [kind |-> "exhausted", attempts |-> n, last |-> f]
           \/ n <= r /\ n > MaxShift /\ result' = [kind |-> "overflow", attempts |-> n]
    BY <1>3, <1>5
  <2>2. result'.kind \in Failed
    BY <2>1
  <2>3. CountsInv'
    BY <1>1, <1>2, <1>5, <2>1, <2>2 DEF CountsInv
  <2>4. ToldInv'
    BY <1>1, <2>1 DEF ToldInv
  <2>. QED BY <1>4, <2>3, <2>4 DEF RequestInv
<1>6. CASE doing' # "done"
  <2>1. /\ f \in {"connection", "busy"} /\ n <= r /\ n <= MaxShift
        /\ doing' = "sleep" /\ slept' = Append(slept, Backoff(policy)[n]) /\ result' = result
    BY <1>3, <1>6
  <2>2. Backoff(policy)[n] \in Nat
    BY <1>1, <2>1, WaitsGrow
  <2>3. /\ slept' \in Seq(Nat) /\ Len(slept') = n
        /\ \A i \in 1..n : i <= MaxShift /\ slept'[i] = Backoff(policy)[i]
    <3>1. /\ slept' \in Seq(Nat) /\ Len(slept') = Len(slept) + 1 /\ slept'[Len(slept) + 1] = Backoff(policy)[n]
          /\ \A i \in 1..Len(slept) : slept'[i] = slept[i]
      BY <1>1, <2>1, <2>2, AppendProperties
    <3>2. \A i \in 1..n : i \in 1..Len(slept) \/ i = n
      BY <1>1
    <3>. QED BY <1>1, <1>2, <2>1, <3>1, <3>2
  <2>4. CountsInv'
    BY <1>1, <1>2, <2>1, <2>3 DEF CountsInv
  <2>5. ToldInv'
    BY <1>1, <2>1 DEF ToldInv
  <2>. QED BY <1>4, <2>4, <2>5 DEF RequestInv
<1>. QED BY <1>5, <1>6

LEMMA WakeStep ==
  ASSUME RequestInv, Wake
  PROVE  RequestInv'
<1>1. CountsInv'
  BY DEF RequestInv, CountsInv, Wake
<1>2. AnswersInv' /\ ToldInv'
  BY DEF RequestInv, CountsInv, AnswersInv, ToldInv, Wake, stream, Useful
<1>. QED BY <1>1, <1>2 DEF RequestInv

LEMMA BeginStep ==
  ASSUME RequestInv, NEW fs, NEW end, StreamBegins(fs, end)
  PROVE  RequestInv'
<1>1. CountsInv'
  BY DEF RequestInv, CountsInv, StreamBegins, trying
<1>2. AnswersInv' /\ ToldInv'
  BY DEF RequestInv, AnswersInv, ToldInv, StreamBegins, trying, Useful
<1>. QED BY <1>1, <1>2 DEF RequestInv

LEMMA ReceiveStep ==
  ASSUME RequestInv, NEW n, Receive(n)
  PROVE  RequestInv'
<1>1. CountsInv'
  BY DEF RequestInv, CountsInv, Receive, request, trying
<1>2. AnswersInv' /\ ToldInv'
  BY DEF RequestInv, AnswersInv, ToldInv, Receive, request, trying
<1>. QED BY <1>1, <1>2 DEF RequestInv

(* What ends a request with something else than a failure of its attempts. *)
LEMMA EndStep ==
  ASSUME RequestInv, StreamIsCut \/ StreamBreaks \/ WholeReply
  PROVE  RequestInv'
<1>1. /\ UNCHANGED <<policy, style, form, attempts, failure, retried, slept, got>>
      /\ doing' = "done" /\ doing # "done" /\ result'.kind \in {"unreadable", "broken", "reply"}
      /\ answers' = answers \/ (answers' = answers + 1 /\ doing = "send" /\ form = "whole")
  BY DEF StreamIsCut, StreamBreaks, WholeReply, Tell, trying, stream
<1>2. CountsInv'
  BY <1>1 DEF RequestInv, CountsInv
<1>3. AnswersInv' /\ ToldInv'
  BY <1>1 DEF RequestInv, AnswersInv, ToldInv, Useful
<1>. QED BY <1>2, <1>3 DEF RequestInv

LEMMA StreamEndStep ==
  ASSUME RequestInv, StreamEnds
  PROVE  RequestInv'
<1>0. /\ UNCHANGED <<policy, style, answers>> /\ doing = "read" /\ form = "stream" /\ result = Untold
      /\ policy.retries \in Nat
  BY RequestAssumption DEF StreamEnds, RequestInv, CountsInv, AnswersInv
<1>1. CASE Useful(got')
  <2>1. /\ UNCHANGED <<form, attempts, failure, retried, slept>>
        /\ doing' = "done" /\ result' = [kind |-> "reply"]
    BY <1>1 DEF StreamEnds, Tell, trying
  <2>2. CountsInv'
    BY <1>0, <2>1 DEF RequestInv, CountsInv
  <2>3. AnswersInv' /\ ToldInv'
    BY <1>0, <2>1 DEF RequestInv, AnswersInv, ToldInv
  <2>. QED BY <2>2, <2>3 DEF RequestInv
<1>2. CASE ~ Useful(got')
  <2>1. /\ form' = "whole" /\ doing' = "send" /\ result' = result
        /\ attempts' = 0 /\ retried' = {} /\ slept' = <<>>
    BY <1>2 DEF StreamEnds
  <2>2. CountsInv'
    <3>1. /\ slept' \in Seq(Nat) /\ Len(slept') = 0 /\ \A i \in 1..Len(slept') : FALSE
      BY <2>1
    <3>2. policy' \in Policies /\ policy'.retries \in Nat /\ doing' = "send" /\ result' = Untold
      BY <1>0, <2>1 DEF RequestInv, CountsInv
    <3>3. result'.kind \notin Failed /\ Len(slept') = attempts' - 0
      BY <2>1, <3>1, <3>2
    <3>4. Len(slept') = attempts' - (IF result'.kind \in Failed THEN 1 ELSE 0)
      BY <3>3
    <3>5. attempts' \in Nat /\ attempts' <= policy'.retries /\ attempts' <= policy'.retries + 1 /\ retried' = {}
      BY <2>1, <3>2
    <3>. QED BY <3>1, <3>2, <3>4, <3>5 DEF CountsInv
  <2>3. ~ Useful(got)'
    BY <1>0, <1>2 DEF Useful
  <2>4. AnswersInv' /\ ToldInv'
    BY <1>0, <2>1, <2>3 DEF RequestInv, AnswersInv, ToldInv
  <2>. QED BY <2>2, <2>4 DEF RequestInv
<1>. QED BY <1>1, <1>2

LEMMA RequestStays == RequestInv /\ [RequestNext]_requestVars => RequestInv'
<1> SUFFICES ASSUME RequestInv, [RequestNext]_requestVars PROVE RequestInv'
  OBVIOUS
<1>1. CASE UNCHANGED requestVars
  <2>1. CountsInv'
    BY <1>1 DEF RequestInv, CountsInv, requestVars, request, trying
  <2>2. AnswersInv' /\ ToldInv'
    BY <1>1 DEF RequestInv, AnswersInv, ToldInv, requestVars, request, trying, stream, Useful
  <2>. QED BY <2>1, <2>2 DEF RequestInv
<1>2. CASE RequestNext
  BY <1>2, FailureStep, WakeStep, BeginStep, ReceiveStep, EndStep, StreamEndStep DEF RequestNext
<1>. QED BY <1>1, <1>2

LEMMA RequestInvHonest == RequestInv => RetriesAreHonest
<1> SUFFICES ASSUME RequestInv PROVE RetriesAreHonest
  OBVIOUS
<1>1. ASSUME NEW i \in DOMAIN slept
      PROVE  slept[i] <= policy.maximum /\ (i > 1 => slept[i - 1] <= slept[i])
  <2>1. policy \in Policies /\ i \in 1..Len(slept) /\ i \in 1..MaxShift /\ slept[i] = Backoff(policy)[i]
    <3>1. i \in 1..Len(slept) /\ policy \in Policies
      BY DEF RequestInv, CountsInv
    <3>2. i <= MaxShift /\ slept[i] = Backoff(policy)[i]
      BY <3>1 DEF RequestInv, CountsInv
    <3>3. i \in Nat /\ i >= 1
      BY <3>1 DEF RequestInv, CountsInv
    <3>4. i \in 1..MaxShift
      BY <3>2, <3>3 DEF MaxShift
    <3>. QED BY <3>1, <3>2, <3>4
  <2>2. i > 1 => slept[i - 1] = Backoff(policy)[i - 1]
    BY <2>1 DEF RequestInv, CountsInv
  <2>. QED BY <2>1, <2>2, WaitsGrow
<1>. QED BY <1>1 DEF RequestInv, CountsInv, AnswersInv, ToldInv, RetriesAreHonest

(* Retries are honest, for any policies and replies: only what may pass is *)
(* tried again, as often as the policy says, with growing waits, never     *)
(* after an answer that told something; and the caller is told so.         *)
THEOREM RetriesStayHonest == RequestSpec => []RetriesAreHonest
<1>1. RequestSpec => []RequestInv
  BY RequestStarts, RequestStays, PTL DEF RequestSpec
<1>. QED BY <1>1, RequestInvHonest, PTL

-----------------------------------------------------------------------------
(* FlattenSeq joins the sequences one after the other.                     *)
Joined(seqs) ==
  CHOOSE f : f = [i \in 1..Len(seqs) |-> IF i = 1 THEN seqs[i] ELSE f[i - 1] \o seqs[i]]

LEMMA FlattenIsJoined ==
  \A seqs : FlattenSeq(seqs) = IF Len(seqs) = 0 THEN seqs ELSE Joined(seqs)[Len(seqs)]
BY DEF FlattenSeq, Joined

(* A set closed under concatenation holds what joins its members.          *)
LEMMA JoinedSteps ==
  ASSUME NEW S, \A a, b \in S : a \o b \in S, NEW seqs \in Seq(S)
  PROVE  /\ Joined(seqs) \in [1..Len(seqs) -> S]
         /\ \A i \in 1..Len(seqs) :
              Joined(seqs)[i] = IF i = 1 THEN seqs[i] ELSE Joined(seqs)[i - 1] \o seqs[i]
<1> DEFINE N == Len(seqs)
           Joins(f, n) == f = [i \in 1..n |-> IF i = 1 THEN seqs[i] ELSE f[i - 1] \o seqs[i]]
           Exists(n) == \E f \in [1..n -> S] : Joins(f, n)
           Fine == {n \in Nat : n <= N => Exists(n)}
<1>0. N \in Nat /\ \A i \in 1..N : seqs[i] \in S
  OBVIOUS
<1>1. Exists(0)
  <2> DEFINE f == [i \in 1..0 |-> <<>>]
  <2>1. f \in [1..0 -> S] /\ Joins(f, 0)
    OBVIOUS
  <2>. QED BY <2>1
<1>2. ASSUME NEW n \in Nat, n + 1 <= N, Exists(n) PROVE Exists(n + 1)
  <2>1. PICK f \in [1..n -> S] : Joins(f, n)
    BY <1>2
  <2> DEFINE new == IF n = 0 THEN seqs[n + 1] ELSE f[n] \o seqs[n + 1]
             h == [i \in 1..(n + 1) |-> IF i = n + 1 THEN new ELSE f[i]]
  <2>2. n + 1 \in 1..N
    BY <1>0, <1>2
  <2>3. seqs[n + 1] \in S
    BY <1>0, <2>2
  <2>3a. new \in S
    <3>1. CASE n = 0
      BY <2>3, <3>1
    <3>2. CASE n # 0
      <4>1. f[n] \in S
        BY <2>1, <3>2
      <4>. QED BY <2>3, <3>2, <4>1
    <3>. QED BY <3>1, <3>2
  <2> HIDE DEF new
  <2>4. h \in [1..(n + 1) -> S]
    <3>1. ASSUME NEW i \in 1..(n + 1) PROVE (IF i = n + 1 THEN new ELSE f[i]) \in S
      <4>1. i = n + 1 \/ i \in 1..n
        OBVIOUS
      <4>. QED BY <2>1, <2>3a, <4>1
    <3>. QED BY <3>1
  <2>5. ASSUME NEW i \in 1..(n + 1) PROVE h[i] = IF i = 1 THEN seqs[i] ELSE h[i - 1] \o seqs[i]
    <3>1. CASE i = n + 1
      <4>1. n # 0 => h[n] = f[n]
        OBVIOUS
      <4>. QED BY <3>1, <4>1 DEF new
    <3>2. CASE i # n + 1
      <4>1. i \in 1..n /\ h[i] = f[i] /\ (i # 1 => h[i - 1] = f[i - 1])
        BY <3>2
      <4>2. f[i] = IF i = 1 THEN seqs[i] ELSE f[i - 1] \o seqs[i]
        BY <2>1, <4>1
      <4>. QED BY <4>1, <4>2
    <3>. QED BY <3>1, <3>2
  <2>6. Joins(h, n + 1)
    <3>1. h = [i \in 1..(n + 1) |-> h[i]]
      OBVIOUS
    <3> HIDE DEF h
    <3>. QED BY <2>5, <3>1
  <2>. QED BY <2>4, <2>6
<1> HIDE DEF Exists
<1>3. 0 \in Fine /\ \A n \in Nat : n \in Fine => n + 1 \in Fine
  BY <1>1, <1>2
<1>4. N \in Fine
  <2> HIDE DEF Fine
  <2>. QED BY <1>0, <1>3, SetInduction
<1>5. Exists(N)
  BY <1>0, <1>4
<1>6. PICK f \in [1..N -> S] : Joins(f, N)
  BY <1>5 DEF Exists
<1>7. Joins(Joined(seqs), N)
  <2> HIDE DEF Joins
  <2>1. Joined(seqs) = CHOOSE g : Joins(g, N)
    BY DEF Joined, Joins
  <2>. QED BY <1>6, <2>1
<1>8. \A i \in 1..N : Joined(seqs)[i] = IF i = 1 THEN seqs[i] ELSE Joined(seqs)[i - 1] \o seqs[i]
  BY <1>7
<1>9. Joined(seqs) \in [1..N -> S]
  <2> DEFINE R == {n \in Nat : n \in 1..N => Joined(seqs)[n] \in S}
  <2>1. 0 \in R
    OBVIOUS
  <2>2. ASSUME NEW n \in Nat, n \in R PROVE n + 1 \in R
    <3> SUFFICES ASSUME n + 1 \in 1..N PROVE Joined(seqs)[n + 1] \in S
      OBVIOUS
    <3>1. seqs[n + 1] \in S
      BY <1>0
    <3>2. CASE n = 0
      BY <1>8, <3>1, <3>2
    <3>3. CASE n # 0
      <4>1. n \in 1..N /\ (n + 1) - 1 = n /\ n + 1 # 1
        BY <1>0, <3>3
      <4>2. Joined(seqs)[n] \in S
        BY <2>2, <4>1
      <4>3. Joined(seqs)[n + 1] = Joined(seqs)[n] \o seqs[n + 1]
        BY <1>8, <4>1
      <4>. QED BY <3>1, <4>2, <4>3
    <3>. QED BY <3>2, <3>3
  <2>3. \A n \in Nat : n \in R
    <3> HIDE DEF R
    <3>. QED BY <2>1, <2>2, SetInduction
  <2>4. \A n \in 1..N : Joined(seqs)[n] \in S
    BY <1>0, <2>3
  <2>5. Joined(seqs) = [n \in 1..N |-> Joined(seqs)[n]]
    BY <1>7
  <2>. QED BY <2>4, <2>5
<1>. QED BY <1>8, <1>9

(* A sequence has a member.                                                *)
Has(s, x) == \E j \in 1..Len(s) : s[j] = x

(* Of two sequences, one after the other, each member is of one.           *)
LEMMA HasConcat ==
  ASSUME NEW A, NEW a \in Seq(A), NEW b \in Seq(A), NEW x
  PROVE  Has(a \o b, x) <=> Has(a, x) \/ Has(b, x)
<1> DEFINE K == Len(a)
           L == Len(b)
           c == a \o b
<1>1. K \in Nat /\ L \in Nat /\ Len(c) = K + L
  OBVIOUS
<1>2. (\A j \in 1..K : c[j] = a[j]) /\ \A j \in 1..L : c[K + j] = b[j]
  OBVIOUS
<1> HIDE DEF K, L, c
<1>3. ASSUME NEW j \in 1..(K + L), c[j] = x
      PROVE  (\E m \in 1..K : a[m] = x) \/ (\E m \in 1..L : b[m] = x)
  <2>1. CASE j \in 1..K
    BY <1>2, <1>3, <2>1
  <2>2. CASE j \notin 1..K
    <3>1. j - K \in 1..L /\ K + (j - K) = j
      BY <1>1, <2>2
    <3>. QED BY <1>2, <1>3, <3>1
  <2>. QED BY <2>1, <2>2
<1>4. \A m \in 1..K : m \in 1..(K + L)
  BY <1>1
<1>5. \A m \in 1..L : K + m \in 1..(K + L)
  BY <1>1
<1>6. (\E j \in 1..(K + L) : c[j] = x) <=> (\E m \in 1..K : a[m] = x) \/ (\E m \in 1..L : b[m] = x)
  BY <1>2, <1>3, <1>4, <1>5
<1>. QED BY <1>1, <1>6 DEF K, L, c, Has

(* What is joined has the members of all, and of no other.                 *)
LEMMA FlattenIs ==
  ASSUME NEW A, NEW seqs \in Seq(Seq(A))
  PROVE  /\ FlattenSeq(seqs) \in Seq(A)
         /\ \A x : Has(FlattenSeq(seqs), x) <=> \E i \in 1..Len(seqs) : Has(seqs[i], x)
<1> DEFINE N == Len(seqs)
           J == Joined(seqs)
           All(n) == \A x : Has(J[n], x) <=> \E i \in 1..n : Has(seqs[i], x)
           R == {n \in Nat : n \in 1..N => All(n)}
<1>1. N \in Nat /\ \A i \in 1..N : seqs[i] \in Seq(A)
  OBVIOUS
<1>2. \A a, b \in Seq(A) : a \o b \in Seq(A)
  OBVIOUS
<1>3. /\ J \in [1..N -> Seq(A)]
      /\ \A i \in 1..N : J[i] = IF i = 1 THEN seqs[i] ELSE J[i - 1] \o seqs[i]
  BY <1>2, JoinedSteps
<1>4. \A a, b \in Seq(A) : \A x : Has(a \o b, x) <=> Has(a, x) \/ Has(b, x)
  BY HasConcat
<1> HIDE DEF J
<1>5. 0 \in R
  OBVIOUS
<1>6. ASSUME NEW n \in Nat, n \in R PROVE n + 1 \in R
  <2>1. ASSUME n + 1 \in 1..N PROVE All(n + 1)
    <3>1. CASE n = 0
      <4>1. n + 1 = 1 /\ 1 \in 1..N
        BY <2>1, <3>1
      <4>2. J[1] = seqs[1]
        BY <1>3, <4>1
      <4>3. 1..1 = {1}
        OBVIOUS
      <4>. QED BY <4>1, <4>2, <4>3
    <3>2. CASE n # 0
      <4>1. n \in 1..N /\ (n + 1) - 1 = n /\ n + 1 # 1 /\ 1..(n + 1) = (1..n) \cup {n + 1}
        BY <1>1, <2>1, <3>2
      <4>2. J[n + 1] = J[n] \o seqs[n + 1]
        BY <1>3, <2>1, <4>1
      <4>3. J[n] \in Seq(A) /\ seqs[n + 1] \in Seq(A)
        BY <1>1, <1>3, <2>1, <4>1
      <4>4. All(n)
        BY <1>6, <4>1
      <4>. QED BY <1>4, <4>1, <4>2, <4>3, <4>4
    <3>. QED BY <3>1, <3>2
  <2> HIDE DEF All
  <2>. QED BY <2>1
<1>7. N \in R
  <2>1. \A n \in Nat : n \in R
    <3> HIDE DEF R
    <3>. QED BY <1>5, <1>6, SetInduction
  <2>. QED BY <1>1, <2>1
<1>8. CASE N = 0
  <2>1. seqs = <<>>
    BY <1>8
  <2>2. FlattenSeq(seqs) = <<>>
    BY <1>8, <2>1, FlattenIsJoined
  <2>. QED BY <1>8, <2>2 DEF Has
<1>9. CASE N # 0
  <2>1. N \in 1..N
    BY <1>1, <1>9
  <2>2. FlattenSeq(seqs) = J[N]
    BY <1>9, FlattenIsJoined DEF J
  <2>3. All(N)
    BY <1>1, <1>7, <2>1
  <2>4. J[N] \in Seq(A)
    BY <1>3, <2>1
  <2>. QED BY <2>2, <2>3, <2>4
<1>. QED BY <1>8, <1>9

(* One more is joined at the end.                                          *)
LEMMA FlattenGrows ==
  ASSUME NEW A, NEW seqs \in Seq(Seq(A)), NEW s \in Seq(A)
  PROVE  FlattenSeq(Append(seqs, s)) = FlattenSeq(seqs) \o s
<1> DEFINE N == Len(seqs)
           more == Append(seqs, s)
           J == Joined(seqs)
           K == Joined(more)
           R == {n \in Nat : n \in 1..N => K[n] = J[n]}
<1>1. /\ N \in Nat /\ more \in Seq(Seq(A)) /\ Len(more) = N + 1
      /\ (\A i \in 1..N : more[i] = seqs[i]) /\ more[N + 1] = s
  OBVIOUS
<1>2. \A a, b \in Seq(A) : a \o b \in Seq(A)
  OBVIOUS
<1>3. \A i \in 1..N : J[i] = IF i = 1 THEN seqs[i] ELSE J[i - 1] \o seqs[i]
  BY <1>2, JoinedSteps
<1>4. \A i \in 1..(N + 1) : K[i] = IF i = 1 THEN more[i] ELSE K[i - 1] \o more[i]
  <2> HIDE DEF more, N
  <2>. QED BY <1>1, <1>2, JoinedSteps
<1>5. FlattenSeq(more) = K[N + 1]
  <2>1. FlattenSeq(more) = IF Len(more) = 0 THEN more ELSE K[Len(more)]
    BY FlattenIsJoined
  <2> HIDE DEF more, K, N
  <2>. QED BY <1>1, <2>1
<1> HIDE DEF more, J, K
<1>6. 0 \in R
  OBVIOUS
<1>7. ASSUME NEW n \in Nat, n \in R PROVE n + 1 \in R
  <2> SUFFICES ASSUME n + 1 \in 1..N PROVE K[n + 1] = J[n + 1]
    OBVIOUS
  <2>1. n + 1 \in 1..(N + 1) /\ more[n + 1] = seqs[n + 1] /\ (n + 1) - 1 = n
    BY <1>1
  <2>2. CASE n = 0
    BY <1>3, <1>4, <2>1, <2>2
  <2>3. CASE n # 0
    <3>1. n \in 1..N /\ n + 1 # 1
      BY <1>1, <2>3
    <3>2. K[n] = J[n]
      BY <1>7, <3>1
    <3>. QED BY <1>3, <1>4, <2>1, <3>1, <3>2
  <2>. QED BY <2>2, <2>3
<1>8. N \in R
  <2>1. \A n \in Nat : n \in R
    <3> HIDE DEF R
    <3>. QED BY <1>6, <1>7, SetInduction
  <2>. QED BY <1>1, <2>1
<1>9. CASE N = 0
  <2>1. seqs = <<>>
    BY <1>9
  <2>2. FlattenSeq(seqs) = <<>>
    BY <1>9, <2>1, FlattenIsJoined
  <2>3. K[N + 1] = s
    BY <1>1, <1>4, <1>9
  <2>4. <<>> \o s = s
    BY ConcatEmptySeq
  <2>. QED BY <1>5, <2>2, <2>3, <2>4 DEF more
<1>10. CASE N # 0
  <2>1. N \in 1..N /\ N + 1 \in 1..(N + 1) /\ N + 1 # 1 /\ (N + 1) - 1 = N
    BY <1>1, <1>10
  <2>2. FlattenSeq(seqs) = J[N]
    BY <1>10, FlattenIsJoined DEF J
  <2>3. K[N + 1] = K[N] \o s
    BY <1>1, <1>4, <2>1
  <2>4. K[N] = J[N]
    BY <1>8, <2>1
  <2>. QED BY <1>5, <2>2, <2>3, <2>4 DEF more
<1>. QED BY <1>9, <1>10

(* A beginning, and the one that is one longer.                            *)
LEMMA PrefixGrows ==
  ASSUME NEW X, NEW s \in Seq(X), NEW n \in Nat, n + 1 <= Len(s)
  PROVE  /\ SubSeq(s, 1, n) \in Seq(X) /\ SubSeq(s, 1, n + 1) \in Seq(X) /\ s[n + 1] \in X
         /\ SubSeq(s, 1, n + 1) = Append(SubSeq(s, 1, n), s[n + 1])
<1> DEFINE a == SubSeq(s, 1, n)
           b == SubSeq(s, 1, n + 1)
           c == Append(a, s[n + 1])
<1>1. Len(s) \in Nat /\ s[n + 1] \in X
  OBVIOUS
<1>2. a \in Seq(X) /\ Len(a) = n /\ \A i \in 1..n : a[i] = s[i]
  BY <1>1
<1>3. b \in Seq(X) /\ Len(b) = n + 1 /\ \A i \in 1..(n + 1) : b[i] = s[i]
  BY <1>1
<1> HIDE DEF a, b
<1>4. c \in Seq(X) /\ Len(c) = n + 1 /\ c[n + 1] = s[n + 1] /\ \A i \in 1..n : c[i] = a[i]
  BY <1>1, <1>2
<1> HIDE DEF c
<1>5. \A i \in 1..(n + 1) : b[i] = c[i]
  BY <1>2, <1>3, <1>4
<1>6. b = c
  BY <1>3, <1>4, <1>5, SeqEqual
<1>. QED BY <1>1, <1>2, <1>3, <1>6 DEF a, b, c

-----------------------------------------------------------------------------
(* A set of sequences that has the empty one, and with a sequence all that *)
(* is one longer, has all.                                                 *)
LEMMA PrefixInduction ==
  ASSUME NEW X, NEW T, <<>> \in T, \A s \in Seq(X), x \in X : s \in T => Append(s, x) \in T
  PROVE  \A s \in Seq(X) : s \in T
<1> SUFFICES ASSUME NEW s \in Seq(X) PROVE s \in T
  OBVIOUS
<1> DEFINE N == Len(s)
           S == {n \in Nat : n <= N => SubSeq(s, 1, n) \in T}
<1>1. N \in Nat
  OBVIOUS
<1>2. 0 \in S
  <2>1. SubSeq(s, 1, 0) = <<>>
    OBVIOUS
  <2>. QED BY <2>1
<1>3. ASSUME NEW n \in Nat, n \in S PROVE n + 1 \in S
  <2> SUFFICES ASSUME n + 1 <= N PROVE SubSeq(s, 1, n + 1) \in T
    OBVIOUS
  <2>1. SubSeq(s, 1, n) \in T
    BY <1>1, <1>3
  <2>2. /\ SubSeq(s, 1, n) \in Seq(X) /\ s[n + 1] \in X
        /\ SubSeq(s, 1, n + 1) = Append(SubSeq(s, 1, n), s[n + 1])
    BY PrefixGrows
  <2>. QED BY <2>1, <2>2
<1>4. N \in S
  <2> HIDE DEF S
  <2>. QED BY <1>1, <1>2, <1>3, SetInduction
<1>5. SubSeq(s, 1, N) = s
  BY SubSeqFull
<1>6. SubSeq(s, 1, N) \in T
  BY <1>1, <1>4
<1>. QED BY <1>5, <1>6

(* What is seen of a sequence: what is seen of its members, joined.        *)
View(v, s) == FlattenSeq([i \in DOMAIN s |-> v[s[i]]])

LEMMA NothingJoined == FlattenSeq(<<>>) = <<>>
BY FlattenIsJoined

LEMMA ViewEmpty == \A v : View(v, <<>>) = <<>>
<1> SUFFICES ASSUME NEW v PROVE View(v, <<>>) = <<>>
  OBVIOUS
<1>1. [i \in DOMAIN <<>> |-> v[<<>>[i]]] = <<>>
  OBVIOUS
<1>. QED BY <1>1, NothingJoined DEF View

LEMMA ViewType ==
  ASSUME NEW X, NEW A, NEW v \in [X -> Seq(A)], NEW s \in Seq(X)
  PROVE  View(v, s) \in Seq(A)
<1> DEFINE seen == [i \in DOMAIN s |-> v[s[i]]]
<1>1. DOMAIN s = 1..Len(s) /\ \A i \in 1..Len(s) : v[s[i]] \in Seq(A)
  OBVIOUS
<1>2. seen \in Seq(Seq(A))
  BY <1>1
<1>3. View(v, s) = FlattenSeq(seen)
  BY DEF View
<1> HIDE DEF seen
<1>. QED BY <1>2, <1>3, FlattenIs

LEMMA ViewAppend ==
  ASSUME NEW X, NEW A, NEW v \in [X -> Seq(A)], NEW s \in Seq(X), NEW x \in X
  PROVE  View(v, Append(s, x)) = View(v, s) \o v[x]
<1> DEFINE t == Append(s, x)
           seen(u) == [i \in DOMAIN u |-> v[u[i]]]
<1>1. /\ t \in Seq(X) /\ Len(t) = Len(s) + 1 /\ t[Len(s) + 1] = x /\ \A i \in 1..Len(s) : t[i] = s[i]
      /\ DOMAIN t = 1..(Len(s) + 1) /\ DOMAIN s = 1..Len(s) /\ Len(s) \in Nat
  OBVIOUS
<1> HIDE DEF t
<1> DEFINE a == seen(s)
           b == seen(t)
           c == Append(a, v[x])
<1>2. \A i \in 1..Len(s) : v[s[i]] \in Seq(A)
  OBVIOUS
<1>3. \A i \in 1..(Len(s) + 1) : v[t[i]] \in Seq(A)
  BY <1>1
<1>4. a \in Seq(Seq(A)) /\ Len(a) = Len(s) /\ \A i \in 1..Len(s) : a[i] = v[s[i]]
  BY <1>1, <1>2
<1>5. b \in Seq(Seq(A)) /\ Len(b) = Len(s) + 1 /\ \A i \in 1..(Len(s) + 1) : b[i] = v[t[i]]
  BY <1>1, <1>3
<1>6. v[x] \in Seq(A)
  OBVIOUS
<1>7. View(v, s) = FlattenSeq(a) /\ View(v, t) = FlattenSeq(b)
  BY DEF View
<1> HIDE DEF a, b
<1>8. c \in Seq(Seq(A)) /\ Len(c) = Len(s) + 1 /\ c[Len(s) + 1] = v[x] /\ \A i \in 1..Len(s) : c[i] = a[i]
  BY <1>4, <1>6
<1> HIDE DEF c
<1>9. \A i \in 1..(Len(s) + 1) : b[i] = c[i]
  <2> TAKE i \in 1..(Len(s) + 1)
  <2>1. i \in 1..Len(s) \/ i = Len(s) + 1
    BY <1>1
  <2>. QED BY <1>1, <1>4, <1>5, <1>8, <2>1
<1>10. b = c
  BY <1>4, <1>5, <1>8, <1>9, SeqEqual
<1>11. FlattenSeq(Append(a, v[x])) = FlattenSeq(a) \o v[x]
  BY <1>4, <1>6, FlattenGrows
<1>. QED BY <1>7, <1>10, <1>11 DEF c, t

(* What is seen of two sequences, one after the other.                     *)
LEMMA ViewConcat ==
  ASSUME NEW X, NEW A, NEW v \in [X -> Seq(A)], NEW a \in Seq(X)
  PROVE  \A b \in Seq(X) : View(v, a \o b) = View(v, a) \o View(v, b)
<1> DEFINE T == {b \in Seq(X) : View(v, a \o b) = View(v, a) \o View(v, b)}
<1>0. View(v, a) \in Seq(A)
  BY ViewType
<1>1. <<>> \in T
  <2>1. a \o <<>> = a /\ View(v, a) \o <<>> = View(v, a) /\ <<>> \in Seq(X)
    BY <1>0, ConcatEmptySeq
  <2>. QED BY <2>1, ViewEmpty
<1>2. ASSUME NEW b \in Seq(X), NEW x \in X, b \in T PROVE Append(b, x) \in T
  <2> DEFINE ab == a \o b
  <2>1. ab \in Seq(X) /\ Append(b, x) \in Seq(X)
    OBVIOUS
  <2>2. a \o Append(b, x) = Append(ab, x)
    <3>1. Append(b, x) = b \o <<x>> /\ <<x>> \in Seq(X)
      BY AppendIsConcat
    <3>2. Append(ab, x) = ab \o <<x>>
      BY <2>1, AppendIsConcat
    <3>3. a \o (b \o <<x>>) = ab \o <<x>>
      BY <3>1, ConcatAssociative
    <3>. QED BY <3>1, <3>2, <3>3
  <2>3. View(v, ab) = View(v, a) \o View(v, b)
    BY <1>2
  <2> HIDE DEF ab
  <2>4. View(v, Append(ab, x)) = View(v, ab) \o v[x]
    BY <2>1, ViewAppend
  <2>5. View(v, Append(b, x)) = View(v, b) \o v[x]
    BY ViewAppend
  <2>6. View(v, b) \in Seq(A) /\ v[x] \in Seq(A)
    BY ViewType
  <2>7. (View(v, a) \o View(v, b)) \o v[x] = View(v, a) \o (View(v, b) \o v[x])
    BY <1>0, <2>6, ConcatAssociative
  <2>. QED BY <2>1, <2>2, <2>3, <2>4, <2>5, <2>7 DEF ab
<1>3. \A b \in Seq(X) : b \in T
  <2> HIDE DEF T
  <2>. QED BY <1>1, <1>2, PrefixInduction
<1>. QED BY <1>3

(* What is seen of the last that is joined.                                *)
LEMMA ViewOfLast ==
  ASSUME NEW X, NEW A, NEW v \in [X -> Seq(A)], NEW ss \in Seq(Seq(X)), NEW s \in Seq(X)
  PROVE  View(v, FlattenSeq(Append(ss, s))) = View(v, FlattenSeq(ss)) \o View(v, s)
<1>1. FlattenSeq(Append(ss, s)) = FlattenSeq(ss) \o s /\ FlattenSeq(ss) \in Seq(X)
  BY FlattenGrows, FlattenIs
<1>2. View(v, FlattenSeq(ss) \o s) = View(v, FlattenSeq(ss)) \o View(v, s)
  BY <1>1, ViewConcat
<1>. QED BY <1>1, <1>2

(* What is seen of sequences that are joined.                              *)
LEMMA ViewFlatten ==
  ASSUME NEW X, NEW A, NEW v \in [X -> Seq(A)], NEW ss \in Seq(Seq(X))
  PROVE  View(v, FlattenSeq(ss)) = FlattenSeq([i \in DOMAIN ss |-> View(v, ss[i])])
<1> DEFINE Y == Seq(X)
           w == [s \in Y |-> View(v, s)]
           T == {tt \in Seq(Y) : View(v, FlattenSeq(tt)) = View(w, tt)}
<1>1. w \in [Y -> Seq(A)]
  BY ViewType
<1>1a. \A s \in Y : w[s] = View(v, s)
  OBVIOUS
<1>2. [i \in DOMAIN ss |-> w[ss[i]]] = [i \in DOMAIN ss |-> View(v, ss[i])]
  OBVIOUS
<1> HIDE DEF w
<1>3. <<>> \in T
  BY ViewEmpty, NothingJoined
<1>4. ASSUME NEW tt \in Seq(Y), NEW s \in Y, tt \in T PROVE Append(tt, s) \in T
  <2>1. View(v, FlattenSeq(Append(tt, s))) = View(v, FlattenSeq(tt)) \o View(v, s)
    BY ViewOfLast
  <2>2. View(v, FlattenSeq(tt)) = View(w, tt)
    BY <1>4
  <2> HIDE DEF Y
  <2>3. View(w, Append(tt, s)) = View(w, tt) \o w[s]
    BY <1>1, <1>4, ViewAppend
  <2>4. Append(tt, s) \in Seq(Y)
    OBVIOUS
  <2>. QED BY <1>1a, <2>1, <2>2, <2>3, <2>4
<1>5. \A tt \in Seq(Y) : tt \in T
  <2> HIDE DEF T, Y
  <2>. QED BY <1>3, <1>4, PrefixInduction
<1>6. View(v, FlattenSeq(ss)) = View(w, ss)
  BY <1>5
<1>. QED BY <1>2, <1>6 DEF View

(* One sequence joined is itself.                                          *)
LEMMA FlattenOne == \A s : FlattenSeq(<<s>>) = s
<1> SUFFICES ASSUME NEW s PROVE FlattenSeq(<<s>>) = s
  OBVIOUS
<1>1. FlattenSeq(<<s>>) = Joined(<<s>>)[1]
  <2> DEFINE q == <<s>>
  <2>1. Len(q) = 1
    OBVIOUS
  <2> HIDE DEF q
  <2>2. FlattenSeq(q) = IF Len(q) = 0 THEN q ELSE Joined(q)[Len(q)]
    BY FlattenIsJoined
  <2>. QED BY <2>1, <2>2 DEF q
<1>2. Joined(<<s>>)[1] = s
  <2> DEFINE J(f) == f = [i \in 1..Len(<<s>>) |-> IF i = 1 THEN <<s>>[i] ELSE f[i - 1] \o <<s>>[i]]
             g == [i \in 1..1 |-> s]
  <2>1. J(g)
    OBVIOUS
  <2>2. Joined(<<s>>) = CHOOSE f : J(f)
    BY DEF Joined
  <2>3. \A f : J(f) => f[1] = s
    OBVIOUS
  <2> HIDE DEF J
  <2>. QED BY <2>1, <2>2, <2>3
<1>. QED BY <1>1, <1>2

-----------------------------------------------------------------------------
(* Blocks of a reply as it was said, and as the client builds them.        *)
TextBlocks  == [is : {"text"}, text : Seq(STRING)]
SaidCalls   == [is : {"call"}, id : Nat \X Nat, name : STRING, input : Spelled]
BuiltCalls  == [is : {"call"}, id : Nat \X Nat, name : STRING, input : {"plain", "wrapped"} \X Spelled]
SaidBlocks  == TextBlocks \cup [is : {"thought"}] \cup SaidCalls
BuiltBlocks == TextBlocks \cup BuiltCalls

LEMMA BlockKinds ==
  /\ \A b \in BuiltBlocks : (b.is = "call" <=> b \in BuiltCalls) /\ (b.is = "text" <=> b \in TextBlocks)
  /\ \A b \in SaidBlocks : (b.is = "call" <=> b \in SaidCalls) /\ (b.is = "text" <=> b \in TextBlocks)
BY DEF BuiltBlocks, SaidBlocks, TextBlocks, BuiltCalls, SaidCalls

LEMMA GatheredType ==
  ASSUME NEW how, NEW spelled \in Spelled
  PROVE  Gathered(how, spelled) \in {"plain", "wrapped"} \X Spelled
BY DEF Gathered, TextOf, Parsed, Raw, Value, IsJson

LEMMA WithBlockType ==
  ASSUME NEW how, NEW built \in Seq(BuiltBlocks), NEW b \in SaidBlocks
  PROVE  WithBlock(built, how, b) \in Seq(BuiltBlocks)
<1>1. CASE b.is = "text"
  <2>1. b.text \in Seq(STRING)
    BY <1>1, BlockKinds DEF TextBlocks
  <2>2. CASE b.text # <<>> /\ built # <<>> /\ Last(built).is = "text"
    <3>1. Len(built) \in Nat \ {0} /\ Last(built) = built[Len(built)] /\ Last(built) \in BuiltBlocks
      BY <2>2 DEF Last
    <3>2. Last(built).text \in Seq(STRING)
      BY <2>2, <3>1, BlockKinds DEF TextBlocks
    <3>3. Last(built).text \o b.text \in Seq(STRING)
      BY <2>1, <3>2
    <3>4. TextBlock(Last(built).text \o b.text) \in BuiltBlocks
      BY <3>3 DEF TextBlock, BuiltBlocks, TextBlocks
    <3>5. Front(built) \in Seq(BuiltBlocks)
      BY <2>2, <3>1 DEF Front
    <3>. QED BY <1>1, <2>2, <3>4, <3>5 DEF WithBlock, WithText
  <2>3. CASE b.text = <<>>
    BY <1>1, <2>3 DEF WithBlock, WithText
  <2>4. CASE b.text # <<>> /\ ~ (built # <<>> /\ Last(built).is = "text")
    <3>1. TextBlock(b.text) \in BuiltBlocks
      BY <2>1 DEF TextBlock, BuiltBlocks, TextBlocks
    <3>. QED BY <1>1, <2>4, <3>1 DEF WithBlock, WithText
  <2>. QED BY <2>2, <2>3, <2>4
<1>2. CASE b.is = "call"
  <2>1. b \in SaidCalls /\ b.input \in Spelled
    BY <1>2, BlockKinds DEF SaidCalls
  <2>2. [b EXCEPT !.input = Gathered(how, @)] \in BuiltBlocks
    BY <2>1, GatheredType DEF SaidCalls, BuiltCalls, BuiltBlocks
  <2>. QED BY <1>2, <2>2 DEF WithBlock
<1>3. CASE b.is \notin {"text", "call"}
  BY <1>3 DEF WithBlock
<1>. QED BY <1>1, <1>2, <1>3

(* What the client builds of a reply, block after block.                   *)
LEMMA BuiltLoops ==
  ASSUME NEW how, NEW blocks \in Seq(SaidBlocks)
  PROVE  \E g \in [0..Len(blocks) -> Seq(BuiltBlocks)] :
           /\ g[0] = <<>> /\ Built(how, blocks) = g[Len(blocks)]
           /\ \A i \in 1..Len(blocks) : g[i] = WithBlock(g[i - 1], how, blocks[i])
<1> DEFINE N == Len(blocks)
           A == Seq(BuiltBlocks)
           step == [i \in 1..N |-> [a \in A |-> WithBlock(a, how, blocks[i])]]
           Recurs(g) == g = [n \in 0..N |-> IF n = 0 THEN <<>> ELSE WithBlock(g[n - 1], how, blocks[n])]
<1>1. N \in Nat /\ \A i \in 1..N : blocks[i] \in SaidBlocks
  OBVIOUS
<1>2. step \in [1..N -> [A -> A]] /\ <<>> \in A
  BY <1>1, WithBlockType
<1>3. PICK g \in [0..N -> A] : Loops(g, <<>>, step, N)
  <2> HIDE DEF step, A, N
  <2>. QED BY <1>1, <1>2, LoopExists
<1>4. \A i \in 1..N : g[i] = WithBlock(g[i - 1], how, blocks[i])
  <2> TAKE i \in 1..N
  <2>1. i - 1 \in 0..N /\ g[i - 1] \in A
    BY <1>1, <1>3
  <2>. QED BY <1>3, <2>1 DEF Loops
<1>4a. g[0] = <<>>
  BY <1>3 DEF Loops
<1>5. Recurs(g)
  <2>1. \A n \in 0..N : g[n] = IF n = 0 THEN <<>> ELSE WithBlock(g[n - 1], how, blocks[n])
    BY <1>4, <1>4a
  <2>. QED BY <1>3, <2>1
<1> DEFINE built == CHOOSE h : Recurs(h)
<1>6. Built(how, blocks) = built[N]
  BY DEF Built
<1> HIDE DEF Recurs
<1>7. Recurs(built)
  BY <1>5
<1> HIDE DEF built
<1>8. /\ built[0] = <<>>
      /\ \A n \in 1..N : built[n] = WithBlock(built[n - 1], how, blocks[n])
  BY <1>7 DEF Recurs
<1> DEFINE S == {n \in Nat : n <= N => built[n] = g[n]}
<1>9. 0 \in S /\ \A n \in Nat : n \in S => n + 1 \in S
  <2>1. 0 \in S
    BY <1>4a, <1>8
  <2>2. ASSUME NEW n \in Nat, n \in S, n + 1 <= N PROVE built[n + 1] = g[n + 1]
    <3>1. n + 1 \in 1..N /\ (n + 1) - 1 = n /\ built[n] = g[n]
      BY <1>1, <2>2
    <3>. QED BY <1>4, <1>8, <3>1
  <2>. QED BY <2>1, <2>2
<1>10. N \in S
  <2> HIDE DEF S
  <2>. QED BY <1>1, <1>9, SetInduction
<1>11. Built(how, blocks) = g[N]
  BY <1>1, <1>6, <1>10
<1> HIDE DEF step
<1>. QED BY <1>3, <1>4, <1>4a, <1>11

(* The calls among them, one after the other.                              *)
WithCall(those, b) == IF b.is = "call" THEN Append(those, b) ELSE those

LEMMA CallsLoop ==
  ASSUME NEW blocks \in Seq(BuiltBlocks)
  PROVE  \E g \in [0..Len(blocks) -> Seq(BuiltCalls)] :
           /\ g[0] = <<>> /\ CallsOf(blocks) = g[Len(blocks)]
           /\ \A i \in 1..Len(blocks) : g[i] = WithCall(g[i - 1], blocks[i])
<1> DEFINE N == Len(blocks)
           v == [b \in BuiltBlocks |-> IF b.is = "call" THEN <<b>> ELSE <<>>]
           g == [n \in 0..N |-> View(v, SubSeq(blocks, 1, n))]
<1>1. N \in Nat
  OBVIOUS
<1>2. v \in [BuiltBlocks -> Seq(BuiltCalls)]
  BY BlockKinds
<1>3. CallsOf(blocks) = View(v, blocks)
  <2>1. [i \in DOMAIN blocks |-> IF blocks[i].is = "call" THEN <<blocks[i]>> ELSE <<>>]
          = [i \in DOMAIN blocks |-> v[blocks[i]]]
    OBVIOUS
  <2>. QED BY <2>1 DEF CallsOf, View
<1>4. \A b \in BuiltBlocks : v[b] = IF b.is = "call" THEN <<b>> ELSE <<>>
  OBVIOUS
<1> HIDE DEF v
<1>5. ASSUME NEW n \in 0..N PROVE g[n] \in Seq(BuiltCalls)
  <2>1. SubSeq(blocks, 1, n) \in Seq(BuiltBlocks)
    BY <1>1
  <2>. QED BY <1>2, <2>1, ViewType
<1>6. g[0] = <<>>
  <2>1. SubSeq(blocks, 1, 0) = <<>>
    OBVIOUS
  <2>2. 0 \in 0..N
    BY <1>1
  <2> HIDE DEF N
  <2>. QED BY <2>1, <2>2, ViewEmpty
<1>7. g[N] = View(v, blocks)
  <2>1. SubSeq(blocks, 1, N) = blocks
    BY SubSeqFull
  <2>2. N \in 0..N
    BY <1>1
  <2>. QED BY <2>1, <2>2
<1>8. ASSUME NEW i \in 1..N PROVE g[i] = WithCall(g[i - 1], blocks[i])
  <2> DEFINE n == i - 1
             a == SubSeq(blocks, 1, n)
             x == blocks[n + 1]
  <2>1. n \in Nat /\ n + 1 = i /\ n + 1 <= Len(blocks)
    BY <1>1
  <2> HIDE DEF n
  <2>2. /\ a \in Seq(BuiltBlocks) /\ x \in BuiltBlocks
        /\ SubSeq(blocks, 1, n + 1) = Append(a, x)
    BY <2>1, PrefixGrows
  <2>3. n \in 0..N /\ n + 1 \in 0..N
    BY <1>1, <2>1
  <2>3a. g[n] = View(v, a) /\ g[n + 1] = View(v, Append(a, x))
    BY <2>2, <2>3
  <2> HIDE DEF a, x, g, N
  <2>4. View(v, Append(a, x)) = View(v, a) \o v[x] /\ View(v, a) \in Seq(BuiltCalls)
    <3>1. a \in Seq(BuiltBlocks) /\ x \in BuiltBlocks
      BY <2>2
    <3>. QED BY <1>2, <3>1, ViewAppend, ViewType
  <2>5. View(v, a) \o v[x] = WithCall(View(v, a), x)
    <3>1. CASE x.is = "call"
      <4>1. x \in BuiltCalls /\ v[x] = <<x>>
        BY <1>4, <2>2, <3>1, BlockKinds
      <4>. QED BY <2>4, <3>1, <4>1, AppendIsConcat DEF WithCall
    <3>2. CASE x.is # "call"
      <4>1. v[x] = <<>>
        BY <1>4, <2>2, <3>2
      <4>. QED BY <2>4, <3>2, <4>1, ConcatEmptySeq DEF WithCall
    <3>. QED BY <3>1, <3>2
  <2>. QED BY <2>1, <2>3a, <2>4, <2>5 DEF x, n
<1>9. g \in [0..N -> Seq(BuiltCalls)]
  BY <1>5
<1> HIDE DEF g
<1>. QED BY <1>3, <1>6, <1>7, <1>8, <1>9 DEF N

-----------------------------------------------------------------------------
(* Each call among the blocks is one of the first n that were said, under  *)
(* its id and its name, and no two have the same id.                       *)
SameCall(b, a) == a.is = "call" /\ a.id = b.id /\ a.name = b.name
Traced(blocks, spoken, n) ==
  /\ \A i \in DOMAIN blocks : blocks[i].is = "call" =>
       \E j \in 1..n : SameCall(blocks[i], spoken[j])
  /\ \A i, j \in DOMAIN blocks :
       blocks[i].is = "call" /\ blocks[j].is = "call" /\ blocks[i].id = blocks[j].id => i = j

Numbered(spoken, k) == \A j \in DOMAIN spoken : spoken[j].is = "call" => spoken[j].id = <<k, j>>

LEMMA AppendedBlock ==
  ASSUME NEW blocks \in Seq(BuiltBlocks), NEW b \in BuiltBlocks
  PROVE  /\ Append(blocks, b) \in Seq(BuiltBlocks) /\ Len(blocks) \in Nat
         /\ DOMAIN blocks = 1..Len(blocks) /\ DOMAIN Append(blocks, b) = 1..(Len(blocks) + 1)
         /\ Append(blocks, b)[Len(blocks) + 1] = b
         /\ \A i \in 1..Len(blocks) : Append(blocks, b)[i] = blocks[i]
BY AppendProperties

LEMMA FrontBlocks ==
  ASSUME NEW blocks \in Seq(BuiltBlocks), blocks # <<>>
  PROVE  /\ Len(blocks) \in Nat \ {0} /\ Front(blocks) \in Seq(BuiltBlocks)
         /\ Len(Front(blocks)) = Len(blocks) - 1
         /\ \A i \in 1..(Len(blocks) - 1) : Front(blocks)[i] = blocks[i]
<1>1. Len(blocks) \in Nat \ {0} /\ \A i \in 1..(Len(blocks) - 1) : blocks[i] \in BuiltBlocks
  OBVIOUS
<1> DEFINE m == Len(blocks) - 1
<1>2. 1 \in Int /\ m \in Int /\ Front(blocks) = SubSeq(blocks, 1, m)
  BY <1>1 DEF Front
<1>3. \A i \in 1..m : blocks[i] \in BuiltBlocks
  BY <1>1
<1> HIDE DEF m
<1>4. /\ SubSeq(blocks, 1, m) \in Seq(BuiltBlocks)
      /\ Len(SubSeq(blocks, 1, m)) = IF 1 <= m THEN m - 1 + 1 ELSE 0
      /\ \A i \in 1..(m - 1 + 1) : SubSeq(blocks, 1, m)[i] = blocks[1 + i - 1]
  BY <1>2, <1>3, SubSeqProperties
<1>5. m = Len(blocks) - 1 /\ m \in Nat /\ m - 1 + 1 = m /\ \A i \in 1..m : 1 + i - 1 = i
  BY <1>1 DEF m
<1>6. Len(Front(blocks)) = m /\ \A i \in 1..m : Front(blocks)[i] = blocks[i]
  BY <1>2, <1>4, <1>5
<1>. QED BY <1>1, <1>2, <1>4, <1>5, <1>6

LEMMA TextTraced ==
  ASSUME NEW spoken \in Seq(SaidBlocks), NEW n \in 0..Len(spoken),
         NEW built \in Seq(BuiltBlocks), Traced(built, spoken, n), NEW letters \in Seq(STRING)
  PROVE  Traced(WithText(built, letters), spoken, n)
<1>1. CASE letters = <<>>
  BY <1>1 DEF WithText
<1>2. CASE letters # <<>> /\ built # <<>> /\ Last(built).is = "text"
  <2> DEFINE new == TextBlock(Last(built).text \o letters)
             front == Front(built)
             all == Append(front, new)
  <2>1. new \in BuiltBlocks /\ new.is = "text"
    <3>1. Last(built) \in BuiltBlocks
      BY <1>2 DEF Last
    <3>2. Last(built).text \in Seq(STRING)
      BY <1>2, <3>1, BlockKinds DEF TextBlocks
    <3>3. Last(built).text \o letters \in Seq(STRING)
      BY <3>2
    <3>. QED BY <3>3 DEF TextBlock, BuiltBlocks, TextBlocks
  <2>2. /\ Len(built) \in Nat \ {0} /\ front \in Seq(BuiltBlocks) /\ Len(front) = Len(built) - 1
        /\ \A i \in 1..(Len(built) - 1) : front[i] = built[i]
    BY <1>2, FrontBlocks
  <2>3. DOMAIN built = 1..Len(built)
    OBVIOUS
  <2> HIDE DEF new, front
  <2>4. DOMAIN all = 1..(Len(front) + 1) /\ all[Len(front) + 1] = new
        /\ \A i \in 1..Len(front) : all[i] = front[i]
    BY <2>1, <2>2, AppendedBlock
  <2> HIDE DEF all
  <2>5. ASSUME NEW i \in DOMAIN all, all[i].is = "call" PROVE i \in DOMAIN built /\ all[i] = built[i]
    <3>1. i \in 1..Len(front)
      BY <2>1, <2>2, <2>4, <2>5
    <3>. QED BY <2>2, <2>3, <2>4, <3>1
  <2>6. Traced(all, spoken, n)
    BY <2>5 DEF Traced
  <2>. QED BY <1>2, <2>6 DEF WithText, all, new, front
<1>3. CASE letters # <<>> /\ ~ (built # <<>> /\ Last(built).is = "text")
  <2> DEFINE new == TextBlock(letters)
             all == Append(built, new)
  <2>1. new \in BuiltBlocks /\ new.is = "text"
    BY DEF TextBlock, BuiltBlocks, TextBlocks
  <2> HIDE DEF new
  <2>2. /\ DOMAIN all = 1..(Len(built) + 1) /\ all[Len(built) + 1] = new
        /\ DOMAIN built = 1..Len(built) /\ \A i \in DOMAIN built : all[i] = built[i]
    BY <2>1, AppendedBlock
  <2> HIDE DEF all
  <2>3. \A i \in DOMAIN all : all[i].is = "call" => i \in DOMAIN built /\ all[i] = built[i]
    BY <2>1, <2>2
  <2>4. Traced(all, spoken, n)
    BY <2>3 DEF Traced
  <2>. QED BY <1>3, <2>4 DEF WithText, all, new
<1>. QED BY <1>1, <1>2, <1>3

LEMMA BlockTraced ==
  ASSUME NEW how, NEW k \in Nat, NEW spoken \in Seq(SaidBlocks), Numbered(spoken, k),
         NEW n \in 1..Len(spoken),
         NEW built \in Seq(BuiltBlocks), Traced(built, spoken, n - 1)
  PROVE  Traced(WithBlock(built, how, spoken[n]), spoken, n)
<1> DEFINE b == spoken[n]
<1>0. n \in DOMAIN spoken /\ b \in SaidBlocks /\ n - 1 \in 0..Len(spoken) /\ n \in 0..Len(spoken)
  OBVIOUS
<1>1. Traced(built, spoken, n)
  <2>1. 1..(n - 1) \subseteq 1..n
    OBVIOUS
  <2>. QED BY <2>1 DEF Traced
<1>2. CASE b.is = "text"
  <2>1. b.text \in Seq(STRING)
    BY <1>0, <1>2, BlockKinds DEF TextBlocks
  <2>. QED BY <1>0, <1>1, <1>2, <2>1, TextTraced DEF WithBlock
<1>3. CASE b.is = "call"
  <2> DEFINE new == [b EXCEPT !.input = Gathered(how, @)]
             all == Append(built, new)
  <2>1. b \in SaidCalls /\ b.id = <<k, n>>
    BY <1>0, <1>3, BlockKinds DEF Numbered
  <2>2. new.is = "call" /\ new.id = b.id /\ new.name = b.name
    BY <2>1 DEF SaidCalls
  <2> HIDE DEF new
  <2>3. SameCall(new, spoken[n]) /\ n \in 1..n
    BY <1>3, <2>2 DEF SameCall
  <2>4. Len(all) = Len(built) + 1 /\ all[Len(built) + 1] = new
        /\ DOMAIN all = 1..(Len(built) + 1) /\ \A i \in DOMAIN built : all[i] = built[i]
    OBVIOUS
  <2>5. DOMAIN built = 1..Len(built) /\ Len(built) \in Nat
    OBVIOUS
  <2> HIDE DEF all
  <2>6. ASSUME NEW i \in DOMAIN built, built[i].is = "call" PROVE built[i].id # new.id
    <3>1. PICK j \in 1..(n - 1) : SameCall(built[i], spoken[j])
      BY <2>6 DEF Traced
    <3>2. j \in DOMAIN spoken /\ j # n
      OBVIOUS
    <3>3. built[i].id = <<k, j>>
      BY <3>1, <3>2 DEF SameCall, Numbered
    <3>. QED BY <2>1, <2>2, <3>2, <3>3
  <2>7. \A i \in DOMAIN all : all[i].is = "call" => \E j \in 1..n : SameCall(all[i], spoken[j])
    BY <1>1, <2>3, <2>4, <2>5 DEF Traced
  <2>8. \A i, j \in DOMAIN all :
           all[i].is = "call" /\ all[j].is = "call" /\ all[i].id = all[j].id => i = j
    BY <1>1, <2>4, <2>5, <2>6 DEF Traced
  <2>9. Traced(all, spoken, n)
    BY <2>7, <2>8 DEF Traced
  <2>. QED BY <1>3, <2>9 DEF WithBlock, all, new
<1>4. CASE b.is \notin {"text", "call"}
  BY <1>1, <1>4 DEF WithBlock
<1>. QED BY <1>2, <1>3, <1>4

LEMMA BuiltTraced ==
  ASSUME NEW how, NEW k \in Nat, NEW spoken \in Seq(SaidBlocks), Numbered(spoken, k)
  PROVE  Built(how, spoken) \in Seq(BuiltBlocks) /\ Traced(Built(how, spoken), spoken, Len(spoken))
<1> DEFINE N == Len(spoken)
<1>1. PICK g \in [0..N -> Seq(BuiltBlocks)] :
          /\ g[0] = <<>> /\ Built(how, spoken) = g[N]
          /\ \A i \in 1..N : g[i] = WithBlock(g[i - 1], how, spoken[i])
  BY BuiltLoops
<1> DEFINE S == {n \in Nat : n <= N => Traced(g[n], spoken, n)}
<1>2. 0 \in S
  BY <1>1 DEF Traced
<1>3. ASSUME NEW n \in Nat, n \in S PROVE n + 1 \in S
  <2> SUFFICES ASSUME n + 1 <= N PROVE Traced(g[n + 1], spoken, n + 1)
    OBVIOUS
  <2>1. n + 1 \in 1..N /\ (n + 1) - 1 = n /\ n \in 0..N /\ Traced(g[n], spoken, n)
    BY <1>3
  <2>2. g[n] \in Seq(BuiltBlocks) /\ g[n + 1] = WithBlock(g[n], how, spoken[n + 1])
    BY <1>1, <2>1
  <2>. QED BY <2>1, <2>2, BlockTraced
<1>4. N \in S
  <2> HIDE DEF S
  <2>. QED BY <1>2, <1>3, SetInduction
<1>5. Traced(g[N], spoken, N) /\ N \in 0..N
  BY <1>4
<1>. QED BY <1>1, <1>5

(* The calls of a message are among its blocks, each once.                 *)
LEMMA CallsTraced ==
  ASSUME NEW spoken \in Seq(SaidBlocks), NEW blocks \in Seq(BuiltBlocks),
         Traced(blocks, spoken, Len(spoken))
  PROVE  CallsOf(blocks) \in Seq(BuiltCalls) /\ Traced(CallsOf(blocks), spoken, Len(spoken))
<1> DEFINE N == Len(blocks)
           Among(those, n) ==
             /\ \A i \in DOMAIN those : \E j \in 1..n : blocks[j].is = "call" /\ those[i] = blocks[j]
             /\ \A i, j \in DOMAIN those : those[i].id = those[j].id => i = j
<1>1. PICK g \in [0..N -> Seq(BuiltCalls)] :
          /\ g[0] = <<>> /\ CallsOf(blocks) = g[N]
          /\ \A i \in 1..N : g[i] = WithCall(g[i - 1], blocks[i])
  BY CallsLoop
<1>2. Among(g[0], 0)
  <2>1. DOMAIN g[0] = {}
    BY <1>1
  <2>. QED BY <2>1
<1>3. ASSUME NEW n \in Nat, n + 1 <= N, Among(g[n], n) PROVE Among(g[n + 1], n + 1)
  <2> DEFINE those == g[n]
             b == blocks[n + 1]
  <2>1. n + 1 \in 1..N /\ (n + 1) - 1 = n /\ n \in 0..N
        /\ n + 1 \in 1..(n + 1) /\ 1..n \subseteq 1..(n + 1)
    BY <1>3
  <2>2. those \in Seq(BuiltCalls) /\ g[n + 1] = WithCall(those, b)
    <3> HIDE DEF Among, N
    <3>. QED BY <1>1, <2>1
  <2> HIDE DEF those
  <2>3. CASE b.is # "call"
    <3>1. g[n + 1] = those
      BY <2>2, <2>3 DEF WithCall
    <3>. QED BY <1>3, <2>1, <3>1 DEF those
  <2>4. CASE b.is = "call"
    <3> DEFINE all == Append(those, b)
    <3>1. Len(all) = Len(those) + 1 /\ all[Len(those) + 1] = b /\ Len(those) \in Nat
          /\ DOMAIN all = 1..(Len(those) + 1) /\ DOMAIN those = 1..Len(those)
          /\ \A i \in DOMAIN those : all[i] = those[i]
      BY <2>2
    <3>2. g[n + 1] = all
      BY <2>2, <2>4 DEF WithCall
    <3> HIDE DEF all
    <3>3. Among(those, n)
      BY <1>3 DEF those
    <3>4. ASSUME NEW i \in DOMAIN those PROVE those[i].id # b.id
      <4>1. PICK j \in 1..n : blocks[j].is = "call" /\ those[i] = blocks[j]
        BY <3>3
      <4>2. j \in DOMAIN blocks /\ n + 1 \in DOMAIN blocks /\ j # n + 1
        BY <2>1
      <4>. QED BY <2>4, <4>1, <4>2 DEF Traced
    <3>5. ASSUME NEW i \in DOMAIN all
          PROVE  \E j \in 1..(n + 1) : blocks[j].is = "call" /\ all[i] = blocks[j]
      <4>1. CASE i \in DOMAIN those
        <5>1. all[i] = those[i]
          BY <3>1, <4>1
        <5>2. PICK j \in 1..n : blocks[j].is = "call" /\ those[i] = blocks[j]
          BY <3>3, <4>1
        <5>. QED BY <2>1, <5>1, <5>2
      <4>2. CASE i \notin DOMAIN those
        <5>1. i = Len(those) + 1
          BY <3>1, <4>2
        <5>. QED BY <2>1, <2>4, <3>1, <5>1
      <4>. QED BY <4>1, <4>2
    <3>6. ASSUME NEW i \in DOMAIN all, NEW j \in DOMAIN all, all[i].id = all[j].id PROVE i = j
      <4>1. /\ (i \in DOMAIN those /\ all[i] = those[i]) \/ (i = Len(those) + 1 /\ all[i] = b)
            /\ (j \in DOMAIN those /\ all[j] = those[j]) \/ (j = Len(those) + 1 /\ all[j] = b)
        BY <3>1
      <4>. QED BY <3>3, <3>4, <3>6, <4>1
    <3>. QED BY <3>2, <3>5, <3>6
  <2>. QED BY <2>3, <2>4
<1> DEFINE S == {n \in Nat : n <= N => Among(g[n], n)}
<1>4. N \in S
  <2> HIDE DEF Among, N
  <2>1. 0 \in S
    BY <1>2
  <2>2. \A n \in Nat : n \in S => n + 1 \in S
    BY <1>1, <1>3 DEF N
  <2>3. N \in Nat
    BY DEF N
  <2> HIDE DEF S
  <2>. QED BY <2>1, <2>2, <2>3, SetInduction
<1>5. Among(g[N], N) /\ N \in 0..N /\ DOMAIN blocks = 1..N
  <2>1. N \in Nat /\ DOMAIN blocks = 1..N
    OBVIOUS
  <2> HIDE DEF Among, N
  <2>. QED BY <1>4, <2>1
<1>6. Traced(g[N], spoken, Len(spoken))
  BY <1>5 DEF Traced
<1>. QED BY <1>1, <1>5, <1>6

-----------------------------------------------------------------------------
(* The rounds: the request that was answered offered what is allowed; what *)
(* is pending was said in the last reply; a tool that worked was called,   *)
(* by a call that is no longer pending; and so were the calls with results,*)
(* which say what became of them.                                          *)
ResultBlocks == [is : {"result"}, id : Nat \X Nat, name : STRING, error : BOOLEAN]
Messages ==
  {Prompt, Summary} \cup [role : {"assistant"}, blocks : Seq(BuiltBlocks)]
  \cup [role : {"tool"}, blocks : {<<r>> : r \in ResultBlocks}]

RoundTypeOK ==
  /\ owner \in Owners /\ speaks \in {"claw", "openai"}
  /\ turn \in {"request", "reply", "tools", "done"}
  /\ talk \in Seq(Messages) /\ calls \in Seq(BuiltCalls)
  /\ said \in Seq(Seq(SaidBlocks)) /\ effects \in Seq(Nat \X Nat) /\ spoiled \subseteq Nat \X Nat

OfferInv == turn # "request" \/ said # <<>> => asked.tools = OfferedTools

PendingInv ==
  /\ turn = "tools" => calls # <<>>
  /\ calls # <<>> => said # <<>> /\ Traced(calls, said[Len(said)], Len(said[Len(said)]))
  /\ \A c \in DOMAIN calls : calls[c].id[1] = Len(said)

WasCalled(id) ==
  \E block \in ToSet(said[id[1]]) :
    block.is = "call" /\ block.id = id /\ block.name \in Allowed \cap Registered

EffectsInv ==
  /\ IsInjective(effects)
  /\ \A i \in DOMAIN effects :
       /\ effects[i][1] \in DOMAIN said /\ WasCalled(effects[i])
       /\ \A c \in DOMAIN calls : calls[c].id # effects[i]

SpoiledInv ==
  \A id \in spoiled : id[1] \in DOMAIN said /\ \A c \in DOMAIN calls : calls[c].id # id

ResultIsTrue(r) ==
  /\ r.id[1] \in DOMAIN said /\ \A c \in DOMAIN calls : calls[c].id # r.id
  /\ r.error <=> (r.id \notin ToSet(effects) \/ r.id \in spoiled)
ResultsInv == \A i \in DOMAIN talk : talk[i].role = "tool" => ResultIsTrue(talk[i].blocks[1])

RoundInv == RoundTypeOK /\ OfferInv /\ PendingInv /\ EffectsInv /\ SpoiledInv /\ ResultsInv

LEMMA RoundInitInv == RoundInit => RoundInv
<1> SUFFICES ASSUME RoundInit PROVE RoundInv
  OBVIOUS
<1>1. Prompt \in Messages /\ Summary \in Messages /\ Prompt.role = "user" /\ Summary.role = "system"
  BY DEF Prompt, Summary, Message, Messages
<1>2. talk \in Seq(Messages) /\ \A i \in DOMAIN talk : talk[i].role # "tool"
  <2>1. talk = <<Prompt>> \/ talk = <<Summary, Prompt>>
    BY DEF RoundInit
  <2>2. CASE talk = <<Prompt>>
    BY <1>1, <2>2
  <2>3. CASE talk = <<Summary, Prompt>>
    BY <1>1, <2>3
  <2>. QED BY <2>1, <2>2, <2>3
<1>3. RoundTypeOK
  BY <1>2 DEF RoundInit, RoundTypeOK
<1>. QED BY <1>2, <1>3 
   DEF RoundInit, RoundInv, OfferInv, PendingInv, EffectsInv, SpoiledInv, ResultsInv, IsInjective

(* What the turn is allowed does not change with its rounds.               *)
LEMMA OwnerKeeps ==
  ASSUME UNCHANGED owner
  PROVE  Allowed' = Allowed /\ Registered' = Registered /\ OfferedTools' = OfferedTools
BY DEF Allowed, Registered, OfferedTools

LEMMA SendRoundInv ==
  ASSUME RoundInv, SendRound
  PROVE  RoundInv'
<1>1. UNCHANGED <<owner, speaks, talk, calls, said, effects, spoiled>> /\ turn' = "reply"
      /\ asked'.tools = OfferedTools
  BY DEF SendRound
<1>2. Allowed' = Allowed /\ Registered' = Registered /\ OfferedTools' = OfferedTools
  BY <1>1, OwnerKeeps
<1>3. RoundTypeOK' /\ OfferInv' /\ PendingInv'
  BY <1>1, <1>2 DEF RoundInv, RoundTypeOK, OfferInv, PendingInv
<1>4. EffectsInv'
  BY <1>1, <1>2 DEF RoundInv, EffectsInv, WasCalled
<1>5. ResultsInv'
  BY <1>1 DEF RoundInv, ResultsInv, ResultIsTrue
<1>6. SpoiledInv'
  BY <1>1 DEF RoundInv, SpoiledInv
<1>. QED BY <1>3, <1>4, <1>5, <1>6 DEF RoundInv

(* The call whose turn it is was said in the last reply, and is no other.  *)
LEMMA PendingCall ==
  ASSUME RoundInv, turn = "tools"
  PROVE  /\ Head(calls) = calls[1] /\ calls[1] \in BuiltCalls /\ 1 \in DOMAIN calls
         /\ Tail(calls) \in Seq(BuiltCalls) /\ (Tail(calls) # <<>> => calls # <<>>)
         /\ \A c \in DOMAIN Tail(calls) :
              c + 1 \in DOMAIN calls /\ Tail(calls)[c] = calls[c + 1] /\ calls[c + 1].id # calls[1].id
         /\ said # <<>> /\ calls[1].id[1] = Len(said) /\ Len(said) \in DOMAIN said
         /\ calls[1].name \in Allowed \cap Registered => WasCalled(calls[1].id)
         /\ calls[1].id \notin spoiled
<1>1. calls \in Seq(BuiltCalls) /\ calls # <<>> /\ said \in Seq(Seq(SaidBlocks)) /\ said # <<>>
      /\ Traced(calls, said[Len(said)], Len(said[Len(said)]))
      /\ \A c \in DOMAIN calls : calls[c].id[1] = Len(said)
  BY DEF RoundInv, RoundTypeOK, PendingInv
<1>2. /\ Head(calls) = calls[1] /\ calls[1] \in BuiltCalls /\ 1 \in DOMAIN calls
      /\ Tail(calls) \in Seq(BuiltCalls)
      /\ \A c \in DOMAIN Tail(calls) : c + 1 \in DOMAIN calls /\ Tail(calls)[c] = calls[c + 1]
  BY <1>1
<1>3. \A b \in BuiltCalls : b.is = "call"
  BY DEF BuiltCalls
<1>4. ASSUME NEW c \in DOMAIN Tail(calls) PROVE calls[c + 1].id # calls[1].id
  <2>1. c \in Nat /\ c + 1 # 1 /\ c # 0
    BY <1>2
  <2>2. calls[c + 1] \in BuiltCalls
    BY <1>1, <1>2
  <2>. QED BY <1>1, <1>2, <1>3, <2>1, <2>2 DEF Traced
<1>5. Len(said) \in DOMAIN said /\ said[Len(said)] \in Seq(SaidBlocks)
  BY <1>1
<1>6. ASSUME calls[1].name \in Allowed \cap Registered PROVE WasCalled(calls[1].id)
  <2>1. PICK j \in 1..Len(said[Len(said)]) : SameCall(calls[1], said[Len(said)][j])
    BY <1>1, <1>2, <1>3 DEF Traced
  <2>2. said[Len(said)][j] \in ToSet(said[Len(said)])
    BY <1>5 DEF ToSet
  <2>. QED BY <1>1, <1>2, <1>6, <2>1, <2>2 DEF WasCalled, SameCall
<1>7. calls[1].id \notin spoiled
  BY <1>2 DEF RoundInv, SpoiledInv
<1>. QED BY <1>1, <1>2, <1>4, <1>5, <1>6, <1>7

(* A result joins the session and says what became of the call.            *)
LEMMA AnswerInv ==
  ASSUME RoundInv, turn = "tools", NEW error \in BOOLEAN, Answers(error),
         \/ effects' = effects /\ error
         \/ /\ effects' = Append(effects, calls[1].id)
            /\ calls[1].name \in Allowed \cap Registered
            /\ error <=> calls[1].id \in spoiled',
         spoiled' = spoiled \/ spoiled' = spoiled \cup {calls[1].id}
  PROVE  RoundInv'
<1>0. PICK id, r, m : /\ id = calls[1].id /\ r = Result(calls[1].id, calls[1].name, error)
                      /\ m = Message("tool", <<r>>)
  OBVIOUS
<1>1. /\ calls[1] \in BuiltCalls /\ calls[1] = Head(calls) /\ 1 \in DOMAIN calls
      /\ Tail(calls) \in Seq(BuiltCalls) /\ (Tail(calls) # <<>> => calls # <<>>)
      /\ \A c \in DOMAIN Tail(calls) :
           c + 1 \in DOMAIN calls /\ Tail(calls)[c] = calls[c + 1] /\ calls[c + 1].id # id
      /\ said # <<>> /\ id[1] = Len(said) /\ Len(said) \in DOMAIN said
      /\ calls[1].name \in Allowed \cap Registered => WasCalled(id)
  BY <1>0, PendingCall
<1>2. id \in Nat \X Nat /\ calls[1].name \in STRING
  BY <1>0, <1>1 DEF BuiltCalls
<1>3. /\ talk' = Append(talk, m) /\ calls' = Tail(calls)
      /\ turn' = (IF Tail(calls) = <<>> THEN "request" ELSE "tools")
      /\ UNCHANGED <<owner, speaks, asked, said>>
  BY <1>0, <1>1 DEF Answers
<1>4. Allowed' = Allowed /\ Registered' = Registered /\ OfferedTools' = OfferedTools
  BY <1>3, OwnerKeeps
<1>5. r \in ResultBlocks /\ r.id = id /\ r.error = error
  BY <1>0, <1>2 DEF Result, ResultBlocks
<1>6. effects \in Seq(Nat \X Nat) /\ effects' \in Seq(Nat \X Nat)
  <2>1. effects \in Seq(Nat \X Nat)
    BY DEF RoundInv, RoundTypeOK
  <2>2. Append(effects, id) \in Seq(Nat \X Nat)
    BY <1>2, <2>1
  <2>. QED BY <1>0, <2>1, <2>2
<1>7. /\ talk \in Seq(Messages) /\ talk' \in Seq(Messages) /\ Len(talk') = Len(talk) + 1
      /\ \A i \in 1..Len(talk) : talk'[i] = talk[i]
      /\ talk'[Len(talk) + 1] = m /\ m.blocks[1] = r
  <2>1. m \in Messages /\ m.blocks[1] = r
    BY <1>0, <1>5 DEF Message, Messages
  <2>2. talk \in Seq(Messages)
    BY DEF RoundInv, RoundTypeOK
  <2>. QED BY <1>3, <2>1, <2>2, AppendProperties
<1>8. RoundTypeOK'
  <2>1. spoiled' \subseteq Nat \X Nat
    BY <1>0, <1>2 DEF RoundInv, RoundTypeOK
  <2>. QED BY <1>1, <1>3, <1>6, <1>7, <2>1 DEF RoundInv, RoundTypeOK
<1>9. OfferInv'
  BY <1>1, <1>3, <1>4 DEF RoundInv, OfferInv
<1>10. PendingInv'
  <2>1. turn' = "tools" => calls' # <<>>
    BY <1>3
  <2>2. ASSUME calls' # <<>> PROVE Traced(calls', said[Len(said)], Len(said[Len(said)]))
    <3>1. Traced(calls, said[Len(said)], Len(said[Len(said)]))
      BY <1>1, <1>3, <2>2 DEF RoundInv, PendingInv
    <3>2. \A i \in DOMAIN calls' : i \in Int /\ i + 1 \in DOMAIN calls /\ calls'[i] = calls[i + 1]
      BY <1>1, <1>3
    <3>3. \A i, j \in DOMAIN calls' : i + 1 = j + 1 => i = j
      BY <3>2
    <3>. QED BY <3>1, <3>2, <3>3 DEF Traced
  <2>3. \A c \in DOMAIN calls' : calls'[c].id[1] = Len(said)
    BY <1>1, <1>3 DEF RoundInv, PendingInv
  <2>. QED BY <1>1, <1>3, <2>1, <2>2, <2>3 DEF PendingInv
<1>11. \A c \in DOMAIN calls' : calls'[c].id # id /\ \E d \in DOMAIN calls : calls[d] = calls'[c]
  BY <1>1, <1>3
<1>11a. SpoiledInv'
  BY <1>0, <1>1, <1>3, <1>11 DEF RoundInv, SpoiledInv
<1>12. \A i \in DOMAIN effects : effects[i] # id
  BY <1>0, <1>1 DEF RoundInv, EffectsInv
<1>13. EffectsInv'
  <2>2. CASE effects' = effects
    BY <1>3, <1>4, <1>11, <2>2 DEF RoundInv, EffectsInv, WasCalled
  <2>3. CASE effects' = Append(effects, id) /\ WasCalled(id)
    <3>1. Len(effects) \in Nat /\ DOMAIN effects = 1..Len(effects)
          /\ DOMAIN effects' = 1..(Len(effects) + 1) /\ effects'[Len(effects) + 1] = id
          /\ \A i \in 1..Len(effects) : effects'[i] = effects[i]
      BY <1>2, <1>6, <2>3, AppendProperties
    <3>2. IsInjective(effects)'
      BY <1>12, <3>1 DEF RoundInv, EffectsInv, IsInjective
    <3>3. ASSUME NEW i \in DOMAIN effects'
          PROVE  /\ effects'[i][1] \in DOMAIN said' /\ WasCalled(effects[i])'
                 /\ \A c \in DOMAIN calls' : calls'[c].id # effects'[i]
      <4>1. WasCalled(effects[i])' <=> WasCalled(effects'[i])
        BY <1>3, <1>4 DEF WasCalled
      <4>2. CASE i = Len(effects) + 1
        <5>1. effects'[i] = id
          BY <3>1, <4>2
        <5>. QED BY <1>1, <1>3, <1>11, <2>3, <4>1, <5>1
      <4>3. CASE i \in 1..Len(effects)
        <5>1. effects'[i] = effects[i] /\ i \in DOMAIN effects
          BY <3>1, <4>3
        <5>2. /\ effects[i][1] \in DOMAIN said /\ WasCalled(effects[i])
              /\ \A c \in DOMAIN calls : calls[c].id # effects[i]
          BY <5>1 DEF RoundInv, EffectsInv
        <5>. QED BY <1>3, <1>11, <4>1, <5>1, <5>2
      <4>. QED BY <3>1, <4>2, <4>3
    <3>. QED BY <3>2, <3>3 DEF EffectsInv
  <2>. QED BY <1>0, <1>1, <2>2, <2>3
<1>14. ResultsInv'
  <2>1. ToSet(effects) \subseteq ToSet(effects') /\ ToSet(effects') \subseteq ToSet(effects) \cup {id}
        /\ (effects' = effects => id \notin ToSet(effects'))
        /\ (effects' # effects => id \in ToSet(effects'))
    <3>1. CASE effects' = effects
      BY <1>12, <3>1 DEF ToSet
    <3>2. CASE effects' = Append(effects, id)
      <4>1. Len(effects) \in Nat /\ DOMAIN effects = 1..Len(effects)
            /\ DOMAIN effects' = 1..(Len(effects) + 1) /\ effects'[Len(effects) + 1] = id
            /\ \A i \in 1..Len(effects) : effects'[i] = effects[i]
        BY <1>2, <1>6, <3>2, AppendProperties
      <4>. QED BY <4>1 DEF ToSet
    <3>. QED BY <1>0, <3>1, <3>2
  <2>1a. \A x : x # id => (x \in spoiled' <=> x \in spoiled)
    BY <1>0
  <2>2. ASSUME NEW x, ResultIsTrue(x), x.id # id PROVE ResultIsTrue(x)'
    BY <1>3, <1>11, <2>1, <2>1a, <2>2 DEF ResultIsTrue
  <2>3. ResultIsTrue(r)'
    <3>1. error <=> (id \notin ToSet(effects') \/ id \in spoiled')
      <4>1. CASE effects' = effects /\ error
        BY <2>1, <4>1
      <4>2. CASE effects' = Append(effects, id) /\ (error <=> id \in spoiled')
        <5>1. Append(effects, id) # effects
          BY <1>2, <1>6, AppendProperties
        <5>. QED BY <2>1, <4>2, <5>1
      <4>. QED BY <1>0, <4>1, <4>2
    <3>. QED BY <1>1, <1>3, <1>5, <1>11, <3>1 DEF ResultIsTrue
  <2>4. ASSUME NEW i \in DOMAIN talk', talk'[i].role = "tool"
        PROVE  ResultIsTrue(talk[i].blocks[1])'
    <3>1. PICK x : x = talk'[i].blocks[1]
      OBVIOUS
    <3>2. CASE i = Len(talk) + 1
      <4>1. x = r
        BY <1>7, <3>1, <3>2
      <4>. QED BY <2>3, <3>1, <4>1 DEF ResultIsTrue
    <3>3. CASE i \in 1..Len(talk)
      <4>1. talk'[i] = talk[i] /\ i \in DOMAIN talk
        BY <1>7, <3>3
      <4>2. ResultIsTrue(x)
        BY <2>4, <3>1, <4>1 DEF RoundInv, ResultsInv
      <4>3. x.id # id
        BY <1>0, <1>1, <4>2 DEF ResultIsTrue
      <4>. QED BY <2>2, <3>1, <4>2, <4>3 DEF ResultIsTrue
    <3>4. i \in 1..(Len(talk) + 1) /\ Len(talk) \in Nat
      BY <1>7
    <3>. QED BY <3>2, <3>3, <3>4
  <2>. QED BY <2>4 DEF ResultsInv
<1>. QED BY <1>8, <1>9, <1>10, <1>11a, <1>13, <1>14 DEF RoundInv

(* So does that of a call that was executed, whatever the hook after it    *)
(* makes of it.                                                            *)
LEMMA ExecutedInv ==
  ASSUME RoundInv, turn = "tools", NEW failed \in BOOLEAN, NEW unshown \in BOOLEAN,
         Executed(failed, unshown), unshown => failed,
         \/ effects' = effects /\ failed
         \/ /\ effects' = Append(effects, calls[1].id)
            /\ calls[1].name \in Allowed \cap Registered
            /\ failed => unshown
  PROVE  RoundInv'
<1>1. PICK objects \in BOOLEAN :
        /\ Answers(failed \/ objects)
        /\ spoiled' = IF unshown \/ objects THEN spoiled \cup {Head(calls).id} ELSE spoiled
  BY DEF Executed
<1>2. Head(calls) = calls[1] /\ calls[1].id \notin spoiled
  BY PendingCall
<1>3. (failed \/ objects) \in BOOLEAN
  OBVIOUS
<1>4. spoiled' = spoiled \/ spoiled' = spoiled \cup {calls[1].id}
  BY <1>1, <1>2
<1>5. calls[1].id \in spoiled' <=> (unshown \/ objects)
  BY <1>1, <1>2
<1>. QED BY <1>1, <1>3, <1>4, <1>5, AnswerInv

(* A reply's calls are those it says, each under the id of its place.      *)
LEMMA UtteredIsSaid ==
  ASSUME RoundInv, RoundAssumption, NEW blocks \in WireReplies[speaks], NEW how,
         NEW spell \in [DOMAIN blocks -> Spelled]
  PROVE  /\ Uttered(blocks, how, spell) \in Seq(SaidBlocks)
         /\ Numbered(Uttered(blocks, how, spell), Len(said) + 1)
<1> DEFINE k == Len(said) + 1
           spoken == Uttered(blocks, how, spell)
           WireBlocks == TextBlocks \cup [is : {"thought"}]
                           \cup [is : {"call"}, id : {<<>>}, name : STRING, input : Spelled]
<1>1. said \in Seq(Seq(SaidBlocks)) /\ speaks \in {"claw", "openai"}
  BY DEF RoundInv, RoundTypeOK
<1>2. k \in Nat
  BY <1>1
<1>3. blocks \in Seq(WireBlocks)
  BY <1>1 DEF RoundAssumption, TextBlocks
<1>4. ASSUME NEW i \in DOMAIN blocks
      PROVE  /\ spoken[i] \in SaidBlocks
             /\ spoken[i].is = "call" => spoken[i].id = <<k, i>>
  <2>1. i \in Nat /\ blocks[i] \in WireBlocks /\ spell[i] \in Spelled
    BY <1>3
  <2>2. CASE blocks[i].is # "call"
    <3>1. spoken[i] = blocks[i]
      BY <2>2 DEF Uttered
    <3>. QED BY <2>1, <2>2, <3>1 DEF SaidBlocks
  <2>3. CASE blocks[i].is = "call"
    <3>1. spoken[i] = Call(<<k, i>>, blocks[i].name, spell[i])
      BY <2>3 DEF Uttered
    <3>2. blocks[i].name \in STRING
      BY <2>1, <2>3 DEF TextBlocks
    <3>3. <<k, i>> \in Nat \X Nat
      BY <1>2, <2>1
    <3> HIDE DEF k, spoken
    <3>4. spoken[i] \in SaidCalls /\ spoken[i].id = <<k, i>>
      BY <2>1, <3>1, <3>2, <3>3 DEF Call, SaidCalls
    <3>. QED BY <3>4 DEF SaidBlocks
  <2>. QED BY <2>2, <2>3
<1>5. DOMAIN spoken = 1..Len(blocks) /\ Len(blocks) \in Nat /\ DOMAIN blocks = 1..Len(blocks)
      /\ spoken = [i \in 1..Len(blocks) |-> spoken[i]]
  BY <1>3 DEF Uttered
<1> HIDE DEF spoken
<1>6. spoken \in Seq(SaidBlocks)
  BY <1>4, <1>5
<1>7. Numbered(spoken, k)
  BY <1>4, <1>5 DEF Numbered
<1>. QED BY <1>6, <1>7 DEF spoken

LEMMA ReplyArrivesInv ==
  ASSUME RoundInv, RoundAssumption, NEW blocks \in WireReplies[speaks], NEW how,
         ReplyArrives(blocks, how)
  PROVE  RoundInv'
<1>1. PICK spell \in [DOMAIN blocks -> Spelled] :
        LET spoken == Uttered(blocks, how, spell)
            built  == Built(how, spoken)
        IN /\ said' = Append(said, spoken)
           /\ calls' = CallsOf(built)
           /\ IF built = <<>> THEN turn' = "done" /\ UNCHANGED talk
              ELSE /\ talk' = Append(talk, Message("assistant", built))
                   /\ turn' = IF calls' = <<>> THEN "done" ELSE "tools"
  BY DEF ReplyArrives
<1>2. PICK spoken, built :
        /\ spoken = Uttered(blocks, how, spell) /\ built = Built(how, spoken)
        /\ said' = Append(said, spoken) /\ calls' = CallsOf(built)
        /\ IF built = <<>> THEN turn' = "done" /\ UNCHANGED talk
           ELSE /\ talk' = Append(talk, Message("assistant", built))
                /\ turn' = IF calls' = <<>> THEN "done" ELSE "tools"
  BY <1>1
<1>3. UNCHANGED <<owner, speaks, asked, effects, spoiled>> /\ turn = "reply"
  BY DEF ReplyArrives
<1>4. Allowed' = Allowed /\ Registered' = Registered /\ OfferedTools' = OfferedTools
  BY <1>3, OwnerKeeps
<1>5. said \in Seq(Seq(SaidBlocks)) /\ talk \in Seq(Messages) /\ effects \in Seq(Nat \X Nat)
  BY DEF RoundInv, RoundTypeOK
<1> DEFINE k == Len(said) + 1
<1>6. k \in Nat
  BY <1>5
<1>7. spoken \in Seq(SaidBlocks) /\ Numbered(spoken, k)
  BY <1>2, UtteredIsSaid
<1>8. /\ said' \in Seq(Seq(SaidBlocks)) /\ Len(said') = k /\ said'[k] = spoken /\ said' # <<>>
      /\ k \in DOMAIN said' /\ k \notin DOMAIN said /\ DOMAIN said \subseteq DOMAIN said'
      /\ \A i \in DOMAIN said : said'[i] = said[i]
  <2>1. spoken \in Seq(SaidBlocks) /\ said' = Append(said, spoken)
    BY <1>2, <1>7
  <2>2. /\ said' \in Seq(Seq(SaidBlocks)) /\ Len(said') = k /\ said'[k] = spoken
        /\ \A i \in 1..Len(said) : said'[i] = said[i]
    BY <1>5, <2>1, AppendProperties
  <2>3. DOMAIN said = 1..Len(said) /\ Len(said) \in Nat /\ DOMAIN said' = 1..Len(said')
    BY <1>5, <2>2
  <2>4. k \in DOMAIN said' /\ k \notin DOMAIN said /\ DOMAIN said \subseteq DOMAIN said' /\ said' # <<>>
    BY <2>2, <2>3
  <2>. QED BY <2>2, <2>3, <2>4
<1> HIDE DEF k
<1>9. built \in Seq(BuiltBlocks) /\ Traced(built, spoken, Len(spoken))
  BY <1>2, <1>6, <1>7, BuiltTraced
<1>10. calls' \in Seq(BuiltCalls) /\ Traced(calls', spoken, Len(spoken))
  BY <1>2, <1>7, <1>9, CallsTraced
<1>11. \A c \in DOMAIN calls' : calls'[c].id[1] = k
  <2> SUFFICES ASSUME NEW c \in DOMAIN calls' PROVE calls'[c].id[1] = k
    OBVIOUS
  <2>1. calls'[c] \in BuiltCalls /\ calls'[c].is = "call"
    <3>1. calls'[c] \in BuiltCalls
      BY <1>10
    <3>. QED BY <3>1 DEF BuiltCalls
  <2>2. PICK j \in 1..Len(spoken) : SameCall(calls'[c], spoken[j])
    BY <1>10, <2>1 DEF Traced
  <2>3. calls'[c].id = <<k, j>>
    BY <1>7, <2>2 DEF SameCall, Numbered
  <2>. QED BY <2>3
<1>12. /\ talk' \in Seq(Messages)
       /\ \A i \in DOMAIN talk' : talk'[i].role = "tool" => i \in DOMAIN talk /\ talk'[i] = talk[i]
  <2>1. CASE built = <<>>
    BY <1>2, <1>5, <2>1
  <2>2. CASE built # <<>>
    <3>1. PICK m : m = Message("assistant", built)
      OBVIOUS
    <3>2. m \in Messages /\ m.role # "tool"
      BY <1>9, <3>1 DEF Message, Messages
    <3>3. talk' = Append(talk, m)
      BY <1>2, <2>2, <3>1
    <3>4. /\ talk' \in Seq(Messages) /\ DOMAIN talk' = 1..(Len(talk) + 1) /\ DOMAIN talk = 1..Len(talk)
          /\ Len(talk) \in Nat /\ talk'[Len(talk) + 1] = m
          /\ \A i \in 1..Len(talk) : talk'[i] = talk[i]
      BY <1>5, <3>2, <3>3, AppendProperties
    <3>5. ASSUME NEW i \in DOMAIN talk', talk'[i].role = "tool" PROVE i \in 1..Len(talk)
      BY <3>2, <3>4, <3>5
    <3>. QED BY <3>4, <3>5
  <2>. QED BY <2>1, <2>2
<1>13. RoundTypeOK'
  BY <1>2, <1>3, <1>8, <1>10, <1>12 DEF RoundInv, RoundTypeOK
<1>14. OfferInv'
  BY <1>3, <1>4 DEF RoundInv, OfferInv
<1>15. PendingInv'
  <2>1. turn' = "tools" => calls' # <<>>
    BY <1>2
  <2>. QED BY <1>8, <1>10, <1>11, <2>1 DEF PendingInv
<1>16. EffectsInv'
  <2>1. IsInjective(effects)'
    BY <1>3 DEF RoundInv, EffectsInv
  <2>2. ASSUME NEW i \in DOMAIN effects
        PROVE  /\ effects[i][1] \in DOMAIN said' /\ WasCalled(effects[i])'
               /\ \A c \in DOMAIN calls' : calls'[c].id # effects[i]
    <3>1. effects[i][1] \in DOMAIN said /\ WasCalled(effects[i])
      BY DEF RoundInv, EffectsInv
    <3>. QED BY <1>3, <1>4, <1>8, <1>11, <3>1 DEF WasCalled
  <2>. QED BY <1>3, <2>1, <2>2 DEF EffectsInv
<1>16a. SpoiledInv'
  <2> SUFFICES ASSUME NEW id \in spoiled
               PROVE  id[1] \in DOMAIN said' /\ \A c \in DOMAIN calls' : calls'[c].id # id
    BY <1>3 DEF SpoiledInv
  <2>1. id[1] \in DOMAIN said
    BY DEF RoundInv, SpoiledInv
  <2>. QED BY <1>8, <1>11, <2>1
<1>17. ResultsInv'
  <2>1. ASSUME NEW i \in DOMAIN talk', talk'[i].role = "tool"
        PROVE  ResultIsTrue(talk[i].blocks[1])'
    <3>1. PICK x : x = talk[i].blocks[1] /\ x = talk'[i].blocks[1]
      BY <1>12, <2>1
    <3>2. ResultIsTrue(x)
      BY <1>12, <2>1, <3>1 DEF RoundInv, ResultsInv
    <3>3. ResultIsTrue(x)'
      BY <1>3, <1>8, <1>11, <3>2 DEF ResultIsTrue
    <3>. QED BY <3>1, <3>3 DEF ResultIsTrue
  <2>. QED BY <2>1 DEF ResultsInv
<1>. QED BY <1>13, <1>14, <1>15, <1>16, <1>16a, <1>17 DEF RoundInv

LEMMA RoundNextInv ==
  ASSUME RoundInv, RoundAssumption, [RoundNext]_roundVars
  PROVE  RoundInv'
<1>0. effects \in Seq(Nat \X Nat) /\ calls \in Seq(BuiltCalls)
  BY DEF RoundInv, RoundTypeOK
<1>0a. turn = "tools" => Head(calls) = calls[1]
  BY PendingCall
<1>1. CASE SendRound
  BY <1>1, SendRoundInv
<1>2. ASSUME NEW blocks \in WireReplies[speaks], NEW how \in {"stream", "whole"}, ReplyArrives(blocks, how)
      PROVE  RoundInv'
  BY <1>2, ReplyArrivesInv
<1>3. CASE RejectCall
  BY <1>3, ExecutedInv DEF RejectCall
<1>4. CASE ToolFails
  BY <1>4, ExecutedInv DEF ToolFails
<1>5. CASE RefuseCall
  BY <1>5, AnswerInv DEF RefuseCall
<1>6. CASE ToolWorks
  BY <1>0a, <1>6, ExecutedInv DEF ToolWorks, Executable
<1>7. CASE ResultIsNotShown
  BY <1>0a, <1>7, ExecutedInv DEF ResultIsNotShown, Executable
<1>8. CASE UNCHANGED roundVars
  <2>1. UNCHANGED <<owner, speaks, turn, talk, asked, calls, said, effects, spoiled>>
    BY <1>8 DEF roundVars
  <2>2. Allowed' = Allowed /\ Registered' = Registered /\ OfferedTools' = OfferedTools
    BY <2>1, OwnerKeeps
  <2>. QED BY <2>1, <2>2 DEF RoundInv, RoundTypeOK, OfferInv, PendingInv, EffectsInv, SpoiledInv,
                           ResultsInv, WasCalled, ResultIsTrue
<1>. QED BY <1>1, <1>2, <1>3, <1>4, <1>5, <1>6, <1>7, <1>8 DEF RoundNext

LEMMA RoundInvHolds ==
  ASSUME RoundInv, RoundAssumption
  PROVE  OnlyOfferedToolsWork
<1>1. owner \in Owners /\ effects \in Seq(Nat \X Nat) /\ said \in Seq(Seq(SaidBlocks))
  BY DEF RoundInv, RoundTypeOK
<1>2. owner.who = "agent" => "Agent" \notin Allowed
  BY DEF Allowed, ToolsOf, Reading, Web, Editing
<1>3. ASSUME NEW i \in DOMAIN effects
      PROVE  \E block \in ToSet(said[effects[i][1]]) :
               /\ block.is = "call" /\ block.id = effects[i]
               /\ IF owner.enabled THEN block.name \in asked.tools ELSE block.name \in Allowed
               /\ owner.who = "agent" => block.name # "Agent"
  <2>1. PICK block \in ToSet(said[effects[i][1]]) :
          block.is = "call" /\ block.id = effects[i] /\ block.name \in Allowed \cap Registered
    BY DEF RoundInv, EffectsInv, WasCalled
  <2>2. said # <<>>
    BY <1>1 DEF RoundInv, EffectsInv
  <2>3. asked.tools = OfferedTools
    BY <2>2 DEF RoundInv, OfferInv
  <2>. QED BY <1>2, <2>1, <2>3 DEF OfferedTools
<1>. QED BY <1>3 DEF OnlyOfferedToolsWork, RoundInv, EffectsInv, ResultsInv, ResultIsTrue

(* In every turn, whoever runs it and whatever the provider says, a tool   *)
(* works only when it was offered, once for a call, and results tell so.   *)
THEOREM ToolsAreOffered == RoundSpec => []OnlyOfferedToolsWork
<1>1. RoundInit => RoundInv
  BY RoundInitInv
<1>2. RoundInv /\ [RoundNext]_roundVars => RoundInv'
  BY RoundAssumption, RoundNextInv
<1>3. RoundInv => OnlyOfferedToolsWork
  BY RoundAssumption, RoundInvHolds
<1>. QED BY <1>1, <1>2, <1>3, PTL DEF RoundSpec

-----------------------------------------------------------------------------
(* What is built of one block more.                                        *)
LEMMA BuiltType ==
  ASSUME NEW how, NEW blocks \in Seq(SaidBlocks)
  PROVE  Built(how, blocks) \in Seq(BuiltBlocks)
<1>1. PICK g \in [0..Len(blocks) -> Seq(BuiltBlocks)] : Built(how, blocks) = g[Len(blocks)]
  BY BuiltLoops
<1>2. Len(blocks) \in 0..Len(blocks)
  OBVIOUS
<1>. QED BY <1>1, <1>2

LEMMA BuiltEmpty ==
  ASSUME NEW how
  PROVE  Built(how, <<>>) = <<>>
<1> DEFINE none == <<>>
<1>1. none \in Seq(SaidBlocks) /\ Len(none) = 0
  OBVIOUS
<1> HIDE DEF none
<1>2. PICK g \in [0..Len(none) -> Seq(BuiltBlocks)] : g[0] = <<>> /\ Built(how, none) = g[Len(none)]
  BY <1>1, BuiltLoops
<1>. QED BY <1>1, <1>2 DEF none

LEMMA BuiltAppend ==
  ASSUME NEW how, NEW blocks \in Seq(SaidBlocks), NEW b \in SaidBlocks
  PROVE  Built(how, Append(blocks, b)) = WithBlock(Built(how, blocks), how, b)
<1> DEFINE N == Len(blocks)
           all == Append(blocks, b)
<1>1. /\ N \in Nat /\ all \in Seq(SaidBlocks) /\ Len(all) = N + 1 /\ all[N + 1] = b
      /\ \A i \in 1..N : all[i] = blocks[i]
  OBVIOUS
<1>2. PICK g \in [0..N -> Seq(BuiltBlocks)] :
        /\ g[0] = <<>> /\ Built(how, blocks) = g[N]
        /\ \A i \in 1..N : g[i] = WithBlock(g[i - 1], how, blocks[i])
  BY BuiltLoops
<1> HIDE DEF all, N
<1>2a. all \in Seq(SaidBlocks)
  BY <1>1
<1>3. PICK h \in [0..Len(all) -> Seq(BuiltBlocks)] :
        /\ h[0] = <<>> /\ Built(how, all) = h[Len(all)]
        /\ \A i \in 1..Len(all) : h[i] = WithBlock(h[i - 1], how, all[i])
  BY <1>2a, BuiltLoops
<1> DEFINE S == {n \in Nat : n <= N => h[n] = g[n]}
<1>4. 0 \in S
  BY <1>2, <1>3
<1>5. ASSUME NEW n \in Nat, n \in S PROVE n + 1 \in S
  <2> SUFFICES ASSUME n + 1 <= N PROVE h[n + 1] = g[n + 1]
    OBVIOUS
  <2>0. N \in Nat /\ n <= N
    BY <1>1
  <2>1. n + 1 \in 1..N /\ n + 1 \in 1..(N + 1) /\ (n + 1) - 1 = n /\ h[n] = g[n]
    BY <1>5, <2>0
  <2>2. g[n + 1] = WithBlock(g[n], how, blocks[n + 1])
    BY <1>2, <2>1
  <2>3. h[n + 1] = WithBlock(h[n], how, all[n + 1])
    BY <1>1, <1>3, <2>1
  <2>. QED BY <1>1, <2>1, <2>2, <2>3
<1>6. N \in S
  <2> HIDE DEF S
  <2>. QED BY <1>1, <1>4, <1>5, SetInduction
<1>7. h[N] = g[N]
  BY <1>1, <1>6
<1>8. h[N + 1] = WithBlock(h[N], how, all[N + 1])
  <2>1. N + 1 \in 1..(N + 1) /\ (N + 1) - 1 = N
    BY <1>1
  <2>. QED BY <1>1, <1>3, <2>1
<1>. QED BY <1>1, <1>2, <1>3, <1>7, <1>8 DEF all

(* A way to look at blocks that sees the same in a text whether it is one  *)
(* block or two, and in a call as it was said and as it is gathered, sees  *)
(* the same in a reply and in what is built of it.                         *)
SeesTexts(v) ==
  /\ v[TextBlock(<<>>)] = <<>>
  /\ \A a, b \in Seq(STRING) : v[TextBlock(a \o b)] = v[TextBlock(a)] \o v[TextBlock(b)]
SeesSame(v, w, how) ==
  \A b \in SaidBlocks :
    /\ b.is = "text" => w[b] = v[b]
    /\ b.is = "call" => w[b] = v[[b EXCEPT !.input = Gathered(how, @)]]
    /\ b.is \notin {"text", "call"} => w[b] = <<>>

Agree(how, A, v, w) ==
  v \in [BuiltBlocks -> Seq(A)] /\ w \in [SaidBlocks -> Seq(A)] /\ SeesTexts(v) /\ SeesSame(v, w, how)

LEMMA TextIsBlock ==
  /\ \A b \in BuiltBlocks : b.is = "text" => b.text \in Seq(STRING) /\ b = TextBlock(b.text)
  /\ \A b \in SaidBlocks : b.is = "text" => b.text \in Seq(STRING) /\ b = TextBlock(b.text)
  /\ \A letters \in Seq(STRING) : TextBlock(letters) \in BuiltBlocks /\ TextBlock(letters).is = "text"
<1>1. \A b \in TextBlocks : b.text \in Seq(STRING) /\ b = TextBlock(b.text)
  BY DEF TextBlocks, TextBlock
<1>2. \A letters \in Seq(STRING) : TextBlock(letters) \in BuiltBlocks /\ TextBlock(letters).is = "text"
  BY DEF TextBlock, TextBlocks, BuiltBlocks
<1>. QED BY <1>1, <1>2, BlockKinds

LEMMA FrontAndLast ==
  ASSUME NEW X, NEW s \in Seq(X), s # <<>>
  PROVE  Front(s) \in Seq(X) /\ Last(s) \in X /\ s = Append(Front(s), Last(s))
<1> DEFINE n == Len(s) - 1
<1>1. n \in Nat /\ n + 1 = Len(s) /\ Len(s) \in Nat \ {0}
  OBVIOUS
<1>2. Front(s) = SubSeq(s, 1, n) /\ Last(s) = s[n + 1]
  BY <1>1 DEF Front, Last
<1>3. SubSeq(s, 1, Len(s)) = s
  BY SubSeqFull
<1> HIDE DEF n
<1>4. /\ SubSeq(s, 1, n) \in Seq(X) /\ s[n + 1] \in X
      /\ SubSeq(s, 1, n + 1) = Append(SubSeq(s, 1, n), s[n + 1])
  BY <1>1, PrefixGrows
<1>. QED BY <1>1, <1>2, <1>3, <1>4

LEMMA ViewText ==
  ASSUME NEW A, NEW v \in [BuiltBlocks -> Seq(A)], SeesTexts(v),
         NEW built \in Seq(BuiltBlocks), NEW letters \in Seq(STRING)
  PROVE  View(v, WithText(built, letters)) = View(v, built) \o v[TextBlock(letters)]
<1> DEFINE new == TextBlock(letters)
<1>1. View(v, built) \in Seq(A)
  BY ViewType
<1>2. new \in BuiltBlocks
  BY TextIsBlock
<1>3. CASE letters = <<>>
  <2>1. v[new] = <<>>
    BY <1>3 DEF SeesTexts
  <2>2. WithText(built, letters) = built
    BY <1>3 DEF WithText
  <2>. QED BY <1>1, <2>1, <2>2, ConcatEmptySeq
<1>4. CASE letters # <<>> /\ built # <<>> /\ Last(built).is = "text"
  <2> DEFINE front == Front(built)
             last == Last(built)
             more == TextBlock(last.text \o letters)
  <2>1. front \in Seq(BuiltBlocks) /\ last \in BuiltBlocks /\ built = Append(front, last)
    BY <1>4, FrontAndLast
  <2>2. last.text \in Seq(STRING) /\ last = TextBlock(last.text)
    BY <1>4, <2>1, TextIsBlock
  <2>3. last.text \o letters \in Seq(STRING)
    BY <2>2
  <2>4. more \in BuiltBlocks
    BY <2>3, TextIsBlock
  <2>5. v[more] = v[last] \o v[new]
    BY <2>2 DEF SeesTexts
  <2>6. WithText(built, letters) = Append(front, more)
    BY <1>4 DEF WithText
  <2> HIDE DEF front, last, more, new
  <2>7. View(v, Append(front, last)) = View(v, front) \o v[last]
    BY <2>1, ViewAppend
  <2>8. View(v, Append(front, more)) = View(v, front) \o v[more]
    BY <2>1, <2>4, ViewAppend
  <2>9. View(v, front) \in Seq(A)
    BY <2>1, ViewType
  <2>10. View(v, front) \o (v[last] \o v[new]) = (View(v, front) \o v[last]) \o v[new]
    <3> DEFINE p == View(v, front)
               q == v[last]
               r == v[new]
    <3>1. p \in Seq(A) /\ q \in Seq(A) /\ r \in Seq(A)
      BY <1>2, <2>1, <2>9
    <3> HIDE DEF p, q, r
    <3>2. p \o (q \o r) = (p \o q) \o r
      BY <3>1, ConcatAssociative
    <3>. QED BY <3>2 DEF p, q, r
  <2>. QED BY <2>1, <2>5, <2>6, <2>7, <2>8, <2>10 DEF new
<1>5. CASE letters # <<>> /\ ~ (built # <<>> /\ Last(built).is = "text")
  <2>1. WithText(built, letters) = Append(built, new)
    BY <1>5 DEF WithText
  <2> HIDE DEF new
  <2>2. View(v, Append(built, new)) = View(v, built) \o v[new]
    BY <1>2, ViewAppend
  <2>. QED BY <2>1, <2>2 DEF new
<1>. QED BY <1>3, <1>4, <1>5

LEMMA ViewBlock ==
  ASSUME NEW how, NEW A, NEW v, NEW w, Agree(how, A, v, w),
         NEW built \in Seq(BuiltBlocks), NEW b \in SaidBlocks
  PROVE  View(v, WithBlock(built, how, b)) = View(v, built) \o w[b]
<1>0. /\ v \in [BuiltBlocks -> Seq(A)] /\ w \in [SaidBlocks -> Seq(A)]
      /\ SeesTexts(v) /\ SeesSame(v, w, how)
  BY DEF Agree
<1>1. CASE b.is = "text"
  <2>1. b.text \in Seq(STRING) /\ b = TextBlock(b.text)
    BY <1>1, TextIsBlock
  <2>2. WithBlock(built, how, b) = WithText(built, b.text)
    BY <1>1 DEF WithBlock
  <2>3. View(v, WithText(built, b.text)) = View(v, built) \o v[TextBlock(b.text)]
    BY <1>0, <2>1, ViewText
  <2>4. w[b] = v[b]
    BY <1>0, <1>1 DEF SeesSame
  <2>. QED BY <2>1, <2>2, <2>3, <2>4
<1>2. CASE b.is = "call"
  <2> DEFINE new == [b EXCEPT !.input = Gathered(how, @)]
  <2>1. b \in SaidCalls
    BY <1>2, BlockKinds
  <2>2. new \in BuiltBlocks
    BY <2>1, GatheredType DEF SaidCalls, BuiltCalls, BuiltBlocks
  <2>3. WithBlock(built, how, b) = Append(built, new)
    BY <1>2 DEF WithBlock
  <2>4. w[b] = v[new]
    BY <1>0, <1>2 DEF SeesSame
  <2> HIDE DEF new
  <2>5. View(v, Append(built, new)) = View(v, built) \o v[new]
    BY <1>0, <2>2, ViewAppend
  <2>. QED BY <2>3, <2>4, <2>5
<1>3. CASE b.is \notin {"text", "call"}
  <2>1. WithBlock(built, how, b) = built
    BY <1>3 DEF WithBlock
  <2>2. w[b] = <<>>
    BY <1>0, <1>3 DEF SeesSame
  <2>3. View(v, built) \in Seq(A)
    BY <1>0, ViewType
  <2>. QED BY <2>1, <2>2, <2>3, ConcatEmptySeq
<1>. QED BY <1>1, <1>2, <1>3

LEMMA ViewBuilt ==
  ASSUME NEW how, NEW A, NEW v, NEW w, Agree(how, A, v, w), NEW spoken \in Seq(SaidBlocks)
  PROVE  View(v, Built(how, spoken)) = View(w, spoken)
<1> DEFINE T == {s \in Seq(SaidBlocks) : View(v, Built(how, s)) = View(w, s)}
<1>1. <<>> \in T
  BY BuiltEmpty, ViewEmpty
<1>2. ASSUME NEW s \in Seq(SaidBlocks), NEW b \in SaidBlocks, s \in T PROVE Append(s, b) \in T
  <2> DEFINE built == Built(how, s)
  <2>1. built \in Seq(BuiltBlocks) /\ View(v, built) = View(w, s)
    BY <1>2, BuiltType
  <2>2. Built(how, Append(s, b)) = WithBlock(built, how, b)
    BY BuiltAppend
  <2> HIDE DEF built
  <2>3. View(v, WithBlock(built, how, b)) = View(v, built) \o w[b]
    <3>1. \A c \in Seq(BuiltBlocks) : View(v, WithBlock(c, how, b)) = View(v, c) \o w[b]
      BY ViewBlock
    <3>. QED BY <2>1, <3>1
  <2>4. View(w, Append(s, b)) = View(w, s) \o w[b]
    BY ViewAppend DEF Agree
  <2>5. View(v, Built(how, Append(s, b))) = View(w, Append(s, b))
    BY <2>1, <2>2, <2>3, <2>4
  <2>6. Append(s, b) \in Seq(SaidBlocks)
    OBVIOUS
  <2>. QED BY <2>5, <2>6
<1>3. \A s \in Seq(SaidBlocks) : s \in T
  <2> HIDE DEF T
  <2>. QED BY <1>1, <1>2, PrefixInduction
<1>. QED BY <1>3

-----------------------------------------------------------------------------
(* What is told of a reply, in items: of its blocks as they are built and  *)
(* converted for the provider, and as they were said.                      *)
ToldCalls == [is : {"call"}, id : Nat \X Nat, name : STRING, input : [wrapped : BOOLEAN, of : Spelled]]
SaidItems == TextBlocks \cup ToldCalls
Greetings == {TextBlock(<<x>>) : x \in {"p", "s"}}
ToldItems == SaidItems \cup ResultBlocks \cup Greetings

Conv(b) == IF b.is = "call" THEN [b EXCEPT !.input = Parsed(@)] ELSE b
ItemView == [b \in BuiltBlocks |-> ItemsOf(Conv(b))]
ItemSaid == [b \in SaidBlocks |-> ItemsOf(Meaning(b))]
TextView == [b \in BuiltBlocks |-> IF b.is = "text" THEN b.text ELSE <<>>]
TextSaid == [b \in SaidBlocks |-> IF b.is = "text" THEN b.text ELSE <<>>]
CallView == [b \in BuiltBlocks |-> IF b.is = "call" THEN <<Conv(b)>> ELSE <<>>]
CallSaid == [b \in SaidBlocks |-> IF b.is = "call" THEN <<Meaning(b)>> ELSE <<>>]
IdView   == [b \in BuiltBlocks |-> IF b.is = "call" THEN <<b.id>> ELSE <<>>]
IdSaid   == [b \in SaidBlocks |-> IF b.is = "call" THEN <<b.id>> ELSE <<>>]

(* The text of an input survives what the client makes of it.              *)
LEMMA InputsAreKept ==
  ASSUME NEW how, NEW spelled \in Spelled
  PROVE  /\ Parsed(Gathered(how, spelled)) = IF IsJson(spelled) THEN Value(spelled) ELSE Raw(spelled)
         /\ (IF IsJson(spelled) THEN Value(spelled) ELSE Raw(spelled)) \in [wrapped : BOOLEAN, of : Spelled]
BY DEF Parsed, Gathered, TextOf, Value, Raw, IsJson

LEMMA CallsAreMeant ==
  ASSUME NEW how, NEW b \in SaidCalls
  PROVE  /\ Conv([b EXCEPT !.input = Gathered(how, @)]) = Meaning(b)
         /\ Meaning(b) \in ToldCalls /\ Meaning(b).is = "call"
<1> DEFINE input == Gathered(how, b.input)
           value == IF IsJson(b.input) THEN Value(b.input) ELSE Raw(b.input)
<1>1. b.is = "call" /\ b.input \in Spelled
  BY DEF SaidCalls
<1>2. Parsed(input) = value /\ value \in [wrapped : BOOLEAN, of : Spelled]
  BY <1>1, InputsAreKept
<1>3. Meaning(b) = [b EXCEPT !.input = value]
  BY <1>1 DEF Meaning
<1>4. Conv([b EXCEPT !.input = input]) = [b EXCEPT !.input = Parsed(input)]
  <2> HIDE DEF input
  <2>. QED BY <1>1 DEF Conv, SaidCalls
<1> HIDE DEF input, value
<1>5. [b EXCEPT !.input = value] \in ToldCalls
  BY <1>2 DEF SaidCalls, ToldCalls
<1>6. \A c \in ToldCalls : c.is = "call"
  BY DEF ToldCalls
<1>. QED BY <1>2, <1>3, <1>4, <1>5, <1>6 DEF input

LEMMA ConvIs ==
  /\ \A b \in BuiltCalls : Conv(b) \in ToldCalls
  /\ \A b \in BuiltBlocks : b.is # "call" => Conv(b) = b
<1>1. ASSUME NEW b \in BuiltCalls PROVE Conv(b) \in ToldCalls
  <2>1. b.is = "call" /\ b.input \in {"plain", "wrapped"} \X Spelled
    BY DEF BuiltCalls
  <2>2. Parsed(b.input) \in [wrapped : BOOLEAN, of : Spelled]
    <3>1. b.input[2] \in Spelled
      BY <2>1
    <3>. QED BY <3>1 DEF Parsed, Value, Raw
  <2>. QED BY <2>1, <2>2 DEF Conv, BuiltCalls, ToldCalls
<1>. QED BY <1>1 DEF Conv

(* Letters, one after the other.                                           *)
LEMMA SpeltIs ==
  /\ \A a \in Seq(STRING) : Spelt(a) \in Seq(TextBlocks) /\ Len(Spelt(a)) = Len(a)
  /\ Spelt(<<>>) = <<>>
  /\ \A a, b \in Seq(STRING) : Spelt(a \o b) = Spelt(a) \o Spelt(b)
<1>1. ASSUME NEW a \in Seq(STRING)
      PROVE  /\ Spelt(a) \in Seq(TextBlocks) /\ Len(Spelt(a)) = Len(a)
             /\ \A i \in 1..Len(a) : Spelt(a)[i] = TextBlock(<<a[i]>>)
  <2>1. \A i \in 1..Len(a) : TextBlock(<<a[i]>>) \in TextBlocks
    BY DEF TextBlock, TextBlocks
  <2>2. DOMAIN a = 1..Len(a)
    OBVIOUS
  <2>. QED BY <2>1, <2>2 DEF Spelt
<1>2. Spelt(<<>>) = <<>>
  BY DEF Spelt
<1>3. ASSUME NEW a \in Seq(STRING), NEW b \in Seq(STRING)
      PROVE  Spelt(a \o b) = Spelt(a) \o Spelt(b)
  <2> DEFINE c == a \o b
             sa == Spelt(a)
             sb == Spelt(b)
             sc == Spelt(c)
             K == Len(a)
             L == Len(b)
  <2>1. /\ c \in Seq(STRING) /\ Len(c) = K + L /\ K \in Nat /\ L \in Nat
        /\ (\A i \in 1..K : c[i] = a[i]) /\ \A i \in 1..L : c[K + i] = b[i]
    OBVIOUS
  <2> HIDE DEF c
  <2>2. sa \in Seq(TextBlocks) /\ Len(sa) = K /\ \A i \in 1..K : sa[i] = TextBlock(<<a[i]>>)
    BY <1>1
  <2>3. sb \in Seq(TextBlocks) /\ Len(sb) = L /\ \A i \in 1..L : sb[i] = TextBlock(<<b[i]>>)
    BY <1>1
  <2>4. sc \in Seq(TextBlocks) /\ Len(sc) = K + L /\ \A i \in 1..(K + L) : sc[i] = TextBlock(<<c[i]>>)
    BY <1>1, <2>1
  <2> HIDE DEF sa, sb, sc, K, L
  <2> DEFINE both == sa \o sb
  <2>5. /\ both \in Seq(TextBlocks) /\ Len(both) = K + L
        /\ (\A i \in 1..K : both[i] = sa[i]) /\ \A i \in 1..L : both[K + i] = sb[i]
    <3>1. sa \in Seq(TextBlocks) /\ sb \in Seq(TextBlocks)
      BY <2>2, <2>3
    <3>2. /\ both \in Seq(TextBlocks) /\ Len(both) = Len(sa) + Len(sb)
          /\ (\A i \in 1..Len(sa) : both[i] = sa[i]) /\ \A i \in 1..Len(sb) : both[Len(sa) + i] = sb[i]
      BY <3>1
    <3> HIDE DEF both
    <3>. QED BY <2>2, <2>3, <3>2
  <2> HIDE DEF both
  <2>6. ASSUME NEW i \in 1..(K + L) PROVE sc[i] = both[i]
    <3>1. CASE i \in 1..K
      <4>1. sc[i] = TextBlock(<<a[i]>>)
        BY <2>1, <2>4, <3>1
      <4>. QED BY <2>2, <2>5, <3>1, <4>1
    <3>2. CASE i \notin 1..K
      <4>1. i - K \in 1..L /\ K + (i - K) = i
        BY <2>1, <3>2
      <4>2. c[i] = b[i - K] /\ both[i] = sb[i - K]
        BY <2>1, <2>5, <4>1
      <4>. QED BY <2>3, <2>4, <4>1, <4>2
    <3>. QED BY <3>1, <3>2
  <2>7. sc = both
    BY <2>4, <2>5, <2>6, SeqEqual
  <2>. QED BY <2>7 DEF sa, sb, sc, both, c
<1>. QED BY <1>1, <1>2, <1>3

LEMMA ItemsAgree ==
  ASSUME NEW how
  PROVE  Agree(how, SaidItems, ItemView, ItemSaid)
<1>1. ASSUME NEW b \in BuiltBlocks PROVE ItemsOf(Conv(b)) \in Seq(SaidItems)
  <2>1. CASE b.is = "text"
    <3>1. b.text \in Seq(STRING) /\ Conv(b) = b
      BY <2>1, TextIsBlock, ConvIs
    <3>2. Spelt(b.text) \in Seq(TextBlocks)
      BY <3>1, SpeltIs
    <3>3. ItemsOf(Conv(b)) = Spelt(b.text)
      BY <2>1, <3>1 DEF ItemsOf
    <3>. QED BY <3>2, <3>3 DEF SaidItems
  <2>2. CASE b.is # "text"
    <3>1. b \in BuiltCalls
      BY <2>2, BlockKinds DEF BuiltBlocks
    <3>2. Conv(b) \in ToldCalls /\ Conv(b).is = "call"
      BY <3>1, ConvIs DEF ToldCalls
    <3>3. ItemsOf(Conv(b)) = <<Conv(b)>>
      BY <3>2 DEF ItemsOf
    <3>. QED BY <3>2, <3>3 DEF SaidItems
  <2>. QED BY <2>1, <2>2
<1>2. ASSUME NEW b \in SaidBlocks PROVE ItemsOf(Meaning(b)) \in Seq(SaidItems)
  <2>1. CASE b.is = "text"
    <3>1. b.text \in Seq(STRING) /\ Meaning(b) = b
      BY <2>1, TextIsBlock DEF Meaning
    <3>2. Spelt(b.text) \in Seq(TextBlocks)
      BY <3>1, SpeltIs
    <3>3. ItemsOf(Meaning(b)) = Spelt(b.text)
      BY <2>1, <3>1 DEF ItemsOf
    <3>. QED BY <3>2, <3>3 DEF SaidItems
  <2>2. CASE b.is = "call"
    <3>1. Meaning(b) \in ToldCalls /\ Meaning(b).is = "call"
      BY <2>2, BlockKinds, CallsAreMeant
    <3>2. ItemsOf(Meaning(b)) = <<Meaning(b)>>
      BY <3>1 DEF ItemsOf
    <3>. QED BY <3>1, <3>2 DEF SaidItems
  <2>3. CASE b.is \notin {"text", "call"}
    <3>1. b.is = "thought" /\ Meaning(b) = b
      BY <2>3, BlockKinds DEF SaidBlocks, Meaning
    <3>2. ItemsOf(Meaning(b)) = <<>>
      BY <3>1 DEF ItemsOf
    <3>. QED BY <3>2
  <2>. QED BY <2>1, <2>2, <2>3
<1>3. ItemView \in [BuiltBlocks -> Seq(SaidItems)] /\ ItemSaid \in [SaidBlocks -> Seq(SaidItems)]
  BY <1>1, <1>2 DEF ItemView, ItemSaid
<1>4. \A a \in Seq(STRING) : ItemView[TextBlock(a)] = Spelt(a)
  <2> SUFFICES ASSUME NEW a \in Seq(STRING) PROVE ItemView[TextBlock(a)] = Spelt(a)
    OBVIOUS
  <2>1. TextBlock(a) \in BuiltBlocks /\ TextBlock(a).is = "text" /\ TextBlock(a).text = a
    BY TextIsBlock DEF TextBlock
  <2>2. Conv(TextBlock(a)) = TextBlock(a)
    BY <2>1, ConvIs
  <2>3. ItemsOf(TextBlock(a)) = Spelt(a)
    BY <2>1 DEF ItemsOf
  <2>. QED BY <2>1, <2>2, <2>3 DEF ItemView
<1>5. SeesTexts(ItemView)
  <2>1. ItemView[TextBlock(<<>>)] = <<>>
    <3>1. <<>> \in Seq(STRING)
      OBVIOUS
    <3>. QED BY <1>4, <3>1, SpeltIs
  <2>2. ASSUME NEW a \in Seq(STRING), NEW b \in Seq(STRING)
        PROVE  ItemView[TextBlock(a \o b)] = ItemView[TextBlock(a)] \o ItemView[TextBlock(b)]
    <3>1. a \o b \in Seq(STRING)
      OBVIOUS
    <3>2. ItemView[TextBlock(a \o b)] = Spelt(a \o b)
      BY <1>4, <3>1
    <3>3. Spelt(a \o b) = Spelt(a) \o Spelt(b)
      BY SpeltIs
    <3>. QED BY <1>4, <3>2, <3>3
  <2>. QED BY <2>1, <2>2 DEF SeesTexts
<1>6. ASSUME NEW b \in SaidBlocks
      PROVE  /\ b.is = "text" => ItemSaid[b] = ItemView[b]
             /\ b.is = "call" => ItemSaid[b] = ItemView[[b EXCEPT !.input = Gathered(how, @)]]
             /\ b.is \notin {"text", "call"} => ItemSaid[b] = <<>>
  <2>1. CASE b.is = "text"
    <3>1. b \in BuiltBlocks /\ Conv(b) = b /\ Meaning(b) = b
      BY <2>1, BlockKinds DEF BuiltBlocks, Conv, Meaning
    <3>. QED BY <2>1, <3>1 DEF ItemSaid, ItemView
  <2>2. CASE b.is = "call"
    <3> DEFINE new == [b EXCEPT !.input = Gathered(how, @)]
    <3>1. b \in SaidCalls
      BY <2>2, BlockKinds
    <3>2. new \in BuiltBlocks
      BY <3>1, GatheredType DEF SaidCalls, BuiltCalls, BuiltBlocks
    <3>3. Conv(new) = Meaning(b)
      BY <3>1, CallsAreMeant
    <3> HIDE DEF new
    <3>4. ItemSaid[b] = ItemView[new]
      BY <3>2, <3>3 DEF ItemSaid, ItemView
    <3>. QED BY <2>2, <3>4 DEF new
  <2>3. CASE b.is \notin {"text", "call"}
    <3>1. b.is = "thought" /\ Meaning(b) = b
      BY <2>3, BlockKinds DEF SaidBlocks, Meaning
    <3>. QED BY <2>3, <3>1 DEF ItemSaid, ItemsOf
  <2>. QED BY <2>1, <2>2, <2>3
<1>. QED BY <1>3, <1>5, <1>6 DEF Agree, SeesSame

LEMMA TextsAgree ==
  ASSUME NEW how
  PROVE  Agree(how, STRING, TextView, TextSaid)
<1>1. TextView \in [BuiltBlocks -> Seq(STRING)] /\ TextSaid \in [SaidBlocks -> Seq(STRING)]
  <2>1. ASSUME NEW b \in BuiltBlocks PROVE (IF b.is = "text" THEN b.text ELSE <<>>) \in Seq(STRING)
    <3>1. CASE b.is = "text"
      BY <3>1, TextIsBlock
    <3>2. CASE b.is # "text"
      BY <3>2
    <3>. QED BY <3>1, <3>2
  <2>2. ASSUME NEW b \in SaidBlocks PROVE (IF b.is = "text" THEN b.text ELSE <<>>) \in Seq(STRING)
    <3>1. CASE b.is = "text"
      BY <3>1, TextIsBlock
    <3>2. CASE b.is # "text"
      BY <3>2
    <3>. QED BY <3>1, <3>2
  <2>. QED BY <2>1, <2>2 DEF TextView, TextSaid
<1>2. \A a \in Seq(STRING) : TextView[TextBlock(a)] = a
  BY TextIsBlock DEF TextView, TextBlock
<1>3. SeesTexts(TextView)
  <2>1. <<>> \in Seq(STRING) /\ \A a, b \in Seq(STRING) : a \o b \in Seq(STRING)
    OBVIOUS
  <2>. QED BY <1>2, <2>1 DEF SeesTexts
<1>4. ASSUME NEW b \in SaidBlocks
      PROVE  /\ b.is = "text" => TextSaid[b] = TextView[b]
             /\ b.is = "call" => TextSaid[b] = TextView[[b EXCEPT !.input = Gathered(how, @)]]
             /\ b.is \notin {"text", "call"} => TextSaid[b] = <<>>
  <2>1. CASE b.is = "text"
    <3>1. b \in BuiltBlocks
      BY <2>1, BlockKinds DEF BuiltBlocks
    <3>. QED BY <2>1, <3>1 DEF TextSaid, TextView
  <2>2. CASE b.is = "call"
    <3> DEFINE new == [b EXCEPT !.input = Gathered(how, @)]
    <3>1. b \in SaidCalls
      BY <2>2, BlockKinds
    <3>2. new \in BuiltBlocks /\ new.is = "call"
      BY <3>1, GatheredType DEF SaidCalls, BuiltCalls, BuiltBlocks
    <3> HIDE DEF new
    <3>3. TextSaid[b] = TextView[new]
      BY <2>2, <3>2 DEF TextSaid, TextView
    <3>. QED BY <2>2, <3>3 DEF new
  <2>3. CASE b.is \notin {"text", "call"}
    BY <2>3 DEF TextSaid
  <2>. QED BY <2>1, <2>2, <2>3
<1>. QED BY <1>1, <1>3, <1>4 DEF Agree, SeesSame

(* The calls are seen by a field of theirs.                                *)
LEMMA CallsAgree ==
  ASSUME NEW how
  PROVE  Agree(how, ToldCalls, CallView, CallSaid) /\ Agree(how, Nat \X Nat, IdView, IdSaid)
<1>1. CallView \in [BuiltBlocks -> Seq(ToldCalls)] /\ CallSaid \in [SaidBlocks -> Seq(ToldCalls)]
  <2>1. ASSUME NEW b \in BuiltBlocks
        PROVE  (IF b.is = "call" THEN <<Conv(b)>> ELSE <<>>) \in Seq(ToldCalls)
    <3>1. b.is = "call" => Conv(b) \in ToldCalls
      BY BlockKinds, ConvIs
    <3>. QED BY <3>1
  <2>2. ASSUME NEW b \in SaidBlocks
        PROVE  (IF b.is = "call" THEN <<Meaning(b)>> ELSE <<>>) \in Seq(ToldCalls)
    <3>1. b.is = "call" => Meaning(b) \in ToldCalls
      BY BlockKinds, CallsAreMeant
    <3>. QED BY <3>1
  <2>. QED BY <2>1, <2>2 DEF CallView, CallSaid
<1>2. IdView \in [BuiltBlocks -> Seq(Nat \X Nat)] /\ IdSaid \in [SaidBlocks -> Seq(Nat \X Nat)]
  <2>1. \A b \in BuiltCalls \cup SaidCalls : b.id \in Nat \X Nat
    BY DEF BuiltCalls, SaidCalls
  <2>. QED BY <2>1, BlockKinds DEF IdView, IdSaid
<1>3. \A a \in Seq(STRING) : CallView[TextBlock(a)] = <<>> /\ IdView[TextBlock(a)] = <<>>
  BY TextIsBlock DEF CallView, IdView
<1>4. SeesTexts(CallView) /\ SeesTexts(IdView)
  <2>1. \A a, b \in Seq(STRING) : a \o b \in Seq(STRING)
    OBVIOUS
  <2>2. <<>> \in Seq(STRING) /\ <<>> \o <<>> = <<>>
    OBVIOUS
  <2>. QED BY <1>3, <2>1, <2>2 DEF SeesTexts
<1>5. ASSUME NEW b \in SaidBlocks
      PROVE  /\ b.is = "text" => CallSaid[b] = CallView[b] /\ IdSaid[b] = IdView[b]
             /\ b.is = "call" => LET new == [b EXCEPT !.input = Gathered(how, @)] IN
                                 CallSaid[b] = CallView[new] /\ IdSaid[b] = IdView[new]
             /\ b.is \notin {"text", "call"} => CallSaid[b] = <<>> /\ IdSaid[b] = <<>>
  <2>1. CASE b.is = "text"
    <3>1. b \in BuiltBlocks
      BY <2>1, BlockKinds DEF BuiltBlocks
    <3>. QED BY <2>1, <3>1 DEF CallSaid, CallView, IdSaid, IdView
  <2>2. CASE b.is = "call"
    <3> DEFINE new == [b EXCEPT !.input = Gathered(how, @)]
    <3>1. b \in SaidCalls
      BY <2>2, BlockKinds
    <3>2. new \in BuiltBlocks /\ new.is = "call" /\ new.id = b.id
      BY <3>1, GatheredType DEF SaidCalls, BuiltCalls, BuiltBlocks
    <3>3. Conv(new) = Meaning(b)
      BY <3>1, CallsAreMeant
    <3> HIDE DEF new
    <3>4. CallSaid[b] = CallView[new] /\ IdSaid[b] = IdView[new]
      BY <2>2, <3>2, <3>3 DEF CallSaid, CallView, IdSaid, IdView
    <3>. QED BY <2>2, <3>4 DEF new
  <2>3. CASE b.is \notin {"text", "call"}
    BY <2>3 DEF CallSaid, IdSaid
  <2>. QED BY <2>1, <2>2, <2>3
<1>6. SeesSame(CallView, CallSaid, how)
  BY <1>5 DEF SeesSame
<1>7. SeesSame(IdView, IdSaid, how)
  BY <1>5 DEF SeesSame
<1>. QED BY <1>1, <1>2, <1>4, <1>6, <1>7 DEF Agree

-----------------------------------------------------------------------------
(* What a provider is told of its reply, and of a message of the session.  *)
Tongues == {"claw", "openai"}
EchoOf(tongue, reply) ==
  IF tongue = "claw" THEN View(ItemSaid, reply)
  ELSE Spelt(View(TextSaid, reply)) \o View(CallSaid, reply)
TellOf(tongue, m) ==
  IF m.role = "assistant"
  THEN IF tongue = "claw" THEN View(ItemView, m.blocks)
       ELSE Spelt(View(TextView, m.blocks)) \o View(CallView, m.blocks)
  ELSE IF m.role = "tool" THEN m.blocks ELSE Spelt(m.blocks[1].text)

LEMMA EchoType ==
  ASSUME NEW tongue \in Tongues, NEW reply \in Seq(SaidBlocks)
  PROVE  EchoOf(tongue, reply) \in Seq(SaidItems)
<1>1. View(ItemSaid, reply) \in Seq(SaidItems)
  <2>1. ItemSaid \in [SaidBlocks -> Seq(SaidItems)]
    BY ItemsAgree DEF Agree
  <2>. QED BY <2>1, ViewType
<1>2. Spelt(View(TextSaid, reply)) \in Seq(TextBlocks)
  <2>1. TextSaid \in [SaidBlocks -> Seq(STRING)]
    BY TextsAgree DEF Agree
  <2>2. View(TextSaid, reply) \in Seq(STRING)
    BY <2>1, ViewType
  <2>. QED BY <2>2, SpeltIs
<1>3. View(CallSaid, reply) \in Seq(ToldCalls)
  <2>1. CallSaid \in [SaidBlocks -> Seq(ToldCalls)]
    BY CallsAgree DEF Agree
  <2>. QED BY <2>1, ViewType
<1>4. Spelt(View(TextSaid, reply)) \in Seq(SaidItems) /\ View(CallSaid, reply) \in Seq(SaidItems)
  BY <1>2, <1>3 DEF SaidItems
<1>5. \A a, b \in Seq(SaidItems) : a \o b \in Seq(SaidItems)
  OBVIOUS
<1>. QED BY <1>1, <1>4, <1>5 DEF EchoOf

(* A reply is told as it was said, however the client gathered it.         *)
LEMMA TellIsEcho ==
  ASSUME NEW tongue \in Tongues, NEW how, NEW spoken \in Seq(SaidBlocks)
  PROVE  TellOf(tongue, Message("assistant", Built(how, spoken))) = EchoOf(tongue, spoken)
<1> DEFINE built == Built(how, spoken)
<1>1. View(ItemView, built) = View(ItemSaid, spoken)
  <2>1. Agree(how, SaidItems, ItemView, ItemSaid)
    BY ItemsAgree
  <2>. QED BY <2>1, ViewBuilt
<1>2. View(TextView, built) = View(TextSaid, spoken)
  <2>1. Agree(how, STRING, TextView, TextSaid)
    BY TextsAgree
  <2>. QED BY <2>1, ViewBuilt
<1>3. View(CallView, built) = View(CallSaid, spoken)
  <2>1. Agree(how, ToldCalls, CallView, CallSaid)
    BY CallsAgree
  <2>. QED BY <2>1, ViewBuilt
<1> HIDE DEF built
<1>4. Message("assistant", built).role = "assistant" /\ Message("assistant", built).blocks = built
  BY DEF Message
<1>5. TellOf(tongue, Message("assistant", built)) = EchoOf(tongue, spoken)
  BY <1>1, <1>2, <1>3, <1>4 DEF TellOf, EchoOf
<1>. QED BY <1>5 DEF built

LEMMA SpeltOne == \A x : Spelt(<<x>>) = <<TextBlock(<<x>>)>>
BY DEF Spelt

LEMMA MessageKinds ==
  ASSUME NEW m \in Messages
  PROVE  \/ m.role = "assistant" /\ m.blocks \in Seq(BuiltBlocks)
         \/ m.role = "tool" /\ \E r \in ResultBlocks : m.blocks = <<r>>
         \/ m.role \in {"user", "system"} /\ \E x \in {"p", "s"} : m.blocks = <<TextBlock(<<x>>)>>
<1>1. CASE m \in {Prompt, Summary}
  <2>1. /\ Prompt.role = "user" /\ Prompt.blocks = <<TextBlock(<<"p">>)>>
        /\ Summary.role = "system" /\ Summary.blocks = <<TextBlock(<<"s">>)>>
    BY DEF Prompt, Summary, Message
  <2>. QED BY <1>1, <2>1
<1>2. CASE m \in [role : {"assistant"}, blocks : Seq(BuiltBlocks)]
  BY <1>2
<1>3. CASE m \in [role : {"tool"}, blocks : {<<r>> : r \in ResultBlocks}]
  BY <1>3
<1>. QED BY <1>1, <1>2, <1>3 DEF Messages

LEMMA TellType ==
  ASSUME NEW tongue \in Tongues, NEW m \in Messages
  PROVE  TellOf(tongue, m) \in Seq(ToldItems)
<1>1. CASE m.role = "assistant" /\ m.blocks \in Seq(BuiltBlocks)
  <2> DEFINE s == m.blocks
  <2>1. s \in Seq(BuiltBlocks)
    BY <1>1
  <2>2. /\ ItemView \in [BuiltBlocks -> Seq(SaidItems)] /\ TextView \in [BuiltBlocks -> Seq(STRING)]
        /\ CallView \in [BuiltBlocks -> Seq(ToldCalls)]
    BY ItemsAgree, TextsAgree, CallsAgree DEF Agree
  <2> HIDE DEF s
  <2>3. View(ItemView, s) \in Seq(SaidItems)
    BY <2>1, <2>2, ViewType
  <2>4. View(TextView, s) \in Seq(STRING)
    BY <2>1, <2>2, ViewType
  <2>5. View(CallView, s) \in Seq(ToldCalls)
    BY <2>1, <2>2, ViewType
  <2>6. Spelt(View(TextView, s)) \in Seq(TextBlocks)
    BY <2>4, SpeltIs
  <2>7. /\ View(ItemView, s) \in Seq(ToldItems) /\ View(CallView, s) \in Seq(ToldItems)
        /\ Spelt(View(TextView, s)) \in Seq(ToldItems)
    BY <2>3, <2>5, <2>6 DEF SaidItems, ToldItems
  <2>8. \A a, b \in Seq(ToldItems) : a \o b \in Seq(ToldItems)
    OBVIOUS
  <2>. QED BY <1>1, <2>7, <2>8 DEF TellOf, s
<1>2. CASE m.role = "tool" /\ \E r \in ResultBlocks : m.blocks = <<r>>
  <2>1. PICK r \in ResultBlocks : m.blocks = <<r>>
    BY <1>2
  <2>2. r \in ToldItems
    BY DEF ToldItems
  <2>. QED BY <1>2, <2>1, <2>2 DEF TellOf
<1>3. CASE m.role \in {"user", "system"} /\ \E x \in {"p", "s"} : m.blocks = <<TextBlock(<<x>>)>>
  <2>1. PICK x \in {"p", "s"} : m.blocks = <<TextBlock(<<x>>)>>
    BY <1>3
  <2>2. m.blocks[1] = TextBlock(<<x>>) /\ TextBlock(<<x>>).text = <<x>>
    BY <2>1 DEF TextBlock
  <2>3. TellOf(tongue, m) = Spelt(<<x>>)
    BY <1>3, <2>2 DEF TellOf
  <2>4. TextBlock(<<x>>) \in ToldItems
    BY DEF ToldItems, Greetings
  <2>5. Spelt(<<x>>) = <<TextBlock(<<x>>)>>
    BY SpeltOne
  <2>6. <<TextBlock(<<x>>)>> \in Seq(ToldItems)
    BY <2>4
  <2>. QED BY <2>3, <2>5, <2>6
<1>. QED BY <1>1, <1>2, <1>3, MessageKinds

(* The message as the two interfaces have it.                              *)
LEMMA ConvertedIs ==
  ASSUME NEW blocks \in Seq(BuiltBlocks), NEW m, m.role = "assistant", m.blocks = blocks
  PROVE  /\ Converted(m).role = "assistant"
         /\ Items(Converted(m).blocks) = View(ItemView, blocks)
         /\ Letters(Converted(m).blocks) = View(TextView, blocks)
         /\ CallsOf(Converted(m).blocks) = View(CallView, blocks)
<1> DEFINE c == [i \in DOMAIN blocks |-> Conv(blocks[i])]
           N == Len(blocks)
<1>1. Converted(m).role = "assistant" /\ Converted(m).blocks = c
  BY DEF Converted, Message, Conv
<1>2. DOMAIN blocks = 1..N /\ \A i \in 1..N : blocks[i] \in BuiltBlocks
  OBVIOUS
<1>3. DOMAIN c = 1..N /\ \A i \in 1..N : c[i] = Conv(blocks[i])
  BY <1>2
<1>4. ASSUME NEW b \in BuiltBlocks
      PROVE  /\ ItemsOf(Conv(b)) = ItemView[b]
             /\ (IF Conv(b).is = "text" THEN Conv(b).text ELSE <<>>) = TextView[b]
             /\ (IF Conv(b).is = "call" THEN <<Conv(b)>> ELSE <<>>) = CallView[b]
  <2>1. CASE b.is = "call"
    <3>1. Conv(b).is = "call"
      BY <2>1, BlockKinds, ConvIs DEF ToldCalls
    <3>. QED BY <2>1, <3>1 DEF ItemView, TextView, CallView
  <2>2. CASE b.is # "call"
    <3>1. Conv(b) = b
      BY <2>2, ConvIs
    <3>. QED BY <2>2, <3>1 DEF ItemView, TextView, CallView
  <2>. QED BY <2>1, <2>2
<1> HIDE DEF c, N
<1>5. Items(c) = View(ItemView, blocks)
  <2>1. [i \in DOMAIN c |-> ItemsOf(c[i])] = [i \in DOMAIN blocks |-> ItemView[blocks[i]]]
    BY <1>2, <1>3, <1>4
  <2>. QED BY <2>1 DEF Items, View
<1>6. Letters(c) = View(TextView, blocks)
  <2>1. [i \in DOMAIN c |-> IF c[i].is = "text" THEN c[i].text ELSE <<>>]
          = [i \in DOMAIN blocks |-> TextView[blocks[i]]]
    <3>1. \A i \in 1..N : (IF c[i].is = "text" THEN c[i].text ELSE <<>>) = TextView[blocks[i]]
      <4> TAKE i \in 1..N
      <4>1. blocks[i] \in BuiltBlocks /\ c[i] = Conv(blocks[i])
        BY <1>2, <1>3
      <4>. QED BY <1>4, <4>1
    <3>. QED BY <1>2, <1>3, <3>1
  <2>. QED BY <2>1 DEF Letters, View
<1>7. CallsOf(c) = View(CallView, blocks)
  <2>1. [i \in DOMAIN c |-> IF c[i].is = "call" THEN <<c[i]>> ELSE <<>>]
          = [i \in DOMAIN blocks |-> CallView[blocks[i]]]
    BY <1>2, <1>3, <1>4
  <2>. QED BY <2>1 DEF CallsOf, View
<1>. QED BY <1>1, <1>5, <1>6, <1>7

LEMMA EchoIs ==
  ASSUME NEW reply \in Seq(SaidBlocks), speaks \in Tongues
  PROVE  Echo(reply) = EchoOf(speaks, reply)
<1> DEFINE c == [i \in DOMAIN reply |-> Meaning(reply[i])]
           N == Len(reply)
<1>2. DOMAIN reply = 1..N /\ \A i \in 1..N : reply[i] \in SaidBlocks
  OBVIOUS
<1>3. DOMAIN c = 1..N /\ \A i \in 1..N : c[i] = Meaning(reply[i])
  BY <1>2
<1>3a. Echo(reply) = IF speaks = "claw" THEN Items(c) ELSE Spelt(Letters(reply)) \o CallsOf(c)
  BY DEF Echo
<1>4. ASSUME NEW b \in SaidBlocks
      PROVE  /\ ItemsOf(Meaning(b)) = ItemSaid[b]
             /\ (IF b.is = "text" THEN b.text ELSE <<>>) = TextSaid[b]
             /\ (IF Meaning(b).is = "call" THEN <<Meaning(b)>> ELSE <<>>) = CallSaid[b]
  <2>1. CASE b.is = "call"
    <3>1. Meaning(b).is = "call"
      BY <2>1, BlockKinds, CallsAreMeant
    <3>. QED BY <2>1, <3>1 DEF ItemSaid, TextSaid, CallSaid
  <2>2. CASE b.is # "call"
    <3>1. Meaning(b) = b
      BY <2>2 DEF Meaning
    <3>. QED BY <2>2, <3>1 DEF ItemSaid, TextSaid, CallSaid
  <2>. QED BY <2>1, <2>2
<1> HIDE DEF c, N
<1>5. Items(c) = View(ItemSaid, reply)
  <2>1. [i \in DOMAIN c |-> ItemsOf(c[i])] = [i \in DOMAIN reply |-> ItemSaid[reply[i]]]
    BY <1>2, <1>3, <1>4
  <2>. QED BY <2>1 DEF Items, View
<1>6. Letters(reply) = View(TextSaid, reply)
  <2>1. [i \in DOMAIN reply |-> IF reply[i].is = "text" THEN reply[i].text ELSE <<>>]
          = [i \in DOMAIN reply |-> TextSaid[reply[i]]]
    BY <1>2, <1>4
  <2>. QED BY <2>1 DEF Letters, View
<1>7. CallsOf(c) = View(CallSaid, reply)
  <2>1. [i \in DOMAIN c |-> IF c[i].is = "call" THEN <<c[i]>> ELSE <<>>]
          = [i \in DOMAIN reply |-> CallSaid[reply[i]]]
    BY <1>2, <1>3, <1>4
  <2>. QED BY <2>1 DEF CallsOf, View
<1>. QED BY <1>3a, <1>5, <1>6, <1>7 DEF EchoOf

-----------------------------------------------------------------------------
(* What a session tells, and that a request tells it.                      *)
Telling(tongue, tk) == View([m \in Messages |-> TellOf(tongue, m)], tk)

LEMMA TellingIs ==
  ASSUME NEW tongue \in Tongues, NEW tk \in Seq(Messages), NEW m \in Messages
  PROVE  /\ Telling(tongue, tk) \in Seq(ToldItems)
         /\ Telling(tongue, Append(tk, m)) = Telling(tongue, tk) \o TellOf(tongue, m)
<1> DEFINE w == [x \in Messages |-> TellOf(tongue, x)]
<1>1. w \in [Messages -> Seq(ToldItems)] /\ w[m] = TellOf(tongue, m)
  BY TellType
<1>2. Telling(tongue, tk) = View(w, tk) /\ Telling(tongue, Append(tk, m)) = View(w, Append(tk, m))
  BY DEF Telling
<1> HIDE DEF w
<1>3. View(w, tk) \in Seq(ToldItems)
  BY <1>1, ViewType
<1>4. View(w, Append(tk, m)) = View(w, tk) \o w[m]
  BY <1>1, ViewAppend
<1>. QED BY <1>1, <1>2, <1>3, <1>4

(* The Claw-style interface tells a message as the session has it.         *)
LEMMA ClawTells ==
  ASSUME NEW m \in Messages
  PROVE  Items(Converted(m).blocks) = TellOf("claw", m)
<1>1. CASE m.role = "assistant" /\ m.blocks \in Seq(BuiltBlocks)
  BY <1>1, ConvertedIs DEF TellOf
<1>2. CASE m.role = "tool" /\ \E r \in ResultBlocks : m.blocks = <<r>>
  <2>1. PICK r \in ResultBlocks : m.blocks = <<r>>
    BY <1>2
  <2>2. r.is = "result"
    BY DEF ResultBlocks
  <2>3. Converted(m).blocks = <<r>>
    BY <2>1, <2>2 DEF Converted, Message
  <2>4. [i \in DOMAIN <<r>> |-> ItemsOf(<<r>>[i])] = << <<r>> >>
    BY <2>2 DEF ItemsOf
  <2>5. FlattenSeq(<< <<r>> >>) = <<r>>
    BY FlattenOne
  <2>. QED BY <1>2, <2>1, <2>3, <2>4, <2>5 DEF Items, TellOf
<1>3. CASE m.role \in {"user", "system"} /\ \E x \in {"p", "s"} : m.blocks = <<TextBlock(<<x>>)>>
  <2>1. PICK x \in {"p", "s"} : m.blocks = <<TextBlock(<<x>>)>>
    BY <1>3
  <2>1a. PICK t : t = TextBlock(<<x>>)
    OBVIOUS
  <2>2. t = TextBlock(<<x>>) /\ t.is = "text" /\ t.text = <<x>>
    BY <2>1a DEF TextBlock
  <2>3. Converted(m).blocks = <<t>>
    BY <2>1, <2>2 DEF Converted, Message
  <2>4. [i \in DOMAIN <<t>> |-> ItemsOf(<<t>>[i])] = << Spelt(<<x>>) >>
    BY <2>2 DEF ItemsOf
  <2>5. FlattenSeq(<< Spelt(<<x>>) >>) = Spelt(<<x>>)
    BY FlattenOne
  <2>6. TellOf("claw", m) = Spelt(<<x>>)
    BY <1>3, <2>1, <2>2 DEF TellOf
  <2>. QED BY <2>3, <2>4, <2>5, <2>6 DEF Items
<1>. QED BY <1>1, <1>2, <1>3, MessageKinds

(* A message of the OpenAI-tongue interface.                                *)
OpenAiMessages == [role : {"assistant", "tool", "user"}, text : Seq(STRING) \cup {<<"p">>, <<"s">>},
                   of : Seq(ToldItems)]
ToldOf(x) == Spelt(x.text) \o x.of

LEMMA OpenAiTells ==
  ASSUME NEW m \in Messages
  PROVE  /\ Translated(Converted(m)) \in Seq(OpenAiMessages)
         /\ FlattenSeq([i \in DOMAIN Translated(Converted(m)) |-> ToldOf(Translated(Converted(m))[i])])
              = TellOf("openai", m)
<1> DEFINE those == Translated(Converted(m))
<1> SUFFICES \E x \in OpenAiMessages : those = <<x>> /\ ToldOf(x) = TellOf("openai", m)
  <2> HIDE DEF those
  <2>1. PICK x \in OpenAiMessages : those = <<x>> /\ ToldOf(x) = TellOf("openai", m)
    OBVIOUS
  <2>2. [i \in DOMAIN <<x>> |-> ToldOf(<<x>>[i])] = << ToldOf(x) >>
    OBVIOUS
  <2>3. FlattenSeq(<< ToldOf(x) >>) = ToldOf(x)
    BY FlattenOne
  <2>. QED BY <2>1, <2>2, <2>3 DEF those
<1>1. CASE m.role = "assistant" /\ m.blocks \in Seq(BuiltBlocks)
  <2> DEFINE s == m.blocks
             c == Converted(m)
             x == OpenAi("assistant", View(TextView, s), View(CallView, s))
  <2>1. /\ c.role = "assistant" /\ Letters(c.blocks) = View(TextView, s)
        /\ CallsOf(c.blocks) = View(CallView, s)
    BY <1>1, ConvertedIs
  <2>2. s \in Seq(BuiltBlocks)
    BY <1>1
  <2>3. TextView \in [BuiltBlocks -> Seq(STRING)] /\ CallView \in [BuiltBlocks -> Seq(ToldCalls)]
    BY TextsAgree, CallsAgree DEF Agree
  <2> HIDE DEF s, c
  <2>4. View(TextView, s) \in Seq(STRING)
    BY <2>2, <2>3, ViewType
  <2>5. View(CallView, s) \in Seq(ToldCalls)
    BY <2>2, <2>3, ViewType
  <2>6. View(CallView, s) \in Seq(ToldItems)
    BY <2>5 DEF ToldItems, SaidItems
  <2>7. x \in OpenAiMessages
    BY <2>4, <2>6 DEF OpenAi, OpenAiMessages
  <2>8. Translated(c) = <<x>>
    BY <2>1 DEF Translated
  <2>9. ToldOf(x) = TellOf("openai", m)
    BY <1>1 DEF ToldOf, OpenAi, TellOf, s
  <2>. QED BY <2>7, <2>8, <2>9 DEF c
<1>2. CASE m.role = "tool" /\ \E r \in ResultBlocks : m.blocks = <<r>>
  <2>1. PICK r \in ResultBlocks : m.blocks = <<r>>
    BY <1>2
  <2>2. r.is = "result" /\ r \in ToldItems
    BY DEF ResultBlocks, ToldItems
  <2>3. Converted(m).role # "assistant" /\ Converted(m).blocks = <<r>>
    BY <1>2, <2>1, <2>2 DEF Converted, Message
  <2> DEFINE x == OpenAi("tool", <<>>, <<r>>)
  <2>4. <<r>> \in Seq(ToldItems) /\ <<>> \in Seq(STRING)
    BY <2>2
  <2>5. x \in OpenAiMessages
    BY <2>4 DEF OpenAi, OpenAiMessages
  <2>6. those = <<x>>
    BY <2>2, <2>3 DEF Translated
  <2>7. ToldOf(x) = <<>> \o <<r>>
    BY SpeltIs DEF ToldOf, OpenAi
  <2>8. <<>> \o <<r>> = <<r>>
    BY <2>4, ConcatEmptySeq
  <2>9. TellOf("openai", m) = <<r>>
    BY <1>2, <2>1 DEF TellOf
  <2>. QED BY <2>5, <2>6, <2>7, <2>8, <2>9
<1>3. CASE m.role \in {"user", "system"} /\ \E x \in {"p", "s"} : m.blocks = <<TextBlock(<<x>>)>>
  <2>1. PICK l \in {"p", "s"} : m.blocks = <<TextBlock(<<l>>)>>
    BY <1>3
  <2>1a. PICK t : t = TextBlock(<<l>>)
    OBVIOUS
  <2>2. t = TextBlock(<<l>>) /\ t.is = "text" /\ t.text = <<l>>
    BY <2>1a DEF TextBlock
  <2>3. Converted(m).role # "assistant" /\ Converted(m).blocks = <<t>>
    BY <1>3, <2>1, <2>2 DEF Converted, Message
  <2> DEFINE x == OpenAi("user", <<l>>, <<>>)
  <2>4. <<>> \in Seq(ToldItems)
    OBVIOUS
  <2>5. x \in OpenAiMessages
    BY <2>4 DEF OpenAi, OpenAiMessages
  <2>6. those = <<x>>
    BY <2>2, <2>3 DEF Translated
  <2>7. Spelt(<<l>>) = <<t>> /\ <<t>> \o <<>> = <<t>>
    BY <2>2, SpeltOne
  <2>8. ToldOf(x) = Spelt(<<l>>)
    BY <2>7 DEF ToldOf, OpenAi
  <2>9. TellOf("openai", m) = Spelt(<<l>>)
    BY <1>3, <2>1, <2>2 DEF TellOf
  <2>. QED BY <2>5, <2>6, <2>8, <2>9
<1>. QED BY <1>1, <1>2, <1>3, MessageKinds

(* What a message on its way tells.                                        *)
ToldIn(tongue, m) == IF tongue = "claw" THEN Items(m.blocks) ELSE ToldOf(m)

(* What the messages tell that the session's messages become.              *)
LEMMA MessagesFlatten ==
  ASSUME NEW v \in [OpenAiMessages -> Seq(ToldItems)], NEW ss \in Seq(Seq(OpenAiMessages))
  PROVE  View(v, FlattenSeq(ss)) = FlattenSeq([i \in DOMAIN ss |-> View(v, ss[i])])
BY ViewFlatten

(* What a request has for a session, and what is told by it.               *)
ConvertedAll(tk) == [i \in DOMAIN tk |-> Converted(tk[i])]
SentOf(tongue, tk) ==
  IF tongue = "claw" THEN ConvertedAll(tk)
  ELSE FlattenSeq([i \in DOMAIN ConvertedAll(tk) |-> Translated(ConvertedAll(tk)[i])])
ToldOver(tongue, msgs) == FlattenSeq([i \in DOMAIN msgs |-> ToldIn(tongue, msgs[i])])

LEMMA SentIsTold ==
  ASSUME NEW tongue \in Tongues, NEW tk \in Seq(Messages)
  PROVE  ToldOver(tongue, SentOf(tongue, tk)) = Telling(tongue, tk)
<1> DEFINE messages == ConvertedAll(tk)
           msgs == SentOf(tongue, tk)
<1> SUFFICES FlattenSeq([i \in DOMAIN msgs |-> ToldIn(tongue, msgs[i])]) = Telling(tongue, tk)
  BY DEF ToldOver
<1>0. /\ messages = [i \in DOMAIN tk |-> Converted(tk[i])]
      /\ msgs = IF tongue = "claw" THEN messages
                ELSE FlattenSeq([i \in DOMAIN messages |-> Translated(messages[i])])
  BY DEF SentOf, ConvertedAll
<1> HIDE DEF messages, msgs
<1> DEFINE N == Len(tk)
           w == [m \in Messages |-> TellOf(tongue, m)]
<1>1. N \in Nat /\ DOMAIN tk = 1..N /\ \A i \in 1..N : tk[i] \in Messages
  OBVIOUS
<1>2. DOMAIN messages = 1..N /\ \A i \in 1..N : messages[i] = Converted(tk[i])
  BY <1>0, <1>1
<1>3. Telling(tongue, tk) = FlattenSeq([i \in 1..N |-> TellOf(tongue, tk[i])])
  <2>1. [i \in DOMAIN tk |-> w[tk[i]]] = [i \in 1..N |-> TellOf(tongue, tk[i])]
    BY <1>1
  <2>. QED BY <2>1 DEF Telling, View
<1> HIDE DEF N, w
<1>4. CASE tongue = "claw"
  <2>1. msgs = messages
    BY <1>0, <1>4
  <2>2. \A i \in 1..N : ToldIn(tongue, msgs[i]) = TellOf(tongue, tk[i])
    <3> TAKE i \in 1..N
    <3>1. Items(Converted(tk[i]).blocks) = TellOf("claw", tk[i])
      BY <1>1, ClawTells
    <3>. QED BY <1>2, <1>4, <2>1, <3>1 DEF ToldIn
  <2>3. [i \in DOMAIN msgs |-> ToldIn(tongue, msgs[i])] = [i \in 1..N |-> TellOf(tongue, tk[i])]
    BY <1>2, <2>1, <2>2
  <2>. QED BY <1>3, <2>3
<1>5. CASE tongue # "claw"
  <2> DEFINE ss == [i \in 1..N |-> Translated(Converted(tk[i]))]
             v == [x \in OpenAiMessages |-> ToldOf(x)]
  <2>1. [i \in DOMAIN messages |-> Translated(messages[i])] = ss
    BY <1>2
  <2>2. msgs = FlattenSeq(ss) /\ tongue = "openai"
    BY <1>0, <1>5, <2>1 DEF Tongues
  <2>3. ss \in Seq(Seq(OpenAiMessages)) /\ DOMAIN ss = 1..N
    <3>1. \A i \in 1..N : Translated(Converted(tk[i])) \in Seq(OpenAiMessages)
      BY <1>1, OpenAiTells
    <3>. QED BY <1>1, <3>1
  <2>4. v \in [OpenAiMessages -> Seq(ToldItems)]
    <3>1. ASSUME NEW x \in OpenAiMessages PROVE ToldOf(x) \in Seq(ToldItems)
      <4>1. x.of \in Seq(ToldItems)
        BY DEF OpenAiMessages
      <4>2. Spelt(x.text) \in Seq(ToldItems)
        <5>1. CASE x.text \in Seq(STRING)
          <6>1. Spelt(x.text) \in Seq(TextBlocks)
            BY <5>1, SpeltIs
          <6>. QED BY <6>1 DEF ToldItems, SaidItems
        <5>2. CASE x.text \in {<<"p">>, <<"s">>}
          <6>1. PICK l \in {"p", "s"} : x.text = <<l>>
            BY <5>2
          <6>2. Spelt(x.text) = <<TextBlock(<<l>>)>>
            BY <6>1, SpeltOne
          <6>3. TextBlock(<<l>>) \in ToldItems
            BY DEF ToldItems, Greetings
          <6>4. <<TextBlock(<<l>>)>> \in Seq(ToldItems)
            BY <6>3
          <6>. QED BY <6>2, <6>4
        <5>3. x.text \in Seq(STRING) \cup {<<"p">>, <<"s">>}
          BY DEF OpenAiMessages
        <5>. QED BY <5>1, <5>2, <5>3
      <4>3. \A a, b \in Seq(ToldItems) : a \o b \in Seq(ToldItems)
        OBVIOUS
      <4>. QED BY <4>1, <4>2, <4>3 DEF ToldOf
    <3>. QED BY <3>1
  <2>5. msgs \in Seq(OpenAiMessages)
    <3> HIDE DEF ss
    <3>. QED BY <2>2, <2>3, FlattenIs
  <2>6. FlattenSeq([i \in DOMAIN msgs |-> ToldIn(tongue, msgs[i])]) = View(v, msgs)
    <3>1. DOMAIN msgs = 1..Len(msgs) /\ \A i \in 1..Len(msgs) : msgs[i] \in OpenAiMessages
      BY <2>5
    <3>2. [i \in DOMAIN msgs |-> ToldIn(tongue, msgs[i])] = [i \in DOMAIN msgs |-> v[msgs[i]]]
      BY <1>5, <3>1 DEF ToldIn
    <3>. QED BY <3>2 DEF View
  <2>7. \A i \in 1..N : View(v, ss[i]) = TellOf(tongue, tk[i])
    <3> TAKE i \in 1..N
    <3> DEFINE t == Translated(Converted(tk[i]))
    <3>1. t \in Seq(OpenAiMessages) /\ FlattenSeq([j \in DOMAIN t |-> ToldOf(t[j])]) = TellOf("openai", tk[i])
      BY <1>1, OpenAiTells
    <3>2. ss[i] = t
      OBVIOUS
    <3> HIDE DEF t, ss
    <3>3. DOMAIN t = 1..Len(t) /\ \A j \in 1..Len(t) : t[j] \in OpenAiMessages
      BY <3>1
    <3>4. [j \in DOMAIN t |-> ToldOf(t[j])] = [j \in DOMAIN t |-> v[t[j]]]
      BY <3>3
    <3>. QED BY <2>2, <3>1, <3>2, <3>4 DEF View
  <2> HIDE DEF ss, v
  <2>8. View(v, FlattenSeq(ss)) = FlattenSeq([i \in DOMAIN ss |-> View(v, ss[i])])
    <3>1. ss \in Seq(Seq(OpenAiMessages))
      BY <2>3
    <3>2. \A tt \in Seq(Seq(OpenAiMessages)) :
            View(v, FlattenSeq(tt)) = FlattenSeq([i \in DOMAIN tt |-> View(v, tt[i])])
      BY <2>4, MessagesFlatten
    <3>. QED BY <3>1, <3>2
  <2>9. [i \in DOMAIN ss |-> View(v, ss[i])] = [i \in 1..N |-> TellOf(tongue, tk[i])]
    BY <2>3, <2>7
  <2>. QED BY <1>3, <2>2, <2>6, <2>8, <2>9
<1>. QED BY <1>4, <1>5

-----------------------------------------------------------------------------
(* Each reply that was said is told, and then the results of its calls: of *)
(* all of them but, in the last round, those that are pending.             *)
Ids(s)         == [i \in DOMAIN s |-> s[i].id]
SaidIds(reply) == View(IdSaid, reply)

LEMMA IdsIs ==
  ASSUME NEW X, \A x \in X : x.id \in Nat \X Nat, NEW s \in Seq(X)
  PROVE  /\ Ids(s) \in Seq(Nat \X Nat) /\ Len(Ids(s)) = Len(s)
         /\ \A i \in 1..Len(s) : Ids(s)[i] = s[i].id
<1>1. DOMAIN s = 1..Len(s) /\ \A i \in 1..Len(s) : s[i].id \in Nat \X Nat
  OBVIOUS
<1>. QED BY <1>1 DEF Ids

LEMMA IdsAppend ==
  ASSUME NEW X, \A x \in X : x.id \in Nat \X Nat, NEW s \in Seq(X), NEW x \in X
  PROVE  Ids(Append(s, x)) = Append(Ids(s), x.id)
<1> DEFINE t == Append(s, x)
           a == Ids(t)
           c == Ids(s)
           b == Append(c, x.id)
<1>1. /\ t \in Seq(X) /\ Len(t) = Len(s) + 1 /\ t[Len(s) + 1] = x /\ \A i \in 1..Len(s) : t[i] = s[i]
      /\ Len(s) \in Nat
  OBVIOUS
<1> HIDE DEF t
<1>2. a \in Seq(Nat \X Nat) /\ Len(a) = Len(s) + 1 /\ \A i \in 1..(Len(s) + 1) : a[i] = t[i].id
  BY <1>1, IdsIs
<1>3. c \in Seq(Nat \X Nat) /\ Len(c) = Len(s) /\ \A i \in 1..Len(s) : c[i] = s[i].id
  BY IdsIs
<1> HIDE DEF a, c
<1>4. b \in Seq(Nat \X Nat) /\ Len(b) = Len(s) + 1 /\ b[Len(s) + 1] = x.id /\ \A i \in 1..Len(s) : b[i] = c[i]
  BY <1>3
<1> HIDE DEF b
<1>5. \A i \in 1..(Len(s) + 1) : a[i] = b[i]
  <2> TAKE i \in 1..(Len(s) + 1)
  <2>1. i \in 1..Len(s) \/ i = Len(s) + 1
    BY <1>1
  <2>. QED BY <1>1, <1>2, <1>3, <1>4, <2>1
<1>6. a = b
  BY <1>2, <1>4, <1>5, SeqEqual
<1>. QED BY <1>6 DEF a, b, c, t

(* The ids of the calls among blocks, of a reply or built of one.          *)
SeesIds(v, B, C) ==
  /\ v = [b \in B |-> IF b.is = "call" THEN <<b.id>> ELSE <<>>]
  /\ \A b \in B : b.is = "call" => b \in C
  /\ \A c \in C : c.id \in Nat \X Nat

LEMMA IdsOfCalls ==
  ASSUME NEW B, NEW C, NEW v, SeesIds(v, B, C), NEW s \in Seq(B)
  PROVE  Ids(CallsOf(s)) = View(v, s) /\ CallsOf(s) \in Seq(C)
<1> DEFINE w == [b \in B |-> IF b.is = "call" THEN <<b>> ELSE <<>>]
           T == {t \in Seq(B) : Ids(View(w, t)) = View(v, t)}
<1>0. (\A b \in B : b.is = "call" => b \in C) /\ \A c \in C : c.id \in Nat \X Nat
  BY DEF SeesIds
<1>1. w \in [B -> Seq(C)]
  BY <1>0
<1>2. v \in [B -> Seq(Nat \X Nat)]
  <2>1. ASSUME NEW b \in B PROVE (IF b.is = "call" THEN <<b.id>> ELSE <<>>) \in Seq(Nat \X Nat)
    <3>1. CASE b.is = "call"
      <4>1. b.id \in Nat \X Nat
        BY <1>0, <3>1
      <4>. QED BY <3>1, <4>1
    <3>2. CASE b.is # "call"
      BY <3>2
    <3>. QED BY <3>1, <3>2
  <2>. QED BY <2>1 DEF SeesIds
<1>3. CallsOf(s) = View(w, s)
  <2>1. [i \in DOMAIN s |-> IF s[i].is = "call" THEN <<s[i]>> ELSE <<>>] = [i \in DOMAIN s |-> w[s[i]]]
    OBVIOUS
  <2>. QED BY <2>1 DEF CallsOf, View
<1>4. \A b \in B : /\ w[b] = IF b.is = "call" THEN <<b>> ELSE <<>>
                   /\ v[b] = IF b.is = "call" THEN <<b.id>> ELSE <<>>
  BY DEF SeesIds
<1> HIDE DEF w
<1>5. <<>> \in T
  <2>1. Ids(<<>>) = <<>>
    BY DEF Ids
  <2>. QED BY <2>1, ViewEmpty
<1>6. ASSUME NEW t \in Seq(B), NEW b \in B, t \in T PROVE Append(t, b) \in T
  <2>1. View(w, Append(t, b)) = View(w, t) \o w[b]
    BY <1>1, ViewAppend
  <2>2. View(v, Append(t, b)) = View(v, t) \o v[b]
    BY <1>2, ViewAppend
  <2>3. View(w, t) \in Seq(C)
    BY <1>1, ViewType
  <2>3a. View(v, t) \in Seq(Nat \X Nat)
    BY <1>2, ViewType
  <2>4. Ids(View(w, t)) = View(v, t)
    BY <1>6
  <2> DEFINE p == View(w, t)
             q == View(v, t)
  <2>5. p \in Seq(C) /\ q \in Seq(Nat \X Nat) /\ Ids(p) = q
    BY <2>3, <2>3a, <2>4
  <2> HIDE DEF p, q
  <2>6. Ids(p \o w[b]) = q \o v[b]
    <3>1. CASE b.is = "call"
      <4>1. b \in C /\ b.id \in Nat \X Nat /\ w[b] = <<b>> /\ v[b] = <<b.id>>
        BY <1>0, <1>4, <3>1
      <4>2. p \o <<b>> = Append(p, b) /\ q \o <<b.id>> = Append(q, b.id)
        BY <2>5, <4>1, AppendIsConcat
      <4>3. Ids(Append(p, b)) = Append(Ids(p), b.id)
        BY <1>0, <2>5, <4>1, IdsAppend
      <4>. QED BY <2>5, <4>1, <4>2, <4>3
    <3>2. CASE b.is # "call"
      <4>1. w[b] = <<>> /\ v[b] = <<>>
        BY <1>4, <3>2
      <4>2. p \o <<>> = p /\ q \o <<>> = q
        BY <2>5, ConcatEmptySeq
      <4>. QED BY <2>5, <4>1, <4>2
    <3>. QED BY <3>1, <3>2
  <2>7. Append(t, b) \in Seq(B)
    OBVIOUS
  <2>. QED BY <2>1, <2>2, <2>6, <2>7 DEF p, q
<1>7. \A t \in Seq(B) : t \in T
  <2> HIDE DEF T
  <2>. QED BY <1>5, <1>6, PrefixInduction
<1>8. View(w, s) \in Seq(C)
  BY <1>1, ViewType
<1>. QED BY <1>3, <1>7, <1>8

LEMMA IdsOfReply ==
  ASSUME NEW reply \in Seq(SaidBlocks)
  PROVE  /\ Ids(CallsOf(reply)) = SaidIds(reply) /\ SaidIds(reply) \in Seq(Nat \X Nat)
         /\ \A how : Ids(CallsOf(Built(how, reply))) = SaidIds(reply)
<1>1. \A c \in BuiltCalls \cup SaidCalls : c.id \in Nat \X Nat
  BY DEF BuiltCalls, SaidCalls
<1>2. Ids(CallsOf(reply)) = View(IdSaid, reply)
  <2>1. SeesIds(IdSaid, SaidBlocks, SaidCalls)
    BY <1>1, BlockKinds DEF SeesIds, IdSaid
  <2>. QED BY <2>1, IdsOfCalls
<1>3. ASSUME NEW how PROVE Ids(CallsOf(Built(how, reply))) = View(IdSaid, reply)
  <2> DEFINE built == Built(how, reply)
  <2>1. SeesIds(IdView, BuiltBlocks, BuiltCalls)
    BY <1>1, BlockKinds DEF SeesIds, IdView
  <2>3. built \in Seq(BuiltBlocks)
    BY BuiltType
  <2>4. View(IdView, built) = View(IdSaid, reply)
    <3>1. Agree(how, Nat \X Nat, IdView, IdSaid)
      BY CallsAgree
    <3>. QED BY <3>1, ViewBuilt
  <2> HIDE DEF built
  <2>5. Ids(CallsOf(built)) = View(IdView, built)
    BY <2>1, <2>3, IdsOfCalls
  <2>. QED BY <2>4, <2>5 DEF built
<1>4. View(IdSaid, reply) \in Seq(Nat \X Nat)
  <2>1. IdSaid \in [SaidBlocks -> Seq(Nat \X Nat)]
    BY CallsAgree DEF Agree
  <2>. QED BY <2>1, ViewType
<1>. QED BY <1>2, <1>3, <1>4 DEF SaidIds

-----------------------------------------------------------------------------
(* The rounds of a session: what each reply said, and the results since.   *)
Rounds(tongue, sd, R) == [k \in DOMAIN sd |-> EchoOf(tongue, sd[k]) \o R[k]]
BeginOf(tk) == IF tk[1] = Summary THEN Spelt(<<"s", "p">>) ELSE Spelt(<<"p">>)
Fits(tongue, tk, sd, cs, R) ==
  /\ tk # <<>> /\ R \in Seq(Seq(ResultBlocks)) /\ Len(R) = Len(sd)
  /\ Telling(tongue, tk) = BeginOf(tk) \o FlattenSeq(Rounds(tongue, sd, R))
  /\ \A k \in DOMAIN sd :
       SaidIds(sd[k]) = IF k = Len(sd) THEN Ids(R[k]) \o Ids(cs) ELSE Ids(R[k])

(* Where one more is put, and how the last of those that are joined grows. *)
LEMMA OneMore ==
  ASSUME NEW A, NEW p \in Seq(A), NEW q \in Seq(A), NEW x \in A
  PROVE  p \o (<<x>> \o q) = Append(p, x) \o q
<1>1. <<x>> \in Seq(A)
  OBVIOUS
<1>2. (p \o <<x>>) \o q = p \o (<<x>> \o q)
  BY <1>1, ConcatAssociative
<1>3. Append(p, x) = p \o <<x>>
  BY AppendIsConcat
<1>. QED BY <1>2, <1>3

LEMMA JoinedLast ==
  ASSUME NEW A, NEW ss \in Seq(Seq(A)), NEW l \in Seq(A), NEW s \in Seq(A)
  PROVE  FlattenSeq(Append(ss, l \o s)) = FlattenSeq(Append(ss, l)) \o s
<1>1. l \o s \in Seq(A)
  OBVIOUS
<1>2. FlattenSeq(ss) \in Seq(A) /\ FlattenSeq(Append(ss, l)) = FlattenSeq(ss) \o l
  BY FlattenGrows, FlattenIs
<1>3. FlattenSeq(Append(ss, l \o s)) = FlattenSeq(ss) \o (l \o s)
  BY <1>1, FlattenGrows
<1>4. (FlattenSeq(ss) \o l) \o s = FlattenSeq(ss) \o (l \o s)
  BY <1>2, ConcatAssociative
<1>. QED BY <1>2, <1>3, <1>4

(* The last sequence that is joined grows.                                 *)
LastGrows(ss, tt, s) ==
  /\ Len(ss) # 0 /\ Len(tt) = Len(ss) /\ \A i \in 1..(Len(ss) - 1) : tt[i] = ss[i]
  /\ tt[Len(ss)] = ss[Len(ss)] \o s

LEMMA FlattenLast ==
  ASSUME NEW A, NEW ss \in Seq(Seq(A)), NEW tt \in Seq(Seq(A)), NEW s \in Seq(A), LastGrows(ss, tt, s)
  PROVE  FlattenSeq(tt) = FlattenSeq(ss) \o s
<1> DEFINE N == Len(ss)
           M == N - 1
           a == SubSeq(ss, 1, M)
           b == SubSeq(tt, 1, M)
<1>1. N \in Nat /\ M \in Nat /\ M + 1 = N /\ N \in 1..N /\ Len(tt) = N
  BY DEF LastGrows
<1>2. ss[N] \in Seq(A)
  BY <1>1
<1> HIDE DEF M, N
<1>3. a \in Seq(Seq(A)) /\ Append(a, ss[N]) = ss
  <2>1. a \in Seq(Seq(A)) /\ SubSeq(ss, 1, M + 1) = Append(a, ss[M + 1])
    BY <1>1, PrefixGrows DEF N
  <2>2. SubSeq(ss, 1, N) = ss
    BY SubSeqFull DEF N
  <2>. QED BY <1>1, <2>1, <2>2
<1>4. b \in Seq(Seq(A)) /\ Append(b, tt[N]) = tt
  <2>1. b \in Seq(Seq(A)) /\ SubSeq(tt, 1, M + 1) = Append(b, tt[M + 1])
    BY <1>1, PrefixGrows
  <2>2. SubSeq(tt, 1, N) = tt
    BY <1>1, SubSeqFull
  <2>. QED BY <1>1, <2>1, <2>2
<1>5. a = b
  <2>1. a = [i \in 1..M |-> ss[i]]
    BY <1>1 DEF N
  <2>2. b = [i \in 1..M |-> tt[i]]
    BY <1>1
  <2>3. \A i \in 1..M : tt[i] = ss[i]
    BY DEF M, N, LastGrows
  <2>. QED BY <2>1, <2>2, <2>3
<1>6. tt[N] = ss[N] \o s
  BY DEF N, LastGrows
<1> HIDE DEF a, b
<1>7. FlattenSeq(Append(a, ss[N] \o s)) = FlattenSeq(Append(a, ss[N])) \o s
  <2> DEFINE l == ss[N]
             p == a
  <2>1. p \in Seq(Seq(A)) /\ l \in Seq(A)
    BY <1>2, <1>3
  <2> HIDE DEF l, p
  <2>2. FlattenSeq(Append(p, l \o s)) = FlattenSeq(Append(p, l)) \o s
    BY <2>1, JoinedLast
  <2>. QED BY <2>2 DEF l, p
<1>. QED BY <1>3, <1>4, <1>5, <1>6, <1>7

(* What comes before the rounds, and what the rounds are of.               *)
LEMMA BeginIs ==
  ASSUME NEW tk \in Seq(Messages), tk # <<>>, NEW m
  PROVE  /\ BeginOf(tk) \in Seq(Greetings) /\ BeginOf(tk) \in Seq(ToldItems)
         /\ BeginOf(Append(tk, m)) = BeginOf(tk)
<1>1. TextBlock(<<"s">>) \in Greetings /\ TextBlock(<<"p">>) \in Greetings
  BY DEF Greetings
<1>2. Spelt(<<"s", "p">>) = <<TextBlock(<<"s">>), TextBlock(<<"p">>)>>
  BY DEF Spelt
<1>3. Spelt(<<"p">>) = <<TextBlock(<<"p">>)>>
  BY SpeltOne
<1>4. \A x, y \in Greetings : <<x>> \in Seq(Greetings) /\ <<x, y>> \in Seq(Greetings)
  OBVIOUS
<1>5. BeginOf(tk) \in Seq(Greetings)
  BY <1>1, <1>2, <1>3, <1>4 DEF BeginOf
<1>6. Greetings \subseteq ToldItems
  BY DEF ToldItems
<1>7. \A s \in Seq(Greetings) : s \in Seq(ToldItems)
  BY <1>6
<1>8. Append(tk, m)[1] = tk[1]
  OBVIOUS
<1>. QED BY <1>5, <1>7, <1>8 DEF BeginOf

LEMMA RoundsType ==
  ASSUME NEW tongue \in Tongues, NEW sd \in Seq(Seq(SaidBlocks)), NEW R \in Seq(Seq(ResultBlocks)),
         Len(R) = Len(sd)
  PROVE  /\ Rounds(tongue, sd, R) \in Seq(Seq(ToldItems)) /\ Len(Rounds(tongue, sd, R)) = Len(sd)
         /\ \A k \in 1..Len(sd) : /\ Rounds(tongue, sd, R)[k] = EchoOf(tongue, sd[k]) \o R[k]
                                  /\ EchoOf(tongue, sd[k]) \in Seq(ToldItems) /\ R[k] \in Seq(ToldItems)
<1>1. SaidItems \subseteq ToldItems /\ ResultBlocks \subseteq ToldItems
  BY DEF ToldItems
<1>2. (\A s \in Seq(SaidItems) : s \in Seq(ToldItems)) /\ \A s \in Seq(ResultBlocks) : s \in Seq(ToldItems)
  BY <1>1
<1>3. ASSUME NEW k \in 1..Len(sd)
      PROVE  EchoOf(tongue, sd[k]) \in Seq(ToldItems) /\ R[k] \in Seq(ToldItems)
  <2>1. sd[k] \in Seq(SaidBlocks) /\ R[k] \in Seq(ResultBlocks)
    OBVIOUS
  <2>2. EchoOf(tongue, sd[k]) \in Seq(SaidItems)
    BY <2>1, EchoType
  <2>. QED BY <1>2, <2>1, <2>2
<1>4. \A a, b \in Seq(ToldItems) : a \o b \in Seq(ToldItems)
  OBVIOUS
<1>5. DOMAIN sd = 1..Len(sd) /\ Len(sd) \in Nat
  OBVIOUS
<1>6. \A k \in 1..Len(sd) : EchoOf(tongue, sd[k]) \o R[k] \in Seq(ToldItems)
  BY <1>3, <1>4
<1> DEFINE a == Rounds(tongue, sd, R)
<1>7. a = [k \in 1..Len(sd) |-> EchoOf(tongue, sd[k]) \o R[k]]
  BY <1>5 DEF Rounds
<1> HIDE DEF a
<1>8. a \in Seq(Seq(ToldItems)) /\ Len(a) = Len(sd)
  BY <1>5, <1>6, <1>7
<1>9. \A k \in 1..Len(sd) : a[k] = EchoOf(tongue, sd[k]) \o R[k]
  BY <1>7
<1>. QED BY <1>3, <1>8, <1>9 DEF a

(* A reply joins the session: a new round, with no result yet.             *)
LEMMA FitsReply ==
  ASSUME NEW tongue \in Tongues, NEW tk \in Seq(Messages), NEW sd \in Seq(Seq(SaidBlocks)), NEW R,
         Fits(tongue, tk, sd, <<>>, R), NEW how, NEW spoken \in Seq(SaidBlocks)
  PROVE  Fits(tongue, Append(tk, Message("assistant", Built(how, spoken))), Append(sd, spoken),
              CallsOf(Built(how, spoken)), Append(R, <<>>))
<1> DEFINE N == Len(sd)
           m == Message("assistant", Built(how, spoken))
           cs == CallsOf(Built(how, spoken))
           tk2 == Append(tk, m)
           sd2 == Append(sd, spoken)
           R2 == Append(R, <<>>)
           a == Rounds(tongue, sd, R)
           b == Rounds(tongue, sd2, R2)
           e == EchoOf(tongue, spoken)
<1>1. /\ tk # <<>> /\ R \in Seq(Seq(ResultBlocks)) /\ Len(R) = N
      /\ Telling(tongue, tk) = BeginOf(tk) \o FlattenSeq(a)
      /\ \A k \in DOMAIN sd : SaidIds(sd[k]) = IF k = N THEN Ids(R[k]) \o Ids(<<>>) ELSE Ids(R[k])
  BY DEF Fits
<1>2. N \in Nat /\ DOMAIN sd = 1..N
  OBVIOUS
<1>3. sd2 \in Seq(Seq(SaidBlocks)) /\ Len(sd2) = N + 1 /\ sd2[N + 1] = spoken /\ \A i \in 1..N : sd2[i] = sd[i]
  BY AppendProperties
<1>4. R2 \in Seq(Seq(ResultBlocks)) /\ Len(R2) = N + 1 /\ R2[N + 1] = <<>> /\ \A i \in 1..N : R2[i] = R[i]
  <2>1. <<>> \in Seq(ResultBlocks)
    OBVIOUS
  <2>. QED BY <1>1, <2>1, AppendProperties
<1>5. m \in Messages
  <2>1. Built(how, spoken) \in Seq(BuiltBlocks)
    BY BuiltType
  <2>. QED BY <2>1 DEF Message, Messages
<1>6. Telling(tongue, tk2) = Telling(tongue, tk) \o e /\ Telling(tongue, tk) \in Seq(ToldItems)
  <2>1. TellOf(tongue, m) = e
    BY TellIsEcho
  <2> HIDE DEF m, e
  <2>. QED BY <1>5, <2>1, TellingIs
<1>7. BeginOf(tk2) = BeginOf(tk) /\ BeginOf(tk) \in Seq(ToldItems) /\ tk2 # <<>>
  <2> HIDE DEF m
  <2>1. tk2 # <<>>
    OBVIOUS
  <2>. QED BY <1>1, <2>1, BeginIs
<1>8. \A t : Ids(<<>>) = <<>>
  BY DEF Ids
<1>9. Ids(cs) = SaidIds(spoken) /\ SaidIds(spoken) \in Seq(Nat \X Nat)
  BY IdsOfReply
<1> HIDE DEF sd2, R2, m, cs, tk2, N
<1>10. /\ a \in Seq(Seq(ToldItems)) /\ Len(a) = N
       /\ \A k \in 1..N : a[k] = EchoOf(tongue, sd[k]) \o R[k]
  BY <1>1, RoundsType DEF N
<1>11. /\ b \in Seq(Seq(ToldItems)) /\ Len(b) = N + 1
       /\ \A k \in 1..(N + 1) : b[k] = EchoOf(tongue, sd2[k]) \o R2[k]
  <2>1. Len(R2) = Len(sd2)
    BY <1>3, <1>4
  <2>. QED BY <1>3, <1>4, <2>1, RoundsType
<1>12. e \in Seq(ToldItems)
  <2>1. e \in Seq(SaidItems)
    BY EchoType
  <2>. QED BY <2>1 DEF ToldItems
<1> HIDE DEF a, b, e
<1>13. b = Append(a, e)
  <2> DEFINE c == Append(a, e)
  <2>1. c \in Seq(Seq(ToldItems)) /\ Len(c) = N + 1 /\ c[N + 1] = e /\ \A k \in 1..N : c[k] = a[k]
    BY <1>10, <1>12, AppendProperties
  <2> HIDE DEF c
  <2>2. ASSUME NEW k \in 1..(N + 1) PROVE b[k] = c[k]
    <3>1. CASE k \in 1..N
      BY <1>3, <1>4, <1>10, <1>11, <2>1, <3>1
    <3>2. CASE k = N + 1
      <4>1. b[k] = e \o <<>>
        BY <1>3, <1>4, <1>11, <3>2 DEF e
      <4>2. e \o <<>> = e
        BY <1>12, ConcatEmptySeq
      <4>. QED BY <2>1, <3>2, <4>1, <4>2
    <3>. QED BY <1>2, <3>1, <3>2 
  <2>3. b = c
    BY <1>11, <2>1, <2>2, SeqEqual
  <2>. QED BY <2>3 DEF c
<1>14. FlattenSeq(b) = FlattenSeq(a) \o e /\ FlattenSeq(a) \in Seq(ToldItems)
  BY <1>10, <1>12, <1>13, FlattenGrows, FlattenIs
<1>15. Telling(tongue, tk2) = BeginOf(tk2) \o FlattenSeq(b)
  <2>1. (BeginOf(tk) \o FlattenSeq(a)) \o e = BeginOf(tk) \o (FlattenSeq(a) \o e)
    BY <1>7, <1>12, <1>14, ConcatAssociative
  <2>. QED BY <1>1, <1>6, <1>7, <1>14, <2>1
<1>16. ASSUME NEW k \in DOMAIN sd2
       PROVE  SaidIds(sd2[k]) = IF k = Len(sd2) THEN Ids(R2[k]) \o Ids(cs) ELSE Ids(R2[k])
  <2>1. k \in 1..(N + 1) /\ Len(sd2) = N + 1
    BY <1>3
  <2>2. CASE k = N + 1
    <3>1. <<>> \o SaidIds(spoken) = SaidIds(spoken)
      BY <1>9, ConcatEmptySeq
    <3>. QED BY <1>3, <1>4, <1>8, <1>9, <2>1, <2>2, <3>1
  <2>3. CASE k # N + 1
    <3>0. k \in 1..N
      BY <1>2, <2>1, <2>3
    <3>1. k \in 1..N /\ sd2[k] = sd[k] /\ R2[k] = R[k]
      BY <1>3, <1>4, <3>0
    <3>2. R[k] \in Seq(ResultBlocks)
      BY <1>1, <3>1
    <3>3. Ids(R[k]) \in Seq(Nat \X Nat)
      <4>1. \A r \in ResultBlocks : r.id \in Nat \X Nat
        BY DEF ResultBlocks
      <4>. QED BY <3>2, <4>1, IdsIs
    <3>4. Ids(R[k]) \o <<>> = Ids(R[k])
      BY <3>3, ConcatEmptySeq
    <3>. QED BY <1>1, <1>2, <1>8, <2>1, <2>3, <3>1, <3>4
  <2>. QED BY <2>2, <2>3
<1>17. Fits(tongue, tk2, sd2, cs, R2)
  <2>1. Len(R2) = Len(sd2)
    BY <1>3, <1>4
  <2>. QED BY <1>4, <1>7, <1>15, <1>16, <2>1 DEF Fits, b
<1>. QED BY <1>17 DEF sd2, R2, m, cs, tk2

(* A result joins the round that is last.                                  *)
LEMMA FitsAnswer ==
  ASSUME NEW tongue \in Tongues, NEW tk \in Seq(Messages), NEW sd \in Seq(Seq(SaidBlocks)), sd # <<>>,
         NEW cs \in Seq(BuiltCalls), cs # <<>>, NEW R, Fits(tongue, tk, sd, cs, R),
         NEW r \in ResultBlocks, r.id = cs[1].id
  PROVE  Fits(tongue, Append(tk, Message("tool", <<r>>)), sd, Tail(cs),
              [R EXCEPT ![Len(sd)] = Append(@, r)])
<1> DEFINE N == Len(sd)
           m == Message("tool", <<r>>)
           tk2 == Append(tk, m)
           cs2 == Tail(cs)
           more == Append(R[N], r)
           R2 == [R EXCEPT ![N] = more]
           a == Rounds(tongue, sd, R)
           b == Rounds(tongue, sd, R2)
<1>1. /\ tk # <<>> /\ R \in Seq(Seq(ResultBlocks)) /\ Len(R) = N
      /\ Telling(tongue, tk) = BeginOf(tk) \o FlattenSeq(a)
      /\ \A k \in DOMAIN sd : SaidIds(sd[k]) = IF k = N THEN Ids(R[k]) \o Ids(cs) ELSE Ids(R[k])
  BY DEF Fits
<1>2. N \in Nat \ {0} /\ DOMAIN sd = 1..N /\ N \in 1..N
  OBVIOUS
<1>3. R[N] \in Seq(ResultBlocks)
  BY <1>1, <1>2
<1>4. more \in Seq(ResultBlocks) /\ more = R[N] \o <<r>> /\ <<r>> \in Seq(ResultBlocks)
  <2> DEFINE x == R[N]
  <2>1. x \in Seq(ResultBlocks)
    BY <1>3
  <2> HIDE DEF x
  <2>2. Append(x, r) \in Seq(ResultBlocks) /\ <<r>> \in Seq(ResultBlocks)
    BY <2>1
  <2>3. Append(x, r) = x \o <<r>>
    BY <2>1, AppendIsConcat
  <2>. QED BY <2>2, <2>3 DEF x
<1>5. R2 \in Seq(Seq(ResultBlocks)) /\ Len(R2) = N /\ R2[N] = more /\ \A i \in 1..N : i # N => R2[i] = R[i]
  <2> HIDE DEF more, N
  <2>. QED BY <1>1, <1>2, <1>4
<1>6. m \in Messages
  BY DEF Message, Messages
<1>7. Telling(tongue, tk2) = Telling(tongue, tk) \o <<r>> /\ Telling(tongue, tk) \in Seq(ToldItems)
  <2>1. TellOf(tongue, m) = <<r>>
    BY DEF TellOf, Message
  <2> HIDE DEF m
  <2>. QED BY <1>6, <2>1, TellingIs
<1>8. BeginOf(tk2) = BeginOf(tk) /\ BeginOf(tk) \in Seq(ToldItems) /\ tk2 # <<>>
  <2> HIDE DEF m
  <2>1. tk2 # <<>>
    <3>1. Len(tk2) = Len(tk) + 1 /\ Len(tk) \in Nat
      BY AppendProperties, <1>6
    <3> HIDE DEF tk2
    <3>2. Len(<<>>) = 0
      OBVIOUS
    <3>. QED BY <3>1, <3>2
  <2>. QED BY <1>1, <2>1, BeginIs
<1>9. Ids(cs) = <<r.id>> \o Ids(cs2) /\ Ids(cs2) \in Seq(Nat \X Nat)
  <2>0. \A c \in BuiltCalls : c.id \in Nat \X Nat
    BY DEF BuiltCalls
  <2>1. cs2 \in Seq(BuiltCalls) /\ Len(cs2) = Len(cs) - 1 /\ \A i \in 1..Len(cs2) : cs2[i] = cs[i + 1]
    OBVIOUS
  <2> DEFINE p == Ids(cs)
             q == Ids(cs2)
             u == <<r.id>> \o q
  <2>2. p \in Seq(Nat \X Nat) /\ Len(p) = Len(cs) /\ \A i \in 1..Len(cs) : p[i] = cs[i].id
    BY <2>0, IdsIs
  <2> HIDE DEF cs2
  <2>3. q \in Seq(Nat \X Nat) /\ Len(q) = Len(cs2) /\ \A i \in 1..Len(cs2) : q[i] = cs2[i].id
    BY <2>0, <2>1, IdsIs
  <2>4. Len(cs) \in Nat \ {0}
    OBVIOUS
  <2>5. <<r.id>> \in Seq(Nat \X Nat)
    BY DEF ResultBlocks
  <2> HIDE DEF p, q
  <2>6. u \in Seq(Nat \X Nat) /\ Len(u) = Len(cs) /\ u[1] = r.id /\ \A i \in 1..Len(q) : u[i + 1] = q[i]
    BY <2>1, <2>3, <2>4, <2>5
  <2> HIDE DEF u
  <2>7. ASSUME NEW i \in 1..Len(cs) PROVE p[i] = u[i]
    <3>1. CASE i = 1
      BY <2>2, <2>4, <2>6, <3>1
    <3>2. CASE i # 1
      <4>1. i - 1 \in 1..Len(cs2) /\ (i - 1) + 1 = i
        BY <2>1, <2>4, <3>2
      <4>2. u[(i - 1) + 1] = q[i - 1] /\ q[i - 1] = cs2[i - 1].id /\ cs2[i - 1] = cs[(i - 1) + 1]
        BY <2>1, <2>3, <2>6, <4>1
      <4>. QED BY <2>2, <4>1, <4>2
    <3>. QED BY <3>1, <3>2
  <2>8. p = u
    BY <2>2, <2>6, <2>7, SeqEqual
  <2>. QED BY <2>3, <2>8 DEF p, q, u
<1>10. Ids(more) = Append(Ids(R[N]), r.id) /\ Ids(R[N]) \in Seq(Nat \X Nat)
  <2>1. \A x \in ResultBlocks : x.id \in Nat \X Nat
    BY DEF ResultBlocks
  <2>. QED BY <1>3, <2>1, IdsAppend, IdsIs
<1> HIDE DEF m, cs2, tk2, N, more, R2
<1>11. /\ a \in Seq(Seq(ToldItems)) /\ Len(a) = N
       /\ \A k \in 1..N : /\ a[k] = EchoOf(tongue, sd[k]) \o R[k]
                          /\ EchoOf(tongue, sd[k]) \in Seq(ToldItems) /\ R[k] \in Seq(ToldItems)
  BY <1>1, RoundsType DEF N
<1>12. /\ b \in Seq(Seq(ToldItems)) /\ Len(b) = N
       /\ \A k \in 1..N : b[k] = EchoOf(tongue, sd[k]) \o R2[k]
  <2>1. Len(R2) = Len(sd)
    BY <1>5 DEF N
  <2>. QED BY <1>5, <2>1, RoundsType DEF N
<1>13. <<r>> \in Seq(ToldItems)
  BY DEF ToldItems
<1> HIDE DEF a, b
<1>14. FlattenSeq(b) = FlattenSeq(a) \o <<r>>
  <2>1. \A i \in 1..(N - 1) : b[i] = a[i]
    <3> TAKE i \in 1..(N - 1)
    <3>1. i \in 1..N /\ i # N
      BY <1>2
    <3>. QED BY <1>5, <1>11, <1>12, <3>1
  <2>2. b[N] = a[N] \o <<r>>
    <3>1. b[N] = EchoOf(tongue, sd[N]) \o (R[N] \o <<r>>)
      BY <1>2, <1>4, <1>5, <1>12
    <3>2. EchoOf(tongue, sd[N]) \o (R[N] \o <<r>>) = (EchoOf(tongue, sd[N]) \o R[N]) \o <<r>>
      <4> DEFINE x == EchoOf(tongue, sd[N])
                 y == R[N]
                 z == <<r>>
      <4>1. x \in Seq(ToldItems) /\ y \in Seq(ToldItems) /\ z \in Seq(ToldItems)
        BY <1>2, <1>11, <1>13
      <4> HIDE DEF x, y, z
      <4>2. (x \o y) \o z = x \o (y \o z)
        BY <4>1, ConcatAssociative
      <4>. QED BY <4>2 DEF x, y, z
    <3>. QED BY <1>2, <1>11, <3>1, <3>2
  <2>3. Len(a) # 0 /\ Len(b) = Len(a)
    BY <1>2, <1>11, <1>12
  <2>4. (\A i \in 1..(Len(a) - 1) : b[i] = a[i]) /\ b[Len(a)] = a[Len(a)] \o <<r>>
    BY <1>11, <2>1, <2>2
  <2>5. LastGrows(a, b, <<r>>)
    BY <2>3, <2>4 DEF LastGrows
  <2>. QED BY <1>11, <1>12, <1>13, <2>5, FlattenLast
<1>15. Telling(tongue, tk2) = BeginOf(tk2) \o FlattenSeq(b)
  <2>1. FlattenSeq(a) \in Seq(ToldItems)
    BY <1>11, FlattenIs
  <2>2. (BeginOf(tk) \o FlattenSeq(a)) \o <<r>> = BeginOf(tk) \o (FlattenSeq(a) \o <<r>>)
    BY <1>8, <1>13, <2>1, ConcatAssociative
  <2>. QED BY <1>1, <1>7, <1>8, <1>14, <2>2
<1>16. ASSUME NEW k \in DOMAIN sd
       PROVE  SaidIds(sd[k]) = IF k = N THEN Ids(R2[k]) \o Ids(cs2) ELSE Ids(R2[k])
  <2>1. CASE k = N
    <3>1. SaidIds(sd[k]) = Ids(R[N]) \o (<<r.id>> \o Ids(cs2))
      BY <1>1, <1>9, <2>1
    <3>2. r.id \in Nat \X Nat
      BY DEF ResultBlocks
    <3>3. Ids(R[N]) \o (<<r.id>> \o Ids(cs2)) = Append(Ids(R[N]), r.id) \o Ids(cs2)
      BY <1>9, <1>10, <3>2, OneMore
    <3>. QED BY <1>5, <1>10, <2>1, <3>1, <3>3
  <2>2. CASE k # N
    BY <1>1, <1>2, <1>5, <2>2
  <2>. QED BY <2>1, <2>2
<1>17. Fits(tongue, tk2, sd, cs2, R2)
  BY <1>5, <1>8, <1>15, <1>16 DEF Fits, b, N
<1>18. R2 = [R EXCEPT ![N] = Append(@, r)]
  BY DEF R2, more
<1>. QED BY <1>17, <1>18 DEF m, cs2, tk2, N

-----------------------------------------------------------------------------
LEMMA OneAndTwo ==
  ASSUME NEW X, NEW x \in X, NEW y \in X
  PROVE  /\ <<>> \in Seq(X) /\ <<x>> \in Seq(X) /\ <<x, y>> \in Seq(X)
         /\ Append(<<>>, x) = <<x>> /\ Append(<<x>>, y) = <<x, y>>
         /\ <<>> \o <<x>> = <<x>> /\ <<x>> \o <<y>> = <<x, y>>
<1>1. <<>> \in Seq(X) /\ <<x>> \in Seq(X) /\ <<x, y>> \in Seq(X)
  OBVIOUS
<1>2. Append(<<>>, x) = <<x>>
  OBVIOUS
<1>3. Append(<<x>>, y) = <<x, y>>
  <2> DEFINE s == <<x>>
             t == Append(s, y)
             u == <<x, y>>
  <2>1. s \in Seq(X) /\ Len(s) = 1 /\ s[1] = x
    BY <1>1
  <2> HIDE DEF s
  <2>2. t \in Seq(X) /\ Len(t) = 2 /\ t[1] = x /\ t[2] = y
    <3>1. t \in Seq(X) /\ Len(t) = Len(s) + 1 /\ t[Len(s) + 1] = y /\ \A i \in 1..Len(s) : t[i] = s[i]
      BY <2>1, AppendProperties
    <3> HIDE DEF t
    <3>. QED BY <2>1, <3>1
  <2>3. u \in Seq(X) /\ Len(u) = 2 /\ u[1] = x /\ u[2] = y
    BY <1>1
  <2> HIDE DEF t, u
  <2>4. \A i \in 1..2 : i = 1 \/ i = 2
    OBVIOUS
  <2>5. t = u
    BY <2>2, <2>3, <2>4, SeqEqual
  <2>. QED BY <2>5 DEF s, t, u
<1>4. <<>> \o <<x>> = <<x>>
  BY <1>1, ConcatEmptySeq
<1>5. <<x>> \o <<y>> = <<x, y>>
  <2>1. Append(<<x>>, y) = <<x>> \o <<y>>
    BY <1>1, AppendIsConcat
  <2>. QED BY <1>3, <2>1
<1>. QED BY <1>1, <1>2, <1>3, <1>4, <1>5

(* At first only the prompt is told, and the summary before it.            *)
LEMMA FitsFirst ==
  ASSUME NEW tongue \in Tongues, NEW tk \in {<<Prompt>>, <<Summary, Prompt>>}
  PROVE  Fits(tongue, tk, <<>>, <<>>, <<>>)
<1>1. /\ Prompt \in Messages /\ Summary \in Messages /\ Prompt # Summary
      /\ TellOf(tongue, Prompt) = Spelt(<<"p">>) /\ TellOf(tongue, Summary) = Spelt(<<"s">>)
  <2>1. /\ Prompt.role = "user" /\ Prompt.blocks[1].text = <<"p">>
        /\ Summary.role = "system" /\ Summary.blocks[1].text = <<"s">>
    BY DEF Prompt, Summary, Message, TextBlock
  <2>. QED BY <2>1 DEF TellOf, Messages
<1>2. PICK p, s : p = TextBlock(<<"p">>) /\ s = TextBlock(<<"s">>)
  OBVIOUS
<1>3. p \in ToldItems /\ s \in ToldItems
  BY <1>2 DEF ToldItems, Greetings
<1>4. Spelt(<<"p">>) = <<p>> /\ Spelt(<<"s">>) = <<s>> /\ Spelt(<<"s", "p">>) = <<s, p>>
  BY <1>2 DEF Spelt
<1>5. \A t \in Seq(Messages), m \in Messages :
        Telling(tongue, Append(t, m)) = Telling(tongue, t) \o TellOf(tongue, m)
  BY TellingIs
<1>6. Telling(tongue, <<>>) = <<>>
  BY ViewEmpty DEF Telling
<1>7. <<>> \o <<p>> = <<p>> /\ <<>> \o <<s>> = <<s>> /\ <<s>> \o <<p>> = <<s, p>>
  BY <1>3, OneAndTwo
<1>8. /\ Append(<<>>, Prompt) = <<Prompt>> /\ Append(<<>>, Summary) = <<Summary>>
      /\ Append(<<Summary>>, Prompt) = <<Summary, Prompt>>
      /\ <<>> \in Seq(Messages) /\ <<Summary>> \in Seq(Messages)
  BY <1>1, OneAndTwo
<1>9. Telling(tongue, <<Prompt>>) = <<p>>
  BY <1>1, <1>4, <1>5, <1>6, <1>7, <1>8
<1>10. Telling(tongue, <<Summary>>) = <<s>>
  BY <1>1, <1>4, <1>5, <1>6, <1>7, <1>8
<1>11. Telling(tongue, <<Summary, Prompt>>) = <<s, p>>
  BY <1>1, <1>4, <1>5, <1>7, <1>8, <1>10
<1>12. tk # <<>> /\ Telling(tongue, tk) = BeginOf(tk)
  <2>1. CASE tk = <<Prompt>>
    <3>1. tk # <<>> /\ tk[1] # Summary
      BY <1>1, <2>1
    <3>. QED BY <1>4, <1>9, <2>1, <3>1 DEF BeginOf
  <2>2. CASE tk = <<Summary, Prompt>>
    <3>1. tk # <<>> /\ tk[1] = Summary
      BY <1>1, <2>2
    <3>. QED BY <1>4, <1>11, <2>2, <3>1 DEF BeginOf
  <2>. QED BY <2>1, <2>2
<1>13. BeginOf(tk) \in Seq(ToldItems)
  <2>1. <<p>> \in Seq(ToldItems) /\ <<s, p>> \in Seq(ToldItems)
    BY <1>3
  <2>. QED BY <1>4, <2>1 DEF BeginOf
<1>14. BeginOf(tk) \o FlattenSeq(Rounds(tongue, <<>>, <<>>)) = BeginOf(tk)
  <2>1. Rounds(tongue, <<>>, <<>>) = <<>>
    BY DEF Rounds
  <2>2. BeginOf(tk) \o <<>> = BeginOf(tk)
    BY <1>13, ConcatEmptySeq
  <2>. QED BY <2>1, <2>2, NothingJoined
<1>15. <<>> \in Seq(Seq(ResultBlocks)) /\ Len(<<>>) = 0 /\ DOMAIN <<>> = {}
  OBVIOUS
<1>. QED BY <1>12, <1>14, <1>15 DEF Fits

-----------------------------------------------------------------------------
(* What is told answers each call once: no other result has its id, for    *)
(* its id tells the reply it is of and no two calls of a reply share one.  *)
IdsFit(sd) ==
  \A k \in DOMAIN sd : \A i \in 1..Len(SaidIds(sd[k])) :
    /\ SaidIds(sd[k])[i][1] = k
    /\ \A j \in 1..Len(SaidIds(sd[k])) : SaidIds(sd[k])[i] = SaidIds(sd[k])[j] => i = j

(* Each call has its result among what is told, and no other answers it.   *)
LEMMA AnswersAreTold ==
  ASSUME NEW tongue \in Tongues, NEW tk \in Seq(Messages), NEW sd \in Seq(Seq(SaidBlocks)), NEW R,
         Fits(tongue, tk, sd, <<>>, R), IdsFit(sd), NEW k \in 1..Len(sd)
  PROVE  /\ SaidIds(sd[k]) = Ids(R[k]) /\ R[k] \in Seq(ResultBlocks)
         /\ Len(SaidIds(sd[k])) = Len(R[k])
         /\ \A i \in 1..Len(R[k]) :
              /\ Has(Telling(tongue, tk), R[k][i]) /\ IsAnswer(R[k][i], SaidIds(sd[k])[i])
              /\ \A x : Has(Telling(tongue, tk), x) /\ IsAnswer(x, SaidIds(sd[k])[i]) => x = R[k][i]
<1> DEFINE N == Len(sd)
           a == Rounds(tongue, sd, R)
           told == Telling(tongue, tk)
           begin == BeginOf(tk)
<1>1. /\ tk # <<>> /\ R \in Seq(Seq(ResultBlocks)) /\ Len(R) = N
      /\ told = begin \o FlattenSeq(a)
      /\ \A j \in 1..N : SaidIds(sd[j]) = IF j = N THEN Ids(R[j]) \o Ids(<<>>) ELSE Ids(R[j])
  <2>1. DOMAIN sd = 1..N
    OBVIOUS
  <2> HIDE DEF N
  <2>2. N = Len(sd)
    BY DEF N
  <2>. QED BY <2>1, <2>2 DEF Fits
<1>2. ASSUME NEW j \in 1..N
      PROVE  /\ R[j] \in Seq(ResultBlocks) /\ SaidIds(sd[j]) = Ids(R[j])
             /\ Len(Ids(R[j])) = Len(R[j])
             /\ \A i \in 1..Len(R[j]) : Ids(R[j])[i] = R[j][i].id
  <2>1. R[j] \in Seq(ResultBlocks)
    BY <1>1
  <2> DEFINE s == R[j]
  <2>2. \A r \in ResultBlocks : r.id \in Nat \X Nat
    BY DEF ResultBlocks
  <2>3. s \in Seq(ResultBlocks)
    BY <2>1
  <2> HIDE DEF s
  <2>4. Ids(s) \in Seq(Nat \X Nat) /\ Len(Ids(s)) = Len(s) /\ \A i \in 1..Len(s) : Ids(s)[i] = s[i].id
    BY <2>2, <2>3, IdsIs
  <2>5. Ids(s) \o <<>> = Ids(s)
    BY <2>4, ConcatEmptySeq
  <2>6. Ids(<<>>) = <<>>
    BY DEF Ids
  <2>. QED BY <1>1, <2>1, <2>4, <2>5, <2>6 DEF s
<1>3. begin \in Seq(Greetings) /\ begin \in Seq(ToldItems)
  BY <1>1, BeginIs
<1>4. /\ a \in Seq(Seq(ToldItems)) /\ Len(a) = N
      /\ \A j \in 1..N : /\ a[j] = EchoOf(tongue, sd[j]) \o R[j]
                         /\ EchoOf(tongue, sd[j]) \in Seq(ToldItems) /\ R[j] \in Seq(ToldItems)
  BY <1>1, RoundsType
<1>5. \A j \in 1..N : EchoOf(tongue, sd[j]) \in Seq(SaidItems)
  <2> TAKE j \in 1..N
  <2>1. sd[j] \in Seq(SaidBlocks)
    OBVIOUS
  <2>. QED BY <2>1, EchoType
<1>6. N \in Nat /\ DOMAIN sd = 1..N
  OBVIOUS
<1> HIDE DEF N, a, told, begin
<1>7. FlattenSeq(a) \in Seq(ToldItems) /\ \A x : Has(FlattenSeq(a), x) <=> \E j \in 1..N : Has(a[j], x)
  BY <1>4, FlattenIs
<1>8. \A x : Has(told, x) <=> Has(begin, x) \/ Has(FlattenSeq(a), x)
  BY <1>1, <1>3, <1>7, HasConcat
<1>9. ASSUME NEW j \in 1..N, NEW x
      PROVE  Has(a[j], x) <=> Has(EchoOf(tongue, sd[j]), x) \/ Has(R[j], x)
  <2> DEFINE e == EchoOf(tongue, sd[j])
             r == R[j]
  <2>1. e \in Seq(ToldItems) /\ r \in Seq(ToldItems) /\ a[j] = e \o r
    BY <1>4
  <2> HIDE DEF e, r
  <2>2. Has(e \o r, x) <=> Has(e, x) \/ Has(r, x)
    BY <2>1, HasConcat
  <2>. QED BY <2>1, <2>2 DEF e, r
<1>10. \A x : Has(begin, x) => x.is # "result"
  <2>1. \A x \in Greetings : x.is # "result"
    BY DEF Greetings, TextBlock
  <2>. QED BY <1>3, <2>1 DEF Has
<1>11. \A j \in 1..N : \A x : Has(EchoOf(tongue, sd[j]), x) => x.is # "result"
  <2>1. \A x \in SaidItems : x.is # "result"
    BY DEF SaidItems, TextBlocks, ToldCalls
  <2>. QED BY <1>5, <2>1 DEF Has
<1>12. ASSUME NEW i \in 1..Len(R[k])
       PROVE  /\ Has(told, R[k][i]) /\ IsAnswer(R[k][i], SaidIds(sd[k])[i])
              /\ \A x : Has(told, x) /\ IsAnswer(x, SaidIds(sd[k])[i]) => x = R[k][i]
  <2>0. k \in 1..N
    BY DEF N
  <2>1. Has(R[k], R[k][i])
    BY DEF Has
  <2>2. Has(told, R[k][i])
    BY <1>7, <1>8, <1>9, <2>0, <2>1
  <2>3. IsAnswer(R[k][i], SaidIds(sd[k])[i])
    <3>1. R[k][i] \in ResultBlocks
      BY <1>2, <2>0
    <3>2. R[k][i].is = "result"
      BY <3>1 DEF ResultBlocks
    <3>3. SaidIds(sd[k])[i] = R[k][i].id
      BY <1>2, <2>0
    <3>. QED BY <3>2, <3>3 DEF IsAnswer
  <2>4. ASSUME NEW x, Has(told, x), IsAnswer(x, SaidIds(sd[k])[i]) PROVE x = R[k][i]
    <3>1. x.is = "result" /\ x.id = SaidIds(sd[k])[i]
      BY <2>4 DEF IsAnswer
    <3>2. PICK j \in 1..N : Has(R[j], x)
      BY <1>7, <1>8, <1>9, <1>10, <1>11, <2>4, <3>1
    <3>3. PICK n \in 1..Len(R[j]) : R[j][n] = x
      BY <3>2 DEF Has
    <3>4. x.id = SaidIds(sd[j])[n] /\ n \in 1..Len(SaidIds(sd[j])) /\ i \in 1..Len(SaidIds(sd[k]))
      BY <1>2, <2>0, <3>3
    <3>5. SaidIds(sd[j])[n][1] = j /\ SaidIds(sd[k])[i][1] = k
      BY <1>6, <2>0, <3>4 DEF IdsFit
    <3>6. j = k
      BY <3>1, <3>4, <3>5
    <3>7. n = i
      BY <1>6, <2>0, <3>1, <3>4, <3>6 DEF IdsFit
    <3>. QED BY <3>3, <3>6, <3>7
  <2>. QED BY <2>2, <2>3, <2>4
<1>. QED BY <1>2, <1>6, <1>12 DEF told, N

-----------------------------------------------------------------------------
(* The rounds in the turn: a request tells the session that fits them.     *)
TellingInv ==
  /\ IdsFit(said)
  /\ turn \in {"request", "reply"} => calls = <<>>
  /\ turn = "reply" => ToldOver(speaks, asked.messages) = Telling(speaks, talk)
  /\ turn # "done" => \E R : Fits(speaks, talk, said, calls, R)

LEMMA ToldIsOver == Told = ToldOver(speaks, asked.messages)
BY DEF Told, ToldBy, ToldOver, ToldIn, ToldOf

LEMMA ToldAtFirst ==
  ASSUME RoundInit, RoundInv
  PROVE  TellingInv
<1>1. /\ turn = "request" /\ talk \in {<<Prompt>>, <<Summary, Prompt>>}
      /\ calls = <<>> /\ said = <<>> /\ speaks \in Tongues
  BY DEF RoundInit, RoundInv, RoundTypeOK, Tongues
<1>2. Fits(speaks, talk, <<>>, <<>>, <<>>)
  BY <1>1, FitsFirst
<1>3. IdsFit(<<>>)
  BY DEF IdsFit
<1>. QED BY <1>1, <1>2, <1>3 DEF TellingInv

LEMMA SendRoundTold ==
  ASSUME RoundInv, TellingInv, SendRound
  PROVE  TellingInv'
<1>1. /\ turn = "request" /\ turn' = "reply" /\ UNCHANGED <<speaks, talk, calls, said>>
      /\ talk \in Seq(Messages) /\ speaks \in Tongues
  BY DEF SendRound, RoundInv, RoundTypeOK, Tongues
<1>2. PICK msgs : msgs = SentOf(speaks, talk)
  OBVIOUS
<1>3. asked'.messages = msgs
  BY <1>2 DEF SendRound, SentOf, ConvertedAll
<1>4. ToldOver(speaks, msgs) = Telling(speaks, talk)
  BY <1>1, <1>2, SentIsTold
<1>5. ToldOver(speaks, asked.messages)' = ToldOver(speaks, msgs)
  BY <1>1, <1>3 DEF ToldOver, ToldIn
<1>6. Telling(speaks, talk)' = Telling(speaks, talk)
  BY <1>1 DEF Telling
<1>7. IdsFit(said)' /\ (turn \in {"request", "reply"} => calls = <<>>)'
  BY <1>1 DEF TellingInv, IdsFit
<1>8. PICK R : Fits(speaks, talk, said, calls, R)
  BY <1>1 DEF TellingInv
<1>9. Fits(speaks, talk, said, calls, R)'
  BY <1>1, <1>8 DEF Fits
<1>. QED BY <1>4, <1>5, <1>6, <1>7, <1>9 DEF TellingInv

LEMMA AnswerTold ==
  ASSUME RoundInv, TellingInv, turn = "tools", NEW error \in BOOLEAN, Answers(error)
  PROVE  TellingInv'
<1>1. PICK cs, sd, tk, st, r : cs = calls /\ sd = said /\ tk = talk /\ st = speaks
                               /\ r = Result(calls[1].id, calls[1].name, error)
  OBVIOUS
<1>2. /\ cs \in Seq(BuiltCalls) /\ cs # <<>> /\ sd \in Seq(Seq(SaidBlocks)) /\ sd # <<>>
      /\ tk \in Seq(Messages) /\ st \in Tongues
  BY <1>1 DEF RoundInv, RoundTypeOK, PendingInv, Tongues
<1>3. cs[1] \in BuiltCalls /\ Head(cs) = cs[1]
  BY <1>2
<1>4. r \in ResultBlocks /\ r.id = cs[1].id
  BY <1>1, <1>3 DEF Result, ResultBlocks, BuiltCalls
<1>5. /\ talk' = Append(tk, Message("tool", <<r>>)) /\ calls' = Tail(cs) /\ said' = sd /\ speaks' = st
      /\ turn' = IF Tail(cs) = <<>> THEN "request" ELSE "tools"
  BY <1>1, <1>3 DEF Answers
<1>6. PICK R : Fits(st, tk, sd, cs, R)
  BY <1>1 DEF TellingInv
<1>7. PICK R2, tk2, cs2 :
        /\ Fits(st, tk2, sd, cs2, R2) /\ tk2 = Append(tk, Message("tool", <<r>>)) /\ cs2 = Tail(cs)
  BY <1>2, <1>4, <1>6, FitsAnswer
<1>8. IdsFit(sd)
  BY <1>1 DEF TellingInv
<1>9. IdsFit(said)' <=> IdsFit(sd)
  BY <1>5 DEF IdsFit
<1>10. Fits(speaks, talk, said, calls, R2)' <=> Fits(st, tk2, sd, cs2, R2)
  BY <1>5, <1>7 DEF Fits
<1>. QED BY <1>5, <1>7, <1>8, <1>9, <1>10 DEF TellingInv

(* The reply's ids: the calls are new, and no two have the same.           *)
LEMMA IdsStayFit ==
  ASSUME NEW sd \in Seq(Seq(SaidBlocks)), IdsFit(sd), NEW spoken \in Seq(SaidBlocks),
         NEW cs \in Seq(BuiltCalls), Ids(cs) = SaidIds(spoken),
         \A i \in DOMAIN cs : cs[i].id[1] = Len(sd) + 1,
         \A i, j \in DOMAIN cs : cs[i].id = cs[j].id => i = j
  PROVE  IdsFit(Append(sd, spoken))
<1> DEFINE all == Append(sd, spoken)
           ids == SaidIds(spoken)
<1>1. /\ Len(all) = Len(sd) + 1 /\ all[Len(sd) + 1] = spoken /\ \A i \in 1..Len(sd) : all[i] = sd[i]
      /\ DOMAIN all = 1..(Len(sd) + 1) /\ DOMAIN sd = 1..Len(sd) /\ Len(sd) \in Nat
  BY AppendProperties
<1>2. ids \in Seq(Nat \X Nat) /\ Len(ids) = Len(cs) /\ \A i \in 1..Len(cs) : ids[i] = cs[i].id
  <2>1. \A c \in BuiltCalls : c.id \in Nat \X Nat
    BY DEF BuiltCalls
  <2>. QED BY <2>1, IdsIs
<1>3. DOMAIN cs = 1..Len(cs)
  OBVIOUS
<1> HIDE DEF all, ids
<1>4. ASSUME NEW k \in DOMAIN all, NEW i \in 1..Len(SaidIds(all[k]))
      PROVE  /\ SaidIds(all[k])[i][1] = k
             /\ \A j \in 1..Len(SaidIds(all[k])) : SaidIds(all[k])[i] = SaidIds(all[k])[j] => i = j
  <2>1. CASE k \in DOMAIN sd
    <3>1. all[k] = sd[k]
      BY <1>1, <2>1
    <3>. QED BY <1>4, <2>1, <3>1 DEF IdsFit
  <2>2. CASE k \notin DOMAIN sd
    <3>1. k = Len(sd) + 1 /\ SaidIds(all[k]) = ids
      BY <1>1, <1>4, <2>2 DEF ids
    <3>2. i \in DOMAIN cs /\ ids[i] = cs[i].id
      BY <1>2, <1>3, <1>4, <3>1
    <3>3. \A j \in 1..Len(ids) : j \in DOMAIN cs /\ ids[j] = cs[j].id
      BY <1>2, <1>3
    <3>. QED BY <3>1, <3>2, <3>3
  <2>. QED BY <2>1, <2>2
<1>5. IdsFit(all)
  BY <1>4 DEF IdsFit
<1>. QED BY <1>5 DEF all

LEMMA ReplyArrivesTold ==
  ASSUME RoundInv, TellingInv, RoundInv', RoundAssumption, NEW blocks \in WireReplies[speaks], NEW how,
         ReplyArrives(blocks, how)
  PROVE  TellingInv'
<1>1. PICK spell \in [DOMAIN blocks -> Spelled] :
        LET spoken == Uttered(blocks, how, spell)
            built  == Built(how, spoken)
        IN /\ said' = Append(said, spoken)
           /\ calls' = CallsOf(built)
           /\ IF built = <<>> THEN turn' = "done" /\ UNCHANGED talk
              ELSE /\ talk' = Append(talk, Message("assistant", built))
                   /\ turn' = IF calls' = <<>> THEN "done" ELSE "tools"
  BY DEF ReplyArrives
<1>2. PICK spoken, built, sd, tk, st :
        /\ spoken = Uttered(blocks, how, spell) /\ built = Built(how, spoken)
        /\ sd = said /\ tk = talk /\ st = speaks
        /\ said' = Append(sd, spoken) /\ calls' = CallsOf(built)
        /\ IF built = <<>> THEN turn' = "done" /\ UNCHANGED talk
           ELSE /\ talk' = Append(tk, Message("assistant", built))
                /\ turn' = IF calls' = <<>> THEN "done" ELSE "tools"
  BY <1>1
<1>3. speaks' = st /\ turn = "reply"
  BY <1>2 DEF ReplyArrives
<1>4. sd \in Seq(Seq(SaidBlocks)) /\ tk \in Seq(Messages) /\ st \in Tongues
  BY <1>2 DEF RoundInv, RoundTypeOK, Tongues
<1>5. spoken \in Seq(SaidBlocks)
  BY <1>2, UtteredIsSaid
<1>6. PICK cs, sd2 : cs = calls' /\ sd2 = said'
  OBVIOUS
<1>7. /\ cs \in Seq(BuiltCalls)
      /\ cs # <<>> => Traced(cs, sd2[Len(sd2)], Len(sd2[Len(sd2)]))
      /\ \A c \in DOMAIN cs : cs[c].id[1] = Len(sd2)
  BY <1>6 DEF RoundInv, RoundTypeOK, PendingInv, Traced, SameCall
<1>8. Len(sd2) = Len(sd) + 1
  BY <1>2, <1>4, <1>5, <1>6, AppendProperties
<1>9. \A i, j \in DOMAIN cs : cs[i].id = cs[j].id => i = j
  <2> SUFFICES ASSUME NEW i \in DOMAIN cs, NEW j \in DOMAIN cs, cs[i].id = cs[j].id PROVE i = j
    OBVIOUS
  <2>1. cs # <<>>
    OBVIOUS
  <2>2. cs[i] \in BuiltCalls /\ cs[j] \in BuiltCalls
    BY <1>7
  <2>3. cs[i].is = "call" /\ cs[j].is = "call"
    BY <2>2 DEF BuiltCalls
  <2>. QED BY <1>7, <2>1, <2>3 DEF Traced
<1>10. Ids(cs) = SaidIds(spoken)
  BY <1>2, <1>5, <1>6, IdsOfReply
<1>11. IdsFit(sd)
  BY <1>2 DEF TellingInv
<1>12. IdsFit(sd2)
  <2>1. \A c \in DOMAIN cs : cs[c].id[1] = Len(sd) + 1
    BY <1>7, <1>8
  <2>2. IdsFit(Append(sd, spoken))
    BY <1>4, <1>5, <1>7, <1>9, <1>10, <1>11, <2>1, IdsStayFit
  <2>. QED BY <1>2, <1>6, <2>2
<1>13. PICK R : Fits(st, tk, sd, <<>>, R)
  BY <1>2, <1>3 DEF TellingInv
<1>14. PICK R2, tk2 :
         /\ Fits(st, tk2, sd2, cs, R2) /\ tk2 = Append(tk, Message("assistant", built))
  <2>1. Fits(st, Append(tk, Message("assistant", Built(how, spoken))), Append(sd, spoken),
             CallsOf(Built(how, spoken)), Append(R, <<>>))
    BY <1>4, <1>5, <1>13, FitsReply
  <2>. QED BY <1>2, <1>6, <2>1
<1>15. IdsFit(said)' <=> IdsFit(sd2)
  BY <1>6 DEF IdsFit
<1>16. turn' \in {"done", "tools"} /\ (turn' = "tools" => talk' = tk2)
  BY <1>2, <1>14
<1>17. talk' = tk2 => (Fits(speaks, talk, said, calls, R2)' <=> Fits(st, tk2, sd2, cs, R2))
  BY <1>3, <1>6 DEF Fits
<1>. QED BY <1>12, <1>14, <1>15, <1>16, <1>17 DEF TellingInv

LEMMA TellingNextInv ==
  ASSUME RoundInv, TellingInv, RoundInv', RoundAssumption, [RoundNext]_roundVars
  PROVE  TellingInv'
<1>1. CASE SendRound
  BY <1>1, SendRoundTold
<1>2. ASSUME NEW blocks \in WireReplies[speaks], NEW how \in {"stream", "whole"}, ReplyArrives(blocks, how)
      PROVE  TellingInv'
  BY <1>2, ReplyArrivesTold
<1>2a. ASSUME NEW failed \in BOOLEAN, NEW unshown, turn = "tools", Executed(failed, unshown)
       PROVE  TellingInv'
  <2>1. PICK objects \in BOOLEAN : Answers(failed \/ objects)
    BY <1>2a DEF Executed
  <2>. QED BY <1>2a, <2>1, AnswerTold
<1>3. CASE RejectCall
  BY <1>2a, <1>3 DEF RejectCall
<1>4. CASE ToolFails
  BY <1>2a, <1>4 DEF ToolFails
<1>5. CASE RefuseCall
  BY <1>5, AnswerTold DEF RefuseCall
<1>6. CASE ToolWorks
  BY <1>2a, <1>6 DEF ToolWorks
<1>7. CASE ResultIsNotShown
  BY <1>2a, <1>7 DEF ResultIsNotShown
<1>8. CASE UNCHANGED roundVars
  <2>1. UNCHANGED <<speaks, turn, talk, asked, calls, said>>
    BY <1>8 DEF roundVars
  <2>2. PICK st, tk, sd, cs, ms : st = speaks /\ tk = talk /\ sd = said /\ cs = calls /\ ms = asked.messages
    OBVIOUS
  <2>3. st = speaks' /\ tk = talk' /\ sd = said' /\ cs = calls' /\ ms = asked'.messages
    BY <2>1, <2>2
  <2>4. (IdsFit(sd) <=> IdsFit(said)') /\ (IdsFit(sd) <=> IdsFit(said))
    BY <2>2, <2>3 DEF IdsFit
  <2>5. ToldOver(speaks, asked.messages)' = ToldOver(st, ms) /\ Telling(speaks, talk)' = Telling(st, tk)
    BY <2>3 DEF ToldOver, Telling, ToldIn
  <2>6. \A R : Fits(speaks, talk, said, calls, R)' <=> Fits(st, tk, sd, cs, R)
    BY <2>3 DEF Fits
  <2>7. \A R : Fits(speaks, talk, said, calls, R) <=> Fits(st, tk, sd, cs, R)
    BY <2>2
  <2>. QED BY <2>1, <2>2, <2>3, <2>4, <2>5, <2>6, <2>7 DEF TellingInv
<1>. QED BY <1>1, <1>2, <1>3, <1>4, <1>5, <1>6, <1>7, <1>8 DEF RoundNext

LEMMA TellingInvHolds ==
  ASSUME RoundInv, TellingInv
  PROVE  RoundsAreTold
<1> SUFFICES ASSUME turn = "reply" PROVE RoundsAreTold
  BY DEF RoundsAreTold
<1> DEFINE ids(k) == [i \in DOMAIN CallsOf(said[k]) |-> CallsOf(said[k])[i].id]
           answered(k) == Echo(said[k]) \o [i \in DOMAIN ids(k) |-> AnswerTo(ids(k)[i])]
<1>1. /\ talk \in Seq(Messages) /\ said \in Seq(Seq(SaidBlocks)) /\ speaks \in Tongues
      /\ IdsFit(said) /\ calls = <<>>
  BY DEF RoundInv, RoundTypeOK, Tongues, TellingInv
<1>2. PICK R : Fits(speaks, talk, said, <<>>, R)
  BY <1>1 DEF TellingInv
<1>3. Told = Telling(speaks, talk)
  BY ToldIsOver DEF TellingInv
<1>4. Told \in Seq(ToldItems) /\ ToSet(Told) = {x \in ToldItems : Has(Told, x)}
  <2>1. Told \in Seq(ToldItems)
    <3>1. Prompt \in Messages
      BY DEF Messages
    <3>. QED BY <1>1, <1>3, <3>1, TellingIs
  <2> DEFINE t == Told
  <2>2. t \in Seq(ToldItems)
    BY <2>1
  <2> HIDE DEF t
  <2>3. ToSet(t) = {x \in ToldItems : Has(t, x)}
    BY <2>2 DEF ToSet, Has
  <2>. QED BY <2>1, <2>3 DEF t
<1>5. ASSUME NEW k \in DOMAIN said
      PROVE  /\ \A i \in DOMAIN ids(k) : \E x \in ToSet(Told) : IsAnswer(x, ids(k)[i])
             /\ answered(k) = EchoOf(speaks, said[k]) \o R[k]
  <2>1. k \in 1..Len(said) /\ said[k] \in Seq(SaidBlocks)
    BY <1>1
  <2>2. ids(k) = SaidIds(said[k]) /\ SaidIds(said[k]) \in Seq(Nat \X Nat)
    BY <2>1, IdsOfReply DEF Ids
  <2> HIDE DEF ids
  <2>3. /\ R[k] \in Seq(ResultBlocks) /\ Len(ids(k)) = Len(R[k])
        /\ \A i \in 1..Len(R[k]) :
             /\ Has(Told, R[k][i]) /\ IsAnswer(R[k][i], ids(k)[i])
             /\ \A x : Has(Told, x) /\ IsAnswer(x, ids(k)[i]) => x = R[k][i]
    BY <1>1, <1>2, <1>3, <2>1, <2>2, AnswersAreTold
  <2>4. DOMAIN ids(k) = 1..Len(R[k]) /\ DOMAIN R[k] = 1..Len(R[k])
    BY <2>2, <2>3
  <2>5. ASSUME NEW i \in 1..Len(R[k])
        PROVE  R[k][i] \in ToSet(Told) /\ AnswerTo(ids(k)[i]) = R[k][i]
    <3>1. R[k][i] \in ToldItems
      <4>1. R[k][i] \in ResultBlocks
        BY <2>3
      <4>. QED BY <4>1 DEF ToldItems
    <3>2. R[k][i] \in ToSet(Told) /\ IsAnswer(R[k][i], ids(k)[i])
      BY <1>4, <2>3, <3>1
    <3>3. \A x \in ToSet(Told) : IsAnswer(x, ids(k)[i]) => x = R[k][i]
      BY <1>4, <2>3
    <3>. QED BY <3>2, <3>3 DEF AnswerTo
  <2>6. [i \in DOMAIN ids(k) |-> AnswerTo(ids(k)[i])] = R[k]
    <3>1. [i \in DOMAIN ids(k) |-> AnswerTo(ids(k)[i])] = [i \in 1..Len(R[k]) |-> R[k][i]]
      BY <2>4, <2>5
    <3>. QED BY <2>3, <3>1
  <2>7. Echo(said[k]) = EchoOf(speaks, said[k])
    BY <1>1, <2>1, EchoIs
  <2>. QED BY <2>3, <2>4, <2>5, <2>6, <2>7
<1>6. [k \in DOMAIN said |-> answered(k)] = Rounds(speaks, said, R)
  <2> HIDE DEF answered
  <2>. QED BY <1>5 DEF Rounds
<1>7. Opening = BeginOf(talk)
  BY DEF Opening, BeginOf
<1>8. Told = BeginOf(talk) \o FlattenSeq(Rounds(speaks, said, R))
  BY <1>2, <1>3 DEF Fits
<1>9. Told = Opening \o FlattenSeq([k \in DOMAIN said |-> answered(k)])
  <2> HIDE DEF answered
  <2>. QED BY <1>6, <1>7, <1>8
<1>. QED BY <1>5, <1>9 DEF RoundsAreTold

(* In every turn, whoever runs it and whatever the provider says, each     *)
(* request tells the provider its own replies word for word and in their   *)
(* order, each followed by one result for each of its calls.               *)
THEOREM RoundsStayTold == RoundSpec => []RoundsAreTold
<1>1. RoundInit => RoundInv /\ TellingInv
  BY RoundInitInv, ToldAtFirst
<1>2. RoundInv /\ TellingInv /\ [RoundNext]_roundVars => RoundInv' /\ TellingInv'
  BY RoundAssumption, RoundNextInv, TellingNextInv
<1>3. RoundInv /\ TellingInv => RoundsAreTold
  BY TellingInvHolds
<1>. QED BY <1>1, <1>2, <1>3, PTL DEF RoundSpec

-----------------------------------------------------------------------------
(* The choice of a provider.  What a name stands for stands for itself.    *)
LEMMA AliasesAreFinal ==
  ASSUME NEW m
  PROVE  /\ AgentModel(m).name \in DOMAIN Alias => AgentModel(m) = Exact(Alias[AgentModel(m).name])
         /\ Family(m) \in {"claw", "xai", "unknown"}
<1>1. \A n \in DOMAIN Alias : Alias[n] \in DOMAIN Alias => Alias[Alias[n]] = Alias[n]
  BY DEF Alias
<1>2. "claude-opus-4-6" \notin DOMAIN Alias
  BY DEF Alias
<1>3. Exact("claude-opus-4-6").name = "claude-opus-4-6" /\ \A n \in DOMAIN Alias : Exact(Alias[n]).name = Alias[n]
  BY DEF Exact
<1>4. Family(m) \in {"claw", "xai", "unknown"}
  BY DEF Family
<1>5. CASE m.name = ""
  BY <1>2, <1>3, <1>4, <1>5 DEF AgentModel
<1>6. CASE m.name # "" /\ m.name \in DOMAIN Alias
  BY <1>1, <1>3, <1>4, <1>6 DEF AgentModel, Canonical
<1>7. CASE m.name # "" /\ m.name \notin DOMAIN Alias
  BY <1>4, <1>7 DEF AgentModel, Canonical
<1>. QED BY <1>5, <1>6, <1>7

ChoiceType ==
  /\ maker \in {"cli", "agent"}
  /\ choosing \in {"detect", "env", "key", "saved", "refresh", "ready", "failed"}
  /\ chosen = [provider |-> chosen.provider, key |-> chosen.key, bearer |-> chosen.bearer, model |-> chosen.model]
  /\ chosen.key \in BOOLEAN /\ rereads \in BOOLEAN

(* Who the client is for, and when: the command line's is a Claw client, a *)
(* sub-agent's of its model's family, or else of whoever has credentials   *)
(* as long as the saved login is the one that was looked at.               *)
Familiar == Family(AgentModel(wanted))
MakerInv ==
  /\ maker = "cli" => chosen.provider = "claw" /\ choosing \notin {"detect", "key"}
  /\ maker = "agent" => chosen.model = AgentModel(wanted) /\ choosing # "refresh"
  /\ maker = "agent" /\ choosing # "detect" =>
       IF Familiar # "unknown" THEN chosen.provider = Familiar
       ELSE ~rereads => chosen.provider = ByCredentials
  /\ choosing \in {"env", "saved", "refresh"} => chosen.provider = "claw"
  /\ choosing = "key" => chosen.provider \in {"xai", "openai"}
  /\ maker = "agent" /\ choosing = "key" /\ Familiar = "unknown" => Given(KeyOf[chosen.provider])

(* The login is looked at only when the environment has nothing; and what  *)
(* a client holds when it is ready.                                        *)
HeldInv ==
  /\ choosing \in {"saved", "refresh"} => Legible /\ ~FromEnvironment
  /\ chosen.key => choosing = "ready" /\ environment[KeyOf[chosen.provider]] = "value"
  /\ chosen.bearer \in {"fresh", "lapsed"} => ~FromEnvironment
  /\ choosing = "ready" /\ ~chosen.key => chosen.bearer # "none"

ChoiceInv == ChoiceType /\ MakerInv /\ HeldInv /\ ClientIsMade /\ RequestsGoHome

LEMMA ChoiceStart == ChoiceInit => ChoiceInv
<1> SUFFICES ASSUME ChoiceInit PROVE ChoiceInv
  OBVIOUS
<1>1. CASE maker = "cli"
  <2>1. /\ choosing = "env" /\ requested = {} /\ rereads = FALSE
        /\ chosen = [provider |-> "claw", key |-> FALSE, bearer |-> "none", model |-> ShortName(wanted)]
    BY <1>1 DEF ChoiceInit, StartsAt, NoClient
  <2>. QED BY <1>1, <2>1 DEF ChoiceInv, ChoiceType, MakerInv, HeldInv, ClientIsMade, RequestsGoHome
<1>2. CASE maker = "agent"
  <2>1. /\ choosing = "detect" /\ requested = {} /\ rereads = FALSE
        /\ chosen = [provider |-> "none", key |-> FALSE, bearer |-> "none", model |-> AgentModel(wanted)]
    BY <1>2 DEF ChoiceInit, StartsAt, NoClient
  <2>. QED BY <1>2, <2>1 DEF ChoiceInv, ChoiceType, MakerInv, HeldInv, ClientIsMade, RequestsGoHome
<1>. QED BY <1>1, <1>2 DEF ChoiceInit, StartsAt

LEMMA DetectKeeps ==
  ASSUME ChoiceInv, Detect
  PROVE  ChoiceInv'
<1>1. choosing = "detect" /\ UNCHANGED <<maker, wanted, environment, settings, requested, saved, rereads>>
  BY DEF Detect, Choosing
<1>2. ChoiceType /\ MakerInv /\ HeldInv /\ RequestsGoHome
  BY DEF ChoiceInv
<1>3. maker = "agent" /\ chosen.key = FALSE /\ chosen.model = AgentModel(wanted)
  BY <1>1, <1>2 DEF ChoiceType, MakerInv, HeldInv
<1>4. PICK to : to = Provider(chosen.model)
  OBVIOUS
<1>5. /\ choosing' = IF to = "claw" THEN "env" ELSE "key"
      /\ chosen' = [chosen EXCEPT !.provider = to]
  BY <1>4 DEF Detect, Choosing
<1>6. /\ chosen' = [provider |-> to, key |-> chosen.key, bearer |-> chosen.bearer, model |-> chosen.model]
      /\ chosen'.provider = to /\ chosen'.key = FALSE /\ chosen'.bearer = chosen.bearer
      /\ chosen'.model = chosen.model
  BY <1>2, <1>3, <1>5 DEF ChoiceType
<1>7. /\ to = IF Familiar # "unknown" THEN Familiar ELSE ByCredentials
      /\ Familiar \in {"claw", "xai", "unknown"} /\ ByCredentials \in {"claw", "openai", "xai"}
      /\ ByCredentials \in {"openai", "xai"} => Given(KeyOf[ByCredentials])
  BY <1>3, <1>4, AliasesAreFinal DEF Provider, Familiar, ByCredentials, KeyOf
<1>8. to \in {"claw", "openai", "xai"}
  BY <1>7
<1>9. Familiar' = Familiar /\ ByCredentials' = ByCredentials /\ FromEnvironment' = FromEnvironment /\ Legible' = Legible
  BY <1>1 DEF Familiar, ByCredentials, FromEnvironment, Legible, HasClawAuth, Given, Malformed
<1>10. ChoiceType'
  BY <1>1, <1>2, <1>5, <1>6 DEF ChoiceType
<1>11. MakerInv'
  <2>1. choosing' # "key" \/ (Familiar = "unknown" => Given(KeyOf[to])')
    BY <1>1, <1>5, <1>7, <1>8 DEF Given
  <2>. QED BY <1>1, <1>3, <1>5, <1>6, <1>7, <1>8, <1>9, <2>1 DEF MakerInv, Given
<1>12. HeldInv'
  BY <1>1, <1>2, <1>5, <1>6, <1>9 DEF HeldInv
<1>13. ClientIsMade'
  BY <1>5 DEF ClientIsMade
<1>14. RequestsGoHome'
  BY <1>1, <1>2, <1>6, <1>9 DEF RequestsGoHome
<1>. QED BY <1>10, <1>11, <1>12, <1>13, <1>14 DEF ChoiceInv

(* A choice that fails: what makes it fail leaves nothing that would do.   *)
LEMMA FailingKeeps ==
  ASSUME ChoiceInv, Fails, UNCHANGED saved, rereads' \in {rereads, TRUE}, choosing \notin {"detect", "ready"},
         ~rereads' => ClientIsMade'
  PROVE  ChoiceInv'
<1>1. choosing' = "failed" /\ UNCHANGED <<chosen, maker, wanted, environment, settings, requested, saved>>
  BY DEF Fails, Choosing
<1>2. Familiar' = Familiar /\ ByCredentials' = ByCredentials /\ FromEnvironment' = FromEnvironment /\ Legible' = Legible
  BY <1>1 DEF Familiar, ByCredentials, FromEnvironment, Legible, HasClawAuth, Given, Malformed
<1>3. ChoiceType' /\ HeldInv'
  BY <1>1, <1>2 DEF ChoiceInv, ChoiceType, HeldInv
<1>4. MakerInv'
  BY <1>1, <1>2 DEF ChoiceInv, MakerInv, ChoiceType
<1>5. RequestsGoHome'
  BY <1>1, <1>2 DEF ChoiceInv, RequestsGoHome, ChoiceType
<1>6. ClientIsMade'
  BY DEF ClientIsMade
<1>. QED BY <1>3, <1>4, <1>5, <1>6 DEF ChoiceInv

(* A client that is ready, with a key or a token it may have.              *)
LEMMA ReadyKeeps ==
  ASSUME ChoiceInv, NEW key \in BOOLEAN, NEW bearer, With(key, bearer), UNCHANGED rereads,
         choosing \notin {"detect", "refresh"} => UNCHANGED saved, choosing # "detect", choosing # "ready",
         key => environment[KeyOf[chosen.provider]] = "value",
         bearer \in {"fresh", "lapsed"} => ~FromEnvironment,
         bearer # "lapsed", ~key => bearer # "none"
  PROVE  ChoiceInv'
<1>1. /\ choosing' = "ready" /\ chosen' = [chosen EXCEPT !.key = key, !.bearer = bearer]
      /\ UNCHANGED <<maker, wanted, environment, settings, requested, rereads>>
  BY DEF With, Choosing
<1>2. ChoiceType /\ MakerInv /\ HeldInv /\ RequestsGoHome
  BY DEF ChoiceInv
<1>3. /\ chosen' = [provider |-> chosen.provider, key |-> key, bearer |-> bearer, model |-> chosen.model]
      /\ chosen'.provider = chosen.provider /\ chosen'.key = key /\ chosen'.bearer = bearer
      /\ chosen'.model = chosen.model
  BY <1>1, <1>2 DEF ChoiceType
<1>4. Familiar' = Familiar /\ FromEnvironment' = FromEnvironment
  BY <1>1 DEF Familiar, FromEnvironment, Legible, Given, Malformed
<1>5. choosing = "refresh" \/ ByCredentials' = ByCredentials
  BY <1>1 DEF ByCredentials, HasClawAuth, Given, Malformed
<1>6. ChoiceType' /\ HeldInv' /\ RequestsGoHome' /\ ClientIsMade'
  BY <1>1, <1>2, <1>3, <1>4 DEF ChoiceType, HeldInv, RequestsGoHome, ClientIsMade
<1>7. MakerInv'
  BY <1>1, <1>2, <1>3, <1>4, <1>5 DEF MakerInv
<1>. QED BY <1>6, <1>7 DEF ChoiceInv

LEMMA TakeKeyKeeps ==
  ASSUME ChoiceInv, TakeKey
  PROVE  ChoiceInv'
<1>1. choosing = "key" /\ UNCHANGED <<saved, rereads>> /\ chosen.provider \in {"xai", "openai"} /\ maker = "agent"
  BY DEF TakeKey, ChoiceInv, MakerInv, ChoiceType
<1>2. CASE Given(KeyOf[chosen.provider])
  <2>1. With(TRUE, "none")
    BY <1>2 DEF TakeKey
  <2>2. environment[KeyOf[chosen.provider]] = "value"
    BY <1>2 DEF Given
  <2>. QED BY <1>1, <2>1, <2>2, ReadyKeeps
<1>3. CASE ~Given(KeyOf[chosen.provider])
  <2>1. Fails
    BY <1>3 DEF TakeKey
  <2>2. Familiar # "unknown" /\ chosen.provider = Familiar /\ ~Usable(Familiar)
    BY <1>1, <1>3 DEF ChoiceInv, MakerInv, Usable
  <2>3. ClientIsMade'
    BY <1>1, <2>1, <2>2 DEF ClientIsMade, Fails, Choosing, Familiar, Usable, Given, FromEnvironment, FromLogin,
                            Legible, Malformed, Refreshable
  <2>4. rereads' \in {rereads, TRUE} /\ choosing \notin {"detect", "ready"}
    BY <1>1
  <2>. QED BY <1>1, <2>1, <2>3, <2>4, FailingKeeps
<1>. QED BY <1>2, <1>3

(* Where a Claw client fails, no Claw client could be made; if it was a    *)
(* sub-agent's for a model of no known family, either the first look has   *)
(* found nobody's credentials or what it found for Claw is of no use.      *)
LEMMA ClawFails ==
  ASSUME ChoiceInv, Fails, UNCHANGED <<saved, rereads>>, choosing \in {"env", "saved"}, ~Usable("claw"),
         HasClawAuth => (saved.state = "token" /\ ~saved.fresh) \/ (Given(KeyOf.claw) /\ Malformed(Bearer))
  PROVE  ChoiceInv'
<1>1. choosing' = "failed" /\ UNCHANGED <<chosen, maker, wanted, environment, settings, requested, saved, rereads>>
  BY DEF Fails, Choosing
<1>2. maker \in {"cli", "agent"} /\ chosen.provider = "claw" /\ rereads \in BOOLEAN
  BY DEF ChoiceInv, ChoiceType, MakerInv
<1>3. ASSUME ~rereads, maker = "agent", Familiar = "unknown", ~HasClawAuth
      PROVE  \A p \in DOMAIN KeyOf : ~Usable(p)
  <2>1. ByCredentials = "claw"
    BY <1>2, <1>3 DEF ChoiceInv, MakerInv
  <2>2. ~Given(KeyOf.openai) /\ ~Given(KeyOf.xai)
    BY <1>3, <2>1 DEF ByCredentials
  <2>. QED BY <2>2 DEF Usable, KeyOf
<1>4. ASSUME ~rereads, maker = "agent", Familiar # "unknown"
      PROVE  Familiar = "claw"
  BY <1>2, <1>4 DEF ChoiceInv, MakerInv
<1>5. \/ rereads
      \/ maker = "cli" /\ ~Usable("claw")
      \/ maker = "agent" /\ Familiar # "unknown" /\ ~Usable(Familiar)
      \/ /\ maker = "agent" /\ Familiar = "unknown"
         /\ \/ \A p \in DOMAIN KeyOf : ~Usable(p)
            \/ saved.state = "token" /\ ~saved.fresh
            \/ Given(KeyOf.claw) /\ Malformed(Bearer)
  BY <1>2, <1>3, <1>4
<1>6. ClientIsMade'
  BY <1>1, <1>5 DEF ClientIsMade, Familiar, Usable, Given, FromEnvironment, FromLogin, Legible, Malformed, Refreshable
<1>7. rereads' \in {rereads, TRUE} /\ choosing \notin {"detect", "ready"}
  BY <1>1
<1>. QED BY <1>1, <1>6, <1>7, FailingKeeps

LEMMA TakeEnvironmentKeeps ==
  ASSUME ChoiceInv, TakeEnvironment
  PROVE  ChoiceInv'
<1>1. choosing = "env" /\ UNCHANGED <<saved, rereads>> /\ chosen.provider = "claw"
  BY DEF TakeEnvironment, ChoiceInv, MakerInv
<1>2. CASE Malformed(KeyOf.claw) \/ Malformed(Bearer)
  <2>1. Fails
    BY <1>2 DEF TakeEnvironment
  <2>2. ~Usable("claw")
    BY <1>2 DEF Usable, FromEnvironment, FromLogin, Legible
  <2>3. HasClawAuth => Given(KeyOf.claw) /\ Malformed(Bearer)
    BY <1>2 DEF HasClawAuth
  <2>. QED BY <1>1, <2>1, <2>2, <2>3, ClawFails
<1>3. CASE Legible /\ Given(KeyOf.claw)
  <2>1. PICK bearer : bearer = IF Given(Bearer) THEN "env" ELSE "none"
    OBVIOUS
  <2>2. With(TRUE, bearer)
    BY <1>3, <2>1 DEF TakeEnvironment, Legible
  <2>3. environment[KeyOf[chosen.provider]] = "value"
    BY <1>1, <1>3 DEF Given
  <2>. QED BY <1>1, <2>1, <2>2, <2>3, ReadyKeeps
<1>4. CASE Legible /\ ~Given(KeyOf.claw) /\ Given(Bearer)
  <2>1. With(FALSE, "env")
    BY <1>4 DEF TakeEnvironment, Legible
  <2>. QED BY <1>1, <2>1, ReadyKeeps
<1>5. CASE Legible /\ ~Given(KeyOf.claw) /\ ~Given(Bearer)
  <2>1. choosing' = "saved" /\ UNCHANGED <<chosen, maker, wanted, environment, settings, requested>>
    BY <1>5 DEF TakeEnvironment, Legible, Choosing
  <2>2. Familiar' = Familiar /\ ByCredentials' = ByCredentials /\ FromEnvironment' = FromEnvironment /\ Legible' = Legible
    BY <1>1, <2>1 DEF Familiar, ByCredentials, FromEnvironment, Legible, HasClawAuth, Given, Malformed
  <2>3. ~FromEnvironment
    BY <1>5 DEF FromEnvironment
  <2>4. ChoiceType' /\ HeldInv' /\ ClientIsMade'
    BY <1>1, <1>5, <2>1, <2>2, <2>3 DEF ChoiceInv, ChoiceType, HeldInv, ClientIsMade
  <2>5. MakerInv'
    BY <1>1, <2>1, <2>2 DEF ChoiceInv, MakerInv
  <2>6. RequestsGoHome'
    BY <1>1, <2>1, <2>2 DEF ChoiceInv, RequestsGoHome
  <2>. QED BY <2>4, <2>5, <2>6 DEF ChoiceInv
<1>. QED BY <1>2, <1>3, <1>4, <1>5 DEF Legible

LEMMA TakeSavedKeeps ==
  ASSUME ChoiceInv, TakeSaved
  PROVE  ChoiceInv'
<1>1. /\ choosing = "saved" /\ UNCHANGED <<saved, rereads>> /\ chosen.provider = "claw"
      /\ Legible /\ ~FromEnvironment
  BY DEF TakeSaved, ChoiceInv, MakerInv, HeldInv
<1>2. CASE saved.state # "token" \/ (~saved.fresh /\ ~Refreshable)
  <2>1. Fails
    BY <1>2 DEF TakeSaved
  <2>2. ~Usable("claw")
    BY <1>1, <1>2 DEF Usable, FromLogin
  <2>3. HasClawAuth => saved.state = "token" /\ ~saved.fresh
    BY <1>1, <1>2 DEF HasClawAuth, FromEnvironment
  <2>. QED BY <1>1, <2>1, <2>2, <2>3, ClawFails
<1>3. CASE saved.state = "token" /\ saved.fresh
  <2>1. With(FALSE, "fresh")
    BY <1>3 DEF TakeSaved, TokenOf
  <2>. QED BY <1>1, <2>1, ReadyKeeps
<1>4. CASE saved.state = "token" /\ ~saved.fresh /\ Refreshable
  <2>1. choosing' = "refresh" /\ UNCHANGED <<chosen, maker, wanted, environment, settings, requested>> /\ maker = "cli"
    BY <1>4 DEF TakeSaved, Choosing, Refreshable
  <2>2. FromEnvironment' = FromEnvironment /\ Legible' = Legible /\ Familiar' = Familiar
    BY <2>1 DEF FromEnvironment, Legible, Given, Malformed, Familiar
  <2>3. ChoiceType' /\ HeldInv' /\ ClientIsMade' /\ MakerInv'
    BY <1>1, <2>1, <2>2 DEF ChoiceInv, ChoiceType, HeldInv, ClientIsMade, MakerInv
  <2>4. RequestsGoHome'
    BY <1>1, <2>1, <2>2 DEF ChoiceInv, RequestsGoHome
  <2>. QED BY <2>3, <2>4 DEF ChoiceInv
<1>. QED BY <1>2, <1>3, <1>4

LEMMA RefreshKeeps ==
  ASSUME ChoiceInv, RefreshSaved \/ RefreshIsRefused
  PROVE  ChoiceInv'
<1>1. choosing = "refresh" /\ maker = "cli" /\ chosen.provider = "claw" /\ ~FromEnvironment
  BY DEF RefreshSaved, RefreshIsRefused, ChoiceInv, ChoiceType, MakerInv, HeldInv
<1>2. CASE RefreshSaved
  <2>1. With(FALSE, "fresh") /\ UNCHANGED rereads
    BY <1>2 DEF RefreshSaved
  <2>. QED BY <1>1, <2>1, ReadyKeeps
<1>3. CASE RefreshIsRefused
  <2>1. Fails /\ UNCHANGED saved /\ rereads' \in {rereads, TRUE} /\ choosing \notin {"detect", "ready"} /\ rereads' = TRUE
    BY <1>1, <1>3 DEF RefreshIsRefused
  <2>. QED BY <2>1, FailingKeeps
<1>. QED BY <1>2, <1>3

LEMMA SendKeeps ==
  ASSUME ChoiceInv, SendAs
  PROVE  ChoiceInv'
<1> DEFINE r == [to |-> chosen.provider, url |-> BaseOf(UrlOf[chosen.provider]),
                 key |-> chosen.key, bearer |-> chosen.bearer, model |-> chosen.model,
                 most |-> MostTokens(chosen.model)]
<1>1. /\ choosing = "ready" /\ requested' = requested \cup {r}
      /\ UNCHANGED <<maker, wanted, environment, saved, settings, choosing, chosen, rereads>>
  BY DEF SendAs
<1>2. /\ r.to = chosen.provider /\ r.key = chosen.key /\ r.bearer = chosen.bearer /\ r.model = chosen.model
  OBVIOUS
<1> HIDE DEF r
<1>3. Familiar' = Familiar /\ ByCredentials' = ByCredentials /\ FromEnvironment' = FromEnvironment /\ Legible' = Legible
  BY <1>1 DEF Familiar, ByCredentials, FromEnvironment, Legible, HasClawAuth, Given, Malformed
<1>4. ChoiceType' /\ HeldInv' /\ MakerInv' /\ ClientIsMade'
  BY <1>1, <1>3 DEF ChoiceInv, ChoiceType, HeldInv, MakerInv, ClientIsMade, Given
<1>5. /\ r.to = "claw" \/ maker = "agent"
      /\ maker = "agent" => /\ Familiar \in {r.to, "unknown"}
                             /\ r.model.name \in DOMAIN Alias => r.model = Exact(Alias[r.model.name])
      /\ r.key => environment[KeyOf[r.to]] = "value"
      /\ r.bearer \in {"fresh", "lapsed"} => ~FromEnvironment
      /\ ~r.key => r.bearer # "none"
  BY <1>1, <1>2, AliasesAreFinal DEF ChoiceInv, ChoiceType, MakerInv, HeldInv
<1>6. RequestsGoHome'
  BY <1>1, <1>3, <1>5 DEF ChoiceInv, RequestsGoHome, Familiar
<1>. QED BY <1>4, <1>6 DEF ChoiceInv

LEMMA MakeAgainKeeps ==
  ASSUME ChoiceInv, NEW m, MakeAgain(m)
  PROVE  ChoiceInv'
<1>1. /\ maker = "cli" /\ choosing' = "env" /\ rereads' = FALSE
      /\ chosen' = [provider |-> "claw", key |-> FALSE, bearer |-> "none", model |-> ShortName(m)]
      /\ UNCHANGED <<maker, environment, saved, settings, requested>>
  BY DEF MakeAgain, NoClient
<1>2. FromEnvironment' = FromEnvironment
  BY <1>1 DEF FromEnvironment, Legible, Given, Malformed
<1>3. ChoiceType' /\ HeldInv' /\ MakerInv' /\ ClientIsMade'
  BY <1>1 DEF ChoiceType, HeldInv, MakerInv, ClientIsMade
<1>4. RequestsGoHome'
  BY <1>1, <1>2 DEF ChoiceInv, RequestsGoHome
<1>. QED BY <1>3, <1>4 DEF ChoiceInv

LEMMA ChangeLoginKeeps ==
  ASSUME ChoiceInv, NEW login, ChangeLogin(login)
  PROVE  ChoiceInv'
<1>1. /\ rereads' = TRUE /\ choosing # "failed"
      /\ UNCHANGED <<maker, wanted, environment, settings, choosing, requested>>
      /\ chosen' \in {chosen, [chosen EXCEPT !.bearer = IF @ = "fresh" THEN "lapsed" ELSE @]}
  BY DEF ChangeLogin
<1>2. PICK bearer : bearer = chosen'.bearer
  OBVIOUS
<1>3. /\ chosen' = [provider |-> chosen.provider, key |-> chosen.key, bearer |-> bearer, model |-> chosen.model]
      /\ bearer = chosen.bearer \/ (chosen.bearer = "fresh" /\ bearer = "lapsed")
      /\ chosen'.provider = chosen.provider /\ chosen'.key = chosen.key /\ chosen'.model = chosen.model
  BY <1>1, <1>2 DEF ChoiceInv, ChoiceType
<1>4. Familiar' = Familiar /\ FromEnvironment' = FromEnvironment /\ Legible' = Legible
  BY <1>1 DEF Familiar, FromEnvironment, Legible, Given, Malformed
<1>5. ChoiceType' /\ ClientIsMade'
  BY <1>1, <1>2, <1>3 DEF ChoiceInv, ChoiceType, ClientIsMade
<1>6. HeldInv'
  BY <1>1, <1>2, <1>3, <1>4 DEF ChoiceInv, HeldInv
<1>7. MakerInv'
  BY <1>1, <1>2, <1>3, <1>4 DEF ChoiceInv, MakerInv, Given
<1>8. RequestsGoHome'
  BY <1>1, <1>4 DEF ChoiceInv, RequestsGoHome
<1>. QED BY <1>5, <1>6, <1>7, <1>8 DEF ChoiceInv

(* A client is made wherever credentials for it would do, and requests go  *)
(* to the provider of their model, with that provider's credentials only:  *)
(* for any environment and models, whatever happens to the saved login.    *)
THEOREM ClientsStayRight == ChoiceSpec => []ClientsAreRight
<1>1. ChoiceInv /\ [ChoiceNext]_choiceVars => ChoiceInv'
  <2> SUFFICES ASSUME ChoiceInv, [ChoiceNext]_choiceVars PROVE ChoiceInv'
    OBVIOUS
  <2>1. CASE UNCHANGED choiceVars
    BY <2>1 DEF choiceVars, ChoiceInv, ChoiceType, MakerInv, HeldInv, ClientIsMade, RequestsGoHome, Familiar, Usable,
                FromEnvironment, FromLogin, Legible, Refreshable, ByCredentials, HasClawAuth, Given, Malformed
  <2>2. ASSUME NEW m \in Asked, MakeAgain(m) PROVE ChoiceInv'
    BY <2>2, MakeAgainKeeps
  <2>3. ASSUME NEW login \in Logins, ChangeLogin(login) PROVE ChoiceInv'
    BY <2>3, ChangeLoginKeeps
  <2>. QED BY <2>1, <2>2, <2>3, DetectKeeps, TakeKeyKeeps, TakeEnvironmentKeeps, TakeSavedKeeps, RefreshKeeps,
              SendKeeps DEF ChoiceNext
<1>2. ChoiceInv => ClientsAreRight
  BY DEF ChoiceInv, ClientsAreRight
<1>. QED BY <1>1, <1>2, ChoiceStart, PTL DEF ChoiceSpec
=============================================================================
