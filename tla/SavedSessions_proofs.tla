------------------------ MODULE SavedSessions_proofs ------------------------
(***************************************************************************)
(* Proofs about what the command line keeps for its user.  Of              *)
(* SavedSessions: every file that can be read holds a session the runtime  *)
(* can go on with, nothing is unsaved at the prompt, and a save drops no   *)
(* turn of its own -- for any programs that share the files, any turns,    *)
(* wherever one of them ends.  Of GitCommands: what is committed is what   *)
(* the message was written for, and what a pull request is told of is all  *)
(* there was -- for any runners, changes and repositories, whichever       *)
(* command of git fails.                                                   *)
(***************************************************************************)
EXTENDS SavedSessions, GitCommands, RepoInit, SequenceTheorems, FiniteSetTheorems, TLAPS

-----------------------------------------------------------------------------
(* Induction over the naturals, over the members of a set: the provers do  *)
(* not instantiate a theorem about a predicate, but they do one about a    *)
(* set, such as WFMin.                                                     *)
LEMMA SetInduction ==
  ASSUME NEW S, 0 \in S, \A n \in Nat : n \in S => n + 1 \in S
  PROVE  \A n \in Nat : n \in S
<1> SUFFICES ASSUME NEW n \in Nat, n \notin S PROVE FALSE
  OBVIOUS
<1> DEFINE U == 0..n
           T == {V \in FiniteSubsetsOf(U) : \E m \in U : V = 0..m /\ m \notin S}
<1>1. 0..n \in T
  <2>1. IsFiniteSet(0..n)
    BY FS_Interval
  <2>. QED BY <2>1 DEF FiniteSubsetsOf
<1>2. \E V \in T : \A W \in T : ~ (<<W, V>> \in StrictSubsetOrdering(U))
  <2>1. T \subseteq FiniteSubsetsOf(U) /\ T # {}
    BY <1>1
  <2> HIDE DEF T, U
  <2>2. IsWellFoundedOn(StrictSubsetOrdering(U), FiniteSubsetsOf(U))
    BY FS_StrictSubsetOrderingWellFounded
  <2>. QED BY <2>1, <2>2, WFMin
<1>3. PICK V \in T : \A W \in T : ~ (<<W, V>> \in StrictSubsetOrdering(U))
  BY <1>2
<1>4. PICK m \in U : V = 0..m /\ m \notin S
  OBVIOUS
<1>5. m # 0 /\ m - 1 \in U /\ m - 1 \in Nat
  BY <1>4
<1>6. m - 1 \notin S
  BY <1>4, <1>5
<1>7. 0..(m - 1) \in T
  <2>1. IsFiniteSet(0..(m - 1))
    BY <1>5, FS_Interval
  <2>. QED BY <1>5, <1>6, <2>1 DEF FiniteSubsetsOf
<1>8. <<0..(m - 1), V>> \in StrictSubsetOrdering(U)
  BY <1>4, <1>5 DEF StrictSubsetOrdering
<1>. QED BY <1>3, <1>7, <1>8

(* FlattenSeq joins the sequences one after the other.                     *)
Joined(seqs) ==
  CHOOSE f : f = [i \in 1..Len(seqs) |-> IF i = 1 THEN seqs[i] ELSE f[i - 1] \o seqs[i]]

LEMMA FlattenIsJoined ==
  \A seqs : FlattenSeq(seqs) = IF Len(seqs) = 0 THEN seqs ELSE Joined(seqs)[Len(seqs)]
BY DEF FlattenSeq, Joined

(* A set closed under concatenation holds what joins its members.          *)
LEMMA JoinedSteps ==
  ASSUME NEW S, \A a, b \in S : a \o b \in S, NEW seqs \in Seq(S)
  PROVE  /\ Joined(seqs) \in [1..Len(seqs) -> S]
         /\ \A i \in 1..Len(seqs) :
              Joined(seqs)[i] = IF i = 1 THEN seqs[i] ELSE Joined(seqs)[i - 1] \o seqs[i]
<1> DEFINE N == Len(seqs)
           Joins(f, n) == f = [i \in 1..n |-> IF i = 1 THEN seqs[i] ELSE f[i - 1] \o seqs[i]]
           Built(n) == \E f \in [1..n -> S] : Joins(f, n)
           Fine == {n \in Nat : n <= N => Built(n)}
<1>0. N \in Nat /\ \A i \in 1..N : seqs[i] \in S
  OBVIOUS
<1>1. Built(0)
  <2> DEFINE f == [i \in 1..0 |-> <<>>]
  <2>1. f \in [1..0 -> S] /\ Joins(f, 0)
    OBVIOUS
  <2>. QED BY <2>1
<1>2. ASSUME NEW n \in Nat, n + 1 <= N, Built(n) PROVE Built(n + 1)
  <2>1. PICK f \in [1..n -> S] : Joins(f, n)
    BY <1>2
  <2> DEFINE new == IF n = 0 THEN seqs[n + 1] ELSE f[n] \o seqs[n + 1]
             h == [i \in 1..(n + 1) |-> IF i = n + 1 THEN new ELSE f[i]]
  <2>2. n + 1 \in 1..N
    BY <1>0, <1>2
  <2>3. seqs[n + 1] \in S
    BY <1>0, <2>2
  <2>3a. new \in S
    <3>1. CASE n = 0
      BY <2>3, <3>1
    <3>2. CASE n # 0
      <4>1. f[n] \in S
        BY <2>1, <3>2
      <4>. QED BY <2>3, <3>2, <4>1
    <3>. QED BY <3>1, <3>2
  <2> HIDE DEF new
  <2>4. h \in [1..(n + 1) -> S]
    <3>1. ASSUME NEW i \in 1..(n + 1) PROVE (IF i = n + 1 THEN new ELSE f[i]) \in S
      <4>1. i = n + 1 \/ i \in 1..n
        OBVIOUS
      <4>. QED BY <2>1, <2>3a, <4>1
    <3>. QED BY <3>1
  <2>5. ASSUME NEW i \in 1..(n + 1) PROVE h[i] = IF i = 1 THEN seqs[i] ELSE h[i - 1] \o seqs[i]
    <3>1. CASE i = n + 1
      <4>1. n # 0 => h[n] = f[n]
        OBVIOUS
      <4>. QED BY <3>1, <4>1 DEF new
    <3>2. CASE i # n + 1
      <4>1. i \in 1..n /\ h[i] = f[i] /\ (i # 1 => h[i - 1] = f[i - 1])
        BY <3>2
      <4>2. f[i] = IF i = 1 THEN seqs[i] ELSE f[i - 1] \o seqs[i]
        BY <2>1, <4>1
      <4>. QED BY <4>1, <4>2
    <3>. QED BY <3>1, <3>2
  <2>6. Joins(h, n + 1)
    <3>1. h = [i \in 1..(n + 1) |-> h[i]]
      OBVIOUS
    <3> HIDE DEF h
    <3>. QED BY <2>5, <3>1
  <2>. QED BY <2>4, <2>6
<1> HIDE DEF Built
<1>3. 0 \in Fine /\ \A n \in Nat : n \in Fine => n + 1 \in Fine
  BY <1>1, <1>2
<1>4. N \in Fine
  <2> HIDE DEF Fine
  <2>. QED BY <1>0, <1>3, SetInduction
<1>5. Built(N)
  BY <1>0, <1>4
<1>6. PICK f \in [1..N -> S] : Joins(f, N)
  BY <1>5 DEF Built
<1>7. Joins(Joined(seqs), N)
  <2> HIDE DEF Joins
  <2>1. Joined(seqs) = CHOOSE g : Joins(g, N)
    BY DEF Joined, Joins
  <2>. QED BY <1>6, <2>1
<1>8. \A i \in 1..N : Joined(seqs)[i] = IF i = 1 THEN seqs[i] ELSE Joined(seqs)[i - 1] \o seqs[i]
  BY <1>7
<1>9. Joined(seqs) \in [1..N -> S]
  <2> DEFINE R == {n \in Nat : n \in 1..N => Joined(seqs)[n] \in S}
  <2>1. 0 \in R
    OBVIOUS
  <2>2. ASSUME NEW n \in Nat, n \in R PROVE n + 1 \in R
    <3> SUFFICES ASSUME n + 1 \in 1..N PROVE Joined(seqs)[n + 1] \in S
      OBVIOUS
    <3>1. seqs[n + 1] \in S
      BY <1>0
    <3>2. CASE n = 0
      BY <1>8, <3>1, <3>2
    <3>3. CASE n # 0
      <4>1. n \in 1..N /\ (n + 1) - 1 = n /\ n + 1 # 1
        BY <1>0, <3>3
      <4>2. Joined(seqs)[n] \in S
        BY <2>2, <4>1
      <4>3. Joined(seqs)[n + 1] = Joined(seqs)[n] \o seqs[n + 1]
        BY <1>8, <4>1
      <4>. QED BY <3>1, <4>2, <4>3
    <3>. QED BY <3>2, <3>3
  <2>3. \A n \in Nat : n \in R
    <3> HIDE DEF R
    <3>. QED BY <2>1, <2>2, SetInduction
  <2>4. \A n \in 1..N : Joined(seqs)[n] \in S
    BY <1>0, <2>3
  <2>5. Joined(seqs) = [n \in 1..N |-> Joined(seqs)[n]]
    BY <1>7
  <2>. QED BY <2>4, <2>5
<1>. QED BY <1>8, <1>9

LEMMA FlattenStays ==
  ASSUME NEW S, <<>> \in S, \A a, b \in S : a \o b \in S, NEW seqs \in Seq(S)
  PROVE  FlattenSeq(seqs) \in S
<1>1. CASE Len(seqs) = 0
  <2>1. seqs = <<>>
    BY <1>1
  <2>. QED BY <1>1, <2>1, FlattenIsJoined
<1>2. CASE Len(seqs) # 0
  <2>1. Joined(seqs) \in [1..Len(seqs) -> S] /\ Len(seqs) \in 1..Len(seqs)
    BY <1>2, JoinedSteps
  <2>2. FlattenSeq(seqs) = Joined(seqs)[Len(seqs)]
    BY <1>2, FlattenIsJoined
  <2>. QED BY <2>1, <2>2
<1>. QED BY <1>1, <1>2

-----------------------------------------------------------------------------
(* Messages whose calls all have their results, and what a turn appends.   *)
Whole(messages) ==
  \A i \in DOMAIN messages :
    /\ i + messages[i].calls \in DOMAIN messages
    /\ AreResults(messages, i + 1, i + messages[i].calls, messages[i].turn)
    /\ messages[i].kind = "result" =>
         \E j \in 1..(i - 1) :
           /\ messages[j] = Summary \/ messages[j].calls >= i - j
           /\ AreResults(messages, j + 1, i, messages[i].turn)
    /\ messages[i] = Summary => i = 1

Turned == {m \in Seq(Messages) : Whole(m) /\ \A i \in DOMAIN m : m[i] # Summary}

LEMMA WholeJoined ==
  ASSUME NEW a \in Seq(Messages), NEW b \in Turned, Whole(a)
  PROVE  a \o b \in Seq(Messages) /\ Whole(a \o b)
<1> DEFINE m == a \o b
           N == Len(a)
<1>0. b \in Seq(Messages) /\ Whole(b) /\ \A i \in DOMAIN b : b[i] # Summary
  BY DEF Turned
<1>1. /\ m \in Seq(Messages) /\ Len(m) = N + Len(b) /\ N \in Nat /\ Len(b) \in Nat
      /\ \A i \in 1..N : m[i] = a[i]
      /\ \A i \in 1..Len(b) : m[N + i] = b[i]
  BY <1>0, ConcatProperties
<1>2. DOMAIN m = 1..(N + Len(b)) /\ DOMAIN a = 1..N /\ DOMAIN b = 1..Len(b)
  BY <1>0, <1>1
<1>2a. \A i \in 1..N : a[i] \in Messages
  OBVIOUS
<1>2b. \A i \in 1..Len(b) : b[i] \in Messages
  BY <1>0
<1>2c. \A x \in Messages : x.calls \in Nat
  BY DEF Messages
<1> HIDE DEF m, N
<1>3. ASSUME NEW i \in DOMAIN m
      PROVE  /\ i + m[i].calls \in DOMAIN m
             /\ AreResults(m, i + 1, i + m[i].calls, m[i].turn)
             /\ m[i].kind = "result" =>
                  \E j \in 1..(i - 1) :
                    /\ m[j] = Summary \/ m[j].calls >= i - j
                    /\ AreResults(m, j + 1, i, m[i].turn)
             /\ m[i] = Summary => i = 1
  <2>1. CASE i \in 1..N
    <3>1. m[i] = a[i] /\ a[i].calls \in Nat
      BY <1>1, <1>2a, <1>2c, <2>1
    <3>2. /\ i + a[i].calls \in 1..N
          /\ AreResults(a, i + 1, i + a[i].calls, a[i].turn)
          /\ a[i].kind = "result" =>
               \E j \in 1..(i - 1) :
                 /\ a[j] = Summary \/ a[j].calls >= i - j
                 /\ AreResults(a, j + 1, i, a[i].turn)
          /\ a[i] = Summary => i = 1
      BY <1>2, <2>1 DEF Whole
    <3>3. i + m[i].calls \in DOMAIN m
      BY <1>1, <1>2, <3>1, <3>2
    <3>4. AreResults(m, i + 1, i + m[i].calls, m[i].turn)
      BY <1>1, <2>1, <3>1, <3>2 DEF AreResults
    <3>5. ASSUME m[i].kind = "result"
          PROVE  \E j \in 1..(i - 1) :
                   /\ m[j] = Summary \/ m[j].calls >= i - j
                   /\ AreResults(m, j + 1, i, m[i].turn)
      <4>1. PICK j \in 1..(i - 1) : /\ a[j] = Summary \/ a[j].calls >= i - j
                                    /\ AreResults(a, j + 1, i, a[i].turn)
        BY <3>1, <3>2, <3>5
      <4>2. m[j] = a[j] /\ \A k \in (j + 1)..i : m[k] = a[k]
        <5>1. j \in 1..N /\ (j + 1)..i \subseteq 1..N
          BY <1>1, <2>1
        <5>. QED BY <1>1, <5>1
      <4>3. m[i].turn = a[i].turn
        BY <3>1
      <4>4. AreResults(m, j + 1, i, m[i].turn)
        BY <4>1, <4>2, <4>3 DEF AreResults
      <4>. QED BY <4>1, <4>2, <4>4
    <3>. QED BY <3>1, <3>2, <3>3, <3>4, <3>5
  <2>2. CASE i \notin 1..N
    <3> DEFINE h == i - N
    <3>0. h \in 1..Len(b) /\ i = N + h
      BY <1>1, <1>2, <2>2
    <3> HIDE DEF h
    <3>1. m[i] = b[h] /\ b[h].calls \in Nat
      BY <1>1, <1>2b, <1>2c, <3>0
    <3>2. /\ h + b[h].calls \in 1..Len(b)
          /\ AreResults(b, h + 1, h + b[h].calls, b[h].turn)
          /\ b[h].kind = "result" =>
               \E j \in 1..(h - 1) :
                 /\ b[j] = Summary \/ b[j].calls >= h - j
                 /\ AreResults(b, j + 1, h, b[h].turn)
          /\ b[h] # Summary
      BY <1>0, <1>2, <3>0 DEF Whole
    <3>3. i + m[i].calls \in DOMAIN m
      BY <1>1, <1>2, <3>0, <3>1, <3>2
    <3>4. AreResults(m, i + 1, i + m[i].calls, m[i].turn)
      <4> SUFFICES ASSUME NEW k \in (i + 1)..(i + m[i].calls) PROVE m[k] = Result(m[i].turn)
        BY DEF AreResults
      <4>1. k - N \in (h + 1)..(h + b[h].calls) /\ k - N \in 1..Len(b) /\ k = N + (k - N)
        BY <1>1, <3>0, <3>1, <3>2
      <4>2. b[k - N] = Result(b[h].turn)
        BY <3>2, <4>1 DEF AreResults
      <4>. QED BY <1>1, <3>1, <4>1, <4>2
    <3>5. ASSUME m[i].kind = "result"
          PROVE  \E j \in 1..(i - 1) :
                   /\ m[j] = Summary \/ m[j].calls >= i - j
                   /\ AreResults(m, j + 1, i, m[i].turn)
      <4>1. PICK j \in 1..(h - 1) : /\ b[j] = Summary \/ b[j].calls >= h - j
                                    /\ AreResults(b, j + 1, h, b[h].turn)
        BY <3>1, <3>2, <3>5
      <4>2. N + j \in 1..(i - 1) /\ j \in 1..Len(b) /\ i - (N + j) = h - j
        BY <1>1, <3>0
      <4>3. m[N + j] = b[j]
        BY <1>1, <4>2
      <4>4. AreResults(m, N + j + 1, i, m[i].turn)
        <5> SUFFICES ASSUME NEW k \in (N + j + 1)..i PROVE m[k] = Result(m[i].turn)
          BY DEF AreResults
        <5>1. k - N \in (j + 1)..h /\ k - N \in 1..Len(b) /\ k = N + (k - N)
          BY <1>1, <3>0
        <5>2. b[k - N] = Result(b[h].turn)
          BY <4>1, <5>1 DEF AreResults
        <5>. QED BY <1>1, <3>1, <5>1, <5>2
      <4>. QED BY <4>1, <4>2, <4>3, <4>4
    <3>. QED BY <3>1, <3>2, <3>3, <3>4, <3>5
  <2>. QED BY <2>1, <2>2
<1>4. Whole(m)
  BY <1>3 DEF Whole
<1>. QED BY <1>1, <1>4 DEF m

LEMMA TurnedJoined ==
  ASSUME NEW a \in Turned, NEW b \in Turned
  PROVE  a \o b \in Turned
<1>1. a \o b \in Seq(Messages) /\ Whole(a \o b)
  BY WholeJoined DEF Turned
<1>2. \A i \in DOMAIN (a \o b) : (a \o b)[i] # Summary
  <2>1. a \in Seq(Messages) /\ b \in Seq(Messages)
    BY DEF Turned
  <2>2. TAKE i \in DOMAIN (a \o b)
  <2>3. \/ i \in 1..Len(a) /\ (a \o b)[i] = a[i]
        \/ i - Len(a) \in 1..Len(b) /\ (a \o b)[i] = b[i - Len(a)]
    BY <2>1, ConcatProperties
  <2>. QED BY <2>1, <2>3 DEF Turned
<1>. QED BY <1>1, <1>2 DEF Turned

LEMMA UserTurned ==
  ASSUME NEW n \in 0..MaxTurns
  PROVE  <<User(n)>> \in Turned /\ <<Reply(n, 0)>> \in Turned
<1>1. ASSUME NEW x \in Messages, x.calls = 0, x.kind # "result", x # Summary
      PROVE  <<x>> \in Turned
  <2>1. <<x>> \in Seq(Messages) /\ DOMAIN <<x>> = 1..1 /\ <<x>>[1] = x
    OBVIOUS
  <2>2. Whole(<<x>>)
    BY <1>1, <2>1 DEF Whole, AreResults
  <2>. QED BY <1>1, <2>1, <2>2 DEF Turned
<1>2. User(n) \in Messages /\ User(n).calls = 0 /\ User(n).kind # "result" /\ User(n) # Summary
  BY DEF User, Messages, Summary
<1>3. Reply(n, 0) \in Messages /\ Reply(n, 0).calls = 0 /\ Reply(n, 0).kind # "result" /\ Reply(n, 0) # Summary
  BY DEF Reply, Messages, Summary
<1>. QED BY <1>1, <1>2, <1>3

(* A reply with its calls, and their results behind it.                    *)
Round(n, k) == <<Reply(n, k)>> \o [j \in 1..k |-> Result(n)]

LEMMA RoundTurned ==
  ASSUME NEW n \in 0..MaxTurns, NEW k \in Nat
  PROVE  Round(n, k) \in Turned
<1> DEFINE a == <<Reply(n, k)>>
           b == [j \in 1..k |-> Result(n)]
           m == a \o b
<1>1. Reply(n, k) \in Messages /\ Result(n) \in Messages
  BY DEF Reply, Result, Messages
<1>2. a \in Seq(Messages) /\ Len(a) = 1 /\ a[1] = Reply(n, k)
  BY <1>1
<1>3. b \in Seq(Messages) /\ Len(b) = k /\ \A i \in 1..k : b[i] = Result(n)
  <2>1. b \in [1..k -> Messages]
    BY <1>1
  <2>. QED BY <2>1
<1> HIDE DEF a, b
<1>4. /\ m \in Seq(Messages) /\ DOMAIN m = 1..(k + 1)
      /\ m[1] = Reply(n, k) /\ \A i \in 2..(k + 1) : m[i] = Result(n)
  <2>1. /\ m \in Seq(Messages) /\ Len(m) = 1 + k
        /\ \A i \in 1..1 : m[i] = a[i]
        /\ \A i \in 1..k : m[1 + i] = b[i]
    <3>0. a \in Seq(Messages) /\ b \in Seq(Messages)
      BY <1>2, <1>3
    <3>1. Len(m) = Len(a) + Len(b) /\ m \in Seq(Messages)
      BY <3>0, ConcatProperties
    <3>2. \A i \in 1..Len(a) : m[i] = a[i]
      BY <3>0, ConcatProperties
    <3>3. \A i \in 1..Len(b) : m[Len(a) + i] = b[i]
      BY <3>0, ConcatProperties
    <3> HIDE DEF m
    <3>. QED BY <1>2, <1>3, <3>1, <3>2, <3>3
  <2>2. ASSUME NEW i \in 2..(k + 1) PROVE m[i] = Result(n)
    <3>1. i - 1 \in 1..k /\ i = 1 + (i - 1)
      OBVIOUS
    <3>. QED BY <1>3, <2>1, <3>1
  <2> HIDE DEF m
  <2>. QED BY <1>2, <2>1, <2>2
<1> HIDE DEF m
<1>5. ASSUME NEW i \in DOMAIN m
      PROVE  /\ i + m[i].calls \in DOMAIN m
             /\ AreResults(m, i + 1, i + m[i].calls, m[i].turn)
             /\ m[i].kind = "result" =>
                  \E j \in 1..(i - 1) :
                    /\ m[j] = Summary \/ m[j].calls >= i - j
                    /\ AreResults(m, j + 1, i, m[i].turn)
             /\ m[i] # Summary
  <2>1. CASE i = 1
    <3>1. m[i].calls = k /\ m[i].turn = n /\ m[i].kind = "reply" /\ m[i] # Summary
      BY <1>4, <2>1 DEF Reply, Summary
    <3>2. AreResults(m, 2, k + 1, n)
      BY <1>4 DEF AreResults
    <3>. QED BY <1>4, <2>1, <3>1, <3>2
  <2>2. CASE i # 1
    <3>1. i \in 2..(k + 1)
      BY <1>4, <2>2
    <3>2. m[i].calls = 0 /\ m[i].turn = n /\ m[i] # Summary
      BY <1>4, <3>1 DEF Result, Summary
    <3>3. 1 \in 1..(i - 1) /\ m[1].calls >= i - 1
      BY <1>4, <3>1 DEF Reply
    <3>4. AreResults(m, 1 + 1, i, n) /\ AreResults(m, i + 1, i, n)
      BY <1>4, <3>1 DEF AreResults
    <3>. QED BY <1>4, <3>1, <3>2, <3>3, <3>4
  <2>. QED BY <2>1, <2>2
<1>6. m \in Turned
  BY <1>4, <1>5 DEF Turned, Whole
<1>. QED BY <1>6 DEF Round, m, a, b

LEMMA TurnTurned ==
  ASSUME NEW n \in 0..MaxTurns, NEW shape \in TurnShapes
  PROVE  /\ TurnMessages(n, shape) \in Turned
         /\ TurnMessages(n, shape) # <<>>
         /\ Last(TurnMessages(n, shape)) = Reply(n, 0)
<1> DEFINE rounds == [i \in DOMAIN shape |-> Round(n, shape[i])]
           all == FlattenSeq(rounds)
<1>1. shape \in Seq(Nat \ {0})
  BY SessionsAssumption
<1>2. rounds \in Seq(Turned)
  <2>1. DOMAIN shape = 1..Len(shape) /\ \A i \in DOMAIN shape : shape[i] \in Nat
    BY <1>1
  <2>2. rounds \in [1..Len(shape) -> Turned]
    BY <2>1, RoundTurned
  <2>. QED BY <1>1, <2>2
<1>3. <<>> \in Turned
  BY DEF Turned, Whole
<1>4. all \in Turned
  <2> HIDE DEF rounds
  <2>. QED BY <1>2, <1>3, TurnedJoined, FlattenStays
<1>5. TurnMessages(n, shape) = <<User(n)>> \o all \o <<Reply(n, 0)>>
  BY DEF TurnMessages, Round
<1> HIDE DEF all, rounds
<1>6. <<User(n)>> \o all \in Turned /\ <<User(n)>> \o all \o <<Reply(n, 0)>> \in Turned
  BY <1>4, UserTurned, TurnedJoined
<1>7. <<User(n)>> \o all \in Seq(Messages) /\ Reply(n, 0) \in Messages
  BY <1>6 DEF Turned, Reply, Messages
<1>8. Last(<<User(n)>> \o all \o <<Reply(n, 0)>>) = Reply(n, 0) /\ <<User(n)>> \o all \o <<Reply(n, 0)>> # <<>>
  <2> DEFINE s == <<User(n)>> \o all
  <2> HIDE DEF s
  <2>1. s \in Seq(Messages)
    BY <1>7 DEF s
  <2>2. Len(s \o <<Reply(n, 0)>>) = Len(s) + 1 /\ (s \o <<Reply(n, 0)>>)[Len(s) + 1] = Reply(n, 0)
    BY <1>7, <2>1
  <2>3. s \o <<Reply(n, 0)>> # <<>>
    BY <2>1, <2>2
  <2>. QED BY <2>2, <2>3 DEF Last, s
<1>. QED BY <1>5, <1>6, <1>8

LEMMA CompleteIsWhole ==
  \A m : Complete(m) <=> Whole(m) /\ (m # <<>> => Last(m).kind = "reply")
BY DEF Complete, Whole

(* A turn that returned Ok leaves a complete session complete.             *)
LEMMA TurnKeepsComplete ==
  ASSUME NEW m \in Seq(Messages), Complete(m), NEW n \in 0..MaxTurns, NEW shape \in TurnShapes
  PROVE  /\ m \o TurnMessages(n, shape) \in Seq(Messages)
         /\ Complete(m \o TurnMessages(n, shape))
<1> DEFINE t == TurnMessages(n, shape)
<1>1. t \in Turned /\ t # <<>> /\ Last(t) = Reply(n, 0)
  BY TurnTurned
<1> HIDE DEF t
<1>2. m \o t \in Seq(Messages) /\ Whole(m \o t)
  BY <1>1, CompleteIsWhole, WholeJoined
<1>3. Last(m \o t) = Last(t)
  <2>1. t \in Seq(Messages) /\ Len(t) \in 1..Len(t)
    BY <1>1, EmptySeq DEF Turned
  <2>2. Len(m \o t) = Len(m) + Len(t) /\ (m \o t)[Len(m) + Len(t)] = t[Len(t)]
    BY <2>1, ConcatProperties
  <2>. QED BY <2>2 DEF Last
<1>4. Complete(m \o t)
  BY <1>1, <1>2, <1>3, CompleteIsWhole DEF Reply
<1>. QED BY <1>2, <1>4 DEF t

(* So does a compaction: results whose calls it took stand right behind    *)
(* the summary.                                                            *)
LEMMA CompactedComplete ==
  ASSUME NEW m \in Seq(Messages), Complete(m), Compactable(m)
  PROVE  Compacted(m) \in Seq(Messages) /\ Complete(Compacted(m))
<1> DEFINE L == Len(m)
           d == L - Preserve - 1
           tail == SubSeq(m, L - Preserve + 1, L)
           c == Compacted(m)
<1>0. Preserve \in Nat \ {0} /\ L \in Nat /\ DOMAIN m = 1..L
  BY SessionsAssumption
<1>1. L > Preserve /\ d \in Nat
  BY <1>0 DEF Compactable
<1>2. Summary \in Messages
  <2>1. 0 \in 0..MaxTurns
    BY SessionsAssumption
  <2>. QED BY <2>1 DEF Summary, Messages
<1>3. /\ tail \in Seq(Messages) /\ Len(tail) = Preserve
      /\ \A i \in 1..Preserve : tail[i] = m[L - Preserve + i]
  <2>1. tail = [i \in 1..Preserve |-> m[L - Preserve + i]]
    <3>1. L - (L - Preserve + 1) + 1 = Preserve
      BY <1>0
    <3>2. tail = [i \in 1..(L - (L - Preserve + 1) + 1) |-> m[(L - Preserve + 1) + i - 1]]
      BY <1>0, <1>1
    <3>3. \A i \in 1..Preserve : (L - Preserve + 1) + i - 1 = L - Preserve + i
      BY <1>0
    <3>. QED BY <3>1, <3>2, <3>3
  <2> HIDE DEF tail
  <2>2. \A i \in 1..Preserve : L - Preserve + i \in 1..L
    BY <1>0, <1>1
  <2>3. tail \in [1..Preserve -> Messages]
    BY <1>0, <2>1, <2>2
  <2>4. \A i \in 1..Preserve : tail[i] = m[L - Preserve + i]
    BY <2>1
  <2>5. tail \in Seq(Messages) /\ Len(tail) = Preserve
    BY <1>0, <2>3
  <2>. QED BY <2>4, <2>5
<1> HIDE DEF tail
<1>4. /\ c \in Seq(Messages) /\ DOMAIN c = 1..(Preserve + 1) /\ Len(c) = Preserve + 1
      /\ c[1] = Summary
      /\ \A i \in 2..(Preserve + 1) : d + i \in 2..L /\ c[i] = m[d + i]
  <2>1. c = <<Summary>> \o tail
    BY DEF Compacted, tail
  <2> HIDE DEF c
  <2>2. c \in Seq(Messages) /\ Len(c) = 1 + Preserve /\ c[1] = Summary
    BY <1>0, <1>2, <1>3, <2>1
  <2>3. \A i \in 1..Preserve : c[1 + i] = tail[i]
    BY <1>2, <1>3, <2>1
  <2>4. ASSUME NEW i \in 2..(Preserve + 1) PROVE d + i \in 2..L /\ c[i] = m[d + i]
    <3>1. i - 1 \in 1..Preserve /\ i = 1 + (i - 1) /\ L - Preserve + (i - 1) = d + i
      BY <1>0
    <3>2. d + i \in 2..L
      BY <1>0, <1>1
    <3>. QED BY <1>3, <2>3, <3>1, <3>2
  <2>. QED BY <1>0, <2>2, <2>4
<1>4a. L \in 1..L /\ d + (Preserve + 1) = L /\ Preserve + 1 \in 2..(Preserve + 1)
  BY <1>0, <1>1
<1>4b. \A i \in 1..L : m[i] \in Messages /\ m[i].calls \in Nat
  <2>1. \A x \in Messages : x.calls \in Nat
    BY DEF Messages
  <2>2. \A i \in 1..L : m[i] \in Messages
    BY <1>0
  <2>. QED BY <2>1, <2>2
<1> HIDE DEF c, L, d
<1>5. Whole(m)
  BY CompleteIsWhole
<1>6. ASSUME NEW i \in DOMAIN c
      PROVE  /\ i + c[i].calls \in DOMAIN c
             /\ AreResults(c, i + 1, i + c[i].calls, c[i].turn)
             /\ c[i].kind = "result" =>
                  \E j \in 1..(i - 1) :
                    /\ c[j] = Summary \/ c[j].calls >= i - j
                    /\ AreResults(c, j + 1, i, c[i].turn)
             /\ c[i] = Summary => i = 1
  <2>1. CASE i = 1
    <3>1. c[i].calls = 0 /\ c[i].kind # "result"
      BY <1>4, <2>1 DEF Summary
    <3>2. AreResults(c, i + 1, i + 0, c[i].turn)
      BY <2>1 DEF AreResults
    <3>. QED BY <1>0, <1>4, <2>1, <3>1, <3>2
  <2>2. CASE i # 1
    <3>0. i \in 2..(Preserve + 1)
      BY <1>4, <2>2
    <3> DEFINE h == d + i
    <3>1. h \in 2..L /\ h \in DOMAIN m /\ c[i] = m[h] /\ m[h].calls \in Nat
      BY <1>0, <1>4, <1>4b, <3>0
    <3>2. /\ h + m[h].calls \in 1..L
          /\ AreResults(m, h + 1, h + m[h].calls, m[h].turn)
          /\ m[h].kind = "result" =>
               \E j \in 1..(h - 1) :
                 /\ m[j] = Summary \/ m[j].calls >= h - j
                 /\ AreResults(m, j + 1, h, m[h].turn)
          /\ m[h] = Summary => h = 1
      BY <1>0, <1>5, <3>1 DEF Whole
    <3>3. i + c[i].calls \in DOMAIN c
      BY <1>0, <1>1, <1>4, <1>4a, <3>0, <3>1, <3>2
    <3>4. AreResults(c, i + 1, i + c[i].calls, c[i].turn)
      <4> SUFFICES ASSUME NEW k \in (i + 1)..(i + c[i].calls) PROVE c[k] = Result(c[i].turn)
        BY DEF AreResults
      <4>1. k \in 2..(Preserve + 1)
        BY <1>0, <1>4, <3>0, <3>1, <3>3
      <4>2. d + k \in (h + 1)..(h + m[h].calls)
        BY <1>0, <1>1, <3>0, <3>1
      <4>3. m[d + k] = Result(m[h].turn)
        BY <3>2, <4>2 DEF AreResults
      <4>. QED BY <1>4, <3>1, <4>1, <4>3
    <3>5. ASSUME c[i].kind = "result"
          PROVE  \E j \in 1..(i - 1) :
                   /\ c[j] = Summary \/ c[j].calls >= i - j
                   /\ AreResults(c, j + 1, i, c[i].turn)
      <4>1. PICK j \in 1..(h - 1) : /\ m[j] = Summary \/ m[j].calls >= h - j
                                    /\ AreResults(m, j + 1, h, m[h].turn)
        BY <3>1, <3>2, <3>5
      <4>2. CASE j - d \in 2..(i - 1)
        <5>1. c[j - d] = m[j] /\ i - (j - d) = h - j /\ j - d \in 1..(i - 1)
          <6>1. j - d \in 2..(Preserve + 1) /\ d + (j - d) = j
            BY <1>0, <1>1, <3>0, <4>2
          <6>2. c[j - d] = m[j]
            BY <1>4, <6>1
          <6>. QED BY <1>1, <3>0, <4>2, <6>2
        <5>2. AreResults(c, (j - d) + 1, i, c[i].turn)
          <6> SUFFICES ASSUME NEW k \in ((j - d) + 1)..i PROVE c[k] = Result(c[i].turn)
            BY DEF AreResults
          <6>1. k \in 2..(Preserve + 1) /\ d + k \in (j + 1)..h
            BY <1>0, <1>1, <3>0, <4>2
          <6>2. m[d + k] = Result(m[h].turn)
            BY <4>1, <6>1 DEF AreResults
          <6>. QED BY <1>4, <3>1, <6>1, <6>2
        <5>. QED BY <4>1, <5>1, <5>2
      <4>3. CASE j - d \notin 2..(i - 1)
        <5>1. j - d <= 1
          BY <1>1, <3>0, <4>3
        <5>2. AreResults(c, 1 + 1, i, c[i].turn)
          <6> SUFFICES ASSUME NEW k \in (1 + 1)..i PROVE c[k] = Result(c[i].turn)
            BY DEF AreResults
          <6>1. k \in 2..(Preserve + 1) /\ d + k \in (j + 1)..h
            BY <1>0, <1>1, <3>0, <5>1
          <6>2. m[d + k] = Result(m[h].turn)
            BY <4>1, <6>1 DEF AreResults
          <6>. QED BY <1>4, <3>1, <6>1, <6>2
        <5>3. 1 \in 1..(i - 1)
          BY <3>0
        <5>. QED BY <1>4, <5>2, <5>3
      <4>. QED BY <4>2, <4>3
    <3>6. c[i] # Summary
      BY <3>1, <3>2
    <3>. QED BY <3>3, <3>4, <3>5, <3>6
  <2>. QED BY <2>1, <2>2
<1>7. Whole(c)
  BY <1>6 DEF Whole
<1>8. Last(c) = Last(m) /\ m # <<>>
  <2>1. c[Preserve + 1] = m[L]
    BY <1>4, <1>4a
  <2>. QED BY <1>0, <1>1, <1>4, <2>1 DEF Last, L
<1>9. Complete(c)
  BY <1>7, <1>8, CompleteIsWhole
<1>. QED BY <1>4, <1>9 DEF c

LEMMA CompactedOrComplete ==
  ASSUME NEW m \in Seq(Messages), Complete(m), NEW r \in CompactedOr(m)
  PROVE  r \in Seq(Messages) /\ Complete(r)
<1>1. r = m \/ (Compactable(m) /\ r = Compacted(m))
  BY DEF CompactedOr
<1>. QED BY <1>1, CompactedComplete

-----------------------------------------------------------------------------
(* What a save may do to the content it replaces.                          *)
Follows(old, new) == IsPrefix(old, new) \/ new \in CompactedOr(old) \cup {<<>>}

LEMMA FollowsItself ==
  ASSUME NEW m \in Seq(Messages)
  PROVE  Follows(m, m) /\ IsPrefix(m, m) /\ Follows(m, <<>>)
BY DEF Follows, CompactedOr, IsPrefix

LEMMA TurnFollows ==
  ASSUME NEW m \in Seq(Messages), NEW t \in Seq(Messages)
  PROVE  Follows(m, m \o t)
<1>1. Len(m) <= Len(m \o t)
  BY ConcatProperties
<1>2. SubSeq(m, 1, Len(m)) = m /\ SubSeq(m \o t, 1, Len(m)) = m
  BY ConcatProperties, SubSeqProperties
<1>. QED BY <1>1, <1>2 DEF Follows, IsPrefix

(* The strengthening: sessions and files are complete, a file that can be  *)
(* read holds the last whole content, the session of a program that wrote  *)
(* its file last is that content while nothing is being saved, and else    *)
(* what a save may make of it.                                             *)
SessionsComplete == \A p \in Programs : Complete(session[p])

WholeFile(f) == disk[f].state = "whole" =>
                  Complete(disk[f].messages) /\ disk[f].messages = kept[f]
WholeFiles   == \A f \in Files : WholeFile(f)

Saved(a, f, m, p) ==
  author[f] = p => /\ a \in {"idle", "turn", "batch"} => kept[f] = m
                   /\ a \in {"saving", "writing"} => Follows(kept[f], m)
AllSaved == \A p \in Programs : Saved(at[p], file[p], session[p], p)

SessionsInv == TypeOK /\ SessionsComplete /\ WholeFiles /\ AllSaved

States == {"off", "idle", "turn", "saving", "writing", "batch"}
Afters == {"off", "idle", "batch"}

LEMMA SessionsInit == Init => SessionsInv
<1> SUFFICES ASSUME Init PROVE SessionsInv
  OBVIOUS
<1>1. <<>> \in Seq(Messages) /\ Complete(<<>>)
  BY DEF Complete
<1>2. MaxTime \in Nat \ {0} /\ MaxTurns \in Nat /\ 1 \in Files /\ NoProgram \notin Programs
  BY SessionsAssumption DEF Files
<1>3. TypeOK
  BY <1>1, <1>2 DEF TypeOK, Init
<1>4. SessionsComplete /\ WholeFiles /\ AllSaved
  BY <1>1, <1>2 DEF Init, SessionsComplete, WholeFiles, WholeFile, AllSaved, Saved
<1>. QED BY <1>3, <1>4 DEF SessionsInv

(* One program does a step that leaves the files alone.                    *)
LEMMA QuietStep ==
  ASSUME SessionsInv, NEW p \in Programs,
         now' \in Files, turns' \in 0..MaxTurns, born' \in [Programs -> 0..MaxTime],
         NEW a \in States, NEW b \in Afters, NEW f \in Files, NEW m \in Seq(Messages),
         Complete(m), Saved(a, f, m, p),
         at' = [at EXCEPT ![p] = a], after' = [after EXCEPT ![p] = b],
         file' = [file EXCEPT ![p] = f], session' = [session EXCEPT ![p] = m],
         UNCHANGED files
  PROVE  SessionsInv'
<1>0. TypeOK /\ disk' = disk /\ kept' = kept /\ author' = author
  BY DEF SessionsInv, files
<1>1. TypeOK'
  BY <1>0 DEF TypeOK, States, Afters
<1>2. SessionsComplete'
  BY <1>0 DEF SessionsInv, SessionsComplete, TypeOK
<1>3. WholeFiles'
  BY <1>0 DEF SessionsInv, WholeFiles, WholeFile
<1>4. AllSaved'
  <2> SUFFICES ASSUME NEW q \in Programs PROVE Saved(at[q], file[q], session[q], q)'
    BY DEF AllSaved
  <2>1. CASE q = p
    <3>1. at'[q] = a /\ file'[q] = f /\ session'[q] = m
      BY <1>0, <2>1 DEF TypeOK
    <3>. QED BY <1>0, <2>1, <3>1 DEF Saved
  <2>2. CASE q # p
    <3>1. at'[q] = at[q] /\ file'[q] = file[q] /\ session'[q] = session[q]
      BY <1>0, <2>2 DEF TypeOK
    <3>2. Saved(at[q], file[q], session[q], q)
      BY DEF SessionsInv, AllSaved
    <3>. QED BY <1>0, <3>1, <3>2 DEF Saved
  <2>. QED BY <2>1, <2>2
<1>. QED BY <1>1, <1>2, <1>3, <1>4 DEF SessionsInv

(* What the steps need of the state before.                                *)
LEMMA Before ==
  ASSUME SessionsInv, NEW p \in Programs
  PROVE  /\ now \in Files /\ turns \in 0..MaxTurns /\ born \in [Programs -> 0..MaxTime]
         /\ at[p] \in States /\ after[p] \in Afters /\ file[p] \in Files
         /\ session[p] \in Seq(Messages) /\ Complete(session[p])
         /\ Saved(at[p], file[p], session[p], p)
         /\ at = [at EXCEPT ![p] = at[p]] /\ after = [after EXCEPT ![p] = after[p]]
         /\ file = [file EXCEPT ![p] = file[p]] /\ session = [session EXCEPT ![p] = session[p]]
BY DEF SessionsInv, TypeOK, SessionsComplete, AllSaved, States, Afters

LEMMA NoMessages ==
  /\ <<>> \in Seq(Messages) /\ Complete(<<>>) /\ 1 \in Files
BY SessionsAssumption DEF Complete, Files

LEMMA NewSessionStep ==
  ASSUME SessionsInv, NEW p \in Programs, NewSession(p), UNCHANGED <<now, turns, files>>
  PROVE  SessionsInv'
<1>1. now \in Files /\ \A f \in Files : kept[f] \in Seq(Messages)
  BY DEF SessionsInv, TypeOK
<1>2. Saved("saving", now, <<>>, p)
  BY <1>1, FollowsItself DEF Saved
<1>3. born' \in [Programs -> 0..MaxTime]
  BY SessionsAssumption DEF NewSession, SessionsInv, TypeOK, Files
<1>4. "saving" \in States /\ "idle" \in Afters
  BY DEF States, Afters
<1>. QED BY <1>1, <1>2, <1>3, <1>4, Before, NoMessages, QuietStep DEF NewSession, ThenSave

LEMMA GoneStep ==
  ASSUME SessionsInv, NEW p \in Programs, Gone(p), UNCHANGED <<now, turns, files>>
  PROVE  SessionsInv'
<1>1. Saved("off", 1, <<>>, p)
  BY DEF Saved
<1>2. "off" \in States /\ "off" \in Afters
  BY DEF States, Afters
<1>. QED BY <1>1, <1>2, Before, NoMessages, QuietStep DEF Gone

(* The session in memory is changed to m, and then saved.                  *)
LEMMA ThenSaveStep ==
  ASSUME SessionsInv, NEW p \in Programs, NEW b \in {"idle", "batch", "off"}, ThenSave(p, b),
         NEW m \in Seq(Messages), Complete(m), session' = [session EXCEPT ![p] = m],
         NEW f \in Files, file' = [file EXCEPT ![p] = f],
         author[f] = p => Follows(kept[f], m),
         UNCHANGED <<now, turns, born, files>>
  PROVE  SessionsInv'
<1>1. Saved("saving", f, m, p)
  BY DEF Saved
<1>2. "saving" \in States /\ b \in Afters
  BY DEF States, Afters
<1>. QED BY <1>1, <1>2, Before, QuietStep DEF ThenSave

LEMMA FinishTurnStep ==
  ASSUME SessionsInv, NEW p \in Programs, FinishTurn(p)
  PROVE  SessionsInv'
<1>1. PICK shape \in TurnShapes : session' = [session EXCEPT ![p] = @ \o TurnMessages(turns, shape)]
  BY DEF FinishTurn
<1> DEFINE m == session[p] \o TurnMessages(turns, shape)
<1>2. m \in Seq(Messages) /\ Complete(m)
  BY Before, TurnKeepsComplete
<1>3. Follows(session[p], m)
  BY Before, TurnTurned, TurnFollows DEF Turned
<1>4. author[file[p]] = p => kept[file[p]] = session[p]
  BY Before DEF Saved, FinishTurn
<1>5. session' = [session EXCEPT ![p] = m]
  BY <1>1
<1> HIDE DEF m
<1>. QED BY <1>2, <1>3, <1>4, <1>5, Before, ThenSaveStep DEF FinishTurn

LEMMA CompactStep ==
  ASSUME SessionsInv, NEW p \in Programs, Compact(p)
  PROVE  SessionsInv'
<1>1. PICK m \in CompactedOr(session[p]) : session' = [session EXCEPT ![p] = m]
  BY DEF Compact
<1>2. m \in Seq(Messages) /\ Complete(m)
  BY Before, CompactedOrComplete
<1>3. author[file[p]] = p => Follows(kept[file[p]], m)
  BY Before DEF Saved, Compact, Follows
<1>. QED BY <1>1, <1>2, <1>3, Before, ThenSaveStep DEF Compact

LEMMA RebuildStep ==
  ASSUME SessionsInv, NEW p \in Programs, Rebuild(p) \/ Exit(p)
  PROVE  SessionsInv'
<1>1. author[file[p]] = p => Follows(kept[file[p]], session[p])
  BY Before, FollowsItself DEF Saved, Rebuild, Exit
<1>2. session' = [session EXCEPT ![p] = session[p]] /\ file' = [file EXCEPT ![p] = file[p]]
  BY Before DEF Rebuild, Exit
<1>3. PICK b \in {"idle", "off"} : ThenSave(p, b)
  BY DEF Rebuild, Exit
<1>. QED BY <1>1, <1>2, <1>3, Before, ThenSaveStep DEF Rebuild, Exit

LEMMA LoadedIsKept ==
  ASSUME SessionsInv, NEW f \in Files, disk[f].state = "whole"
  PROVE  /\ disk[f].messages \in Seq(Messages) /\ Complete(disk[f].messages)
         /\ disk[f].messages = kept[f]
BY DEF SessionsInv, TypeOK, WholeFiles, WholeFile

LEMMA ResumeStep ==
  ASSUME SessionsInv, NEW p \in Programs, NEW f \in Files, Resume(p, f)
  PROVE  SessionsInv'
<1>1. Load(p, f) /\ disk[f].state = "whole"
  BY DEF Resume, Load
<1>2. Follows(kept[f], disk[f].messages)
  BY <1>1, LoadedIsKept, FollowsItself
<1>. QED BY <1>1, <1>2, LoadedIsKept, ThenSaveStep DEF Resume, Load

LEMMA StartBatchStep ==
  ASSUME SessionsInv, NEW p \in Programs, NEW f \in Files, StartBatch(p, f)
  PROVE  SessionsInv'
<1>1. Load(p, f) /\ disk[f].state = "whole"
  BY DEF StartBatch, Load
<1>2. Saved("batch", f, disk[f].messages, p)
  BY <1>1, LoadedIsKept DEF Saved
<1>3. "batch" \in States
  BY DEF States
<1>4. after' = [after EXCEPT ![p] = after[p]]
  BY Before DEF StartBatch
<1>. QED BY <1>1, <1>2, <1>3, <1>4, LoadedIsKept, Before, QuietStep DEF StartBatch, Load

LEMMA BatchStep ==
  ASSUME SessionsInv, NEW p \in Programs, BatchCompact(p) \/ BatchClear(p)
  PROVE  SessionsInv'
<1>1. PICK m \in CompactedOr(session[p]) \cup {<<>>} : session' = [session EXCEPT ![p] = m]
  BY DEF BatchCompact, BatchClear, CompactedOr
<1>2. m \in Seq(Messages) /\ Complete(m)
  BY Before, NoMessages, CompactedOrComplete
<1>3. author[file[p]] = p => Follows(kept[file[p]], m)
  BY Before DEF Saved, BatchCompact, BatchClear, Follows
<1>4. ThenSave(p, "batch") /\ UNCHANGED <<now, turns, file, born, files>>
  BY DEF BatchCompact, BatchClear
<1>. QED BY <1>1, <1>2, <1>3, <1>4, Before, ThenSaveStep

LEMMA BeginTurnStep ==
  ASSUME SessionsInv, NEW p \in Programs, BeginTurn(p)
  PROVE  SessionsInv'
<1>1. Saved("turn", file[p], session[p], p)
  BY Before DEF Saved, BeginTurn
<1>2. "turn" \in States /\ turns' \in 0..MaxTurns
  BY Before, SessionsAssumption DEF States, BeginTurn
<1>3. /\ after' = [after EXCEPT ![p] = after[p]] /\ file' = [file EXCEPT ![p] = file[p]]
      /\ session' = [session EXCEPT ![p] = session[p]]
  BY Before DEF BeginTurn
<1>. QED BY <1>1, <1>2, <1>3, Before, QuietStep DEF BeginTurn

(* A file is emptied, filled or torn, and a program that wrote it last and *)
(* is not in the step finds its last whole content as it was.              *)
LEMMA TruncateStep ==
  ASSUME SessionsInv, NEW p \in Programs, Truncate(p)
  PROVE  SessionsInv'
<1>0. TypeOK /\ WholeFiles /\ AllSaved /\ SessionsComplete
  BY DEF SessionsInv
<1>1. TypeOK'
  BY <1>0, NoMessages DEF TypeOK, Truncate
<1>2. SessionsComplete'
  BY <1>0 DEF SessionsComplete, Truncate
<1>3. WholeFiles'
  <2> SUFFICES ASSUME NEW f \in Files PROVE WholeFile(f)'
    BY DEF WholeFiles
  <2>1. f # file[p] => disk'[f] = disk[f]
    BY <1>0 DEF TypeOK, Truncate
  <2>2. f = file[p] => disk'[f].state = "empty"
    BY <1>0 DEF TypeOK, Truncate
  <2>. QED BY <1>0, <2>1, <2>2 DEF WholeFiles, WholeFile, Truncate
<1>4. AllSaved'
  <2> SUFFICES ASSUME NEW q \in Programs PROVE Saved(at[q], file[q], session[q], q)'
    BY DEF AllSaved
  <2>1. IF q = p THEN at[q] = "saving" /\ at'[q] = "writing" ELSE at'[q] = at[q]
    BY <1>0 DEF TypeOK, Truncate
  <2>. QED BY <1>0, <2>1 DEF AllSaved, Saved, Truncate
<1>. QED BY <1>1, <1>2, <1>3, <1>4 DEF SessionsInv

LEMMA EndStep ==
  ASSUME SessionsInv, NEW p \in Programs, End(p)
  PROVE  SessionsInv'
<1>0. TypeOK /\ WholeFiles /\ AllSaved /\ SessionsComplete
  BY DEF SessionsInv
<1>1. disk' = disk \/ disk' = [disk EXCEPT ![file[p]] = Torn]
  BY DEF End
<1>2. TypeOK'
  <2>1. Torn \in [state : {"absent", "empty", "whole", "torn"}, messages : Seq(Messages)]
    BY NoMessages DEF Torn
  <2>2. disk' \in [Files -> [state : {"absent", "empty", "whole", "torn"}, messages : Seq(Messages)]]
    BY <1>0, <1>1, <2>1 DEF TypeOK
  <2>. QED BY <1>0, <2>2, NoMessages DEF TypeOK, End, Gone
<1>3. SessionsComplete'
  BY <1>0, NoMessages DEF SessionsComplete, End, Gone, TypeOK
<1>4. WholeFiles'
  <2> SUFFICES ASSUME NEW f \in Files PROVE WholeFile(f)'
    BY DEF WholeFiles
  <2>1. disk'[f] = disk[f] \/ disk'[f].state = "torn"
    BY <1>0, <1>1 DEF TypeOK, Torn
  <2>. QED BY <1>0, <2>1 DEF WholeFiles, WholeFile, End
<1>5. AllSaved'
  <2> SUFFICES ASSUME NEW q \in Programs PROVE Saved(at[q], file[q], session[q], q)'
    BY DEF AllSaved
  <2>1. IF q = p THEN at'[q] = "off"
        ELSE at'[q] = at[q] /\ file'[q] = file[q] /\ session'[q] = session[q]
    BY <1>0 DEF TypeOK, End, Gone
  <2>. QED BY <1>0, <2>1 DEF AllSaved, Saved, End
<1>. QED BY <1>2, <1>3, <1>4, <1>5 DEF SessionsInv

(* The write is complete: what a fill does to the file, and then to the    *)
(* program.                                                                *)
LEMMA FillEffect ==
  ASSUME SessionsInv, NEW p \in Programs, Fill(p)
  PROVE  /\ \A f \in Files \ {file[p]} : /\ disk'[f] = disk[f] /\ kept'[f] = kept[f]
                                        /\ author'[f] = author[f]
         /\ \/ /\ disk'[file[p]] = Torn /\ author'[file[p]] = NoProgram
               /\ kept'[file[p]] = kept[file[p]]
            \/ /\ disk'[file[p]] = Written(p) /\ author'[file[p]] = p
               /\ kept'[file[p]] = session[p]
         /\ disk' \in [Files -> [state : {"absent", "empty", "whole", "torn"},
                                 messages : Seq(Messages)]]
         /\ kept' \in [Files -> Seq(Messages)]
         /\ author' \in [Files -> Programs \cup {NoProgram}]
<1>0. TypeOK /\ file[p] \in Files /\ session[p] \in Seq(Messages)
  BY DEF SessionsInv, TypeOK
<1>1. PICK content \in AfterWrite(p) :
        /\ disk' = [disk EXCEPT ![file[p]] = content]
        /\ IF content = Torn
             THEN /\ author' = [author EXCEPT ![file[p]] = NoProgram]
                  /\ UNCHANGED kept
             ELSE /\ kept' = [kept EXCEPT ![file[p]] = session[p]]
                  /\ author' = [author EXCEPT ![file[p]] = p]
  BY DEF Fill
<1>2. content \in {Torn, Written(p)} /\ Torn # Written(p)
  BY DEF AfterWrite, Torn, Written
<1>3. content \in [state : {"absent", "empty", "whole", "torn"}, messages : Seq(Messages)]
  <2>1. Torn \in [state : {"absent", "empty", "whole", "torn"}, messages : Seq(Messages)]
    BY NoMessages DEF Torn
  <2>2. Written(p) \in [state : {"absent", "empty", "whole", "torn"}, messages : Seq(Messages)]
    BY <1>0 DEF Written
  <2>. QED BY <1>2, <2>1, <2>2
<1>. QED BY <1>0, <1>1, <1>2, <1>3 DEF TypeOK

LEMMA FillStep ==
  ASSUME SessionsInv, NEW p \in Programs, Fill(p)
  PROVE  SessionsInv'
<1>0. TypeOK /\ WholeFiles /\ AllSaved /\ SessionsComplete /\ NoProgram \notin Programs
  BY SessionsAssumption DEF SessionsInv
<1>1. /\ \A q \in Programs \ {p} : at'[q] = at[q] /\ file'[q] = file[q] /\ session'[q] = session[q]
      /\ \/ at'[p] = "off" /\ session'[p] = <<>>
         \/ at'[p] = after[p] /\ file'[p] = file[p] /\ session'[p] = session[p]
      /\ at' \in [Programs -> States] /\ after' \in [Programs -> Afters]
      /\ file' \in [Programs -> Files] /\ born' = born
      /\ session' \in [Programs -> Seq(Messages)]
      /\ now' = now /\ turns' = turns
  <2>0. /\ at \in [Programs -> States] /\ after \in [Programs -> Afters]
        /\ file \in [Programs -> Files] /\ session \in [Programs -> Seq(Messages)]
    BY <1>0 DEF TypeOK, States, Afters
  <2>1. CASE after[p] = "off"
    BY <2>0, <2>1, NoMessages DEF Fill, Gone, States, Afters
  <2>2. CASE after[p] # "off"
    BY <2>0, <2>2 DEF Fill, States, Afters
  <2>. QED BY <2>1, <2>2
<1>2. TypeOK'
  BY <1>0, <1>1, FillEffect DEF TypeOK, States, Afters
<1>3. SessionsComplete'
  BY <1>0, <1>1, NoMessages DEF SessionsComplete
<1>4. WholeFiles'
  <2> SUFFICES ASSUME NEW f \in Files PROVE WholeFile(f)'
    BY DEF WholeFiles
  <2>1. CASE f # file[p]
    BY <1>0, <2>1, FillEffect DEF WholeFiles, WholeFile
  <2>2. CASE f = file[p]
    <3>1. Complete(session[p])
      BY <1>0 DEF SessionsComplete
    <3>2. disk'[f] = Torn \/ (disk'[f] = Written(p) /\ kept'[f] = session[p])
      BY <2>2, FillEffect
    <3>3. Torn.state = "torn" /\ Written(p).messages = session[p]
      BY DEF Torn, Written
    <3>. QED BY <3>1, <3>2, <3>3 DEF WholeFile
  <2>. QED BY <2>1, <2>2
<1>5. AllSaved'
  <2> SUFFICES ASSUME NEW q \in Programs PROVE Saved(at[q], file[q], session[q], q)'
    BY DEF AllSaved
  <2>1. file[p] \in Files /\ file[q] \in Files /\ after[p] \in Afters
    BY Before
  <2>2. CASE q = p
    <3>1. \/ at'[q] = "off"
          \/ at'[q] = after[p] /\ file'[q] = file[p] /\ session'[q] = session[p]
      BY <1>1, <2>2
    <3>2. author'[file[p]] = q => kept'[file[p]] = session[p]
      BY <1>0, <2>2, FillEffect
    <3>. QED BY <2>1, <3>1, <3>2 DEF Saved, Afters
  <2>3. CASE q # p
    <3>1. at'[q] = at[q] /\ file'[q] = file[q] /\ session'[q] = session[q]
      BY <1>1, <2>3
    <3>2. author'[file[q]] = q => author[file[q]] = q /\ kept'[file[q]] = kept[file[q]]
      BY <1>0, <2>1, <2>3, FillEffect
    <3>. QED BY <1>0, <3>1, <3>2 DEF AllSaved, Saved
  <2>. QED BY <2>2, <2>3
<1>. QED BY <1>2, <1>3, <1>4, <1>5 DEF SessionsInv

LEMMA SessionsStep == SessionsInv /\ [Next]_vars => SessionsInv'
<1> SUFFICES ASSUME SessionsInv, [Next]_vars PROVE SessionsInv'
  OBVIOUS
<1>1. ASSUME UNCHANGED vars PROVE SessionsInv'
  BY <1>1 DEF SessionsInv, TypeOK, SessionsComplete, WholeFiles, WholeFile, AllSaved, Saved,
              vars, programs, files
<1>2. ASSUME Tick PROVE SessionsInv'
  <2>1. now' \in Files
    BY <1>2, SessionsAssumption DEF Tick, SessionsInv, TypeOK, Files
  <2>. QED BY <1>2, <2>1 DEF Tick, SessionsInv, TypeOK, SessionsComplete, WholeFiles, WholeFile,
                             AllSaved, Saved, programs, files
<1>3. ASSUME NEW p \in Programs, Step(p) PROVE SessionsInv'
  <2>1. CASE Start(p) \/ Clear(p)
    BY <2>1, NewSessionStep DEF Start, Clear
  <2>2. CASE FailTurn(p) \/ \E f \in Files : FailResume(p, f)
    BY <2>2, GoneStep DEF FailTurn, FailResume
  <2>3. CASE BeginTurn(p)
    BY <2>3, BeginTurnStep
  <2>4. CASE FinishTurn(p)
    BY <2>4, FinishTurnStep
  <2>5. CASE Compact(p)
    BY <2>5, CompactStep
  <2>6. CASE Rebuild(p) \/ Exit(p)
    BY <2>6, RebuildStep
  <2>7. CASE BatchCompact(p) \/ BatchClear(p)
    BY <2>7, BatchStep
  <2>8. CASE \E f \in Files : Resume(p, f)
    BY <2>8, ResumeStep
  <2>9. CASE \E f \in Files : StartBatch(p, f)
    BY <2>9, StartBatchStep
  <2>10. CASE Truncate(p)
    BY <2>10, TruncateStep
  <2>11. CASE Fill(p)
    BY <2>11, FillStep
  <2>12. CASE End(p)
    BY <2>12, EndStep
  <2>. QED BY <1>3, <2>1, <2>2, <2>3, <2>4, <2>5, <2>6, <2>7, <2>8, <2>9, <2>10, <2>11, <2>12 DEF Step
<1>. QED BY <1>1, <1>2, <1>3 DEF Next

LEMMA SessionsInvariant == Spec => []SessionsInv
BY SessionsInit, SessionsStep, PTL DEF Spec

(* Every file that can be read holds a session the runtime can go on with, *)
(* and at the prompt nothing is unsaved: persist_session before it, and    *)
(* run_turn and compact_session that leave complete sessions.              *)
THEOREM FilesAreCurrent == Spec => []SavedIsCurrent
<1>1. SessionsInv => SavedIsCurrent
  <2> SUFFICES ASSUME SessionsInv PROVE SavedIsCurrent
    OBVIOUS
  <2>1. SavedIsComplete
    BY DEF SessionsInv, WholeFiles, WholeFile, SavedIsComplete
  <2>2. ASSUME NEW p \in Programs, at[p] \in {"idle", "turn", "batch"}, author[file[p]] = p
        PROVE  /\ kept[file[p]] = session[p]
               /\ disk[file[p]].state = "whole" => disk[file[p]] = Written(p)
    <3>1. kept[file[p]] = session[p] /\ file[p] \in Files
      BY <2>2, Before DEF Saved
    <3>2. ASSUME disk[file[p]].state = "whole" PROVE disk[file[p]] = Written(p)
      <4>1. disk[file[p]] = [state |-> disk[file[p]].state, messages |-> disk[file[p]].messages]
        BY <3>1 DEF SessionsInv, TypeOK
      <4>2. disk[file[p]].messages = kept[file[p]]
        BY <3>1, <3>2, LoadedIsKept
      <4>. QED BY <3>1, <3>2, <4>1, <4>2 DEF Written
    <3>. QED BY <3>1, <3>2
  <2>. QED BY <2>1, <2>2 DEF SavedIsCurrent, NothingUnsaved
<1>. QED BY <1>1, SessionsInvariant, PTL

(* A save drops messages of the file only by compaction or /clear, or when *)
(* another program wrote the file since this one read it.                  *)
THEOREM TurnsAreNotDropped == Spec => OwnTurnsSurvive
<1> DEFINE Survives == \A f \in Files :
             \/ IsPrefix(kept[f], kept'[f])
             \/ kept'[f] \in CompactedOr(kept[f]) \cup {<<>>}
             \/ author'[f] # author[f]
<1>1. SessionsInv /\ [Next]_vars => [Survives]_vars
  <2> SUFFICES ASSUME SessionsInv, Next, NEW f \in Files
               PROVE  \/ IsPrefix(kept[f], kept'[f])
                      \/ kept'[f] \in CompactedOr(kept[f]) \cup {<<>>}
                      \/ author'[f] # author[f]
    OBVIOUS
  <2>0. kept[f] \in Seq(Messages)
    BY DEF SessionsInv, TypeOK
  <2>1. CASE kept' = kept
    BY <2>0, <2>1, FollowsItself
  <2>2. ASSUME NEW p \in Programs, Fill(p)
        PROVE  Follows(kept[f], kept'[f]) \/ author'[f] # author[f]
    <3>1. CASE kept'[f] = kept[f]
      BY <2>0, <3>1, FollowsItself
    <3>2. CASE kept'[f] # kept[f]
      <4>1. f = file[p] /\ author'[f] = p /\ kept'[f] = session[p]
        BY <2>2, <3>2, FillEffect
      <4>2. author[f] = p => Follows(kept[f], session[p])
        BY <2>2, <4>1, Before DEF Saved, Fill
      <4>. QED BY <4>1, <4>2
    <3>. QED BY <3>1, <3>2
  <2>3. kept' = kept \/ \E p \in Programs : Fill(p)
    BY DEF Next, Step, Tick, Start, Clear, BeginTurn, FinishTurn, FailTurn, Compact, Rebuild, Exit,
           BatchCompact, BatchClear, Resume, FailResume, StartBatch, Truncate, End, files
  <2>. QED BY <2>1, <2>2, <2>3 DEF Follows
<1>. QED BY <1>1, SessionsInvariant, PTL DEF Spec, OwnTurnsSurvive

-----------------------------------------------------------------------------
(* What is committed and sent off: the types, what a runner of /commit has *)
(* found out, and how far one of the pull request has come.                *)
Branches == {"", "main", "master", Slug} \cup UNION {DOMAIN q.tips : q \in Repositories}
Places   == {"told", "base", "branch", "switch", "status", "again", "add", "describe", "letter",
             "commit", "diff", "push", "create", "view"}
Runs     == [at : Places, way : {"none", "commit", "ship"}, base : Branches, branch : Branches,
             described : SUBSET Changes, answer : {"none", "failed", "skipped", "created", "existing"}]

GitTypeOK ==
  /\ head \in DOMAIN tips /\ DOMAIN tips \subseteq Branches /\ origin \subseteq DOMAIN tips
  /\ edited \subseteq Changes /\ staged \subseteq Changes
  /\ run \in [Runners -> Runs] /\ crossed \in [Runners -> BOOLEAN]
  /\ outset = [r \in Runners |-> outset[r]]

LetterInv(r) ==
  run[r].way = "commit" /\ ~crossed[r] =>
    /\ run[r].at \in {"letter", "commit"} => run[r].described = staged
    /\ run[r].at = "commit" => letter = r

(* Whatever the place: nothing is lost, the default branch stays, and the  *)
(* command can be given again.                                             *)
Kept(r) ==
  /\ outset[r].changes \subseteq Tree \cup UNION Range(tips)
  /\ tips[run[r].base] = outset[r].tips[run[r].base]
  /\ DefaultIsKnown => head = outset[r].head \/ head \notin DefaultBranch

Early(r) ==
  run[r].at \in {"base", "branch", "switch"} =>
    /\ head = outset[r].head /\ tips = outset[r].tips /\ outset[r].changes \subseteq Tree
    /\ run[r].at # "base" => run[r].base \in DefaultBranch
    /\ run[r].at = "switch" => run[r].base = head

(* On a branch of its own, with what was on the one it started from.       *)
OnBranch(r) ==
  run[r].at \in {"status", "again", "add", "commit", "diff", "push", "create", "view"} =>
    /\ run[r].branch = head /\ run[r].base # head /\ run[r].base \in DOMAIN tips
    /\ outset[r].tips[outset[r].head] \subseteq tips[head]
    /\ run[r].at \in {"status", "again", "add"} => outset[r].changes \subseteq Tree
    /\ run[r].at = "commit" => outset[r].changes \subseteq staged
    /\ run[r].at \in {"diff", "push", "create", "view"} => outset[r].changes \subseteq tips[head]

SentOff(r) ==
  /\ run[r].branch \in DOMAIN remote
  /\ outset[r].changes \cup outset[r].tips[outset[r].head] \subseteq remote[run[r].branch]

Late(r) ==
  /\ run[r].at \in {"create", "view"} => SentOff(r)
  /\ run[r].at = "told" /\ run[r].answer \in {"created", "existing"} =>
       SentOff(r) /\ run[r].branch \in DOMAIN pulls /\ run[r].branch # run[r].base
  /\ run[r].at = "told" /\ run[r].answer = "skipped" =>
       outset[r].changes \cup outset[r].tips[outset[r].head] \subseteq outset[r].tips[run[r].base]

ShipInv(r) ==
  run[r].way = "ship" /\ ~crossed[r] =>
    /\ run[r].at \notin {"describe", "letter"}
    /\ Kept(r) /\ Early(r) /\ OnBranch(r) /\ Late(r)

GitInv == GitTypeOK /\ MessagesFitCommits /\ \A r \in Runners : LetterInv(r) /\ ShipInv(r)

LEMMA GitStarts == GitInit => GitInv
<1> SUFFICES ASSUME GitInit PROVE GitInv
  OBVIOUS
<1>1. PICK q \in Repositories : tips = q.tips /\ head = q.head /\ origin = q.origin
  BY DEF GitInit
<1>2. head \in DOMAIN tips /\ DOMAIN tips \subseteq Branches /\ origin \subseteq DOMAIN tips
  BY <1>1, GitAssumption DEF Branches
<1>3. Resting \in Runs
  BY DEF Resting, Runs, Places, Branches
<1>4. GitTypeOK
  BY <1>2, <1>3 DEF GitTypeOK, GitInit
<1>5. \A r \in Runners : run[r].way = "none"
  BY DEF GitInit, Resting
<1>. QED BY <1>4, <1>5 DEF GitInv, LetterInv, ShipInv, MessagesFitCommits, GitInit

LEMMA DefaultIsABranch == GitTypeOK => DefaultBranch \subseteq DOMAIN tips
BY DEF GitTypeOK, DefaultBranch

(* A runner whose repository is left alone has come as far as before; the  *)
(* user may have edited something.                                         *)
LEMMA Undisturbed ==
  ASSUME NEW r \in Runners, LetterInv(r), ShipInv(r),
         UNCHANGED <<tips, head, staged, origin, remote, pulls, letter>>, edited \subseteq edited',
         run'[r] = run[r], outset'[r] = outset[r], crossed'[r] = crossed[r]
  PROVE  LetterInv(r)' /\ ShipInv(r)'
<1>1. LetterInv(r)'
  BY DEF LetterInv
<1>2. Tree \subseteq Tree' /\ DefaultIsKnown' = DefaultIsKnown /\ DefaultBranch' = DefaultBranch
  BY DEF Tree, DefaultIsKnown, DefaultBranch
<1>3. (UNION Range(tips))' = UNION Range(tips)
  BY DEF Range
<1>4. ASSUME run[r].way = "ship", ~crossed[r] PROVE ShipInv(r)'
  <2>1. Kept(r)' /\ Early(r)' /\ OnBranch(r)' /\ Late(r)'
    BY <1>2, <1>3, <1>4 DEF ShipInv, Kept, Early, OnBranch, Late, SentOff
  <2>. QED BY <1>4, <2>1 DEF ShipInv
<1>. QED BY <1>1, <1>4 DEF ShipInv

(* The others are crossed by a step that changes the repository.           *)
LEMMA OthersStay ==
  ASSUME GitInv, NEW s \in Runners, NEW r \in Runners \ {s},
         run'[r] = run[r], outset'[r] = outset[r], UNCHANGED origin,
         \/ Crossing(s)
         \/ UNCHANGED <<Repository, crossed>>
         \/ UNCHANGED Repository /\ crossed'[r] = crossed[r]
  PROVE  LetterInv(r)' /\ ShipInv(r)'
<1>1. CASE Crossing(s)
  <2>1. crossed'[r] = TRUE
    BY <1>1 DEF Crossing, GitInv, GitTypeOK
  <2>. QED BY <2>1 DEF LetterInv, ShipInv
<1>2. CASE UNCHANGED Repository /\ crossed'[r] = crossed[r]
  <2>1. LetterInv(r) /\ ShipInv(r)
    BY DEF GitInv
  <2>. QED BY <1>2, <2>1, Undisturbed DEF Repository
<1>. QED BY <1>1, <1>2

LEMMA RunsOf ==
  ASSUME GitInv, NEW r \in Runners
  PROVE  /\ run[r] \in Runs /\ LetterInv(r) /\ ShipInv(r) /\ GitTypeOK
         /\ run \in [Runners -> Runs]
BY DEF GitInv, GitTypeOK

(* A step of r that only finds something out: it is enough to look at r.   *)
LEMMA LookStep ==
  ASSUME GitInv, NEW r \in Runners, NEW x \in Runs, run' = [run EXCEPT ![r] = x],
         UNCHANGED <<Repository, Fixed, crossed, commits>>,
         LetterInv(r)', ShipInv(r)'
  PROVE  GitInv'
<1>1. GitTypeOK'
  BY RunsOf DEF GitTypeOK, Repository, Fixed
<1>2. MessagesFitCommits'
  BY DEF GitInv, MessagesFitCommits
<1>3. ASSUME NEW s \in Runners \ {r} PROVE LetterInv(s)' /\ ShipInv(s)'
  <2>1. run'[s] = run[s] /\ outset'[s] = outset[s] /\ UNCHANGED origin
    BY RunsOf DEF Fixed
  <2>. QED BY <2>1, OthersStay
<1>. QED BY <1>1, <1>2, <1>3 DEF GitInv

LEMMA SameRepository ==
  ASSUME UNCHANGED <<Repository, Fixed, crossed, commits>>
  PROVE  /\ tips' = tips /\ head' = head /\ edited' = edited /\ staged' = staged
         /\ remote' = remote /\ pulls' = pulls /\ letter' = letter /\ outset' = outset
         /\ origin' = origin /\ crossed' = crossed
         /\ Tree' = Tree /\ (UNION Range(tips))' = UNION Range(tips)
         /\ DefaultIsKnown' = DefaultIsKnown /\ DefaultBranch' = DefaultBranch
BY DEF Repository, Fixed, Tree, Range, DefaultIsKnown, DefaultBranch

LEMMA GoneOn ==
  ASSUME GitInv, NEW r \in Runners, NEW x \in Runs, run' = [run EXCEPT ![r] = x]
  PROVE  run'[r] = x
BY RunsOf

(* It goes on at a place, or tells its answer, with what it has found out. *)
LEMMA ToPlace ==
  ASSUME GitInv, NEW r \in Runners, NEW place \in Places, To(r, place)
  PROVE  \E x \in Runs : /\ run' = [run EXCEPT ![r] = x] /\ run'[r] = x /\ x.at = place
                         /\ x.way = run[r].way /\ x.base = run[r].base /\ x.branch = run[r].branch
                         /\ x.described = run[r].described /\ x.answer = run[r].answer
<1> DEFINE x == [run[r] EXCEPT !.at = place]
<1>1. run[r] \in Runs
  BY RunsOf
<1>2. x \in Runs /\ x.at = place /\ x.way = run[r].way /\ x.base = run[r].base
      /\ x.branch = run[r].branch /\ x.described = run[r].described /\ x.answer = run[r].answer
  BY <1>1 DEF Runs
<1>3. run' = [run EXCEPT ![r] = x]
  BY DEF To
<1> HIDE DEF x
<1>. QED BY <1>2, <1>3, GoneOn

LEMMA ToldAnswer ==
  ASSUME GitInv, NEW r \in Runners, NEW what \in {"failed", "skipped", "created", "existing"},
         Tell(r, what)
  PROVE  \E x \in Runs : /\ run' = [run EXCEPT ![r] = x] /\ run'[r] = x /\ x.at = "told"
                         /\ x.way = run[r].way /\ x.base = run[r].base /\ x.branch = run[r].branch
                         /\ x.described = run[r].described /\ x.answer = what
<1> DEFINE x == [run[r] EXCEPT !.at = "told", !.answer = what]
<1>1. run[r] \in Runs
  BY RunsOf
<1>2. x \in Runs /\ x.at = "told" /\ x.way = run[r].way /\ x.base = run[r].base
      /\ x.branch = run[r].branch /\ x.described = run[r].described /\ x.answer = what
  BY <1>1 DEF Runs, Places
<1>3. run' = [run EXCEPT ![r] = x]
  BY DEF Tell
<1> HIDE DEF x
<1>. QED BY <1>2, <1>3, GoneOn

LEMMA StepFailsStep ==
  ASSUME GitInv, NEW r \in Runners, StepFails(r)
  PROVE  GitInv'
<1>1. Tell(r, "failed") /\ UNCHANGED <<Repository, Fixed, crossed, commits>>
  BY DEF StepFails
<1>2. PICK x \in Runs : /\ run' = [run EXCEPT ![r] = x] /\ run'[r] = x /\ x.at = "told"
                        /\ x.way = run[r].way /\ x.base = run[r].base /\ x.answer = "failed"
  BY <1>1, ToldAnswer
<1>3. LetterInv(r)'
  BY <1>2 DEF LetterInv
<1>4. ShipInv(r)'
  BY <1>1, <1>2, SameRepository, RunsOf DEF ShipInv, Kept, Early, OnBranch, Late
<1>. QED BY <1>1, <1>2, <1>3, <1>4, LookStep

LEMMA DetectBaseStep ==
  ASSUME GitInv, NEW r \in Runners, DetectBase(r)
  PROVE  GitInv'
<1>1. At(r, "base") /\ UNCHANGED <<Repository, Fixed, crossed, commits>>
  BY DEF DetectBase
<1>2. PICK b \in DefaultBranch : run' = [run EXCEPT ![r].at = "branch", ![r].base = b]
  BY DEF DetectBase
<1> DEFINE x == [run[r] EXCEPT !.at = "branch", !.base = b]
<1>3. b \in Branches
  BY RunsOf, DefaultIsABranch DEF GitTypeOK
<1>4. x \in Runs /\ x.at = "branch" /\ x.base = b /\ x.way = run[r].way
  BY <1>3, RunsOf DEF Runs, Places
<1>5. run' = [run EXCEPT ![r] = x]
  BY <1>2
<1> HIDE DEF x
<1>6. run'[r] = x
  BY <1>4, <1>5, GoneOn
<1>7. LetterInv(r)'
  BY <1>4, <1>6 DEF LetterInv
<1>8. ShipInv(r)'
  BY <1>1, <1>4, <1>6, SameRepository, RunsOf DEF ShipInv, Kept, Early, OnBranch, Late, At
<1>. QED BY <1>1, <1>4, <1>5, <1>7, <1>8, LookStep

LEMMA DetectBranchStep ==
  ASSUME GitInv, NEW r \in Runners, DetectBranch(r)
  PROVE  GitInv'
<1>1. At(r, "branch") /\ UNCHANGED <<Repository, Fixed, crossed, commits>>
  BY DEF DetectBranch
<1> DEFINE place == IF MustBranch(r) THEN "switch" ELSE "status"
           x == [run[r] EXCEPT !.at = place, !.branch = head]
<1>2. place \in Places /\ head \in Branches
  BY RunsOf DEF GitTypeOK, Places
<1>3. \/ place = "switch" /\ head = run[r].base
      \/ place = "status" /\ head # run[r].base
  BY DEF MustBranch
<1>5. run' = [run EXCEPT ![r] = x]
  BY DEF DetectBranch
<1> HIDE DEF place
<1>4. x \in Runs /\ x.at = place /\ x.branch = head /\ x.base = run[r].base /\ x.way = run[r].way
  BY <1>2, RunsOf DEF Runs
<1> HIDE DEF x
<1>6. run'[r] = x
  BY <1>4, <1>5, GoneOn
<1>7. LetterInv(r)'
  BY <1>3, <1>4, <1>6 DEF LetterInv
<1>8. ShipInv(r)'
  BY <1>1, <1>3, <1>4, <1>6, SameRepository, RunsOf, DefaultIsABranch
     DEF ShipInv, Kept, Early, OnBranch, Late, At
<1>. QED BY <1>1, <1>4, <1>5, <1>7, <1>8, LookStep

LEMMA StatusStep ==
  ASSUME GitInv, NEW r \in Runners, Status(r) \/ StatusAgain(r)
  PROVE  GitInv'
<1>1. run[r].at \in {"status", "again"} /\ UNCHANGED <<Repository, Fixed, crossed, commits>>
  BY DEF Status, StatusAgain, At
<1>2. \/ To(r, "again")
      \/ To(r, "add")
      \/ Tree = {} /\ To(r, "diff")
      \/ run[r].way # "ship" /\ Tell(r, "skipped")
  BY DEF Status, StatusAgain
<1>3. CASE run[r].way # "ship" /\ Tell(r, "skipped")
  <2>1. PICK x \in Runs : /\ run' = [run EXCEPT ![r] = x] /\ run'[r] = x /\ x.at = "told"
                          /\ x.way = run[r].way
    BY <1>3, ToldAnswer
  <2>. QED BY <1>1, <1>3, <2>1, LookStep DEF LetterInv, ShipInv
<1>4. ASSUME NEW place \in {"again", "add", "diff"}, To(r, place), place = "diff" => Tree = {}
      PROVE  GitInv'
  <2>1. place \in Places
    BY DEF Places
  <2>2. PICK x \in Runs : /\ run' = [run EXCEPT ![r] = x] /\ run'[r] = x /\ x.at = place
                          /\ x.way = run[r].way /\ x.base = run[r].base /\ x.branch = run[r].branch
    BY <1>4, <2>1, ToPlace
  <2>3. LetterInv(r)'
    BY <2>2 DEF LetterInv
  <2>4. ShipInv(r)'
    BY <1>1, <1>4, <2>2, SameRepository, RunsOf DEF ShipInv, Kept, Early, OnBranch, Late
  <2>. QED BY <1>1, <2>2, <2>3, <2>4, LookStep
<1>. QED BY <1>2, <1>3, <1>4

LEMMA DescribeStep ==
  ASSUME GitInv, NEW r \in Runners, Describe(r)
  PROVE  GitInv'
<1>1. At(r, "describe") /\ UNCHANGED <<Repository, Fixed, crossed, commits>>
  BY DEF Describe
<1> DEFINE x == [run[r] EXCEPT !.at = "letter", !.described = staged]
<1>2. x \in Runs /\ x.at = "letter" /\ x.described = staged /\ x.way = run[r].way
  BY RunsOf DEF Runs, Places, GitTypeOK
<1>3. run' = [run EXCEPT ![r] = x]
  BY DEF Describe, DiffShown
<1> HIDE DEF x
<1>4. run'[r] = x
  BY <1>2, <1>3, GoneOn
<1>5. LetterInv(r)'
  BY <1>1, <1>2, <1>4, SameRepository DEF LetterInv
<1>6. ShipInv(r)'
  BY <1>1, <1>2, <1>4, SameRepository, RunsOf DEF ShipInv, At
<1>. QED BY <1>1, <1>2, <1>3, <1>5, <1>6, LookStep

LEMMA DiffStep ==
  ASSUME GitInv, NEW r \in Runners, Diff(r)
  PROVE  GitInv'
<1>1. At(r, "diff") /\ UNCHANGED <<Repository, Fixed, crossed, commits>>
  BY DEF Diff
<1>2. CASE tips[head] \subseteq tips[run[r].base] /\ Tell(r, "skipped")
  <2>1. PICK x \in Runs : /\ run' = [run EXCEPT ![r] = x] /\ run'[r] = x /\ x.at = "told"
                          /\ x.way = run[r].way /\ x.base = run[r].base /\ x.branch = run[r].branch
                          /\ x.answer = "skipped"
    BY <1>2, ToldAnswer
  <2>2. LetterInv(r)'
    BY <2>1 DEF LetterInv
  <2>3. ShipInv(r)'
    BY <1>1, <1>2, <2>1, SameRepository, RunsOf DEF ShipInv, Kept, Early, OnBranch, Late, At
  <2>. QED BY <1>1, <2>1, <2>2, <2>3, LookStep
<1>3. CASE To(r, "push")
  <2>1. PICK x \in Runs : /\ run' = [run EXCEPT ![r] = x] /\ run'[r] = x /\ x.at = "push"
                          /\ x.way = run[r].way /\ x.base = run[r].base /\ x.branch = run[r].branch
    BY <1>3, ToPlace DEF Places
  <2>2. LetterInv(r)'
    BY <2>1 DEF LetterInv
  <2>3. ShipInv(r)'
    BY <1>1, <2>1, SameRepository, RunsOf DEF ShipInv, Kept, Early, OnBranch, Late, At
  <2>. QED BY <1>1, <2>1, <2>2, <2>3, LookStep
<1>. QED BY <1>2, <1>3 DEF Diff

LEMMA ViewPullStep ==
  ASSUME GitInv, NEW r \in Runners, ViewPull(r)
  PROVE  GitInv'
<1>1. At(r, "view") /\ UNCHANGED <<Repository, Fixed, crossed, commits>>
  BY DEF ViewPull
<1>2. PICK what \in {"failed", "existing"} : Tell(r, what) /\ (what = "existing" => head \in DOMAIN pulls)
  BY DEF ViewPull
<1>3. PICK x \in Runs : /\ run' = [run EXCEPT ![r] = x] /\ run'[r] = x /\ x.at = "told"
                        /\ x.way = run[r].way /\ x.base = run[r].base /\ x.branch = run[r].branch
                        /\ x.answer = what
  BY <1>2, ToldAnswer
<1>4. LetterInv(r)'
  BY <1>3 DEF LetterInv
<1>5. ShipInv(r)'
  BY <1>1, <1>2, <1>3, SameRepository, RunsOf DEF ShipInv, Kept, Early, OnBranch, Late, SentOff, At
<1>. QED BY <1>1, <1>3, <1>4, <1>5, LookStep

(* A step of r that changes the repository crosses the others.             *)
LEMMA ChangeStep ==
  ASSUME GitInv, NEW r \in Runners, NEW x \in Runs, run' = [run EXCEPT ![r] = x],
         Crossing(r), UNCHANGED Fixed,
         head' \in DOMAIN tips', DOMAIN tips \subseteq DOMAIN tips', DOMAIN tips' \subseteq Branches,
         edited' \subseteq Changes, staged' \subseteq Changes,
         MessagesFitCommits', LetterInv(r)', ShipInv(r)'
  PROVE  GitInv'
<1>1. crossed' \in [Runners -> BOOLEAN]
  BY DEF Crossing, GitInv, GitTypeOK
<1>2. GitTypeOK'
  BY <1>1, RunsOf DEF GitTypeOK, Fixed
<1>3. ASSUME NEW s \in Runners \ {r} PROVE LetterInv(s)' /\ ShipInv(s)'
  <2>1. run'[s] = run[s] /\ outset'[s] = outset[s] /\ UNCHANGED origin
    BY RunsOf DEF Fixed
  <2>. QED BY <2>1, OthersStay
<1>. QED BY <1>2, <1>3 DEF GitInv

LEMMA NotCrossed ==
  ASSUME GitInv, NEW r \in Runners, Crossing(r) \/ crossed' = crossed
  PROVE  crossed'[r] = crossed[r]
BY DEF Crossing, GitInv, GitTypeOK

LEMMA SwitchNewStep ==
  ASSUME GitInv, NEW r \in Runners, SwitchNew(r)
  PROVE  GitInv'
<1>1. /\ At(r, "switch") /\ Slug \notin DOMAIN tips /\ head' = Slug /\ Crossing(r)
      /\ tips' = [b \in DOMAIN tips \cup {Slug} |-> IF b = Slug THEN tips[head] ELSE tips[b]]
      /\ UNCHANGED <<edited, staged, remote, pulls, letter, Fixed, commits>>
  BY DEF SwitchNew
<1> DEFINE x == [run[r] EXCEPT !.at = "status", !.branch = Slug]
<1>2. x \in Runs /\ x.at = "status" /\ x.branch = Slug /\ x.base = run[r].base /\ x.way = run[r].way
  BY RunsOf DEF Runs, Places, Branches
<1>3. run' = [run EXCEPT ![r] = x]
  BY DEF SwitchNew
<1> HIDE DEF x
<1>4. run'[r] = x /\ crossed'[r] = crossed[r] /\ outset' = outset /\ origin' = origin
  BY <1>1, <1>2, <1>3, GoneOn, NotCrossed DEF Fixed
<1>5. LetterInv(r)'
  BY <1>2, <1>4 DEF LetterInv
<1>6. ShipInv(r)'
  <2> SUFFICES ASSUME run[r].way = "ship", ~crossed[r]
               PROVE  run'[r].at \notin {"describe", "letter"} /\ Kept(r)' /\ Early(r)' /\ OnBranch(r)' /\ Late(r)'
    BY <1>2, <1>4 DEF ShipInv
  <2>1. /\ head = outset[r].head /\ tips = outset[r].tips /\ outset[r].changes \subseteq Tree
        /\ run[r].base = head /\ head \in DOMAIN tips /\ origin \subseteq DOMAIN tips
    BY <1>1, RunsOf DEF ShipInv, Early, At, GitTypeOK
  <2>2. tips'[Slug] = tips[head] /\ tips'[head] = tips[head] /\ Tree' = Tree /\ head # Slug
    BY <1>1, <2>1 DEF Tree
  <2>3. ASSUME DefaultIsKnown' PROVE Slug \notin DefaultBranch'
    <3>1. CASE origin # {}
      BY <1>1, <1>4, <2>1, <3>1 DEF DefaultBranch
    <3>2. CASE origin = {}
      BY <1>4, <2>3, <3>2 DEF DefaultBranch, DefaultIsKnown
    <3>. QED BY <3>1, <3>2
  <2>4. Kept(r)'
    BY <1>1, <1>2, <1>4, <2>1, <2>2, <2>3 DEF Kept
  <2>5. Early(r)' /\ Late(r)'
    BY <1>2, <1>4 DEF Early, Late
  <2>6. OnBranch(r)'
    BY <1>1, <1>2, <1>4, <2>1, <2>2 DEF OnBranch
  <2>. QED BY <1>2, <1>4, <2>4, <2>5, <2>6
<1>7. /\ head' \in DOMAIN tips' /\ DOMAIN tips \subseteq DOMAIN tips' /\ DOMAIN tips' \subseteq Branches
      /\ edited' \subseteq Changes /\ staged' \subseteq Changes
  BY <1>1, RunsOf DEF GitTypeOK, Branches
<1>8. MessagesFitCommits'
  BY <1>1 DEF GitInv, MessagesFitCommits
<1>. QED BY <1>1, <1>2, <1>3, <1>5, <1>6, <1>7, <1>8, ChangeStep

LEMMA AddAllStep ==
  ASSUME GitInv, NEW r \in Runners, AddAll(r)
  PROVE  GitInv'
<1>1. /\ At(r, "add") /\ staged' = Tree /\ edited' = {} /\ Crossing(r)
      /\ UNCHANGED <<tips, head, remote, pulls, letter, Fixed, commits>>
  BY DEF AddAll
<1>2. PICK place \in {"commit", "describe"} :
        To(r, place) /\ (place = "commit" <=> run[r].way = "ship")
  BY DEF AddAll
<1>3. PICK x \in Runs : /\ run' = [run EXCEPT ![r] = x] /\ run'[r] = x /\ x.at = place
                        /\ x.way = run[r].way /\ x.base = run[r].base /\ x.branch = run[r].branch
  BY <1>2, ToPlace DEF Places
<1>4. crossed'[r] = crossed[r] /\ outset' = outset /\ origin' = origin /\ Tree' = Tree
  BY <1>1, NotCrossed DEF Fixed, Tree
<1>5. LetterInv(r)'
  BY <1>2, <1>3 DEF LetterInv
<1>6. ShipInv(r)'
  <2>1. /\ DefaultIsKnown' = DefaultIsKnown /\ DefaultBranch' = DefaultBranch
        /\ (UNION Range(tips))' = UNION Range(tips)
    BY <1>1, <1>4 DEF DefaultIsKnown, DefaultBranch, Range
  <2>. QED BY <1>1, <1>2, <1>3, <1>4, <2>1, RunsOf DEF ShipInv, Kept, Early, OnBranch, Late, At
<1>7. /\ head' \in DOMAIN tips' /\ DOMAIN tips \subseteq DOMAIN tips' /\ DOMAIN tips' \subseteq Branches
      /\ edited' \subseteq Changes /\ staged' \subseteq Changes
  BY <1>1, RunsOf DEF GitTypeOK, Tree
<1>8. MessagesFitCommits'
  BY <1>1 DEF GitInv, MessagesFitCommits
<1>. QED BY <1>1, <1>3, <1>5, <1>6, <1>7, <1>8, ChangeStep

LEMMA WriteLetterStep ==
  ASSUME GitInv, NEW r \in Runners, WriteLetter(r)
  PROVE  GitInv'
<1>1. /\ At(r, "letter") /\ letter' = r /\ Crossing(r)
      /\ UNCHANGED <<tips, head, edited, staged, remote, pulls, Fixed, commits>>
  BY DEF WriteLetter
<1>2. PICK x \in Runs : /\ run' = [run EXCEPT ![r] = x] /\ run'[r] = x /\ x.at = "commit"
                        /\ x.way = run[r].way /\ x.described = run[r].described
  BY ToPlace DEF WriteLetter, Places
<1>3. crossed'[r] = crossed[r]
  BY <1>1, NotCrossed
<1>4. LetterInv(r)'
  BY <1>1, <1>2, <1>3, RunsOf DEF LetterInv, At
<1>5. ShipInv(r)'
  BY <1>1, <1>2, <1>3, RunsOf DEF ShipInv, At
<1>6. /\ head' \in DOMAIN tips' /\ DOMAIN tips \subseteq DOMAIN tips' /\ DOMAIN tips' \subseteq Branches
      /\ edited' \subseteq Changes /\ staged' \subseteq Changes
  BY <1>1, RunsOf DEF GitTypeOK
<1>7. MessagesFitCommits'
  BY <1>1 DEF GitInv, MessagesFitCommits
<1>. QED BY <1>1, <1>2, <1>4, <1>5, <1>6, <1>7, ChangeStep

LEMMA CommitStep ==
  ASSUME GitInv, NEW r \in Runners, Commit(r)
  PROVE  GitInv'
<1> DEFINE c == [by |-> r, way |-> run[r].way, holds |-> staged, described |-> run[r].described,
                 message |-> IF run[r].way = "ship" THEN r ELSE letter, crossed |-> crossed[r]]
<1>1. /\ At(r, "commit") /\ staged' = {} /\ Crossing(r) /\ commits' = commits \cup {c}
      /\ tips' = [tips EXCEPT ![head] = @ \cup staged]
      /\ UNCHANGED <<head, edited, remote, pulls, letter, Fixed>>
  BY DEF Commit
<1>2. \E x \in Runs : /\ run' = [run EXCEPT ![r] = x] /\ run'[r] = x
                      /\ x.at = (IF run[r].way = "ship" THEN "diff" ELSE "told")
                      /\ x.way = run[r].way /\ x.base = run[r].base /\ x.branch = run[r].branch
  <2>1. CASE run[r].way = "ship"
    BY <2>1, ToPlace DEF Commit, Places
  <2>2. CASE run[r].way # "ship"
    BY <2>2, ToldAnswer DEF Commit
  <2>. QED BY <2>1, <2>2
<1>3. PICK x \in Runs : /\ run' = [run EXCEPT ![r] = x] /\ run'[r] = x
                        /\ x.at = (IF run[r].way = "ship" THEN "diff" ELSE "told")
                        /\ x.way = run[r].way /\ x.base = run[r].base /\ x.branch = run[r].branch
  BY <1>2
<1>4. crossed'[r] = crossed[r] /\ outset' = outset /\ origin' = origin
  BY <1>1, NotCrossed DEF Fixed
<1>5. LetterInv(r)'
  BY <1>3 DEF LetterInv
<1>6. ShipInv(r)'
  <2> SUFFICES ASSUME run[r].way = "ship", ~crossed[r]
               PROVE  run'[r].at \notin {"describe", "letter"} /\ Kept(r)' /\ Early(r)' /\ OnBranch(r)' /\ Late(r)'
    BY <1>3, <1>4 DEF ShipInv
  <2>1. /\ run[r].branch = head /\ run[r].base # head /\ run[r].base \in DOMAIN tips
        /\ outset[r].tips[outset[r].head] \subseteq tips[head] /\ outset[r].changes \subseteq staged
        /\ Kept(r) /\ head \in DOMAIN tips
    BY <1>1, RunsOf DEF ShipInv, OnBranch, At, GitTypeOK
  <2>2. /\ DOMAIN tips' = DOMAIN tips /\ tips'[head] = tips[head] \cup staged
        /\ tips'[run[r].base] = tips[run[r].base]
    BY <1>1, <2>1
  <2>3. DefaultIsKnown' = DefaultIsKnown /\ DefaultBranch' = DefaultBranch
    BY <1>1, <1>4, <2>2 DEF DefaultIsKnown, DefaultBranch
  <2>4. outset[r].changes \subseteq (UNION Range(tips))'
    BY <2>1, <2>2 DEF Range
  <2>5. Kept(r)'
    BY <1>1, <1>3, <1>4, <2>1, <2>2, <2>3, <2>4 DEF Kept
  <2>6. Early(r)' /\ Late(r)'
    BY <1>3 DEF Early, Late
  <2>7. OnBranch(r)'
    BY <1>1, <1>3, <1>4, <2>1, <2>2 DEF OnBranch
  <2>. QED BY <1>3, <2>5, <2>6, <2>7
<1>7. /\ head' \in DOMAIN tips' /\ DOMAIN tips \subseteq DOMAIN tips' /\ DOMAIN tips' \subseteq Branches
      /\ edited' \subseteq Changes /\ staged' \subseteq Changes
  BY <1>1, RunsOf DEF GitTypeOK
<1>8. MessagesFitCommits'
  <2>1. c.way = "commit" /\ ~c.crossed => c.message = c.by /\ c.described = c.holds
    BY <1>1, RunsOf DEF LetterInv, At
  <2> HIDE DEF c
  <2>. QED BY <1>1, <2>1 DEF GitInv, MessagesFitCommits
<1>. QED BY <1>1, <1>3, <1>5, <1>6, <1>7, <1>8, ChangeStep

LEMMA PushStep ==
  ASSUME GitInv, NEW r \in Runners, Push(r)
  PROVE  GitInv'
<1>1. /\ At(r, "push") /\ Crossing(r)
      /\ remote' = [b \in DOMAIN remote \cup {run[r].branch} |->
                      IF b = run[r].branch THEN tips[b] ELSE remote[b]]
      /\ UNCHANGED <<tips, head, edited, staged, pulls, letter, Fixed, commits>>
  BY DEF Push
<1>2. PICK x \in Runs : /\ run' = [run EXCEPT ![r] = x] /\ run'[r] = x /\ x.at = "create"
                        /\ x.way = run[r].way /\ x.base = run[r].base /\ x.branch = run[r].branch
  BY ToPlace DEF Push, Places
<1>3. crossed'[r] = crossed[r] /\ outset' = outset /\ origin' = origin /\ Tree' = Tree
  BY <1>1, NotCrossed DEF Fixed, Tree
<1>4. LetterInv(r)'
  BY <1>2 DEF LetterInv
<1>5. ShipInv(r)'
  <2> SUFFICES ASSUME run[r].way = "ship", ~crossed[r]
               PROVE  run'[r].at \notin {"describe", "letter"} /\ Kept(r)' /\ Early(r)' /\ OnBranch(r)' /\ Late(r)'
    BY <1>2, <1>3 DEF ShipInv
  <2>1. Kept(r) /\ OnBranch(r) /\ run[r].branch = head
    BY <1>1, RunsOf DEF ShipInv, OnBranch, At
  <2>2. /\ DefaultIsKnown' = DefaultIsKnown /\ DefaultBranch' = DefaultBranch
        /\ (UNION Range(tips))' = UNION Range(tips)
    BY <1>1, <1>3 DEF DefaultIsKnown, DefaultBranch, Range
  <2>3. head \in DOMAIN remote' /\ remote'[head] = tips[head]
    BY <1>1, <2>1
  <2>4. Kept(r)' /\ Early(r)'
    BY <1>1, <1>2, <1>3, <2>1, <2>2 DEF Kept, Early
  <2>5. OnBranch(r)'
    BY <1>1, <1>2, <1>3, <2>1 DEF OnBranch, At
  <2>6. Late(r)'
    BY <1>1, <1>2, <1>3, <2>1, <2>3 DEF Late, SentOff, OnBranch, At
  <2>. QED BY <1>2, <2>4, <2>5, <2>6
<1>6. /\ head' \in DOMAIN tips' /\ DOMAIN tips \subseteq DOMAIN tips' /\ DOMAIN tips' \subseteq Branches
      /\ edited' \subseteq Changes /\ staged' \subseteq Changes
  BY <1>1, RunsOf DEF GitTypeOK
<1>7. MessagesFitCommits'
  BY <1>1 DEF GitInv, MessagesFitCommits
<1>. QED BY <1>1, <1>2, <1>4, <1>5, <1>6, <1>7, ChangeStep

LEMMA CreatePullStep ==
  ASSUME GitInv, NEW r \in Runners, CreatePull(r)
  PROVE  GitInv'
<1>1. /\ At(r, "create") /\ UNCHANGED <<tips, head, edited, staged, remote, letter, Fixed, commits>>
      /\ \/ /\ pulls' = [b \in DOMAIN pulls \cup {head} |-> IF b = head THEN "open" ELSE pulls[b]]
            /\ Tell(r, "created") /\ Crossing(r)
         \/ To(r, "view") /\ UNCHANGED <<pulls, crossed>>
  BY DEF CreatePull
<1>2. crossed'[r] = crossed[r] /\ outset' = outset /\ origin' = origin /\ Tree' = Tree
  BY <1>1, NotCrossed DEF Fixed, Tree
<1>3. /\ DefaultIsKnown' = DefaultIsKnown /\ DefaultBranch' = DefaultBranch
      /\ (UNION Range(tips))' = UNION Range(tips)
  BY <1>1, <1>2 DEF DefaultIsKnown, DefaultBranch, Range
<1>4. MessagesFitCommits'
  BY <1>1 DEF GitInv, MessagesFitCommits
<1>5. /\ head' \in DOMAIN tips' /\ DOMAIN tips \subseteq DOMAIN tips' /\ DOMAIN tips' \subseteq Branches
      /\ edited' \subseteq Changes /\ staged' \subseteq Changes
  BY <1>1, RunsOf DEF GitTypeOK
<1>6. ASSUME head \in DOMAIN pulls', Tell(r, "created"), Crossing(r) PROVE GitInv'
  <2>1. PICK x \in Runs : /\ run' = [run EXCEPT ![r] = x] /\ run'[r] = x /\ x.at = "told"
                          /\ x.way = run[r].way /\ x.base = run[r].base /\ x.branch = run[r].branch
                          /\ x.answer = "created"
    BY <1>6, ToldAnswer
  <2>2. LetterInv(r)'
    BY <2>1 DEF LetterInv
  <2>3. ShipInv(r)'
    BY <1>1, <1>2, <1>3, <1>6, <2>1, RunsOf DEF ShipInv, Kept, Early, OnBranch, Late, SentOff, At
  <2>. QED BY <1>1, <1>4, <1>5, <1>6, <2>1, <2>2, <2>3, ChangeStep
<1>7. ASSUME To(r, "view"), UNCHANGED <<pulls, crossed>> PROVE GitInv'
  <2>1. PICK x \in Runs : /\ run' = [run EXCEPT ![r] = x] /\ run'[r] = x /\ x.at = "view"
                          /\ x.way = run[r].way /\ x.base = run[r].base /\ x.branch = run[r].branch
    BY <1>7, ToPlace DEF Places
  <2>2. LetterInv(r)'
    BY <2>1 DEF LetterInv
  <2>3. ShipInv(r)'
    BY <1>1, <1>2, <1>3, <1>7, <2>1, RunsOf DEF ShipInv, Kept, Early, OnBranch, Late, SentOff, At
  <2>4. UNCHANGED <<Repository, Fixed, crossed, commits>>
    BY <1>1, <1>7 DEF Repository
  <2>. QED BY <2>1, <2>2, <2>3, <2>4, LookStep
<1>. QED BY <1>1, <1>6, <1>7

LEMMA OrderStep ==
  ASSUME GitInv, NEW r \in Runners, NEW way \in {"commit", "ship"}, Order(r, way)
  PROVE  GitInv'
<1>1. /\ outset' = [outset EXCEPT ![r] = [changes |-> Tree, head |-> head, tips |-> tips]]
      /\ crossed' = [crossed EXCEPT ![r] = \E s \in Runners \ {r} : ~At(s, "told")]
      /\ UNCHANGED <<Repository, origin, commits>>
  BY DEF Order
<1> DEFINE x == [Resting EXCEPT !.way = way, !.at = IF way = "commit" THEN "status" ELSE "base"]
<1>2. x \in Runs /\ x.way = way /\ (way = "ship" => x.at = "base") /\ (way = "commit" => x.at = "status")
  BY DEF Resting, Runs, Places, Branches
<1>3. run' = [run EXCEPT ![r] = x]
  BY DEF Order
<1> HIDE DEF x
<1>4. run'[r] = x
  BY <1>2, <1>3, GoneOn
<1>5. outset'[r] = [changes |-> Tree, head |-> head, tips |-> tips]
      /\ outset' = [s \in Runners |-> outset'[s]] /\ crossed' \in [Runners -> BOOLEAN]
  BY <1>1 DEF GitInv, GitTypeOK
<1>6. GitTypeOK'
  BY <1>1, <1>2, <1>3, <1>5, RunsOf DEF GitTypeOK, Repository
<1>7. MessagesFitCommits'
  BY <1>1 DEF GitInv, MessagesFitCommits
<1>8. LetterInv(r)'
  BY <1>2, <1>4 DEF LetterInv
<1>9. ShipInv(r)'
  <2>1. Tree' = Tree /\ tips' = tips /\ head' = head
    BY <1>1 DEF Repository, Tree
  <2>. QED BY <1>2, <1>4, <1>5, <2>1 DEF ShipInv, Kept, Early, OnBranch, Late
<1>10. ASSUME NEW s \in Runners \ {r} PROVE LetterInv(s)' /\ ShipInv(s)'
  <2>1. /\ run'[s] = run[s] /\ outset'[s] = outset[s] /\ UNCHANGED origin /\ UNCHANGED Repository
        /\ crossed'[s] = crossed[s]
    BY <1>1, <1>3, RunsOf DEF GitTypeOK
  <2>. QED BY <2>1, OthersStay
<1>. QED BY <1>6, <1>7, <1>8, <1>9, <1>10 DEF GitInv

LEMMA EditStep ==
  ASSUME GitInv, NEW c \in Changes, Edit(c)
  PROVE  GitInv'
<1>1. GitTypeOK'
  BY RunsOf DEF GitInv, GitTypeOK, Edit
<1>2. MessagesFitCommits'
  BY DEF GitInv, MessagesFitCommits, Edit
<1>3. ASSUME NEW r \in Runners PROVE LetterInv(r)' /\ ShipInv(r)'
  BY RunsOf, Undisturbed DEF Edit
<1>. QED BY <1>1, <1>2, <1>3 DEF GitInv

LEMMA UserStep ==
  ASSUME GitInv, NEW b \in DOMAIN tips, SwitchBranch(b) \/ ClosePull(b)
  PROVE  GitInv'
<1>1. /\ crossed' = [r \in Runners |-> TRUE] /\ head' \in DOMAIN tips
      /\ UNCHANGED <<tips, edited, staged, origin, run, outset, commits>>
  BY DEF SwitchBranch, ClosePull, GitInv, GitTypeOK
<1>2. GitTypeOK'
  BY <1>1 DEF GitInv, GitTypeOK
<1>3. MessagesFitCommits'
  BY <1>1 DEF GitInv, MessagesFitCommits
<1>. QED BY <1>1, <1>2, <1>3 DEF GitInv, LetterInv, ShipInv

LEMMA GitStep == GitInv /\ [GitNext]_gitVars => GitInv'
<1> SUFFICES ASSUME GitInv, [GitNext]_gitVars PROVE GitInv'
  OBVIOUS
<1>1. CASE UNCHANGED gitVars
  <2>1. GitTypeOK' /\ MessagesFitCommits'
    BY <1>1 DEF GitInv, GitTypeOK, MessagesFitCommits, gitVars
  <2>2. ASSUME NEW r \in Runners PROVE LetterInv(r)' /\ ShipInv(r)'
    BY <1>1, RunsOf, Undisturbed DEF gitVars
  <2>. QED BY <2>1, <2>2 DEF GitInv
<1>2. ASSUME NEW r \in Runners, RunnerStep(r) \/ StepFails(r) PROVE GitInv'
  <2>1. CASE DetectBase(r)
    BY <2>1, DetectBaseStep
  <2>2. CASE DetectBranch(r)
    BY <2>2, DetectBranchStep
  <2>3. CASE SwitchNew(r)
    BY <2>3, SwitchNewStep
  <2>4. CASE Status(r) \/ StatusAgain(r)
    BY <2>4, StatusStep
  <2>5. CASE AddAll(r)
    BY <2>5, AddAllStep
  <2>6. CASE Describe(r)
    BY <2>6, DescribeStep
  <2>7. CASE WriteLetter(r)
    BY <2>7, WriteLetterStep
  <2>8. CASE Commit(r)
    BY <2>8, CommitStep
  <2>9. CASE Diff(r)
    BY <2>9, DiffStep
  <2>10. CASE Push(r)
    BY <2>10, PushStep
  <2>11. CASE CreatePull(r)
    BY <2>11, CreatePullStep
  <2>12. CASE ViewPull(r)
    BY <2>12, ViewPullStep
  <2>13. CASE StepFails(r)
    BY <2>13, StepFailsStep
  <2>. QED BY <1>2, <2>1, <2>2, <2>3, <2>4, <2>5, <2>6, <2>7, <2>8, <2>9, <2>10, <2>11, <2>12, <2>13 DEF RunnerStep
<1>3. ASSUME NEW r \in Runners, NEW way \in {"commit", "ship"}, Order(r, way) PROVE GitInv'
  BY <1>3, OrderStep
<1>4. ASSUME NEW c \in Changes, Edit(c) PROVE GitInv'
  BY <1>4, EditStep
<1>5. ASSUME NEW b \in DOMAIN tips, SwitchBranch(b) \/ ClosePull(b) PROVE GitInv'
  BY <1>5, UserStep
<1>. QED BY <1>1, <1>2, <1>3, <1>4, <1>5 DEF GitNext

(* A commit holds what its message was written for, and a request that was *)
(* told of all the work there was, whichever commands of git failed: as    *)
(* long as nobody else is at the repository.                               *)
THEOREM WorkAlwaysArrives == GitSpec => []WorkArrives
<1>1. GitInv => WorkArrives
  <2> SUFFICES ASSUME GitInv PROVE ShippedIsWhole
    BY DEF GitInv, WorkArrives
  <2>. QED BY RunsOf DEF ShippedIsWhole, ShipInv, Kept, Late, SentOff, At
<1>. QED BY <1>1, GitStarts, GitStep, PTL DEF GitSpec

-----------------------------------------------------------------------------
(* claw init.  What WithWanted makes of the lines of .gitignore: they are  *)
(* kept in their place, and no line that is added was there.               *)
ALine == STRING \cup {Wanted[1], Wanted[2], Wanted[3]}
Begins(s, t)  == Len(s) <= Len(t) /\ \A i \in 1..Len(s) : t[i] = s[i]
Extends(s, t) == Begins(s, t) /\ \A i, j \in DOMAIN t : i < j /\ t[i] = t[j] => j <= Len(s)

LEMMA BeginsIsPrefix ==
  ASSUME NEW s \in Seq(ALine), NEW t \in Seq(ALine), Begins(s, t)
  PROVE  IsPrefix(s, t)
<1>1. Len(s) \in Nat /\ Len(t) \in Nat /\ Len(s) <= Len(t) /\ \A i \in 1..Len(s) : t[i] = s[i]
  BY DEF Begins
<1> DEFINE u == SubSeq(s, 1, Len(s))
           v == SubSeq(t, 1, Len(s))
<1>2. u \in Seq(ALine) /\ Len(u) = Len(s) /\ \A i \in 1..Len(s) : u[i] = s[i]
  BY <1>1, SubSeqProperties
<1>3. v \in Seq(ALine) /\ Len(v) = Len(s) /\ \A i \in 1..Len(s) : v[i] = t[i]
  <2>1. \A i \in 1..Len(s) : t[i] \in ALine
    BY <1>1
  <2>. QED BY <1>1, <2>1, SubSeqProperties
<1> HIDE DEF u, v
<1>4. u = v
  BY <1>1, <1>2, <1>3, SeqEqual
<1>. QED BY <1>1, <1>4 DEF IsPrefix, u, v

LEMMA WithLineIs ==
  ASSUME NEW b \in Seq(ALine), NEW s \in Seq(ALine), NEW x \in ALine, Extends(b, s)
  PROVE  /\ WithLine(s, x) \in Seq(ALine) /\ Extends(b, WithLine(s, x))
         /\ x \in Range(WithLine(s, x)) /\ Range(s) \subseteq Range(WithLine(s, x))
         /\ WithLine(s, x) = s \/ x \notin Range(s)
<1>1. CASE x \in Range(s)
  BY <1>1 DEF WithLine
<1>2. CASE x \notin Range(s)
  <2> DEFINE t == Append(s, x)
             n == Len(s) + 1
  <2>1. /\ t \in Seq(ALine) /\ Len(t) = n /\ DOMAIN t = 1..n /\ t[n] = x /\ \A i \in 1..Len(s) : t[i] = s[i]
        /\ DOMAIN s = 1..Len(s) /\ Len(s) \in Nat /\ Len(b) \in Nat
        /\ \A i \in 1..n : i \in 1..Len(s) \/ i = n
    BY AppendProperties
  <2>2. WithLine(s, x) = t
    BY <1>2 DEF WithLine
  <2> HIDE DEF t
  <2>3. n \in 1..n /\ 1..Len(s) \subseteq 1..n
    BY <2>1
  <2>4. x \in Range(t) /\ Range(s) \subseteq Range(t)
    BY <2>1, <2>3 DEF Range
  <2>5. \A i \in DOMAIN s : s[i] # x
    BY <1>2 DEF Range
  <2>6. Begins(b, t)
    BY <2>1 DEF Extends, Begins
  <2>7. ASSUME NEW i \in DOMAIN t, NEW j \in DOMAIN t, i < j, t[i] = t[j] PROVE j <= Len(b)
    <3>1. i \in 1..Len(s) /\ t[i] # x
      BY <2>1, <2>5, <2>7
    <3>2. j \in 1..Len(s)
      BY <2>1, <2>7, <3>1
    <3>. QED BY <2>1, <2>7, <3>1, <3>2 DEF Extends
  <2>. QED BY <1>2, <2>1, <2>2, <2>4, <2>6, <2>7 DEF Extends
<1>. QED BY <1>1, <1>2

LEMMA WithWantedIs ==
  ASSUME NEW b \in Seq(ALine), NEW s \in Seq(ALine), Extends(b, s)
  PROVE  /\ WithWanted(s) \in Seq(ALine) /\ Extends(b, WithWanted(s))
         /\ Range(Wanted) \subseteq Range(WithWanted(s))
         /\ Range(Wanted) \subseteq Range(s) => WithWanted(s) = s
<1> DEFINE s1 == WithLine(s, Wanted[1])
           s2 == WithLine(s1, Wanted[2])
           s3 == WithLine(s2, Wanted[3])
<1>1. Wanted[1] \in ALine /\ Wanted[2] \in ALine /\ Wanted[3] \in ALine
  BY DEF ALine
<1>2. Range(Wanted) = {Wanted[1], Wanted[2], Wanted[3]}
  <2>1. DOMAIN Wanted = 1..3
    BY DEF Wanted
  <2>. QED BY <2>1 DEF Range
<1>3. /\ s1 \in Seq(ALine) /\ Extends(b, s1) /\ Wanted[1] \in Range(s1) /\ Range(s) \subseteq Range(s1)
      /\ s1 = s \/ Wanted[1] \notin Range(s)
  BY <1>1, WithLineIs
<1> HIDE DEF s1
<1>4. /\ s2 \in Seq(ALine) /\ Extends(b, s2) /\ Wanted[2] \in Range(s2) /\ Range(s1) \subseteq Range(s2)
      /\ s2 = s1 \/ Wanted[2] \notin Range(s1)
  BY <1>1, <1>3, WithLineIs
<1> HIDE DEF s2
<1>5. /\ s3 \in Seq(ALine) /\ Extends(b, s3) /\ Wanted[3] \in Range(s3) /\ Range(s2) \subseteq Range(s3)
      /\ s3 = s2 \/ Wanted[3] \notin Range(s2)
  BY <1>1, <1>4, WithLineIs
<1>6. WithWanted(s) = s3
  BY DEF WithWanted, s1, s2
<1> HIDE DEF s3
<1>. QED BY <1>2, <1>3, <1>4, <1>5, <1>6

LEMMA WantedIs ==
  /\ <<>> \in Seq(ALine) /\ Extends(<<>>, <<>>) /\ Range(<<>>) = {}
  /\ WithWanted(<<>>) = Wanted /\ Wanted # <<>>
  /\ Wanted \in Seq(ALine) /\ Extends(<<>>, Wanted) /\ WithWanted(Wanted) = Wanted
<1>1. <<>> \in Seq(ALine) /\ Extends(<<>>, <<>>) /\ Range(<<>>) = {}
  BY DEF Extends, Begins, Range
<1>2. Wanted = <<Wanted[1], Wanted[2], Wanted[3]>> /\ Wanted[1] # Wanted[2] /\ Wanted[1] # Wanted[3] /\ Wanted[2] # Wanted[3]
  BY DEF Wanted, IgnoreEntries, Comment
<1>3. WithWanted(<<>>) = Wanted
  <2> DEFINE a == Wanted[1]
             b == Wanted[2]
             c == Wanted[3]
  <2>0. a \in ALine /\ b \in ALine /\ c \in ALine /\ a # b /\ a # c /\ b # c /\ Wanted = <<a, b, c>>
    BY <1>2 DEF ALine
  <2> HIDE DEF a, b, c
  <2>1. WithLine(<<>>, a) = <<a>>
    BY <1>1 DEF WithLine
  <2>2. Range(<<a>>) = {a}
    BY DEF Range
  <2>3. WithLine(<<a>>, b) = <<a, b>>
    <3>1. Append(<<a>>, b) = <<a, b>>
      <4> DEFINE t == Append(<<a>>, b)
      <4>0. <<a>> \in Seq(ALine) /\ Len(<<a>>) = 1 /\ <<a, b>> \in Seq(ALine) /\ Len(<<a, b>>) = 2
        BY <2>0
      <4>1. t \in Seq(ALine) /\ Len(t) = 2 /\ t[1] = a /\ t[2] = b
        BY <2>0, <4>0, AppendProperties
      <4> HIDE DEF t
      <4>2. \A i \in 1..2 : t[i] = <<a, b>>[i]
        BY <4>1
      <4>3. t = <<a, b>>
        BY <4>0, <4>1, <4>2, SeqEqual
      <4>. QED BY <4>3 DEF t
    <3>. QED BY <3>1, <2>0, <2>2 DEF WithLine
  <2>4. Range(<<a, b>>) = {a, b}
    BY DEF Range
  <2>5. WithLine(<<a, b>>, c) = <<a, b, c>>
    <3>1. Append(<<a, b>>, c) = <<a, b, c>>
      <4> DEFINE t == Append(<<a, b>>, c)
      <4>0. <<a, b>> \in Seq(ALine) /\ Len(<<a, b>>) = 2 /\ <<a, b, c>> \in Seq(ALine) /\ Len(<<a, b, c>>) = 3
        BY <2>0
      <4>1. t \in Seq(ALine) /\ Len(t) = 3 /\ t[1] = a /\ t[2] = b /\ t[3] = c
        BY <2>0, <4>0, AppendProperties
      <4> HIDE DEF t
      <4>2. \A i \in 1..3 : t[i] = <<a, b, c>>[i]
        BY <4>1
      <4>3. t = <<a, b, c>>
        BY <4>0, <4>1, <4>2, SeqEqual
      <4>. QED BY <4>3 DEF t
    <3>. QED BY <3>1, <2>0, <2>4 DEF WithLine
  <2>. QED BY <2>0, <2>1, <2>3, <2>5 DEF WithWanted, a, b, c
<1>4. Wanted \in Seq(ALine) /\ Extends(<<>>, Wanted)
  BY <1>1, <1>3, WithWantedIs
<1>5. WithWanted(Wanted) = Wanted
  BY <1>1, <1>4, WithWantedIs
<1>6. Wanted # <<>>
  BY <1>2
<1>. QED BY <1>1, <1>3, <1>4, <1>5, <1>6

-----------------------------------------------------------------------------
(* The programs' records.                                                  *)
Statuses == {"skipped", "created", "updated"}
StarterIs(r) ==
  /\ r = [at |-> r.at, doing |-> r.doing, lines |-> r.lines, report |-> r.report, steady |-> r.steady, alone |-> r.alone]
  /\ r.at \in {"resting", "look", "open", "fill"} /\ r.doing \in 0..5
  /\ r.at # "resting" => r.doing \in 1..4
  /\ r.at \in {"open", "fill"} => r.doing \in 2..4
  /\ r.report \in Seq(Statuses) /\ r.steady \in BOOLEAN /\ r.alone \in BOOLEAN
StarterTypes ==
  /\ starter = [p \in Starters |-> starter[p]]
  /\ \A p \in Starters : StarterIs(starter[p])
  /\ settled \in BOOLEAN
  /\ DOMAIN users \subseteq DOMAIN Drafts
  /\ ".gitignore" \in DOMAIN users => users[".gitignore"] \in Seq(ALine)

(* What a program is at after each of its steps.                           *)
Stepped(p, here, doing, lines, report) ==
  starter' = [starter EXCEPT ![p] =
    [at |-> here, doing |-> doing, lines |-> lines, report |-> report, steady |-> starter[p].steady, alone |-> starter[p].alone]]
After(p) == IF Ends(p) THEN "resting" ELSE "look"

LEMMA ArtifactsAre ==
  /\ Len(Artifacts) = 4
  /\ Artifacts[1] = ".claw/" /\ Artifacts[2] = ".claw.json" /\ Artifacts[3] = ".gitignore" /\ Artifacts[4] = "CLAW.md"
  /\ \A i, j \in 1..4 : Artifacts[i] = Artifacts[j] => i = j
<1>1. /\ Len(Artifacts) = 4
      /\ Artifacts[1] = ".claw/" /\ Artifacts[2] = ".claw.json" /\ Artifacts[3] = ".gitignore" /\ Artifacts[4] = "CLAW.md"
  BY DEF Artifacts
<1>2. \A i \in 1..4 : i = 1 \/ i = 2 \/ i = 3 \/ i = 4
  OBVIOUS
<1>. QED BY <1>1, <1>2

LEMMA StarterFields ==
  ASSUME StarterTypes
  PROVE  /\ starter = [p \in Starters |-> starter[p]]
         /\ \A p \in Starters : starter[p] = [at |-> starter[p].at, doing |-> starter[p].doing, lines |-> starter[p].lines,
              report |-> starter[p].report, steady |-> starter[p].steady, alone |-> starter[p].alone]
BY DEF StarterTypes, StarterIs

LEMMA FieldWith ==
  ASSUME NEW here, NEW doing, NEW lines, NEW report, NEW steady, NEW alone, NEW v, NEW x,
         x = [at |-> here, doing |-> doing, lines |-> lines, report |-> report, steady |-> steady, alone |-> alone]
  PROVE  /\ [x EXCEPT !.at = v] = [at |-> v, doing |-> doing, lines |-> lines,
                                   report |-> report, steady |-> steady, alone |-> alone]
         /\ [x EXCEPT !.doing = v] = [at |-> here, doing |-> v, lines |-> lines,
                                      report |-> report, steady |-> steady, alone |-> alone]
         /\ [x EXCEPT !.lines = v] = [at |-> here, doing |-> doing, lines |-> v,
                                      report |-> report, steady |-> steady, alone |-> alone]
         /\ [x EXCEPT !.report = v] = [at |-> here, doing |-> doing, lines |-> lines,
                                       report |-> v, steady |-> steady, alone |-> alone]
         /\ [x EXCEPT !.steady = v] = [at |-> here, doing |-> doing, lines |-> lines,
                                       report |-> report, steady |-> v, alone |-> alone]
<1>1. [x EXCEPT !.at = v] = [at |-> v, doing |-> doing, lines |-> lines, report |-> report, steady |-> steady, alone |-> alone]
  OBVIOUS
<1>2. [x EXCEPT !.doing = v] = [at |-> here, doing |-> v, lines |-> lines, report |-> report, steady |-> steady, alone |-> alone]
  OBVIOUS
<1>3. [x EXCEPT !.lines = v] = [at |-> here, doing |-> doing, lines |-> v, report |-> report, steady |-> steady, alone |-> alone]
  OBVIOUS
<1>4. [x EXCEPT !.report = v] = [at |-> here, doing |-> doing, lines |-> lines, report |-> v, steady |-> steady, alone |-> alone]
  OBVIOUS
<1>5. [x EXCEPT !.steady = v] = [at |-> here, doing |-> doing, lines |-> lines, report |-> report, steady |-> v, alone |-> alone]
  OBVIOUS
<1>. QED BY <1>1, <1>2, <1>3, <1>4, <1>5

LEMMA DealtWithIs ==
  ASSUME StarterTypes, NEW p \in Starters, NEW status, DealtWith(p, status)
  PROVE  Stepped(p, After(p), starter[p].doing + 1, starter[p].lines, Append(starter[p].report, status))
<1>1. /\ starter = [q \in Starters |-> starter[q]]
      /\ starter[p] = [at |-> starter[p].at, doing |-> starter[p].doing, lines |-> starter[p].lines,
                       report |-> starter[p].report,
                       steady |-> starter[p].steady, alone |-> starter[p].alone]
  BY DEF StarterTypes, StarterIs
<1>2. starter' = [starter EXCEPT ![p] = [starter[p] EXCEPT !.report = Append(starter[p].report, status),
                                        !.doing = starter[p].doing + 1, !.at = After(p)]]
  BY <1>1 DEF DealtWith, After, Ends
<1>3. [starter[p] EXCEPT !.report = Append(starter[p].report, status), !.doing = starter[p].doing + 1, !.at = After(p)]
        = [at |-> After(p), doing |-> starter[p].doing + 1, lines |-> starter[p].lines,
           report |-> Append(starter[p].report, status), steady |-> starter[p].steady, alone |-> starter[p].alone]
  <2> DEFINE rp == Append(starter[p].report, status)
             dn == starter[p].doing + 1
             af == After(p)
  <2> HIDE DEF rp, dn, af
  <2> DEFINE y == [starter[p] EXCEPT !.report = rp]
             z == [y EXCEPT !.doing = dn]
  <2>1. y = [at |-> starter[p].at, doing |-> starter[p].doing, lines |-> starter[p].lines,
             report |-> rp, steady |-> starter[p].steady, alone |-> starter[p].alone]
    BY <1>1, FieldWith
  <2> HIDE DEF y
  <2>2. z = [at |-> starter[p].at, doing |-> dn, lines |-> starter[p].lines,
             report |-> rp, steady |-> starter[p].steady, alone |-> starter[p].alone]
    BY <2>1, FieldWith
  <2> HIDE DEF z
  <2>3. [z EXCEPT !.at = af] = [at |-> af, doing |-> dn, lines |-> starter[p].lines,
                                report |-> rp, steady |-> starter[p].steady, alone |-> starter[p].alone]
    BY <2>2, FieldWith
  <2>4. [starter[p] EXCEPT !.report = rp, !.doing = dn, !.at = af] = [z EXCEPT !.at = af]
    BY DEF y, z
  <2>. QED BY <2>3, <2>4 DEF rp, dn, af
<1>. QED BY <1>2, <1>3 DEF Stepped

LEMMA LookIs ==
  ASSUME StarterTypes, NEW p \in Starters, LookAt(p)
  PROVE  /\ starter[p].at = "look" /\ starter[p].doing \in 2..4 /\ Artifact(p) # ".claw/"
         /\ UNCHANGED <<project, onDisk, inits, drafts, users>>
         /\ \/ /\ IsDone(Artifact(p)) /\ touched' = touched
               /\ settled' = (settled \/ (Ends(p) /\ starter[p].alone))
               /\ Stepped(p, After(p), starter[p].doing + 1, starter[p].lines, Append(starter[p].report, "skipped"))
            \/ /\ ~IsDone(Artifact(p)) /\ settled' = settled
               /\ touched' = (IF LookedAt(Artifact(p)) = {} THEN touched ELSE touched \cup {Artifact(p)})
               /\ \E status \in {"created", "updated"} :
                    Stepped(p, "open", starter[p].doing, NewLines(Artifact(p)), Append(starter[p].report, status))
<1>1. starter[p].at = "look" /\ Artifact(p) # ".claw/" /\ UNCHANGED <<project, onDisk, inits, drafts, users>>
  BY DEF LookAt, StarterAt
<1>2. starter[p].doing \in 2..4
  BY <1>1, ArtifactsAre DEF StarterTypes, StarterIs, Artifact
<1>3. CASE /\ IsDone(Artifact(p)) /\ DealtWith(p, "skipped") /\ touched' = touched
           /\ settled' = (settled \/ (Ends(p) /\ starter[p].alone))
  BY <1>1, <1>2, <1>3, DealtWithIs
<1>4. CASE /\ ~IsDone(Artifact(p)) /\ settled' = settled
           /\ touched' = (IF LookedAt(Artifact(p)) = {} THEN touched ELSE touched \cup {Artifact(p)})
           /\ starter' = [starter EXCEPT ![p].at = "open", ![p].lines = NewLines(Artifact(p)),
                                         ![p].report = Append(@, IF Exists(Artifact(p)) THEN "updated" ELSE "created")]
  <2>1. Stepped(p, "open", starter[p].doing, NewLines(Artifact(p)),
                Append(starter[p].report, IF Exists(Artifact(p)) THEN "updated" ELSE "created"))
    BY <1>4, StarterFields DEF Stepped
  <2>2. \E status \in {"created", "updated"} :
          Stepped(p, "open", starter[p].doing, NewLines(Artifact(p)), Append(starter[p].report, status))
    BY <2>1
  <2>. QED BY <1>1, <1>2, <1>4, <2>2
<1>. QED BY <1>3, <1>4 DEF LookAt

LEMMA EnsureIs ==
  ASSUME StarterTypes, NEW p \in Starters, EnsureDir(p)
  PROVE  /\ starter[p].at = "look" /\ starter[p].doing = 1 /\ Artifact(p) = ".claw/" /\ After(p) = "look"
         /\ IF Exists(".claw/") THEN UNCHANGED onDisk ELSE PutFile(".claw/", <<>>)
         /\ UNCHANGED <<project, inits, drafts, users, touched, settled>>
         /\ Exists(".claw/") => Stepped(p, "look", 2, starter[p].lines, Append(starter[p].report, "skipped"))
         /\ ~Exists(".claw/") => Stepped(p, "look", 2, starter[p].lines, Append(starter[p].report, "created"))
<1>1. /\ starter[p].at = "look" /\ Artifact(p) = ".claw/"
      /\ DealtWith(p, IF Exists(".claw/") THEN "skipped" ELSE "created")
      /\ IF Exists(".claw/") THEN UNCHANGED onDisk ELSE PutFile(".claw/", <<>>)
      /\ UNCHANGED <<project, inits, drafts, users, touched, settled>>
  BY DEF EnsureDir, StarterAt
<1>2. starter[p].doing = 1
  BY <1>1, ArtifactsAre DEF StarterTypes, StarterIs, Artifact
<1>3. After(p) = "look"
  BY <1>2, ArtifactsAre DEF After, Ends
<1>4. Stepped(p, After(p), starter[p].doing + 1, starter[p].lines,
              Append(starter[p].report, IF Exists(".claw/") THEN "skipped" ELSE "created"))
  BY <1>1, DealtWithIs
<1>. QED BY <1>1, <1>2, <1>3, <1>4

LEMMA OpenIs ==
  ASSUME StarterTypes, NEW p \in Starters, OpenFile(p)
  PROVE  /\ starter[p].at = "open" /\ starter[p].doing \in 2..4 /\ PutFile(Artifact(p), <<>>)
         /\ UNCHANGED <<project, inits, drafts, users, touched, settled>>
         /\ Stepped(p, "fill", starter[p].doing, starter[p].lines, starter[p].report)
<1>1. /\ starter[p].at = "open" /\ PutFile(Artifact(p), <<>>)
      /\ starter' = [starter EXCEPT ![p].at = "fill"]
      /\ UNCHANGED <<project, inits, drafts, users, touched, settled>>
  BY DEF OpenFile, StarterAt
<1>2. starter[p].doing \in 2..4
  BY <1>1 DEF StarterTypes, StarterIs
<1>3. Stepped(p, "fill", starter[p].doing, starter[p].lines, starter[p].report)
  <2>1. starter' = [starter EXCEPT ![p] = [starter[p] EXCEPT !.at = "fill"]]
    BY <1>1, StarterFields
  <2>2. [starter[p] EXCEPT !.at = "fill"]
          = [at |-> "fill", doing |-> starter[p].doing, lines |-> starter[p].lines, report |-> starter[p].report,
             steady |-> starter[p].steady, alone |-> starter[p].alone]
    BY StarterFields, FieldWith
  <2>. QED BY <2>1, <2>2 DEF Stepped
<1>. QED BY <1>1, <1>2, <1>3

LEMMA FillIs ==
  ASSUME StarterTypes, NEW p \in Starters, FillFile(p)
  PROVE  /\ starter[p].at = "fill" /\ starter[p].doing \in 2..4 /\ PutFile(Artifact(p), starter[p].lines)
         /\ UNCHANGED <<project, inits, drafts, users, touched>>
         /\ settled' = (settled \/ (Ends(p) /\ starter[p].alone))
         /\ Stepped(p, After(p), starter[p].doing + 1, <<>>, starter[p].report)
<1>1. /\ starter[p].at = "fill" /\ PutFile(Artifact(p), starter[p].lines)
      /\ starter' = [starter EXCEPT ![p].at = After(p), ![p].doing = @ + 1, ![p].lines = <<>>]
      /\ UNCHANGED <<project, inits, drafts, users, touched>>
      /\ settled' = (settled \/ (Ends(p) /\ starter[p].alone))
  BY DEF FillFile, StarterAt, After
<1>2. starter[p].doing \in 2..4
  BY <1>1 DEF StarterTypes, StarterIs
<1>3. Stepped(p, After(p), starter[p].doing + 1, <<>>, starter[p].report)
  <2>1. starter' = [starter EXCEPT ![p] = [starter[p] EXCEPT !.at = After(p), !.doing = starter[p].doing + 1, !.lines = <<>>]]
    BY <1>1, StarterFields
  <2>2. [starter[p] EXCEPT !.at = After(p), !.doing = starter[p].doing + 1, !.lines = <<>>]
          = [at |-> After(p), doing |-> starter[p].doing + 1, lines |-> <<>>, report |-> starter[p].report,
             steady |-> starter[p].steady, alone |-> starter[p].alone]
    <3> DEFINE y == [starter[p] EXCEPT !.at = After(p)]
               z == [y EXCEPT !.doing = starter[p].doing + 1]
    <3>1. y = [at |-> After(p), doing |-> starter[p].doing, lines |-> starter[p].lines,
               report |-> starter[p].report, steady |-> starter[p].steady, alone |-> starter[p].alone]
      BY StarterFields, FieldWith
    <3> HIDE DEF y
    <3>2. z = [at |-> After(p), doing |-> starter[p].doing + 1, lines |-> starter[p].lines,
               report |-> starter[p].report, steady |-> starter[p].steady, alone |-> starter[p].alone]
      BY <3>1
    <3> HIDE DEF z
    <3>3. [z EXCEPT !.lines = <<>>] = [at |-> After(p), doing |-> starter[p].doing + 1, lines |-> <<>>,
                                       report |-> starter[p].report, steady |-> starter[p].steady, alone |-> starter[p].alone]
      BY <3>2
    <3>4. [starter[p] EXCEPT !.at = After(p), !.doing = starter[p].doing + 1, !.lines = <<>>] = [z EXCEPT !.lines = <<>>]
      BY DEF y, z
    <3>. QED BY <3>3, <3>4
  <2>. QED BY <2>1, <2>2 DEF Stepped
<1>. QED BY <1>1, <1>2, <1>3

LEMMA BeginIs ==
  ASSUME StarterTypes, NEW p \in Starters, BeginInit(p)
  PROVE  /\ starter[p].at = "resting"
         /\ UNCHANGED <<project, onDisk, drafts, users, touched, settled>>
         /\ starter' = [starter EXCEPT ![p] = [at |-> "look", doing |-> 1, lines |-> <<>>, report |-> <<>>,
                                               steady |-> settled, alone |-> TRUE]]
<1>1. [Unstarted EXCEPT !.at = "look", !.doing = 1, !.steady = settled]
        = [at |-> "look", doing |-> 1, lines |-> <<>>, report |-> <<>>, steady |-> settled, alone |-> TRUE]
  <2> DEFINE u == Unstarted
             rest == "resting"
             look == "look"
             zero == 0
             one == 1
             none == <<>>
             no == FALSE
             yes == TRUE
             st == settled
  <2>0. u = [at |-> rest, doing |-> zero, lines |-> none, report |-> none, steady |-> no, alone |-> yes]
    BY DEF Unstarted
  <2> HIDE DEF u, rest, look, zero, one, none, no, yes, st
  <2> DEFINE y == [u EXCEPT !.at = look]
             z == [y EXCEPT !.doing = one]
  <2>1. y = [at |-> look, doing |-> zero, lines |-> none, report |-> none, steady |-> no, alone |-> yes]
    BY <2>0, FieldWith
  <2> HIDE DEF y
  <2>2. z = [at |-> look, doing |-> one, lines |-> none, report |-> none, steady |-> no, alone |-> yes]
    BY <2>1, FieldWith
  <2> HIDE DEF z
  <2>3. [z EXCEPT !.steady = st] = [at |-> look, doing |-> one, lines |-> none, report |-> none, steady |-> st, alone |-> yes]
    BY <2>2, FieldWith
  <2>4. [u EXCEPT !.at = look, !.doing = one, !.steady = st] = [z EXCEPT !.steady = st]
    BY DEF y, z
  <2>. QED BY <2>3, <2>4 DEF u, look, one, none, yes, st
<1>. QED BY <1>1 DEF BeginInit

Others(p) == \A q \in Starters \ {p} : starter'[q] = starter[q]

LEMMA SteppedIs ==
  ASSUME StarterTypes, NEW p \in Starters, NEW r, starter' = [starter EXCEPT ![p] = r], StarterIs(r),
         settled' \in BOOLEAN, users' = users
  PROVE  StarterTypes' /\ starter'[p] = r /\ Others(p)
<1>1. starter' = [q \in Starters |-> starter'[q]] /\ starter'[p] = r /\ \A q \in Starters \ {p} : starter'[q] = starter[q]
  BY DEF StarterTypes
<1>2. \A q \in Starters : StarterIs(starter'[q])
  BY <1>1 DEF StarterTypes
<1>. QED BY <1>1, <1>2 DEF StarterTypes, Others

-----------------------------------------------------------------------------
(* A file nobody meddled with: at most one program writes it; what it is   *)
(* about to write is what a look would decide on now; and the file, or     *)
(* what is being filled into it, is right.                                 *)
WorksAt(p, here, f) == starter[p].at = here /\ Artifact(p) = f
Base == IF ".gitignore" \in DOMAIN users THEN users[".gitignore"] ELSE <<>>
Right(f, lines) ==
  IF f = ".gitignore"
  THEN lines \in Seq(ALine) /\ Extends(Base, lines) /\ (".gitignore" \notin DOMAIN users => lines = Wanted)
  ELSE IF f \in DOMAIN users THEN lines = users[f] ELSE f = "CLAW.md" => lines = Guide(project)
OneWrites(f) ==
  \A p, q \in Starters :
    (WorksAt(p, "open", f) \/ WorksAt(p, "fill", f)) /\ (WorksAt(q, "open", f) \/ WorksAt(q, "fill", f)) => p = q
OpenedIsNew(f) == \A p \in Starters : WorksAt(p, "open", f) => starter[p].lines = NewLines(f) /\ ~IsDone(f)
FilledIsRight(f) ==
  \A p \in Starters : WorksAt(p, "fill", f) =>
    /\ Exists(f) /\ Right(f, starter[p].lines)
    /\ f = ".gitignore" => onDisk[f] = <<>> /\ Range(Wanted) \subseteq Range(starter[p].lines)
FileIsRight(f) ==
  (\A p \in Starters : ~WorksAt(p, "fill", f)) => (f \in DOMAIN users => Exists(f)) /\ (Exists(f) => Right(f, onDisk[f]))
UsersIsLeft(f) ==
  f \in DOMAIN users /\ f # ".gitignore" => \A p \in Starters : ~WorksAt(p, "open", f) /\ ~WorksAt(p, "fill", f)
FileInv(f) == OneWrites(f) /\ OpenedIsNew(f) /\ FilledIsRight(f) /\ FileIsRight(f) /\ UsersIsLeft(f)

(* A file a further look would leave alone.                                *)
Stays(f) ==
  /\ IsDone(f)
  /\ \A p \in Starters : ~WorksAt(p, "open", f) /\ (f = ".gitignore" => ~WorksAt(p, "fill", f))

Names == DOMAIN Drafts \cup {Artifacts[1], Artifacts[2], Artifacts[3], Artifacts[4]}
FilesInv == \A f \in Names \ touched : FileInv(f)
RunsInv ==
  touched = {} =>
    /\ \A p \in Starters : starter[p].at # "resting" /\ starter[p].alone =>
         \A i \in 1..4 : i < starter[p].doing => Stays(Artifacts[i])
    /\ settled => \A i \in 1..4 : Stays(Artifacts[i])
    /\ \A p \in Starters : starter[p].steady => settled /\ Range(starter[p].report) \subseteq {"skipped"}
StarterInv == StarterTypes /\ FilesInv /\ RunsInv

LEMMA LinesAre ==
  ASSUME NEW s \in Seq(STRING) PROVE s \in Seq(ALine)
BY SeqMonotonic DEF ALine

LEMMA BaseIs ==
  ASSUME StarterTypes PROVE Base \in Seq(ALine)
BY WantedIs DEF Base, StarterTypes

LEMMA NewIsRight ==
  ASSUME StarterTypes, NEW f, f \in DOMAIN users => Exists(f), Exists(f) => Right(f, onDisk[f]), ~IsDone(f)
  PROVE  /\ Right(f, NewLines(f))
         /\ f = ".gitignore" => Range(Wanted) \subseteq Range(NewLines(f))
         /\ f \in DOMAIN users => f = ".gitignore"
<1>1. CASE f # ".gitignore"
  <2>1. ~Exists(f) /\ f \notin DOMAIN users
    BY <1>1 DEF IsDone
  <2>2. f = "CLAW.md" => NewLines(f) = Guide(project)
    BY DEF NewLines
  <2>. QED BY <1>1, <2>1, <2>2 DEF Right
<1>2. CASE f = ".gitignore"
  <2> DEFINE old == IF Exists(f) THEN onDisk[f] ELSE <<>>
  <2>1. NewLines(f) = WithWanted(old)
    BY <1>2 DEF NewLines
  <2>2. old \in Seq(ALine) /\ Extends(Base, old) /\ (f \notin DOMAIN users => old = Wanted \/ old = <<>>)
    <3>1. CASE Exists(f)
      BY <1>2, <3>1 DEF Right
    <3>2. CASE ~Exists(f)
      <4>1. Base = <<>>
        BY <1>2, <3>2 DEF Base
      <4>. QED BY <3>2, <4>1, WantedIs
    <3>. QED BY <3>1, <3>2
  <2> HIDE DEF old
  <2>3. /\ WithWanted(old) \in Seq(ALine) /\ Extends(Base, WithWanted(old))
        /\ Range(Wanted) \subseteq Range(WithWanted(old))
    BY <2>2, BaseIs, WithWantedIs
  <2>4. f \notin DOMAIN users => WithWanted(old) = Wanted
    BY <2>2, WantedIs
  <2>. QED BY <1>2, <2>1, <2>3, <2>4 DEF Right
<1>. QED BY <1>1, <1>2

(* A step that leaves a file, and who is at it, as they are.               *)
StillAt(f) ==
  /\ project' = project
  /\ (f \in DOMAIN onDisk' <=> f \in DOMAIN onDisk) /\ (f \in DOMAIN onDisk => onDisk'[f] = onDisk[f])
  /\ (f \in DOMAIN users' <=> f \in DOMAIN users) /\ (f \in DOMAIN users => users'[f] = users[f])
  /\ \A p \in Starters :
       /\ WorksAt(p, "open", f)' <=> WorksAt(p, "open", f)
       /\ WorksAt(p, "fill", f)' <=> WorksAt(p, "fill", f)
       /\ (WorksAt(p, "open", f) \/ WorksAt(p, "fill", f)) => starter'[p].lines = starter[p].lines

LEMMA StillIs ==
  ASSUME NEW f, StillAt(f)
  PROVE  /\ FileInv(f) => FileInv(f)'
         /\ Stays(f) => Stays(f)'
<1>1. Exists(f)' <=> Exists(f)
  BY DEF StillAt, Exists
<1>2. NewLines(f)' = NewLines(f)
  <2>1. f = ".gitignore" => (IF Exists(f) THEN onDisk[f] ELSE <<>>)' = (IF Exists(f) THEN onDisk[f] ELSE <<>>)
    BY DEF StillAt, Exists
  <2>2. Guide(project)' = Guide(project)
    BY DEF StillAt
  <2>. QED BY <2>1, <2>2 DEF NewLines
<1>3. IsDone(f)' <=> IsDone(f)
  BY <1>1, <1>2 DEF IsDone, StillAt, Exists
<1>4. /\ f = ".gitignore" => Base' = Base /\ (".gitignore" \in DOMAIN users' <=> ".gitignore" \in DOMAIN users)
      /\ Guide(project)' = Guide(project) /\ (f \in DOMAIN users' <=> f \in DOMAIN users)
      /\ f \in DOMAIN users => users'[f] = users[f]
  BY DEF StillAt, Base
<1>5. /\ \A p \in Starters :
           /\ WorksAt(p, "open", f)' <=> WorksAt(p, "open", f)
           /\ WorksAt(p, "fill", f)' <=> WorksAt(p, "fill", f)
           /\ (WorksAt(p, "open", f) \/ WorksAt(p, "fill", f)) => starter'[p].lines = starter[p].lines
      /\ Exists(f) => onDisk'[f] = onDisk[f]
  BY DEF StillAt, Exists
<1>6. Stays(f) => Stays(f)'
  BY <1>3, <1>5 DEF Stays
<1>7. ASSUME FileInv(f) PROVE FileInv(f)'
  <2>1. OneWrites(f)'
    BY <1>5, <1>7 DEF FileInv, OneWrites
  <2>2. OpenedIsNew(f)'
    BY <1>2, <1>3, <1>5, <1>7 DEF FileInv, OpenedIsNew
  <2>3. FilledIsRight(f)'
    <3> SUFFICES ASSUME NEW p \in Starters, WorksAt(p, "fill", f)'
                 PROVE  /\ Exists(f)' /\ Right(f, starter[p].lines)'
                        /\ f = ".gitignore" => onDisk'[f] = <<>> /\ Range(Wanted) \subseteq Range(starter'[p].lines)
      BY DEF FilledIsRight
    <3>1. WorksAt(p, "fill", f) /\ starter'[p].lines = starter[p].lines
      BY <1>5
    <3>2. /\ Exists(f) /\ Right(f, starter[p].lines)
          /\ f = ".gitignore" => onDisk[f] = <<>> /\ Range(Wanted) \subseteq Range(starter[p].lines)
      BY <1>7, <3>1 DEF FileInv, FilledIsRight
    <3>3. Right(f, starter[p].lines)'
      BY <1>4, <3>1, <3>2 DEF Right
    <3>. QED BY <1>1, <1>5, <3>1, <3>2, <3>3
  <2>4. FileIsRight(f)'
    <3> SUFFICES ASSUME \A p \in Starters : ~WorksAt(p, "fill", f)'
                 PROVE  (f \in DOMAIN users' => Exists(f)') /\ (Exists(f)' => Right(f, onDisk[f])')
      BY DEF FileIsRight
    <3>1. (f \in DOMAIN users => Exists(f)) /\ (Exists(f) => Right(f, onDisk[f]))
      BY <1>5, <1>7 DEF FileInv, FileIsRight
    <3>2. Exists(f)' => Right(f, onDisk[f])'
      BY <1>1, <1>4, <1>5, <3>1 DEF Right
    <3>. QED BY <1>1, <1>4, <3>1, <3>2
  <2>5. UsersIsLeft(f)'
    BY <1>4, <1>5, <1>7 DEF FileInv, UsersIsLeft
  <2>. QED BY <2>1, <2>2, <2>3, <2>4, <2>5 DEF FileInv
<1>. QED BY <1>6, <1>7

(* Another file, or a program that was not at the file and does not get at *)
(* it: what a step leaves alone.                                           *)

LEMMA MovedIs ==
  ASSUME NEW p \in Starters, NEW f, Others(p), project' = project, users' = users,
         f \in DOMAIN onDisk' <=> f \in DOMAIN onDisk, f \in DOMAIN onDisk => onDisk'[f] = onDisk[f],
         ~WorksAt(p, "open", f), ~WorksAt(p, "fill", f),
         starter'[p].at \in {"open", "fill"} => Artifacts[starter'[p].doing] # f
  PROVE  StillAt(f)
<1>1. ~WorksAt(p, "open", f)' /\ ~WorksAt(p, "fill", f)'
  BY DEF WorksAt, Artifact
<1>2. ASSUME NEW q \in Starters
      PROVE  /\ WorksAt(q, "open", f)' <=> WorksAt(q, "open", f)
             /\ WorksAt(q, "fill", f)' <=> WorksAt(q, "fill", f)
             /\ (WorksAt(q, "open", f) \/ WorksAt(q, "fill", f)) => starter'[q].lines = starter[q].lines
  <2>1. CASE q = p
    BY <1>1, <2>1
  <2>2. CASE q # p
    <3>1. starter'[q] = starter[q]
      BY <2>2 DEF Others
    <3>. QED BY <3>1 DEF WorksAt, Artifact
  <2>. QED BY <2>1, <2>2
<1>. QED BY <1>2 DEF StillAt

LEMMA PutIs ==
  ASSUME NEW g, NEW l, PutFile(g, l)
  PROVE  /\ g \in DOMAIN onDisk' /\ onDisk'[g] = l
         /\ \A f : f # g => (f \in DOMAIN onDisk' <=> f \in DOMAIN onDisk) /\ (f \in DOMAIN onDisk => onDisk'[f] = onDisk[f])
BY DEF PutFile

LEMMA DoneStays ==
  ASSUME NEW f, FileInv(f), IsDone(f)
  PROVE  Stays(f)
<1>1. \A p \in Starters : ~WorksAt(p, "open", f)
  BY DEF FileInv, OpenedIsNew
<1>2. ASSUME f = ".gitignore", NEW p \in Starters, WorksAt(p, "fill", f) PROVE FALSE
  <2>1. Exists(f) /\ onDisk[f] = <<>>
    BY <1>2 DEF FileInv, FilledIsRight
  <2>2. NewLines(f) = WithWanted(<<>>)
    BY <1>2, <2>1 DEF NewLines
  <2>. QED BY <1>2, <2>1, <2>2, WantedIs DEF IsDone
<1>. QED BY <1>1, <1>2 DEF Stays

LEMMA RunsStep ==
  ASSUME StarterInv, NEW p \in Starters, touched = {}, Others(p),
         \A i \in 1..4 : Stays(Artifacts[i]) => Stays(Artifacts[i])',
         starter'[p].at # "resting" /\ starter'[p].alone => \A i \in 1..4 : i < starter'[p].doing => Stays(Artifacts[i])',
         settled => settled', settled' => settled \/ \A i \in 1..4 : Stays(Artifacts[i])',
         starter'[p].steady => settled' /\ Range(starter'[p].report) \subseteq {"skipped"}
  PROVE  RunsInv'
<1>1. /\ \A q \in Starters : starter[q].at # "resting" /\ starter[q].alone =>
           \A i \in 1..4 : i < starter[q].doing => Stays(Artifacts[i])
      /\ settled => \A i \in 1..4 : Stays(Artifacts[i])
      /\ \A q \in Starters : starter[q].steady => settled /\ Range(starter[q].report) \subseteq {"skipped"}
  BY DEF StarterInv, RunsInv
<1>2. ASSUME NEW q \in Starters, starter'[q].at # "resting", starter'[q].alone, NEW i \in 1..4, i < starter'[q].doing
      PROVE  Stays(Artifacts[i])'
  BY <1>1, <1>2 DEF Others
<1>3. ASSUME NEW q \in Starters, starter'[q].steady
      PROVE  settled' /\ Range(starter'[q].report) \subseteq {"skipped"}
  BY <1>1, <1>3 DEF Others
<1>4. settled' => \A i \in 1..4 : Stays(Artifacts[i])'
  BY <1>1
<1>. QED BY <1>2, <1>3, <1>4 DEF RunsInv

LEMMA StillFiles ==
  ASSUME StarterInv, touched \subseteq touched', NEW f \in Names, f \notin touched', StillAt(f)
  PROVE  FileInv(f)'
BY StillIs DEF StarterInv, FilesInv

LEMMA RangeAppends ==
  ASSUME NEW S, NEW s \in Seq(S), NEW x \in S
  PROVE  Range(Append(s, x)) = Range(s) \cup {x}
<1> DEFINE t == Append(s, x)
<1>1. /\ Len(s) \in Nat /\ Len(t) = Len(s) + 1 /\ DOMAIN t = 1..(Len(s) + 1) /\ DOMAIN s = 1..Len(s)
      /\ t[Len(s) + 1] = x /\ \A i \in 1..Len(s) : t[i] = s[i]
  BY AppendProperties
<1> HIDE DEF t
<1>2. \A i \in DOMAIN t : i \in DOMAIN s \/ i = Len(s) + 1
  BY <1>1
<1>3. DOMAIN s \subseteq DOMAIN t /\ Len(s) + 1 \in DOMAIN t
  BY <1>1
<1>4. Range(t) = Range(s) \cup {x}
  BY <1>1, <1>2, <1>3 DEF Range
<1>. QED BY <1>4 DEF t

LEMMA BeginKeeps ==
  ASSUME StarterInv, NEW p \in Starters, BeginInit(p)
  PROVE  StarterInv'
<1> DEFINE r == [at |-> "look", doing |-> 1, lines |-> <<>>, report |-> <<>>, steady |-> settled, alone |-> TRUE]
<1>0. StarterTypes
  BY DEF StarterInv
<1>1. /\ starter[p].at = "resting" /\ UNCHANGED <<project, onDisk, drafts, users, touched, settled>>
      /\ starter' = [starter EXCEPT ![p] = r]
  BY <1>0, BeginIs
<1>2. StarterIs(r)
  BY <1>0 DEF StarterTypes, StarterIs
<1>3. r.at = "look" /\ r.doing = 1 /\ r.report = <<>> /\ r.steady = settled
  OBVIOUS
<1> HIDE DEF r
<1>4. settled' \in BOOLEAN /\ users' = users
  BY <1>0, <1>1 DEF StarterTypes
<1>5. StarterTypes' /\ starter'[p] = r /\ Others(p)
  BY <1>0, <1>1, <1>2, <1>4, SteppedIs
<1>6. \A f : StillAt(f)
  <2> SUFFICES ASSUME NEW f PROVE StillAt(f)
    OBVIOUS
  <2>1. ~WorksAt(p, "open", f) /\ ~WorksAt(p, "fill", f)
    BY <1>1 DEF WorksAt
  <2>. QED BY <1>1, <1>3, <1>5, <2>1, MovedIs
<1>7. FilesInv'
  BY <1>1, <1>6, StillFiles DEF FilesInv
<1>8. RunsInv'
  <2>1. CASE touched # {}
    BY <1>1, <2>1 DEF RunsInv
  <2>2. CASE touched = {}
    <3>1. \A i \in 1..4 : Stays(Artifacts[i]) => Stays(Artifacts[i])'
      BY <1>6, StillIs
    <3>2. \A i \in 1..4 : ~(i < starter'[p].doing)
      BY <1>3, <1>5
    <3>3. Range(<<>>) = {}
      BY WantedIs
    <3>. QED BY <1>1, <1>3, <1>5, <2>2, <3>1, <3>2, <3>3, RunsStep
  <2>. QED BY <2>1, <2>2
<1>. QED BY <1>5, <1>7, <1>8 DEF StarterInv

LEMMA EnsureKeeps ==
  ASSUME StarterInv, NEW p \in Starters, EnsureDir(p)
  PROVE  StarterInv'
<1>0. StarterTypes
  BY DEF StarterInv
<1>1. /\ starter[p].at = "look" /\ starter[p].doing = 1
      /\ IF Exists(".claw/") THEN UNCHANGED onDisk ELSE PutFile(".claw/", <<>>)
      /\ UNCHANGED <<project, inits, drafts, users, touched, settled>>
      /\ Exists(".claw/") => Stepped(p, "look", 2, starter[p].lines, Append(starter[p].report, "skipped"))
      /\ ~Exists(".claw/") => Stepped(p, "look", 2, starter[p].lines, Append(starter[p].report, "created"))
  BY <1>0, EnsureIs
<1>2. PICK status \in {"skipped", "created"} :
        /\ Stepped(p, "look", 2, starter[p].lines, Append(starter[p].report, status))
        /\ Exists(".claw/") => status = "skipped"
  BY <1>1
<1>3. /\ starter[p].report \in Seq(Statuses) /\ Append(starter[p].report, status) \in Seq(Statuses)
      /\ Range(Append(starter[p].report, status)) = Range(starter[p].report) \cup {status}
  <2>1. starter[p].report \in Seq(Statuses) /\ status \in Statuses
    BY <1>0 DEF StarterTypes, StarterIs, Statuses
  <2>. QED BY <2>1, AppendProperties, RangeAppends
<1> DEFINE r == [at |-> "look", doing |-> 2, lines |-> starter[p].lines, report |-> Append(starter[p].report, status),
                 steady |-> starter[p].steady, alone |-> starter[p].alone]
<1>4. /\ starter' = [starter EXCEPT ![p] = r] /\ StarterIs(r) /\ settled' \in BOOLEAN
      /\ r.at = "look" /\ r.doing = 2 /\ r.report = Append(starter[p].report, status) /\ r.steady = starter[p].steady
  BY <1>0, <1>1, <1>2, <1>3 DEF StarterTypes, StarterIs, Stepped
<1> HIDE DEF r
<1>5. StarterTypes' /\ starter'[p] = r /\ Others(p)
  BY <1>0, <1>1, <1>4, SteppedIs
<1>6. \A f : f # ".claw/" => StillAt(f)
  <2> SUFFICES ASSUME NEW f, f # ".claw/" PROVE StillAt(f)
    OBVIOUS
  <2>1. (f \in DOMAIN onDisk' <=> f \in DOMAIN onDisk) /\ (f \in DOMAIN onDisk => onDisk'[f] = onDisk[f])
    BY <1>1, PutIs
  <2>2. ~WorksAt(p, "open", f) /\ ~WorksAt(p, "fill", f)
    BY <1>1 DEF WorksAt
  <2>. QED BY <1>1, <1>4, <1>5, <2>1, <2>2, MovedIs
<1>7. Exists(".claw/") => StillAt(".claw/")
  <2>1. ~WorksAt(p, "open", ".claw/") /\ ~WorksAt(p, "fill", ".claw/")
    BY <1>1 DEF WorksAt
  <2>. QED BY <1>1, <1>4, <1>5, <2>1, MovedIs
<1>8. ~Exists(".claw/") /\ ".claw/" \notin touched => FileInv(".claw/")'
  <2> SUFFICES ASSUME ~Exists(".claw/"), ".claw/" \notin touched PROVE FileInv(".claw/")'
    OBVIOUS
  <2>1. \A q \in Starters : ~WorksAt(q, "open", ".claw/") /\ ~WorksAt(q, "fill", ".claw/")
    BY <1>0, ArtifactsAre DEF StarterTypes, StarterIs, WorksAt, Artifact
  <2>2. \A q \in Starters : ~WorksAt(q, "open", ".claw/")' /\ ~WorksAt(q, "fill", ".claw/")'
    BY <1>5, ArtifactsAre DEF StarterTypes, StarterIs, WorksAt, Artifact
  <2>3. FileInv(".claw/")
    BY ArtifactsAre DEF StarterInv, FilesInv, Names
  <2>4. ".claw/" \notin DOMAIN users
    BY <2>1, <2>3 DEF FileInv, FileIsRight
  <2>5. Right(".claw/", onDisk[".claw/"])'
    BY <1>1, <2>4 DEF Right
  <2>. QED BY <1>1, <2>2, <2>4, <2>5 DEF FileInv, OneWrites, OpenedIsNew, FilledIsRight, FileIsRight, UsersIsLeft
<1>9. FilesInv'
  <2> SUFFICES ASSUME NEW f \in Names, f \notin touched' PROVE FileInv(f)'
    BY DEF FilesInv
  <2>. QED BY <1>1, <1>6, <1>7, <1>8, StillFiles
<1>10. Stays(".claw/")'
  <2>1. Exists(".claw/")'
    BY <1>1, PutIs DEF Exists
  <2>2. \A q \in Starters : ~WorksAt(q, "open", ".claw/")'
    BY <1>5, ArtifactsAre DEF StarterTypes, StarterIs, WorksAt, Artifact
  <2>. QED BY <2>1, <2>2 DEF Stays, IsDone
<1>11. RunsInv'
  <2>1. CASE touched # {}
    BY <1>1, <2>1 DEF RunsInv
  <2>2. CASE touched = {}
    <3>1. \A i \in 1..4 : Stays(Artifacts[i]) => Stays(Artifacts[i])'
      BY <1>6, <1>10, StillIs
    <3>2. \A i \in 1..4 : i < starter'[p].doing => Stays(Artifacts[i])'
      BY <1>4, <1>5, <1>10, ArtifactsAre
    <3>3. starter[p].steady => settled /\ Range(starter[p].report) \subseteq {"skipped"} /\ Exists(".claw/")
      BY <2>2, ArtifactsAre DEF StarterInv, RunsInv, Stays, IsDone
    <3>4. starter'[p].steady => settled' /\ Range(starter'[p].report) \subseteq {"skipped"}
      BY <1>1, <1>2, <1>3, <1>4, <1>5, <3>3
    <3>. QED BY <1>1, <2>2, <1>4, <1>5, <3>1, <3>2, <3>4, RunsStep
  <2>. QED BY <2>1, <2>2
<1>. QED BY <1>5, <1>9, <1>11 DEF StarterInv

LEMMA LookKeeps ==
  ASSUME StarterInv, NEW p \in Starters, LookAt(p)
  PROVE  StarterInv'
<1>0. StarterTypes
  BY DEF StarterInv
<1>1. /\ starter[p].at = "look" /\ starter[p].doing \in 2..4
      /\ UNCHANGED <<project, onDisk, inits, drafts, users>>
      /\ \/ /\ IsDone(Artifact(p)) /\ touched' = touched
            /\ settled' = (settled \/ (Ends(p) /\ starter[p].alone))
            /\ Stepped(p, After(p), starter[p].doing + 1, starter[p].lines, Append(starter[p].report, "skipped"))
         \/ /\ ~IsDone(Artifact(p)) /\ settled' = settled
            /\ touched' = (IF LookedAt(Artifact(p)) = {} THEN touched ELSE touched \cup {Artifact(p)})
            /\ \E status \in {"created", "updated"} :
                 Stepped(p, "open", starter[p].doing, NewLines(Artifact(p)), Append(starter[p].report, status))
  BY <1>0, LookIs
<1>2. PICK a : a = Artifact(p)
  OBVIOUS
<1>3. a = Artifacts[starter[p].doing] /\ a \in Names /\ \A i \in 1..4 : Artifacts[i] = a => i = starter[p].doing
  BY <1>1, <1>2, ArtifactsAre DEF Artifact, Names
<1>4. \A f : ~WorksAt(p, "open", f) /\ ~WorksAt(p, "fill", f)
  BY <1>1 DEF WorksAt
<1>5. ASSUME NEW status \in Statuses
      PROVE  /\ Append(starter[p].report, status) \in Seq(Statuses)
             /\ Range(Append(starter[p].report, status)) = Range(starter[p].report) \cup {status}
  <2>1. starter[p].report \in Seq(Statuses)
    BY <1>0 DEF StarterTypes, StarterIs
  <2>. QED BY <2>1, AppendProperties, RangeAppends
<1>6. ASSUME IsDone(a), touched' = touched, settled' = (settled \/ (Ends(p) /\ starter[p].alone)),
             Stepped(p, After(p), starter[p].doing + 1, starter[p].lines, Append(starter[p].report, "skipped"))
      PROVE  StarterInv'
  <2> DEFINE r == [at |-> After(p), doing |-> starter[p].doing + 1, lines |-> starter[p].lines,
                   report |-> Append(starter[p].report, "skipped"), steady |-> starter[p].steady, alone |-> starter[p].alone]
  <2>1. starter' = [starter EXCEPT ![p] = r]
    BY <1>6 DEF Stepped
  <2>2. Append(starter[p].report, "skipped") \in Seq(Statuses)
    BY <1>5 DEF Statuses
  <2>3. After(p) \in {"resting", "look"} /\ (After(p) = "look" => starter[p].doing + 1 \in 1..4)
    BY <1>1, ArtifactsAre DEF After, Ends
  <2>4. /\ r.at = After(p) /\ r.doing = starter[p].doing + 1 /\ r.report = Append(starter[p].report, "skipped")
        /\ r.steady = starter[p].steady /\ r.alone = starter[p].alone
    OBVIOUS
  <2>5. StarterIs(r)
    BY <1>0, <1>1, <2>2, <2>3 DEF StarterTypes, StarterIs
  <2> HIDE DEF r
  <2>6. settled' \in BOOLEAN /\ users' = users
    BY <1>0, <1>1, <1>6 DEF StarterTypes, StarterIs
  <2>7. StarterTypes' /\ starter'[p] = r /\ Others(p)
    BY <1>0, <2>1, <2>5, <2>6, SteppedIs
  <2>8. \A f : StillAt(f)
    <3> SUFFICES ASSUME NEW f PROVE StillAt(f)
      OBVIOUS
    <3>. QED BY <1>1, <1>4, <2>3, <2>4, <2>7, MovedIs
  <2>9. FilesInv'
    BY <1>6, <2>8, StillFiles DEF FilesInv
  <2>10. RunsInv'
    <3>1. CASE touched # {}
      BY <1>6, <3>1 DEF RunsInv
    <3>2. CASE touched = {}
      <4>1. \A i \in 1..4 : Stays(Artifacts[i]) => Stays(Artifacts[i])'
        BY <2>8, StillIs
      <4>2. Stays(a)
        BY <1>3, <1>6, <3>2, DoneStays DEF StarterInv, FilesInv
      <4>3. starter[p].alone => \A i \in 1..4 : i < starter[p].doing => Stays(Artifacts[i])
        BY <1>1, <3>2 DEF StarterInv, RunsInv
      <4>4. starter[p].alone => \A i \in 1..4 : i < starter[p].doing + 1 => Stays(Artifacts[i])'
        <5> SUFFICES ASSUME starter[p].alone, NEW i \in 1..4, i < starter[p].doing + 1 PROVE Stays(Artifacts[i])
          BY <4>1
        <5>1. i < starter[p].doing \/ i = starter[p].doing
          BY <1>1
        <5>. QED BY <1>3, <4>2, <4>3, <5>1
      <4>5. settled' => settled \/ \A i \in 1..4 : Stays(Artifacts[i])'
        <5>1. Ends(p) => \A i \in 1..4 : i < starter[p].doing + 1
          BY ArtifactsAre DEF Ends
        <5>. QED BY <1>6, <4>4, <5>1
      <4>6. starter[p].steady => settled /\ Range(starter[p].report) \subseteq {"skipped"}
        BY <3>2 DEF StarterInv, RunsInv
      <4>7. Range(Append(starter[p].report, "skipped")) = Range(starter[p].report) \cup {"skipped"}
        BY <1>5 DEF Statuses
      <4>. QED BY <1>6, <2>4, <2>7, <3>2, <4>1, <4>4, <4>5, <4>6, <4>7, RunsStep
    <3>. QED BY <3>1, <3>2
  <2>. QED BY <2>7, <2>9, <2>10 DEF StarterInv
<1>7. ASSUME ~IsDone(a), settled' = settled, touched' = (IF LookedAt(a) = {} THEN touched ELSE touched \cup {a}),
             NEW status \in {"created", "updated"},
             Stepped(p, "open", starter[p].doing, NewLines(a), Append(starter[p].report, status))
      PROVE  StarterInv'
  <2> DEFINE r == [at |-> "open", doing |-> starter[p].doing, lines |-> NewLines(a),
                   report |-> Append(starter[p].report, status), steady |-> starter[p].steady, alone |-> starter[p].alone]
  <2>1. starter' = [starter EXCEPT ![p] = r]
    BY <1>7 DEF Stepped
  <2>2. Append(starter[p].report, status) \in Seq(Statuses)
    BY <1>5 DEF Statuses
  <2>4. /\ r.at = "open" /\ r.doing = starter[p].doing /\ r.lines = NewLines(a)
        /\ r.steady = starter[p].steady /\ r.alone = starter[p].alone
    OBVIOUS
  <2>5. StarterIs(r)
    BY <1>0, <1>1, <2>2 DEF StarterTypes, StarterIs
  <2> HIDE DEF r
  <2>6. settled' \in BOOLEAN /\ users' = users
    BY <1>0, <1>1, <1>7 DEF StarterTypes
  <2>7. StarterTypes' /\ starter'[p] = r /\ Others(p)
    BY <1>0, <2>1, <2>5, <2>6, SteppedIs
  <2>8. \A f : f # a => StillAt(f)
    <3> SUFFICES ASSUME NEW f, f # a PROVE StillAt(f)
      OBVIOUS
    <3>. QED BY <1>1, <1>3, <1>4, <2>4, <2>7, MovedIs
  <2>9. a \notin touched' => FileInv(a)'
    <3> SUFFICES ASSUME a \notin touched' PROVE FileInv(a)'
      OBVIOUS
    <3>1. LookedAt(a) = {} /\ a \notin touched
      BY <1>7
    <3>2. \A q \in Starters : ~WorksAt(q, "open", a) /\ ~WorksAt(q, "fill", a)
      BY <3>1 DEF LookedAt, WorksAt
    <3>3. FileInv(a)
      BY <1>3, <3>1 DEF StarterInv, FilesInv
    <3>4. (a \in DOMAIN users => Exists(a)) /\ (Exists(a) => Right(a, onDisk[a]))
      BY <3>2, <3>3 DEF FileInv, FileIsRight
    <3>5. a \in DOMAIN users => a = ".gitignore"
      BY <1>0, <1>7, <3>4, NewIsRight
    <3>6. \A q \in Starters : ~WorksAt(q, "fill", a)' /\ (WorksAt(q, "open", a)' => q = p)
      BY <2>4, <2>7, <3>2 DEF WorksAt, Artifact, Others
    <3>7. OpenedIsNew(a)'
      <4>1. NewLines(a)' = NewLines(a) /\ (IsDone(a)' <=> IsDone(a))
        BY <1>1 DEF NewLines, IsDone, Exists
      <4>. QED BY <1>7, <2>4, <2>7, <3>6, <4>1 DEF OpenedIsNew
    <3>8. FileIsRight(a)'
      BY <1>1, <3>4 DEF FileIsRight, Exists, Right, Base
    <3>9. UsersIsLeft(a)'
      BY <1>1, <3>5 DEF UsersIsLeft
    <3>. QED BY <3>6, <3>7, <3>8, <3>9 DEF FileInv, OneWrites, FilledIsRight
  <2>10. FilesInv'
    <3> SUFFICES ASSUME NEW f \in Names, f \notin touched' PROVE FileInv(f)'
      BY DEF FilesInv
    <3>. QED BY <1>7, <2>8, <2>9, StillFiles
  <2>11. RunsInv'
    <3>1. CASE touched' # {}
      BY <3>1 DEF RunsInv
    <3>2. CASE touched' = {}
      <4>0. touched = {}
        BY <1>7, <3>2
      <4>1. \A i \in 1..4 : Stays(Artifacts[i]) => Stays(Artifacts[i])'
        BY <1>7, <2>8, StillIs DEF Stays
      <4>2. ~settled
        BY <1>1, <1>3, <1>7, <4>0 DEF StarterInv, RunsInv, Stays
      <4>3. starter[p].alone => \A i \in 1..4 : i < starter[p].doing => Stays(Artifacts[i])
        BY <1>1, <4>0 DEF StarterInv, RunsInv
      <4>4. ~starter[p].steady
        BY <4>0, <4>2 DEF StarterInv, RunsInv
      <4>. QED BY <1>7, <2>4, <2>7, <4>0, <4>1, <4>2, <4>3, <4>4, RunsStep
    <3>. QED BY <3>1, <3>2
  <2>. QED BY <2>7, <2>10, <2>11 DEF StarterInv
<1>. QED BY <1>1, <1>2, <1>6, <1>7

LEMMA OpenKeeps ==
  ASSUME StarterInv, NEW p \in Starters, OpenFile(p)
  PROVE  StarterInv'
<1>0. StarterTypes
  BY DEF StarterInv
<1>1. /\ starter[p].at = "open" /\ starter[p].doing \in 2..4 /\ PutFile(Artifact(p), <<>>)
      /\ UNCHANGED <<project, inits, drafts, users, touched, settled>>
      /\ Stepped(p, "fill", starter[p].doing, starter[p].lines, starter[p].report)
  BY <1>0, OpenIs
<1>2. PICK a : a = Artifact(p)
  OBVIOUS
<1>3. a = Artifacts[starter[p].doing] /\ a \in Names
  BY <1>1, <1>2, ArtifactsAre DEF Artifact, Names
<1> DEFINE r == [at |-> "fill", doing |-> starter[p].doing, lines |-> starter[p].lines, report |-> starter[p].report,
                 steady |-> starter[p].steady, alone |-> starter[p].alone]
<1>4. /\ starter' = [starter EXCEPT ![p] = r] /\ StarterIs(r) /\ settled' \in BOOLEAN
      /\ r.at = "fill" /\ r.doing = starter[p].doing /\ r.lines = starter[p].lines /\ r.report = starter[p].report
      /\ r.steady = starter[p].steady /\ r.alone = starter[p].alone
  BY <1>0, <1>1 DEF StarterTypes, StarterIs, Stepped
<1> HIDE DEF r
<1>5. StarterTypes' /\ starter'[p] = r /\ Others(p)
  BY <1>0, <1>1, <1>4, SteppedIs
<1>6. /\ a \in DOMAIN onDisk' /\ onDisk'[a] = <<>>
      /\ \A f : f # a => (f \in DOMAIN onDisk' <=> f \in DOMAIN onDisk) /\ (f \in DOMAIN onDisk => onDisk'[f] = onDisk[f])
  BY <1>1, <1>2, PutIs
<1>7. \A f : f # a => StillAt(f)
  <2> SUFFICES ASSUME NEW f, f # a PROVE StillAt(f)
    OBVIOUS
  <2>1. ~WorksAt(p, "open", f) /\ ~WorksAt(p, "fill", f)
    BY <1>2 DEF WorksAt
  <2>. QED BY <1>1, <1>3, <1>4, <1>5, <1>6, <2>1, MovedIs
<1>8. a \notin touched => FileInv(a) /\ ~IsDone(a)
  BY <1>1, <1>2, <1>3 DEF StarterInv, FilesInv, FileInv, OpenedIsNew, WorksAt
<1>9. a \notin touched => FileInv(a)'
  <2> SUFFICES ASSUME a \notin touched PROVE FileInv(a)'
    OBVIOUS
  <2>1. WorksAt(p, "open", a) /\ FileInv(a)
    BY <1>1, <1>2, <1>8 DEF WorksAt
  <2>2. \A q \in Starters : WorksAt(q, "open", a) \/ WorksAt(q, "fill", a) => q = p
    BY <2>1 DEF FileInv, OneWrites
  <2>3. \A q \in Starters : ~WorksAt(q, "fill", a)
    BY <1>1, <2>2 DEF WorksAt
  <2>4. starter[p].lines = NewLines(a)
    BY <2>1 DEF FileInv, OpenedIsNew
  <2>5. (a \in DOMAIN users => Exists(a)) /\ (Exists(a) => Right(a, onDisk[a]))
    BY <2>1, <2>3 DEF FileInv, FileIsRight
  <2>6. /\ Right(a, NewLines(a)) /\ (a = ".gitignore" => Range(Wanted) \subseteq Range(NewLines(a)))
        /\ a \in DOMAIN users => a = ".gitignore"
    BY <1>0, <1>8, <2>5, NewIsRight
  <2>7. \A q \in Starters : ~WorksAt(q, "open", a)' /\ (WorksAt(q, "fill", a)' => q = p)
    BY <1>4, <1>5, <2>2 DEF WorksAt, Artifact, Others
  <2>8. FilledIsRight(a)'
    <3> SUFFICES ASSUME NEW q \in Starters, WorksAt(q, "fill", a)'
                 PROVE  /\ Exists(a)' /\ Right(a, starter[q].lines)'
                        /\ a = ".gitignore" => onDisk'[a] = <<>> /\ Range(Wanted) \subseteq Range(starter'[q].lines)
      BY DEF FilledIsRight
    <3>1. q = p /\ starter'[q].lines = NewLines(a)
      BY <1>4, <1>5, <2>4, <2>7
    <3>2. Right(a, starter[q].lines)'
      BY <1>1, <2>6, <3>1 DEF Right, Base
    <3>3. Exists(a)'
      BY <1>6 DEF Exists
    <3>. QED BY <1>6, <2>6, <3>1, <3>2, <3>3
  <2>9. FileIsRight(a)'
    <3>1. WorksAt(p, "fill", a)'
      BY <1>2, <1>4, <1>5 DEF WorksAt, Artifact
    <3>. QED BY <3>1 DEF FileIsRight
  <2>10. UsersIsLeft(a)'
    BY <1>1, <2>6 DEF UsersIsLeft
  <2>11. OneWrites(a)' /\ OpenedIsNew(a)'
    BY <2>7 DEF OneWrites, OpenedIsNew
  <2>. QED BY <2>8, <2>9, <2>10, <2>11 DEF FileInv
<1>10. FilesInv'
  <2> SUFFICES ASSUME NEW f \in Names, f \notin touched' PROVE FileInv(f)'
    BY DEF FilesInv
  <2>. QED BY <1>1, <1>7, <1>9, StillFiles
<1>11. RunsInv'
  <2>1. CASE touched # {}
    BY <1>1, <2>1 DEF RunsInv
  <2>2. CASE touched = {}
    <3>1. \A i \in 1..4 : Stays(Artifacts[i]) => Stays(Artifacts[i])'
      BY <1>7, <1>8, <2>2, StillIs DEF Stays
    <3>2. starter[p].alone => \A i \in 1..4 : i < starter[p].doing => Stays(Artifacts[i])
      BY <1>1, <2>2 DEF StarterInv, RunsInv
    <3>3. starter[p].steady => settled /\ Range(starter[p].report) \subseteq {"skipped"}
      BY <2>2 DEF StarterInv, RunsInv
    <3>. QED BY <1>1, <1>4, <1>5, <2>2, <3>1, <3>2, <3>3, RunsStep
  <2>. QED BY <2>1, <2>2
<1>. QED BY <1>5, <1>10, <1>11 DEF StarterInv

LEMMA FillKeeps ==
  ASSUME StarterInv, NEW p \in Starters, FillFile(p)
  PROVE  StarterInv'
<1>0. StarterTypes
  BY DEF StarterInv
<1>1. /\ starter[p].at = "fill" /\ starter[p].doing \in 2..4 /\ PutFile(Artifact(p), starter[p].lines)
      /\ UNCHANGED <<project, inits, drafts, users, touched>>
      /\ settled' = (settled \/ (Ends(p) /\ starter[p].alone))
      /\ Stepped(p, After(p), starter[p].doing + 1, <<>>, starter[p].report)
  BY <1>0, FillIs
<1>2. PICK a, l : a = Artifact(p) /\ l = starter[p].lines
  OBVIOUS
<1>3. a = Artifacts[starter[p].doing] /\ a \in Names /\ \A i \in 1..4 : i = starter[p].doing => Artifacts[i] = a
  BY <1>1, <1>2, ArtifactsAre DEF Artifact, Names
<1> DEFINE r == [at |-> After(p), doing |-> starter[p].doing + 1, lines |-> <<>>, report |-> starter[p].report,
                 steady |-> starter[p].steady, alone |-> starter[p].alone]
<1>a. After(p) \in {"resting", "look"} /\ (After(p) = "look" => starter[p].doing + 1 \in 1..4)
  BY <1>1, ArtifactsAre DEF After, Ends
<1>4. /\ starter' = [starter EXCEPT ![p] = r] /\ StarterIs(r) /\ settled' \in BOOLEAN
      /\ r.at \notin {"open", "fill"} /\ r.doing = starter[p].doing + 1 /\ r.report = starter[p].report
      /\ r.steady = starter[p].steady /\ r.alone = starter[p].alone
  BY <1>0, <1>1, <1>a DEF StarterTypes, StarterIs, Stepped
<1> HIDE DEF r
<1>5. StarterTypes' /\ starter'[p] = r /\ Others(p)
  BY <1>0, <1>1, <1>4, SteppedIs
<1>6. /\ a \in DOMAIN onDisk' /\ onDisk'[a] = l
      /\ \A f : f # a => (f \in DOMAIN onDisk' <=> f \in DOMAIN onDisk) /\ (f \in DOMAIN onDisk => onDisk'[f] = onDisk[f])
  BY <1>1, <1>2, PutIs
<1>7. \A f : f # a => StillAt(f)
  <2> SUFFICES ASSUME NEW f, f # a PROVE StillAt(f)
    OBVIOUS
  <2>1. ~WorksAt(p, "open", f) /\ ~WorksAt(p, "fill", f)
    BY <1>2 DEF WorksAt
  <2>. QED BY <1>1, <1>4, <1>5, <1>6, <2>1, MovedIs
<1>8. ASSUME a \notin touched
      PROVE  /\ FileInv(a)' /\ IsDone(a)'
             /\ \A q \in Starters : ~WorksAt(q, "open", a)' /\ ~WorksAt(q, "fill", a)'
  <2>1. WorksAt(p, "fill", a) /\ FileInv(a)
    BY <1>1, <1>2, <1>3, <1>8 DEF StarterInv, FilesInv, WorksAt
  <2>2. \A q \in Starters : WorksAt(q, "open", a) \/ WorksAt(q, "fill", a) => q = p
    BY <2>1 DEF FileInv, OneWrites
  <2>3. \A q \in Starters : ~WorksAt(q, "open", a)' /\ ~WorksAt(q, "fill", a)'
    BY <1>4, <1>5, <2>2 DEF WorksAt, Artifact, Others
  <2>4. Right(a, l) /\ (a = ".gitignore" => Range(Wanted) \subseteq Range(l))
    BY <1>2, <2>1 DEF FileInv, FilledIsRight
  <2>5. Right(a, onDisk[a])' /\ Exists(a)'
    BY <1>1, <1>6, <2>4 DEF Right, Base, Exists
  <2>6. IsDone(a)'
    <3>1. CASE a = ".gitignore"
      <4>1. WithWanted(l) = l
        BY <1>0, <2>4, <3>1, BaseIs, WithWantedIs DEF Right
      <4>2. NewLines(".gitignore")' = WithWanted(l)
        BY <1>6, <3>1 DEF NewLines, Exists
      <4>. QED BY <1>6, <2>5, <3>1, <4>1, <4>2 DEF IsDone
    <3>2. CASE a # ".gitignore"
      BY <2>5, <3>2 DEF IsDone
    <3>. QED BY <3>1, <3>2
  <2>. QED BY <2>3, <2>5, <2>6 DEF FileInv, OneWrites, OpenedIsNew, FilledIsRight, FileIsRight, UsersIsLeft
<1>9. FilesInv'
  <2> SUFFICES ASSUME NEW f \in Names, f \notin touched' PROVE FileInv(f)'
    BY DEF FilesInv
  <2>. QED BY <1>1, <1>7, <1>8, StillFiles
<1>10. RunsInv'
  <2>1. CASE touched # {}
    BY <1>1, <2>1 DEF RunsInv
  <2>2. CASE touched = {}
    <3>1. Stays(a)'
      BY <1>8, <2>2 DEF Stays
    <3>2. \A i \in 1..4 : Stays(Artifacts[i]) => Stays(Artifacts[i])'
      BY <1>7, <3>1, StillIs
    <3>3. starter[p].alone => \A i \in 1..4 : i < starter[p].doing => Stays(Artifacts[i])
      BY <1>1, <2>2 DEF StarterInv, RunsInv
    <3>4. starter[p].alone => \A i \in 1..4 : i < starter[p].doing + 1 => Stays(Artifacts[i])'
      <4> SUFFICES ASSUME starter[p].alone, NEW i \in 1..4, i < starter[p].doing + 1 PROVE Stays(Artifacts[i])'
        OBVIOUS
      <4>1. i < starter[p].doing \/ i = starter[p].doing
        BY <1>1
      <4>. QED BY <1>3, <3>1, <3>2, <3>3, <4>1
    <3>5. settled' => settled \/ \A i \in 1..4 : Stays(Artifacts[i])'
      <4>1. Ends(p) => \A i \in 1..4 : i < starter[p].doing + 1
        BY ArtifactsAre DEF Ends
      <4>. QED BY <1>1, <3>4, <4>1
    <3>6. starter[p].steady => settled /\ Range(starter[p].report) \subseteq {"skipped"}
      BY <2>2 DEF StarterInv, RunsInv
    <3>. QED BY <1>1, <1>4, <1>5, <2>2, <3>2, <3>4, <3>5, <3>6, RunsStep
  <2>. QED BY <2>1, <2>2
<1>. QED BY <1>5, <1>9, <1>10 DEF StarterInv

LEMMA GiveUpKeeps ==
  ASSUME StarterInv, NEW p \in Starters, GiveUp(p)
  PROVE  StarterInv'
<1>0. StarterTypes
  BY DEF StarterInv
<1>1. /\ starter[p].at # "resting" /\ starter' = [starter EXCEPT ![p] = Unstarted]
      /\ touched' = (IF starter[p].at = "fill" THEN touched \cup {Artifact(p)} ELSE touched)
      /\ settled' = (IF starter[p].at = "fill" THEN FALSE ELSE settled)
      /\ UNCHANGED <<project, onDisk, inits, drafts, users>>
  BY DEF GiveUp, StarterAt
<1>2. PICK a : a = Artifact(p)
  OBVIOUS
<1>3. Unstarted.at = "resting" /\ ~Unstarted.steady /\ StarterIs(Unstarted)
  BY DEF Unstarted, StarterIs
<1>4. settled' \in BOOLEAN /\ users' = users
  BY <1>0, <1>1 DEF StarterTypes
<1>5. StarterTypes' /\ starter'[p] = Unstarted /\ Others(p)
  BY <1>0, <1>1, <1>3, <1>4, SteppedIs
<1>6. \A f : f # a \/ starter[p].at = "look" => StillAt(f)
  <2> SUFFICES ASSUME NEW f, f # a \/ starter[p].at = "look" PROVE StillAt(f)
    OBVIOUS
  <2>1. ~WorksAt(p, "open", f) /\ ~WorksAt(p, "fill", f)
    BY <1>2 DEF WorksAt
  <2>. QED BY <1>1, <1>3, <1>5, <2>1, MovedIs
<1>7. starter[p].at \in {"look", "open", "fill"}
  BY <1>0, <1>1 DEF StarterTypes, StarterIs
<1>8. ASSUME starter[p].at = "open", a \in Names, a \notin touched
      PROVE  FileInv(a)' /\ ~IsDone(a)
  <2>1. WorksAt(p, "open", a) /\ FileInv(a)
    BY <1>2, <1>8 DEF StarterInv, FilesInv, WorksAt
  <2>2. \A q \in Starters : WorksAt(q, "open", a) \/ WorksAt(q, "fill", a) => q = p
    BY <2>1 DEF FileInv, OneWrites
  <2>3. \A q \in Starters : ~WorksAt(q, "fill", a)
    BY <1>8, <2>2 DEF WorksAt
  <2>4. \A q \in Starters : ~WorksAt(q, "open", a)' /\ ~WorksAt(q, "fill", a)'
    BY <1>3, <1>5, <2>2 DEF WorksAt, Others, Artifact
  <2>5. FileIsRight(a)'
    BY <1>1, <2>1, <2>3 DEF FileInv, FileIsRight, Right, Base, Exists
  <2>6. ~IsDone(a)
    BY <2>1 DEF FileInv, OpenedIsNew
  <2>. QED BY <2>4, <2>5, <2>6 DEF FileInv, OneWrites, OpenedIsNew, FilledIsRight, UsersIsLeft
<1>9. FilesInv'
  <2> SUFFICES ASSUME NEW f \in Names, f \notin touched' PROVE FileInv(f)'
    BY DEF FilesInv
  <2>1. CASE StillAt(f)
    BY <1>1, <2>1, StillFiles
  <2>2. CASE ~StillAt(f)
    BY <1>1, <1>2, <1>6, <1>7, <1>8, <2>2
  <2>. QED BY <2>1, <2>2
<1>10. RunsInv'
  <2>1. CASE touched' # {}
    BY <2>1 DEF RunsInv
  <2>2. CASE touched' = {}
    <3>1. touched = {} /\ starter[p].at # "fill" /\ settled' = settled
      BY <1>1, <2>2
    <3>2. ASSUME NEW i \in 1..4, Stays(Artifacts[i]) PROVE Stays(Artifacts[i])'
      <4>1. Artifacts[i] \in Names
        <5>1. i = 1 \/ i = 2 \/ i = 3 \/ i = 4
          OBVIOUS
        <5>. QED BY <5>1 DEF Names
      <4>2. StillAt(Artifacts[i])
        BY <1>6, <1>7, <1>8, <3>1, <3>2, <4>1 DEF Stays
      <4>. QED BY <3>2, <4>2, StillIs
    <3>. QED BY <1>3, <1>5, <3>1, <3>2, RunsStep
  <2>. QED BY <2>1, <2>2
<1>. QED BY <1>5, <1>9, <1>10 DEF StarterInv

LEMMA DraftKeeps ==
  ASSUME StarterInv, NEW draft \in DOMAIN Drafts, WriteDraft(draft)
  PROVE  StarterInv'
<1>0. StarterTypes
  BY DEF StarterInv
<1>1. /\ project' = project /\ PutFile(draft, Drafts[draft])
      /\ users' = [f \in DOMAIN users \cup {draft} |-> IF f = draft THEN Drafts[f] ELSE users[f]]
      /\ touched' = (IF LookedAt(draft) = {} THEN touched \ {draft} ELSE touched \cup {draft})
      /\ settled' = FALSE
      /\ starter' = [p \in Starters |-> [starter[p] EXCEPT !.steady = FALSE, !.alone = FALSE]]
  BY DEF WriteDraft
<1>2. ASSUME NEW p \in Starters
      PROVE  /\ StarterIs(starter'[p]) /\ ~starter'[p].steady /\ ~starter'[p].alone
             /\ starter'[p].at = starter[p].at /\ starter'[p].doing = starter[p].doing /\ starter'[p].lines = starter[p].lines
  <2> DEFINE no == FALSE
             x == starter[p]
             y == [x EXCEPT !.steady = no]
             z == [y EXCEPT !.alone = no]
  <2>1. x = [at |-> x.at, doing |-> x.doing, lines |-> x.lines, report |-> x.report, steady |-> x.steady, alone |-> x.alone]
    BY <1>0, StarterFields
  <2>2. starter'[p] = z
    BY <1>1
  <2>3. StarterIs(x)
    BY <1>0 DEF StarterTypes
  <2> HIDE DEF no, x
  <2>4. y = [at |-> x.at, doing |-> x.doing, lines |-> x.lines, report |-> x.report, steady |-> no, alone |-> x.alone]
    BY <2>1
  <2> HIDE DEF y
  <2>5. z = [at |-> x.at, doing |-> x.doing, lines |-> x.lines, report |-> x.report, steady |-> no, alone |-> no]
    BY <2>4
  <2> HIDE DEF z
  <2>6. StarterIs(z) /\ ~z.steady /\ ~z.alone /\ z.at = x.at /\ z.doing = x.doing /\ z.lines = x.lines
    BY <2>3, <2>5 DEF StarterIs, no
  <2>. QED BY <2>2, <2>6 DEF x
<1>3. /\ draft \in DOMAIN users' /\ users'[draft] = Drafts[draft] /\ DOMAIN users' = DOMAIN users \cup {draft}
      /\ \A f : f # draft => (f \in DOMAIN users' <=> f \in DOMAIN users) /\ (f \in DOMAIN users => users'[f] = users[f])
  BY <1>1
<1>4. /\ draft \in DOMAIN onDisk' /\ onDisk'[draft] = Drafts[draft]
      /\ \A f : f # draft => (f \in DOMAIN onDisk' <=> f \in DOMAIN onDisk) /\ (f \in DOMAIN onDisk => onDisk'[f] = onDisk[f])
  BY <1>1, PutIs
<1>5. Drafts[draft] \in Seq(ALine)
  <2>1. Drafts[draft] \in Seq(STRING)
    BY DraftsAssumption
  <2>. QED BY <2>1, LinesAre
<1>6. StarterTypes'
  <2>1. starter' = [p \in Starters |-> starter'[p]]
    BY <1>1
  <2>2. settled' \in BOOLEAN /\ DOMAIN users' \subseteq DOMAIN Drafts
    BY <1>0, <1>1, <1>3 DEF StarterTypes
  <2>3. ".gitignore" \in DOMAIN users' => users'[".gitignore"] \in Seq(ALine)
    BY <1>0, <1>3, <1>5 DEF StarterTypes
  <2>. QED BY <1>2, <2>1, <2>2, <2>3 DEF StarterTypes
<1>7. \A f : f # draft => StillAt(f)
  <2> SUFFICES ASSUME NEW f, f # draft PROVE StillAt(f)
    OBVIOUS
  <2>1. \A p \in Starters : (WorksAt(p, "open", f)' <=> WorksAt(p, "open", f)) /\ (WorksAt(p, "fill", f)' <=> WorksAt(p, "fill", f))
    BY <1>2 DEF WorksAt, Artifact
  <2>. QED BY <1>1, <1>2, <1>3, <1>4, <2>1 DEF StillAt
<1>8. LookedAt(draft) = {} => FileInv(draft)'
  <2> SUFFICES ASSUME LookedAt(draft) = {} PROVE FileInv(draft)'
    OBVIOUS
  <2>1. \A p \in Starters : ~WorksAt(p, "open", draft) /\ ~WorksAt(p, "fill", draft)
    BY DEF LookedAt, WorksAt
  <2>2. \A p \in Starters : ~WorksAt(p, "open", draft)' /\ ~WorksAt(p, "fill", draft)'
    BY <1>2, <2>1 DEF WorksAt, Artifact
  <2>3. Right(draft, onDisk[draft])' /\ Exists(draft)'
    <3>1. CASE draft = ".gitignore"
      <4>1. Base' = Drafts[draft]
        BY <1>3, <3>1 DEF Base
      <4>2. Extends(Drafts[draft], Drafts[draft])
        BY <1>5 DEF Extends, Begins
      <4>. QED BY <1>3, <1>4, <1>5, <3>1, <4>1, <4>2 DEF Right, Exists
    <3>2. CASE draft # ".gitignore"
      BY <1>3, <1>4, <3>2 DEF Right, Exists
    <3>. QED BY <3>1, <3>2
  <2>. QED BY <2>2, <2>3 DEF FileInv, OneWrites, OpenedIsNew, FilledIsRight, FileIsRight, UsersIsLeft
<1>9. FilesInv'
  <2> SUFFICES ASSUME NEW f \in Names, f \notin touched' PROVE FileInv(f)'
    BY DEF FilesInv
  <2>1. CASE f = draft
    BY <1>1, <1>8, <2>1
  <2>2. CASE f # draft
    BY <1>1, <1>7, <2>2, StillIs DEF StarterInv, FilesInv
  <2>. QED BY <2>1, <2>2
<1>10. RunsInv'
  BY <1>1, <1>2 DEF RunsInv
<1>. QED BY <1>6, <1>9, <1>10 DEF StarterInv

LEMMA StarterStarts ==
  ASSUME StarterInit PROVE StarterInv
<1>1. PICK old \in SUBSET DOMAIN Drafts : onDisk = [f \in old |-> Drafts[f]]
  BY DEF StarterInit
<1>2. users = onDisk /\ starter = [p \in Starters |-> Unstarted] /\ touched = {} /\ settled = FALSE
  BY DEF StarterInit
<1>3. Unstarted.at = "resting" /\ ~Unstarted.steady /\ StarterIs(Unstarted)
  BY DEF Unstarted, StarterIs
<1>4. \A f \in DOMAIN users : users[f] \in Seq(ALine) /\ f \in DOMAIN Drafts /\ f \in DOMAIN onDisk /\ onDisk[f] = users[f]
  <2> SUFFICES ASSUME NEW f \in DOMAIN users
               PROVE  users[f] \in Seq(ALine) /\ f \in DOMAIN Drafts /\ f \in DOMAIN onDisk /\ onDisk[f] = users[f]
    OBVIOUS
  <2>1. f \in DOMAIN Drafts /\ users[f] = Drafts[f] /\ f \in DOMAIN onDisk /\ onDisk[f] = users[f]
    BY <1>1, <1>2
  <2>2. Drafts[f] \in Seq(STRING)
    BY <2>1, DraftsAssumption
  <2>. QED BY <2>1, <2>2, LinesAre
<1>5. StarterTypes
  BY <1>2, <1>3, <1>4 DEF StarterTypes
<1>6. FilesInv
  <2> SUFFICES ASSUME NEW f \in Names PROVE FileInv(f)
    BY DEF FilesInv
  <2>1. \A p \in Starters : ~WorksAt(p, "open", f) /\ ~WorksAt(p, "fill", f)
    BY <1>2, <1>3 DEF WorksAt
  <2>2. f \in DOMAIN users => Exists(f)
    BY <1>4 DEF Exists
  <2>3. Exists(f) => Right(f, onDisk[f])
    <3>1. CASE f = ".gitignore"
      <4>1. Exists(f) => Base = onDisk[f] /\ f \in DOMAIN users
        BY <1>2, <3>1 DEF Base, Exists
      <4>2. Exists(f) => onDisk[f] \in Seq(ALine) /\ Extends(onDisk[f], onDisk[f])
        BY <1>4, <4>1 DEF Extends, Begins
      <4>. QED BY <3>1, <4>1, <4>2 DEF Right
    <3>2. CASE f # ".gitignore"
      BY <1>2, <3>2 DEF Right, Exists
    <3>. QED BY <3>1, <3>2
  <2>. QED BY <2>1, <2>2, <2>3 DEF FileInv, OneWrites, OpenedIsNew, FilledIsRight, FileIsRight, UsersIsLeft
<1>7. RunsInv
  BY <1>2, <1>3 DEF RunsInv
<1>. QED BY <1>5, <1>6, <1>7 DEF StarterInv

LEMMA StarterSteps ==
  ASSUME StarterInv, [StarterNext]_initVars PROVE StarterInv'
<1>1. CASE UNCHANGED initVars
  <2>1. StarterTypes'
    BY <1>1 DEF StarterInv, StarterTypes, initVars
  <2>2. \A f : StillAt(f)
    BY <1>1 DEF StillAt, initVars, WorksAt, Artifact
  <2>3. FilesInv'
    BY <1>1, <2>2, StillIs DEF StarterInv, FilesInv, initVars
  <2>4. RunsInv'
    BY <1>1, <2>2, StillIs DEF StarterInv, RunsInv, initVars
  <2>. QED BY <2>1, <2>3, <2>4 DEF StarterInv
<1>2. ASSUME NEW p \in Starters, BeginInit(p) \/ EnsureDir(p) \/ LookAt(p) \/ OpenFile(p) \/ FillFile(p) \/ GiveUp(p)
      PROVE  StarterInv'
  BY <1>2, BeginKeeps, EnsureKeeps, LookKeeps, OpenKeeps, FillKeeps, GiveUpKeeps
<1>3. ASSUME NEW draft \in DOMAIN Drafts, WriteDraft(draft) PROVE StarterInv'
  BY <1>3, DraftKeeps
<1>. QED BY <1>1, <1>2, <1>3 DEF StarterNext

LEMMA InvKeepsFiles ==
  ASSUME StarterInv PROVE FilesAreKept
<1>0. StarterTypes
  BY DEF StarterInv
<1>1. ASSUME NEW f \in DOMAIN users \ touched
      PROVE  IF f = ".gitignore" THEN Filling(f) \/ IsPrefix(users[f], onDisk[f]) ELSE onDisk[f] = users[f]
  <2>1. FileInv(f)
    BY <1>0 DEF StarterTypes, StarterInv, FilesInv, Names
  <2>2. CASE f = ".gitignore"
    <3> SUFFICES ASSUME ~Filling(f) PROVE IsPrefix(users[f], onDisk[f])
      BY <2>2
    <3>1. \A p \in Starters : ~WorksAt(p, "fill", f)
      BY DEF Filling, WorksAt, StarterAt
    <3>2. Right(f, onDisk[f]) /\ Base = users[f]
      BY <2>1, <2>2, <3>1 DEF FileInv, FileIsRight, Base
    <3>3. users[f] \in Seq(ALine) /\ onDisk[f] \in Seq(ALine) /\ Begins(users[f], onDisk[f])
      BY <1>0, <2>2, <3>2, BaseIs DEF Right, Extends
    <3>. QED BY <3>3, BeginsIsPrefix
  <2>3. CASE f # ".gitignore"
    BY <2>1, <2>3 DEF FileInv, FileIsRight, UsersIsLeft, Right
  <2>. QED BY <2>2, <2>3
<1>2. ASSUME NEW p \in Starters, starter[p].steady, touched = {} PROVE Range(starter[p].report) \subseteq {"skipped"}
  BY <1>2 DEF StarterInv, RunsInv
<1>3. ASSUME settled, touched = {}
      PROVE  /\ Range(Artifacts) \subseteq DOMAIN onDisk
             /\ ".gitignore" \notin DOMAIN users => onDisk[".gitignore"] = Wanted
             /\ Range(Wanted) \subseteq Range(onDisk[".gitignore"])
             /\ \A i, j \in DOMAIN onDisk[".gitignore"] :
                  i < j /\ onDisk[".gitignore"][i] = onDisk[".gitignore"][j] =>
                    ".gitignore" \in DOMAIN users /\ j <= Len(users[".gitignore"])
  <2>1. \A i \in 1..4 : Stays(Artifacts[i])
    BY <1>3 DEF StarterInv, RunsInv
  <2>2. Range(Artifacts) \subseteq DOMAIN onDisk
    BY <2>1 DEF Stays, IsDone, Exists, Range, Artifacts
  <2>3. Stays(".gitignore")
    BY <2>1, ArtifactsAre
  <2>4. FileInv(".gitignore")
    BY <1>3, ArtifactsAre DEF StarterInv, FilesInv, Names
  <2>5. Right(".gitignore", onDisk[".gitignore"]) /\ Exists(".gitignore")
    BY <2>3, <2>4 DEF Stays, IsDone, FileInv, FileIsRight
  <2> DEFINE l == onDisk[".gitignore"]
  <2>6. l \in Seq(ALine) /\ Extends(Base, l) /\ (".gitignore" \notin DOMAIN users => l = Wanted)
    BY <2>5 DEF Right
  <2>7. WithWanted(l) = l
    BY <2>3, <2>5 DEF Stays, IsDone, NewLines
  <2> HIDE DEF l
  <2>8. Range(Wanted) \subseteq Range(l)
    BY <1>0, <2>6, <2>7, BaseIs, WithWantedIs
  <2>9. ASSUME NEW i \in DOMAIN l, NEW j \in DOMAIN l, i < j, l[i] = l[j]
        PROVE  ".gitignore" \in DOMAIN users /\ j <= Len(users[".gitignore"])
    <3>1. j <= Len(Base)
      BY <2>6, <2>9 DEF Extends
    <3>2. j \in 1..Len(l) /\ Len(l) \in Nat
      BY <2>6
    <3>3. ".gitignore" \notin DOMAIN users => Len(Base) = 0
      BY DEF Base
    <3>4. ".gitignore" \in DOMAIN users
      BY <3>1, <3>2, <3>3
    <3>. QED BY <3>1, <3>4 DEF Base
  <2>. QED BY <2>2, <2>6, <2>8, <2>9 DEF l
<1>4. ASSUME "CLAW.md" \in DOMAIN onDisk, "CLAW.md" \notin DOMAIN users \cup touched
      PROVE  Filling("CLAW.md") \/ onDisk["CLAW.md"] = Guide(project)
  <2> SUFFICES ASSUME ~Filling("CLAW.md") PROVE onDisk["CLAW.md"] = Guide(project)
    OBVIOUS
  <2>1. FileInv("CLAW.md")
    BY <1>4, ArtifactsAre DEF StarterInv, FilesInv, Names
  <2>2. \A p \in Starters : ~WorksAt(p, "fill", "CLAW.md")
    BY DEF Filling, WorksAt, StarterAt
  <2>3. Right("CLAW.md", onDisk["CLAW.md"])
    BY <1>4, <2>1, <2>2 DEF FileInv, FileIsRight, Exists
  <2>. QED BY <1>4, <2>3 DEF Right
<1>. QED BY <1>1, <1>2, <1>3, <1>4 DEF FilesAreKept

(* What the user wrote stays as he wrote it, and a claw init that came to  *)
(* its end is complete and repeating it changes nothing (initialize_repo   *)
(* of claw-cli/src/init.rs), but for a file that somebody wrote between a  *)
(* look and the writing, or whose writing was cut short: for any programs  *)
(* that run it, files of the user and projects.                            *)
THEOREM FilesStayKept == StarterSpec => []FilesAreKept
<1>1. StarterInit => StarterInv
  BY StarterStarts
<1>2. StarterInv /\ [StarterNext]_initVars => StarterInv'
  BY StarterSteps
<1>3. StarterInv => FilesAreKept
  BY InvKeepsFiles
<1>. QED BY <1>1, <1>2, <1>3, PTL DEF StarterSpec
=============================================================================
