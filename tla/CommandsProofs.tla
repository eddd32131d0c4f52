--------------------------- MODULE CommandsProofs ---------------------------
(***************************************************************************)
(* Proofs about Commands, for every number of clients, every capacity and  *)
(* window, and every bound.                                                *)
(*                                                                         *)
(* With any mix of faults: no ack is false, and no write leaves a buffer   *)
(* before a handler has completed it.  While no frame in flight falls out  *)
(* of the dedup window (InWindow): no command runs twice, and the writes   *)
(* of a client run in order.  With one client: no ack is lost, and, when   *)
(* it sends only writes its buffer has room for, InWindow itself.          *)
(***************************************************************************)
EXTENDS Commands, TLAPS, FiniteSetTheorems, SequenceTheorems

\* The ack levels that are true of the commands completed so far.
Covered == {n \in Nat : 1..n \subseteq done}

\* What may be on its way to a client.
TrueFrames == [type : {"salt", "ack"}, upTo : Covered]

\* The inductive invariant: the daemon's level, every ack in flight and every ack
\* received is true, commands ahead of the level are completed, and no write is
\* lost.  NoFalseAck alone is not inductive: it says nothing of an ack in flight.
IInv ==
  /\ outSeq \in Nat
  /\ writes \in [Clients -> SUBSET (Nat \ {0})]
  /\ buffer \in [Clients -> SUBSET Nat]
  /\ maxAcked \in [Clients -> Covered]
  /\ down \in [Clients -> Seq(TrueFrames)]
  /\ through \in Covered
  /\ ahead \subseteq done
  /\ NothingLost

\* The invariant holds at the start: nothing was sent, nothing acked.
LEMMA InitIInv == Init => IInv
<1> SUFFICES ASSUME Init PROVE IInv
  OBVIOUS
<1>1. 0 \in Covered
  BY DEF Covered
<1> QED
  BY <1>1 DEF Init, IInv, NothingLost

\* What is true of the completed commands stays true when more are completed.
LEMMA CoveredGrows ==
  ASSUME done \subseteq done'
  PROVE  /\ Covered \subseteq Covered'
         /\ Seq(TrueFrames) \subseteq Seq(TrueFrames')
<1>1. Covered \subseteq Covered'
  BY DEF Covered
<1>2. TrueFrames \subseteq TrueFrames'
  BY <1>1 DEF TrueFrames
<1>3. ASSUME NEW S, NEW T, S \subseteq T
      PROVE  Seq(S) \subseteq Seq(T)
  BY <1>3
<1> QED
  BY <1>1, <1>2, <1>3

\* markProcessed moves the level over commands of a set D that holds all it has been told
\* of, and never past one it has not been told of.
LEMMA LevelKept ==
  ASSUME NEW D, NEW s, s \in D, through \in Nat, 1..through \subseteq D, ahead \subseteq D,
         MarkProcessed(s)
  PROVE  through' \in Nat /\ 1..through' \subseteq D /\ ahead' \subseteq D
<1>1. CASE s = through + 1 /\ \E n \in s..MaxSeq :
             /\ (s + 1)..n \subseteq ahead
             /\ through' = n
             /\ ahead' = ahead \ (s..n)
  <2> PICK n \in s..MaxSeq : /\ (s + 1)..n \subseteq ahead
                             /\ through' = n
                             /\ ahead' = ahead \ (s..n)
    BY <1>1
  <2>1. s \in Nat /\ n \in Nat /\ MaxSeq \in Nat
    BY <1>1, CommandsAssumption
  <2>2. ASSUME NEW k \in 1..n PROVE k \in D
    <3>1. k \in 1..through \/ k = s \/ k \in (s + 1)..n
      BY <1>1, <2>1
    <3> QED
      BY <3>1
  <2> QED
    BY <2>1, <2>2
<1>2. CASE ahead' = ahead \cup {s} /\ UNCHANGED through
  BY <1>2
<1>3. CASE UNCHANGED level
  BY <1>3 DEF level
<1> QED
  BY <1>1, <1>2, <1>3 DEF MarkProcessed

\* Running a command keeps the daemon's level true, whether its handler completes
\* or throws, and whatever gap the command closes.
LEMMA RunKeepsLevel ==
  ASSUME through \in Covered, ahead \subseteq done, NEW s, Run(s)
  PROVE  /\ done \subseteq done'
         /\ through' \in Covered'
         /\ ahead' \subseteq done'
<1>1. CASE UNCHANGED <<level, done>>
  BY <1>1 DEF level, Covered
<1>2. CASE MarkProcessed(s) /\ done' = done \cup {s}
  <2>1. done \subseteq done' /\ s \in done' /\ through \in Nat /\ 1..through \subseteq done'
    BY <1>2 DEF Covered
  <2>2. through' \in Nat /\ 1..through' \subseteq done' /\ ahead' \subseteq done'
    BY <1>2, <2>1, LevelKept
  <2> QED
    BY <2>1, <2>2 DEF Covered
<1> QED
  BY <1>1, <1>2 DEF Run

\* Every step keeps the invariant.
LEMMA NextIInv == IInv /\ [Next]_vars => IInv'
<1> SUFFICES ASSUME IInv, [Next]_vars PROVE IInv'
  OBVIOUS
<1> USE DEF IInv
<1>1. ASSUME UNCHANGED <<down, writes, buffer, maxAcked, outSeq>>,
             through' \in Covered', ahead' \subseteq done', done \subseteq done'
      PROVE  IInv'
  BY <1>1, CoveredGrows DEF NothingLost
<1>2. ASSUME UNCHANGED <<level, done>>,
             writes' \in [Clients -> SUBSET (Nat \ {0})],
             buffer' \in [Clients -> SUBSET Nat],
             maxAcked' \in [Clients -> Covered],
             down' \in [Clients -> Seq(TrueFrames)],
             outSeq' \in Nat, NothingLost'
      PROVE  IInv'
  BY <1>2 DEF level, Covered, TrueFrames
<1>3. UNCHANGED vars => IInv'
  BY <1>2 DEF vars, clientVars, daemonVars, level, NothingLost
<1>4. ASSUME NEW c \in Clients, SendWrite(c) PROVE IInv'
  <2>1. outSeq' \in Nat \ {0}
    BY <1>4 DEF SendWrite, Reserve
  <2>2. NothingLost'
    BY <1>4 DEF SendWrite, NothingLost, daemonVars
  <2> QED
    BY <1>2, <1>4, <2>1, <2>2 DEF SendWrite, daemonVars
<1>5. ASSUME NEW c \in Clients, SendRefused(c) \/ SendRead(c) PROVE IInv'
  BY <1>2, <1>5 DEF SendRefused, SendRead, Reserve, clientVars, daemonVars, NothingLost
<1>6. ASSUME NEW c \in Clients, Open(c) PROVE IInv'
  BY <1>2, <1>6 DEF Open, daemonVars, NothingLost
<1>7. ASSUME NEW c \in Clients, ReceiveSalt(c) PROVE IInv'
  <2>1. down' \in [Clients -> Seq(TrueFrames)]
    BY <1>7 DEF ReceiveSalt
  <2> QED
    BY <1>2, <1>7, <2>1 DEF ReceiveSalt, daemonVars, NothingLost
<1>8. ASSUME NEW c \in Clients, ReceiveAck(c) PROVE IInv'
  <2> DEFINE n == Head(down[c]).upTo
  <2>1. Head(down[c]) \in TrueFrames /\ Tail(down[c]) \in Seq(TrueFrames)
    BY <1>8 DEF ReceiveAck
  <2>2. n \in Covered /\ n \in Nat
    BY <2>1 DEF TrueFrames, Covered
  <2>3. down' \in [Clients -> Seq(TrueFrames)]
    BY <1>8, <2>1 DEF ReceiveAck
  <2>4. maxAcked' \in [Clients -> Covered]
    BY <1>8, <2>2 DEF ReceiveAck
  <2>5. buffer' \in [Clients -> SUBSET Nat]
    BY <1>8 DEF ReceiveAck
  <2>6. ASSUME NEW d \in Clients, NEW s \in writes[d], s \notin done PROVE s \in buffer'[d]
    <3>1. s \in buffer[d] /\ s \in Nat \ {0}
      BY <2>6 DEF NothingLost
    <3>2. CASE d = c
      <4>1. ~(s <= n)
        BY <2>2, <2>6, <3>1 DEF Covered
      <4> QED
        BY <1>8, <2>2, <3>1, <3>2, <4>1 DEF ReceiveAck
    <3>3. CASE d # c
      BY <1>8, <3>1, <3>3 DEF ReceiveAck
    <3> QED
      BY <3>2, <3>3
  <2>7. NothingLost'
    BY <1>8, <2>6 DEF ReceiveAck, NothingLost, daemonVars
  <2> HIDE DEF n
  <2> QED
    BY <1>2, <1>8, <2>3, <2>4, <2>5, <2>7 DEF ReceiveAck, daemonVars
<1>9. ASSUME NEW c \in Clients, DaemonHello(c) PROVE IInv'
  <2>1. Salt \in TrueFrames /\ Ack(through) \in TrueFrames
    BY DEF Salt, Ack, TrueFrames, Covered
  <2>2. down' \in [Clients -> Seq(TrueFrames)]
    BY <1>9, <2>1 DEF DaemonHello
  <2> QED
    BY <1>2, <1>9, <2>2 DEF DaemonHello, clientVars, daemonVars, NothingLost
<1>10. ASSUME NEW c \in Clients, DaemonFrame(c) PROVE IInv'
  <2> DEFINE s == Head(up[c])
  <2>1. CASE UNCHANGED <<daemonVars, down>>
    BY <1>1, <1>10, <2>1 DEF DaemonFrame, clientVars, daemonVars, level, Covered
  <2>2. CASE /\ Run(s)
             /\ down' = [down EXCEPT ![c] = IF through' > 0 THEN Append(@, Ack(through')) ELSE @]
    <3>1. done \subseteq done' /\ through' \in Covered' /\ ahead' \subseteq done'
      BY <2>2, RunKeepsLevel
    <3>2. Ack(through') \in TrueFrames'
      BY <3>1 DEF Ack, TrueFrames
    <3>3. down \in [Clients -> Seq(TrueFrames')]
      BY <3>1, CoveredGrows
    <3>4. down' \in [Clients -> Seq(TrueFrames')]
      BY <2>2, <3>2, <3>3
    <3>5. maxAcked' \in [Clients -> Covered'] /\ NothingLost'
      BY <1>10, <3>1, CoveredGrows DEF DaemonFrame, clientVars, NothingLost
    <3> QED
      BY <1>10, <3>1, <3>4, <3>5 DEF DaemonFrame, clientVars
  <2> QED
    BY <1>10, <2>1, <2>2 DEF DaemonFrame
<1>11. ASSUME NEW c \in Clients, LateFrame(c) PROVE IInv'
  <2>1. CASE UNCHANGED daemonVars
    BY <1>1, <1>11, <2>1 DEF LateFrame, clientVars, daemonVars, level, Covered
  <2>2. CASE Run(Head(late[c]))
    <3>1. done \subseteq done' /\ through' \in Covered' /\ ahead' \subseteq done'
      BY <2>2, RunKeepsLevel
    <3> QED
      BY <1>1, <1>11, <3>1 DEF LateFrame, clientVars
  <2> QED
    BY <1>11, <2>1, <2>2 DEF LateFrame
<1>12. ASSUME NEW c \in Clients, Drop(c) \/ Quit(c) PROVE IInv'
  <2>1. <<>> \in Seq(TrueFrames)
    OBVIOUS
  <2>2. down' = [down EXCEPT ![c] = <<>>]
    BY <1>12 DEF Drop, Quit, LoseConnection
  <2>3. down' \in [Clients -> Seq(TrueFrames)]
    BY <2>1, <2>2
  <2> QED
    BY <1>2, <1>12, <2>3 DEF Drop, Quit, daemonVars, NothingLost
<1>13. ASSUME Restart PROVE IInv'
  <2>1. 0 \in Covered
    BY DEF Covered
  <2>2. Covered' = Covered /\ TrueFrames' = TrueFrames
    BY <1>13 DEF Restart, Covered, TrueFrames
  <2>3. down' \in [Clients -> Seq(TrueFrames)]
    BY <1>13 DEF Restart
  <2> QED
    BY <1>13, <2>1, <2>2, <2>3 DEF Restart, NothingLost
<1> QED
  BY <1>3, <1>4, <1>5, <1>6, <1>7, <1>8, <1>9, <1>10, <1>11, <1>12, <1>13 DEF Next

\* The inductive invariant is an invariant.
LEMMA Invariance == Spec => []IInv
BY InitIInv, NextIInv, PTL DEF Spec

\* markProcessed and ackLevel never let a client believe in a command that no
\* handler completed: not after a throw, a lost or a late frame, a resend, a
\* restart, nor through a command of another client of the device.
THEOREM AcksAreTrue == Spec => []NoFalseAck
<1>1. IInv => NoFalseAck
  BY DEF IInv, NoFalseAck, Covered
<1> QED
  BY <1>1, Invariance, PTL

\* ackUpTo never drops a write from the resend buffer that no handler completed.
THEOREM WritesAreKept == Spec => []NothingLost
<1>1. IInv => NothingLost
  BY DEF IInv
<1> QED
  BY <1>1, Invariance, PTL

----------------------------------------------------------------------------
(* What is on the wire, and what the filter remembers.                     *)

\* The commands this daemon process has given to a handler.
Ran == {ran[i] : i \in 1..Len(ran)}

\* The elements of a sequence.
In(q) == {q[i] : i \in 1..Len(q)}

\* Numbers are numbers that were drawn; every client writes under its own.
NumberTypes ==
  /\ outSeq \in Nat
  /\ link \in [Clients -> {"closed", "open", "ready", "gone"}]
  /\ writes \in [Clients -> SUBSET (1..outSeq)]
  /\ buffer \in [Clients -> SUBSET (1..outSeq)]
  /\ up \in [Clients -> Seq(0..outSeq)]
  /\ late \in [Clients -> Seq(1..outSeq)]
  /\ ran \in Seq(1..outSeq)
  /\ seen \subseteq 1..outSeq
  /\ highest \in 0..outSeq

\* A client's connection: hello is the first frame and the only one until the daemon
\* has read it, and commands follow once the salt has been read.
WireAt(c) ==
  /\ c \in authed => up[c] \in Seq(1..outSeq)
  /\ c \notin authed => up[c] \in {<<>>, <<Hello>>} /\ down[c] = <<>>
  /\ link[c] \in {"closed", "gone"} => up[c] = <<>> /\ c \notin authed
  /\ link[c] = "open" /\ c \in authed => up[c] = <<>>
  /\ link[c] = "ready" => c \in authed

WireInv == NumberTypes /\ authed \subseteq Clients /\ \A c \in Clients : WireAt(c)

\* No frame in flight lags more than SeenKeep behind the highest number read: what the
\* comment on ResendBuffer calls staying inside the dedup window.
WindowOf(q) == \A i \in 1..Len(q) : q[i] # Hello => q[i] + SeenKeep >= highest
InWindow == \A c \in Clients : WindowOf(up[c]) /\ WindowOf(late[c])

\* The filter: what ran and is not too old is remembered, and only what ran.
FilterExact ==
  /\ \A s \in Ran : s <= highest /\ (s + SeenKeep >= highest => s \in seen)
  /\ seen \subseteq Ran

\* What may be on its way to a client: acks that cover only what ran.
RanFrames == [type : {"salt", "ack"}, upTo : {n \in Nat : 1..n \subseteq Ran}]

\* The daemon's level, too, covers only what ran.
AcksRan ==
  /\ through \in Nat /\ 1..through \subseteq Ran
  /\ ahead \subseteq Ran
  /\ \A c \in Clients : down[c] \in Seq(RanFrames)

\* Of the writes W of a client, those in B precede any later write of W in the queue q.
Ordered(q, W, B) ==
  \A i \in 1..Len(q) : q[i] \in W =>
    \A s \in B : s < q[i] => \E k \in 1..i - 1 : q[k] = s

\* A queue of c, given everybody's writes W, c's buffer B and the commands R that ran: it
\* is in order, it carries no write of another client, and those of c that did not run
\* are in the buffer.
Flight(q, c, W, B, R) ==
  /\ Ordered(q, W[c], B \ R)
  /\ \A d \in Clients : In(q) \cap W[d] # {} => d = c
  /\ (In(q) \cap W[c]) \ R \subseteq B

\* The order of c's writes: it holds only writes of its own, its queues are in order, a
\* ready connection carries all that did not run, and what did not run is newer than
\* all that did.
OrderAt(c) ==
  /\ buffer[c] \subseteq writes[c]
  /\ \A d \in Clients : writes[c] \cap writes[d] # {} => d = c
  /\ Flight(up[c], c, writes, buffer[c], Ran)
  /\ Flight(late[c], c, writes, buffer[c], Ran)
  /\ link[c] = "ready" => buffer[c] \ Ran \subseteq In(up[c])
  /\ \A t \in Ran \cap writes[c] : \A s \in buffer[c] \ Ran : s > t

OrderInv == AcksRan /\ \A c \in Clients : OrderAt(c)

\* A finite set of numbers can be put in ascending order: the rank of a number is how
\* many are not above it.
LEMMA AscendingExists ==
  ASSUME NEW S \in SUBSET Nat, IsFiniteSet(S)
  PROVE  \E q \in [1..Cardinality(S) -> S] : Ascending(q)
<1> DEFINE Below(x) == {y \in S : y <= x}
           n == Cardinality(S)
           rank == [x \in S |-> Cardinality(Below(x))]
<1>1. n \in Nat
  BY FS_CardinalityType
<1>2. ASSUME NEW x \in S
      PROVE  /\ IsFiniteSet(Below(x)) /\ Cardinality(Below(x)) \in Nat
             /\ Cardinality(Below(x)) <= n /\ Cardinality(Below(x)) # 0
  <2>1. Below(x) \in SUBSET S /\ x \in Below(x)
    OBVIOUS
  <2>2. IsFiniteSet(Below(x)) /\ Cardinality(Below(x)) <= n
    BY <2>1, FS_Subset
  <2>3. Cardinality(Below(x)) \in Nat
    BY <2>2, FS_CardinalityType
  <2>4. Cardinality(Below(x)) # 0
    <3> HIDE DEF Below
    <3> QED
      BY <2>1, <2>2, FS_EmptySet
  <2> QED
    BY <2>2, <2>3, <2>4
<1>3. ASSUME NEW x \in S, NEW y \in S, x < y PROVE rank[x] < rank[y]
  <2>1. Below(x) \in SUBSET Below(y) /\ y \in Below(y) /\ y \notin Below(x)
    <3>1. x \in Nat /\ y \in Nat /\ \A z \in S : z \in Nat
      OBVIOUS
    <3>2. \A z \in Below(x) : z \in Below(y)
      BY <1>3, <3>1
    <3>3. y \in Below(y) /\ y \notin Below(x)
      BY <1>3, <3>1
    <3> HIDE DEF Below
    <3> QED
      BY <3>2, <3>3
  <2>2. IsFiniteSet(Below(y))
    BY <1>2
  <2>3. /\ Cardinality(Below(x)) <= Cardinality(Below(y))
        /\ Cardinality(Below(y)) = Cardinality(Below(x)) => Below(y) = Below(x)
    <3> HIDE DEF Below
    <3> QED
      BY <2>1, <2>2, FS_Subset
  <2>4. Cardinality(Below(x)) # Cardinality(Below(y))
    BY <2>1, <2>3
  <2>5. Cardinality(Below(x)) \in Nat /\ Cardinality(Below(y)) \in Nat
    BY <1>2
  <2>6. rank[x] = Cardinality(Below(x)) /\ rank[y] = Cardinality(Below(y))
    OBVIOUS
  <2> HIDE DEF Below, rank
  <2> QED
    BY <2>3, <2>4, <2>5, <2>6
<1>4. rank \in [S -> 1..n]
  <2>1. \A x \in S : Cardinality(Below(x)) \in 1..n
    <3> HIDE DEF Below, n
    <3> QED
      BY <1>1, <1>2
  <2> HIDE DEF Below, n
  <2> QED
    BY <2>1
<1>5. rank \in Injection(S, 1..n)
  <2> HIDE DEF rank, n
  <2>1. ASSUME NEW x \in S, NEW y \in S, rank[x] = rank[y] PROVE x = y
    <3>1. rank[x] \in Nat /\ rank[y] \in Nat /\ x \in Nat /\ y \in Nat
      BY <1>1, <1>4
    <3>2. ~(x < y) /\ ~(y < x)
      BY <1>3, <2>1, <3>1
    <3> QED
      BY <3>1, <3>2
  <2> QED
    BY <1>4, <2>1 DEF Injection, IsInjective
<1>6. IsFiniteSet(1..n) /\ Cardinality(1..n) = n
  <2> HIDE DEF n
  <2>1. /\ IsFiniteSet(1..n)
        /\ Cardinality(1..n) = IF 1 > n THEN 0 ELSE n - 1 + 1
    BY <1>1, FS_Interval
  <2> QED
    BY <1>1, <2>1
<1>7. rank \in Surjection(S, 1..n)
  <2>1. Cardinality(S) = Cardinality(1..n)
    BY <1>6
  <2> HIDE DEF rank, n
  <2> QED
    BY <1>5, <1>6, <2>1, FS_Injection
<1>8. \A i \in 1..n : \E x \in S : rank[x] = i
  <2> HIDE DEF rank, n
  <2> QED
    BY <1>7 DEF Surjection
<1> DEFINE q == [i \in 1..n |-> CHOOSE x \in S : rank[x] = i]
<1> HIDE DEF rank, n
<1>9. \A i \in 1..n : q[i] \in S /\ rank[q[i]] = i
  BY <1>8
<1>10. q \in [1..n -> S]
  BY <1>9
<1>11. Ascending(q)
  <2>1. DOMAIN q = 1..n
    OBVIOUS
  <2> HIDE DEF q
  <2> SUFFICES ASSUME NEW i \in 1..n, NEW j \in 1..n, i < j PROVE q[i] < q[j]
    BY <2>1 DEF Ascending
  <2>2. q[i] \in S /\ q[j] \in S /\ rank[q[i]] = i /\ rank[q[j]] = j /\ q[i] \in Nat /\ q[j] \in Nat
    BY <1>9
  <2>3. q[i] # q[j] /\ ~(q[j] < q[i])
    BY <1>1, <1>3, <2>2
  <2> QED
    BY <2>2, <2>3
<1>12. \E p \in [1..n -> S] : Ascending(p)
  BY <1>10, <1>11
<1> QED
  BY <1>12 DEF n

\* An ascending enumeration of a set is a sequence that misses none of its elements.
LEMMA AscendingProperties ==
  ASSUME NEW S \in SUBSET Nat, IsFiniteSet(S),
         NEW q \in [1..Cardinality(S) -> S], Ascending(q)
  PROVE  /\ q \in Seq(S) /\ Len(q) = Cardinality(S)
         /\ \A x \in S : \E i \in 1..Len(q) : q[i] = x
<1> DEFINE n == Cardinality(S)
<1>1. n \in Nat
  BY FS_CardinalityType
<1>2. q \in Seq(S) /\ Len(q) = n
  <2> HIDE DEF n
  <2>1. q \in [1..n -> S]
    BY DEF n
  <2> QED
    BY <1>1, <2>1
<1>3. q \in Injection(1..n, S)
  <2> HIDE DEF n
  <2>1. q \in [1..n -> S]
    BY DEF n
  <2>2. ASSUME NEW i \in 1..n, NEW j \in 1..n, q[i] = q[j] PROVE i = j
    <3>1. q[i] \in Nat /\ q[j] \in Nat
      BY <2>1
    <3>2. \A k, m \in 1..n : k < m => q[k] < q[m]
      BY <2>1 DEF Ascending
    <3>3. ~(i < j) /\ ~(j < i)
      BY <2>2, <3>1, <3>2
    <3> QED
      BY <1>1, <3>3
  <2> QED
    BY <2>1, <2>2 DEF Injection, IsInjective
<1>4. Cardinality(1..n) = Cardinality(S)
  <2> HIDE DEF n
  <2>1. Cardinality(1..n) = IF 1 > n THEN 0 ELSE n - 1 + 1
    BY <1>1, FS_Interval
  <2>2. Cardinality(1..n) = n
    BY <1>1, <2>1
  <2> QED
    BY <2>2 DEF n
<1>5. q \in Surjection(1..n, S)
  <2> HIDE DEF n
  <2> QED
    BY <1>3, <1>4, FS_Injection
<1> QED
  <2>1. \A x \in S : \E i \in 1..n : q[i] = x
    <3> HIDE DEF n
    <3> QED
      BY <1>5 DEF Surjection
  <2> QED
    BY <1>2, <2>1
----------------------------------------------------------------------------
(* The wire.                                                               *)

\* Sequences over a set are sequences over a larger one.
LEMMA SeqGrows ==
  ASSUME NEW S, NEW T, S \subseteq T
  PROVE  Seq(S) \subseteq Seq(T)
OBVIOUS

\* Taking the first element of a sequence.
LEMMA TakeFirst ==
  ASSUME NEW S, NEW q \in Seq(S), q # <<>>
  PROVE  /\ Len(q) \in Nat \ {0} /\ Head(q) = q[1] /\ Head(q) \in S
         /\ Tail(q) \in Seq(S) /\ Len(Tail(q)) = Len(q) - 1
         /\ \A i \in 1..Len(q) - 1 : Tail(q)[i] = q[i + 1]
OBVIOUS

\* The new connection of a client that has none carries a hello and no command.
LEMMA WireInit == Init => WireInv
BY CommandsAssumption DEF Init, WireInv, NumberTypes, WireAt

\* More numbers are drawn and nothing else changes: the types are kept.
LEMMA TypesGrow ==
  ASSUME NumberTypes, outSeq' \in Nat, outSeq <= outSeq'
  PROVE  /\ 1..outSeq \subseteq 1..outSeq' /\ 0..outSeq \subseteq 0..outSeq'
         /\ Seq(1..outSeq) \subseteq Seq(1..outSeq')
         /\ Seq(0..outSeq) \subseteq Seq(0..outSeq')
         /\ writes \in [Clients -> SUBSET (1..outSeq')]
         /\ buffer \in [Clients -> SUBSET (1..outSeq')]
         /\ up \in [Clients -> Seq(0..outSeq')]
         /\ late \in [Clients -> Seq(1..outSeq')]
         /\ ran \in Seq(1..outSeq')
         /\ seen \subseteq 1..outSeq'
         /\ highest \in 0..outSeq'
<1>1. 1..outSeq \subseteq 1..outSeq' /\ 0..outSeq \subseteq 0..outSeq'
  BY DEF NumberTypes
<1>2. /\ Seq(1..outSeq) \subseteq Seq(1..outSeq')
      /\ Seq(0..outSeq) \subseteq Seq(0..outSeq')
  BY <1>1, SeqGrows
<1>3. /\ writes \in [Clients -> SUBSET (1..outSeq')]
      /\ buffer \in [Clients -> SUBSET (1..outSeq')]
      /\ seen \subseteq 1..outSeq' /\ highest \in 0..outSeq'
  BY <1>1 DEF NumberTypes
<1>4. /\ up \in [Clients -> Seq(0..outSeq')]
      /\ late \in [Clients -> Seq(1..outSeq')]
      /\ ran \in Seq(1..outSeq')
  BY <1>2 DEF NumberTypes
<1> QED
  BY <1>1, <1>2, <1>3, <1>4

\* A number is drawn and goes out, if there is a connection.
LEMMA WireSend ==
  ASSUME WireInv, NEW c \in Clients, Reserve, Transmit(c, outSeq'),
         UNCHANGED <<link, down, late, authed, filter, ran>>,
         writes' \in [Clients -> SUBSET (1..outSeq')],
         buffer' \in [Clients -> SUBSET (1..outSeq')]
  PROVE  WireInv'
<1>1. outSeq' = outSeq + 1 /\ outSeq' \in Nat /\ outSeq <= outSeq' /\ outSeq' \in 1..outSeq'
  BY DEF WireInv, NumberTypes, Reserve
<1>2. NumberTypes
  BY DEF WireInv
<1>3. /\ 0..outSeq \subseteq 0..outSeq' /\ Seq(1..outSeq) \subseteq Seq(1..outSeq')
      /\ up \in [Clients -> Seq(0..outSeq')]
      /\ late \in [Clients -> Seq(1..outSeq')]
      /\ ran \in Seq(1..outSeq') /\ seen \subseteq 1..outSeq' /\ highest \in 0..outSeq'
  BY <1>1, <1>2, TypesGrow
<1>4. up' \in [Clients -> Seq(0..outSeq')]
  <2>1. Append(up[c], outSeq') \in Seq(0..outSeq')
    BY <1>1, <1>3
  <2> QED
    BY <1>3, <2>1 DEF Transmit
<1>5. NumberTypes'
  BY <1>1, <1>2, <1>3, <1>4 DEF NumberTypes, filter
<1>6. ASSUME NEW d \in Clients PROVE WireAt(d)'
  <2>1. WireAt(d)
    BY DEF WireInv
  <2>2. CASE up'[d] = up[d]
    BY <1>3, <2>1, <2>2 DEF WireAt
  <2>3. CASE d = c /\ link[c] = "ready"
    <3>1. up'[c] = Append(up[c], outSeq') /\ c \in authed /\ up[c] \in Seq(1..outSeq')
      BY <1>2, <1>3, <2>1, <2>3 DEF Transmit, WireAt, NumberTypes
    <3>2. up'[c] \in Seq(1..outSeq')
      BY <1>1, <3>1
    <3> QED
      BY <2>1, <2>3, <3>1, <3>2 DEF WireAt
  <2> QED
    BY <1>2, <2>2, <2>3 DEF Transmit, NumberTypes
<1> QED
  BY <1>5, <1>6 DEF WireInv

\* A command that is run was drawn, so what the filter remembers of it is.
LEMMA WireRun ==
  ASSUME NumberTypes, NEW s \in 1..outSeq, Run(s)
  PROVE  /\ ran' \in Seq(1..outSeq) /\ seen' \subseteq 1..outSeq /\ highest' \in 0..outSeq
<1>1. ran' \in Seq(1..outSeq)
  BY DEF Run, NumberTypes
<1>2. seen' \subseteq 1..outSeq /\ highest' \in 0..outSeq
  <2>1. seen' \subseteq seen \cup {s}
    BY DEF Run, Remember
  <2>2. highest' \in {s, highest}
    BY DEF Run, Remember
  <2> QED
    BY <2>1, <2>2 DEF NumberTypes
<1> QED
  BY <1>1, <1>2

\* The daemon reads a command, or drops it as a duplicate.
LEMMA WireRead ==
  ASSUME NumberTypes, NEW s \in 1..outSeq, Run(s) \/ UNCHANGED daemonVars
  PROVE  /\ ran' \in Seq(1..outSeq) /\ seen' \subseteq 1..outSeq /\ highest' \in 0..outSeq
BY WireRun DEF daemonVars, filter, NumberTypes

\* The connection of c is over.
LEMMA WireLost ==
  ASSUME IInv, WireInv, NEW c \in Clients, LoseConnection(c),
         NEW l \in {"closed", "gone"}, link' = [link EXCEPT ![c] = l],
         UNCHANGED <<outSeq, buffer, writes, daemonVars>>
  PROVE  WireInv'
<1>0. NumberTypes
  BY DEF WireInv
<1>1. late' \in [Clients -> Seq(1..outSeq)]
  <2>1. ASSUME c \in authed, NEW k \in 1..Len(up[c])
        PROVE  SubSeq(up[c], 1, k) \in Seq(1..outSeq)
    <3>1. up[c] \in Seq(1..outSeq)
      BY <2>1 DEF WireInv, WireAt
    <3>2. Len(up[c]) \in Nat /\ k \in Nat /\ 1 <= k /\ k <= Len(up[c])
      BY <3>1
    <3>3. ASSUME NEW i \in 1..k PROVE up[c][i] \in 1..outSeq
      <4>1. i \in 1..Len(up[c])
        BY <3>2
      <4> QED
        BY <3>1, <4>1, ElementOfSeq
    <3> QED
      BY <3>2, <3>3, SubSeqProperties
  <2> QED
    BY <1>0, <2>1 DEF LoseConnection, NumberTypes
<1>2. up' \in [Clients -> Seq(0..outSeq)]
  BY <1>0 DEF LoseConnection, NumberTypes
<1>3. NumberTypes'
  BY <1>0, <1>1, <1>2 DEF NumberTypes, daemonVars, filter
<1>4. ASSUME NEW d \in Clients PROVE WireAt(d)'
  <2>1. WireAt(d)
    BY DEF WireInv
  <2>2. CASE d = c
    <3>1. up'[d] = <<>> /\ d \notin authed' /\ link'[d] = l
      BY <1>0, <2>2 DEF LoseConnection, NumberTypes
    <3>2. down'[d] = <<>>
      BY <2>2 DEF LoseConnection, IInv
    <3> QED
      BY <3>1, <3>2 DEF WireAt
  <2>3. CASE d # c
    <3>1. up'[d] = up[d] /\ link'[d] = link[d] /\ down'[d] = down[d]
          /\ (d \in authed' <=> d \in authed)
      BY <1>0, <2>3 DEF LoseConnection, NumberTypes
    <3> QED
      BY <2>1, <3>1 DEF WireAt
  <2> QED
    BY <2>2, <2>3
<1> QED
  BY <1>3, <1>4 DEF WireInv, LoseConnection


\* A step of c's connection leaves the other connections alone.
LEMMA WireElsewhere ==
  ASSUME WireInv, NEW c \in Clients, outSeq' = outSeq, NumberTypes',
         authed' \subseteq Clients, WireAt(c)',
         \A d \in Clients \ {c} : /\ up'[d] = up[d] /\ down'[d] = down[d]
                                  /\ link'[d] = link[d]
                                  /\ d \in authed' <=> d \in authed
  PROVE  WireInv'
<1>1. ASSUME NEW d \in Clients \ {c} PROVE WireAt(d)'
  BY DEF WireInv, WireAt
<1> QED
  BY <1>1 DEF WireInv

\* pending: every write in the buffer, once each, in ascending order.
LEMMA PendingProperties ==
  ASSUME NumberTypes, NEW c \in Clients
  PROVE  /\ Pending(c) \in Seq(buffer[c]) /\ Ascending(Pending(c))
         /\ DOMAIN Pending(c) = 1..Len(Pending(c))
         /\ \A x \in buffer[c] : \E i \in 1..Len(Pending(c)) : Pending(c)[i] = x
<1> DEFINE S == buffer[c]
<1>1. S \in SUBSET Nat /\ IsFiniteSet(S)
  <2>1. S \subseteq 1..outSeq /\ outSeq \in Nat
    BY DEF NumberTypes
  <2>2. IsFiniteSet(1..outSeq)
    BY <2>1, FS_Interval
  <2> QED
    BY <2>1, <2>2, FS_Subset
<1>2. Pending(c) \in [1..Cardinality(S) -> S] /\ Ascending(Pending(c))
  <2>1. \E q \in [1..Cardinality(S) -> S] : Ascending(q)
    BY <1>1, AscendingExists
  <2> QED
    BY <2>1 DEF Pending
<1>3. /\ Pending(c) \in Seq(S)
      /\ \A x \in S : \E i \in 1..Len(Pending(c)) : Pending(c)[i] = x
  <2> HIDE DEF S
  <2> QED
    BY <1>1, <1>2, AscendingProperties
<1> QED
  BY <1>2, <1>3

\* Every step keeps the wire in order.
LEMMA NextWire == IInv /\ WireInv /\ [Next]_vars => WireInv'
<1> SUFFICES ASSUME IInv, WireInv, [Next]_vars PROVE WireInv'
  OBVIOUS
<1>0. NumberTypes /\ authed \subseteq Clients /\ \A c \in Clients : WireAt(c)
  BY DEF WireInv
<1>1. UNCHANGED vars => WireInv'
  BY <1>0 DEF vars, clientVars, daemonVars, filter, WireInv, NumberTypes, WireAt
<1>2. ASSUME NEW c \in Clients, SendWrite(c) PROVE WireInv'
  <2>1. outSeq' = outSeq + 1 /\ outSeq' \in Nat /\ outSeq <= outSeq'
    BY <1>0, <1>2 DEF SendWrite, Reserve, NumberTypes
  <2>2. /\ writes \in [Clients -> SUBSET (1..outSeq')]
        /\ buffer \in [Clients -> SUBSET (1..outSeq')]
    BY <1>0, <2>1, TypesGrow
  <2>3. outSeq' \in 1..outSeq'
    BY <1>0, <2>1 DEF NumberTypes
  <2>4. /\ writes' \in [Clients -> SUBSET (1..outSeq')]
        /\ buffer' \in [Clients -> SUBSET (1..outSeq')]
    BY <1>2, <2>2, <2>3 DEF SendWrite
  <2> QED
    BY <1>2, <2>4, WireSend DEF SendWrite, daemonVars
<1>3. ASSUME NEW c \in Clients, SendRead(c) PROVE WireInv'
  <2>1. outSeq' \in Nat /\ outSeq <= outSeq'
    BY <1>0, <1>3 DEF SendRead, Reserve, NumberTypes
  <2>2. /\ writes' \in [Clients -> SUBSET (1..outSeq')]
        /\ buffer' \in [Clients -> SUBSET (1..outSeq')]
    BY <1>0, <1>3, <2>1, TypesGrow DEF SendRead, clientVars
  <2> QED
    BY <1>3, <2>2, WireSend DEF SendRead, clientVars, daemonVars
<1>4. ASSUME NEW c \in Clients, SendRefused(c) PROVE WireInv'
  <2>1. outSeq' \in Nat /\ outSeq <= outSeq'
    BY <1>0, <1>4 DEF SendRefused, Reserve, NumberTypes
  <2>2. NumberTypes'
    BY <1>0, <1>4, <2>1, TypesGrow DEF SendRefused, clientVars, daemonVars, filter, NumberTypes
  <2>3. Seq(1..outSeq) \subseteq Seq(1..outSeq')
    BY <1>0, <2>1, TypesGrow
  <2> QED
    BY <1>0, <1>4, <2>2, <2>3 DEF SendRefused, clientVars, WireInv, WireAt
<1>5. ASSUME NEW c \in Clients, Open(c) PROVE WireInv'
  <2>1. up' = [up EXCEPT ![c] = <<Hello>>] /\ <<Hello>> \in Seq(0..outSeq) /\ outSeq' = outSeq
    BY <1>0, <1>5 DEF Open, NumberTypes, Hello
  <2>2. NumberTypes'
    <3>1. up' \in [Clients -> Seq(0..outSeq)]
      BY <1>0, <2>1 DEF NumberTypes
    <3> QED
      BY <1>0, <1>5, <3>1 DEF Open, daemonVars, filter, NumberTypes
  <2>3. WireAt(c)'
    BY <1>0, <1>5, <2>1 DEF Open, WireAt, NumberTypes
  <2>4. \A d \in Clients \ {c} : up'[d] = up[d] /\ link'[d] = link[d]
    BY <1>0, <1>5 DEF Open, NumberTypes
  <2> QED
    BY <1>0, <1>5, <2>2, <2>3, <2>4, WireElsewhere DEF Open
<1>6. ASSUME NEW c \in Clients, ReceiveSalt(c) PROVE WireInv'
  <2>1. c \in authed /\ up[c] = <<>>
    BY <1>0, <1>6 DEF ReceiveSalt, WireAt
  <2>2. Pending(c) \in Seq(1..outSeq) /\ Pending(c) \in Seq(0..outSeq)
    <3>1. Pending(c) \in Seq(buffer[c])
      BY <1>0, PendingProperties
    <3>2. buffer[c] \subseteq 1..outSeq /\ buffer[c] \subseteq 0..outSeq
      BY <1>0 DEF NumberTypes
    <3> QED
      BY <3>1, <3>2, SeqGrows
  <2>3. up' = [up EXCEPT ![c] = Pending(c)]
    BY <1>6, <2>1, <2>2 DEF ReceiveSalt
  <2>4. up' \in [Clients -> Seq(0..outSeq)] /\ up'[c] = Pending(c)
    BY <1>0, <2>2, <2>3 DEF NumberTypes
  <2>5. NumberTypes'
    BY <1>0, <1>6, <2>4 DEF ReceiveSalt, daemonVars, filter, NumberTypes
  <2>6. WireAt(c)'
    BY <1>0, <1>6, <2>1, <2>2, <2>4 DEF ReceiveSalt, WireAt, NumberTypes
  <2>7. \A d \in Clients \ {c} : up'[d] = up[d] /\ link'[d] = link[d] /\ down'[d] = down[d]
    BY <1>0, <1>6, <2>3 DEF ReceiveSalt, NumberTypes, IInv
  <2> QED
    BY <1>0, <1>6, <2>5, <2>6, <2>7, WireElsewhere DEF ReceiveSalt
<1>7. ASSUME NEW c \in Clients, ReceiveAck(c) PROVE WireInv'
  <2>1. buffer' \in [Clients -> SUBSET (1..outSeq)]
    BY <1>0, <1>7 DEF ReceiveAck, NumberTypes
  <2>2. NumberTypes'
    BY <1>0, <1>7, <2>1 DEF ReceiveAck, daemonVars, filter, NumberTypes
  <2>3. WireAt(c)'
    BY <1>0, <1>7 DEF ReceiveAck, WireAt
  <2>4. \A d \in Clients \ {c} : down'[d] = down[d]
    BY <1>7 DEF ReceiveAck, IInv
  <2> QED
    BY <1>0, <1>7, <2>2, <2>3, <2>4, WireElsewhere DEF ReceiveAck
<1>8. ASSUME NEW c \in Clients, DaemonHello(c) PROVE WireInv'
  <2>1. up[c] \in Seq(0..outSeq) /\ Head(up[c]) = up[c][1] /\ Len(up[c]) # 0
    BY <1>0, <1>8, TakeFirst DEF DaemonHello, NumberTypes
  <2>2. c \notin authed
    <3>1. SUFFICES ASSUME c \in authed PROVE FALSE
      OBVIOUS
    <3>2. up[c] \in Seq(1..outSeq)
      BY <1>0, <3>1 DEF WireAt
    <3>3. Head(up[c]) \in 1..outSeq
      BY <1>8, <3>2, TakeFirst DEF DaemonHello
    <3> QED
      BY <1>0, <1>8, <3>3 DEF DaemonHello, Hello, NumberTypes
  <2>3. up[c] = <<Hello>>
    BY <1>0, <1>8, <2>2 DEF WireAt, DaemonHello
  <2>4. up'[c] = <<>> /\ up' \in [Clients -> Seq(0..outSeq)]
    <3>1. Tail(up[c]) = <<>>
      BY <2>3
    <3> QED
      BY <1>0, <1>8, <3>1 DEF DaemonHello, NumberTypes
  <2>5. NumberTypes'
    BY <1>0, <1>8, <2>4 DEF DaemonHello, clientVars, daemonVars, filter, NumberTypes
  <2>6. WireAt(c)'
    <3>1. link[c] \notin {"closed", "gone"} /\ link'[c] = link[c] /\ c \in authed'
      BY <1>0, <1>8, <2>3 DEF DaemonHello, clientVars, WireAt
    <3>2. up'[c] \in Seq(1..outSeq')
      BY <2>4
    <3> QED
      BY <2>4, <3>1, <3>2 DEF WireAt
  <2>7. \A d \in Clients \ {c} : up'[d] = up[d] /\ down'[d] = down[d]
    BY <1>0, <1>8 DEF DaemonHello, NumberTypes, IInv
  <2> QED
    BY <1>0, <1>8, <2>5, <2>6, <2>7, WireElsewhere DEF DaemonHello, clientVars
<1>9. ASSUME NEW c \in Clients, DaemonFrame(c) PROVE WireInv'
  <2>1. c \in authed /\ up[c] \in Seq(1..outSeq) /\ up[c] # <<>>
    BY <1>0, <1>9 DEF DaemonFrame, WireAt
  <2>2. Head(up[c]) \in 1..outSeq /\ Tail(up[c]) \in Seq(1..outSeq)
    BY <2>1, TakeFirst
  <2>3. ran' \in Seq(1..outSeq) /\ seen' \subseteq 1..outSeq /\ highest' \in 0..outSeq
    BY <1>0, <1>9, <2>2, WireRead DEF DaemonFrame
  <2>4. up'[c] = Tail(up[c]) /\ up' \in [Clients -> Seq(0..outSeq)]
    <3>1. Tail(up[c]) \in Seq(0..outSeq)
      BY <1>0, <1>9, TakeFirst DEF DaemonFrame, NumberTypes
    <3> QED
      BY <1>0, <1>9, <3>1 DEF DaemonFrame, NumberTypes
  <2>5. NumberTypes'
    BY <1>0, <1>9, <2>3, <2>4 DEF DaemonFrame, clientVars, NumberTypes
  <2>6. link[c] = "ready"
    BY <1>0, <2>1 DEF WireAt, NumberTypes
  <2>7. WireAt(c)'
    BY <1>0, <1>9, <2>1, <2>2, <2>4, <2>6 DEF DaemonFrame, clientVars, WireAt
  <2>8. \A d \in Clients \ {c} : up'[d] = up[d] /\ down'[d] = down[d]
    BY <1>0, <1>9 DEF DaemonFrame, NumberTypes, IInv
  <2> QED
    BY <1>0, <1>9, <2>5, <2>7, <2>8, WireElsewhere DEF DaemonFrame, clientVars
<1>10. ASSUME NEW c \in Clients, LateFrame(c) PROVE WireInv'
  <2>1. late[c] \in Seq(1..outSeq) /\ late[c] # <<>>
    BY <1>0, <1>10 DEF LateFrame, NumberTypes
  <2>2. Head(late[c]) \in 1..outSeq /\ Tail(late[c]) \in Seq(1..outSeq)
    BY <2>1, TakeFirst
  <2>3. ran' \in Seq(1..outSeq) /\ seen' \subseteq 1..outSeq /\ highest' \in 0..outSeq
    BY <1>0, <1>10, <2>2, WireRead DEF LateFrame
  <2>4. late' \in [Clients -> Seq(1..outSeq)]
    BY <1>0, <1>10, <2>2 DEF LateFrame, NumberTypes
  <2>5. NumberTypes'
    BY <1>0, <1>10, <2>3, <2>4 DEF LateFrame, clientVars, NumberTypes
  <2> QED
    BY <1>0, <1>10, <2>5 DEF LateFrame, clientVars, WireInv, WireAt
<1>11. ASSUME NEW c \in Clients, Drop(c) \/ Quit(c) PROVE WireInv'
  BY <1>11, WireLost DEF Drop, Quit
<1>12. ASSUME Restart PROVE WireInv'
  <2>1. NumberTypes'
    BY <1>0, <1>12 DEF Restart, NumberTypes
  <2> QED
    BY <1>0, <1>12, <2>1 DEF Restart, WireInv, WireAt, NumberTypes
<1> QED
  BY <1>1, <1>2, <1>3, <1>4, <1>5, <1>6, <1>7, <1>8, <1>9, <1>10, <1>11, <1>12 DEF Next
----------------------------------------------------------------------------
(* The duplicate filter.                                                   *)

\* The daemon reads s from the queue q, and it is no duplicate.
ReadAt(q, s) == q # <<>> /\ s = Head(q) /\ ~Duplicate(s) /\ Run(s)

\* What a step does to the filter: nothing, a command read from a connection is run, or
\* the daemon is a new process.
LEMMA FilterSteps ==
  ASSUME WireInv, [Next]_vars
  PROVE  \/ UNCHANGED <<seen, highest, ran>>
         \/ seen' = {} /\ highest' = 0 /\ ran' = <<>>
         \/ \E c \in Clients : \E s \in 1..outSeq :
              /\ ReadAt(up[c], s) \/ ReadAt(late[c], s)
              /\ writes' = writes
<1>1. ASSUME NEW c \in Clients, DaemonFrame(c), ~UNCHANGED daemonVars
      PROVE  Head(up[c]) \in 1..outSeq /\ ReadAt(up[c], Head(up[c])) /\ writes' = writes
  <2>1. up[c] \in Seq(1..outSeq) /\ up[c] # <<>>
    BY <1>1 DEF DaemonFrame, WireInv, WireAt
  <2>2. Head(up[c]) \in 1..outSeq
    BY <2>1, TakeFirst
  <2> QED
    BY <1>1, <2>1, <2>2 DEF DaemonFrame, ReadAt, clientVars
<1>2. ASSUME NEW c \in Clients, LateFrame(c), ~UNCHANGED daemonVars
      PROVE  Head(late[c]) \in 1..outSeq /\ ReadAt(late[c], Head(late[c])) /\ writes' = writes
  <2>1. late[c] \in Seq(1..outSeq) /\ late[c] # <<>>
    BY <1>2 DEF LateFrame, WireInv, NumberTypes
  <2>2. Head(late[c]) \in 1..outSeq
    BY <2>1, TakeFirst
  <2> QED
    BY <1>2, <2>1, <2>2 DEF LateFrame, ReadAt, clientVars
<1>3. ASSUME NEW c \in Clients,
             SendWrite(c) \/ SendRefused(c) \/ SendRead(c) \/ Open(c) \/ ReceiveSalt(c)
               \/ ReceiveAck(c) \/ DaemonHello(c) \/ Drop(c) \/ Quit(c)
      PROVE  UNCHANGED daemonVars
  BY <1>3 DEF SendWrite, SendRefused, SendRead, Open, ReceiveSalt, ReceiveAck, DaemonHello,
              Drop, Quit
<1>4. Restart => seen' = {} /\ highest' = 0 /\ ran' = <<>>
  BY DEF Restart
<1>5. UNCHANGED vars => UNCHANGED daemonVars
  BY DEF vars
<1>6. UNCHANGED daemonVars => UNCHANGED <<seen, highest, ran>>
  BY DEF daemonVars, filter
<1>7. CASE \E c \in Clients : (DaemonFrame(c) \/ LateFrame(c)) /\ ~UNCHANGED daemonVars
  BY <1>1, <1>2, <1>7
<1> QED
  BY <1>3, <1>4, <1>5, <1>6, <1>7 DEF Next

\* A command given to its handler is one more that ran.
LEMMA RanGrows ==
  ASSUME NumberTypes, NEW s \in 1..outSeq, Run(s)
  PROVE  Ran' = Ran \cup {s} /\ Ran \subseteq 1..outSeq
<1>1. ran \in Seq(1..outSeq) /\ ran' = Append(ran, s)
  BY DEF NumberTypes, Run
<1>2. Len(ran) \in Nat /\ Len(ran') = Len(ran) + 1 /\ ran'[Len(ran) + 1] = s
      /\ \A i \in 1..Len(ran) : ran'[i] = ran[i] /\ ran[i] \in 1..outSeq
  <2>1. ASSUME NEW i \in 1..Len(ran) PROVE ran[i] \in 1..outSeq
    BY <1>1, ElementOfSeq
  <2> QED
    BY <1>1, <2>1
<1>3. Ran' = {ran'[i] : i \in 1..Len(ran')}
  BY DEF Ran
<1>4. 1..Len(ran') = (1..Len(ran)) \cup {Len(ran) + 1}
  BY <1>2
<1> QED
  BY <1>2, <1>3, <1>4 DEF Ran

\* The filter after accept: pruning forgets nothing that is still in the window.
LEMMA RunFilter ==
  ASSUME NumberTypes, FilterExact, NEW s \in 1..outSeq, Run(s)
  PROVE  FilterExact'
<1>1. Ran' = Ran \cup {s} /\ Ran \subseteq 1..outSeq
  BY RanGrows
<1>2. highest \in Nat /\ s \in Nat /\ SeenKeep \in Nat
  BY CommandsAssumption DEF NumberTypes
<1>3. highest' \in Nat /\ highest' >= highest /\ highest' >= s /\ highest' \in {s, highest}
  BY <1>2 DEF Run, Remember
<1>4. /\ seen' \subseteq seen \cup {s}
      /\ \A x \in seen \cup {s} : x >= highest' - SeenKeep => x \in seen'
  BY DEF Run, Remember
<1>5. ASSUME NEW x \in Ran'
      PROVE  x <= highest' /\ (x + SeenKeep >= highest' => x \in seen')
  <2>1. x \in Nat
    BY <1>1, <1>5 DEF NumberTypes
  <2>2. CASE x = s
    BY <1>2, <1>3, <1>4, <2>2
  <2>3. CASE x \in Ran
    <3>1. x <= highest /\ (x + SeenKeep >= highest => x \in seen)
      BY <2>3 DEF FilterExact
    <3>2. ASSUME x + SeenKeep >= highest' PROVE x \in seen'
      <4>1. x + SeenKeep >= highest /\ x >= highest' - SeenKeep
        <5>1. \A a, k, g, h \in Nat : g >= h /\ a + k >= g => a + k >= h /\ a >= g - k
          OBVIOUS
        <5>2. highest' \in Nat /\ highest' >= highest
          BY <1>3
        <5> QED
          BY <1>2, <2>1, <3>2, <5>1, <5>2
      <4> QED
        BY <1>4, <3>1, <4>1
    <3> QED
      BY <1>2, <1>3, <2>1, <3>1, <3>2
  <2> QED
    BY <1>1, <1>5, <2>2, <2>3
<1>6. seen' \subseteq Ran'
  BY <1>1, <1>4 DEF FilterExact
<1> QED
  BY <1>5, <1>6 DEF FilterExact

\* Every step keeps the filter exact.
LEMMA NextFilter == WireInv /\ FilterExact /\ [Next]_vars => FilterExact'
<1> SUFFICES ASSUME WireInv, FilterExact, [Next]_vars PROVE FilterExact'
  OBVIOUS
<1>1. CASE UNCHANGED <<seen, highest, ran>>
  BY <1>1 DEF FilterExact, Ran
<1>2. CASE seen' = {} /\ highest' = 0 /\ ran' = <<>>
  BY <1>2 DEF FilterExact, Ran
<1>3. CASE \E c \in Clients : \E s \in 1..outSeq : ReadAt(up[c], s) \/ ReadAt(late[c], s)
  BY <1>3, RunFilter DEF ReadAt, WireInv
<1> QED
  BY <1>1, <1>2, <1>3, FilterSteps

\* The filter refuses what already ran, as long as it is in the window.
LEMMA FreshInWindow ==
  ASSUME WireInv, InWindow, FilterExact, NEW c \in Clients, NEW s \in 1..outSeq,
         ReadAt(up[c], s) \/ ReadAt(late[c], s)
  PROVE  s \notin Ran
<1>1. s + SeenKeep >= highest
  <2>1. ASSUME NEW q \in Seq(0..outSeq), WindowOf(q), ReadAt(q, s)
        PROVE  s + SeenKeep >= highest
    <3>1. q # <<>> /\ s = Head(q)
      BY <2>1 DEF ReadAt
    <3>2. 1 \in 1..Len(q) /\ s = q[1]
      BY <3>1, TakeFirst
    <3> QED
      BY <2>1, <3>2 DEF WindowOf, Hello
  <2>2. up[c] \in Seq(0..outSeq) /\ late[c] \in Seq(0..outSeq)
    <3>1. 1..outSeq \subseteq 0..outSeq
      BY DEF WireInv, NumberTypes
    <3> QED
      BY <3>1, SeqGrows DEF WireInv, NumberTypes
  <2> QED
    BY <2>1, <2>2 DEF InWindow
<1>2. ~Duplicate(s)
  BY DEF ReadAt
<1> QED
  BY <1>1, <1>2 DEF FilterExact, Duplicate

\* One more command that did not run before.
LEMMA NextOnce ==
  WireInv /\ InWindow /\ FilterExact /\ AtMostOnce /\ [Next]_vars => AtMostOnce'
<1> SUFFICES ASSUME WireInv, InWindow, FilterExact, AtMostOnce, [Next]_vars
             PROVE  AtMostOnce'
  OBVIOUS
<1>1. CASE UNCHANGED <<seen, highest, ran>>
  BY <1>1 DEF AtMostOnce
<1>2. CASE seen' = {} /\ highest' = 0 /\ ran' = <<>>
  BY <1>2 DEF AtMostOnce
<1>3. ASSUME NEW c \in Clients, NEW s \in 1..outSeq, ReadAt(up[c], s) \/ ReadAt(late[c], s)
      PROVE  AtMostOnce'
  <2>1. s \notin Ran
    BY <1>3, FreshInWindow
  <2>2. ran \in Seq(1..outSeq) /\ ran' = Append(ran, s)
    BY <1>3 DEF WireInv, NumberTypes, ReadAt, Run
  <2>3. /\ Len(ran) \in Nat /\ Len(ran') = Len(ran) + 1 /\ ran'[Len(ran) + 1] = s
        /\ \A i \in 1..Len(ran) : ran'[i] = ran[i] /\ ran[i] # s
    BY <2>1, <2>2 DEF Ran
  <2> QED
    BY <2>3 DEF AtMostOnce
<1> QED
  BY <1>1, <1>2, <1>3, FilterSteps

\* InboundStream.accept and the window: as long as no frame in flight lags more than
\* SeenKeep behind the newest, a resent, late or duplicated command is never given to a
\* handler twice by one daemon process.
THEOREM NothingRunsTwice == Spec /\ []InWindow => []AtMostOnce
<1>1. Init => WireInv /\ FilterExact /\ AtMostOnce
  BY WireInit DEF Init, FilterExact, AtMostOnce, Ran
<1> QED
  BY <1>1, Invariance, NextWire, NextFilter, NextOnce, PTL DEF Spec
----------------------------------------------------------------------------
(* Order.                                                                  *)

\* The daemon's level and the acks in flight, when a command runs.
LEMMA RunKeepsAcks ==
  ASSUME AcksRan, NumberTypes, NEW s \in 1..outSeq, Run(s)
  PROVE  /\ through' \in Nat /\ 1..through' \subseteq Ran'
         /\ ahead' \subseteq Ran'
         /\ Seq(RanFrames) \subseteq Seq(RanFrames')
<1>1. Ran' = Ran \cup {s}
  BY RanGrows
<1>2. Seq(RanFrames) \subseteq Seq(RanFrames')
  <2>1. RanFrames \subseteq RanFrames'
    BY <1>1 DEF RanFrames
  <2> QED
    BY <2>1, SeqGrows
<1>3. CASE UNCHANGED level
  BY <1>1, <1>2, <1>3 DEF level, AcksRan
<1>4. CASE MarkProcessed(s)
  BY <1>1, <1>2, <1>4, LevelKept DEF AcksRan
<1> QED
  BY <1>3, <1>4 DEF Run

\* Every step keeps AcksRan.
LEMMA NextAcks == IInv /\ WireInv /\ FilterExact /\ AcksRan /\ [Next]_vars => AcksRan'
<1> SUFFICES ASSUME IInv, WireInv, FilterExact, AcksRan, [Next]_vars PROVE AcksRan'
  OBVIOUS
<1>0. NumberTypes /\ down \in [Clients -> Seq(RanFrames)]
  BY DEF WireInv, AcksRan, RanFrames, IInv
<1>a. ASSUME UNCHANGED <<ran, level>>, down' \in [Clients -> Seq(RanFrames)]
      PROVE  AcksRan'
  BY <1>a DEF AcksRan, level, Ran, RanFrames
<1>1. UNCHANGED vars => AcksRan'
  BY <1>0, <1>a DEF vars, daemonVars
<1>2. ASSUME NEW c \in Clients,
             SendWrite(c) \/ SendRefused(c) \/ SendRead(c) \/ Open(c)
      PROVE  AcksRan'
  BY <1>0, <1>2, <1>a DEF SendWrite, SendRefused, SendRead, Open, daemonVars
<1>3. ASSUME NEW c \in Clients, ReceiveSalt(c) \/ ReceiveAck(c) PROVE AcksRan'
  <2>1. down' = [down EXCEPT ![c] = Tail(@)] /\ down[c] # <<>>
    BY <1>3 DEF ReceiveSalt, ReceiveAck
  <2>2. Tail(down[c]) \in Seq(RanFrames)
    BY <1>0, <2>1, TakeFirst
  <2>3. down' \in [Clients -> Seq(RanFrames)]
    BY <1>0, <2>1, <2>2
  <2> QED
    BY <1>3, <1>a, <2>3 DEF ReceiveSalt, ReceiveAck, daemonVars
<1>4. ASSUME NEW c \in Clients, DaemonHello(c) PROVE AcksRan'
  <2>1. Salt \in RanFrames /\ Ack(through) \in RanFrames
    BY DEF Salt, Ack, RanFrames, AcksRan
  <2>2. down' \in [Clients -> Seq(RanFrames)]
    BY <1>0, <1>4, <2>1 DEF DaemonHello
  <2> QED
    BY <1>4, <1>a, <2>2 DEF DaemonHello, daemonVars
<1>5. ASSUME NEW c \in Clients, DaemonFrame(c) PROVE AcksRan'
  <2> DEFINE s == Head(up[c])
  <2>1. CASE UNCHANGED <<daemonVars, down>>
    BY <1>0, <1>a, <2>1 DEF daemonVars
  <2>2. CASE /\ Run(s)
             /\ down' = [down EXCEPT ![c] = IF through' > 0 THEN Append(@, Ack(through')) ELSE @]
    <3>1. s \in 1..outSeq
      BY <1>5, TakeFirst DEF DaemonFrame, WireInv, WireAt
    <3>2. /\ through' \in Nat /\ 1..through' \subseteq Ran' /\ ahead' \subseteq Ran'
          /\ Seq(RanFrames) \subseteq Seq(RanFrames')
      BY <1>0, <2>2, <3>1, RunKeepsAcks
    <3>3. Ack(through') \in RanFrames'
      BY <3>2 DEF Ack, RanFrames
    <3>4. down' \in [Clients -> Seq(RanFrames')]
      <4>1. down \in [Clients -> Seq(RanFrames')]
        BY <1>0, <3>2
      <4> QED
        BY <2>2, <3>3, <4>1
    <3> QED
      BY <3>2, <3>4 DEF AcksRan, RanFrames
  <2> QED
    BY <1>5, <2>1, <2>2 DEF DaemonFrame
<1>6. ASSUME NEW c \in Clients, LateFrame(c) PROVE AcksRan'
  <2>1. CASE UNCHANGED daemonVars
    BY <1>0, <1>6, <1>a, <2>1 DEF LateFrame, daemonVars
  <2>2. CASE Run(Head(late[c]))
    <3>1. Head(late[c]) \in 1..outSeq
      BY <1>0, <1>6, TakeFirst DEF LateFrame, NumberTypes
    <3>2. /\ through' \in Nat /\ 1..through' \subseteq Ran' /\ ahead' \subseteq Ran'
          /\ Seq(RanFrames) \subseteq Seq(RanFrames')
      BY <1>0, <2>2, <3>1, RunKeepsAcks
    <3>3. down' \in [Clients -> Seq(RanFrames')]
      BY <1>0, <1>6, <3>2 DEF LateFrame
    <3> QED
      BY <3>2, <3>3 DEF AcksRan, RanFrames
  <2> QED
    BY <1>6, <2>1, <2>2 DEF LateFrame
<1>7. ASSUME NEW c \in Clients, Drop(c) \/ Quit(c) PROVE AcksRan'
  <2>1. down' = [down EXCEPT ![c] = <<>>] /\ <<>> \in Seq(RanFrames)
    BY <1>7 DEF Drop, Quit, LoseConnection
  <2>2. down' \in [Clients -> Seq(RanFrames)]
    BY <1>0, <2>1
  <2> QED
    BY <1>7, <1>a, <2>2 DEF Drop, Quit, daemonVars
<1>8. ASSUME Restart PROVE AcksRan'
  BY <1>8 DEF Restart, AcksRan
<1> QED
  BY <1>1, <1>2, <1>3, <1>4, <1>5, <1>6, <1>7, <1>8 DEF Next

\* A queue read to its first element.
LEMMA OrderedTail ==
  ASSUME NEW S, NEW q \in Seq(S), q # <<>>, NEW W, NEW B, NEW C,
         Ordered(q, W, B), C \subseteq B, Head(q) \notin C
  PROVE  /\ Ordered(Tail(q), W, C)
         /\ In(Tail(q)) \subseteq In(q) /\ In(q) \subseteq In(Tail(q)) \cup {Head(q)}
<1>1. /\ Len(q) \in Nat \ {0} /\ Head(q) = q[1]
      /\ Len(Tail(q)) = Len(q) - 1 /\ \A i \in 1..Len(q) - 1 : Tail(q)[i] = q[i + 1]
  BY TakeFirst
<1>2. ASSUME NEW i \in 1..Len(Tail(q)), Tail(q)[i] \in W, NEW s \in C, s < Tail(q)[i]
      PROVE  \E k \in 1..i - 1 : Tail(q)[k] = s
  <2>1. i + 1 \in 1..Len(q) /\ Tail(q)[i] = q[i + 1]
    BY <1>1
  <2>2. PICK k \in 1..(i + 1) - 1 : q[k] = s
    BY <1>2, <2>1 DEF Ordered
  <2>3. k # 1
    BY <1>1, <1>2, <2>2
  <2>4. k - 1 \in 1..i - 1 /\ k - 1 \in 1..Len(q) - 1 /\ (k - 1) + 1 = k
    BY <1>1, <2>2, <2>3
  <2> QED
    BY <1>1, <2>2, <2>4
<1>3. In(Tail(q)) \subseteq In(q)
  <2>1. \A i \in 1..Len(q) - 1 : i + 1 \in 1..Len(q)
    BY <1>1
  <2> QED
    BY <1>1, <2>1 DEF In
<1>4. In(q) \subseteq In(Tail(q)) \cup {Head(q)}
  <2>1. \A i \in 1..Len(q) : i = 1 \/ (i - 1 \in 1..Len(q) - 1 /\ (i - 1) + 1 = i)
    BY <1>1
  <2> QED
    BY <1>1, <2>1 DEF In
<1> QED
  BY <1>2, <1>3, <1>4 DEF Ordered

\* A queue cut short.
LEMMA OrderedPrefix ==
  ASSUME NEW S, NEW q \in Seq(S), NEW W, NEW B, Ordered(q, W, B), NEW n \in 1..Len(q)
  PROVE  Ordered(SubSeq(q, 1, n), W, B) /\ In(SubSeq(q, 1, n)) \subseteq In(q)
<1> DEFINE p == SubSeq(q, 1, n)
<1>1. Len(q) \in Nat /\ n \in Nat /\ 1 <= n /\ n <= Len(q) /\ 1..n \subseteq 1..Len(q)
  OBVIOUS
<1>2. \A i \in 1..n : q[i] \in S
  BY <1>1, ElementOfSeq
<1>3. Len(p) = n /\ \A i \in 1..n : p[i] = q[i]
  <2>1. /\ Len(p) = IF 1 <= n THEN n - 1 + 1 ELSE 0
        /\ \A i \in 1..n - 1 + 1 : p[i] = q[1 + i - 1]
    BY <1>1, <1>2, SubSeqProperties
  <2>2. n - 1 + 1 = n /\ \A i \in 1..n : 1 + i - 1 = i
    BY <1>1
  <2> HIDE DEF p
  <2> QED
    BY <1>1, <2>1, <2>2
<1> HIDE DEF p
<1>4. Ordered(p, W, B)
  <2> SUFFICES ASSUME NEW i \in 1..n, q[i] \in W, NEW s \in B, s < q[i]
               PROVE  \E k \in 1..i - 1 : p[k] = s
    BY <1>3 DEF Ordered
  <2>1. PICK k \in 1..i - 1 : q[k] = s
    BY <1>1 DEF Ordered
  <2>2. k \in 1..n
    BY <1>1
  <2> QED
    BY <1>3, <2>1, <2>2
<1>5. In(p) \subseteq In(q)
  BY <1>1, <1>3 DEF In
<1> QED
  BY <1>4, <1>5 DEF p

\* A queue with a new number at its end, which goes behind all that must come first.
LEMMA OrderedAppend ==
  ASSUME NEW S, NEW q \in Seq(S), NEW n \in S, NEW W, NEW B, Ordered(q, W, B),
         n \in W => \A s \in B : s < n => s \in In(q)
  PROVE  Ordered(Append(q, n), W, B) /\ In(Append(q, n)) = In(q) \cup {n}
<1> DEFINE p == Append(q, n)
<1>1. /\ Len(q) \in Nat /\ Len(p) = Len(q) + 1 /\ p[Len(q) + 1] = n
      /\ \A i \in 1..Len(q) : p[i] = q[i]
  OBVIOUS
<1>2. 1..Len(p) = (1..Len(q)) \cup {Len(q) + 1}
  BY <1>1
<1> HIDE DEF p
<1>3. ASSUME NEW i \in 1..Len(p), p[i] \in W, NEW s \in B, s < p[i]
      PROVE  \E k \in 1..i - 1 : p[k] = s
  <2>1. CASE i \in 1..Len(q)
    <3>1. PICK k \in 1..i - 1 : q[k] = s
      BY <1>1, <1>3, <2>1 DEF Ordered
    <3>2. k \in 1..Len(q)
      BY <1>1, <2>1
    <3> QED
      BY <1>1, <3>1, <3>2
  <2>2. CASE i = Len(q) + 1
    <3>1. s \in In(q)
      BY <1>1, <1>3, <2>2
    <3>2. PICK k \in 1..Len(q) : q[k] = s
      BY <3>1 DEF In
    <3> QED
      BY <1>1, <2>2, <3>2
  <2> QED
    BY <1>2, <2>1, <2>2
<1>4. In(p) = In(q) \cup {n}
  BY <1>1, <1>2 DEF In
<1> QED
  BY <1>3, <1>4 DEF Ordered, p

\* A queue in ascending order that holds all of B.
LEMMA OrderedAscending ==
  ASSUME NEW q \in Seq(Nat), Ascending(q), NEW W, NEW B, B \subseteq In(q)
  PROVE  Ordered(q, W, B)
<1> SUFFICES ASSUME NEW i \in 1..Len(q), NEW s \in B, s < q[i]
             PROVE  \E k \in 1..i - 1 : q[k] = s
  BY DEF Ordered
<1>1. PICK k \in 1..Len(q) : q[k] = s
  BY DEF In
<1>2. Len(q) \in Nat /\ DOMAIN q = 1..Len(q) /\ q[i] \in Nat /\ q[k] \in Nat
  OBVIOUS
<1>3. i < k => q[i] < q[k]
  BY <1>2 DEF Ascending
<1>4. k < i
  BY <1>1, <1>2, <1>3
<1> QED
  BY <1>1, <1>2, <1>4

\* Nothing is wrong with an empty queue.
LEMMA FlightEmpty ==
  ASSUME NEW c, NEW W, NEW B, NEW R
  PROVE  Flight(<<>>, c, W, B, R)
BY DEF Flight, Ordered, In

\* More commands ran, and the buffer dropped only commands that ran.
LEMMA FlightLess ==
  ASSUME NEW q, NEW c, NEW W, NEW B, NEW R, NEW B1, NEW R1,
         Flight(q, c, W, B, R), R \subseteq R1, B1 \subseteq B, B \ R1 \subseteq B1
  PROVE  Flight(q, c, W, B1, R1)
<1>1. Ordered(q, W[c], B1 \ R1)
  <2>1. B1 \ R1 \subseteq B \ R
    OBVIOUS
  <2> QED
    BY <2>1 DEF Flight, Ordered
<1>2. (In(q) \cap W[c]) \ R1 \subseteq B1
  BY DEF Flight
<1> QED
  BY <1>1, <1>2 DEF Flight

\* The first frame of the queue is read, and has run then.
LEMMA FlightTail ==
  ASSUME NEW S, NEW q \in Seq(S), q # <<>>, NEW c, NEW W, NEW B, NEW R, NEW R1,
         Flight(q, c, W, B, R), R \subseteq R1, Head(q) \in R1
  PROVE  Flight(Tail(q), c, W, B, R1) /\ (B \ R \subseteq In(q) => B \ R1 \subseteq In(Tail(q)))
<1>1. /\ Ordered(Tail(q), W[c], B \ R1)
      /\ In(Tail(q)) \subseteq In(q) /\ In(q) \subseteq In(Tail(q)) \cup {Head(q)}
  <2>1. B \ R1 \subseteq B \ R /\ Head(q) \notin B \ R1 /\ Ordered(q, W[c], B \ R)
    BY DEF Flight
  <2> QED
    BY <2>1, OrderedTail
<1>2. \A d \in Clients : In(Tail(q)) \cap W[d] # {} => d = c
  BY <1>1 DEF Flight
<1>3. (In(Tail(q)) \cap W[c]) \ R1 \subseteq B
  BY <1>1 DEF Flight
<1> QED
  BY <1>1, <1>2, <1>3 DEF Flight

\* The first frame of a queue comes before all that did not run.
LEMMA FlightHead ==
  ASSUME NEW S, NEW q \in Seq(S), q # <<>>, NEW c, NEW W, NEW B, NEW R,
         Flight(q, c, W, B, R), Head(q) \in W[c]
  PROVE  \A s \in B \ R : ~(s < Head(q))
<1>1. Len(q) \in Nat \ {0} /\ Head(q) = q[1] /\ 1 \in 1..Len(q)
  BY TakeFirst
<1>2. Ordered(q, W[c], B \ R)
  BY DEF Flight
<1>3. \A k \in 1..1 - 1 : FALSE
  OBVIOUS
<1> QED
  BY <1>1, <1>2, <1>3 DEF Ordered

\* A connection's last frames are lost.
LEMMA FlightPrefix ==
  ASSUME NEW S, NEW q \in Seq(S), NEW n \in 1..Len(q), NEW c, NEW W, NEW B, NEW R,
         Flight(q, c, W, B, R)
  PROVE  Flight(SubSeq(q, 1, n), c, W, B, R)
<1>1. Ordered(SubSeq(q, 1, n), W[c], B \ R) /\ In(SubSeq(q, 1, n)) \subseteq In(q)
  BY OrderedPrefix DEF Flight
<1> QED
  BY <1>1 DEF Flight

\* A command is read from one of c's queues, up or late, and run unless it is a duplicate.
LEMMA OrderRead ==
  ASSUME WireInv, FilterExact, \A d \in Clients : OrderAt(d), NEW c \in Clients,
         UNCHANGED <<writes, buffer, link>>,
         NEW q \in {up[c], late[c]}, q # <<>>, q \in Seq(1..outSeq),
         Run(Head(q)) \/ (Duplicate(Head(q)) /\ UNCHANGED daemonVars),
         \A d \in Clients : \/ UNCHANGED <<up[d], late[d]>>
                            \/ d = c /\ q = up[c] /\ up'[c] = Tail(q) /\ UNCHANGED late[c]
                            \/ d = c /\ q = late[c] /\ late'[c] = Tail(q) /\ UNCHANGED up[c]
  PROVE  \A d \in Clients : OrderAt(d)'
<1> DEFINE h == Head(q)
<1>0. h \in 1..outSeq
  BY TakeFirst
<1>1. Ran \subseteq Ran' /\ h \in Ran' /\ Ran' \subseteq Ran \cup {h}
  <2>1. CASE Run(h)
    BY <1>0, <2>1, RanGrows DEF WireInv
  <2>2. CASE Duplicate(h) /\ UNCHANGED daemonVars
    BY <2>2 DEF Duplicate, FilterExact, daemonVars, Ran
  <2> QED
    BY <2>1, <2>2
<1> SUFFICES ASSUME NEW d \in Clients PROVE OrderAt(d)'
  OBVIOUS
<1>2. OrderAt(d)
  OBVIOUS
<1>3. /\ Flight(up[d], d, writes, buffer[d], Ran)
      /\ Flight(late[d], d, writes, buffer[d], Ran)
      /\ Flight(q, c, writes, buffer[c], Ran)
  BY <1>2 DEF OrderAt
<1>4. /\ Flight(up[d], d, writes, buffer[d], Ran')
      /\ Flight(late[d], d, writes, buffer[d], Ran')
  BY <1>1, <1>3, FlightLess
<1>5. /\ Flight(Tail(q), c, writes, buffer[c], Ran')
      /\ buffer[c] \ Ran \subseteq In(q) => buffer[c] \ Ran' \subseteq In(Tail(q))
  BY <1>1, <1>3, FlightTail
<1>6. /\ Flight(up'[d], d, writes, buffer[d], Ran')
      /\ Flight(late'[d], d, writes, buffer[d], Ran')
  <2>1. CASE up'[d] = up[d] /\ late'[d] = late[d]
    BY <1>4, <2>1
  <2>2. CASE d = c /\ up'[d] = Tail(q) /\ late'[d] = late[d]
    BY <1>4, <1>5, <2>2
  <2>3. CASE d = c /\ late'[d] = Tail(q) /\ up'[d] = up[d]
    BY <1>4, <1>5, <2>3
  <2> QED
    BY <2>1, <2>2, <2>3
<1>7. link[d] = "ready" => buffer[d] \ Ran' \subseteq In(up'[d])
  BY <1>1, <1>2, <1>5 DEF OrderAt
<1>8. ASSUME NEW t \in Ran' \cap writes[d], NEW s \in buffer[d] \ Ran'
      PROVE  s > t
  <2>1. s \in buffer[d] \ Ran
    BY <1>1, <1>8
  <2>2. CASE t \in Ran
    BY <1>2, <1>8, <2>1, <2>2 DEF OrderAt
  <2>3. CASE t = h
    <3>1. d = c
      <4>1. h \in In(q)
        BY TakeFirst DEF In
      <4> QED
        BY <1>3, <1>8, <2>3, <4>1 DEF Flight
    <3>2. ~(s < h)
      BY <1>3, <1>8, <2>1, <2>3, <3>1, FlightHead
    <3>3. s # h /\ s \in Nat /\ h \in Nat
      BY <1>0, <1>1, <1>8 DEF WireInv, NumberTypes
    <3> QED
      BY <2>3, <3>2, <3>3
  <2> QED
    BY <1>1, <1>8, <2>2, <2>3
<1> HIDE DEF h
<1> QED
  BY <1>2, <1>6, <1>7, <1>8 DEF OrderAt

\* A number is drawn: no queue, buffer or history holds it yet.
LEMMA NewNumber ==
  ASSUME WireInv, Reserve
  PROVE  /\ outSeq' \in Nat
         /\ outSeq' \notin Ran
         /\ \A d \in Clients : /\ \A w \in writes[d] : w < outSeq'
                               /\ \A w \in buffer[d] : w < outSeq'
                               /\ \A w \in In(up[d]) \cup In(late[d]) : w < outSeq' /\ w \in Nat
<1>1. outSeq \in Nat /\ outSeq' = outSeq + 1
  BY DEF WireInv, NumberTypes, Reserve
<1>2. ASSUME NEW q, q \in Seq(0..outSeq) \/ q \in Seq(1..outSeq), NEW w \in In(q)
      PROVE  w < outSeq' /\ w \in Nat
  <2>1. PICK i \in 1..Len(q) : w = q[i]
    BY <1>2 DEF In
  <2>2. w \in 0..outSeq
    <3>1. q \in Seq(0..outSeq) => w \in 0..outSeq
      BY <2>1, ElementOfSeq
    <3>2. q \in Seq(1..outSeq) => w \in 1..outSeq
      BY <2>1, ElementOfSeq
    <3> QED
      BY <1>1, <1>2, <3>1, <3>2
  <2> QED
    BY <1>1, <2>2
<1>3. outSeq' \notin Ran
  <2>1. Ran = In(ran) /\ ran \in Seq(1..outSeq)
    BY DEF Ran, In, WireInv, NumberTypes
  <2>2. \A w \in Ran : w < outSeq'
    BY <1>2, <2>1
  <2> QED
    BY <1>1, <2>2
<1>4. ASSUME NEW d \in Clients
      PROVE  \A w \in In(up[d]) \cup In(late[d]) : w < outSeq' /\ w \in Nat
  <2>1. up[d] \in Seq(0..outSeq) /\ late[d] \in Seq(1..outSeq)
    BY DEF WireInv, NumberTypes
  <2> QED
    BY <1>2, <2>1
<1>5. ASSUME NEW d \in Clients
      PROVE  (\A w \in writes[d] : w < outSeq') /\ (\A w \in buffer[d] : w < outSeq')
  <2>1. writes[d] \subseteq 1..outSeq /\ buffer[d] \subseteq 1..outSeq
    BY DEF WireInv, NumberTypes
  <2> QED
    BY <1>1, <2>1
<1> QED
  BY <1>1, <1>3, <1>4, <1>5

\* A new write does not concern a queue that does not carry it.
LEMMA FlightNewWrite ==
  ASSUME NEW q, NEW d \in Clients, NEW W, NEW B, NEW R, NEW n \in Nat,
         NEW W1, \A e \in Clients : \A w : w # n => (w \in W1[e] <=> w \in W[e]),
         NEW B1, \A w : w # n => (w \in B1 <=> w \in B),
         Flight(q, d, W, B, R), \A w \in In(q) : w < n /\ w \in Nat
  PROVE  Flight(q, d, W1, B1, R)
<1>1. n \notin In(q)
  OBVIOUS
<1>2. \A e \in Clients : In(q) \cap W1[e] = In(q) \cap W[e]
  BY <1>1
<1>3. Ordered(q, W1[d], B1 \ R)
  <2>1. Ordered(q, W[d], B \ R)
    BY DEF Flight
  <2>2. \A i \in 1..Len(q) : q[i] \in In(q)
    BY DEF In
  <2>3. ASSUME NEW i \in 1..Len(q), q[i] \in W1[d], NEW s \in B1 \ R, s < q[i]
        PROVE  \E k \in 1..i - 1 : q[k] = s
    <3>1. q[i] \in W[d] /\ q[i] < n /\ q[i] \in Nat
      BY <1>2, <2>2, <2>3
    <3>2. s # n
      BY <2>3, <3>1
    <3>3. s \in B \ R
      BY <2>3, <3>2
    <3> QED
      BY <2>1, <2>3, <3>1, <3>3 DEF Ordered
  <2> QED
    BY <2>3 DEF Ordered
<1>4. (In(q) \cap W1[d]) \ R \subseteq B1
  BY <1>2 DEF Flight
<1> QED
  BY <1>2, <1>3, <1>4 DEF Flight

\* A client's new number goes to the end of its queue, behind all it has not run.
LEMMA FlightAppend ==
  ASSUME NEW S, NEW q \in Seq(S), NEW n \in S, NEW c \in Clients, NEW W, NEW B, NEW R,
         Flight(q, c, W, B, R), \A d \in Clients : n \in W[d] => d = c,
         n \in W[c] => n \in B /\ \A s \in B \ R : s < n => s \in In(q)
  PROVE  Flight(Append(q, n), c, W, B, R) /\ In(Append(q, n)) = In(q) \cup {n}
<1>1. Ordered(Append(q, n), W[c], B \ R) /\ In(Append(q, n)) = In(q) \cup {n}
  BY OrderedAppend DEF Flight
<1>2. \A d \in Clients : In(Append(q, n)) \cap W[d] # {} => d = c
  BY <1>1 DEF Flight
<1>3. (In(Append(q, n)) \cap W[c]) \ R \subseteq B
  BY <1>1 DEF Flight
<1> QED
  BY <1>1, <1>2, <1>3 DEF Flight

\* A write is buffered and goes out.
LEMMA OrderWrite ==
  ASSUME WireInv, \A d \in Clients : OrderAt(d), NEW c \in Clients, SendWrite(c)
  PROVE  \A d \in Clients : OrderAt(d)'
<1> DEFINE n == outSeq'
<1>1. Reserve /\ Transmit(c, n) /\ UNCHANGED <<link, late, ran>>
      /\ buffer' = [buffer EXCEPT ![c] = @ \cup {n}]
      /\ writes' = [writes EXCEPT ![c] = @ \cup {n}]
  BY DEF SendWrite, daemonVars
<1>2. /\ n \in Nat /\ n \notin Ran
      /\ \A d \in Clients : /\ \A w \in writes[d] : w < n
                            /\ \A w \in buffer[d] : w < n
                            /\ \A w \in In(up[d]) \cup In(late[d]) : w < n /\ w \in Nat
  BY <1>1, NewNumber
<1>3. /\ DOMAIN writes = Clients /\ DOMAIN buffer = Clients /\ DOMAIN up = Clients
      /\ Ran' = Ran
      /\ \A d \in Clients : /\ writes[d] \subseteq Nat /\ buffer[d] \subseteq Nat
                            /\ up[d] \in Seq(Nat)
  <2>1. 0..outSeq \subseteq Nat /\ 1..outSeq \subseteq Nat
    BY DEF WireInv, NumberTypes
  <2>2. Seq(0..outSeq) \subseteq Seq(Nat)
    BY <2>1, SeqGrows
  <2> QED
    BY <1>1, <2>1, <2>2 DEF WireInv, NumberTypes, Ran
<1> HIDE DEF n
<1> SUFFICES ASSUME NEW d \in Clients PROVE OrderAt(d)'
  OBVIOUS
<1>4. OrderAt(d) /\ OrderAt(c)
  OBVIOUS
<1>5. buffer'[d] = buffer[d] \/ (d = c /\ buffer'[d] = buffer[d] \cup {n})
  BY <1>1, <1>3
<1>6. /\ Flight(up[d], d, writes', buffer'[d], Ran)
      /\ Flight(late[d], d, writes', buffer'[d], Ran)
  <2>1. /\ Flight(up[d], d, writes, buffer[d], Ran)
        /\ Flight(late[d], d, writes, buffer[d], Ran)
    BY <1>4 DEF OrderAt
  <2> QED
    <3>1. \A e \in Clients : \A w : w # n => (w \in writes'[e] <=> w \in writes[e])
      BY <1>1, <1>3
    <3>2. \A w : w # n => (w \in buffer'[d] <=> w \in buffer[d])
      BY <1>5
    <3>3. /\ \A w \in In(up[d]) : w < n /\ w \in Nat
          /\ \A w \in In(late[d]) : w < n /\ w \in Nat
      BY <1>2
    <3>4. n \in Nat
      BY <1>2
    <3>5. Flight(up[d], d, writes', buffer'[d], Ran)
      BY <2>1, <3>1, <3>2, <3>3, <3>4, FlightNewWrite
    <3>6. Flight(late[d], d, writes', buffer'[d], Ran)
      BY <2>1, <3>1, <3>2, <3>3, <3>4, FlightNewWrite
    <3> QED
      BY <3>5, <3>6
<1>7. buffer'[d] \subseteq writes'[d]
  BY <1>1, <1>3, <1>4 DEF OrderAt
<1>8. \A e \in Clients : writes'[d] \cap writes'[e] # {} => e = d
  <2>1. \A e \in Clients : n \notin writes[e]
    BY <1>2
  <2> QED
    BY <1>1, <1>3, <1>4, <2>1 DEF OrderAt
<1>9. \A t \in Ran \cap writes'[d] : \A s \in buffer'[d] \ Ran : s > t
  <2>1. \A t \in Ran \cap writes'[d] : t \in writes[d] /\ t < n /\ t \in Nat
    BY <1>1, <1>2, <1>3
  <2>2. \A t \in Ran \cap writes[d] : \A s \in buffer[d] \ Ran : s > t
    BY <1>4 DEF OrderAt
  <2>3. \A t \in Nat : t < n => n > t
    BY <1>2
  <2> QED
    BY <1>5, <2>1, <2>2, <2>3
<1>10. /\ Flight(up'[d], d, writes', buffer'[d], Ran)
       /\ link[d] = "ready" => buffer'[d] \ Ran \subseteq In(up'[d])
  <2>1. CASE d = c /\ link[c] = "ready"
    <3>1. up'[c] = Append(up[c], n)
      BY <1>1, <1>3, <2>1 DEF Transmit
    <3>2. buffer[c] \ Ran \subseteq In(up[c])
      BY <1>4, <2>1 DEF OrderAt
    <3>3. buffer'[c] = buffer[c] \cup {n} /\ n \in writes'[c]
      BY <1>1, <1>3
    <3>4. \A e \in Clients : n \in writes'[e] => e = c
      BY <1>8, <2>1, <3>3
    <3>5. \A s \in buffer'[c] \ Ran : s < n => s \in In(up[c])
      BY <1>2, <3>2, <3>3
    <3>6. /\ Flight(Append(up[c], n), c, writes', buffer'[c], Ran)
          /\ In(Append(up[c], n)) = In(up[c]) \cup {n}
      <4>1. n \in writes'[c] =>
              n \in buffer'[c] /\ \A s \in buffer'[c] \ Ran : s < n => s \in In(up[c])
        BY <3>3, <3>5
      <4>2. n \in Nat /\ up[c] \in Seq(Nat) /\ Flight(up[c], c, writes', buffer'[c], Ran)
        BY <1>2, <1>3, <1>6, <2>1
      <4> QED
        BY <3>4, <4>1, <4>2, FlightAppend
    <3> QED
      BY <2>1, <3>1, <3>2, <3>3, <3>6
  <2>2. CASE d # c
    BY <1>1, <1>3, <1>4, <1>6, <2>2 DEF Transmit, OrderAt
  <2>3. CASE d = c /\ link[c] # "ready"
    BY <1>1, <1>6, <2>3 DEF Transmit
  <2> QED
    BY <2>1, <2>2, <2>3
<1> QED
  BY <1>1, <1>3, <1>6, <1>7, <1>8, <1>9, <1>10 DEF OrderAt

\* A read takes a number and a place in the queue, and concerns no write.
LEMMA OrderReadSent ==
  ASSUME WireInv, \A d \in Clients : OrderAt(d), NEW c \in Clients, SendRead(c)
  PROVE  \A d \in Clients : OrderAt(d)'
<1> DEFINE n == outSeq'
<1>1. Reserve /\ Transmit(c, n) /\ UNCHANGED <<link, late, ran, buffer, writes>>
  BY DEF SendRead, daemonVars, clientVars
<1>2. n \in Nat /\ \A d \in Clients : \A w \in writes[d] : w < n
  BY <1>1, NewNumber
<1>3. /\ DOMAIN up = Clients /\ Ran' = Ran
      /\ \A d \in Clients : up[d] \in Seq(Nat) /\ n \notin writes[d]
  <2>1. 0..outSeq \subseteq Nat
    BY DEF WireInv, NumberTypes
  <2>2. Seq(0..outSeq) \subseteq Seq(Nat)
    BY <2>1, SeqGrows
  <2> QED
    BY <1>1, <1>2, <2>2 DEF WireInv, NumberTypes, Ran
<1> HIDE DEF n
<1> SUFFICES ASSUME NEW d \in Clients PROVE OrderAt(d)'
  OBVIOUS
<1>4. OrderAt(d)
  OBVIOUS
<1>5. CASE up'[d] = up[d]
  BY <1>1, <1>3, <1>4, <1>5 DEF OrderAt
<1>6. CASE d = c /\ up'[c] = Append(up[c], n)
  <2>1. Flight(up[c], c, writes, buffer[c], Ran)
    BY <1>4, <1>6 DEF OrderAt
  <2>2. Flight(up'[c], c, writes, buffer[c], Ran) /\ In(up'[c]) = In(up[c]) \cup {n}
    <3>1. n \in writes[c] =>
            n \in buffer[c] /\ \A s \in buffer[c] \ Ran : s < n => s \in In(up[c])
      BY <1>3
    <3>2. \A e \in Clients : n \in writes[e] => e = c
      BY <1>3
    <3>3. n \in Nat /\ up[c] \in Seq(Nat)
      BY <1>2, <1>3
    <3>4. /\ Flight(Append(up[c], n), c, writes, buffer[c], Ran)
          /\ In(Append(up[c], n)) = In(up[c]) \cup {n}
      BY <2>1, <3>1, <3>2, <3>3, FlightAppend
    <3> QED
      BY <1>6, <3>4
  <2> QED
    BY <1>1, <1>3, <1>4, <1>6, <2>2 DEF OrderAt
<1> QED
  BY <1>1, <1>3, <1>5, <1>6 DEF Transmit

\* Every step keeps the order.
LEMMA NextOrder ==
  IInv /\ WireInv /\ FilterExact /\ OrderInv /\ [Next]_vars => OrderInv'
<1> SUFFICES ASSUME IInv, WireInv, FilterExact, OrderInv, [Next]_vars PROVE OrderInv'
  OBVIOUS
<1>0. /\ NumberTypes /\ authed \subseteq Clients /\ AcksRan
      /\ \A c \in Clients : WireAt(c) /\ OrderAt(c)
  BY DEF WireInv, OrderInv
<1>a. ASSUME \A d \in Clients : OrderAt(d)' PROVE OrderInv'
  BY <1>0, <1>a, NextAcks DEF OrderInv
<1>b. ASSUME UNCHANGED <<writes, buffer, ran, late>>, NEW c \in Clients,
             \A d \in Clients \ {c} : UNCHANGED <<up[d], link[d]>>,
             Flight(up'[c], c, writes, buffer[c], Ran),
             link'[c] = "ready" => buffer[c] \ Ran \subseteq In(up'[c])
      PROVE  OrderInv'
  <2>1. Ran' = Ran
    BY <1>b DEF Ran
  <2>2. ASSUME NEW d \in Clients PROVE OrderAt(d)'
    <3>1. CASE d = c
      BY <1>0, <1>b, <2>1, <3>1 DEF OrderAt
    <3>2. CASE d # c
      <4>1. up'[d] = up[d] /\ link'[d] = link[d]
        BY <1>b, <3>2
      <4> QED
        BY <1>0, <1>b, <2>1, <4>1 DEF OrderAt
    <3> QED
      BY <3>1, <3>2
  <2> QED
    BY <1>a, <2>2
<1>c. ASSUME UNCHANGED <<writes, buffer, ran, late, up, link>> PROVE OrderInv'
  BY <1>0, <1>a, <1>c DEF OrderAt, Ran
<1>1. UNCHANGED vars => OrderInv'
  BY <1>c DEF vars, clientVars, daemonVars
<1>2. ASSUME NEW c \in Clients, SendWrite(c) \/ SendRead(c) PROVE OrderInv'
  BY <1>0, <1>2, <1>a, OrderWrite, OrderReadSent
<1>3. ASSUME NEW c \in Clients, SendRefused(c) PROVE OrderInv'
  BY <1>3, <1>c DEF SendRefused, clientVars, daemonVars
<1>4. ASSUME NEW c \in Clients, Open(c) PROVE OrderInv'
  <2>1. up' = [up EXCEPT ![c] = <<Hello>>] /\ link' = [link EXCEPT ![c] = "open"]
        /\ UNCHANGED <<writes, buffer, ran, late>>
    BY <1>4 DEF Open, daemonVars
  <2>2. up'[c] = <<0>> /\ link'[c] = "open"
        /\ \A d \in Clients \ {c} : up'[d] = up[d] /\ link'[d] = link[d]
    BY <1>0, <2>1 DEF NumberTypes, Hello
  <2>3. Flight(<<0>>, c, writes, buffer[c], Ran)
    <3>1. In(<<0>>) = {0}
      BY DEF In
    <3>2. \A d \in Clients : 0 \notin writes[d]
      BY <1>0 DEF NumberTypes
    <3>3. Ordered(<<0>>, writes[c], buffer[c] \ Ran)
      BY <3>2 DEF Ordered
    <3> QED
      BY <3>1, <3>2, <3>3 DEF Flight
  <2> QED
    BY <1>b, <2>1, <2>2, <2>3
<1>5. ASSUME NEW c \in Clients, ReceiveSalt(c) PROVE OrderInv'
  <2>1. /\ Pending(c) \in Seq(buffer[c]) /\ Ascending(Pending(c))
        /\ \A x \in buffer[c] : \E i \in 1..Len(Pending(c)) : Pending(c)[i] = x
    BY <1>0, PendingProperties
  <2>2. up[c] = <<>>
    BY <1>0, <1>5 DEF ReceiveSalt, WireAt
  <2>3. up'[c] = Pending(c) /\ \A d \in Clients \ {c} : up'[d] = up[d] /\ link'[d] = link[d]
    BY <1>0, <1>5, <2>1, <2>2 DEF ReceiveSalt, NumberTypes
  <2>4. buffer[c] \subseteq In(Pending(c)) /\ In(Pending(c)) \subseteq buffer[c]
    <3>1. \A i \in 1..Len(Pending(c)) : Pending(c)[i] \in buffer[c]
      BY <2>1, ElementOfSeq
    <3> QED
      BY <2>1, <3>1 DEF In
  <2>5. Flight(Pending(c), c, writes, buffer[c], Ran)
    <3>1. Ordered(Pending(c), writes[c], buffer[c] \ Ran)
      <4>1. buffer[c] \subseteq Nat
        BY <1>0 DEF NumberTypes
      <4>2. Pending(c) \in Seq(Nat)
        BY <2>1, <4>1, SeqGrows
      <4> QED
        BY <2>1, <2>4, <4>2, OrderedAscending
    <3>2. buffer[c] \subseteq writes[c]
          /\ \A d \in Clients : writes[c] \cap writes[d] # {} => d = c
      BY <1>0 DEF OrderAt
    <3> QED
      BY <2>4, <3>1, <3>2 DEF Flight
  <2> QED
    BY <1>5, <1>b, <2>3, <2>4, <2>5 DEF ReceiveSalt, daemonVars
<1>6. ASSUME NEW c \in Clients, ReceiveAck(c) PROVE OrderInv'
  <2> DEFINE n == Head(down[c]).upTo
  <2>1. n \in Nat /\ 1..n \subseteq Ran
    <3>1. down[c] \in Seq(RanFrames)
      BY <1>0 DEF AcksRan, RanFrames
    <3>2. Head(down[c]) \in RanFrames
      BY <1>6, <3>1, TakeFirst DEF ReceiveAck
    <3> QED
      BY <3>2 DEF RanFrames
  <2>2. /\ buffer' = [buffer EXCEPT ![c] = {s \in @ : s > n}]
        /\ UNCHANGED <<writes, ran, late, up, link>>
    BY <1>6 DEF ReceiveAck, daemonVars
  <2> HIDE DEF n
  <2>3. ASSUME NEW d \in Clients PROVE OrderAt(d)'
    <3>1. Ran' = Ran
      BY <2>2 DEF Ran
    <3>2. buffer'[d] \subseteq buffer[d] /\ buffer[d] \ Ran \subseteq buffer'[d]
      <4>1. \A s \in buffer[d] : s \in Nat \ {0} /\ (~(s > n) => s \in 1..n)
        BY <1>0, <2>1 DEF NumberTypes
      <4> QED
        BY <1>0, <2>1, <2>2, <4>1 DEF NumberTypes
    <3>3. /\ Flight(up[d], d, writes, buffer'[d], Ran)
          /\ Flight(late[d], d, writes, buffer'[d], Ran)
      <4>1. /\ Flight(up[d], d, writes, buffer[d], Ran)
            /\ Flight(late[d], d, writes, buffer[d], Ran)
        BY <1>0 DEF OrderAt
      <4> QED
        BY <3>2, <4>1, FlightLess
    <3> QED
      BY <1>0, <2>2, <3>1, <3>2, <3>3 DEF OrderAt
  <2> QED
    BY <1>a, <2>3
<1>7. ASSUME NEW c \in Clients, DaemonHello(c) PROVE OrderInv'
  <2>1. c \notin authed
    <3> SUFFICES ASSUME c \in authed PROVE FALSE
      OBVIOUS
    <3>1. Head(up[c]) \in 1..outSeq
      BY <1>0, <1>7, TakeFirst DEF DaemonHello, WireAt
    <3> QED
      BY <1>0, <1>7, <3>1 DEF DaemonHello, Hello, NumberTypes
  <2>2. up'[c] = <<>> /\ link'[c] # "ready"
        /\ \A d \in Clients \ {c} : up'[d] = up[d] /\ link'[d] = link[d]
    <3>1. up[c] = <<Hello>> /\ Tail(<<Hello>>) = <<>>
      BY <1>0, <1>7, <2>1 DEF WireAt, DaemonHello
    <3> QED
      BY <1>0, <1>7, <2>1, <3>1 DEF WireAt, DaemonHello, clientVars, NumberTypes
  <2>3. Flight(<<>>, c, writes, buffer[c], Ran)
    BY FlightEmpty
  <2> QED
    BY <1>7, <1>b, <2>2, <2>3 DEF DaemonHello, clientVars, daemonVars
<1>8. ASSUME NEW c \in Clients, DaemonFrame(c) PROVE OrderInv'
  <2>1. up[c] \in Seq(1..outSeq) /\ up[c] # <<>>
    BY <1>0, <1>8 DEF DaemonFrame, WireAt
  <2>2. Run(Head(up[c])) \/ (Duplicate(Head(up[c])) /\ UNCHANGED daemonVars)
    BY <1>8 DEF DaemonFrame
  <2>3. \A d \in Clients : UNCHANGED late[d] /\ up'[d] = IF d = c THEN Tail(up[c]) ELSE up[d]
    BY <1>0, <1>8 DEF DaemonFrame, NumberTypes
  <2>4. UNCHANGED <<writes, buffer, link>>
    BY <1>8 DEF DaemonFrame, clientVars
  <2> QED
    BY <1>0, <1>a, <2>1, <2>2, <2>3, <2>4, OrderRead
<1>9. ASSUME NEW c \in Clients, LateFrame(c) PROVE OrderInv'
  <2>1. late[c] \in Seq(1..outSeq) /\ late[c] # <<>>
    BY <1>0, <1>9 DEF LateFrame, NumberTypes
  <2>2. Run(Head(late[c])) \/ (Duplicate(Head(late[c])) /\ UNCHANGED daemonVars)
    BY <1>9 DEF LateFrame
  <2>3. \A d \in Clients : UNCHANGED up[d] /\ late'[d] = IF d = c THEN Tail(late[c]) ELSE late[d]
    BY <1>0, <1>9 DEF LateFrame, NumberTypes
  <2>4. UNCHANGED <<writes, buffer, link>>
    BY <1>9 DEF LateFrame, clientVars
  <2> QED
    BY <1>0, <1>a, <2>1, <2>2, <2>3, <2>4, OrderRead
<1>10. ASSUME NEW c \in Clients, Drop(c) \/ Quit(c) PROVE OrderInv'
  <2>1. /\ LoseConnection(c) /\ UNCHANGED <<writes, buffer, ran>>
        /\ \E l \in {"closed", "gone"} : link' = [link EXCEPT ![c] = l]
    BY <1>10 DEF Drop, Quit, daemonVars
  <2>2. ASSUME NEW d \in Clients PROVE OrderAt(d)'
    <3>1. Flight(up'[d], d, writes, buffer[d], Ran)
      <4>1. up'[d] = up[d] \/ up'[d] = <<>>
        BY <1>0, <2>1 DEF LoseConnection, NumberTypes
      <4> QED
        BY <1>0, <4>1, FlightEmpty DEF OrderAt
    <3>2. Flight(late'[d], d, writes, buffer[d], Ran)
      <4>1. CASE late'[d] = late[d]
        BY <1>0, <4>1 DEF OrderAt
      <4>2. CASE d = c /\ \E k \in 1..Len(up[c]) : late'[c] = SubSeq(up[c], 1, k)
        <5>1. up[c] \in Seq(0..outSeq) /\ Flight(up[c], c, writes, buffer[c], Ran)
          BY <1>0 DEF OrderAt, NumberTypes
        <5> QED
          BY <4>2, <5>1, FlightPrefix
      <4> QED
        BY <1>0, <2>1, <4>1, <4>2 DEF LoseConnection, NumberTypes
    <3>3. link'[d] = "ready" => link[d] = "ready" /\ up'[d] = up[d]
      BY <1>0, <2>1 DEF LoseConnection, NumberTypes
    <3>4. Ran' = Ran
      BY <2>1 DEF Ran
    <3> QED
      BY <1>0, <2>1, <3>1, <3>2, <3>3, <3>4 DEF OrderAt
  <2> QED
    BY <1>a, <2>2
<1>11. ASSUME Restart PROVE OrderInv'
  <2>1. ASSUME NEW d \in Clients PROVE OrderAt(d)'
    <3>1. up'[d] = <<>> /\ late'[d] = <<>> /\ link'[d] # "ready" /\ ran' = <<>>
          /\ writes' = writes /\ buffer' = buffer
      BY <1>11 DEF Restart
    <3>2. Ran' = {}
      BY <3>1 DEF Ran
    <3>3. Flight(<<>>, d, writes', buffer'[d], Ran')
      BY FlightEmpty
    <3> QED
      BY <1>0, <3>1, <3>2, <3>3 DEF OrderAt
  <2> QED
    BY <1>a, <2>1
<1> QED
  BY <1>1, <1>2, <1>3, <1>4, <1>5, <1>6, <1>7, <1>8, <1>9, <1>10, <1>11 DEF Next

\* What runs next of a client's writes is newer than all of them that ran.
LEMMA NextInOrder ==
  WireInv /\ InWindow /\ FilterExact /\ OrderInv /\ InOrder /\ [Next]_vars => InOrder'
<1> SUFFICES ASSUME WireInv, InWindow, FilterExact, OrderInv, InOrder, [Next]_vars
             PROVE  InOrder'
  OBVIOUS
<1>0. ran \in Seq(1..outSeq) /\ NumberTypes
  BY DEF WireInv, NumberTypes
<1>1. CASE ran' = <<>>
  BY <1>1 DEF InOrder
<1>2. CASE UNCHANGED <<ran, writes>>
  BY <1>2 DEF InOrder
<1>3. ASSUME NEW c \in Clients, SendWrite(c) PROVE InOrder'
  <2>1. Reserve /\ ran' = ran /\ writes' = [writes EXCEPT ![c] = @ \cup {outSeq'}]
    BY <1>3 DEF SendWrite, daemonVars
  <2>2. outSeq' \notin Ran
    BY <2>1, NewNumber
  <2>3. \A d \in Clients : \A i \in 1..Len(ran) : ran[i] \in writes'[d] => ran[i] \in writes[d]
    BY <1>0, <2>1, <2>2 DEF Ran, NumberTypes
  <2> QED
    BY <2>1, <2>3 DEF InOrder
<1>4. ASSUME NEW c \in Clients, NEW s \in 1..outSeq, ReadAt(up[c], s) \/ ReadAt(late[c], s),
             writes' = writes
      PROVE  InOrder'
  <2>1. s \notin Ran
    BY <1>4, FreshInWindow
  <2>2. ran' = Append(ran, s)
    BY <1>4 DEF ReadAt, Run
  <2>3. /\ Len(ran) \in Nat /\ Len(ran') = Len(ran) + 1 /\ ran'[Len(ran) + 1] = s
        /\ \A i \in 1..Len(ran) : ran'[i] = ran[i] /\ ran[i] \in Ran
    BY <1>0, <2>2 DEF Ran
  <2>4. ASSUME NEW d \in Clients, s \in writes[d], NEW t \in Ran \cap writes[d] PROVE t < s
    <3>1. PICK q \in {up[c], late[c]} : ReadAt(q, s)
      BY <1>4
    <3>2. Flight(q, c, writes, buffer[c], Ran)
      BY <3>1 DEF OrderInv, OrderAt
    <3>3. s \in In(q)
      <4>1. up[c] \in Seq(0..outSeq) /\ late[c] \in Seq(1..outSeq)
        BY <1>0 DEF NumberTypes
      <4>2. Len(q) \in Nat \ {0} /\ Head(q) = q[1]
        BY <3>1, <4>1, TakeFirst DEF ReadAt
      <4> QED
        BY <3>1, <4>2 DEF ReadAt, In
    <3>4. d = c /\ s \in buffer[c]
      BY <2>1, <2>4, <3>2, <3>3 DEF Flight
    <3>5. s > t
      BY <2>1, <2>4, <3>4 DEF OrderInv, OrderAt
    <3>6. s \in Nat /\ t \in Nat
      BY <1>0, <2>4 DEF NumberTypes
    <3> QED
      BY <3>5, <3>6
  <2>5. ASSUME NEW d \in Clients, NEW i \in 1..Len(ran'), NEW j \in 1..Len(ran'), i < j,
               ran'[i] \in writes[d], ran'[j] \in writes[d]
        PROVE  ran'[i] < ran'[j]
    <3>1. i \in 1..Len(ran)
      BY <2>3, <2>5
    <3>2. CASE j \in 1..Len(ran)
      BY <2>3, <2>5, <3>1, <3>2 DEF InOrder
    <3>3. CASE j = Len(ran) + 1
      BY <2>3, <2>4, <2>5, <3>1, <3>3
    <3> QED
      BY <2>3, <3>2, <3>3
  <2> QED
    BY <1>4, <2>5 DEF InOrder
<1>5. ASSUME NEW c \in Clients,
             SendRefused(c) \/ SendRead(c) \/ Open(c) \/ ReceiveSalt(c)
               \/ ReceiveAck(c) \/ DaemonHello(c) \/ DaemonFrame(c) \/ LateFrame(c)
               \/ Drop(c) \/ Quit(c)
      PROVE  writes' = writes
  BY <1>5 DEF SendRefused, SendRead, Open, ReceiveSalt, ReceiveAck, DaemonHello,
              DaemonFrame, LateFrame, Drop, Quit, clientVars
<1>6. UNCHANGED vars => writes' = writes
  BY DEF vars, clientVars
<1>7. Restart => ran' = <<>>
  BY DEF Restart
<1>8. writes' = writes \/ ran' = <<>> \/ \E c \in Clients : SendWrite(c)
  BY <1>5, <1>6, <1>7 DEF Next
<1> QED
  BY <1>1, <1>2, <1>3, <1>4, <1>8, FilterSteps

\* Everything about the wire, the filter and the order holds from the start.
LEMMA FlightInvariance == Spec => [](IInv /\ WireInv /\ FilterExact /\ OrderInv)
<1>1. Init => WireInv /\ FilterExact /\ OrderInv
  <2> SUFFICES ASSUME Init PROVE WireInv /\ FilterExact /\ OrderInv
    OBVIOUS
  <2>1. Ran = {} /\ FilterExact
    BY DEF Init, Ran, FilterExact
  <2>2. AcksRan
    BY DEF Init, AcksRan
  <2>3. ASSUME NEW c \in Clients PROVE OrderAt(c)
    BY <2>1, FlightEmpty DEF Init, OrderAt
  <2> QED
    BY <2>1, <2>2, <2>3, WireInit DEF OrderInv
<1> QED
  BY <1>1, InitIInv, NextIInv, NextWire, NextFilter, NextOrder, PTL DEF Spec

\* onSessionSalt resends before anything new is sent, and the daemon reads in order: the
\* writes of a client run in the order in which its host issued them, whatever is lost,
\* resent, read late or refused in between.
THEOREM WritesRunInOrder == Spec /\ []InWindow => []InOrder
<1>1. Init => InOrder
  BY DEF Init, InOrder
<1> QED
  BY <1>1, FlightInvariance, NextInOrder, PTL DEF Spec
----------------------------------------------------------------------------
(* One client: the buffer keeps inside the window, and no ack is lost.     *)

\* The device has one client at a time: the phone alone, or one cc after another.
SoleClient == \A c, d \in Clients : c = d

\* No frame is read after its client has given up the connection.
NothingLate == "late" \notin Behaviours

\* Only writes that the buffer has room for are sent, so every number drawn is buffered.
OnlyBufferedWrites == Behaviours \cap {"read", "overflow"} = {}

\* Nothing is ever left on a connection the client no longer has.
NoLate == \A c \in Clients : late[c] = <<>>

\* Without late reads no step leaves a frame behind.
LEMMA NextNoLate ==
  ASSUME NothingLate, NoLate, WireInv, [Next]_vars
  PROVE  NoLate'
<1>1. ASSUME NEW c \in Clients,
             SendWrite(c) \/ SendRefused(c) \/ SendRead(c) \/ Open(c) \/ ReceiveSalt(c)
               \/ ReceiveAck(c) \/ DaemonHello(c) \/ DaemonFrame(c)
      PROVE  late' = late
  BY <1>1 DEF SendWrite, SendRefused, SendRead, Open, ReceiveSalt, ReceiveAck, DaemonHello,
              DaemonFrame
<1>2. ASSUME NEW c \in Clients, Drop(c) \/ Quit(c) PROVE late' = late
  BY <1>2 DEF Drop, Quit, LoseConnection, NothingLate
<1>3. ASSUME NEW c \in Clients, LateFrame(c) PROVE FALSE
  BY <1>3 DEF LateFrame, NoLate
<1>4. Restart => NoLate'
  BY DEF Restart, NoLate
<1>5. UNCHANGED vars => late' = late
  BY DEF vars
<1> QED
  BY <1>1, <1>2, <1>3, <1>4, <1>5 DEF Next, NoLate

\* Every write the level covers and its client still holds has an ack on its way.
AckAt(c) ==
  c \in authed => \A s \in buffer[c] : s <= through =>
    \E i \in 1..Len(down[c]) : s <= down[c][i].upTo

\* Reading a frame of down that is no ack for any s left in the buffer.
LEMMA AckTail ==
  ASSUME NEW S, NEW q \in Seq(S), q # <<>>, NEW s, ~(s <= Head(q).upTo),
         \E i \in 1..Len(q) : s <= q[i].upTo
  PROVE  \E i \in 1..Len(Tail(q)) : s <= Tail(q)[i].upTo
<1>1. /\ Len(q) \in Nat \ {0} /\ Head(q) = q[1] /\ Len(Tail(q)) = Len(q) - 1
      /\ \A i \in 1..Len(q) - 1 : Tail(q)[i] = q[i + 1]
  BY TakeFirst
<1>2. PICK i \in 1..Len(q) : s <= q[i].upTo
  OBVIOUS
<1>3. i # 1
  BY <1>1, <1>2
<1>4. i - 1 \in 1..Len(q) - 1 /\ (i - 1) + 1 = i
  BY <1>1, <1>3
<1> QED
  BY <1>1, <1>2, <1>4

\* Every step keeps the acks on their way.
LEMMA NextAckAt ==
  ASSUME SoleClient, NoLate, IInv, WireInv, OrderInv, \A c \in Clients : AckAt(c),
         [Next]_vars, NEW c \in Clients
  PROVE  AckAt(c)'
<1>0. /\ NumberTypes /\ WireAt(c) /\ AckAt(c) /\ AcksRan
      /\ down[c] \in Seq(TrueFrames) /\ DOMAIN down = Clients /\ DOMAIN buffer = Clients
      /\ buffer[c] \subseteq Nat \ {0}
  BY DEF WireInv, OrderInv, NumberTypes, IInv
<1>1. ASSUME NEW d \in Clients PROVE d = c
  BY DEF SoleClient
<1>2. CASE UNCHANGED vars
  BY <1>0, <1>2 DEF vars, clientVars, daemonVars, level, AckAt
<1>3. CASE SendRefused(c) \/ SendRead(c) \/ Open(c)
  BY <1>0, <1>3 DEF SendRefused, SendRead, Open, clientVars, daemonVars, level, AckAt
<1>4. CASE SendWrite(c)
  <2>1. /\ UNCHANGED <<down, authed, through>> /\ Reserve
        /\ buffer'[c] = buffer[c] \cup {outSeq'}
    BY <1>0, <1>4 DEF SendWrite, daemonVars, level
  <2>2. ~(outSeq' <= through)
    <3>1. outSeq' \notin Ran /\ outSeq' \in Nat /\ outSeq' # 0
      BY <2>1, NewNumber DEF Reserve, WireInv, NumberTypes
    <3>2. through \in Nat /\ 1..through \subseteq Ran
      BY <1>0 DEF AcksRan
    <3> QED
      BY <3>1, <3>2
  <2> QED
    BY <1>0, <2>1, <2>2 DEF AckAt
<1>5. CASE ReceiveSalt(c)
  <2>1. /\ Head(down[c]) = Salt /\ down[c] # <<>> /\ down'[c] = Tail(down[c])
        /\ UNCHANGED <<authed, through, buffer>>
    BY <1>0, <1>5 DEF ReceiveSalt, daemonVars, level
  <2>2. \A s \in buffer[c] : ~(s <= Head(down[c]).upTo)
    BY <1>0, <2>1 DEF Salt
  <2> QED
    BY <1>0, <2>1, <2>2, AckTail DEF AckAt
<1>6. CASE ReceiveAck(c)
  <2>1. /\ down[c] # <<>> /\ down'[c] = Tail(down[c])
        /\ UNCHANGED <<authed, through>>
        /\ buffer'[c] = {s \in buffer[c] : s > Head(down[c]).upTo}
    BY <1>0, <1>6 DEF ReceiveAck, daemonVars, level
  <2>2. Head(down[c]).upTo \in Nat
    <3>1. Head(down[c]) \in TrueFrames
      BY <1>0, <2>1, TakeFirst
    <3> QED
      BY <3>1 DEF TrueFrames, Covered
  <2>3. \A s \in buffer'[c] : s \in buffer[c] /\ ~(s <= Head(down[c]).upTo)
    BY <1>0, <2>1, <2>2
  <2> QED
    BY <1>0, <2>1, <2>3, AckTail DEF AckAt
<1>7. CASE DaemonHello(c)
  <2>1. through \in Nat /\ UNCHANGED <<through, buffer>>
    BY <1>0, <1>7 DEF AcksRan, DaemonHello, clientVars, daemonVars, level
  <2>2. CASE through = 0
    BY <1>0, <2>1, <2>2 DEF AckAt
  <2>3. CASE through > 0
    <3>1. down'[c] = down[c] \o <<Salt, Ack(through)>>
      BY <1>0, <1>7, <2>3 DEF DaemonHello
    <3>2. /\ Len(down[c]) + 2 \in 1..Len(down'[c])
          /\ down'[c][Len(down[c]) + 2] = Ack(through)
      BY <1>0, <3>1
    <3>3. Ack(through).upTo = through
      BY DEF Ack
    <3> QED
      BY <2>1, <3>2, <3>3 DEF AckAt
  <2> QED
    BY <2>1, <2>2, <2>3
<1>8. CASE DaemonFrame(c)
  <2>1. CASE UNCHANGED <<daemonVars, down>>
    BY <1>0, <1>8, <2>1 DEF DaemonFrame, clientVars, daemonVars, level, AckAt
  <2>2. CASE /\ Run(Head(up[c]))
             /\ down' = [down EXCEPT ![c] = IF through' > 0 THEN Append(@, Ack(through')) ELSE @]
    <3>0. IInv' /\ buffer' = buffer
      BY <1>8, NextIInv DEF DaemonFrame, clientVars
    <3>1. through' \in Nat /\ down'[c] \in Seq(TrueFrames')
      BY <3>0 DEF IInv, Covered
    <3>2. CASE through' = 0
      BY <1>0, <3>0, <3>2 DEF AckAt
    <3>3. CASE through' > 0
      <4>1. down'[c] = Append(down[c], Ack(through')) /\ Ack(through').upTo = through'
        BY <1>0, <2>2, <3>3 DEF Ack
      <4>2. /\ Len(down[c]) + 1 \in 1..Len(down'[c])
            /\ down'[c][Len(down[c]) + 1] = Ack(through')
        BY <1>0, <4>1
      <4> QED
        BY <4>1, <4>2 DEF AckAt
    <3> QED
      BY <3>1, <3>2, <3>3
  <2> QED
    BY <1>8, <2>1, <2>2 DEF DaemonFrame
<1>9. CASE Drop(c) \/ Quit(c) \/ Restart
  BY <1>9 DEF Drop, Quit, LoseConnection, Restart, AckAt
<1>10. CASE LateFrame(c)
  BY <1>10 DEF LateFrame, NoLate
<1> QED
  BY <1>1, <1>2, <1>3, <1>4, <1>5, <1>6, <1>7, <1>8, <1>9, <1>10 DEF Next

\* ackLevel is sent after every command and last in the answer to hello: with one client,
\* and no frame read after its connection, no ack the client needs goes to nobody.
THEOREM NoAckIsLost ==
  ASSUME SoleClient, NothingLate
  PROVE  Spec => []NoLostAck
<1>1. Init => NoLate /\ \A c \in Clients : AckAt(c)
  BY DEF Init, NoLate, AckAt
<1>2. /\ NoLate /\ IInv /\ WireInv /\ OrderInv /\ (\A c \in Clients : AckAt(c)) /\ [Next]_vars
      => NoLate' /\ (\A c \in Clients : AckAt(c))'
  BY NextNoLate, NextAckAt
<1>3. WireInv /\ IInv /\ OrderInv /\ (\A c \in Clients : AckAt(c)) => NoLostAck
  <2> SUFFICES ASSUME WireInv, IInv, OrderInv, \A c \in Clients : AckAt(c), NEW c \in Clients,
                      link[c] = "ready", down[c] = <<>>, NEW s \in buffer[c]
               PROVE  s > through
    BY DEF NoLostAck
  <2>1. c \in authed /\ s \in Nat /\ through \in Nat
    BY DEF WireInv, WireAt, NumberTypes, OrderInv, AcksRan
  <2>2. ~(s <= through)
    BY <2>1 DEF AckAt
  <2> QED
    BY <2>1, <2>2
<1> QED
  BY <1>1, <1>2, <1>3, FlightInvariance, PTL DEF Spec

\* The buffer holds every number drawn since the last ack and no more than it has room for,
\* and a connection carries numbers in ascending order, none of them outside the window.
WindowAt(c) ==
  /\ \A s \in 1..outSeq : s \in buffer[c] <=> s > maxAcked[c]
  /\ maxAcked[c] <= outSeq /\ outSeq <= maxAcked[c] + Capacity
  /\ Ascending(up[c])
  /\ WindowOf(up[c])

\* The daemon reads the first of the frames: none that follows leaves the window.
LEMMA WindowTail ==
  ASSUME NEW q \in Seq(Nat \ {0}), q # <<>>, Ascending(q), NEW k \in Nat, NEW h \in Nat,
         \A i \in 1..Len(q) : q[i] + k >= h, NEW h1 \in {h, Head(q)}
  PROVE  Ascending(Tail(q)) /\ \A i \in 1..Len(Tail(q)) : Tail(q)[i] + k >= h1
<1>1. /\ Len(q) \in Nat \ {0} /\ Head(q) = q[1] /\ Tail(q) \in Seq(Nat \ {0})
      /\ Len(Tail(q)) = Len(q) - 1 /\ \A i \in 1..Len(q) - 1 : Tail(q)[i] = q[i + 1]
  BY TakeFirst
<1>2. DOMAIN q = 1..Len(q) /\ DOMAIN Tail(q) = 1..Len(Tail(q))
  BY <1>1
<1>3. ASSUME NEW i \in 1..Len(Tail(q)), NEW j \in 1..Len(Tail(q)), i < j
      PROVE  Tail(q)[i] < Tail(q)[j]
  <2>1. i + 1 \in 1..Len(q) /\ j + 1 \in 1..Len(q) /\ i + 1 < j + 1
    BY <1>1, <1>3
  <2>2. q[i + 1] < q[j + 1]
    BY <1>2, <2>1 DEF Ascending
  <2> QED
    BY <1>1, <1>3, <2>2
<1>4. ASSUME NEW i \in 1..Len(Tail(q)) PROVE Tail(q)[i] + k >= h1
  <2>1. i + 1 \in 1..Len(q) /\ 1 \in 1..Len(q) /\ 1 < i + 1 /\ Tail(q)[i] = q[i + 1]
    BY <1>1, <1>4
  <2>2. q[1] < q[i + 1] /\ q[i + 1] + k >= h
    BY <1>2, <2>1 DEF Ascending
  <2>3. q[1] \in Nat /\ q[i + 1] \in Nat
    BY <2>1
  <2> QED
    BY <1>1, <2>1, <2>2, <2>3
<1> QED
  BY <1>2, <1>3, <1>4 DEF Ascending

\* A new number goes to the end of the frames.
LEMMA AscendingAppend ==
  ASSUME NEW q \in Seq(Nat), Ascending(q), NEW n \in Nat, \A w \in In(q) : w < n
  PROVE  Ascending(Append(q, n))
<1> DEFINE p == Append(q, n)
<1>1. /\ Len(q) \in Nat /\ DOMAIN q = 1..Len(q) /\ DOMAIN p = 1..Len(q) + 1
      /\ p[Len(q) + 1] = n /\ \A i \in 1..Len(q) : p[i] = q[i]
  OBVIOUS
<1> HIDE DEF p
<1>2. ASSUME NEW i \in 1..Len(q) + 1, NEW j \in 1..Len(q) + 1, i < j PROVE p[i] < p[j]
  <2>1. i \in 1..Len(q) /\ q[i] \in In(q)
    BY <1>1, <1>2 DEF In
  <2>2. CASE j \in 1..Len(q)
    BY <1>1, <1>2, <2>1, <2>2 DEF Ascending
  <2>3. CASE j = Len(q) + 1
    BY <1>1, <2>1, <2>3
  <2> QED
    BY <1>1, <2>2, <2>3
<1> QED
  BY <1>1, <1>2 DEF Ascending, p

\* Room for one more in a buffer that holds every number above the last ack.
LEMMA RoomInBuffer ==
  ASSUME NEW B, NEW o \in Nat, NEW m \in Nat, B \subseteq 1..o,
         \A s \in 1..o : s \in B <=> s > m, Cardinality(B) < Capacity
  PROVE  o + 1 <= m + Capacity
<1>1. Capacity \in Nat \ {0}
  BY CommandsAssumption
<1>2. CASE o <= m
  BY <1>1, <1>2
<1>3. CASE o > m
  <2>1. B = (m + 1)..o
    <3>1. \A s \in (m + 1)..o : s \in 1..o /\ s > m
      BY <1>3
    <3>2. \A s \in 1..o : s > m => s \in (m + 1)..o
      BY <1>3
    <3> QED
      BY <3>1, <3>2
  <2>2. Cardinality((m + 1)..o) = o - (m + 1) + 1
    BY <1>3, FS_Interval
  <2> QED
    BY <1>1, <1>3, <2>1, <2>2
<1> QED
  BY <1>2, <1>3

\* Every step keeps the buffer and the connection inside the window.
LEMMA NextWindow ==
  ASSUME SoleClient, OnlyBufferedWrites, Capacity <= SeenKeep + 1,
         NoLate, IInv, WireInv, OrderInv, \A c \in Clients : WindowAt(c), [Next]_vars,
         NEW c \in Clients
  PROVE  WindowAt(c)'
<1>0. /\ NumberTypes /\ WireAt(c) /\ WindowAt(c)
      /\ outSeq \in Nat /\ highest \in Nat /\ highest <= outSeq /\ maxAcked[c] \in Nat
      /\ buffer[c] \subseteq 1..outSeq /\ up[c] \in Seq(Nat)
      /\ DOMAIN buffer = Clients /\ DOMAIN up = Clients /\ DOMAIN maxAcked = Clients
  <2>1. NumberTypes /\ outSeq \in Nat
    BY DEF WireInv, NumberTypes
  <2>2. 0..outSeq \subseteq Nat
    BY <2>1
  <2>3. up[c] \in Seq(Nat)
    BY <2>1, <2>2, SeqGrows DEF NumberTypes
  <2> QED
    BY <2>1, <2>3 DEF WireInv, NumberTypes, IInv, Covered
<1>1. ASSUME NEW d \in Clients PROVE d = c
  BY DEF SoleClient
<1>2. Capacity \in Nat /\ SeenKeep \in Nat
  BY CommandsAssumption
<1>3. CASE UNCHANGED <<outSeq, buffer, maxAcked, up, highest>>
  BY <1>0, <1>3 DEF WindowAt, WindowOf
<1>4. CASE UNCHANGED <<outSeq, buffer, maxAcked, highest>> /\ up'[c] = <<>>
  <2>1. Ascending(<<>>)
    BY DEF Ascending
  <2> QED
    BY <1>0, <1>4, <2>1 DEF WindowAt, WindowOf
<1>5. CASE SendWrite(c)
  <2>1. /\ outSeq' = outSeq + 1 /\ UNCHANGED <<maxAcked, highest>> /\ Reserve
        /\ buffer'[c] = buffer[c] \cup {outSeq'}
        /\ up'[c] = up[c] \/ up'[c] = Append(up[c], outSeq')
        /\ Cardinality(buffer[c]) < Capacity
    BY <1>0, <1>5 DEF SendWrite, Transmit, Reserve, daemonVars, filter
  <2>2. outSeq' <= maxAcked[c] + Capacity
    BY <1>0, <2>1, RoomInBuffer DEF WindowAt
  <2>3. \A s \in 1..outSeq' : s \in buffer'[c] <=> s > maxAcked[c]
    <3>1. outSeq' > maxAcked[c] /\ \A s \in 1..outSeq' : s = outSeq' \/ s \in 1..outSeq
      BY <1>0, <2>1 DEF WindowAt
    <3> QED
      BY <1>0, <2>1, <3>1 DEF WindowAt
  <2>4. CASE up'[c] = up[c]
    BY <1>0, <2>1, <2>2, <2>3, <2>4 DEF WindowAt, WindowOf
  <2>5. CASE up'[c] = Append(up[c], outSeq')
    <3>1. Ascending(up'[c])
      BY <1>0, <2>1, <2>5, NewNumber, AscendingAppend DEF WindowAt
    <3>2. \A i \in 1..Len(up'[c]) : \/ i \in 1..Len(up[c]) /\ up'[c][i] = up[c][i]
                                    \/ up'[c][i] = outSeq'
      BY <1>0, <2>1, <2>5
    <3>3. \A i \in 1..Len(up'[c]) : up'[c][i] # Hello => up'[c][i] + SeenKeep >= highest
      <4>1. outSeq' + SeenKeep >= highest
        BY <1>0, <1>2, <2>1
      <4>2. \A i \in 1..Len(up[c]) : up[c][i] # Hello => up[c][i] + SeenKeep >= highest
        BY <1>0 DEF WindowAt, WindowOf
      <4> QED
        BY <3>2, <4>1, <4>2
    <3>4. maxAcked[c] <= outSeq'
      BY <1>0, <2>1 DEF WindowAt
    <3> QED
      BY <2>1, <2>2, <2>3, <3>1, <3>3, <3>4 DEF WindowAt, WindowOf
  <2> QED
    BY <2>1, <2>4, <2>5
<1>6. CASE SendRefused(c) \/ SendRead(c)
  BY <1>6 DEF SendRefused, SendRead, OnlyBufferedWrites
<1>7. CASE Open(c)
  <2>1. up'[c] = <<0>> /\ UNCHANGED <<outSeq, buffer, maxAcked, highest>>
    BY <1>0, <1>7 DEF Open, Hello, daemonVars, filter
  <2>2. Ascending(<<0>>) /\ \A i \in 1..Len(<<0>>) : <<0>>[i] = Hello
    BY DEF Ascending, Hello
  <2> QED
    BY <1>0, <2>1, <2>2 DEF WindowAt, WindowOf
<1>8. CASE ReceiveSalt(c)
  <2>1. Pending(c) \in Seq(buffer[c]) /\ Ascending(Pending(c))
    BY <1>0, PendingProperties
  <2>2. up'[c] = Pending(c) /\ UNCHANGED <<outSeq, buffer, maxAcked, highest>>
    <3>1. up[c] = <<>>
      BY <1>0, <1>8 DEF ReceiveSalt, WireAt
    <3> QED
      BY <1>0, <1>8, <2>1, <3>1 DEF ReceiveSalt, daemonVars, filter
  <2>3. ASSUME NEW i \in 1..Len(Pending(c)) PROVE Pending(c)[i] + SeenKeep >= highest
    <3>1. Pending(c)[i] \in buffer[c]
      BY <2>1, ElementOfSeq
    <3>2. Pending(c)[i] \in Nat /\ Pending(c)[i] > maxAcked[c]
      BY <1>0, <3>1 DEF WindowAt
    <3>3. highest <= maxAcked[c] + Capacity
      BY <1>0, <1>2 DEF WindowAt
    <3> QED
      BY <1>0, <1>2, <3>2, <3>3
  <2> QED
    BY <1>0, <2>1, <2>2, <2>3 DEF WindowAt, WindowOf
<1>9. CASE ReceiveAck(c)
  <2> DEFINE n == Head(down[c]).upTo
  <2>1. n \in Nat /\ n <= outSeq
    <3>1. down[c] \in Seq(RanFrames)
      BY DEF OrderInv, AcksRan, RanFrames
    <3>2. Head(down[c]) \in RanFrames
      BY <1>9, <3>1, TakeFirst DEF ReceiveAck
    <3>3. n \in Nat /\ 1..n \subseteq Ran
      BY <3>2 DEF RanFrames
    <3>4. Ran \subseteq 1..outSeq
      BY <1>0, ElementOfSeq DEF NumberTypes, Ran
    <3> QED
      BY <1>0, <3>3, <3>4
  <2>2. /\ maxAcked'[c] = IF n > maxAcked[c] THEN n ELSE maxAcked[c]
        /\ buffer'[c] = {s \in buffer[c] : s > n}
        /\ UNCHANGED <<outSeq, up, highest>>
    BY <1>0, <1>9 DEF ReceiveAck, daemonVars, filter
  <2> HIDE DEF n
  <2>3. \A s \in 1..outSeq : s \in buffer'[c] <=> s > maxAcked'[c]
    BY <1>0, <2>1, <2>2 DEF WindowAt
  <2>4. maxAcked'[c] <= outSeq /\ outSeq <= maxAcked'[c] + Capacity
    BY <1>0, <1>2, <2>1, <2>2 DEF WindowAt
  <2> QED
    BY <1>0, <2>2, <2>3, <2>4 DEF WindowAt, WindowOf
<1>10. CASE DaemonHello(c)
  <2>1. up[c] = <<Hello>>
    <3>1. c \notin authed
      <4> SUFFICES ASSUME c \in authed PROVE FALSE
        OBVIOUS
      <4>1. Head(up[c]) \in 1..outSeq
        BY <1>0, <1>10, TakeFirst DEF DaemonHello, WireAt
      <4> QED
        BY <1>0, <1>10, <4>1 DEF DaemonHello, Hello
    <3> QED
      BY <1>0, <1>10, <3>1 DEF WireAt, DaemonHello
  <2>2. Tail(<<Hello>>) = <<>>
    OBVIOUS
  <2>3. up'[c] = <<>> /\ UNCHANGED <<outSeq, buffer, maxAcked, highest>>
    BY <1>0, <1>10, <2>1, <2>2 DEF DaemonHello, clientVars, daemonVars, filter
  <2> QED
    BY <1>4, <2>3
<1>11. CASE DaemonFrame(c)
  <2>1. up[c] \in Seq(1..outSeq) /\ up[c] # <<>> /\ Ascending(up[c]) /\ WindowOf(up[c])
    BY <1>0, <1>11 DEF DaemonFrame, WireAt, WindowAt
  <2>2. up'[c] = Tail(up[c]) /\ UNCHANGED <<outSeq, buffer, maxAcked>>
    BY <1>0, <1>11 DEF DaemonFrame, clientVars
  <2>3. highest' \in {highest, Head(up[c])}
    BY <1>11 DEF DaemonFrame, Run, Remember, daemonVars, filter
  <2>4. up[c] \in Seq(Nat \ {0}) /\ \A i \in 1..Len(up[c]) : up[c][i] + SeenKeep >= highest
    <3>1. 1..outSeq \subseteq Nat \ {0}
      BY <1>0
    <3>2. up[c] \in Seq(Nat \ {0})
      BY <2>1, <3>1, SeqGrows
    <3>3. \A i \in 1..Len(up[c]) : up[c][i] # Hello
      BY <3>2, ElementOfSeq DEF Hello
    <3> QED
      BY <2>1, <3>2, <3>3 DEF WindowOf
  <2>5. /\ Ascending(Tail(up[c]))
        /\ \A i \in 1..Len(Tail(up[c])) : Tail(up[c])[i] + SeenKeep >= highest'
    BY <1>0, <1>2, <2>1, <2>3, <2>4, WindowTail
  <2> QED
    BY <1>0, <2>2, <2>5 DEF WindowAt, WindowOf
<1>12. CASE LateFrame(c)
  BY <1>12 DEF LateFrame, NoLate
<1>13. CASE Drop(c) \/ Quit(c)
  <2>1. up'[c] = <<>> /\ UNCHANGED <<outSeq, buffer, maxAcked, highest>>
    BY <1>0, <1>13 DEF Drop, Quit, LoseConnection, daemonVars, filter
  <2> QED
    BY <1>4, <2>1
<1>14. CASE Restart
  <2>1. up'[c] = <<>> /\ UNCHANGED <<outSeq, buffer, maxAcked>>
    BY <1>14 DEF Restart
  <2>2. Ascending(<<>>)
    BY DEF Ascending
  <2> QED
    BY <1>0, <2>1, <2>2 DEF WindowAt, WindowOf
<1>15. CASE UNCHANGED vars
  BY <1>3, <1>15 DEF vars, clientVars, daemonVars, filter
<1> QED
  BY <1>1, <1>5, <1>6, <1>7, <1>8, <1>9, <1>10, <1>11, <1>12, <1>13, <1>14, <1>15 DEF Next

\* The cap of ResendBuffer: with one client that sends writes only, and a buffer no larger
\* than the window, every seq that can be resent stays inside the dedup window.
THEOREM ResendsStayInWindow ==
  ASSUME SoleClient, NothingLate, OnlyBufferedWrites, Capacity <= SeenKeep + 1
  PROVE  Spec => []InWindow
<1>1. Init => NoLate /\ \A c \in Clients : WindowAt(c)
  BY CommandsAssumption DEF Init, NoLate, WindowAt, WindowOf, Ascending
<1>2. /\ NoLate /\ IInv /\ WireInv /\ OrderInv /\ (\A c \in Clients : WindowAt(c))
      /\ [Next]_vars
      => NoLate' /\ (\A c \in Clients : WindowAt(c))'
  BY NextNoLate, NextWindow
<1>3. NoLate /\ (\A c \in Clients : WindowAt(c)) => InWindow
  BY DEF NoLate, WindowAt, WindowOf, InWindow
<1> QED
  BY <1>1, <1>2, <1>3, FlightInvariance, PTL DEF Spec

\* So a resend is never executed again.
THEOREM SoleClientRunsOnce ==
  ASSUME SoleClient, NothingLate, OnlyBufferedWrites, Capacity <= SeenKeep + 1
  PROVE  Spec => [](AtMostOnce /\ InOrder)
BY ResendsStayInWindow, NothingRunsTwice, WritesRunInOrder, PTL

=============================================================================
