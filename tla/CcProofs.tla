------------------------------- MODULE CcProofs -------------------------------
(***************************************************************************)
(* What is proved of the `cc' processes of one host, for any set of them,  *)
(* any interleaving and any number of faults:                              *)
(*                                                                         *)
(*  - the numbers they draw under the lock file are distinct, as long as   *)
(*    no waiter removes the lock of a live process and no process is       *)
(*    killed while device.json is cut short;                               *)
(*                                                                         *)
(*  - how each of them exits is true: confirmed only if its command was    *)
(*    completed, refused or answered only by its own answer, with the      *)
(*    exceptions ExitIsTrue names.                                         *)
(***************************************************************************)
EXTENDS Cc, SequenceTheorems, TLAPS

\* Inside reserveOutSeq, from openSync to the unlinkSync of the finally block.
Inside == {"load", "save", "write", "free"}

\* The types of what the numbering depends on.
NumberTypes ==
  /\ store \in Nat \cup {Torn}
  /\ pc \in [Procs -> {"start", "open", "try", "unlink", "wait"} \cup Inside \cup Ended]
  /\ num \in [Procs -> Nat]
  /\ drawn \subseteq Nat

\* Who is inside owns the lock file, so at most one process is.
InsideOwnsLock == \A p \in Procs : pc[p] \in Inside => lock = p

\* device.json is cut short only while a process is writing it.
TornIsBeingWritten == store = Torn => \E p \in Procs : pc[p] = "write"

\* What is on disk, or about to be, bounds every number drawn so far.
StoreBoundsDrawn ==
  /\ store # Torn => \A n \in drawn : n <= store
  /\ \A p \in Procs :
       /\ pc[p] = "save" => num[p] = store + 1
       /\ pc[p] \in {"write", "free"} => \A n \in drawn : n < num[p]
       /\ pc[p] = "free" => store = num[p]

\* The inductive invariant: all of this holds until a lock is stolen or a file torn.
IInv ==
  /\ NumberTypes
  /\ stolen \/ torn \/ ( /\ InsideOwnsLock
                         /\ TornIsBeingWritten
                         /\ StoreBoundsDrawn
                         /\ reused = {} )

----------------------------------------------------------------------------
\* What every step outside the lock does to the numbering: nothing; the process that
\* takes it, if any, ends up outside, and a kill in the middle of a write is noted.
AsideEffect ==
  /\ UNCHANGED <<store, num, drawn, reused, stolen>>
  /\ lock' = lock
  /\ \/ pc' = pc
     \/ \E p \in Procs, next \in {"start", "open", "try", "unlink", "wait"} \cup Ended :
          /\ pc' = [pc EXCEPT ![p] = next]
          /\ pc[p] = "write" => torn'
  /\ torn => torn'

\* The steps of the connection, of the daemon, of time and of a kill.
LEMMA StepsAside ==
  ASSUME [Next]_vars, ~\E p \in Procs : LockStep(p) /\ ~Busy(p)
  PROVE  AsideEffect
  <1> USE DEF Goto, Gone, Exit, Hang, Connect, Ended
  <1>1. ASSUME NEW p \in Procs, Start(p) PROVE AsideEffect
    BY <1>1 DEF Start, AsideEffect, disk, numbering
  <1>2. ASSUME NEW p \in Procs, OnClose(p) PROVE AsideEffect
    BY <1>2 DEF OnClose, AsideEffect, disk, numbering
  <1>3. ASSUME NEW p \in Procs, ReceiveSalt(p) PROVE AsideEffect
    BY <1>3 DEF ReceiveSalt, OnReady, AsideEffect, disk, numbering
  <1>4. ASSUME NEW p \in Procs, Receive(p) PROVE AsideEffect
    BY <1>4 DEF Receive, AsideEffect, disk, numbering
  <1>5. ASSUME NEW p \in Procs, Busy(p) PROVE AsideEffect
    BY <1>5 DEF Busy, AsideEffect, disk, numbering
  <1>6. ASSUME NEW p \in Procs, Kill(p) PROVE AsideEffect
    BY <1>6 DEF Kill, AsideEffect, disk
  <1>7. ASSUME NEW p \in Procs, DaemonHello(p) \/ DaemonFrame(p) \/ Drop(p) PROVE AsideEffect
    <2>1. UNCHANGED <<disk, host, numbering>>
      BY <1>7 DEF DaemonHello, DaemonFrame, Drop
    <2> QED
      BY <2>1 DEF AsideEffect, disk, host, numbering
  <1>8. ASSUME NEW p \in Procs, NEW m \in DOMAIN late[p], LateHello(p, m) \/ LateFrame(p, m)
        PROVE  AsideEffect
    <2>1. UNCHANGED <<disk, host, numbering>>
      BY <1>8 DEF LateHello, LateFrame
    <2> QED
      BY <2>1 DEF AsideEffect, disk, host, numbering
  <1>9. CASE Age \/ Publish \/ Restart \/ UNCHANGED vars
    BY <1>9 DEF Age, Publish, Restart, vars, AsideEffect, disk, host, numbering
  <1> QED
    BY <1>1, <1>2, <1>3, <1>4, <1>5, <1>6, <1>7, <1>8, <1>9
       DEF Next, ProcStep, DaemonStep, LockStep

\* The initial state satisfies the invariant.
LEMMA InitInv == Init => IInv
  BY DEF Init, IInv, NumberTypes, InsideOwnsLock, TornIsBeingWritten, StoreBoundsDrawn,
     Inside, Ended, Torn

\* Every step keeps the types.
LEMMA NextTypes == NumberTypes /\ [Next]_vars => NumberTypes'
  <1> SUFFICES ASSUME NumberTypes, [Next]_vars PROVE NumberTypes'
    OBVIOUS
  <1>1. CASE AsideEffect
    BY <1>1 DEF AsideEffect, NumberTypes, Inside, Ended
  <1>2. ASSUME NEW p \in Procs, Acquire(p) PROVE NumberTypes'
    BY <1>2 DEF Acquire, Goto, numbering, NumberTypes, Inside
  <1>3. ASSUME NEW p \in Procs, Unlink(p) PROVE NumberTypes'
    BY <1>3 DEF Unlink, Goto, Exit, Gone, NumberTypes, Inside, Ended
  <1>4. ASSUME NEW p \in Procs, Load(p) PROVE NumberTypes'
    BY <1>4 DEF Load, Goto, disk, numbering, NumberTypes, Inside, Torn
  <1>5. ASSUME NEW p \in Procs, Save(p) PROVE NumberTypes'
    BY <1>5 DEF Save, Goto, numbering, NumberTypes, Inside
  <1>6. ASSUME NEW p \in Procs, Write(p) PROVE NumberTypes'
    BY <1>6 DEF Write, Goto, numbering, NumberTypes, Inside
  <1>7. ASSUME NEW p \in Procs, Free(p) PROVE NumberTypes'
    BY <1>7 DEF Free, Goto, NumberTypes, Inside
  <1> QED
    BY <1>1, <1>2, <1>3, <1>4, <1>5, <1>6, <1>7, StepsAside DEF LockStep

\* Every step keeps the invariant.
LEMMA NextInv == IInv /\ [Next]_vars => IInv'
  <1> SUFFICES ASSUME IInv, [Next]_vars, ~stolen', ~torn'
               PROVE  /\ InsideOwnsLock' /\ TornIsBeingWritten' /\ StoreBoundsDrawn'
                      /\ reused' = {}
    BY NextTypes DEF IInv
  <1> USE CcAssumption
  <1>0. NumberTypes
    BY DEF IInv
  <1>1. CASE AsideEffect
    <2>1. ~stolen /\ ~torn
      BY <1>1 DEF AsideEffect
    <2>2. InsideOwnsLock /\ TornIsBeingWritten /\ StoreBoundsDrawn /\ reused = {}
      BY <2>1 DEF IInv
    <2>3. \A p \in Procs : /\ pc'[p] \in Inside => pc'[p] = pc[p]
                           /\ pc[p] = "write" => pc'[p] = "write"
      BY <1>0, <1>1 DEF AsideEffect, NumberTypes, Inside, Ended
    <2>4. InsideOwnsLock' /\ TornIsBeingWritten' /\ reused' = {}
      BY <1>1, <2>2, <2>3 DEF AsideEffect, InsideOwnsLock, TornIsBeingWritten
    <2>5. StoreBoundsDrawn'
      BY <1>1, <2>2, <2>3 DEF AsideEffect, StoreBoundsDrawn, Inside
    <2> QED
      BY <2>4, <2>5
  <1>2. ASSUME NEW p \in Procs, LockStep(p) PROVE ~stolen /\ ~torn
    <2>1. CASE UNCHANGED numbering
      BY <2>1 DEF numbering
    <2>2. CASE RemoveLock(p) /\ torn' = torn
      BY <2>2 DEF RemoveLock
    <2> QED
      BY <1>2, <2>1, <2>2 DEF LockStep, Acquire, Busy, Unlink, Load, Save, Write, Free
  <1>3. ASSUME NEW p \in Procs, LockStep(p)
        PROVE  InsideOwnsLock /\ TornIsBeingWritten /\ StoreBoundsDrawn /\ reused = {}
    BY <1>2, <1>3 DEF IInv
  <1>4. ASSUME NEW p \in Procs, LockStep(p), pc[p] \in Inside
        PROVE  /\ \A q \in Procs : q # p => pc[q] \notin Inside
               /\ pc[p] # "write" => store # Torn
    BY <1>3, <1>4 DEF InsideOwnsLock, TornIsBeingWritten, Inside
  <1>5. ASSUME NEW p \in Procs, Acquire(p)
        PROVE  /\ InsideOwnsLock' /\ TornIsBeingWritten' /\ StoreBoundsDrawn'
               /\ reused' = {}
    <2>1. /\ lock = Nobody /\ lock' = p /\ pc' = [pc EXCEPT ![p] = "load"]
          /\ UNCHANGED <<store, num, drawn, reused>>
          /\ InsideOwnsLock /\ TornIsBeingWritten /\ StoreBoundsDrawn /\ reused = {}
      BY <1>3, <1>5 DEF LockStep, Acquire, TakeLock, Goto, numbering
    <2>2. \A q \in Procs : pc[q] \notin Inside
      BY <2>1 DEF InsideOwnsLock, Nobody
    <2>3. pc'[p] = "load" /\ \A q \in Procs : q # p => pc'[q] = pc[q]
      BY <1>0, <2>1 DEF NumberTypes
    <2>4. InsideOwnsLock' /\ TornIsBeingWritten'
      BY <2>1, <2>2, <2>3 DEF InsideOwnsLock, TornIsBeingWritten, Inside
    <2>5. StoreBoundsDrawn'
      BY <2>1, <2>2, <2>3 DEF StoreBoundsDrawn, Inside
    <2> QED
      BY <2>1, <2>4, <2>5
  <1>6. ASSUME NEW p \in Procs, Unlink(p)
        PROVE  /\ InsideOwnsLock' /\ TornIsBeingWritten' /\ StoreBoundsDrawn'
               /\ reused' = {}
    <2>1. /\ pc[p] = "unlink" /\ lock \notin {q \in Procs \ {p} : pc[q] \notin Ended}
          /\ pc' = [pc EXCEPT ![p] = "try"] \/ pc' = [pc EXCEPT ![p] = "done"]
          /\ UNCHANGED <<store, num, drawn, reused>>
          /\ InsideOwnsLock /\ TornIsBeingWritten /\ StoreBoundsDrawn /\ reused = {}
      BY <1>3, <1>6 DEF LockStep, Unlink, RemoveLock, Goto, Exit, Gone
    <2>2. \A q \in Procs : pc[q] \notin Inside
      BY <2>1 DEF InsideOwnsLock, Inside, Ended
    <2>3. \A q \in Procs : pc'[q] \notin Inside
      BY <1>0, <2>1, <2>2 DEF NumberTypes, Inside
    <2>4. InsideOwnsLock' /\ TornIsBeingWritten'
      BY <2>1, <2>2, <2>3 DEF InsideOwnsLock, TornIsBeingWritten, Inside
    <2>5. StoreBoundsDrawn'
      BY <2>1, <2>3 DEF StoreBoundsDrawn, Inside
    <2> QED
      BY <2>1, <2>4, <2>5
  <1>7. ASSUME NEW p \in Procs, Load(p)
        PROVE  /\ InsideOwnsLock' /\ TornIsBeingWritten' /\ StoreBoundsDrawn'
               /\ reused' = {}
    <2>1. /\ pc[p] = "load" /\ pc' = [pc EXCEPT ![p] = "save"]
          /\ num' = [num EXCEPT ![p] = (IF store = Torn THEN 0 ELSE store) + 1]
          /\ UNCHANGED <<store, lock, drawn, reused>>
          /\ InsideOwnsLock /\ TornIsBeingWritten /\ StoreBoundsDrawn /\ reused = {}
      BY <1>3, <1>7 DEF LockStep, Load, Goto, disk, numbering
    <2>2. /\ \A q \in Procs : q # p => pc[q] \notin Inside
          /\ store # Torn
      BY <1>4, <1>7, <2>1 DEF LockStep, Inside
    <2>3. /\ pc'[p] = "save" /\ num'[p] = store + 1
          /\ \A q \in Procs : q # p => pc'[q] = pc[q] /\ num'[q] = num[q]
      BY <1>0, <2>1, <2>2 DEF NumberTypes
    <2>4. InsideOwnsLock' /\ TornIsBeingWritten'
      BY <2>1, <2>2, <2>3 DEF InsideOwnsLock, TornIsBeingWritten, Inside
    <2>5. StoreBoundsDrawn'
      BY <2>1, <2>2, <2>3 DEF StoreBoundsDrawn, Inside
    <2> QED
      BY <2>1, <2>4, <2>5
  <1>8. ASSUME NEW p \in Procs, Save(p)
        PROVE  /\ InsideOwnsLock' /\ TornIsBeingWritten' /\ StoreBoundsDrawn'
               /\ reused' = {}
    <2>1. /\ pc[p] = "save"
          /\ InsideOwnsLock /\ TornIsBeingWritten /\ StoreBoundsDrawn /\ reused = {}
      BY <1>3, <1>8 DEF LockStep, Save
    <2>2. /\ \A q \in Procs : q # p => pc[q] \notin Inside
          /\ store # Torn
      BY <1>4, <1>8, <2>1 DEF LockStep, Inside
    <2>3. /\ pc' = [pc EXCEPT ![p] = "write"] /\ store' = Torn
          /\ UNCHANGED <<lock, num, drawn, reused>>
      BY <1>8, <2>2 DEF Save, Goto, numbering
    <2>4. pc'[p] = "write" /\ \A q \in Procs : q # p => pc'[q] = pc[q]
      BY <1>0, <2>3 DEF NumberTypes
    <2>5. InsideOwnsLock' /\ TornIsBeingWritten'
      BY <2>1, <2>2, <2>3, <2>4 DEF InsideOwnsLock, TornIsBeingWritten, Inside
    <2>6. \A n \in drawn : n < num[p]
      BY <1>0, <2>1, <2>2 DEF NumberTypes, StoreBoundsDrawn
    <2>7. StoreBoundsDrawn'
      BY <2>2, <2>3, <2>4, <2>6 DEF StoreBoundsDrawn, Inside
    <2> QED
      BY <2>1, <2>3, <2>5, <2>7
  <1>9. ASSUME NEW p \in Procs, Write(p)
        PROVE  /\ InsideOwnsLock' /\ TornIsBeingWritten' /\ StoreBoundsDrawn'
               /\ reused' = {}
    <2>1. /\ pc[p] = "write" /\ pc' = [pc EXCEPT ![p] = "free"] /\ store' = num[p]
          /\ UNCHANGED <<lock, num, drawn, reused>>
          /\ InsideOwnsLock /\ TornIsBeingWritten /\ StoreBoundsDrawn /\ reused = {}
      BY <1>3, <1>9 DEF LockStep, Write, Goto, numbering
    <2>2. /\ \A q \in Procs : q # p => pc[q] \notin Inside
          /\ \A n \in drawn : n < num[p]
      BY <1>4, <1>9, <2>1 DEF LockStep, Inside, StoreBoundsDrawn
    <2>3. /\ pc'[p] = "free" /\ store' # Torn
          /\ \A q \in Procs : q # p => pc'[q] = pc[q]
      BY <1>0, <2>1 DEF NumberTypes, Torn
    <2>4. InsideOwnsLock' /\ TornIsBeingWritten'
      BY <2>1, <2>2, <2>3 DEF InsideOwnsLock, TornIsBeingWritten, Inside
    <2>5. StoreBoundsDrawn'
      <3>1. \A n \in drawn : n <= num[p]
        BY <1>0, <2>2 DEF NumberTypes
      <3> QED
        BY <2>1, <2>2, <2>3, <3>1 DEF StoreBoundsDrawn, Inside
    <2> QED
      BY <2>1, <2>4, <2>5
  <1>10. ASSUME NEW p \in Procs, Free(p)
         PROVE  /\ InsideOwnsLock' /\ TornIsBeingWritten' /\ StoreBoundsDrawn'
                /\ reused' = {}
    <2>1. /\ pc[p] = "free" /\ pc' = [pc EXCEPT ![p] = "wait"]
          /\ drawn' = drawn \cup {num[p]}
          /\ reused' = IF num[p] \in drawn THEN reused \cup {num[p]} ELSE reused
          /\ UNCHANGED <<store, num>>
          /\ InsideOwnsLock /\ TornIsBeingWritten /\ StoreBoundsDrawn /\ reused = {}
      BY <1>3, <1>10 DEF LockStep, Free, Goto
    <2>2. /\ \A q \in Procs : q # p => pc[q] \notin Inside
          /\ store # Torn /\ store = num[p]
          /\ \A n \in drawn : n < num[p]
      BY <1>4, <1>10, <2>1 DEF LockStep, Inside, StoreBoundsDrawn
    <2>3. \A q \in Procs : pc'[q] \notin Inside
      BY <1>0, <2>1, <2>2 DEF NumberTypes, Inside
    <2>4. InsideOwnsLock' /\ TornIsBeingWritten'
      BY <2>1, <2>2, <2>3 DEF InsideOwnsLock, TornIsBeingWritten
    <2>5. num[p] \notin drawn /\ num[p] \in Nat /\ \A n \in drawn : n <= num[p]
      BY <1>0, <2>2 DEF NumberTypes
    <2>6. StoreBoundsDrawn'
      BY <2>1, <2>2, <2>3, <2>5 DEF StoreBoundsDrawn, Inside
    <2> QED
      BY <2>1, <2>4, <2>5, <2>6
  <1> QED
    BY <1>1, <1>5, <1>6, <1>7, <1>8, <1>9, <1>10, StepsAside DEF LockStep

\* No number is drawn twice, whatever dies holding the lock, unless the age of a lock
\* file was mistaken for the death of its owner or device.json was left cut short.
THEOREM NumbersAreUnique == Spec => []NumbersUnique
  <1>1. IInv => NumbersUnique
    BY DEF IInv, NumbersUnique
  <1> QED
    BY <1>1, InitInv, NextInv, PTL DEF Spec

----------------------------------------------------------------------------
(* What is on the wire and in the replay log.                              *)

AllKinds == {"event", "ack", "reply", "error"}
Evs      == [t : AllKinds \cup {"salt"}, n : Nat, of : Procs \cup {Nobody}]
Frames   == [seq : Nat, ev : Evs]
Msgs     == [t : {"hello", "command"}, n : Nat]

\* Frames of the kinds K, no later than top, whose acks are no higher than lev.
Good(top, lev, K) ==
  {f \in Frames : /\ f.seq <= top /\ f.ev.t \in K
                  /\ f.ev.t = "ack" => f.ev.n <= lev}

\* The kinds of frames p may read: an answer only if it is its own or p was resumed.
Kinds(p) == {"event", "ack"} \cup {t \in {"reply"} : p \in done \cup resumed}
                             \cup {t \in {"error"} : p \in refused \cup resumed}

\* The log ends at the counter o.
LogFits(lg, o) ==
  /\ lg # <<>> => o \in Nat
  /\ \A i \in 1..Len(lg) : lg[i].seq = o - Len(lg) + i

\* More events, a higher level and more kinds allow more frames.
LEMMA GoodMono ==
  ASSUME NEW top \in Nat, NEW top2 \in Nat, top <= top2, NEW lev \in Nat, NEW lev2 \in Nat,
         lev <= lev2, NEW K, NEW K2, K \subseteq K2, NEW q \in Seq(Good(top, lev, K))
  PROVE  q \in Seq(Good(top2, lev2, K2))
<1>1. Good(top, lev, K) \subseteq Good(top2, lev2, K2)
  <2> SUFFICES ASSUME NEW f \in Good(top, lev, K) PROVE f \in Good(top2, lev2, K2)
    OBVIOUS
  <2>1. f \in Frames /\ f.seq \in Nat /\ f.ev.n \in Nat
    BY DEF Good, Frames, Evs
  <2> QED
    BY <2>1 DEF Good
<1> QED
  BY <1>1, SeqMonotonic

\* Push and splice.
LEMMA LatestProperties ==
  ASSUME NEW S, NEW q \in Seq(S)
  PROVE  /\ Latest(q) \in Seq(S) /\ Len(Latest(q)) <= Len(q) /\ Len(Latest(q)) \in Nat
         /\ \A i \in 1..Len(Latest(q)) : Latest(q)[i] = q[Len(q) - Len(Latest(q)) + i]
<1> DEFINE n == IF Len(q) > MaxEvents THEN MaxEvents ELSE Len(q)
           m == Len(q) - n + 1
<1>1. Len(q) \in Nat /\ n \in Nat /\ n <= Len(q)
  BY CcAssumption, LenProperties
<1>2. \A i \in m..Len(q) : q[i] \in S
  <2>1. \A i \in m..Len(q) : i \in 1..Len(q)
    BY <1>1
  <2> QED
    BY <2>1, ElementOfSeq
<1>3. Latest(q) = SubSeq(q, m, Len(q))
  <2>1. CASE Len(q) > MaxEvents
    <3>1. m = Len(q) - MaxEvents + 1
      BY <2>1
    <3> QED
      BY <2>1, <3>1 DEF Latest
  <2>2. CASE ~(Len(q) > MaxEvents)
    <3>1. m = 1
      BY <1>1, <2>2
    <3> QED
      BY <2>2, <3>1 DEF Latest
  <2> QED
    BY <2>1, <2>2
<1> HIDE DEF n
<1>4. m \in Int /\ Len(q) \in Int
  BY <1>1
<1>5. /\ Latest(q) \in Seq(S)
      /\ Len(Latest(q)) = IF m <= Len(q) THEN Len(q) - m + 1 ELSE 0
      /\ \A i \in 1..Len(q) - m + 1 : Latest(q)[i] = q[m + i - 1]
  BY <1>2, <1>3, <1>4, SubSeqProperties
<1>6. (m <= Len(q) <=> n > 0) /\ Len(q) - m + 1 = n
  BY <1>1
<1>7. Len(Latest(q)) = n
  BY <1>1, <1>5, <1>6
<1>8. \A i \in 1..n : m + i - 1 = Len(q) - n + i
  BY <1>1
<1> QED
  BY <1>1, <1>5, <1>6, <1>7, <1>8

\* The frames events become.
LEMMA SealedProperties ==
  ASSUME NEW evs \in Seq(Evs), out \in Nat \cup {NoStream}
  PROVE  /\ Counter \in Nat /\ Len(evs) \in Nat
         /\ Sealed(evs) \in Seq(Frames) /\ Len(Sealed(evs)) = Len(evs)
         /\ \A i \in 1..Len(evs) : /\ Sealed(evs)[i].seq = Counter + i
                                   /\ Sealed(evs)[i].ev = evs[i]
<1>1. Counter \in Nat /\ Len(evs) \in Nat
  BY LenProperties DEF Counter
<1>2. \A i \in 1..Len(evs) : evs[i] \in Evs
  BY ElementOfSeq
<1>3. \A i \in 1..Len(evs) : Frame(Counter + i, evs[i]) \in Frames
  BY <1>1, <1>2 DEF Frame, Frames
<1>4. Sealed(evs) \in Seq(Frames)
  BY <1>1, <1>3, IsASeq DEF Sealed
<1> QED
  BY <1>1, <1>4 DEF Sealed, Frame

\* recordSent for a list of events: the log goes on ending at the counter, and holds
\* nothing but old entries and the new frames.
LEMMA RecordEffect ==
  ASSUME NEW S, log \in Seq(S), out \in Nat \cup {NoStream}, LogFits(log, out),
         NEW evs \in Seq(Evs),
         Record(evs), Sealed(evs) \in Seq(S)
  PROVE  /\ out' \in Nat /\ out' = Counter + Len(evs) /\ Counter' = out'
         /\ log' \in Seq(S) /\ LogFits(log', out')
<1> DEFINE F == Sealed(evs)
           q == log \o F
           N == Len(q)
           L == Len(log')
           c == Counter
<1>1. /\ c \in Nat /\ Len(evs) \in Nat /\ Len(F) = Len(evs)
      /\ \A i \in 1..Len(evs) : F[i].seq = c + i
  BY SealedProperties
<1>2. out' = c + Len(evs) /\ log' = Latest(q)
  BY DEF Record
<1>3. out' \in Nat /\ Counter' = out'
  BY <1>1, <1>2 DEF Counter, NoStream
<1>4. Len(log) \in Nat /\ \A i \in 1..Len(log) : log[i].seq = c - Len(log) + i
  <2>1. Len(log) \in Nat
    BY LenProperties
  <2>2. \A i \in 1..Len(log) : log # <<>>
    BY <2>1, EmptySeq
  <2> QED
    BY <2>1, <2>2 DEF LogFits, Counter, NoStream
<1> HIDE DEF F, c
<1>5. /\ q \in Seq(S) /\ N = Len(log) + Len(F)
      /\ \A i \in 1..Len(log) + Len(F) : q[i] = IF i <= Len(log) THEN log[i] ELSE F[i - Len(log)]
  BY ConcatProperties DEF F
<1> HIDE DEF q
<1>6. \A i \in 1..N : q[i].seq = out' - N + i
  <2> SUFFICES ASSUME NEW i \in 1..N PROVE q[i].seq = out' - N + i
    OBVIOUS
  <2>1. CASE i <= Len(log)
    <3>0. i \in 1..Len(log) /\ i \in 1..Len(log) + Len(F)
      BY <1>1, <1>4, <1>5, <2>1
    <3>1. q[i] = log[i] /\ log[i].seq = c - Len(log) + i
      BY <1>4, <1>5, <2>1, <3>0
    <3> QED
      BY <1>1, <1>2, <1>4, <1>5, <3>1
  <2>2. CASE ~(i <= Len(log))
    <3>1. i - Len(log) \in 1..Len(evs)
      BY <1>1, <1>4, <1>5, <2>2
    <3>2. q[i] = F[i - Len(log)] /\ F[i - Len(log)].seq = c + (i - Len(log))
      BY <1>1, <1>5, <2>2, <3>1
    <3> QED
      BY <1>1, <1>2, <1>4, <1>5, <3>1, <3>2
  <2> QED
    BY <2>1, <2>2
<1>7. /\ log' \in Seq(S) /\ L <= N /\ L \in Nat
      /\ \A i \in 1..L : log'[i] = q[N - L + i]
  BY <1>2, <1>5, LatestProperties
<1>8. N \in Nat
  BY <1>1, <1>4, <1>5
<1> HIDE DEF N, L
<1>9. \A i \in 1..L : log'[i].seq = out' - L + i
  <2> SUFFICES ASSUME NEW i \in 1..L PROVE log'[i].seq = out' - L + i
    OBVIOUS
  <2>1. N - L + i \in 1..N
    BY <1>7, <1>8
  <2>2. q[N - L + i].seq = out' - N + (N - L + i)
    BY <1>6, <2>1
  <2>3. out' - N + (N - L + i) = out' - L + i
    BY <1>3, <1>7, <1>8
  <2> QED
    BY <1>7, <2>2, <2>3
<1> QED
  BY <1>2, <1>3, <1>7, <1>9 DEF LogFits, c, L

\* What is replayed after lastSeq: the end of the log, from the next seq on.
LEMMA ReplayProperties ==
  ASSUME NEW S, log \in Seq(S), out \in Nat \cup {NoStream}, LogFits(log, out),
         NEW lastSeq \in Nat,
         Resumes(lastSeq)
  PROVE  /\ Replay(lastSeq) \in Seq(S) /\ Len(Replay(lastSeq)) = out - lastSeq
         /\ lastSeq # 0 /\ out \in Nat /\ lastSeq <= out
         /\ \A i \in 1..Len(Replay(lastSeq)) :
              /\ Replay(lastSeq)[i].seq = lastSeq + i
              /\ \E j \in 1..Len(log) : Replay(lastSeq)[i] = log[j]
<1> DEFINE n == Len(log)
           P(k) == \A i \in 1..n : log[i].seq > lastSeq <=> i > k
           m == lastSeq - (out - n)
           skip == CHOOSE k \in 0..n : P(k)
           R == Replay(lastSeq)
<1>1. /\ n \in Nat /\ out \in Nat /\ lastSeq # 0 /\ lastSeq <= out
      /\ lastSeq < out => log # <<>> /\ lastSeq + 1 >= log[1].seq
      /\ \A i \in 1..n : log[i].seq = out - n + i
  BY LenProperties DEF Resumes, NoStream, LogFits
<1>2. m \in 0..n
  <2>1. CASE lastSeq = out
    BY <1>1, <2>1
  <2>2. CASE lastSeq < out
    <3>1. n \in Nat \ {0}
      BY <1>1, <2>2, EmptySeq
    <3>2. log[1].seq = out - n + 1
      BY <1>1, <3>1
    <3> QED
      BY <1>1, <2>2, <3>1, <3>2
  <2> QED
    BY <1>1, <2>1, <2>2
<1>3. P(m)
  <2> HIDE DEF n
  <2> QED
    BY <1>1, <1>2
<1>4. ASSUME NEW k \in 0..n, P(k) PROVE k = m
  <2>0. \A i \in 1..n : i > m <=> i > k
    BY <1>3, <1>4
  <2> HIDE DEF P, m, n
  <2>1. CASE k < m
    <3>1. k + 1 \in 1..n
      BY <1>1, <1>2, <2>1
    <3> QED
      BY <1>2, <2>0, <2>1, <3>1
  <2>2. CASE m < k
    <3>1. m + 1 \in 1..n
      BY <1>1, <1>2, <2>2
    <3> QED
      BY <1>2, <2>0, <2>2, <3>1
  <2> QED
    BY <1>1, <1>2, <2>1, <2>2
<1>5. skip = m
  BY <1>2, <1>3, <1>4
<1>6. R = SubSeq(log, m + 1, n)
  BY <1>5 DEF Replay
<1>7. \A i \in m + 1..n : log[i] \in S
  <2>1. \A i \in m + 1..n : i \in 1..n
    BY <1>1, <1>2
  <2> QED
    BY <2>1, ElementOfSeq
<1>8. m + 1 \in Int /\ n \in Int
  BY <1>1, <1>2
<1> HIDE DEF n, R
<1>9. m = lastSeq - (out - n)
  OBVIOUS
<1> HIDE DEF m
<1>10. /\ R \in Seq(S) /\ Len(R) = IF m + 1 <= n THEN n - (m + 1) + 1 ELSE 0
       /\ \A i \in 1..n - (m + 1) + 1 : R[i] = log[(m + 1) + i - 1]
  BY <1>6, <1>7, <1>8, SubSeqProperties
<1>11. Len(R) = out - lastSeq /\ Len(R) = n - m
  BY <1>1, <1>2, <1>9, <1>10
<1>12. ASSUME NEW i \in 1..Len(R)
       PROVE  m + i \in 1..n /\ R[i] = log[m + i] /\ out - n + (m + i) = lastSeq + i
  <2>1. i \in 1..n - (m + 1) + 1 /\ (m + 1) + i - 1 = m + i /\ m + i \in 1..n
    BY <1>1, <1>2, <1>11
  <2> QED
    BY <1>1, <1>9, <1>10, <2>1
<1> QED
  BY <1>1, <1>10, <1>11, <1>12 DEF R, n

----------------------------------------------------------------------------
(* What holds of a process and its connection.                             *)

\* The write of p is on its way, for all p knows.
Issued(p) == p \notin reads /\ num[p] # 0 /\ pc[p] \in {"open", "wait"}

\* The numbers markProcessed has seen.
Processed == (1..through) \cup ahead

\* Hello is on its way, with the checkpoint hi.
Hailing(u, dn, hi) == u = <<Hello(hi)>> /\ dn = <<>>

\* Hello was answered: the salt is next, and behind it no answers but those p may read.
Salted(u, dn, hi, nm, top, lev, K) ==
  /\ u = <<>> /\ dn # <<>>
  /\ dn[1].ev.t = "salt" /\ dn[1].seq = 0
  /\ dn[1].ev.n = 1 => nm # 0 /\ hi <= top
  /\ Tail(dn) \in Seq(Good(top, lev, IF dn[1].ev.n = 1 THEN AllKinds ELSE K))

\* The connection of a process at pcp with the number nm and the checkpoint hi, when the
\* daemon's counter is top and its level lev.
SockOK(pcp, sk, u, dn, hi, nm, top, lev, K) ==
  /\ sk # "up" => u = <<>> /\ dn = <<>>
  /\ hi # 0 \/ pcp \in {"save", "write", "free", "wait"} => nm # 0
  /\ pcp = "start" => nm = 0
  /\ pcp = "open" /\ sk = "up" => Hailing(u, dn, hi) \/ Salted(u, dn, hi, nm, top, lev, K)
  /\ pcp # "open" => dn \in Seq(Good(top, lev, K)) /\ (sk = "up" => hi <= top)

\* An ack that confirms k.
Confirms(f, k) == f.ev.t = "ack" /\ f.ev.n >= k

\* In the log: s is an error, and what confirms k is behind it.
Around(s, k) ==
  {f \in Frames : /\ f.seq = s => f.ev.t = "error"
                  /\ Confirms(f, k) => f.seq > s}

\* In dn: an error comes before anything from s on and before anything that confirms k.
ErrorFirst(dn, s, k) ==
  \E j \in 1..Len(dn) :
    /\ dn[j].ev.t = "error"
    /\ \A i \in 1..j - 1 : dn[i].seq < s /\ ~Confirms(dn[i], k)

\* The refusal of k has the seq s, which is ahead of hi, in the log and, if the process
\* listens, in dn.
RefusedAt(s, k, hi, top, lg, listens, dn) ==
  /\ hi < s /\ s <= top
  /\ lg \in Seq(Around(s, k))
  /\ listens => ErrorFirst(dn, s, k)

\* p will read what the daemon has for it, and not start afresh.
Listens(p) == sock[p] = "up" /\ (pc[p] = "open" => down[p] # <<>> /\ down[p][1].ev.n = 1)

\* A write that was processed and not completed was refused, and p will come to the
\* error before any ack.
Refusal(p) ==
  Issued(p) /\ num[p] \in Processed \ reused /\ p \notin done \cup resynced \cup missed =>
    \E s \in Nat :
      RefusedAt(s, num[p], highest[p], Counter, log, Listens(p), down[p])

\* The commands p has on the wire: their numbers were drawn, and another process that
\* waits for one of them has drawn it again.
Cmds(p) ==
  {m \in Msgs : /\ m.t = "command" /\ m.n \in drawn \ {0}
                /\ \A q \in Procs \ {p} : Issued(q) /\ num[q] = m.n => m.n \in reused}

ProcOK(p) ==
  /\ SockOK(pc[p], sock[p], up[p], down[p], highest[p], num[p], Counter, through, Kinds(p))
  /\ pc[p] # "open" => up[p] \in Seq(Cmds(p))
  /\ Issued(p) => num[p] \in drawn
  /\ Issued(p) /\ num[p] \in Processed => p \in done \cup refused \/ num[p] \in reused
  /\ Refusal(p)
  /\ exit[p] # "none" => pc[p] = "done"

\* What p wrote to a connection it gave up: a command there was sent to this daemon, so
\* the checkpoint of p is not ahead of it.
LateOK(p) ==
  \A m \in DOMAIN late[p] :
    /\ m \in Msgs
    /\ m.t = "command" => m \in Cmds(p) /\ highest[p] <= Counter

LateInv == DOMAIN late = Procs /\ \A p \in Procs : LateOK(p)

\* How p exited is true.
TrueExit(p) ==
  /\ exit[p] = "confirmed" =>
       p \in done \/ num[p] \in reused \/ (p \in refused /\ p \in resynced \cup missed)
  /\ exit[p] = "replied" => p \in done \/ p \in resumed
  /\ exit[p] = "refused" => p \in refused \/ p \in resumed

\* Two processes wait for one number only if it was drawn twice.
Distinct ==
  \A p, q \in Procs : p # q /\ Issued(p) /\ Issued(q) /\ num[p] = num[q] => num[p] \in reused

DaemonOK ==
  /\ log \in Seq(Good(Counter, through, AllKinds))
  /\ LogFits(log, out)
  /\ Processed \subseteq drawn

WireTypes ==
  /\ out \in Nat \cup {NoStream}
  /\ through \in Nat /\ ahead \in SUBSET Nat
  /\ highest \in [Procs -> Nat]
  /\ sock \in [Procs -> {"none", "up", "broken"}]
  /\ up \in [Procs -> Seq(Msgs)]
  /\ down \in [Procs -> Seq(Frames)]
  /\ exit \in [Procs -> {"none", "unpaired", "unreachable", "gaveup", "confirmed", "refused",
                         "replied", "locked"}]

ExitInv ==
  /\ NumberTypes /\ WireTypes
  /\ DaemonOK /\ Distinct
  /\ \A p \in Procs : ProcOK(p) /\ TrueExit(p)

----------------------------------------------------------------------------
(* Frames put behind those on a connection, and the first one taken away.  *)

\* What is put behind a queue leaves its first element alone.
LEMMA TailConcat ==
  ASSUME NEW S, NEW q \in Seq(S), q # <<>>, NEW F \in Seq(S)
  PROVE  Tail(q \o F) = Tail(q) \o F /\ (q \o F)[1] = q[1] /\ q \o F # <<>>
<1> DEFINE n == Len(q)
           qf == q \o F
           lhs == Tail(qf)
           rhs == Tail(q) \o F
<1>1. n \in Nat \ {0} /\ Len(F) \in Nat
  BY EmptySeq, LenProperties
<1>2. /\ qf \in Seq(S) /\ Len(qf) = n + Len(F)
      /\ \A i \in 1..n + Len(F) : qf[i] = IF i <= n THEN q[i] ELSE F[i - n]
  BY ConcatProperties
<1>3. /\ Tail(q) \in Seq(S) /\ Len(Tail(q)) = n - 1
      /\ \A i \in 1..n - 1 : Tail(q)[i] = q[i + 1]
  BY HeadTailProperties
<1> HIDE DEF n, qf
<1>4. qf # <<>> /\ qf[1] = q[1]
  BY <1>1, <1>2, EmptySeq
<1>5. /\ lhs \in Seq(S) /\ Len(lhs) = n + Len(F) - 1
      /\ \A i \in 1..n + Len(F) - 1 : lhs[i] = qf[i + 1]
  <2>1. /\ Tail(qf) \in Seq(S) /\ Len(Tail(qf)) = Len(qf) - 1
        /\ \A i \in 1..Len(Tail(qf)) : Tail(qf)[i] = qf[i + 1]
    BY <1>2, <1>4, HeadTailProperties
  <2> QED
    BY <1>1, <1>2, <2>1
<1>6. /\ rhs \in Seq(S) /\ Len(rhs) = n - 1 + Len(F)
      /\ \A i \in 1..n - 1 + Len(F) :
           rhs[i] = IF i <= n - 1 THEN Tail(q)[i] ELSE F[i - (n - 1)]
  BY <1>3, ConcatProperties
<1> HIDE DEF lhs, rhs
<1>7. ASSUME NEW i \in 1..Len(lhs) PROVE lhs[i] = rhs[i]
  <2>1. i \in 1..n + Len(F) - 1 /\ i + 1 \in 1..n + Len(F) /\ i \in 1..n - 1 + Len(F)
    BY <1>1, <1>5
  <2>2. CASE i <= n - 1
    <3>1. i + 1 <= n /\ i \in 1..n - 1
      BY <1>1, <2>1, <2>2
    <3> QED
      BY <1>2, <1>3, <1>5, <1>6, <2>1, <2>2, <3>1
  <2>3. CASE ~(i <= n - 1)
    <3>1. ~(i + 1 <= n) /\ i + 1 - n = i - (n - 1)
      BY <1>1, <2>1, <2>3
    <3>2. qf[i + 1] = F[i + 1 - n]
      BY <1>1, <1>2, <2>1, <3>1
    <3>3. rhs[i] = F[i - (n - 1)]
      BY <1>6, <2>1, <2>3
    <3> QED
      BY <1>5, <2>1, <3>1, <3>2, <3>3
  <2> QED
    BY <2>2, <2>3
<1>8. Len(lhs) = Len(rhs)
  BY <1>1, <1>5, <1>6
<1>9. lhs = rhs
  BY <1>5, <1>6, <1>7, <1>8, SeqEqual
<1> QED
  BY <1>4, <1>9 DEF lhs, rhs, qf

\* Good frames are frames.
LEMMA GoodFrames ==
  ASSUME NEW top, NEW lev, NEW K, NEW q \in Seq(Good(top, lev, K))
  PROVE  q \in Seq(Frames)
<1>1. Good(top, lev, K) \subseteq Frames
  BY DEF Good
<1> QED
  BY <1>1, SeqMonotonic

\* A connection stays as it is when the daemon goes on, and when it is sent frames.
LEMMA SockGrows ==
  ASSUME NEW pcp, NEW sk, NEW u, NEW dn \in Seq(Frames), NEW hi \in Nat, NEW nm,
         NEW top \in Nat, NEW top2 \in Nat, top <= top2,
         NEW lev \in Nat, NEW lev2 \in Nat, lev <= lev2,
         NEW K, NEW K2, K \subseteq K2, K2 \subseteq AllKinds,
         SockOK(pcp, sk, u, dn, hi, nm, top, lev, K)
  PROVE  /\ SockOK(pcp, sk, u, dn, hi, nm, top2, lev2, K2)
         /\ \A F \in Seq(Good(top2, lev2, K2)) :
              sk = "up" /\ (pcp = "open" => u = <<>>) =>
                SockOK(pcp, sk, u, dn \o F, hi, nm, top2, lev2, K2)
<1>1. ASSUME pcp = "open", Salted(u, dn, hi, nm, top, lev, K)
      PROVE  /\ Salted(u, dn, hi, nm, top2, lev2, K2)
             /\ \A F \in Seq(Good(top2, lev2, K2)) :
                  Salted(u, dn \o F, hi, nm, top2, lev2, K2)
  <2> DEFINE A  == IF dn[1].ev.n = 1 THEN AllKinds ELSE K
             A2 == IF dn[1].ev.n = 1 THEN AllKinds ELSE K2
  <2>1. A \subseteq A2 /\ K2 \subseteq A2 /\ Tail(dn) \in Seq(Good(top, lev, A))
    BY <1>1 DEF Salted
  <2> HIDE DEF A, A2
  <2>2. Tail(dn) \in Seq(Good(top2, lev2, A2))
    BY <2>1, GoodMono
  <2>3. hi <= top => hi <= top2
    OBVIOUS
  <2>4. Salted(u, dn, hi, nm, top2, lev2, K2)
    BY <1>1, <2>2, <2>3 DEF Salted, A2
  <2>5. ASSUME NEW F \in Seq(Good(top2, lev2, K2))
        PROVE  Salted(u, dn \o F, hi, nm, top2, lev2, K2)
    <3>1. F \in Seq(Good(top2, lev2, A2)) /\ F \in Seq(Frames)
      BY <2>1, GoodMono, GoodFrames
    <3>2. Tail(dn) \o F \in Seq(Good(top2, lev2, A2))
      BY <2>2, <3>1, ConcatProperties
    <3>3. Tail(dn \o F) = Tail(dn) \o F /\ (dn \o F)[1] = dn[1] /\ dn \o F # <<>>
      BY <1>1, <3>1, TailConcat DEF Salted
    <3> QED
      BY <1>1, <2>3, <3>2, <3>3 DEF Salted, A2
  <2> QED
    BY <2>4, <2>5
<1>2. ASSUME pcp # "open"
      PROVE  /\ dn \in Seq(Good(top2, lev2, K2))
             /\ \A F \in Seq(Good(top2, lev2, K2)) : dn \o F \in Seq(Good(top2, lev2, K2))
             /\ sk = "up" => hi <= top2
  <2>1. dn \in Seq(Good(top, lev, K)) /\ (sk = "up" => hi <= top)
    BY <1>2 DEF SockOK
  <2>2. dn \in Seq(Good(top2, lev2, K2))
    BY <2>1, GoodMono
  <2>3. \A F \in Seq(Good(top2, lev2, K2)) : dn \o F \in Seq(Good(top2, lev2, K2))
    BY <2>2, ConcatProperties
  <2> QED
    BY <2>1, <2>2, <2>3
<1>3. SockOK(pcp, sk, u, dn, hi, nm, top2, lev2, K2)
  BY <1>1, <1>2 DEF SockOK
<1>4. ASSUME NEW F \in Seq(Good(top2, lev2, K2)), sk = "up", pcp = "open" => u = <<>>
      PROVE  SockOK(pcp, sk, u, dn \o F, hi, nm, top2, lev2, K2)
  <2>1. pcp = "open" => Salted(u, dn, hi, nm, top, lev, K)
    BY <1>4 DEF SockOK, Hailing
  <2> QED
    BY <1>1, <1>2, <1>4, <2>1 DEF SockOK
<1> QED
  BY <1>3, <1>4

\* An error stays first when frames are put behind it, and when another frame is read.
LEMMA ErrorStaysFirst ==
  ASSUME NEW dn \in Seq(Frames), NEW s \in Nat, NEW k \in Nat, ErrorFirst(dn, s, k)
  PROVE  /\ \A F \in Seq(Frames) : ErrorFirst(dn \o F, s, k)
         /\ dn # <<>>
         /\ dn[1].ev.t # "error" =>
              dn[1].seq < s /\ ~Confirms(dn[1], k) /\ ErrorFirst(Tail(dn), s, k)
<1> DEFINE n == Len(dn)
<1>0. n \in Nat
  BY LenProperties
<1>1. PICK j \in 1..n : /\ dn[j].ev.t = "error"
                        /\ \A i \in 1..j - 1 : dn[i].seq < s /\ ~Confirms(dn[i], k)
  BY DEF ErrorFirst
<1>2. dn # <<>>
  BY <1>0, EmptySeq
<1>3. ASSUME NEW F \in Seq(Frames) PROVE ErrorFirst(dn \o F, s, k)
  <2>1. /\ Len(dn \o F) = n + Len(F) /\ Len(F) \in Nat
        /\ \A i \in 1..n + Len(F) : (dn \o F)[i] = IF i <= n THEN dn[i] ELSE F[i - n]
    BY ConcatProperties, LenProperties
  <2> HIDE DEF n
  <2>2. j \in 1..Len(dn \o F) /\ \A i \in 1..j : (dn \o F)[i] = dn[i]
    BY <1>0, <2>1
  <2>3. \A i \in 1..j - 1 : i \in 1..j
    OBVIOUS
  <2>4. (dn \o F)[j] = dn[j]
    BY <1>0, <2>2
  <2> QED
    BY <1>1, <2>2, <2>3, <2>4 DEF ErrorFirst
<1>4. ASSUME dn[1].ev.t # "error"
      PROVE  dn[1].seq < s /\ ~Confirms(dn[1], k) /\ ErrorFirst(Tail(dn), s, k)
  <2>1. Len(Tail(dn)) = n - 1 /\ \A i \in 1..Len(Tail(dn)) : Tail(dn)[i] = dn[i + 1]
    BY <1>2, HeadTailProperties
  <2> HIDE DEF n
  <2>2. j # 1
    BY <1>1, <1>4
  <2>3. 1 \in 1..j - 1 /\ j - 1 \in 1..n - 1 /\ (j - 1) + 1 = j
    BY <1>0, <2>2
  <2>4. \A i \in 1..(j - 1) - 1 : i \in 1..n - 1 /\ i + 1 \in 1..j - 1
    BY <1>0, <2>3
  <2>5. Tail(dn)[j - 1] = dn[j]
    BY <2>1, <2>3
  <2>6. \A i \in 1..(j - 1) - 1 : Tail(dn)[i].seq < s /\ ~Confirms(Tail(dn)[i], k)
    BY <1>1, <2>1, <2>4
  <2>7. ErrorFirst(Tail(dn), s, k)
    BY <1>1, <2>1, <2>3, <2>5, <2>6 DEF ErrorFirst
  <2> QED
    BY <1>1, <2>3, <2>7
<1> QED
  BY <1>2, <1>3, <1>4

----------------------------------------------------------------------------
(* What a step does to the processes that do not take it.                  *)

\* The event is nothing but its own kind, and an ack is not above the level.
Honest(ev, lev) == ev \in Evs /\ ev.t # "salt" /\ (ev.t = "ack" => ev.n <= lev)

\* recordSent for honest events: the counter grows, the log keeps ending there, and a
\* refusal in it is not disturbed.
LEMMA RecordKeeps ==
  ASSUME WireTypes, DaemonOK, NEW evs \in Seq(Evs), Record(evs),
         through' \in Nat, through <= through', \A i \in 1..Len(evs) : Honest(evs[i], through')
  PROVE  /\ Counter \in Nat /\ out' \in Nat /\ Counter' = out' /\ Counter' = Counter + Len(evs)
         /\ Len(evs) \in Nat /\ Counter <= Counter'
         /\ log' \in Seq(Good(Counter', through', AllKinds)) /\ LogFits(log', out')
         /\ \A s, k \in Nat : s <= Counter /\ log \in Seq(Around(s, k)) =>
                                log' \in Seq(Around(s, k))
         /\ \A K : (\A i \in 1..Len(evs) : evs[i].t \in K) =>
                     Sealed(evs) \in Seq(Good(Counter', through', K))
<1> DEFINE F == Sealed(evs)
           c == Counter
<1>1. out \in Nat \cup {NoStream} /\ through \in Nat /\ LogFits(log, out)
  BY DEF WireTypes, DaemonOK
<1>2. /\ c \in Nat /\ Len(evs) \in Nat /\ F \in Seq(Frames) /\ Len(F) = Len(evs)
      /\ \A i \in 1..Len(evs) : F[i].seq = c + i /\ F[i].ev = evs[i]
  BY <1>1, SealedProperties
<1>3. log \in Seq(Frames)
  BY GoodFrames DEF DaemonOK
<1>4. /\ out' \in Nat /\ Counter' = out' /\ Counter' = c + Len(evs)
      /\ LogFits(log', out')
  BY <1>1, <1>2, <1>3, RecordEffect
<1> HIDE DEF F, c
<1>5. \A i \in 1..Len(evs) : F[i] \in Frames
  BY <1>2, ElementOfSeq
<1>6. ASSUME NEW K, \A i \in 1..Len(evs) : evs[i].t \in K
      PROVE  F \in Seq(Good(Counter', through', K))
  <2>1. \A i \in 1..Len(evs) : F[i] \in Good(Counter', through', K)
    <3> SUFFICES ASSUME NEW i \in 1..Len(evs) PROVE F[i] \in Good(Counter', through', K)
      OBVIOUS
    <3>1. F[i].seq = c + i /\ F[i].ev = evs[i] /\ Honest(evs[i], through') /\ evs[i].t \in K
      BY <1>2, <1>6
    <3>2. c + i <= Counter'
      BY <1>2, <1>4
    <3> QED
      BY <1>5, <3>1, <3>2 DEF Good, Honest
  <2> QED
    BY <1>2, <2>1
<1>7. log' \in Seq(Good(Counter', through', AllKinds))
  <2> DEFINE S == Good(Counter', through', AllKinds)
  <2>1. \A i \in 1..Len(evs) : evs[i].t \in AllKinds
    BY DEF Honest, Evs
  <2>2. F \in Seq(S)
    BY <1>6, <2>1
  <2>3. Counter \in Nat /\ Counter <= Counter'
    BY <1>2, <1>4 DEF c
  <2>4. log \in Seq(S)
    BY <1>1, <1>4, <2>3, GoodMono DEF DaemonOK
  <2> HIDE DEF S
  <2>5. log' \in Seq(S)
    BY <1>1, <2>2, <2>4, RecordEffect DEF F
  <2> QED
    BY <2>5 DEF S
<1>8. ASSUME NEW s \in Nat, NEW k \in Nat, s <= Counter, log \in Seq(Around(s, k))
      PROVE  log' \in Seq(Around(s, k))
  <2>1. \A i \in 1..Len(evs) : F[i] \in Around(s, k)
    <3> SUFFICES ASSUME NEW i \in 1..Len(evs) PROVE F[i] \in Around(s, k)
      OBVIOUS
    <3>1. F[i].seq > s
      BY <1>2, <1>8 DEF c
    <3>2. F[i].seq # s
      BY <1>2, <1>8 DEF c
    <3> QED
      BY <1>5, <3>1, <3>2 DEF Around
  <2>2. F \in Seq(Around(s, k))
    BY <1>2, <2>1
  <2> QED
    BY <1>1, <1>8, <2>2, RecordEffect DEF F
<1> QED
  BY <1>2, <1>4, <1>6, <1>7, <1>8 DEF F, c

\* p did nothing.
Untouched(p) ==
  /\ pc'[p] = pc[p] /\ exit'[p] = exit[p] /\ num'[p] = num[p] /\ highest'[p] = highest[p]
  /\ sock'[p] = sock[p] /\ up'[p] = up[p]

\* The daemon and the histories go on.
GoesOn ==
  /\ reads' = reads
  /\ Counter <= Counter' /\ through <= through'
  /\ \A s, k \in Nat :
       s <= Counter /\ log \in Seq(Around(s, k)) => log' \in Seq(Around(s, k))
  /\ done \subseteq done' /\ refused \subseteq refused'
  /\ resumed \subseteq resumed' /\ resynced \subseteq resynced' /\ missed \subseteq missed'
  /\ drawn \subseteq drawn' /\ reused \subseteq reused'

\* p waits for no number that somebody drew before, unless that is noted.
Fresh(p) ==
  Issued(p)' => \/ Issued(p) /\ num'[p] = num[p]
                \/ num'[p] \notin drawn
                \/ num'[p] \in reused'

\* p is sent nothing, or a frame of a broadcast.
Overhears(p) ==
  \/ down'[p] = down[p]
  \/ /\ sock[p] = "up" /\ (pc[p] = "open" => up[p] = <<>>)
     /\ \E F \in Seq(Good(Counter', through', {"event"})) : down'[p] = down[p] \o F

\* The kinds of frames p may read only grow.
LEMMA KindsGrow ==
  ASSUME NEW p, done \subseteq done', refused \subseteq refused', resumed \subseteq resumed'
  PROVE  /\ Kinds(p) \subseteq Kinds(p)' /\ Kinds(p)' \subseteq AllKinds
         /\ {"event", "ack"} \subseteq Kinds(p)'
BY DEF Kinds, AllKinds

\* The counter is a number.
LEMMA CounterType == WireTypes => Counter \in Nat
BY DEF WireTypes, Counter

\* A process that does not take part keeps what holds of it.
LEMMA BystanderKeeps ==
  ASSUME NumberTypes, WireTypes, WireTypes', NEW p \in Procs, ProcOK(p), TrueExit(p),
         Untouched(p), GoesOn, Overhears(p),
         \A n \in Processed' \ Processed : Issued(p) /\ num[p] = n => n \in reused',
         \A q \in Procs \ {p} : Fresh(q)
  PROVE  ProcOK(p)' /\ TrueExit(p)'
<1> DEFINE dn == down[p]
<1>1. /\ Counter \in Nat /\ Counter' \in Nat /\ through \in Nat /\ through' \in Nat
      /\ dn \in Seq(Frames) /\ highest[p] \in Nat /\ num[p] \in Nat
  BY CounterType DEF WireTypes, NumberTypes, Counter
<1>2. Kinds(p) \subseteq Kinds(p)' /\ Kinds(p)' \subseteq AllKinds /\ "event" \in Kinds(p)'
  BY KindsGrow DEF GoesOn
<1>3. Counter <= Counter' /\ through <= through'
  BY DEF GoesOn
<1>4. SockOK(pc[p], sock[p], up[p], dn, highest[p], num[p], Counter, through, Kinds(p))
  BY DEF ProcOK
<1>5. ASSUME NEW F \in Seq(Good(Counter', through', {"event"}))
      PROVE  F \in Seq(Good(Counter', through', Kinds(p)')) /\ F \in Seq(Frames)
  BY <1>1, <1>2, GoodMono, GoodFrames
<1>6. SockOK(pc[p], sock[p], up[p], down'[p], highest[p], num[p], Counter', through', Kinds(p)')
  <2>1. CASE down'[p] = dn
    <3>1. SockOK(pc[p], sock[p], up[p], dn, highest[p], num[p], Counter', through', Kinds(p)')
      BY <1>1, <1>2, <1>3, <1>4, SockGrows
    <3> QED
      BY <2>1, <3>1
  <2>2. CASE down'[p] # dn
    <3>1. PICK F \in Seq(Good(Counter', through', {"event"})) : down'[p] = dn \o F
      BY <2>2 DEF Overhears
    <3>2. sock[p] = "up" /\ (pc[p] = "open" => up[p] = <<>>)
      BY <2>2 DEF Overhears
    <3>3. F \in Seq(Good(Counter', through', Kinds(p)'))
      BY <1>5
    <3>4. \A G \in Seq(Good(Counter', through', Kinds(p)')) :
            sock[p] = "up" /\ (pc[p] = "open" => up[p] = <<>>) =>
              SockOK(pc[p], sock[p], up[p], dn \o G, highest[p], num[p], Counter', through',
                     Kinds(p)')
      BY <1>1, <1>2, <1>3, <1>4, SockGrows
    <3> QED
      BY <3>1, <3>2, <3>3, <3>4
  <2> QED
    BY <2>1, <2>2
<1>7. SockOK(pc[p], sock[p], up[p], down[p], highest[p], num[p], Counter, through, Kinds(p))'
  BY <1>6 DEF Untouched
<1>8. Issued(p)' <=> Issued(p)
  BY DEF Issued, Untouched, GoesOn
<1>9. (pc[p] # "open" => up[p] \in Seq(Cmds(p)))'
  <2>1. Cmds(p) \subseteq Cmds(p)'
    <3> SUFFICES ASSUME NEW m \in Cmds(p) PROVE m \in Cmds(p)'
      OBVIOUS
    <3>1. /\ m \in Msgs /\ m.t = "command" /\ m.n \in drawn \ {0}
          /\ \A q \in Procs \ {p} : Issued(q) /\ num[q] = m.n => m.n \in reused
      BY DEF Cmds
    <3>2. drawn \subseteq drawn' /\ reused \subseteq reused'
      BY DEF GoesOn
    <3>3. ASSUME NEW q \in Procs \ {p}, Issued(q)', num'[q] = m.n PROVE m.n \in reused'
      BY <3>1, <3>2, <3>3 DEF Fresh
    <3> QED
      BY <3>1, <3>2, <3>3 DEF Cmds
  <2>2. pc'[p] # "open" => up[p] \in Seq(Cmds(p))
    BY DEF ProcOK, Untouched
  <2>3. pc'[p] # "open" => up[p] \in Seq(Cmds(p)')
    BY <2>1, <2>2, SeqMonotonic
  <2> QED
    BY <2>3 DEF Untouched
<1>10. (Issued(p) => num[p] \in drawn)'
  BY <1>8 DEF ProcOK, Untouched, GoesOn
<1>11. ASSUME Issued(p)', num'[p] \in Processed', num'[p] \notin reused'
       PROVE  Issued(p) /\ num[p] \in Processed /\ num[p] \notin reused
  <2>1. num'[p] = num[p] /\ Issued(p) /\ num[p] \notin reused
    BY <1>8, <1>11 DEF Untouched, GoesOn
  <2> QED
    BY <1>11, <2>1
<1>12. (Issued(p) /\ num[p] \in Processed => p \in done \cup refused \/ num[p] \in reused)'
  BY <1>11 DEF ProcOK, GoesOn
<1>13. Refusal(p)'
  <2> SUFFICES ASSUME Issued(p)', num'[p] \in Processed' \ reused',
                      p \notin done' \cup resynced' \cup missed'
               PROVE  \E s \in Nat : RefusedAt(s, num[p], highest[p], Counter, log, Listens(p),
                                               down[p])'
    BY DEF Refusal
  <2>1. PICK s \in Nat : RefusedAt(s, num[p], highest[p], Counter, log, Listens(p), dn)
    BY <1>11 DEF ProcOK, Refusal, GoesOn
  <2>2. highest'[p] < s /\ s <= Counter'
    BY <1>1, <1>3, <2>1 DEF RefusedAt, Untouched
  <2>3. log' \in Seq(Around(s, num'[p]))
    BY <1>1, <2>1 DEF RefusedAt, Untouched, GoesOn
  <2>4. ASSUME Listens(p)' PROVE ErrorFirst(down'[p], s, num'[p])
    <3>1. CASE down'[p] = dn
      <4>1. Listens(p)
        BY <2>4, <3>1 DEF Listens, Untouched
      <4> QED
        BY <2>1, <3>1, <4>1 DEF RefusedAt, Untouched
    <3>2. CASE down'[p] # dn
      <4>1. PICK F \in Seq(Good(Counter', through', {"event"})) : down'[p] = dn \o F
        BY <3>2 DEF Overhears
      <4>2. sock[p] = "up" /\ (pc[p] = "open" => up[p] = <<>>) /\ F \in Seq(Frames)
        BY <1>5, <3>2 DEF Overhears
      <4>3. ASSUME pc[p] = "open" PROVE dn # <<>>
        <5>1. up[p] = <<>> /\ <<Hello(highest[p])>> # <<>>
          BY <4>2, <4>3
        <5>2. Hailing(up[p], dn, highest[p])
              \/ Salted(up[p], dn, highest[p], num[p], Counter, through, Kinds(p))
          BY <1>4, <4>2, <4>3 DEF SockOK
        <5> QED
          BY <5>1, <5>2 DEF Hailing, Salted
      <4>4. pc[p] = "open" => (dn \o F)[1] = dn[1]
        BY <1>1, <4>2, <4>3, TailConcat
      <4>5. Listens(p)
        BY <2>4, <4>1, <4>2, <4>3, <4>4 DEF Listens, Untouched
      <4>6. ErrorFirst(dn, s, num[p])
        BY <2>1, <4>5 DEF RefusedAt
      <4> QED
        BY <1>1, <4>1, <4>2, <4>6, ErrorStaysFirst DEF Untouched
    <3> QED
      BY <3>1, <3>2
  <2> QED
    BY <2>2, <2>3, <2>4 DEF RefusedAt
<1>14. (exit[p] # "none" => pc[p] = "done")'
  BY DEF ProcOK, Untouched
<1>15. TrueExit(p)'
  BY DEF TrueExit, Untouched, GoesOn
<1> QED
  BY <1>7, <1>9, <1>10, <1>12, <1>13, <1>14, <1>15 DEF ProcOK

----------------------------------------------------------------------------
(* Steps of a process.                                                     *)

\* The step changes p and, in the histories, adds.
LocalTo(p) ==
  /\ UNCHANGED <<reads, out, log, through, ahead, done, refused>>
  /\ \A q \in Procs \ {p} : Untouched(q) /\ down'[q] = down[q]
  /\ resumed \subseteq resumed' /\ resynced \subseteq resynced' /\ missed \subseteq missed'
  /\ drawn \subseteq drawn' /\ reused \subseteq reused'
  /\ Fresh(p)

\* Nobody else is touched, so what holds of p is enough.
LEMMA LocalKeeps ==
  ASSUME ExitInv, NumberTypes', WireTypes', NEW p \in Procs, LocalTo(p),
         ProcOK(p)', TrueExit(p)'
  PROVE  ExitInv'
<1>1. NumberTypes /\ WireTypes /\ DaemonOK /\ Distinct
  BY DEF ExitInv
<1>2. Counter' = Counter /\ Processed' = Processed /\ Counter \in Nat /\ through \in Nat
  BY <1>1, CounterType DEF LocalTo, Counter, Processed, WireTypes
<1>3. GoesOn
  BY <1>2 DEF LocalTo, GoesOn
<1>4. \A q \in Procs \ {p} : Issued(q)' <=> Issued(q)
  BY DEF LocalTo, Untouched, Issued
<1>5. \A q \in Procs : Fresh(q)
  BY <1>4 DEF LocalTo, Untouched, Fresh
<1>6. ASSUME NEW q \in Procs \ {p} PROVE ProcOK(q)' /\ TrueExit(q)'
  <2>1. ProcOK(q) /\ TrueExit(q)
    BY DEF ExitInv
  <2>2. Untouched(q) /\ Overhears(q)
    BY DEF LocalTo, Overhears
  <2> QED
    BY <1>1, <1>2, <1>3, <1>5, <2>1, <2>2, BystanderKeeps
<1>7. DaemonOK'
  BY <1>1, <1>2 DEF DaemonOK, LocalTo
<1>8. Distinct'
  <2> SUFFICES ASSUME NEW q \in Procs, NEW r \in Procs, q # r, Issued(q)', Issued(r)',
                      num'[q] = num'[r]
               PROVE  num'[q] \in reused'
    BY DEF Distinct
  <2>1. ASSUME NEW x \in Procs \ {p}, Issued(x)'
        PROVE  Issued(x) /\ num[x] \in drawn /\ num'[x] = num[x]
    BY <1>4, <2>1 DEF ExitInv, ProcOK, LocalTo, Untouched
  <2>2. reused \subseteq reused' /\ Fresh(p)
    BY DEF LocalTo
  <2>3. CASE q # p /\ r # p
    BY <1>1, <2>1, <2>2, <2>3 DEF Distinct
  <2>4. CASE q = p
    BY <1>1, <2>1, <2>2, <2>4 DEF Distinct, Fresh
  <2>5. CASE r = p
    BY <1>1, <2>1, <2>2, <2>5 DEF Distinct, Fresh
  <2> QED
    BY <2>3, <2>4, <2>5
<1> QED
  BY <1>6, <1>7, <1>8 DEF ExitInv

\* A step of p inside reserveOutSeq, before the finally block, to label next.
FileStep(p, next) ==
  /\ pc[p] \in {"try", "unlink", "load", "save", "write"}
  /\ next \in {"try", "unlink", "load", "save", "write", "free"}
  /\ pc' = [pc EXCEPT ![p] = next]
  /\ num'[p] = num[p] \/ num'[p] # 0
  /\ next \in {"save", "write", "free"} => num'[p] # 0
  /\ \A q \in Procs \ {p} : num'[q] = num[q]
  /\ UNCHANGED <<reads, exit, highest, sock, up, down, out, log, through, ahead, done,
                 refused, drawn, reused, resumed, resynced, missed>>

\* reserveOutSeq up to the finally block: p is not waiting for anything yet.
LEMMA FileStepKeeps ==
  ASSUME ExitInv, NumberTypes', NEW p \in Procs, NEW next, FileStep(p, next)
  PROVE  ExitInv'
<1> USE DEF FileStep
<1>1. NumberTypes /\ WireTypes /\ ProcOK(p) /\ TrueExit(p)
  BY DEF ExitInv
<1>2. WireTypes'
  BY <1>1 DEF WireTypes
<1>3. pc'[p] = next /\ \A q \in Procs \ {p} : pc'[q] = pc[q]
  BY <1>1 DEF NumberTypes
<1>4. ~Issued(p) /\ ~Issued(p)'
  BY <1>3 DEF Issued
<1>5. LocalTo(p)
  BY <1>3, <1>4 DEF LocalTo, Untouched, Fresh
<1>6. Counter' = Counter /\ Kinds(p)' = Kinds(p)
  BY DEF Counter, Kinds
<1>7. SockOK(pc[p], sock[p], up[p], down[p], highest[p], num[p], Counter, through, Kinds(p))'
  <2>1. SockOK(pc[p], sock[p], up[p], down[p], highest[p], num[p], Counter, through, Kinds(p))
    BY <1>1 DEF ProcOK
  <2> QED
    BY <1>3, <1>6, <2>1 DEF SockOK
<1>8. (pc[p] # "open" => up[p] \in Seq(Cmds(p)))'
  <2>1. \A q \in Procs \ {p} : Issued(q)' <=> Issued(q)
    BY <1>3 DEF Issued
  <2>2. Cmds(p)' = Cmds(p)
    BY <2>1 DEF Cmds
  <2> QED
    BY <1>1, <2>2 DEF ProcOK
<1>9. exit[p] = "none"
  BY <1>1 DEF ProcOK
<1>10. ProcOK(p)' /\ TrueExit(p)'
  BY <1>4, <1>7, <1>8, <1>9 DEF ProcOK, Refusal, TrueExit
<1> QED
  BY <1>2, <1>5, <1>10, LocalKeeps

\* Reasons to exit that claim nothing of the command.
Modest == {"unpaired", "unreachable", "gaveup", "locked"}

\* p exits or is killed.
LEMMA GoneKeeps ==
  ASSUME ExitInv, NumberTypes', NEW p \in Procs, NEW how \in Ended, Gone(p, how),
         \/ exit' = exit /\ pc[p] \notin Ended
         \/ \E why \in Modest \cup {"confirmed", "refused", "replied"} :
              exit' = [exit EXCEPT ![p] = why] /\ how = "done",
         TrueExit(p)',
         UNCHANGED <<reads, num, out, log, through, ahead, done, refused, drawn, reused,
                     resumed, resynced, missed>>
  PROVE  ExitInv'
<1>1. NumberTypes /\ WireTypes /\ ProcOK(p)
  BY DEF ExitInv
<1>2. /\ pc' = [pc EXCEPT ![p] = how] /\ highest' = [highest EXCEPT ![p] = 0]
      /\ sock' = [sock EXCEPT ![p] = "none"] /\ up' = [up EXCEPT ![p] = <<>>]
      /\ down' = [down EXCEPT ![p] = <<>>]
  BY DEF Gone, Goto, Hang
<1>3. \A S : <<>> \in Seq(S)
  BY EmptySeq
<1>4. WireTypes'
  BY <1>1, <1>2, <1>3 DEF WireTypes, Modest
<1>5. /\ pc'[p] = how /\ highest'[p] = 0 /\ sock'[p] = "none" /\ up'[p] = <<>> /\ down'[p] = <<>>
      /\ \A q \in Procs \ {p} : Untouched(q) /\ down'[q] = down[q]
  BY <1>1, <1>2 DEF WireTypes, NumberTypes, Untouched
<1>6. ~Issued(p)'
  BY <1>5 DEF Issued, Ended
<1>7. LocalTo(p)
  BY <1>5, <1>6 DEF LocalTo, Fresh
<1>8. SockOK(pc[p], sock[p], up[p], down[p], highest[p], num[p], Counter, through, Kinds(p))'
  BY <1>3, <1>5 DEF SockOK, Ended
<1>9. (exit[p] # "none" => pc[p] = "done")'
  BY <1>1, <1>5 DEF ProcOK, WireTypes, Ended
<1>10. ProcOK(p)'
  BY <1>3, <1>5, <1>6, <1>8, <1>9 DEF ProcOK, Refusal
<1> QED
  BY <1>4, <1>7, <1>10, LocalKeeps

\* p connects, for the first time or again.
LEMMA ConnectKeeps ==
  ASSUME ExitInv, NumberTypes', NEW p \in Procs, Connect(p), pc[p] \in {"start", "open", "wait"},
         UNCHANGED <<reads, exit, num, highest, out, log, through, ahead, done, refused, drawn,
                     reused, resumed, resynced, missed>>
  PROVE  ExitInv'
<1>1. NumberTypes /\ WireTypes /\ ProcOK(p) /\ TrueExit(p)
  BY DEF ExitInv
<1>2. /\ pc' = [pc EXCEPT ![p] = "open"]
      /\ sock' = [sock EXCEPT ![p] = "up"] /\ up' = [up EXCEPT ![p] = <<Hello(highest[p])>>]
      /\ down' = [down EXCEPT ![p] = <<>>]
  BY DEF Connect, Goto
<1>3. \A S : <<>> \in Seq(S)
  BY EmptySeq
<1>4. Hello(highest[p]) \in Msgs
  BY <1>1 DEF Hello, Msgs, WireTypes
<1>5. <<Hello(highest[p])>> \in Seq(Msgs)
  BY <1>4
<1>6. WireTypes'
  BY <1>1, <1>2, <1>3, <1>5 DEF WireTypes
<1>7. /\ pc'[p] = "open" /\ sock'[p] = "up" /\ up'[p] = <<Hello(highest[p])>> /\ down'[p] = <<>>
      /\ \A q \in Procs \ {p} : Untouched(q) /\ down'[q] = down[q]
  BY <1>1, <1>2 DEF WireTypes, NumberTypes, Untouched
<1>8. SockOK(pc[p], sock[p], up[p], down[p], highest[p], num[p], Counter, through, Kinds(p))
  BY <1>1 DEF ProcOK
<1>9. Issued(p)' => Issued(p)
  BY <1>7, <1>8 DEF Issued, SockOK
<1>10. LocalTo(p)
  BY <1>7, <1>9 DEF LocalTo, Fresh
<1>11. SockOK(pc[p], sock[p], up[p], down[p], highest[p], num[p], Counter, through, Kinds(p))'
  BY <1>7, <1>8 DEF SockOK, Hailing
<1>12. Counter' = Counter /\ Processed' = Processed /\ ~Listens(p)'
  BY <1>7 DEF Counter, Processed, Listens
<1>13. Refusal(p)'
  BY <1>1, <1>9, <1>12 DEF ProcOK, Refusal, RefusedAt
<1>14. exit[p] = "none"
  BY <1>1 DEF ProcOK
<1>15. ProcOK(p)' /\ TrueExit(p)'
  BY <1>1, <1>7, <1>9, <1>11, <1>12, <1>13, <1>14 DEF ProcOK, TrueExit
<1> QED
  BY <1>6, <1>10, <1>15, LocalKeeps

\* The connection breaks: p is told nothing any more.
LEMMA DropKeeps ==
  ASSUME ExitInv, NumberTypes', NEW p \in Procs, Drop(p)
  PROVE  ExitInv'
<1>1. NumberTypes /\ WireTypes /\ ProcOK(p) /\ TrueExit(p)
  BY DEF ExitInv
<1>2. /\ sock' = [sock EXCEPT ![p] = "broken"] /\ up' = [up EXCEPT ![p] = <<>>]
      /\ down' = [down EXCEPT ![p] = <<>>]
      /\ UNCHANGED <<reads, pc, exit, num, highest, out, log, through, ahead, done, refused, drawn,
                     reused, resumed, resynced, missed>>
  BY DEF Drop, Hang, setting, host, memory, daemon, outcomes, numbering, rejoined
<1>3. \A S : <<>> \in Seq(S)
  BY EmptySeq
<1>4. WireTypes'
  BY <1>1, <1>2, <1>3 DEF WireTypes
<1>5. /\ sock'[p] = "broken" /\ up'[p] = <<>> /\ down'[p] = <<>>
      /\ \A q \in Procs \ {p} : Untouched(q) /\ down'[q] = down[q]
  BY <1>1, <1>2 DEF WireTypes, Untouched
<1>6. Issued(p)' <=> Issued(p)
  BY <1>2 DEF Issued
<1>7. LocalTo(p)
  BY <1>2, <1>5, <1>6 DEF LocalTo, Fresh
<1>8. SockOK(pc[p], sock[p], up[p], down[p], highest[p], num[p], Counter, through, Kinds(p))'
  <2>1. SockOK(pc[p], sock[p], up[p], down[p], highest[p], num[p], Counter, through, Kinds(p))
    BY <1>1 DEF ProcOK
  <2> QED
    BY <1>2, <1>3, <1>5, <2>1 DEF SockOK
<1>9. Counter' = Counter /\ Processed' = Processed /\ ~Listens(p)'
  BY <1>2, <1>5 DEF Counter, Processed, Listens
<1>10. Refusal(p)'
  BY <1>1, <1>2, <1>6, <1>9 DEF ProcOK, Refusal, RefusedAt
<1>11. ProcOK(p)' /\ TrueExit(p)'
  BY <1>1, <1>2, <1>3, <1>5, <1>6, <1>8, <1>9, <1>10 DEF ProcOK, TrueExit
<1> QED
  BY <1>4, <1>7, <1>11, LocalKeeps

\* onSessionSalt: a write that was issued is resent; what follows a resume may be other
\* processes' answers, and that is noted.
LEMMA SaltKeeps ==
  ASSUME ExitInv, NumberTypes', NEW p \in Procs, ReceiveSalt(p)
  PROVE  ExitInv'
<1> DEFINE dn == down[p]
           resumes == Head(dn).ev.n = 1
           K  == Kinds(p)
           K2 == Kinds(p)'
<1>1. NumberTypes /\ WireTypes /\ ProcOK(p) /\ TrueExit(p) /\ Distinct
  BY DEF ExitInv
<1>2. /\ pc[p] = "open" /\ dn # <<>>
      /\ highest' = [highest EXCEPT ![p] = IF resumes THEN @ ELSE 0]
      /\ resumed' = IF resumes /\ num[p] # 0 THEN resumed \cup {p} ELSE resumed
      /\ resynced' = IF ~resumes /\ num[p] # 0 THEN resynced \cup {p} ELSE resynced
      /\ down' = [down EXCEPT ![p] = Tail(@)]
      /\ up' = [up EXCEPT ![p] = @ \o Resent(p)]
      /\ pc' = [pc EXCEPT ![p] = IF p \in reads \/ num[p] = 0 THEN "try" ELSE "wait"]
      /\ UNCHANGED <<reads, exit, num, sock, out, log, through, ahead, done,
                     refused, drawn, reused, missed>>
  BY DEF ReceiveSalt, OnReady, Goto, setting, daemon, outcomes, numbering
<1>3. SockOK(pc[p], sock[p], up[p], dn, highest[p], num[p], Counter, through, K)
  BY <1>1 DEF ProcOK
<1>4. sock[p] = "up" /\ Salted(up[p], dn, highest[p], num[p], Counter, through, K)
  BY <1>2, <1>3 DEF SockOK, Hailing
<1>5. /\ Counter \in Nat /\ through \in Nat /\ dn \in Seq(Frames) /\ highest[p] \in Nat
      /\ num[p] \in Nat
  BY <1>1, CounterType DEF WireTypes, NumberTypes
<1>6. Head(dn) = dn[1] /\ Tail(dn) \in Seq(Frames)
  BY <1>2, <1>5, HeadTailProperties
<1>7. Resent(p) \in Seq(Cmds(p)) /\ Resent(p) \in Seq(Msgs)
  <2>1. CASE Issued(p)
    <3>1. Command(num[p]) \in Cmds(p) /\ Command(num[p]) \in Msgs
      BY <1>1, <1>5, <2>1 DEF Command, Msgs, Cmds, ProcOK, Issued, Distinct
    <3>2. Resent(p) = <<Command(num[p])>>
      BY <2>1 DEF Resent, Issued
    <3> QED
      BY <3>1, <3>2
  <2>2. CASE ~Issued(p)
    <3>1. Resent(p) = <<>>
      BY <1>2, <2>2 DEF Resent, Issued
    <3> QED
      BY <3>1, EmptySeq
  <2> QED
    BY <2>1, <2>2
<1>8. up[p] = <<>> /\ <<>> \o Resent(p) = Resent(p)
  BY <1>4, <1>7, ConcatEmptySeq DEF Salted
<1>9. /\ pc'[p] = IF p \in reads \/ num[p] = 0 THEN "try" ELSE "wait"
      /\ highest'[p] = IF resumes THEN highest[p] ELSE 0
      /\ sock'[p] = "up" /\ up'[p] = Resent(p) /\ down'[p] = Tail(dn)
      /\ \A q \in Procs \ {p} : Untouched(q) /\ down'[q] = down[q]
  BY <1>1, <1>2, <1>4, <1>8 DEF WireTypes, NumberTypes, Untouched
<1> HIDE DEF resumes
<1>10. WireTypes'
  <2>1. up' = [up EXCEPT ![p] = Resent(p)] /\ down' = [down EXCEPT ![p] = Tail(dn)]
    BY <1>2, <1>8
  <2> QED
    BY <1>1, <1>2, <1>6, <1>7, <2>1 DEF WireTypes
<1>11. Issued(p)' => Issued(p)
  BY <1>2, <1>9 DEF Issued
<1>12. LocalTo(p)
  BY <1>2, <1>9, <1>11 DEF LocalTo, Fresh
<1>13. Counter' = Counter /\ Processed' = Processed
  BY <1>2 DEF Counter, Processed
<1>14. Tail(dn) \in Seq(Good(Counter, through, K2))
  <2>1. K \subseteq K2
    BY <1>2, KindsGrow
  <2>2. CASE resumes
    <3>1. num[p] # 0 /\ Tail(dn) \in Seq(Good(Counter, through, AllKinds))
      BY <1>4, <1>6, <2>2 DEF Salted, resumes
    <3>2. AllKinds \subseteq K2
      BY <1>2, <2>2, <3>1 DEF Kinds, AllKinds
    <3> QED
      BY <1>5, <3>1, <3>2, GoodMono
  <2>3. CASE ~resumes
    <3>1. Tail(dn) \in Seq(Good(Counter, through, K))
      BY <1>4, <1>6, <2>3 DEF Salted, resumes
    <3> QED
      BY <1>5, <2>1, <3>1, GoodMono
  <2> QED
    BY <2>2, <2>3
<1>15. SockOK(pc[p], sock[p], up[p], down[p], highest[p], num[p], Counter, through, Kinds(p))'
  <2>1. highest'[p] <= Counter
    BY <1>4, <1>5, <1>6, <1>9 DEF Salted, resumes
  <2>2. highest'[p] # 0 \/ pc'[p] = "wait" => num[p] # 0
    BY <1>3, <1>9 DEF SockOK
  <2>3. pc'[p] \in {"try", "wait"}
    BY <1>9
  <2>4. SockOK(pc'[p], sock'[p], up'[p], Tail(dn), highest'[p], num[p], Counter, through, K2)
    BY <1>9, <1>14, <2>1, <2>2, <2>3 DEF SockOK
  <2> QED
    BY <1>2, <1>9, <1>13, <2>4
<1>16. Cmds(p)' = Cmds(p)
  <2>1. \A q \in Procs \ {p} : Issued(q)' <=> Issued(q)
    BY <1>2, <1>9 DEF Issued, Untouched
  <2> QED
    BY <1>2, <2>1 DEF Cmds
<1>17. Refusal(p)'
  <2> SUFFICES ASSUME Issued(p)', num'[p] \in Processed' \ reused',
                      p \notin done' \cup resynced' \cup missed'
               PROVE  \E s \in Nat : RefusedAt(s, num[p], highest[p], Counter, log, Listens(p),
                                               down[p])'
    BY DEF Refusal
  <2>1. /\ Issued(p) /\ num[p] \in Processed \ reused
        /\ p \notin done \cup resynced \cup missed /\ resumes
    BY <1>2, <1>11, <1>13 DEF Issued
  <2>2. PICK s \in Nat :
          RefusedAt(s, num[p], highest[p], Counter, log, Listens(p), dn)
    BY <1>1, <2>1 DEF ProcOK, Refusal
  <2>3. Listens(p)
    BY <1>2, <1>4, <1>6, <2>1 DEF Listens, resumes
  <2>4. ErrorFirst(Tail(dn), s, num[p])
    BY <1>4, <1>5, <2>2, <2>3, ErrorStaysFirst DEF RefusedAt, Salted
  <2> QED
    BY <1>2, <1>9, <1>13, <2>1, <2>2, <2>4 DEF RefusedAt
<1>18. exit[p] = "none"
  BY <1>1, <1>2 DEF ProcOK
<1>19. ProcOK(p)' /\ TrueExit(p)'
  BY <1>1, <1>2, <1>7, <1>9, <1>11, <1>13, <1>15, <1>16, <1>17, <1>18 DEF ProcOK, TrueExit
<1> QED
  BY <1>10, <1>12, <1>19, LocalKeeps

\* p reads a frame that does not end it: the refusal, if there is one, is behind it.
LEMMA ReadKeeps ==
  ASSUME ExitInv, NumberTypes', NEW p \in Procs, pc[p] = "wait", down[p] # <<>>,
         Head(down[p]).ev.t # "error",
         highest' = [highest EXCEPT ![p] = IF Head(down[p]).seq > @ THEN Head(down[p]).seq ELSE @],
         down' = [down EXCEPT ![p] = Tail(@)],
         UNCHANGED <<reads, pc, exit, num, sock, up, out, log, through, ahead, done, refused, drawn,
                     reused, resumed, resynced, missed>>
  PROVE  ExitInv'
<1> DEFINE dn == down[p]
           f == Head(dn)
           hi == IF f.seq > highest[p] THEN f.seq ELSE highest[p]
<1>1. NumberTypes /\ WireTypes /\ ProcOK(p) /\ TrueExit(p)
  BY DEF ExitInv
<1>2. SockOK(pc[p], sock[p], up[p], dn, highest[p], num[p], Counter, through, Kinds(p))
  BY <1>1 DEF ProcOK
<1>3. sock[p] = "up" /\ dn \in Seq(Good(Counter, through, Kinds(p))) /\ highest[p] <= Counter
  BY <1>2 DEF SockOK
<1>4. /\ Counter \in Nat /\ through \in Nat /\ dn \in Seq(Frames) /\ highest[p] \in Nat
      /\ num[p] \in Nat
  BY <1>1, CounterType DEF WireTypes, NumberTypes
<1>5. /\ f = dn[1] /\ f \in Good(Counter, through, Kinds(p)) /\ f \in Frames
      /\ Tail(dn) \in Seq(Good(Counter, through, Kinds(p))) /\ Tail(dn) \in Seq(Frames)
  BY <1>3, <1>4, HeadTailProperties
<1>6. f.seq \in Nat /\ f.seq <= Counter
  BY <1>5 DEF Good, Frames
<1>7. hi \in Nat /\ hi <= Counter
  BY <1>3, <1>4, <1>6
<1>8. WireTypes'
  BY <1>1, <1>5, <1>7 DEF WireTypes
<1>9. /\ highest'[p] = hi /\ down'[p] = Tail(dn)
      /\ \A q \in Procs \ {p} : Untouched(q) /\ down'[q] = down[q]
  BY <1>1 DEF WireTypes, Untouched
<1>10. Issued(p)' <=> Issued(p)
  BY DEF Issued
<1>11. LocalTo(p)
  BY <1>9, <1>10 DEF LocalTo, Fresh
<1>12. Counter' = Counter /\ Processed' = Processed /\ Kinds(p)' = Kinds(p)
  BY DEF Counter, Processed, Kinds
<1> HIDE DEF hi, f
<1>13. SockOK(pc[p], sock[p], up[p], down[p], highest[p], num[p], Counter, through, Kinds(p))'
  <2>1. SockOK(pc[p], sock[p], up[p], Tail(dn), hi, num[p], Counter, through, Kinds(p))
    BY <1>2, <1>3, <1>5, <1>7 DEF SockOK
  <2> QED
    BY <1>9, <1>12, <2>1
<1>14. Cmds(p)' = Cmds(p)
  <2>1. \A q \in Procs \ {p} : Issued(q)' <=> Issued(q)
    BY DEF Issued
  <2> QED
    BY <2>1 DEF Cmds
<1>15. Refusal(p)'
  <2> SUFFICES ASSUME Issued(p), num[p] \in Processed \ reused,
                      p \notin done \cup resynced \cup missed
               PROVE  \E s \in Nat : RefusedAt(s, num[p], highest[p], Counter, log, Listens(p),
                                               down[p])'
    BY <1>10, <1>12 DEF Refusal
  <2>1. PICK s \in Nat :
          RefusedAt(s, num[p], highest[p], Counter, log, Listens(p), dn)
    BY <1>1 DEF ProcOK, Refusal
  <2>2. Listens(p)
    BY <1>3 DEF Listens
  <2>3. f.seq < s /\ ErrorFirst(Tail(dn), s, num[p])
    BY <1>4, <1>5, <2>1, <2>2, ErrorStaysFirst DEF RefusedAt, f
  <2>4. hi < s
    BY <1>4, <1>6, <2>1, <2>3 DEF RefusedAt, hi
  <2> QED
    BY <1>9, <1>12, <2>1, <2>3, <2>4 DEF RefusedAt
<1>16. ProcOK(p)' /\ TrueExit(p)'
  BY <1>1, <1>10, <1>12, <1>13, <1>14, <1>15 DEF ProcOK, TrueExit
<1> QED
  BY <1>8, <1>11, <1>16, LocalKeeps

\* What p reads before it exits is its own answer, or it was told to expect others'; and
\* an ack that reaches its number comes after the refusal, if it was refused.
LEMMA ReceiveKeeps ==
  ASSUME ExitInv, NumberTypes', NEW p \in Procs, Receive(p)
  PROVE  ExitInv'
<1> DEFINE dn == down[p]
           f == Head(dn)
<1>1. NumberTypes /\ WireTypes /\ ProcOK(p) /\ TrueExit(p)
  BY DEF ExitInv
<1>2. /\ pc[p] = "wait" /\ dn # <<>>
      /\ UNCHANGED <<reads, num, out, log, through, ahead, done, refused, drawn, reused, resumed,
                     resynced, missed>>
  BY DEF Receive, setting, daemon, outcomes, numbering, rejoined
<1>3. SockOK(pc[p], sock[p], up[p], dn, highest[p], num[p], Counter, through, Kinds(p))
  BY <1>1 DEF ProcOK
<1>4. sock[p] = "up" /\ dn \in Seq(Good(Counter, through, Kinds(p))) /\ num[p] # 0
  BY <1>2, <1>3 DEF SockOK
<1>5. /\ Counter \in Nat /\ through \in Nat /\ dn \in Seq(Frames) /\ num[p] \in Nat
  BY <1>1, CounterType DEF WireTypes, NumberTypes
<1>6. f = dn[1] /\ f \in Good(Counter, through, Kinds(p))
  BY <1>2, <1>4, HeadTailProperties
<1>7. f.ev.t \in Kinds(p) /\ (f.ev.t = "ack" => f.ev.n <= through) /\ f.ev.n \in Nat
  BY <1>6 DEF Good, Frames, Evs
<1>8. ASSUME NEW why \in {"confirmed", "refused", "replied"}, Exit(p, why), TrueExit(p)'
      PROVE  ExitInv'
  <2>1. Gone(p, "done") /\ exit' = [exit EXCEPT ![p] = why] /\ "done" \in Ended
    BY <1>8 DEF Exit, Ended
  <2> QED
    BY <1>2, <1>8, <2>1, GoneKeeps
<1>9. ASSUME NEW why, Exit(p, why) PROVE exit'[p] = why
  BY <1>1, <1>9 DEF Exit, WireTypes
<1> HIDE DEF f
<1>10. ASSUME f.ev.t = "ack", OnAck(p, f.ev.n), Exit(p, "confirmed") PROVE ExitInv'
  <2>1. Issued(p) /\ num[p] \in Processed
    <3>1. num[p] \in 1..through
      BY <1>4, <1>5, <1>7, <1>10 DEF OnAck
    <3> QED
      BY <1>2, <1>4, <1>10, <3>1 DEF OnAck, Issued, Processed
  <2>2. p \in done \/ num[p] \in reused \/ (p \in refused /\ p \in resynced \cup missed)
    <3> SUFFICES ASSUME p \notin done, num[p] \notin reused,
                        p \notin resynced \cup missed
                 PROVE  FALSE
      BY <1>1, <2>1 DEF ProcOK
    <3>1. PICK s \in Nat :
            RefusedAt(s, num[p], highest[p], Counter, log, Listens(p), dn)
      BY <1>1, <2>1 DEF ProcOK, Refusal
    <3>2. ErrorFirst(dn, s, num[p])
      BY <1>2, <1>4, <3>1 DEF RefusedAt, Listens
    <3>3. ~Confirms(dn[1], num[p])
      BY <1>5, <1>6, <1>10, <3>2, ErrorStaysFirst
    <3> QED
      BY <1>6, <1>10, <3>3 DEF Confirms, OnAck
  <2>3. TrueExit(p)'
    BY <1>2, <1>9, <1>10, <2>2 DEF TrueExit
  <2> QED
    BY <1>8, <1>10, <2>3
<1>11. ASSUME f.ev.t = "error", Exit(p, "refused") PROVE ExitInv'
  <2>1. p \in refused \cup resumed
    BY <1>7, <1>11 DEF Kinds
  <2>2. TrueExit(p)'
    BY <1>2, <1>9, <1>11, <2>1 DEF TrueExit
  <2> QED
    BY <1>8, <1>11, <2>2
<1>12. ASSUME f.ev.t = "reply", Exit(p, "replied") PROVE ExitInv'
  <2>1. p \in done \cup resumed
    BY <1>7, <1>12 DEF Kinds
  <2>2. TrueExit(p)'
    BY <1>2, <1>9, <1>12, <2>1 DEF TrueExit
  <2> QED
    BY <1>8, <1>12, <2>2
<1>13. ASSUME f.ev.t # "error",
              highest' = [highest EXCEPT ![p] = IF f.seq > @ THEN f.seq ELSE @],
              down' = [down EXCEPT ![p] = Tail(@)], UNCHANGED <<pc, exit, sock, up>>
       PROVE  ExitInv'
  BY <1>2, <1>13, ReadKeeps DEF f
<1> QED
  BY <1>10, <1>11, <1>12, <1>13 DEF Receive, f

\* The finally block: the number is drawn, and the command goes on the wire.
LEMMA FreeKeeps ==
  ASSUME ExitInv, NumberTypes', NEW p \in Procs, Free(p)
  PROVE  ExitInv'
<1> DEFINE n == num[p]
<1>1. NumberTypes /\ WireTypes /\ ProcOK(p) /\ TrueExit(p) /\ DaemonOK
  BY DEF ExitInv
<1>2. /\ pc[p] = "free" /\ drawn' = drawn \cup {n}
      /\ reused' = IF n \in drawn THEN reused \cup {n} ELSE reused
      /\ up' = IF sock[p] = "up" THEN [up EXCEPT ![p] = Append(@, Command(n))] ELSE up
      /\ pc' = [pc EXCEPT ![p] = "wait"]
      /\ UNCHANGED <<reads, exit, num, highest, sock, down, out, log, through, ahead, done, refused,
                     resumed, resynced, missed>>
  BY DEF Free, Goto, setting, memory, daemon, outcomes, rejoined
<1>3. SockOK(pc[p], sock[p], up[p], down[p], highest[p], n, Counter, through, Kinds(p))
  BY <1>1 DEF ProcOK
<1>4. n \in Nat \ {0} /\ up[p] \in Seq(Msgs) /\ up[p] \in Seq(Cmds(p))
  BY <1>1, <1>2, <1>3 DEF NumberTypes, WireTypes, ProcOK, SockOK
<1>5. Command(n) \in Msgs /\ Append(up[p], Command(n)) \in Seq(Msgs)
  BY <1>4, AppendProperties DEF Command, Msgs
<1>6. WireTypes'
  BY <1>1, <1>2, <1>5 DEF WireTypes
<1>7. /\ pc'[p] = "wait" /\ up'[p] = IF sock[p] = "up" THEN Append(up[p], Command(n)) ELSE up[p]
      /\ \A q \in Procs \ {p} : Untouched(q) /\ down'[q] = down[q]
  BY <1>1, <1>2 DEF WireTypes, NumberTypes, Untouched
<1>8. n \notin drawn \/ n \in reused'
  BY <1>2
<1>9. LocalTo(p)
  BY <1>2, <1>7, <1>8 DEF LocalTo, Fresh
<1>10. Counter' = Counter /\ Processed' = Processed /\ Kinds(p)' = Kinds(p)
  BY <1>2 DEF Counter, Processed, Kinds
<1>11. SockOK(pc[p], sock[p], up[p], down[p], highest[p], num[p], Counter, through, Kinds(p))'
  <2>1. SockOK("wait", sock[p], up'[p], down[p], highest[p], n, Counter, through, Kinds(p))
    BY <1>2, <1>3, <1>4, <1>7 DEF SockOK
  <2> QED
    BY <1>2, <1>7, <1>10, <2>1
<1>12. up'[p] \in Seq(Cmds(p)')
  <2>1. ASSUME NEW q \in Procs \ {p}, Issued(q)'
        PROVE  Issued(q) /\ num'[q] = num[q] /\ num[q] \in drawn
    BY <1>2, <1>7, <2>1 DEF Issued, Untouched, ExitInv, ProcOK
  <2>2. Cmds(p) \subseteq Cmds(p)'
    BY <1>2, <2>1 DEF Cmds
  <2>3. Command(n) \in Cmds(p)'
    BY <1>2, <1>4, <1>5, <1>8, <2>1 DEF Cmds, Command
  <2>4. up[p] \in Seq(Cmds(p)')
    BY <1>4, <2>2, SeqMonotonic
  <2>5. Append(up[p], Command(n)) \in Seq(Cmds(p)')
    BY <2>3, <2>4, AppendProperties
  <2> QED
    BY <1>7, <2>4, <2>5
<1>13. num'[p] \in Processed' => num'[p] \in reused'
  BY <1>1, <1>2, <1>8, <1>10 DEF DaemonOK
<1>14. ProcOK(p)' /\ TrueExit(p)'
  BY <1>1, <1>2, <1>7, <1>11, <1>12, <1>13 DEF ProcOK, Refusal, TrueExit
<1> QED
  BY <1>6, <1>9, <1>14, LocalKeeps

----------------------------------------------------------------------------
(* Steps of the daemon.                                                    *)

\* The daemon records evs and may send to the processes in A; the rest overhear.
DaemonActs(evs, A) ==
  /\ UNCHANGED <<reads, pc, exit, num, highest, sock, drawn, reused, resumed, resynced>>
  /\ missed \subseteq missed' /\ done \subseteq done' /\ refused \subseteq refused'
  /\ Record(evs) /\ through <= through'
  /\ \A i \in 1..Len(evs) : Honest(evs[i], through')
  /\ \A q \in Procs \ A : /\ up'[q] = up[q] /\ Overhears(q)
                          /\ \A n \in Processed' \ Processed :
                               Issued(q) /\ num[q] = n => n \in reused

\* What holds of the processes in A is enough.
LEMMA DaemonKeeps ==
  ASSUME ExitInv, NumberTypes', WireTypes', NEW A \in SUBSET Procs, NEW evs \in Seq(Evs),
         DaemonActs(evs, A), Processed' \subseteq drawn,
         \A p \in A : ProcOK(p)' /\ TrueExit(p)'
  PROVE  ExitInv'
<1>1. NumberTypes /\ WireTypes /\ DaemonOK /\ Distinct
  BY DEF ExitInv
<1>2. through' \in Nat /\ through <= through' /\ Record(evs)
      /\ \A i \in 1..Len(evs) : Honest(evs[i], through')
  BY DEF WireTypes, DaemonActs
<1>3. /\ Counter <= Counter'
      /\ log' \in Seq(Good(Counter', through', AllKinds)) /\ LogFits(log', out')
      /\ \A s, k \in Nat : s <= Counter /\ log \in Seq(Around(s, k)) =>
                             log' \in Seq(Around(s, k))
  BY <1>1, <1>2, RecordKeeps
<1>4. GoesOn
  BY <1>2, <1>3 DEF GoesOn, DaemonActs
<1>5. \A q \in Procs : (Issued(q)' <=> Issued(q)) /\ Fresh(q)
  BY DEF Issued, Fresh, DaemonActs
<1>6. ASSUME NEW q \in Procs \ A PROVE ProcOK(q)' /\ TrueExit(q)'
  <2>1. ProcOK(q) /\ TrueExit(q) /\ Untouched(q) /\ Overhears(q)
    BY DEF ExitInv, Untouched, DaemonActs
  <2>2. \A n \in Processed' \ Processed : Issued(q) /\ num[q] = n => n \in reused'
    BY DEF DaemonActs
  <2> QED
    BY <1>1, <1>4, <1>5, <2>1, <2>2, BystanderKeeps
<1>7. DaemonOK'
  BY <1>3 DEF DaemonOK, DaemonActs
<1>8. Distinct'
  BY <1>1, <1>5 DEF Distinct, DaemonActs
<1> QED
  BY <1>6, <1>7, <1>8 DEF ExitInv

\* The events the daemon makes are honest.
LEMMA HonestEvents ==
  /\ \A lev : Honest(Event, lev)
  /\ \A lev : \A p \in Procs : Honest(Reply(p), lev) /\ Honest(Error(p), lev)
  /\ \A n \in Nat, lev \in Nat : n <= lev => Honest(Ack(n), lev)
  /\ Event.t = "event"
  /\ \A n : Ack(n).t = "ack"
  /\ \A p : Reply(p).t = "reply" /\ Error(p).t = "error"
BY DEF Honest, Evs, AllKinds, Event, Reply, Error, Ack, Nobody

\* What the daemon sends ends with the level.
LEMMA WithAck ==
  ASSUME NEW evs \in Seq(Evs), NEW lev \in Nat, NEW K, "ack" \in K,
         \A i \in 1..Len(evs) : Honest(evs[i], lev) /\ evs[i].t \in K
  PROVE  LET all == evs \o AckOf(lev) IN
         /\ all \in Seq(Evs) /\ Len(all) \in Nat /\ Len(evs) \in Nat /\ Len(all) >= Len(evs)
         /\ \A i \in 1..Len(evs) : all[i] = evs[i]
         /\ \A i \in 1..Len(all) : Honest(all[i], lev) /\ all[i].t \in K
<1> DEFINE a == AckOf(lev)
           all == evs \o a
<1>1. Honest(Ack(lev), lev) /\ Ack(lev).t = "ack" /\ Ack(lev) \in Evs
  BY HonestEvents DEF Honest
<1>2. a \in Seq(Evs) /\ Len(a) \in Nat /\ \A i \in 1..Len(a) : a[i] = Ack(lev)
  <2>1. CASE lev > 0
    <3>1. a = <<Ack(lev)>>
      BY <2>1 DEF AckOf
    <3> QED
      BY <1>1, <3>1
  <2>2. CASE ~(lev > 0)
    <3>1. a = <<>>
      BY <2>2 DEF AckOf
    <3> QED
      BY <3>1, EmptySeq
  <2> QED
    BY <2>1, <2>2
<1> HIDE DEF a
<1>3. /\ all \in Seq(Evs) /\ Len(all) = Len(evs) + Len(a) /\ Len(evs) \in Nat
      /\ \A i \in 1..Len(evs) + Len(a) : all[i] = IF i <= Len(evs) THEN evs[i] ELSE a[i - Len(evs)]
  BY <1>2, ConcatProperties, LenProperties
<1> HIDE DEF all
<1>4. \A i \in 1..Len(evs) : all[i] = evs[i]
  BY <1>2, <1>3
<1>5. ASSUME NEW i \in 1..Len(all) PROVE Honest(all[i], lev) /\ all[i].t \in K
  <2>1. CASE i <= Len(evs)
    BY <1>2, <1>3, <1>4, <2>1
  <2>2. CASE ~(i <= Len(evs))
    <3>1. i - Len(evs) \in 1..Len(a) /\ i \in 1..Len(evs) + Len(a)
      BY <1>2, <1>3, <2>2
    <3>2. all[i] = Ack(lev)
      BY <1>2, <1>3, <2>2, <3>1
    <3> QED
      BY <1>1, <3>2
  <2> QED
    BY <2>1, <2>2
<1>6. Len(all) \in Nat /\ Len(all) >= Len(evs)
  BY <1>2, <1>3
<1> QED
  BY <1>3, <1>4, <1>5, <1>6 DEF all, a

\* markProcessed adds the number, and nothing else.
LEMMA MarkAdds ==
  ASSUME WireTypes, NEW n \in Nat \ {0}, MarkProcessed(n)
  PROVE  /\ through' \in Nat /\ through <= through' /\ ahead' \in SUBSET Nat
         /\ Processed' \subseteq Processed \cup {n}
<1>1. through \in Nat /\ ahead \in SUBSET Nat
  BY DEF WireTypes
<1>2. CASE n = through + 1
  <2>1. PICK m \in n..n + Cardinality(ahead) :
          (n + 1)..m \subseteq ahead /\ through' = m /\ ahead' = ahead \ (n..m)
    BY <1>2 DEF MarkProcessed
  <2>2. m \in Int /\ n <= m
    OBVIOUS
  <2>3. through' \in Nat /\ through <= through' /\ ahead' \in SUBSET Nat
    BY <1>1, <1>2, <2>1, <2>2
  <2>4. \A k \in 1..m : k \in 1..through \/ k = n \/ k \in (n + 1)..m
    BY <1>1, <1>2, <2>2
  <2> QED
    BY <2>1, <2>3, <2>4 DEF Processed
<1>3. CASE n # through + 1
  <2>1. through' = through /\ ahead' = IF n > through THEN ahead \cup {n} ELSE ahead
    BY <1>3 DEF MarkProcessed
  <2> QED
    BY <1>1, <2>1 DEF Processed
<1> QED
  BY <1>2, <1>3

\* A broadcast.
LEMMA PublishKeeps ==
  ASSUME ExitInv, NumberTypes', Publish
  PROVE  ExitInv'
<1> DEFINE evs == <<Event>>
           G == Sealed(evs)
           Hears(q) == sock[q] = "up" /\ (\A i \in 1..Len(up[q]) : up[q][i].t # "hello")
<1>1. NumberTypes /\ WireTypes /\ DaemonOK
  BY DEF ExitInv
<1>2. /\ Record(evs)
      /\ down' = [q \in Procs |-> IF Hears(q) THEN down[q] \o G ELSE down[q]]
      /\ UNCHANGED <<reads, pc, exit, num, highest, sock, up, through, ahead, done, refused, drawn,
                     reused, resumed, resynced, missed>>
  BY DEF Publish, Greeted, setting, host, memory, outcomes, numbering, rejoined
<1>3. evs \in Seq(Evs) /\ \A i \in 1..Len(evs) : Honest(evs[i], through') /\ evs[i].t = "event"
  <2>1. Honest(Event, through') /\ Event.t = "event" /\ Event \in Evs
    BY HonestEvents DEF Honest
  <2> QED
    BY <2>1
<1>4. through' \in Nat /\ through <= through'
  BY <1>1, <1>2 DEF WireTypes
<1> HIDE DEF evs, Hears
<1>5. out' \in Nat /\ G \in Seq(Good(Counter', through', {"event"}))
  BY <1>1, <1>2, <1>3, <1>4, RecordKeeps
<1> HIDE DEF G
<1>6. G \in Seq(Frames)
  BY <1>5, GoodFrames
<1>7. \A q \in Procs : down[q] \in Seq(Frames) /\ down[q] \o G \in Seq(Frames)
  BY <1>1, <1>6, ConcatProperties DEF WireTypes
<1>8. WireTypes'
  BY <1>1, <1>2, <1>5, <1>7 DEF WireTypes
<1>9. ASSUME NEW q \in Procs PROVE Overhears(q)
  <2>1. CASE Hears(q)
    <3>1. down'[q] = down[q] \o G
      BY <1>2, <2>1
    <3>2. SockOK(pc[q], sock[q], up[q], down[q], highest[q], num[q], Counter, through, Kinds(q))
      BY DEF ExitInv, ProcOK
    <3>3. ~Hailing(up[q], down[q], highest[q])
      <4> SUFFICES ASSUME up[q] = <<Hello(highest[q])>> PROVE FALSE
        BY DEF Hailing
      <4>1. Len(up[q]) = 1 /\ up[q][1].t = "hello"
        BY DEF Hello
      <4>2. 1 \in 1..Len(up[q])
        BY <4>1
      <4> QED
        BY <2>1, <4>1, <4>2 DEF Hears
    <3>4. sock[q] = "up" /\ (pc[q] = "open" => up[q] = <<>>)
      BY <2>1, <3>2, <3>3 DEF Hears, SockOK, Salted
    <3> QED
      BY <1>5, <3>1, <3>4 DEF Overhears
  <2>2. CASE ~Hears(q)
    BY <1>2, <2>2 DEF Overhears
  <2> QED
    BY <2>1, <2>2
<1>10. Processed' = Processed
  BY <1>2 DEF Processed
<1>11. DaemonActs(evs, {})
  BY <1>2, <1>3, <1>4, <1>9, <1>10 DEF DaemonActs
<1>12. Processed' \subseteq drawn
  BY <1>1, <1>10 DEF DaemonOK
<1> QED
  BY <1>3, <1>8, <1>11, <1>12, DaemonKeeps

\* A new daemon knows nothing, and nobody is connected to it.
LEMMA RestartKeeps ==
  ASSUME ExitInv, NumberTypes', Restart
  PROVE  ExitInv'
<1>1. NumberTypes /\ WireTypes /\ Distinct
  BY DEF ExitInv
<1>2. /\ out' = NoStream /\ log' = <<>> /\ through' = 0 /\ ahead' = {}
      /\ sock' = [p \in Procs |-> IF sock[p] = "up" THEN "broken" ELSE sock[p]]
      /\ up' = [p \in Procs |-> <<>>] /\ down' = [p \in Procs |-> <<>>]
      /\ UNCHANGED <<reads, pc, exit, num, highest, done, refused, drawn, reused,
                     resumed, resynced, missed>>
  BY DEF Restart, setting, host, memory, outcomes, numbering, rejoined
<1>3. \A S : <<>> \in Seq(S)
  BY EmptySeq
<1>4. WireTypes'
  BY <1>1, <1>2, <1>3 DEF WireTypes
<1>5. Processed' = {}
  BY <1>2 DEF Processed
<1>6. DaemonOK'
  BY <1>2, <1>3, <1>5 DEF DaemonOK, LogFits
<1>7. \A p \in Procs : Issued(p)' <=> Issued(p)
  BY <1>2 DEF Issued
<1>8. Distinct'
  BY <1>1, <1>2, <1>7 DEF Distinct
<1>9. ASSUME NEW p \in Procs PROVE ProcOK(p)' /\ TrueExit(p)'
  <2>1. ProcOK(p) /\ TrueExit(p)
    BY DEF ExitInv
  <2>2. sock'[p] # "up" /\ up'[p] = <<>> /\ down'[p] = <<>>
    BY <1>1, <1>2 DEF WireTypes
  <2>3. SockOK(pc[p], sock[p], up[p], down[p], highest[p], num[p], Counter, through, Kinds(p))
    BY <2>1 DEF ProcOK
  <2>4. SockOK(pc[p], sock[p], up[p], down[p], highest[p], num[p], Counter, through, Kinds(p))'
    BY <1>2, <1>3, <2>2, <2>3 DEF SockOK
  <2> QED
    BY <1>2, <1>3, <1>5, <1>7, <2>1, <2>2, <2>4 DEF ProcOK, Refusal, TrueExit
<1> QED
  BY <1>4, <1>6, <1>8, <1>9 DEF ExitInv

\* The salt, what is replayed and what is sealed, in one queue.
LEMMA SaltFirst ==
  ASSUME NEW x \in Frames, NEW R \in Seq(Frames), NEW G \in Seq(Frames)
  PROVE  LET all == <<>> \o <<x>> \o R \o G IN
         /\ all \in Seq(Frames) /\ all # <<>> /\ all[1] = x /\ Tail(all) = R \o G
         /\ Len(R) \in Nat /\ Len(all) \in Nat /\ Len(all) >= Len(R) + 1
         /\ \A i \in 1..Len(R) : all[i + 1] = R[i]
<1> DEFINE q == <<x>>
           all == <<>> \o q \o R \o G
<1>1. /\ q \in Seq(Frames) /\ q # <<>> /\ q[1] = x /\ Tail(q) = <<>> /\ <<>> \o q = q
      /\ Len(R) \in Nat /\ Len(G) \in Nat /\ <<>> \o R = R /\ Len(q) = 1
  BY ConcatEmptySeq, LenProperties
<1>2. all = q \o R \o G
  BY <1>1
<1> HIDE DEF q
<1>3. /\ q \o R \in Seq(Frames) /\ Tail(q \o R) = R /\ (q \o R)[1] = x /\ q \o R # <<>>
      /\ Len(q \o R) = 1 + Len(R)
  <2>1. q \o R \in Seq(Frames) /\ Len(q \o R) = Len(q) + Len(R)
    BY <1>1, ConcatProperties
  <2>2. Tail(q \o R) = Tail(q) \o R /\ (q \o R)[1] = q[1] /\ q \o R # <<>>
    BY <1>1, TailConcat
  <2> QED
    BY <1>1, <2>1, <2>2
<1>4. /\ all \in Seq(Frames) /\ Tail(all) = R \o G /\ all[1] = x /\ all # <<>>
      /\ Len(all) = 1 + Len(R) + Len(G)
  <2> DEFINE qr == q \o R
  <2>1. qr \in Seq(Frames) /\ qr # <<>> /\ Tail(qr) = R /\ qr[1] = x /\ Len(qr) = 1 + Len(R)
    BY <1>3
  <2> HIDE DEF qr
  <2>2. qr \o G \in Seq(Frames) /\ Len(qr \o G) = Len(qr) + Len(G)
    BY <2>1, ConcatProperties
  <2>3. Tail(qr \o G) = Tail(qr) \o G /\ (qr \o G)[1] = qr[1] /\ qr \o G # <<>>
    BY <2>1, TailConcat
  <2>4. all = qr \o G
    BY <1>2 DEF qr
  <2> HIDE DEF all
  <2> QED
    BY <2>1, <2>2, <2>3, <2>4
<1> HIDE DEF all
<1>5. ASSUME NEW i \in 1..Len(R) PROVE all[i + 1] = R[i]
  <2>1. Len(Tail(all)) = Len(all) - 1 /\ \A j \in 1..Len(Tail(all)) : Tail(all)[j] = all[j + 1]
    BY <1>4, HeadTailProperties
  <2>2. i \in 1..Len(Tail(all))
    BY <1>1, <1>4, <2>1
  <2>3. (R \o G)[i] = R[i]
    BY <1>1, ConcatProperties
  <2> QED
    BY <1>4, <2>1, <2>2, <2>3
<1>6. Len(all) \in Nat /\ Len(all) >= Len(R) + 1
  BY <1>1, <1>4
<1> QED
  BY <1>1, <1>4, <1>5, <1>6 DEF all, q

\* The refusal is among what is replayed, before anything that confirms.
LEMMA ReplayHasRefusal ==
  ASSUME WireTypes, DaemonOK, NEW hi \in Nat, Resumes(hi), NEW s \in Nat, NEW k \in Nat,
         hi < s, s <= Counter, log \in Seq(Around(s, k)),
         NEW x \in Frames, x.ev.t = "salt", x.seq = 0, NEW G \in Seq(Frames)
  PROVE  ErrorFirst(<<>> \o <<x>> \o Replay(hi) \o G, s, k)
<1> DEFINE R == Replay(hi)
           all == <<>> \o <<x>> \o R \o G
           j == s - hi
<1>1. out \in Nat \cup {NoStream} /\ LogFits(log, out)
  BY DEF WireTypes, DaemonOK
<1>2. /\ R \in Seq(Around(s, k)) /\ Len(R) = out - hi /\ out \in Nat /\ hi <= out
      /\ \A i \in 1..Len(R) : R[i].seq = hi + i
  BY <1>1, ReplayProperties
<1>3. Around(s, k) \subseteq Frames /\ Counter = out
  BY <1>2 DEF Around, Counter, NoStream
<1>4. R \in Seq(Frames)
  BY <1>2, <1>3, SeqMonotonic
<1> HIDE DEF R
<1>5. /\ all[1] = x /\ Len(all) \in Nat /\ Len(all) >= Len(R) + 1
      /\ \A i \in 1..Len(R) : all[i + 1] = R[i]
  BY <1>4, SaltFirst
<1> HIDE DEF all
<1>6. j \in 1..Len(R) /\ j + 1 \in 1..Len(all) /\ hi + j = s
  BY <1>2, <1>3, <1>5
<1> HIDE DEF j
<1>7. \A i \in 1..Len(R) : R[i] \in Around(s, k)
  BY <1>2, ElementOfSeq
<1>8. all[j + 1].ev.t = "error"
  BY <1>2, <1>5, <1>6, <1>7 DEF Around
<1>9. ASSUME NEW i \in 1..(j + 1) - 1 PROVE all[i].seq < s /\ ~Confirms(all[i], k)
  <2>1. CASE i = 1
    BY <1>5, <2>1 DEF Confirms
  <2>2. CASE i # 1
    <3>1. i - 1 \in 1..Len(R) /\ (i - 1) + 1 = i /\ hi + (i - 1) < s
      BY <1>2, <1>6, <2>2
    <3>2. all[i] = R[i - 1] /\ R[i - 1].seq = hi + (i - 1) /\ R[i - 1] \in Around(s, k)
      BY <1>2, <1>5, <1>7, <3>1
    <3>3. ~(R[i - 1].seq > s)
      BY <3>1, <3>2
    <3> QED
      BY <3>1, <3>2, <3>3 DEF Around
  <2> QED
    BY <2>1, <2>2
<1> QED
  BY <1>6, <1>8, <1>9 DEF ErrorFirst, all, R

\* Hello: what was missed is replayed, a refusal too, or everything starts afresh.
LEMMA HelloKeeps ==
  ASSUME ExitInv, NumberTypes', NEW p \in Procs, DaemonHello(p)
  PROVE  ExitInv'
<1> DEFINE hi == highest[p]
           res == Resumes(hi)
           first == IF res THEN <<>> ELSE <<Event>>
           sent == first \o AckOf(through)
           G == Sealed(sent)
           x == Frame(0, Salt(res))
           R == IF res THEN Replay(hi) ELSE <<>>
           dn == <<>> \o <<x>> \o R \o G
           K == Kinds(p)
<1>1. NumberTypes /\ WireTypes /\ DaemonOK /\ ProcOK(p) /\ TrueExit(p)
  BY DEF ExitInv
<1>2. SockOK(pc[p], sock[p], up[p], down[p], hi, num[p], Counter, through, K)
  BY <1>1 DEF ProcOK
<1>3. up[p] # <<>> /\ Head(up[p]).t = "hello"
  BY DEF DaemonHello
<1>4. pc[p] = "open"
  <2> SUFFICES ASSUME pc[p] # "open" PROVE FALSE
    OBVIOUS
  <2>1. up[p] \in Seq(Cmds(p))
    BY <1>1 DEF ProcOK
  <2>2. Head(up[p]) \in Cmds(p)
    BY <1>3, <2>1, HeadTailProperties
  <2> QED
    BY <1>3, <2>2 DEF Cmds
<1>5. sock[p] = "up" /\ up[p] = <<Hello(hi)>> /\ down[p] = <<>>
  BY <1>2, <1>3, <1>4 DEF SockOK, Hailing, Salted
<1>6. Head(up[p]).n = hi /\ Tail(up[p]) = <<>>
  BY <1>5 DEF Hello
<1>7. /\ Record(sent) /\ up' = [up EXCEPT ![p] = <<>>] /\ down' = [down EXCEPT ![p] = dn]
      /\ UNCHANGED <<reads, pc, exit, num, highest, sock, through, ahead, done, refused, drawn,
                     reused, resumed, resynced, missed>>
  BY <1>5, <1>6 DEF DaemonHello, Welcome, setting, host, memory, outcomes, numbering, rejoined
<1>8. hi \in Nat /\ through \in Nat /\ Counter \in Nat /\ num[p] \in Nat
  BY <1>1, CounterType DEF WireTypes, NumberTypes
<1> HIDE DEF res
<1>9. first \in Seq(Evs) /\
        \A i \in 1..Len(first) : Honest(first[i], through) /\ first[i].t \in {"event", "ack"}
  <2>1. Honest(Event, through) /\ Event.t = "event" /\ Event \in Evs
    BY HonestEvents DEF Honest
  <2>2. CASE res
    <3>1. first = <<>>
      BY <2>2
    <3> QED
      BY <3>1, EmptySeq
  <2>3. CASE ~res
    <3>1. first = <<Event>>
      BY <2>3
    <3> QED
      BY <2>1, <3>1
  <2> QED
    BY <2>2, <2>3
<1> HIDE DEF first
<1>10. sent \in Seq(Evs) /\
        \A i \in 1..Len(sent) : Honest(sent[i], through) /\ sent[i].t \in {"event", "ack"}
  <2> DEFINE SK == {"event", "ack"}
  <2>1. "ack" \in SK /\ \A i \in 1..Len(first) : Honest(first[i], through) /\ first[i].t \in SK
    BY <1>9
  <2> HIDE DEF SK
  <2>2. sent \in Seq(Evs) /\ \A i \in 1..Len(sent) : Honest(sent[i], through) /\ sent[i].t \in SK
    BY <1>8, <1>9, <2>1, WithAck
  <2> QED
    BY <2>2 DEF SK
<1> HIDE DEF sent
<1>11. through' \in Nat /\ through <= through' /\ through' = through
  BY <1>7, <1>8
<1>12. /\ out' \in Nat /\ Counter' = out' /\ Counter <= Counter'
       /\ G \in Seq(Good(Counter', through', {"event", "ack"}))
       /\ \A s, k \in Nat : s <= Counter /\ log \in Seq(Around(s, k)) =>
                              log' \in Seq(Around(s, k))
  BY <1>1, <1>7, <1>10, <1>11, RecordKeeps
<1> HIDE DEF G
<1>13. x \in Frames /\ x.ev.t = "salt" /\ x.seq = 0 /\ (x.ev.n = 1 <=> res)
  BY DEF Frame, Salt, Frames, Evs, Nobody
<1> HIDE DEF x
<1>14. /\ R \in Seq(Good(Counter, through, AllKinds))
       /\ res => hi # 0 /\ hi <= Counter
       /\ ~res => R = <<>>
  <2>1. CASE res
    <3>1. Resumes(hi) /\ R = Replay(hi) /\ out \in Nat \cup {NoStream} /\ LogFits(log, out)
      BY <1>1, <2>1 DEF res, WireTypes, DaemonOK
    <3>2. log \in Seq(Good(Counter, through, AllKinds))
      BY <1>1 DEF DaemonOK
    <3>3. R \in Seq(Good(Counter, through, AllKinds)) /\ hi # 0 /\ hi <= out /\ out \in Nat
      BY <1>8, <3>1, <3>2, ReplayProperties
    <3> QED
      BY <2>1, <3>3 DEF Counter, NoStream
  <2>2. CASE ~res
    BY <2>2, EmptySeq
  <2> QED
    BY <2>1, <2>2
<1> HIDE DEF R
<1>15. R \in Seq(Frames) /\ G \in Seq(Frames)
  BY <1>12, <1>14, GoodFrames
<1>16. dn \in Seq(Frames) /\ dn # <<>> /\ dn[1] = x /\ Tail(dn) = R \o G
  BY <1>13, <1>15, SaltFirst
<1> HIDE DEF dn
<1>17. WireTypes'
  <2>1. <<>> \in Seq(Msgs)
    BY EmptySeq
  <2> QED
    BY <1>1, <1>7, <1>12, <1>16, <2>1 DEF WireTypes
<1>18. /\ up'[p] = <<>> /\ down'[p] = dn
       /\ \A q \in Procs \ {p} : up'[q] = up[q] /\ down'[q] = down[q]
  BY <1>1, <1>7 DEF WireTypes
<1>19. Processed' = Processed /\ Kinds(p)' = K /\ (Issued(p)' <=> Issued(p))
  BY <1>7 DEF Processed, Kinds, Issued
<1>20. {"event", "ack"} \subseteq K /\ K \subseteq AllKinds
  BY DEF Kinds, AllKinds
<1>21. Tail(dn) \in Seq(Good(Counter', through', IF dn[1].ev.n = 1 THEN AllKinds ELSE K))
  <2> DEFINE A == IF dn[1].ev.n = 1 THEN AllKinds ELSE K
  <2>1. {"event", "ack"} \subseteq A
    BY <1>20
  <2>2. CASE res
    <3>1. A = AllKinds
      BY <1>13, <1>16, <2>2
    <3>2. Counter' \in Nat /\ {"event", "ack"} \subseteq AllKinds
      BY <1>12 DEF AllKinds
    <3>3. R \in Seq(Good(Counter', through', AllKinds))
      BY <1>8, <1>11, <1>12, <1>14, <3>2, GoodMono
    <3>4. G \in Seq(Good(Counter', through', AllKinds))
      BY <1>11, <1>12, <3>2, GoodMono
    <3> QED
      BY <1>16, <3>1, <3>3, <3>4, ConcatProperties
  <2>3. CASE ~res
    <3> HIDE DEF A
    <3>1. G \in Seq(Good(Counter', through', A))
      BY <1>11, <1>12, <2>1, GoodMono
    <3>2. Tail(dn) = G
      BY <1>14, <1>15, <1>16, <2>3, ConcatEmptySeq
    <3> QED
      BY <3>1, <3>2 DEF A
  <2> QED
    BY <2>2, <2>3
<1>22. SockOK(pc[p], sock[p], up[p], down[p], highest[p], num[p], Counter, through, Kinds(p))'
  <2>1. dn[1].ev.n = 1 => num[p] # 0 /\ hi <= Counter'
    BY <1>2, <1>8, <1>12, <1>13, <1>14, <1>16 DEF SockOK
  <2>2. Salted(<<>>, dn, hi, num[p], Counter', through', K)
    BY <1>13, <1>16, <1>21, <2>1 DEF Salted
  <2>3. SockOK("open", "up", <<>>, dn, hi, num[p], Counter', through', K)
    BY <1>2, <2>2 DEF SockOK
  <2> QED
    BY <1>4, <1>5, <1>7, <1>18, <1>19, <2>3
<1>23. Refusal(p)'
  <2> SUFFICES ASSUME Issued(p), num[p] \in Processed \ reused,
                      p \notin done \cup resynced \cup missed
               PROVE  \E s \in Nat : RefusedAt(s, num[p], highest[p], Counter, log, Listens(p),
                                               down[p])'
    BY <1>7, <1>19 DEF Refusal
  <2>1. PICK s \in Nat :
          RefusedAt(s, num[p], hi, Counter, log, Listens(p), down[p])
    BY <1>1 DEF ProcOK, Refusal
  <2>2. hi < s /\ s <= Counter /\ log \in Seq(Around(s, num[p]))
    BY <2>1 DEF RefusedAt
  <2>3. s <= Counter' /\ log' \in Seq(Around(s, num[p]))
    BY <1>8, <1>12, <2>2
  <2>4. ASSUME Listens(p)' PROVE ErrorFirst(dn, s, num[p])
    <3>1. res
      BY <1>4, <1>7, <1>13, <1>16, <1>18, <2>4 DEF Listens
    <3>2. Resumes(hi) /\ R = Replay(hi)
      BY <3>1 DEF res, R
    <3>3. ErrorFirst(<<>> \o <<x>> \o Replay(hi) \o G, s, num[p])
      BY <1>1, <1>8, <1>13, <1>15, <2>2, <3>2, ReplayHasRefusal
    <3> QED
      BY <3>2, <3>3 DEF dn
  <2> QED
    BY <1>7, <1>18, <2>2, <2>3, <2>4 DEF RefusedAt
<1>24. ProcOK(p)' /\ TrueExit(p)'
  BY <1>1, <1>4, <1>7, <1>19, <1>22, <1>23 DEF ProcOK, TrueExit
<1>25. DaemonActs(sent, {p})
  BY <1>7, <1>10, <1>11, <1>18, <1>19 DEF DaemonActs, Overhears
<1>26. Processed' \subseteq drawn
  BY <1>1, <1>19 DEF DaemonOK
<1> QED
  BY <1>10, <1>17, <1>24, <1>25, <1>26, DaemonKeeps

\* A command that was handled before is dropped.
LEMMA DuplicateKeeps ==
  ASSUME ExitInv, NumberTypes', NEW p \in Procs, pc[p] # "open", sock[p] = "up", up[p] # <<>>,
         up' = [up EXCEPT ![p] = Tail(@)],
         UNCHANGED <<reads, pc, exit, num, highest, sock, down, out, log, through, ahead, done,
                     refused, drawn, reused, resumed, resynced, missed>>
  PROVE  ExitInv'
<1>1. NumberTypes /\ WireTypes /\ ProcOK(p) /\ TrueExit(p)
  BY DEF ExitInv
<1>2. up[p] \in Seq(Cmds(p)) /\ up[p] \in Seq(Msgs)
  BY <1>1 DEF ProcOK, WireTypes
<1>3. Tail(up[p]) \in Seq(Cmds(p)) /\ Tail(up[p]) \in Seq(Msgs)
  BY <1>2, HeadTailProperties
<1>4. WireTypes'
  BY <1>1, <1>3 DEF WireTypes
<1>5. up'[p] = Tail(up[p]) /\ \A q \in Procs \ {p} : Untouched(q) /\ down'[q] = down[q]
  BY <1>1 DEF WireTypes, Untouched
<1>6. /\ Counter' = Counter /\ Processed' = Processed /\ Kinds(p)' = Kinds(p)
      /\ \A q \in Procs : Issued(q)' <=> Issued(q)
      /\ Listens(p)' <=> Listens(p)
  BY DEF Counter, Processed, Kinds, Issued, Listens
<1>7. LocalTo(p)
  BY <1>5, <1>6 DEF LocalTo, Fresh
<1>8. Cmds(p)' = Cmds(p)
  BY <1>6 DEF Cmds
<1>9. SockOK(pc[p], sock[p], up[p], down[p], highest[p], num[p], Counter, through, Kinds(p))'
  <2>1. SockOK(pc[p], sock[p], up[p], down[p], highest[p], num[p], Counter, through, Kinds(p))
    BY <1>1 DEF ProcOK
  <2>2. SockOK(pc[p], sock[p], up'[p], down[p], highest[p], num[p], Counter, through, Kinds(p))
    BY <2>1 DEF SockOK
  <2> QED
    BY <1>6, <2>2
<1>10. Refusal(p)'
  BY <1>1, <1>6 DEF ProcOK, Refusal, RefusedAt
<1>11. ProcOK(p)' /\ TrueExit(p)'
  BY <1>1, <1>3, <1>5, <1>6, <1>8, <1>9, <1>10 DEF ProcOK, TrueExit
<1> QED
  BY <1>4, <1>7, <1>11, LocalKeeps

\* A refusal that is sent now is ahead of everything that confirms the number, in the log
\* and on the connection, because nothing has confirmed it yet.
LEMMA RefusalIsSent ==
  ASSUME WireTypes, DaemonOK, NEW evs \in Seq(Evs), Len(evs) >= 1, evs[1].t = "error", Record(evs),
         NEW k \in Nat, through < k, NEW K, NEW dn \in Seq(Good(Counter, through, K)),
         NEW hi \in Nat, hi <= Counter, NEW listens
  PROVE  RefusedAt(Counter + 1, k, hi, Counter', log', listens, dn \o Sealed(evs))
<1> DEFINE c == Counter
           G == Sealed(evs)
           s == c + 1
           dg == dn \o G
<1>1. out \in Nat \cup {NoStream} /\ through \in Nat /\ LogFits(log, out)
  BY DEF WireTypes, DaemonOK
<1>2. /\ c \in Nat /\ Len(evs) \in Nat /\ G \in Seq(Frames) /\ Len(G) = Len(evs)
      /\ \A i \in 1..Len(evs) : G[i].seq = c + i /\ G[i].ev = evs[i]
  BY <1>1, SealedProperties
<1>3. log \in Seq(Good(c, through, AllKinds)) /\ log \in Seq(Frames) /\ dn \in Seq(Frames)
  BY GoodFrames DEF DaemonOK
<1> HIDE DEF G, c
<1>4. ASSUME NEW A, NEW f \in Good(c, through, A)
      PROVE  f \in Frames /\ f.seq < s /\ f.seq # s /\ ~Confirms(f, k)
  <2>1. f \in Frames /\ f.seq \in Nat /\ f.ev.n \in Nat /\ f.seq <= c
        /\ (f.ev.t = "ack" => f.ev.n <= through)
    BY DEF Good, Frames, Evs
  <2> QED
    BY <1>1, <1>2, <2>1 DEF Confirms
<1>5. Good(c, through, AllKinds) \subseteq Around(s, k)
  BY <1>4 DEF Around
<1>6. log \in Seq(Around(s, k))
  BY <1>3, <1>5, SeqMonotonic
<1>7. \A i \in 1..Len(evs) : G[i] \in Around(s, k)
  <2> SUFFICES ASSUME NEW i \in 1..Len(evs) PROVE G[i] \in Around(s, k)
    OBVIOUS
  <2>1. G[i] \in Frames /\ G[i].seq = c + i /\ G[i].ev = evs[i]
    BY <1>2, ElementOfSeq
  <2>2. CASE i = 1
    BY <2>1, <2>2 DEF Around, Confirms
  <2>3. CASE i # 1
    <3>1. c + i > s /\ c + i # s
      BY <1>2, <2>3
    <3> QED
      BY <2>1, <3>1 DEF Around
  <2> QED
    BY <2>2, <2>3
<1>8. G \in Seq(Around(s, k))
  <2> DEFINE A == Around(s, k)
  <2>1. G \in [1..Len(evs) -> Frames]
    BY <1>2, LenProperties
  <2>2. \A i \in 1..Len(evs) : G[i] \in A
    BY <1>7
  <2> HIDE DEF A
  <2>3. G \in [1..Len(evs) -> A]
    BY <2>1, <2>2
  <2>4. G \in Seq(A)
    BY <1>2, <2>3
  <2> QED
    BY <2>4 DEF A
<1>9. log' \in Seq(Around(s, k)) /\ Counter' = c + Len(evs)
  BY <1>1, <1>6, <1>8, RecordEffect DEF G, c
<1>10. hi < s /\ s <= Counter'
  BY <1>2, <1>9 DEF c
<1>11. /\ Len(dg) = Len(dn) + Len(G) /\ Len(dn) \in Nat
       /\ \A i \in 1..Len(dn) + Len(G) : dg[i] = IF i <= Len(dn) THEN dn[i] ELSE G[i - Len(dn)]
  BY <1>2, <1>3, ConcatProperties, LenProperties
<1> HIDE DEF dg
<1>12. ErrorFirst(dg, s, k)
  <2> DEFINE j == Len(dn) + 1
  <2>1. j \in 1..Len(dg) /\ j - Len(dn) = 1 /\ ~(j <= Len(dn)) /\ 1 \in 1..Len(evs)
    BY <1>2, <1>11
  <2>2. dg[j] = G[1] /\ G[1].ev = evs[1]
    BY <1>2, <1>11, <2>1
  <2>3. ASSUME NEW i \in 1..j - 1 PROVE dg[i].seq < s /\ ~Confirms(dg[i], k)
    <3>1. i \in 1..Len(dn) /\ i \in 1..Len(dn) + Len(G) /\ i <= Len(dn)
      BY <1>2, <1>11
    <3>2. dg[i] = dn[i] /\ dn[i] \in Good(c, through, K)
      BY <1>11, <3>1, ElementOfSeq DEF c
    <3> QED
      BY <1>4, <3>2
  <2> HIDE DEF j
  <2> QED
    BY <2>1, <2>2, <2>3 DEF ErrorFirst
<1> QED
  BY <1>9, <1>10, <1>12 DEF RefusedAt, s, c, dg, G

\* What a handler does: it completes or refuses the command, which is noted before the ack,
\* or throws.
LEMMA HandleEffect ==
  ASSUME WireTypes, NEW p \in Procs, NEW n \in Nat \ {0},
         NEW evs \in {<<>>, <<Reply(p)>>, <<Error(p)>>},
         Handle(p, n, evs)
  PROVE  /\ through' \in Nat /\ through <= through' /\ ahead' \in SUBSET Nat
         /\ done \subseteq done' /\ refused \subseteq refused'
         /\ \/ Processed' \subseteq Processed
            \/ Processed' \subseteq Processed \cup {n} /\ p \in done'
            \/ Processed' \subseteq Processed \cup {n} /\ p \in refused' /\ evs = <<Error(p)>>
         /\ evs \in Seq(Evs)
         /\ \A i \in 1..Len(evs) : Honest(evs[i], through') /\ evs[i].t \in Kinds(p)'
<1>1. Honest(Reply(p), through') /\ Reply(p) \in Evs /\ Reply(p).t = "reply"
  BY HonestEvents DEF Honest
<1>2. Honest(Error(p), through') /\ Error(p) \in Evs /\ Error(p).t = "error"
  BY HonestEvents DEF Honest
<1>3. evs \in Seq(Evs)
  <2>1. <<>> \in Seq(Evs)
    BY EmptySeq
  <2>2. <<Reply(p)>> \in Seq(Evs)
    BY <1>1
  <2>3. <<Error(p)>> \in Seq(Evs)
    BY <1>2
  <2> QED
    BY <2>1, <2>2, <2>3
<1>4. through \in Nat /\ ahead \in SUBSET Nat
  BY DEF WireTypes
<1>5. CASE /\ evs = (IF p \in reads THEN <<Reply(p)>> ELSE <<>>)
           /\ done' = done \cup {p} /\ MarkProcessed(n) /\ UNCHANGED <<refused, threw>>
  <2>1. /\ through' \in Nat /\ through <= through' /\ ahead' \in SUBSET Nat
        /\ Processed' \subseteq Processed \cup {n}
    BY <1>5, MarkAdds
  <2>2. "reply" \in Kinds(p)'
    BY <1>5 DEF Kinds
  <2>3. \A i \in 1..Len(evs) : evs[i] = Reply(p)
    BY <1>5
  <2> QED
    BY <1>1, <1>3, <1>5, <2>1, <2>2, <2>3
<1>6. CASE /\ p \notin reads /\ evs = <<Error(p)>>
           /\ refused' = refused \cup {p} /\ MarkProcessed(n) /\ UNCHANGED <<done, threw>>
  <2>1. /\ through' \in Nat /\ through <= through' /\ ahead' \in SUBSET Nat
        /\ Processed' \subseteq Processed \cup {n}
    BY <1>6, MarkAdds
  <2>2. "error" \in Kinds(p)'
    BY <1>6 DEF Kinds
  <2>3. \A i \in 1..Len(evs) : evs[i] = Error(p)
    BY <1>6
  <2> QED
    BY <1>2, <1>3, <1>6, <2>1, <2>2, <2>3
<1>7. CASE evs = <<>> /\ UNCHANGED <<done, refused, through, ahead>>
  <2>1. Processed' = Processed
    BY <1>7 DEF Processed
  <2>2. \A i \in 1..Len(evs) : FALSE
    BY <1>7
  <2> QED
    BY <1>3, <1>4, <1>7, <2>1, <2>2
<1> QED
  BY <1>5, <1>6, <1>7 DEF Handle

\* The read loop.
LEMMA FrameKeeps ==
  ASSUME ExitInv, NumberTypes', NEW p \in Procs, DaemonFrame(p)
  PROVE  ExitInv'
<1> DEFINE n == Head(up[p]).n
           K == Kinds(p)
<1>1. NumberTypes /\ WireTypes /\ DaemonOK /\ ProcOK(p) /\ TrueExit(p)
  BY DEF ExitInv
<1>2. /\ up[p] # <<>> /\ Head(up[p]).t = "command" /\ up' = [up EXCEPT ![p] = Tail(@)]
      /\ UNCHANGED <<reads, pc, exit, num, highest, sock, drawn, reused, resumed, resynced, missed>>
  BY DEF DaemonFrame, setting, host, memory, outcomes, numbering, rejoined
<1>3. SockOK(pc[p], sock[p], up[p], down[p], highest[p], num[p], Counter, through, K)
  BY <1>1 DEF ProcOK
<1>4. sock[p] = "up" /\ pc[p] # "open"
  <2>1. sock[p] = "up"
    BY <1>2, <1>3 DEF SockOK
  <2>2. ~Hailing(up[p], down[p], highest[p])
    <3> SUFFICES ASSUME up[p] = <<Hello(highest[p])>> PROVE FALSE
      BY DEF Hailing
    <3>1. Head(up[p]) = Hello(highest[p])
      OBVIOUS
    <3> QED
      BY <1>2, <3>1 DEF Hello
  <2> QED
    BY <1>2, <1>3, <2>1, <2>2 DEF SockOK, Salted
<1>5. CASE n \in seen /\ UNCHANGED <<daemon, outcomes, down>>
  BY <1>2, <1>4, <1>5, DuplicateKeeps DEF daemon, outcomes
<1>6. ASSUME NEW evs \in {<<>>, <<Reply(p)>>, <<Error(p)>>}, Handle(p, n, evs),
             Record(evs \o AckOf(through')),
             down' = [down EXCEPT ![p] = @ \o Sealed(evs \o AckOf(through'))]
      PROVE  ExitInv'
  <2> DEFINE all == evs \o AckOf(through')
             G == Sealed(all)
             K2 == Kinds(p)'
             dn == down[p]
             dg == dn \o G
  <2>1. up[p] \in Seq(Cmds(p)) /\ up[p] \in Seq(Msgs)
    BY <1>1, <1>4 DEF ProcOK, WireTypes
  <2>2. Head(up[p]) \in Cmds(p) /\ Tail(up[p]) \in Seq(Cmds(p)) /\ Tail(up[p]) \in Seq(Msgs)
    BY <1>2, <2>1, HeadTailProperties
  <2>3. /\ n \in Nat \ {0} /\ n \in drawn
        /\ \A q \in Procs \ {p} : Issued(q) /\ num[q] = n => n \in reused
    BY <2>2 DEF Cmds, Msgs
  <2> HIDE DEF n
  <2>4. /\ through' \in Nat /\ through <= through' /\ ahead' \in SUBSET Nat
        /\ done \subseteq done' /\ refused \subseteq refused'
        /\ \/ Processed' \subseteq Processed
           \/ Processed' \subseteq Processed \cup {n} /\ p \in done'
           \/ Processed' \subseteq Processed \cup {n} /\ p \in refused' /\ evs = <<Error(p)>>
        /\ evs \in Seq(Evs)
        /\ \A i \in 1..Len(evs) : Honest(evs[i], through') /\ evs[i].t \in K2
    BY <1>1, <1>6, <2>3, HandleEffect
  <2>5. K \subseteq K2 /\ K2 \subseteq AllKinds /\ "ack" \in K2
    BY <1>2, <2>4, KindsGrow
  <2> HIDE DEF K, K2
  <2>6. /\ all \in Seq(Evs) /\ Len(all) \in Nat /\ Len(evs) \in Nat /\ Len(all) >= Len(evs)
        /\ \A i \in 1..Len(evs) : all[i] = evs[i]
        /\ \A i \in 1..Len(all) : Honest(all[i], through') /\ all[i].t \in K2
    BY <2>4, <2>5, WithAck
  <2>7. Record(all) /\ down' = [down EXCEPT ![p] = dg]
    BY <1>6
  <2> HIDE DEF all
  <2>8. /\ Counter \in Nat /\ out' \in Nat /\ Counter' = out' /\ Counter <= Counter'
        /\ G \in Seq(Good(Counter', through', K2))
        /\ \A s, k \in Nat : s <= Counter /\ log \in Seq(Around(s, k)) =>
                               log' \in Seq(Around(s, k))
    BY <1>1, <2>4, <2>6, <2>7, RecordKeeps
  <2>9. /\ through \in Nat /\ dn \in Seq(Frames) /\ highest[p] \in Nat /\ num[p] \in Nat
        /\ G \in Seq(Frames)
    BY <1>1, <2>8, GoodFrames DEF WireTypes, NumberTypes
  <2>10. dg \in Seq(Frames)
    BY <2>9, ConcatProperties
  <2>11. SockOK(pc[p], sock[p], up[p], dg, highest[p], num[p], Counter', through', K2)
    <3>1. Counter' \in Nat
      BY <2>8
    <3> HIDE DEF G
    <3>2. SockOK(pc[p], sock[p], up[p], dn \o G, highest[p], num[p], Counter', through', K2)
      BY <1>3, <1>4, <2>4, <2>5, <2>8, <2>9, <3>1, SockGrows
    <3> QED
      BY <3>2
  <2> HIDE DEF dg, G
  <2>12. WireTypes'
    BY <1>1, <1>2, <2>2, <2>4, <2>7, <2>8, <2>10 DEF WireTypes
  <2>13. /\ up'[p] = Tail(up[p]) /\ down'[p] = dg
         /\ \A q \in Procs \ {p} : up'[q] = up[q] /\ down'[q] = down[q]
    BY <1>1, <1>2, <2>7 DEF WireTypes
  <2>14. SockOK(pc[p], sock[p], up[p], down[p], highest[p], num[p], Counter, through, Kinds(p))'
    <3>1. SockOK(pc[p], sock[p], up'[p], dg, highest[p], num[p], Counter', through', K2)
      BY <1>4, <2>11 DEF SockOK
    <3> QED
      BY <1>2, <2>13, <3>1 DEF K2
  <2>15. \A q \in Procs : Issued(q)' <=> Issued(q)
    BY <1>2 DEF Issued
  <2>16. Cmds(p)' = Cmds(p)
    BY <1>2, <2>15 DEF Cmds
  <2>17. Refusal(p)'
    <3> SUFFICES ASSUME Issued(p), num[p] \in Processed' \ reused,
                        p \notin done' \cup resynced \cup missed
                 PROVE  \E s \in Nat : RefusedAt(s, num[p], highest[p], Counter, log, Listens(p),
                                                 down[p])'
      BY <1>2, <2>15 DEF Refusal
    <3>1. CASE num[p] \in Processed
      <4>1. PICK s \in Nat : RefusedAt(s, num[p], highest[p], Counter, log, Listens(p), dn)
        BY <1>1, <2>4, <3>1 DEF ProcOK, Refusal
      <4>2. highest[p] < s /\ s <= Counter' /\ log' \in Seq(Around(s, num[p]))
        BY <2>8, <2>9, <4>1 DEF RefusedAt
      <4>3. ErrorFirst(dn, s, num[p])
        BY <1>4, <4>1 DEF RefusedAt, Listens
      <4>4. ErrorFirst(dg, s, num[p])
        BY <2>9, <4>3, ErrorStaysFirst DEF dg
      <4> QED
        BY <1>2, <2>13, <4>2, <4>4 DEF RefusedAt
    <3>2. CASE num[p] \notin Processed
      <4>1. evs = <<Error(p)>> /\ ~(num[p] \in 1..through) /\ num[p] # 0
        BY <2>4, <3>2 DEF Processed, Issued
      <4>2. through < num[p]
        BY <2>9, <4>1
      <4>3. Len(evs) = 1 /\ evs[1].t = "error"
        BY <4>1, HonestEvents
      <4>4. Len(all) >= 1 /\ all[1].t = "error"
        BY <2>6, <4>3
      <4>5. dn \in Seq(Good(Counter, through, K)) /\ highest[p] <= Counter
        BY <1>3, <1>4 DEF SockOK
      <4>6. RefusedAt(Counter + 1, num[p], highest[p], Counter', log', Listens(p)', dg)
        BY <1>1, <2>6, <2>7, <2>9, <4>2, <4>4, <4>5, RefusalIsSent DEF dg, G
      <4>7. Counter + 1 \in Nat
        BY <2>8
      <4> QED
        BY <1>2, <2>13, <4>6, <4>7
    <3> QED
      BY <3>1, <3>2
  <2>18. (Issued(p) /\ num[p] \in Processed => p \in done \cup refused \/ num[p] \in reused)'
    BY <1>1, <1>2, <2>4, <2>15 DEF ProcOK
  <2>19. ProcOK(p)' /\ TrueExit(p)'
    BY <1>1, <1>2, <2>2, <2>4, <2>13, <2>14, <2>15, <2>16, <2>17, <2>18 DEF ProcOK, TrueExit
  <2>20. DaemonActs(all, {p})
    BY <1>2, <2>3, <2>4, <2>6, <2>7, <2>13 DEF DaemonActs, Overhears
  <2>21. Processed' \subseteq drawn
    BY <1>1, <2>3, <2>4 DEF DaemonOK
  <2> QED
    BY <2>6, <2>12, <2>19, <2>20, <2>21, DaemonKeeps
<1> QED
  BY <1>5, <1>6 DEF DaemonFrame

\* A step that changes nothing the invariant mentions.
LEMMA IdleKeeps ==
  ASSUME ExitInv, NumberTypes',
         UNCHANGED <<reads, pc, exit, num, highest, sock, up, down, out, log, through, ahead, done,
                     refused, drawn, reused, resumed, resynced, missed>>
  PROVE  ExitInv'
<1>1. Counter' = Counter /\ Processed' = Processed /\ \A p \in Procs : Issued(p)' <=> Issued(p)
  BY DEF Counter, Processed, Issued
<1>2. WireTypes' /\ DaemonOK' /\ Distinct'
  BY <1>1 DEF ExitInv, WireTypes, DaemonOK, Distinct
<1>3. ASSUME NEW p \in Procs PROVE ProcOK(p)' /\ TrueExit(p)'
  <2>1. ProcOK(p) /\ TrueExit(p)
    BY DEF ExitInv
  <2>2. Kinds(p)' = Kinds(p) /\ Cmds(p)' = Cmds(p) /\ (Listens(p)' <=> Listens(p))
    BY <1>1 DEF Kinds, Cmds, Listens
  <2>3. Refusal(p)'
    BY <1>1, <2>1, <2>2 DEF ProcOK, Refusal, RefusedAt
  <2> QED
    BY <1>1, <2>1, <2>2, <2>3 DEF ProcOK, TrueExit
<1> QED
  BY <1>2, <1>3 DEF ExitInv

----------------------------------------------------------------------------
(* What the daemon reads late.                                             *)

\* What hello adds to the stream is honest.
LEMMA WelcomeHonest ==
  ASSUME WireTypes, NEW k \in Nat
  PROVE  /\ Welcome(k) \in Seq(Evs)
         /\ \A i \in 1..Len(Welcome(k)) : Honest(Welcome(k)[i], through)
<1> DEFINE first == IF Resumes(k) THEN <<>> ELSE <<Event>>
           K == {"event", "ack"}
<1>1. through \in Nat
  BY DEF WireTypes
<1>2. Honest(Event, through) /\ Event.t = "event" /\ Event \in Evs
  BY HonestEvents DEF Honest
<1>3. first \in Seq(Evs) /\
        \A i \in 1..Len(first) : Honest(first[i], through) /\ first[i].t \in K
  <2>1. CASE Resumes(k)
    <3>1. first = <<>>
      BY <2>1
    <3> QED
      BY <3>1, EmptySeq
  <2>2. CASE ~Resumes(k)
    <3>1. first = <<Event>>
      BY <2>2
    <3> QED
      BY <1>2, <3>1
  <2> QED
    BY <2>1, <2>2
<1>4. Welcome(k) = first \o AckOf(through)
  BY DEF Welcome
<1>5. "ack" \in K
  OBVIOUS
<1> HIDE DEF first, K
<1>6. LET all == first \o AckOf(through) IN
        all \in Seq(Evs) /\ \A i \in 1..Len(all) : Honest(all[i], through) /\ all[i].t \in K
  BY <1>1, <1>3, <1>5, WithAck
<1> QED
  BY <1>4, <1>6

\* A late hello takes numbers of the stream; nobody is told.
LEMMA LateHelloKeeps ==
  ASSUME ExitInv, NumberTypes', NEW p \in Procs, NEW m \in DOMAIN late[p], LateOK(p),
         LateHello(p, m)
  PROVE  ExitInv'
<1> DEFINE evs == Welcome(m.n)
<1>1. NumberTypes /\ WireTypes /\ DaemonOK
  BY DEF ExitInv
<1>2. /\ Record(evs)
      /\ UNCHANGED <<reads, pc, exit, num, highest, sock, up, down, through, ahead, done, refused,
                     drawn, reused, resumed, resynced, missed>>
  BY DEF LateHello, setting, host, memory, outcomes, numbering, rejoined
<1>3. m.n \in Nat
  BY DEF LateOK, Msgs
<1>4. through' \in Nat /\ through <= through' /\ through' = through
  BY <1>1, <1>2 DEF WireTypes
<1>5. evs \in Seq(Evs) /\ \A i \in 1..Len(evs) : Honest(evs[i], through')
  BY <1>1, <1>3, <1>4, WelcomeHonest
<1> HIDE DEF evs
<1>6. out' \in Nat
  BY <1>1, <1>2, <1>4, <1>5, RecordKeeps
<1>7. WireTypes'
  BY <1>1, <1>2, <1>6 DEF WireTypes
<1>8. Processed' = Processed
  BY <1>2 DEF Processed
<1>9. DaemonActs(evs, {})
  BY <1>2, <1>4, <1>5, <1>8 DEF DaemonActs, Overhears
<1>10. Processed' \subseteq drawn
  BY <1>1, <1>8 DEF DaemonOK
<1> QED
  BY <1>5, <1>7, <1>9, <1>10, DaemonKeeps

\* A late command: p hears of it only if its next hello has not been read.
LEMMA LateFrameKeeps ==
  ASSUME ExitInv, NumberTypes', NEW p \in Procs, NEW m \in DOMAIN late[p], LateOK(p),
         LateFrame(p, m)
  PROVE  ExitInv'
<1> DEFINE n == m.n
           K == Kinds(p)
<1>1. NumberTypes /\ WireTypes /\ DaemonOK /\ ProcOK(p) /\ TrueExit(p)
  BY DEF ExitInv
<1>2. /\ m.t = "command"
      /\ UNCHANGED <<reads, pc, exit, num, highest, sock, up, down, drawn, reused, resumed,
                     resynced>>
  BY DEF LateFrame, setting, host, memory, numbering, rejoined
<1>3. /\ m \in Cmds(p) /\ highest[p] <= Counter
      /\ n \in Nat \ {0} /\ n \in drawn
      /\ \A q \in Procs \ {p} : Issued(q) /\ num[q] = n => n \in reused
  BY <1>2 DEF LateOK, Cmds, Msgs
<1>4. SockOK(pc[p], sock[p], up[p], down[p], highest[p], num[p], Counter, through, K)
  BY <1>1 DEF ProcOK
<1>5. ASSUME UNCHANGED <<daemon, outcomes>> PROVE ExitInv'
  <2>1. UNCHANGED <<reads, pc, exit, num, highest, sock, up, down, out, log, through, ahead, done,
                    refused, drawn, reused, resumed, resynced, missed>>
    BY <1>2, <1>5 DEF daemon, outcomes
  <2> QED
    BY <2>1, IdleKeeps
<1>6. ASSUME NEW evs \in {<<>>, <<Reply(p)>>, <<Error(p)>>}, Handle(p, n, evs),
             Record(evs \o AckOf(through')),
             missed' = missed \cup {q \in {p} : evs = <<Error(p)>> /\ Greeted(p)}
      PROVE  ExitInv'
  <2> DEFINE all == evs \o AckOf(through')
             K2 == Kinds(p)'
             dn == down[p]
  <2>1. /\ through' \in Nat /\ through <= through' /\ ahead' \in SUBSET Nat
        /\ done \subseteq done' /\ refused \subseteq refused'
        /\ \/ Processed' \subseteq Processed
           \/ Processed' \subseteq Processed \cup {n} /\ p \in done'
           \/ Processed' \subseteq Processed \cup {n} /\ p \in refused' /\ evs = <<Error(p)>>
        /\ evs \in Seq(Evs)
        /\ \A i \in 1..Len(evs) : Honest(evs[i], through') /\ evs[i].t \in K2
    BY <1>1, <1>3, <1>6, HandleEffect
  <2>2. K \subseteq K2 /\ K2 \subseteq AllKinds /\ "ack" \in K2
    BY <1>2, <2>1, KindsGrow
  <2> HIDE DEF K, K2
  <2>3. /\ all \in Seq(Evs) /\ Len(all) \in Nat /\ Len(evs) \in Nat /\ Len(all) >= Len(evs)
        /\ \A i \in 1..Len(evs) : all[i] = evs[i]
        /\ \A i \in 1..Len(all) : Honest(all[i], through') /\ all[i].t \in K2
    BY <2>1, <2>2, WithAck
  <2>4. Record(all)
    BY <1>6
  <2> HIDE DEF all
  <2>5. /\ Counter \in Nat /\ out' \in Nat /\ Counter' = out' /\ Counter <= Counter'
        /\ \A s, k \in Nat : s <= Counter /\ log \in Seq(Around(s, k)) =>
                               log' \in Seq(Around(s, k))
    BY <1>1, <2>1, <2>3, <2>4, RecordKeeps
  <2>6. /\ through \in Nat /\ dn \in Seq(Frames) /\ highest[p] \in Nat /\ num[p] \in Nat
        /\ Counter' \in Nat
    BY <1>1, <2>5 DEF WireTypes, NumberTypes
  <2>7. WireTypes'
    BY <1>1, <1>2, <2>1, <2>5 DEF WireTypes
  <2>8. SockOK(pc[p], sock[p], up[p], down[p], highest[p], num[p], Counter, through, Kinds(p))'
    <3>1. SockOK(pc[p], sock[p], up[p], dn, highest[p], num[p], Counter', through', K2)
      BY <1>4, <2>1, <2>2, <2>5, <2>6, SockGrows
    <3> QED
      BY <1>2, <3>1 DEF K2
  <2>9. \A q \in Procs : Issued(q)' <=> Issued(q)
    BY <1>2 DEF Issued
  <2>10. Cmds(p)' = Cmds(p) /\ (Listens(p)' <=> Listens(p)) /\ missed \subseteq missed'
    BY <1>2, <1>6, <2>9 DEF Cmds, Listens
  <2>11. Refusal(p)'
    <3> SUFFICES ASSUME Issued(p), num[p] \in Processed' \ reused,
                        p \notin done' \cup resynced \cup missed'
                 PROVE  \E s \in Nat : RefusedAt(s, num[p], highest[p], Counter, log, Listens(p),
                                                 down[p])'
      BY <1>2, <2>9 DEF Refusal
    <3>1. CASE num[p] \in Processed
      <4>1. PICK s \in Nat : RefusedAt(s, num[p], highest[p], Counter, log, Listens(p), dn)
        BY <1>1, <2>1, <2>10, <3>1 DEF ProcOK, Refusal
      <4>2. highest[p] < s /\ s <= Counter' /\ log' \in Seq(Around(s, num[p]))
        BY <2>5, <2>6, <4>1 DEF RefusedAt
      <4> QED
        BY <1>2, <2>10, <4>1, <4>2 DEF RefusedAt
    <3>2. CASE num[p] \notin Processed
      <4>1. evs = <<Error(p)>> /\ ~(num[p] \in 1..through) /\ num[p] # 0 /\ p \in refused'
        BY <2>1, <3>2 DEF Processed, Issued
      <4>2. through < num[p]
        BY <2>6, <4>1
      <4>3. Len(evs) = 1 /\ evs[1].t = "error"
        BY <4>1, HonestEvents
      <4>4. Len(all) >= 1 /\ all[1].t = "error"
        BY <2>3, <4>3
      <4>5. <<>> \in Seq(Good(Counter, through, K))
        BY EmptySeq
      <4>6. RefusedAt(Counter + 1, num[p], highest[p], Counter', log', FALSE, <<>> \o Sealed(all))
        BY <1>1, <1>3, <2>3, <2>4, <2>6, <4>2, <4>4, <4>5, RefusalIsSent
      <4>7. ~Listens(p)
        <5> SUFFICES ASSUME Listens(p) PROVE FALSE
          OBVIOUS
        <5>1. PICK i \in 1..Len(up[p]) : up[p][i].t = "hello"
          BY <1>6, <4>1 DEF Greeted, Listens
        <5>2. CASE pc[p] # "open"
          <6>1. up[p] \in Seq(Cmds(p))
            BY <1>1, <5>2 DEF ProcOK
          <6>2. up[p][i] \in Cmds(p)
            BY <6>1, ElementOfSeq
          <6> QED
            BY <5>1, <6>2 DEF Cmds
        <5>3. CASE pc[p] = "open"
          <6>1. down[p] # <<>> /\ sock[p] = "up"
            BY <5>3 DEF Listens
          <6>2. up[p] = <<>>
            BY <1>4, <5>3, <6>1 DEF SockOK, Hailing, Salted
          <6> QED
            BY <5>1, <6>2
        <5> QED
          BY <5>2, <5>3
      <4>8. Counter + 1 \in Nat
        BY <2>5
      <4> QED
        BY <1>2, <2>10, <4>6, <4>7, <4>8 DEF RefusedAt
    <3> QED
      BY <3>1, <3>2
  <2>12. (Issued(p) /\ num[p] \in Processed => p \in done \cup refused \/ num[p] \in reused)'
    BY <1>1, <1>2, <2>1, <2>9 DEF ProcOK
  <2>13. ProcOK(p)' /\ TrueExit(p)'
    BY <1>1, <1>2, <2>1, <2>8, <2>9, <2>10, <2>11, <2>12 DEF ProcOK, TrueExit
  <2>14. DaemonActs(all, {p})
    BY <1>2, <1>3, <2>1, <2>3, <2>4, <2>10 DEF DaemonActs, Overhears
  <2>15. Processed' \subseteq drawn
    BY <1>1, <1>3, <2>1 DEF DaemonOK
  <2> QED
    BY <2>3, <2>7, <2>13, <2>14, <2>15, DaemonKeeps
<1> QED
  BY <1>5, <1>6 DEF LateFrame

----------------------------------------------------------------------------
\* The initial state satisfies the invariant.
LEMMA InitExit == Init => ExitInv
<1> SUFFICES ASSUME Init PROVE ExitInv
  OBVIOUS
<1> DEFINE q == <<Frame(1, Event), Frame(2, Ack(1))>>
           S == Good(2, 1, AllKinds)
<1>1. NumberTypes
  BY InitInv DEF IInv
<1>2. /\ out = 2 /\ log = Latest(q) /\ through = 1 /\ ahead = {} /\ drawn = {1}
      /\ pc = [p \in Procs |-> "start"] /\ exit = [p \in Procs |-> "none"]
      /\ num = [p \in Procs |-> 0] /\ highest = [p \in Procs |-> 0]
      /\ sock = [p \in Procs |-> "none"]
      /\ up = [p \in Procs |-> <<>>] /\ down = [p \in Procs |-> <<>>]
  BY DEF Init
<1>3. \A T : <<>> \in Seq(T)
  BY EmptySeq
<1>4. WireTypes
  BY <1>2, <1>3 DEF WireTypes
<1>5. Frame(1, Event) \in S /\ Frame(2, Ack(1)) \in S
  BY DEF Frame, Event, Ack, Good, Frames, Evs, AllKinds, Nobody
<1> HIDE DEF S
<1>6. q \in Seq(S) /\ Len(q) = 2 /\ \A i \in 1..2 : q[i].seq = i
  BY <1>5 DEF Frame
<1>7. /\ log \in Seq(S) /\ Len(log) <= 2 /\ Len(log) \in Nat
      /\ \A i \in 1..Len(log) : log[i] = q[2 - Len(log) + i]
  BY <1>2, <1>6, LatestProperties
<1> HIDE DEF q
<1>8. \A i \in 1..Len(log) : log[i].seq = out - Len(log) + i
  <2> SUFFICES ASSUME NEW i \in 1..Len(log) PROVE log[i].seq = out - Len(log) + i
    OBVIOUS
  <2>1. 2 - Len(log) + i \in 1..2
    BY <1>7
  <2> QED
    BY <1>2, <1>6, <1>7, <2>1
<1>9. Counter = 2 /\ Processed = {1}
  BY <1>2 DEF Counter, Processed, NoStream
<1>10. DaemonOK
  BY <1>2, <1>7, <1>8, <1>9 DEF DaemonOK, LogFits, S
<1>11. \A p \in Procs : ~Issued(p)
  BY <1>2 DEF Issued
<1>12. ASSUME NEW p \in Procs PROVE ProcOK(p) /\ TrueExit(p)
  <2>1. /\ pc[p] = "start" /\ sock[p] = "none" /\ up[p] = <<>> /\ down[p] = <<>> /\ highest[p] = 0
        /\ num[p] = 0 /\ exit[p] = "none"
    BY <1>2
  <2>2. SockOK(pc[p], sock[p], up[p], down[p], highest[p], num[p], Counter, through, Kinds(p))
    BY <1>3, <2>1 DEF SockOK
  <2> QED
    BY <1>3, <1>11, <2>1, <2>2 DEF ProcOK, Refusal, TrueExit
<1> QED
  BY <1>1, <1>4, <1>10, <1>11, <1>12 DEF ExitInv, Distinct

\* An exit that claims nothing.
LEMMA ModestExit ==
  ASSUME ExitInv, NumberTypes', NEW p \in Procs, NEW why \in Modest, Exit(p, why),
         UNCHANGED <<reads, num, out, log, through, ahead, done, refused, drawn, reused,
                     resumed, resynced, missed>>
  PROVE  ExitInv'
<1>1. Gone(p, "done") /\ exit' = [exit EXCEPT ![p] = why] /\ "done" \in Ended
  BY DEF Exit, Ended
<1>2. exit'[p] = why
  BY <1>1 DEF ExitInv, WireTypes
<1>3. TrueExit(p)'
  BY <1>2 DEF TrueExit, Modest
<1> QED
  BY <1>1, <1>3, GoneKeeps

\* Every step keeps the invariant.
LEMMA NextExit == ExitInv /\ LateInv /\ [Next]_vars => ExitInv'
<1> SUFFICES ASSUME ExitInv, LateInv, [Next]_vars PROVE ExitInv'
  OBVIOUS
<1>0. NumberTypes /\ NumberTypes'
  BY NextTypes DEF ExitInv
<1> USE <1>0
<1>1. ASSUME NEW p \in Procs, Start(p) PROVE ExitInv'
  <2>1. /\ pc[p] = "start"
        /\ UNCHANGED <<reads, num, out, log, through, ahead, done, refused, drawn, reused,
                       resumed, resynced, missed>>
    BY <1>1 DEF Start, setting, daemon, outcomes, numbering, rejoined
  <2>2. CASE Exit(p, "unpaired")
    BY <2>1, <2>2, ModestExit DEF Modest
  <2>3. CASE Connect(p) /\ UNCHANGED <<exit, memory>>
    BY <2>1, <2>3, ConnectKeeps DEF memory
  <2> QED
    BY <1>1, <2>2, <2>3 DEF Start
<1>2. ASSUME NEW p \in Procs, OnClose(p) PROVE ExitInv'
  <2>1. /\ pc[p] \in {"open", "wait"}
        /\ UNCHANGED <<reads, num, out, log, through, ahead, done, refused, drawn, reused,
                       resumed, resynced, missed>>
    BY <1>2 DEF OnClose, setting, daemon, outcomes, numbering, rejoined
  <2>2. CASE Exit(p, "unreachable") \/ Exit(p, "gaveup")
    BY <2>1, <2>2, ModestExit DEF Modest
  <2>3. CASE Connect(p) /\ UNCHANGED <<exit, ever, highest>>
    BY <2>1, <2>3, ConnectKeeps
  <2> QED
    BY <1>2, <2>2, <2>3 DEF OnClose
<1>3. ASSUME NEW p \in Procs, ReceiveSalt(p) PROVE ExitInv'
  BY <1>3, SaltKeeps
<1>4. ASSUME NEW p \in Procs, Receive(p) PROVE ExitInv'
  BY <1>4, ReceiveKeeps
<1>5. ASSUME NEW p \in Procs, Acquire(p) PROVE ExitInv'
  <2>1. /\ pc[p] = "try" /\ pc' = [pc EXCEPT ![p] = "load"]
        /\ UNCHANGED <<reads, num, exit, highest, sock, up, down, out, log, through, ahead, done,
                       refused, drawn, reused, resumed, resynced, missed>>
    BY <1>5 DEF Acquire, Goto, setting, memory, net, daemon, outcomes, numbering, rejoined
  <2> QED
    BY <2>1, FileStepKeeps DEF FileStep
<1>6. ASSUME NEW p \in Procs, Busy(p) PROVE ExitInv'
  <2>1. /\ pc[p] = "try"
        /\ UNCHANGED <<reads, num, out, log, through, ahead, done, refused, drawn, reused,
                       resumed, resynced, missed>>
    BY <1>6 DEF Busy, setting, daemon, outcomes, numbering, rejoined
  <2>2. CASE Goto(p, "unlink") /\ UNCHANGED <<exit, memory, net>>
    <3>1. /\ pc' = [pc EXCEPT ![p] = "unlink"] /\ UNCHANGED <<exit, highest, sock, up, down>>
      BY <2>2 DEF Goto, memory, net
    <3> QED
      BY <2>1, <3>1, FileStepKeeps DEF FileStep
  <2>3. CASE Exit(p, "locked")
    BY <2>1, <2>3, ModestExit DEF Modest
  <2> QED
    BY <1>6, <2>2, <2>3 DEF Busy
<1>7. ASSUME NEW p \in Procs, Unlink(p) PROVE ExitInv'
  <2>1. /\ pc[p] = "unlink"
        /\ UNCHANGED <<reads, num, out, log, through, ahead, done, refused, drawn, reused,
                       resumed, resynced, missed>>
    BY <1>7 DEF Unlink, setting, daemon, outcomes, rejoined
  <2>2. CASE Goto(p, "try") /\ UNCHANGED <<exit, memory, net>>
    <3>1. /\ pc' = [pc EXCEPT ![p] = "try"] /\ UNCHANGED <<exit, highest, sock, up, down>>
      BY <2>2 DEF Goto, memory, net
    <3> QED
      BY <2>1, <3>1, FileStepKeeps DEF FileStep
  <2>3. CASE Exit(p, "locked")
    BY <2>1, <2>3, ModestExit DEF Modest
  <2> QED
    BY <1>7, <2>2, <2>3 DEF Unlink
<1>8. ASSUME NEW p \in Procs, Load(p) PROVE ExitInv'
  <2>1. /\ pc[p] = "load" /\ pc' = [pc EXCEPT ![p] = "save"]
        /\ num' = [num EXCEPT ![p] = (IF store = Torn THEN 0 ELSE store) + 1]
        /\ UNCHANGED <<reads, exit, highest, sock, up, down, out, log, through, ahead, done,
                       refused, drawn, reused, resumed, resynced, missed>>
    BY <1>8 DEF Load, Goto, setting, memory, net, daemon, outcomes, numbering, rejoined
  <2>2. num'[p] # 0 /\ \A q \in Procs \ {p} : num'[q] = num[q]
    BY <2>1 DEF NumberTypes, Torn
  <2>3. FileStep(p, "save")
    BY <2>1, <2>2 DEF FileStep
  <2> QED
    BY <2>3, FileStepKeeps
<1>9. ASSUME NEW p \in Procs, Save(p) PROVE ExitInv'
  <2>1. /\ pc[p] = "save" /\ \E next \in {"free", "write"} : pc' = [pc EXCEPT ![p] = next]
        /\ UNCHANGED <<reads, num, exit, highest, sock, up, down, out, log, through, ahead, done,
                       refused, drawn, reused, resumed, resynced, missed>>
    BY <1>9 DEF Save, Goto, setting, memory, net, daemon, outcomes, numbering, rejoined
  <2>2. PICK next \in {"free", "write"} : pc' = [pc EXCEPT ![p] = next]
    BY <2>1
  <2>3. /\ pc[p] \in {"try", "unlink", "load", "save", "write"}
        /\ next \in {"try", "unlink", "load", "save", "write", "free"}
        /\ num'[p] # 0 /\ \A q \in Procs \ {p} : num'[q] = num[q]
    BY <2>1, <2>2 DEF ExitInv, ProcOK, SockOK
  <2>4. FileStep(p, next)
    BY <2>1, <2>2, <2>3 DEF FileStep
  <2> QED
    BY <2>4, FileStepKeeps
<1>10. ASSUME NEW p \in Procs, Write(p) PROVE ExitInv'
  <2>1. /\ pc[p] = "write" /\ pc' = [pc EXCEPT ![p] = "free"]
        /\ UNCHANGED <<reads, num, exit, highest, sock, up, down, out, log, through, ahead, done,
                       refused, drawn, reused, resumed, resynced, missed>>
    BY <1>10 DEF Write, Goto, setting, memory, net, daemon, outcomes, numbering, rejoined
  <2>2. /\ pc[p] \in {"try", "unlink", "load", "save", "write"}
        /\ num'[p] # 0 /\ \A q \in Procs \ {p} : num'[q] = num[q]
    BY <2>1 DEF ExitInv, ProcOK, SockOK
  <2>3. FileStep(p, "free")
    BY <2>1, <2>2 DEF FileStep
  <2> QED
    BY <2>3, FileStepKeeps
<1>11. ASSUME NEW p \in Procs, Free(p) PROVE ExitInv'
  BY <1>11, FreeKeeps
<1>12. ASSUME NEW p \in Procs, DaemonHello(p) PROVE ExitInv'
  BY <1>12, HelloKeeps
<1>13. ASSUME NEW p \in Procs, DaemonFrame(p) PROVE ExitInv'
  BY <1>13, FrameKeeps
<1>14. ASSUME NEW p \in Procs, Drop(p) PROVE ExitInv'
  BY <1>14, DropKeeps
<1>15. ASSUME NEW p \in Procs, Kill(p) PROVE ExitInv'
  <2>1. /\ pc[p] \notin Ended /\ Gone(p, "killed") /\ "killed" \in Ended
        /\ UNCHANGED <<reads, exit, num, out, log, through, ahead, done, refused, drawn, reused,
                       resumed, resynced, missed>>
    BY <1>15 DEF Kill, setting, daemon, outcomes, rejoined, Ended
  <2>2. TrueExit(p)'
    BY <2>1 DEF ExitInv, TrueExit
  <2> QED
    BY <2>1, <2>2, GoneKeeps
<1>16. CASE Publish
  BY <1>16, PublishKeeps
<1>17. CASE Restart
  BY <1>17, RestartKeeps
<1>18. ASSUME NEW p \in Procs, NEW m \in DOMAIN late[p], LateHello(p, m) PROVE ExitInv'
  BY <1>18, LateHelloKeeps DEF LateInv
<1>19. ASSUME NEW p \in Procs, NEW m \in DOMAIN late[p], LateFrame(p, m) PROVE ExitInv'
  BY <1>19, LateFrameKeeps DEF LateInv
<1>20. CASE Age \/ UNCHANGED vars
  <2>1. UNCHANGED <<reads, pc, exit, num, highest, sock, up, down, out, log, through, ahead, done,
                    refused, drawn, reused, resumed, resynced, missed>>
    BY <1>20 DEF Age, vars, setting, host, memory, net, daemon, outcomes, numbering, rejoined
  <2> QED
    BY <2>1, IdleKeeps
<1> QED
  BY <1>1, <1>2, <1>3, <1>4, <1>5, <1>6, <1>7, <1>8, <1>9, <1>10, <1>11, <1>12, <1>13, <1>14,
     <1>15, <1>16, <1>17, <1>18, <1>19, <1>20 DEF Next, ProcStep, LockStep, DaemonStep

----------------------------------------------------------------------------
(* What is in flight on the connections that were given up.                *)

\* Nothing is drawn, and who waits for a number has waited for it before.
Calm ==
  /\ drawn' = drawn /\ reused' = reused
  /\ \A q \in Procs : Issued(q)' => Issued(q) /\ num'[q] = num[q]

\* A number that is waited for anew was not drawn before, or that is noted.
LEMMA StepsFresh ==
  ASSUME ExitInv, [Next]_vars
  PROVE  drawn \subseteq drawn' /\ reused \subseteq reused' /\ \A q \in Procs : Fresh(q)
<1>0. /\ NumberTypes
      /\ pc \in [Procs -> {"start", "open", "try", "unlink", "wait"} \cup Inside \cup Ended]
  BY DEF ExitInv, NumberTypes
<1> USE DEF Calm, Issued, Goto, Gone, Exit, Connect, Ended
<1>1. ASSUME NEW p \in Procs, Start(p) PROVE Calm
  <2>1. num[p] = 0
    BY <1>1 DEF Start, ExitInv, ProcOK, SockOK
  <2> QED
    BY <1>0, <1>1, <2>1 DEF Start, setting, numbering
<1>2. ASSUME NEW p \in Procs, OnClose(p) PROVE Calm
  BY <1>0, <1>2 DEF OnClose, setting, numbering
<1>3. ASSUME NEW p \in Procs, ReceiveSalt(p) PROVE Calm
  BY <1>0, <1>3 DEF ReceiveSalt, OnReady, setting, numbering
<1>4. ASSUME NEW p \in Procs, Receive(p) PROVE Calm
  BY <1>0, <1>4 DEF Receive, setting, numbering
<1>5. ASSUME NEW p \in Procs, Acquire(p) \/ Busy(p) \/ Save(p) \/ Write(p) PROVE Calm
  BY <1>0, <1>5 DEF Acquire, Busy, Save, Write, setting, numbering
<1>6. ASSUME NEW p \in Procs, Unlink(p) \/ Kill(p) PROVE Calm
  BY <1>0, <1>6 DEF Unlink, Kill, setting
<1>7. ASSUME NEW p \in Procs, Load(p) PROVE Calm
  BY <1>0, <1>7 DEF Load, setting, numbering, NumberTypes
<1>8. CASE \/ \E p \in Procs : DaemonStep(p) \/ Drop(p)
           \/ \E p \in Procs : \E m \in DOMAIN late[p] : LateHello(p, m) \/ LateFrame(p, m)
           \/ Age \/ Publish \/ Restart \/ UNCHANGED vars
  <2>1. UNCHANGED <<setting, host, numbering>>
    BY <1>8 DEF DaemonStep, DaemonHello, DaemonFrame, Drop, LateHello, LateFrame, Age, Publish,
       Restart, vars
  <2>2. UNCHANGED <<reads, pc, num, drawn, reused>>
    BY <2>1 DEF setting, host, numbering
  <2>3. \A q \in Procs : Fresh(q)
    BY <2>2 DEF Fresh
  <2> QED
    BY <2>2, <2>3
<1>9. ASSUME NEW p \in Procs, Free(p)
      PROVE  drawn \subseteq drawn' /\ reused \subseteq reused' /\ \A q \in Procs : Fresh(q)
  <2>1. /\ drawn' = drawn \cup {num[p]} /\ num' = num /\ reads' = reads
        /\ reused' = IF num[p] \in drawn THEN reused \cup {num[p]} ELSE reused
        /\ pc' = [pc EXCEPT ![p] = "wait"]
    BY <1>9 DEF Free, setting
  <2>2. \A q \in Procs \ {p} : pc'[q] = pc[q]
    BY <1>0, <2>1
  <2> QED
    BY <2>1, <2>2 DEF Fresh
<1>10. ASSUME Calm
       PROVE  drawn \subseteq drawn' /\ reused \subseteq reused' /\ \A q \in Procs : Fresh(q)
  BY <1>10 DEF Fresh
<1> HIDE DEF Calm
<1> QED
  BY <1>1, <1>2, <1>3, <1>4, <1>5, <1>6, <1>7, <1>8, <1>9, <1>10 DEF Next, ProcStep, LockStep

\* What is in a bag that one element was added to, or taken from.
LEMMA BagDomains ==
  /\ \A b, m : DOMAIN BagAdd(b, m) \subseteq DOMAIN b \cup {m}
  /\ \A b, m : DOMAIN BagRemove(b, m) \subseteq DOMAIN b
  /\ DOMAIN EmptyBag = {}
BY DEF BagAdd, BagRemove, EmptyBag, SetToBag

\* The counter never falls while the daemon runs.
LEMMA RecordGrows ==
  ASSUME WireTypes, NEW S, NEW evs \in Seq(S), NEW a \in Seq(S), Record(evs \o a)
  PROVE  Counter <= Counter'
<1>1. Len(evs \o a) \in Nat
  BY ConcatProperties, LenProperties
<1>2. Counter \in Nat /\ out' = Counter + Len(evs \o a)
  BY CounterType DEF Record
<1> QED
  BY <1>1, <1>2 DEF Counter, NoStream

\* What a step may do to what p left in flight and to its checkpoint.
LateEffect(p) ==
  \/ DOMAIN late'[p] = {}
  \/ /\ DOMAIN late'[p] \subseteq
          DOMAIN late[p] \cup {m \in {Head(up[p])} : up[p] # <<>>}
     /\ \/ highest'[p] <= Counter'
        \/ highest'[p] = highest[p] /\ Counter <= Counter'

\* A frame that p leaves in flight when it gives up its connection was sent to this daemon.
LEMMA LateKeeps ==
  ASSUME ExitInv, WireTypes', NEW p \in Procs, LateOK(p), LateEffect(p),
         drawn \subseteq drawn', reused \subseteq reused', \A q \in Procs : Fresh(q)
  PROVE  LateOK(p)'
<1>1. NumberTypes /\ WireTypes /\ ProcOK(p)
  BY DEF ExitInv
<1>2. Counter \in Nat /\ Counter' \in Nat /\ highest[p] \in Nat /\ highest'[p] \in Nat
  BY <1>1, CounterType DEF WireTypes, Counter
<1> SUFFICES ASSUME NEW m \in DOMAIN late'[p]
             PROVE  /\ m \in Msgs
                    /\ m.t = "command" => m \in Cmds(p)' /\ highest'[p] <= Counter'
  BY DEF LateOK
<1>3. Cmds(p) \subseteq Cmds(p)'
  <2> SUFFICES ASSUME NEW c \in Cmds(p) PROVE c \in Cmds(p)'
    OBVIOUS
  <2>1. /\ c \in Msgs /\ c.t = "command" /\ c.n \in drawn \ {0}
        /\ \A q \in Procs \ {p} : Issued(q) /\ num[q] = c.n => c.n \in reused
    BY DEF Cmds
  <2>2. ASSUME NEW q \in Procs \ {p}, Issued(q)', num'[q] = c.n PROVE c.n \in reused'
    BY <2>1, <2>2 DEF Fresh
  <2> QED
    BY <2>1, <2>2 DEF Cmds
<1>4. ASSUME m \in Msgs, m.t = "command" => m \in Cmds(p) /\ highest[p] <= Counter
      PROVE  m \in Msgs /\ (m.t = "command" => m \in Cmds(p)' /\ highest'[p] <= Counter')
  <2>1. highest[p] <= Counter => highest'[p] <= Counter'
    BY <1>2 DEF LateEffect
  <2> QED
    BY <1>3, <1>4, <2>1
<1>5. CASE m \in DOMAIN late[p]
  BY <1>4, <1>5 DEF LateOK
<1>6. CASE m \notin DOMAIN late[p]
  <2>1. m = Head(up[p]) /\ up[p] # <<>>
    BY <1>6 DEF LateEffect
  <2>2. up[p] \in Seq(Msgs)
    BY <1>1 DEF WireTypes
  <2>3. m \in Msgs
    BY <2>1, <2>2, HeadTailProperties
  <2>4. SockOK(pc[p], sock[p], up[p], down[p], highest[p], num[p], Counter, through, Kinds(p))
    BY <1>1 DEF ProcOK
  <2>5. sock[p] = "up"
    BY <2>1, <2>4 DEF SockOK
  <2>6. CASE pc[p] = "open"
    <3>1. up[p] = <<Hello(highest[p])>>
      BY <2>1, <2>4, <2>5, <2>6 DEF SockOK, Hailing, Salted
    <3>2. m.t = "hello"
      BY <2>1, <3>1 DEF Hello
    <3> QED
      BY <2>3, <3>2
  <2>7. CASE pc[p] # "open"
    <3>1. up[p] \in Seq(Cmds(p)) /\ highest[p] <= Counter
      BY <1>1, <2>4, <2>5, <2>7 DEF ProcOK, SockOK
    <3>2. m \in Cmds(p)
      BY <2>1, <3>1, HeadTailProperties
    <3> QED
      BY <1>4, <2>3, <3>1, <3>2
  <2> QED
    BY <2>6, <2>7
<1> QED
  BY <1>5, <1>6

\* Every step keeps what holds of the frames in flight.
LEMMA NextLate == ExitInv /\ LateInv /\ [Next]_vars => LateInv'
<1> SUFFICES ASSUME ExitInv, LateInv, [Next]_vars PROVE LateInv'
  OBVIOUS
<1>0. /\ NumberTypes /\ WireTypes /\ Counter \in Nat
      /\ DOMAIN late = Procs /\ DOMAIN highest = Procs
      /\ \A q \in Procs : highest[q] \in Nat
  BY CounterType DEF ExitInv, LateInv, WireTypes
<1> DEFINE Harmless == DOMAIN late' = Procs /\ \A q \in Procs : LateEffect(q)
<1>1. ASSUME NEW p \in Procs, out' = out,
             \/ late' = late
             \/ late' = [late EXCEPT ![p] = IF up[p] = <<>> THEN @ ELSE BagAdd(@, Head(up[p]))],
             \/ highest' = highest
             \/ \E v : v <= Counter /\ highest' = [highest EXCEPT ![p] = v]
      PROVE  Harmless
  <2>1. Counter' = Counter
    BY <1>1 DEF Counter
  <2>2. ASSUME NEW q \in Procs
        PROVE  DOMAIN late'[q] \subseteq DOMAIN late[q] \cup {m \in {Head(up[q])} : up[q] # <<>>}
    BY <1>0, <1>1, BagDomains
  <2>3. ASSUME NEW q \in Procs PROVE highest'[q] <= Counter \/ highest'[q] = highest[q]
    BY <1>0, <1>1
  <2>4. DOMAIN late' = Procs
    BY <1>0, <1>1
  <2> QED
    BY <1>0, <2>1, <2>2, <2>3, <2>4 DEF LateEffect
<1>2. ASSUME highest' = highest, Counter <= Counter',
             \/ late' = late
             \/ \E p \in Procs : \E m : late' = [late EXCEPT ![p] = BagRemove(@, m)]
      PROVE  Harmless
  <2>1. ASSUME NEW q \in Procs PROVE DOMAIN late'[q] \subseteq DOMAIN late[q]
    BY <1>0, <1>2, BagDomains
  <2>2. DOMAIN late' = Procs
    BY <1>0, <1>2
  <2> QED
    BY <1>2, <2>1, <2>2 DEF LateEffect
<1> HIDE DEF Harmless
<1>3. ASSUME NEW p \in Procs, NEW how, Gone(p, how), out' = out PROVE Harmless
  <2>1. 0 <= Counter /\ highest' = [highest EXCEPT ![p] = 0]
    BY <1>0, <1>3 DEF Gone
  <2>2. late' = [late EXCEPT ![p] = IF up[p] = <<>> THEN @ ELSE BagAdd(@, Head(up[p]))]
    BY <1>3 DEF Gone, Hang
  <2> QED
    BY <1>1, <1>3, <2>1, <2>2
<1>4. ASSUME NEW p \in Procs, NEW why, Exit(p, why), out' = out PROVE Harmless
  BY <1>3, <1>4 DEF Exit
<1>5. ASSUME NEW p \in Procs, Start(p) PROVE Harmless
  <2>1. out' = out
    BY <1>5 DEF Start, daemon
  <2>2. CASE Exit(p, "unpaired")
    BY <1>4, <2>1, <2>2
  <2>3. CASE UNCHANGED <<memory, late>>
    BY <1>1, <2>1, <2>3 DEF memory
  <2> QED
    BY <1>5, <2>2, <2>3 DEF Start
<1>6. ASSUME NEW p \in Procs, OnClose(p) PROVE Harmless
  <2>1. out' = out
    BY <1>6 DEF OnClose, daemon
  <2>2. CASE Exit(p, "unreachable") \/ Exit(p, "gaveup")
    BY <1>4, <2>1, <2>2
  <2>3. CASE UNCHANGED <<highest, late>>
    BY <1>1, <2>1, <2>3
  <2> QED
    BY <1>6, <2>2, <2>3 DEF OnClose
<1>7. ASSUME NEW p \in Procs, ReceiveSalt(p) PROVE Harmless
  <2>1. out' = out /\ late' = late
    BY <1>7 DEF ReceiveSalt, daemon
  <2>2. highest' = highest \/ highest' = [highest EXCEPT ![p] = 0]
    <3>1. \/ highest' = [highest EXCEPT ![p] = 0]
          \/ highest' = [highest EXCEPT ![p] = highest[p]]
      BY <1>7 DEF ReceiveSalt
    <3> QED
      BY <1>0, <3>1 DEF WireTypes
  <2> QED
    BY <1>0, <1>1, <2>1, <2>2
<1>8. ASSUME NEW p \in Procs, Receive(p) PROVE Harmless
  <2>1. out' = out /\ pc[p] = "wait" /\ down[p] # <<>>
    BY <1>8 DEF Receive, daemon
  <2>2. CASE \E why : Exit(p, why)
    BY <1>4, <2>1, <2>2
  <2>3. CASE /\ late' = late
             /\ highest' = [highest EXCEPT
                              ![p] = IF Head(down[p]).seq > @ THEN Head(down[p]).seq ELSE @]
    <3>1. down[p] \in Seq(Good(Counter, through, Kinds(p)))
      BY <2>1 DEF ExitInv, ProcOK, SockOK
    <3>2. Head(down[p]) \in Good(Counter, through, Kinds(p))
      BY <2>1, <3>1, HeadTailProperties
    <3>3. Head(down[p]).seq <= Counter
      BY <3>2 DEF Good
    <3>4. \/ highest' = [highest EXCEPT ![p] = Head(down[p]).seq]
          \/ highest' = [highest EXCEPT ![p] = highest[p]]
      BY <2>3
    <3>5. highest' = highest \/ highest' = [highest EXCEPT ![p] = Head(down[p]).seq]
      BY <1>0, <3>4 DEF WireTypes
    <3> QED
      BY <1>1, <2>1, <2>3, <3>3, <3>5
  <2> QED
    BY <1>8, <2>2, <2>3 DEF Receive
<1>9. ASSUME NEW p \in Procs, LockStep(p) PROVE Harmless
  <2>1. out' = out
    BY <1>9 DEF LockStep, Acquire, Busy, Unlink, Load, Save, Write, Free, daemon
  <2>2. CASE Exit(p, "locked")
    BY <1>4, <2>1, <2>2
  <2>3. CASE late' = late /\ highest' = highest
    BY <1>1, <2>1, <2>3
  <2> QED
    BY <1>9, <2>2, <2>3 DEF LockStep, Acquire, Busy, Unlink, Load, Save, Write, Free, memory, net
<1>10. ASSUME NEW p \in Procs, Drop(p) PROVE Harmless
  <2>1. out' = out /\ highest' = highest
    BY <1>10 DEF Drop, daemon, host, memory
  <2>2. late' = [late EXCEPT ![p] = IF up[p] = <<>> THEN @ ELSE BagAdd(@, Head(up[p]))]
    BY <1>10 DEF Drop, Hang
  <2> QED
    BY <1>1, <2>1, <2>2
<1>11. ASSUME NEW p \in Procs, Kill(p) PROVE Harmless
  <2>1. out' = out /\ Gone(p, "killed")
    BY <1>11 DEF Kill, daemon
  <2> QED
    BY <1>3, <2>1
<1>12. \A S, a : <<>> \in Seq(S) /\ (a \in S => <<a>> \in Seq(S))
  BY EmptySeq
<1>13. ASSUME NEW k, Record(Welcome(k)) PROVE Counter <= Counter'
  <2> DEFINE S == {Event, Ack(through)}
             first == IF Resumes(k) THEN <<>> ELSE <<Event>>
  <2>1. first \in Seq(S) /\ AckOf(through) \in Seq(S)
    BY <1>12 DEF AckOf
  <2>2. Record(first \o AckOf(through))
    BY <1>13 DEF Welcome
  <2> HIDE DEF S, first
  <2> QED
    BY <1>0, <2>1, <2>2, RecordGrows
<1>14. ASSUME NEW p, NEW evs \in {<<>>, <<Reply(p)>>, <<Error(p)>>},
              Record(evs \o AckOf(through'))
       PROVE  Counter <= Counter'
  <2> DEFINE S == {Reply(p), Error(p), Ack(through')}
  <2>1. evs \in Seq(S) /\ AckOf(through') \in Seq(S)
    BY <1>12 DEF AckOf
  <2> HIDE DEF S
  <2> QED
    BY <1>0, <1>14, <2>1, RecordGrows
<1>15. ASSUME NEW p \in Procs, DaemonHello(p) PROVE Harmless
  <2>1. late' = late /\ highest' = highest /\ Record(Welcome(Head(up[p]).n))
    BY <1>15 DEF DaemonHello, host, memory
  <2> QED
    BY <1>2, <1>13, <2>1
<1>16. ASSUME NEW p \in Procs, DaemonFrame(p) PROVE Harmless
  <2>1. late' = late /\ highest' = highest
    BY <1>16 DEF DaemonFrame, host, memory
  <2>2. \/ UNCHANGED daemon
        \/ \E evs \in {<<>>, <<Reply(p)>>, <<Error(p)>>} : Record(evs \o AckOf(through'))
    BY <1>16 DEF DaemonFrame
  <2>3. Counter <= Counter'
    <3>1. CASE UNCHANGED daemon
      BY <1>0, <3>1 DEF daemon, Counter
    <3>2. ASSUME NEW evs \in {<<>>, <<Reply(p)>>, <<Error(p)>>}, Record(evs \o AckOf(through'))
          PROVE  Counter <= Counter'
      BY <1>14, <3>2
    <3> QED
      BY <2>2, <3>1, <3>2
  <2> QED
    BY <1>2, <2>1, <2>3
<1>17. ASSUME NEW p \in Procs, NEW m \in DOMAIN late[p], LateHello(p, m) PROVE Harmless
  <2>1. /\ late' = [late EXCEPT ![p] = BagRemove(@, m)] /\ highest' = highest
        /\ Record(Welcome(m.n))
    BY <1>17 DEF LateHello, ReadLate, host, memory
  <2> QED
    BY <1>2, <1>13, <2>1
<1>18. ASSUME NEW p \in Procs, NEW m \in DOMAIN late[p], LateFrame(p, m) PROVE Harmless
  <2>1. late' = [late EXCEPT ![p] = BagRemove(@, m)] /\ highest' = highest
    BY <1>18 DEF LateFrame, ReadLate, host, memory
  <2>2. \/ UNCHANGED daemon
        \/ \E evs \in {<<>>, <<Reply(p)>>, <<Error(p)>>} : Record(evs \o AckOf(through'))
    BY <1>18 DEF LateFrame
  <2>3. Counter <= Counter'
    <3>1. CASE UNCHANGED daemon
      BY <1>0, <3>1 DEF daemon, Counter
    <3>2. ASSUME NEW evs \in {<<>>, <<Reply(p)>>, <<Error(p)>>}, Record(evs \o AckOf(through'))
          PROVE  Counter <= Counter'
      BY <1>14, <3>2
    <3> QED
      BY <2>2, <3>1, <3>2
  <2> QED
    BY <1>2, <2>1, <2>3
<1>19. ASSUME Publish PROVE Harmless
  <2>1. late' = late /\ highest' = highest /\ Record(<<Event>>)
    BY <1>19 DEF Publish, host, memory
  <2>2. <<Event>> \in Seq({Event}) /\ <<>> \in Seq({Event})
    BY <1>12
  <2>3. <<Event>> \o <<>> = <<Event>>
    BY <2>2, ConcatEmptySeq
  <2>4. Record(<<Event>> \o <<>>)
    BY <2>1, <2>3
  <2>5. Counter <= Counter'
    BY <1>0, <2>2, <2>4, RecordGrows
  <2> QED
    BY <1>2, <2>1, <2>5
<1>20. ASSUME Restart PROVE Harmless
  <2>1. late' = [p \in Procs |-> EmptyBag]
    BY <1>20 DEF Restart
  <2> QED
    BY <2>1, BagDomains DEF LateEffect, Harmless
<1>21. ASSUME Age \/ UNCHANGED vars PROVE Harmless
  <2>1. late' = late /\ highest' = highest /\ out' = out
    BY <1>21 DEF Age, vars, net, host, memory, daemon
  <2> QED
    BY <1>0, <1>2, <2>1 DEF Counter
<1>22. Harmless
  BY <1>5, <1>6, <1>7, <1>8, <1>9, <1>10, <1>11, <1>15, <1>16, <1>17, <1>18, <1>19, <1>20, <1>21
     DEF Next, ProcStep, DaemonStep
<1>23. WireTypes'
  BY NextExit DEF ExitInv
<1>24. \A q \in Procs : LateOK(q)'
  <2> SUFFICES ASSUME NEW q \in Procs PROVE LateOK(q)'
    OBVIOUS
  <2>1. LateOK(q) /\ LateEffect(q)
    BY <1>22 DEF LateInv, Harmless
  <2> QED
    BY <1>23, <2>1, StepsFresh, LateKeeps
<1> QED
  BY <1>22, <1>24 DEF LateInv, Harmless

\* How a process exits is true, for any processes, whatever connections break, whoever is
\* killed and however often the daemon restarts: confirmed only if its command was
\* completed, refused or answered only by its own answer, with the named exceptions.
THEOREM ExitsAreTrue == Spec => []ExitIsTrue
<1>1. ExitInv => ExitIsTrue
  BY DEF ExitInv, TrueExit, ExitIsTrue
<1>2. Init => LateInv
  BY BagDomains DEF Init, LateInv, LateOK
<1> QED
  BY <1>1, <1>2, InitExit, NextExit, NextLate, PTL DEF Spec

============================================================================
