----------------------------- MODULE JobsProofs -----------------------------
(***************************************************************************)
(* Proofs about the job queue, for any finite set of jobs, any cap on      *)
(* sessions, any combination of failing writes and any number of failures  *)
(* and restarts.                                                           *)
(***************************************************************************)
EXTENDS Jobs, FiniteSetTheorems, SequenceTheorems, TLAPS

\* x is a member of the sequence q.
In(x, q) == \E i \in 1..Len(q) : q[i] = x

\* q has no member twice.
Distinct(q) == \A a, b \in 1..Len(q) : q[a] = q[b] => a = b

\* s is the end of q.
Suffix(s, q) == Len(s) <= Len(q) /\ \A i \in 1..Len(s) : s[i] = q[Len(q) - Len(s) + i]

TypeOK ==
  /\ alive \in BOOLEAN
  /\ ctx \in {"none", "command", "exit"}
  /\ scan \in Seq(Jobs) /\ live \in Seq(Jobs)
  /\ state \in [Jobs -> States] /\ row \in [Jobs -> States]
  /\ running \in Nat /\ throws \in Nat
  /\ fleet \subseteq Jobs /\ watched \subseteq Jobs
  /\ proc \in [Jobs -> {"none", "alive", "exited", "gone"}]
  /\ sessRow \in [Jobs -> {"none", "open", "ended"}]

\* A callback runs exactly while there are jobs to visit, and they are the newest ones
\* of the live map.
CallbackScans == (ctx = "none" <=> scan = <<>>) /\ Suffix(scan, live)

\* The live map has every job once, and every job that waits or runs.
LiveMap ==
  /\ Distinct(live)
  /\ \A i \in 1..Len(live) : state[live[i]] # "none"
  /\ \A j \in Jobs : state[j] \in {"queued", "running"} => In(j, live)

\* The exits the queue listens for are those of processes of running jobs; each has a
\* slot, and until a write fails every slot and every process is one of them.
SlotsOwned ==
  /\ \A j \in watched : state[j] = "running" /\ proc[j] \in {"alive", "exited"}
  /\ Cardinality(watched) <= running /\ running <= MaxConcurrent
  /\ throws = 0 => running = Cardinality(watched) /\ Processes = watched

\* While there is a slot, a job that waits is about to be visited.
WaitersAreScanned ==
  throws = 0 /\ running < MaxConcurrent =>
    \A j \in Jobs : state[j] = "queued" => In(j, scan)

\* Until a write fails, queue, fleet and tables agree in the middle of callbacks too.
TablesAgree ==
  throws = 0 /\ alive =>
    /\ row = state
    /\ fleet = watched
    /\ fleet = {j \in Jobs : sessRow[j] = "open"}

\* A daemon that is down keeps nothing in memory, and what it had not finished has
\* failed: the rows boot will close are those of jobs that were cut off.
DownIsEmpty ==
  ~alive =>
    /\ ctx = "none" /\ scan = <<>> /\ live = <<>> /\ running = 0
    /\ fleet = {} /\ watched = {}
    /\ \A j \in Jobs : proc[j] \in {"none", "gone"} /\ state[j] \notin {"queued", "running"}
    /\ throws = 0 => \A j \in Jobs :
         state[j] = IF row[j] \in {"queued", "running"} THEN "failed" ELSE row[j]

Safe ==
  /\ CallbackScans
  /\ LiveMap
  /\ SlotsOwned
  /\ WaitersAreScanned
  /\ FifoStart
  /\ TablesAgree
  /\ OpenRowHasLiveJob
  /\ DownIsEmpty

IInv == TypeOK /\ Safe

----------------------------------------------------------------------------
(* What the operations on the live map and on the scan do.                 *)

\* Deleting a job that is in the map closes up the places after it.
LEMMA WithoutPresent ==
  ASSUME NEW q \in Seq(Jobs), NEW j \in Jobs, In(j, q)
  PROVE  \E p \in 1..Len(q) :
           /\ q[p] = j
           /\ Without(q, j) \in Seq(Jobs)
           /\ Len(Without(q, j)) = Len(q) - 1
           /\ \A i \in 1..(Len(q) - 1) : Without(q, j)[i] = IF i < p THEN q[i] ELSE q[i + 1]
  <1> DEFINE p == CHOOSE i \in 1..Len(q) : q[i] = j
             s == SubSeq(q, 1, p - 1)
             t == SubSeq(q, p + 1, Len(q))
  <1>1. p \in 1..Len(q) /\ q[p] = j
    BY DEF In
  <1>2. Without(q, j) = s \o t
    BY DEF Without, In
  <1> HIDE DEF p
  <1>3. /\ s \in Seq(Jobs) /\ Len(s) = p - 1
        /\ \A i \in 1..(p - 1) : s[i] = q[i]
    <2>1. \A i \in 1..(p - 1) : q[i] \in Jobs
      BY <1>1
    <2>2. /\ s \in Seq(Jobs) /\ Len(s) = IF 1 <= p - 1 THEN p - 1 - 1 + 1 ELSE 0
          /\ \A i \in 1..(p - 1 - 1 + 1) : s[i] = q[1 + i - 1]
      BY <1>1, <2>1, SubSeqProperties
    <2> QED
      BY <1>1, <2>2
  <1>4. /\ t \in Seq(Jobs) /\ Len(t) = Len(q) - p
        /\ \A i \in 1..(Len(q) - p) : t[i] = q[p + i]
    <2>1. \A i \in (p + 1)..Len(q) : q[i] \in Jobs
      BY <1>1
    <2>2. /\ t \in Seq(Jobs) /\ Len(t) = IF p + 1 <= Len(q) THEN Len(q) - (p + 1) + 1 ELSE 0
          /\ \A i \in 1..(Len(q) - (p + 1) + 1) : t[i] = q[p + 1 + i - 1]
      BY <1>1, <2>1, SubSeqProperties
    <2> QED
      BY <1>1, <2>2
  <1> HIDE DEF s, t
  <1>5. /\ s \o t \in Seq(Jobs) /\ Len(s \o t) = Len(s) + Len(t)
        /\ \A i \in 1..(Len(s) + Len(t)) : (s \o t)[i] = IF i <= Len(s) THEN s[i] ELSE t[i - Len(s)]
    BY <1>3, <1>4, ConcatProperties
  <1>6. ASSUME NEW i \in 1..(Len(q) - 1)
        PROVE  (s \o t)[i] = IF i < p THEN q[i] ELSE q[i + 1]
    <2>1. CASE i < p
      BY <1>1, <1>3, <1>4, <1>5, <2>1
    <2>2. CASE ~(i < p)
      <3>1. (s \o t)[i] = t[i - (p - 1)]
        BY <1>1, <1>3, <1>4, <1>5, <2>2
      <3>2. i - (p - 1) \in 1..(Len(q) - p) /\ p + (i - (p - 1)) = i + 1
        BY <1>1, <2>2
      <3> QED
        BY <1>4, <2>2, <3>1, <3>2
    <2> QED
      BY <2>1, <2>2
  <1>7. Len(s \o t) = Len(q) - 1
    BY <1>1, <1>3, <1>4, <1>5
  <1> QED
    BY <1>1, <1>2, <1>5, <1>6, <1>7

\* Deleting a job keeps the others, each once and in the order they had.
LEMMA WithoutProperties ==
  ASSUME NEW q \in Seq(Jobs), NEW j \in Jobs, Distinct(q)
  PROVE  /\ Without(q, j) \in Seq(Jobs)
         /\ Distinct(Without(q, j))
         /\ \A x \in Jobs : In(x, Without(q, j)) <=> In(x, q) /\ x # j
         /\ \A m, n \in 1..Len(Without(q, j)) : m < n =>
              \E a, b \in 1..Len(q) :
                a < b /\ Without(q, j)[m] = q[a] /\ Without(q, j)[n] = q[b]
  <1>1. CASE ~In(j, q)
    <2>1. Without(q, j) = q
      BY <1>1 DEF Without, In
    <2> QED
      BY <1>1, <2>1 DEF In
  <1>2. CASE In(j, q)
    <2> DEFINE w == Without(q, j)
    <2>1. PICK p \in 1..Len(q) :
             /\ q[p] = j
             /\ w \in Seq(Jobs)
             /\ Len(w) = Len(q) - 1
             /\ \A i \in 1..(Len(q) - 1) : w[i] = IF i < p THEN q[i] ELSE q[i + 1]
      BY <1>2, WithoutPresent
    <2> HIDE DEF w
    <2>2. ASSUME NEW m \in 1..Len(w), NEW n \in 1..Len(w), m < n
          PROVE  \E a, b \in 1..Len(q) : a < b /\ w[m] = q[a] /\ w[n] = q[b]
      <3> DEFINE a == IF m < p THEN m ELSE m + 1
                 b == IF n < p THEN n ELSE n + 1
      <3>1. a \in 1..Len(q) /\ b \in 1..Len(q) /\ a < b
        BY <2>1, <2>2
      <3>2. w[m] = q[a] /\ w[n] = q[b]
        BY <2>1, <2>2
      <3> QED
        BY <3>1, <3>2
    <2>3. Distinct(w)
      <3> SUFFICES ASSUME NEW m \in 1..Len(w), NEW n \in 1..Len(w), m < n
                   PROVE  w[m] # w[n]
        BY <2>1 DEF Distinct
      <3>1. PICK a \in 1..Len(q), b \in 1..Len(q) : a < b /\ w[m] = q[a] /\ w[n] = q[b]
        BY <2>2
      <3> QED
        BY <3>1 DEF Distinct
    <2>4. ASSUME NEW x \in Jobs, In(x, w) PROVE In(x, q) /\ x # j
      <3>1. PICK i \in 1..Len(w) : w[i] = x
        BY <2>4 DEF In
      <3>2. PICK a \in 1..Len(q) : a # p /\ q[a] = x
        <4> DEFINE a == IF i < p THEN i ELSE i + 1
        <4>1. a \in 1..Len(q) /\ a # p /\ q[a] = x
          BY <2>1, <3>1
        <4> QED
          BY <4>1
      <3> QED
        BY <2>1, <3>2 DEF In, Distinct
    <2>5. ASSUME NEW x \in Jobs, In(x, q), x # j PROVE In(x, w)
      <3>1. PICK a \in 1..Len(q) : q[a] = x
        BY <2>5 DEF In
      <3>2. a # p
        BY <2>1, <2>5, <3>1
      <3> DEFINE i == IF a < p THEN a ELSE a - 1
      <3>3. i \in 1..Len(w) /\ w[i] = x
        BY <2>1, <3>1, <3>2
      <3> QED
        BY <3>3 DEF In
    <2> QED
      BY <2>1, <2>2, <2>3, <2>4, <2>5 DEF w
  <1> QED
    BY <1>1, <1>2

\* The job being visited is in the live map, and what is left to visit is the end of
\* the map, whether the job stays or leaves.
LEMMA ScanProperties ==
  ASSUME NEW s \in Seq(Jobs), NEW q \in Seq(Jobs), s # <<>>, Suffix(s, q), Distinct(q)
  PROVE  /\ Head(s) \in Jobs /\ In(Head(s), q) /\ In(Head(s), s)
         /\ Tail(s) \in Seq(Jobs)
         /\ Suffix(Tail(s), q)
         /\ Suffix(Tail(s), Without(q, Head(s)))
         /\ \A x : In(x, s) /\ x # Head(s) => In(x, Tail(s))
         /\ \A a, b \in 1..Len(q) : a < b /\ q[b] = Head(s) => ~In(q[a], s)
  <1>1. /\ Len(s) \in Nat \ {0} /\ Len(q) \in Nat /\ Len(s) <= Len(q)
        /\ Head(s) = s[1] /\ Head(s) \in Jobs
        /\ Tail(s) \in Seq(Jobs) /\ Len(Tail(s)) = Len(s) - 1
        /\ \A i \in 1..(Len(s) - 1) : Tail(s)[i] = s[i + 1]
    BY DEF Suffix
  <1> DEFINE h == Len(q) - Len(s) + 1
  <1>2. h \in 1..Len(q) /\ q[h] = Head(s)
    BY <1>1 DEF Suffix
  <1>3. In(Head(s), q) /\ In(Head(s), s)
    BY <1>1, <1>2 DEF In
  <1>4. Suffix(Tail(s), q)
    <2> SUFFICES ASSUME NEW i \in 1..(Len(s) - 1)
                 PROVE  Tail(s)[i] = q[Len(q) - (Len(s) - 1) + i]
      BY <1>1 DEF Suffix
    <2>1. Tail(s)[i] = s[i + 1] /\ i + 1 \in 1..Len(s)
      BY <1>1
    <2>2. s[i + 1] = q[Len(q) - Len(s) + (i + 1)]
      BY <2>1 DEF Suffix
    <2>3. Len(q) - Len(s) + (i + 1) = Len(q) - (Len(s) - 1) + i
      BY <1>1
    <2> QED
      BY <2>1, <2>2, <2>3
  <1>5. Suffix(Tail(s), Without(q, Head(s)))
    <2> DEFINE w == Without(q, Head(s))
    <2>1. PICK p \in 1..Len(q) :
             /\ q[p] = Head(s)
             /\ w \in Seq(Jobs)
             /\ Len(w) = Len(q) - 1
             /\ \A i \in 1..(Len(q) - 1) : w[i] = IF i < p THEN q[i] ELSE q[i + 1]
      BY <1>1, <1>3, WithoutPresent
    <2> HIDE DEF w
    <2>2. p = h
      BY <1>2, <2>1 DEF Distinct
    <2>3. ASSUME NEW i \in 1..(Len(s) - 1)
          PROVE  Tail(s)[i] = w[Len(w) - (Len(s) - 1) + i]
      <3>1. Tail(s)[i] = q[Len(q) - (Len(s) - 1) + i]
        BY <1>1, <1>4 DEF Suffix
      <3> DEFINE k == Len(q) - Len(s) + i
      <3>2. /\ k \in 1..(Len(q) - 1) /\ ~(k < p) /\ k = Len(w) - (Len(s) - 1) + i
            /\ k + 1 = Len(q) - (Len(s) - 1) + i
        BY <1>1, <2>1, <2>2
      <3> HIDE DEF k
      <3> QED
        BY <2>1, <3>1, <3>2
    <2> QED
      BY <1>1, <2>1, <2>3 DEF Suffix, w
  <1>6. ASSUME NEW x, In(x, s), x # Head(s) PROVE In(x, Tail(s))
    <2>1. PICK i \in 1..Len(s) : s[i] = x
      BY <1>6 DEF In
    <2>2. i # 1
      BY <1>1, <1>6, <2>1
    <2>3. i - 1 \in 1..(Len(s) - 1) /\ (i - 1) + 1 = i
      BY <1>1, <2>2
    <2>4. Tail(s)[i - 1] = x
      BY <1>1, <2>1, <2>3
    <2> QED
      BY <1>1, <2>3, <2>4 DEF In
  <1>7. ASSUME NEW a \in 1..Len(q), NEW b \in 1..Len(q), a < b, q[b] = Head(s), In(q[a], s)
        PROVE  FALSE
    <2>1. b = h
      BY <1>2, <1>7 DEF Distinct
    <2>2. PICK i \in 1..Len(s) : s[i] = q[a]
      BY <1>7 DEF In
    <2>3. Len(q) - Len(s) + i \in 1..Len(q) /\ q[Len(q) - Len(s) + i] = q[a]
      BY <1>1, <2>2 DEF Suffix
    <2>4. a = Len(q) - Len(s) + i
      BY <2>3 DEF Distinct
    <2> QED
      BY <1>1, <1>7, <2>1, <2>4
  <1> QED
    BY <1>1, <1>3, <1>4, <1>5, <1>6, <1>7

----------------------------------------------------------------------------
\* The initial state satisfies the invariant.
LEMMA InitIInv == Init => IInv
  <1> SUFFICES ASSUME Init PROVE IInv
    OBVIOUS
  <1> USE JobsAssumption DEF Init
  <1>1. TypeOK
    BY DEF TypeOK, States
  <1>2. Len(live) = 0 /\ Len(scan) = 0
    OBVIOUS
  <1>3. CallbackScans /\ LiveMap
    BY <1>2 DEF CallbackScans, LiveMap, Suffix, Distinct
  <1>4. SlotsOwned
    BY FS_EmptySet DEF SlotsOwned, Processes
  <1>5. WaitersAreScanned /\ FifoStart /\ TablesAgree /\ OpenRowHasLiveJob /\ DownIsEmpty
    BY <1>2 DEF WaitersAreScanned, FifoStart, TablesAgree, OpenRowHasLiveJob, DownIsEmpty
  <1> QED
    BY <1>1, <1>3, <1>4, <1>5 DEF IInv, Safe

\* A watched exit has a slot to give back.
LEMMA WatchedHasSlot ==
  ASSUME TypeOK, SlotsOwned, NEW j \in watched
  PROVE  /\ running \in Nat \ {0}
         /\ Cardinality(watched) \in Nat /\ IsFiniteSet(watched)
         /\ Cardinality(watched \ {j}) = Cardinality(watched) - 1
  <1>1. IsFiniteSet(watched) /\ Cardinality(watched) \in Nat
    BY JobsAssumption, FS_Subset, FS_CardinalityType DEF TypeOK
  <1>2. Cardinality(watched) # 0
    BY <1>1, FS_EmptySet
  <1>3. Cardinality(watched \ {j}) = Cardinality(watched) - 1
    BY <1>1, FS_RemoveElement
  <1> QED
    BY <1>1, <1>2, <1>3 DEF TypeOK, SlotsOwned

\* The job a callback visits.
LEMMA VisitedJob ==
  ASSUME TypeOK, CallbackScans, LiveMap, scan # <<>>
  PROVE  /\ Head(scan) \in Jobs /\ In(Head(scan), live)
         /\ Tail(scan) \in Seq(Jobs)
         /\ Without(live, Head(scan)) \in Seq(Jobs)
         /\ Suffix(Tail(scan), live)
         /\ Suffix(Tail(scan), Without(live, Head(scan)))
         /\ \A x : In(x, scan) /\ x # Head(scan) => In(x, Tail(scan))
  BY ScanProperties, WithoutProperties DEF TypeOK, CallbackScans, LiveMap

\* A job that ends, in a failed start or at the exit of its session, leaves the live map.
LEMMA JobLeaves ==
  ASSUME IInv, NEW j \in Jobs, NEW final \in {"done", "failed"}, In(j, live),
         SetState(j, final), SetRow(j, final), live' = Without(live, j),
         throws' = 0 => throws = 0, alive' = alive
  PROVE  /\ state' \in [Jobs -> States] /\ row' \in [Jobs -> States]
         /\ live' \in Seq(Jobs)
         /\ LiveMap' /\ FifoStart' /\ OpenRowHasLiveJob'
  <1> USE DEF IInv, Safe
  <1>1. /\ live' \in Seq(Jobs) /\ Distinct(live')
        /\ \A x \in Jobs : In(x, live') <=> In(x, live) /\ x # j
        /\ \A m, n \in 1..Len(live') : m < n =>
             \E a, b \in 1..Len(live) : a < b /\ live'[m] = live[a] /\ live'[n] = live[b]
    <2>1. live \in Seq(Jobs) /\ Distinct(live)
      BY DEF TypeOK, LiveMap
    <2>2. /\ Without(live, j) \in Seq(Jobs) /\ Distinct(Without(live, j))
          /\ \A x \in Jobs : In(x, Without(live, j)) <=> In(x, live) /\ x # j
          /\ \A m, n \in 1..Len(Without(live, j)) : m < n =>
               \E a, b \in 1..Len(live) :
                 a < b /\ Without(live, j)[m] = live[a] /\ Without(live, j)[n] = live[b]
      BY <2>1, WithoutProperties
    <2> QED
      BY <2>2
  <1>2. /\ state' = [state EXCEPT ![j] = final]
        /\ state' \in [Jobs -> States]
    BY DEF SetState, TypeOK, States
  <1>3. /\ row' \in [Jobs -> States] /\ row'[j] \in {"none", final}
        /\ \A x \in Jobs : x # j => row'[x] = row[x]
    BY DEF SetRow, TypeOK, States
  <1>4. \A i \in 1..Len(live') : live'[i] \in Jobs /\ live'[i] # j
    BY <1>1 DEF In
  <1>5. LiveMap'
    <2>1. \A i \in 1..Len(live') : state'[live'[i]] # "none"
      <3> SUFFICES ASSUME NEW i \in 1..Len(live') PROVE state[live'[i]] # "none"
        BY <1>2, <1>4 DEF TypeOK
      <3>1. In(live'[i], live)
        BY <1>1, <1>4 DEF In
      <3> QED
        BY <3>1 DEF In, LiveMap
    <2>2. \A x \in Jobs : state'[x] \in {"queued", "running"} => In(x, live')
      BY <1>1, <1>2 DEF LiveMap, TypeOK
    <2> QED
      BY <1>1, <2>1, <2>2 DEF LiveMap
  <1>6. FifoStart'
    <2> SUFFICES ASSUME throws = 0, NEW m \in 1..Len(live'), NEW n \in 1..Len(live'), m < n,
                        state'[live'[n]] = "running"
                 PROVE  state'[live'[m]] # "queued"
      BY DEF FifoStart
    <2>1. PICK a \in 1..Len(live), b \in 1..Len(live) :
             a < b /\ live'[m] = live[a] /\ live'[n] = live[b]
      BY <1>1
    <2>2. state[live[b]] = "running" /\ state'[live'[m]] = state[live[a]]
      BY <1>2, <1>4, <2>1 DEF TypeOK
    <2> QED
      BY <2>1, <2>2 DEF FifoStart
  <1>7. OpenRowHasLiveJob'
    <2> SUFFICES ASSUME alive, NEW x \in Jobs, row'[x] \in {"queued", "running"}
                 PROVE  In(x, live')
      BY DEF OpenRowHasLiveJob, In
    <2>1. x # j
      BY <1>3
    <2>2. In(x, live)
      BY <1>3, <2>1 DEF OpenRowHasLiveJob, In
    <2> QED
      BY <1>1, <2>1, <2>2
  <1> QED
    BY <1>1, <1>2, <1>3, <1>5, <1>6, <1>7

\* The daemon's death, whatever it did to a session's row.
LEMMA DaemonDies ==
  ASSUME IInv, alive, Die, UNCHANGED row
  PROVE  Safe'
  <1> USE JobsAssumption DEF IInv, Safe
  <1>1. /\ ctx' = "none" /\ scan' = <<>> /\ live' = <<>> /\ running' = 0
        /\ fleet' = {} /\ watched' = {} /\ throws' = throws
    BY DEF Die
  <1>2. Len(live') = 0 /\ Len(scan') = 0 /\ Len(live') \in Nat
    BY <1>1
  <1>3. ~alive'
    BY DEF Die
  <1>4. \A j \in Jobs :
          /\ proc'[j] \in {"none", "gone"}
          /\ state'[j] = IF state[j] \in {"queued", "running"} THEN "failed" ELSE state[j]
    BY DEF Die
  <1>5. CallbackScans'
    BY <1>1, <1>2 DEF CallbackScans, Suffix
  <1>6. LiveMap'
    BY <1>2, <1>4 DEF LiveMap, Distinct
  <1>7. SlotsOwned'
    <2>1. Processes' = {}
      BY <1>4 DEF Processes
    <2> QED
      BY <1>1, <2>1, FS_EmptySet DEF SlotsOwned
  <1>8. WaitersAreScanned'
    BY <1>4 DEF WaitersAreScanned
  <1>9. FifoStart'
    BY <1>2 DEF FifoStart
  <1>10. TablesAgree' /\ OpenRowHasLiveJob'
    BY <1>3 DEF TablesAgree, OpenRowHasLiveJob
  <1>11. DownIsEmpty'
    <2>1. \A j \in Jobs : proc'[j] \in {"none", "gone"} /\ state'[j] \notin {"queued", "running"}
      BY <1>4
    <2>2. throws' = 0 => row' = state
      BY <1>1 DEF TablesAgree
    <2>3. throws' = 0 => \A j \in Jobs :
            state'[j] = IF row'[j] \in {"queued", "running"} THEN "failed" ELSE row'[j]
      BY <1>4, <2>2
    <2> QED
      BY <1>1, <2>1, <2>3 DEF DownIsEmpty
  <1> QED
    BY <1>5, <1>6, <1>7, <1>8, <1>9, <1>10, <1>11

\* Every step keeps the types.
LEMMA NextType == IInv /\ [Next]_vars => TypeOK'
  <1> SUFFICES ASSUME IInv, [Next]_vars PROVE TypeOK'
    OBVIOUS
  <1> USE JobsAssumption DEF IInv, Safe, TypeOK, States
  <1>1. ASSUME NEW j \in Jobs, EnqueueRefused(j) PROVE TypeOK'
    BY <1>1 DEF EnqueueRefused, SetState, InsertRow, Throw
  <1>2. ASSUME NEW j \in Jobs, Enqueue(j) PROVE TypeOK'
    <2>1. live' \in Seq(Jobs) /\ scan' \in Seq(Jobs)
      <3>1. Append(live, j) \in Seq(Jobs) /\ <<j>> \in Seq(Jobs)
        BY <1>2
      <3> QED
        BY <1>2, <3>1 DEF Enqueue
    <2>2. state' \in [Jobs -> States] /\ row' \in [Jobs -> States]
      BY <1>2 DEF Enqueue, SetState, InsertRow
    <2>3. throws' \in Nat /\ ctx' \in {"none", "command", "exit"}
      BY <1>2 DEF Enqueue, Throw
    <2> QED
      BY <1>2, <2>1, <2>2, <2>3 DEF Enqueue
  <1>3. ASSUME NEW j \in Jobs, ProcEnds(j) PROVE TypeOK'
    BY <1>3 DEF ProcEnds, memory, tables
  <1>4. ASSUME NEW j \in Jobs, ExitUnheard(j) PROVE TypeOK'
    BY <1>4 DEF ExitUnheard, memory, tables
  <1>5. ASSUME NEW j \in Jobs, NEW final \in {"done", "failed"}, ExitHeard(j, final) PROVE TypeOK'
    <2>1. In(j, live) /\ running' \in Nat
      <3>1. j \in watched /\ running' = running - 1
        BY <1>5 DEF ExitHeard
      <3>2. running \in Nat \ {0}
        BY <3>1, WatchedHasSlot
      <3>3. In(j, live)
        BY <1>5, <3>1 DEF LiveMap, SlotsOwned
      <3> QED
        BY <3>1, <3>2, <3>3
    <2>2. state' \in [Jobs -> States] /\ row' \in [Jobs -> States] /\ live' \in Seq(Jobs)
      BY <1>5, <2>1, JobLeaves DEF ExitHeard
    <2>3. scan' \in Seq(Jobs) /\ ctx' \in {"none", "command", "exit"}
      BY <1>5, <2>2 DEF ExitHeard
    <2>4. proc' \in [Jobs -> {"none", "alive", "exited", "gone"}]
      BY <1>5 DEF ExitHeard
    <2>5. /\ fleet' \subseteq Jobs /\ watched' \subseteq Jobs
          /\ sessRow' \in [Jobs -> {"none", "open", "ended"}]
      BY <1>5 DEF ExitHeard, SessionEnds
    <2> QED
      BY <1>5, <2>1, <2>2, <2>3, <2>4, <2>5 DEF ExitHeard
  <1>6. CASE StartSkipped
    <2>1. Head(scan) \in Jobs /\ Tail(scan) \in Seq(Jobs)
      BY <1>6, VisitedJob DEF StartSkipped
    <2>2. scan' \in Seq(Jobs) /\ ctx' \in {"none", "command", "exit"}
      BY <1>6, <2>1 DEF StartSkipped, Continue
    <2> QED
      BY <1>6, <2>2 DEF StartSkipped, Continue, tables
  <1>7. CASE StartFails
    <2>1. Head(scan) \in Jobs /\ Tail(scan) \in Seq(Jobs)
      BY <1>7, VisitedJob DEF StartFails
    <2>2. scan' \in Seq(Jobs) /\ ctx' \in {"none", "command", "exit"}
      BY <1>7, <2>1 DEF StartFails, Continue
    <2>3. state' \in [Jobs -> States] /\ row' \in [Jobs -> States] /\ live' \in Seq(Jobs)
      BY <1>7, VisitedJob, JobLeaves DEF StartFails, Continue, Throw
    <2> QED
      BY <1>7, <2>2, <2>3 DEF StartFails, Continue, Throw
  <1>8. CASE StartRuns
    <2>1. Head(scan) \in Jobs /\ Tail(scan) \in Seq(Jobs)
      BY <1>8, VisitedJob DEF StartRuns
    <2>2. scan' \in Seq(Jobs) /\ ctx' \in {"none", "command", "exit"}
      BY <1>8, <2>1 DEF StartRuns, Continue
    <2>3. state' \in [Jobs -> States] /\ row' \in [Jobs -> States]
      BY <1>8, <2>1 DEF StartRuns, SetState, SetRow
    <2>4. /\ proc' \in [Jobs -> {"none", "alive", "exited", "gone"}]
          /\ sessRow' \in [Jobs -> {"none", "open", "ended"}]
          /\ fleet' \subseteq Jobs /\ watched' \subseteq Jobs
      BY <1>8, <2>1 DEF StartRuns, OnSession, Wire
    <2> QED
      BY <1>8, <2>2, <2>3, <2>4 DEF StartRuns, Continue
  <1>9. CASE StartLosesSlot
    <2>1. Head(scan) \in Jobs
      BY <1>9, VisitedJob DEF StartLosesSlot
    <2>2. scan' \in Seq(Jobs) /\ ctx' \in {"none", "command", "exit"}
      BY <1>9 DEF StartLosesSlot
    <2>3. state' \in [Jobs -> States]
      BY <1>9, <2>1 DEF StartLosesSlot, SetState
    <2> QED
      BY <1>9, <2>2, <2>3 DEF StartLosesSlot, Throw, tables
  <1>10. CASE StartLosesSession
    <2>1. Head(scan) \in Jobs /\ Tail(scan) \in Seq(Jobs)
      BY <1>10, VisitedJob DEF StartLosesSession
    <2>2. scan' \in Seq(Jobs) /\ ctx' \in {"none", "command", "exit"}
      BY <1>10, <2>1 DEF StartLosesSession, Continue
    <2>3. state' \in [Jobs -> States] /\ row' \in [Jobs -> States] /\ live' \in Seq(Jobs)
      BY <1>10, VisitedJob, JobLeaves DEF StartLosesSession, Continue, Throw
    <2>4. proc' \in [Jobs -> {"none", "alive", "exited", "gone"}]
      BY <1>10, <2>1 DEF StartLosesSession
    <2> QED
      BY <1>10, <2>2, <2>3, <2>4 DEF StartLosesSession, Continue, Throw
  <1>11. CASE StartFailsUnrecorded
    <2>1. Head(scan) \in Jobs
      BY <1>11, VisitedJob DEF StartFailsUnrecorded
    <2>2. scan' \in Seq(Jobs) /\ ctx' \in {"none", "command", "exit"}
      BY <1>11 DEF StartFailsUnrecorded
    <2>3. state' \in [Jobs -> States] /\ row' \in [Jobs -> States]
      BY <1>11, <2>1 DEF StartFailsUnrecorded, SetState, SetRow
    <2>4. proc' \in [Jobs -> {"none", "alive", "exited", "gone"}]
      BY <1>11, <2>1 DEF StartFailsUnrecorded
    <2> QED
      BY <1>11, <2>2, <2>3, <2>4 DEF StartFailsUnrecorded, Throw
  <1>12. CASE ExitThrows
    <2>1. /\ alive' \in BOOLEAN /\ ctx' = "none" /\ scan' = <<>> /\ live' = <<>>
          /\ running' = 0 /\ fleet' = {} /\ watched' = {} /\ throws' = throws
      BY <1>12 DEF ExitThrows, Die
    <2>2. scan' \in Seq(Jobs) /\ live' \in Seq(Jobs)
      BY <2>1
    <2>3. /\ state' \in [Jobs -> States]
          /\ proc' \in [Jobs -> {"none", "alive", "exited", "gone"}]
      BY <1>12 DEF ExitThrows, Die
    <2>4. sessRow' \in [Jobs -> {"none", "open", "ended"}]
      BY <1>12 DEF ExitThrows, tables
    <2> QED
      BY <1>12, <2>1, <2>2, <2>3, <2>4 DEF ExitThrows, tables
  <1>13. CASE Crash
    <2>1. /\ alive' \in BOOLEAN /\ ctx' = "none" /\ scan' = <<>> /\ live' = <<>>
          /\ running' = 0 /\ fleet' = {} /\ watched' = {} /\ throws' = throws
      BY <1>13 DEF Crash, Die
    <2>2. scan' \in Seq(Jobs) /\ live' \in Seq(Jobs)
      BY <2>1
    <2>3. /\ state' \in [Jobs -> States]
          /\ proc' \in [Jobs -> {"none", "alive", "exited", "gone"}]
      BY <1>13 DEF Crash, Die
    <2>4. sessRow' \in [Jobs -> {"none", "open", "ended"}]
      BY <1>13 DEF Crash, tables
    <2> QED
      BY <1>13, <2>1, <2>2, <2>3, <2>4 DEF Crash, tables
  <1>14. CASE Boot
    BY <1>14 DEF Boot, ReconcileSessions, ReconcileJobs, memory
  <1>15. CASE UNCHANGED vars
    BY <1>15 DEF vars, memory, tables
  <1> QED
    BY <1>1, <1>2, <1>3, <1>4, <1>5, <1>6, <1>7, <1>8,
       <1>9, <1>10, <1>11, <1>12, <1>13, <1>14, <1>15 DEF Next, TryStart

\* Every step keeps the safety part of the invariant.
LEMMA NextSafe == IInv /\ [Next]_vars => Safe'
  <1> SUFFICES ASSUME IInv, [Next]_vars PROVE Safe'
    OBVIOUS
  <1> USE JobsAssumption DEF IInv, Safe
  <1>1. ASSUME NEW j \in Jobs, EnqueueRefused(j) PROVE Safe'
    <2>1. CallbackScans'
      BY <1>1 DEF EnqueueRefused, SetState, InsertRow, Throw, CallbackScans, TypeOK, Suffix
    <2>2. LiveMap'
      BY <1>1 DEF EnqueueRefused, SetState, InsertRow, Throw, LiveMap, TypeOK
    <2>3. SlotsOwned'
      BY <1>1 DEF EnqueueRefused, SetState, InsertRow, Throw, SlotsOwned, Processes, TypeOK
    <2>4. WaitersAreScanned'
      BY <1>1 DEF EnqueueRefused, SetState, InsertRow, Throw, WaitersAreScanned, TypeOK,
         CallbackScans, In
    <2>5. FifoStart'
      BY <1>1 DEF EnqueueRefused, SetState, InsertRow, Throw, FifoStart, TypeOK
    <2>6. TablesAgree'
      BY <1>1 DEF EnqueueRefused, SetState, InsertRow, Throw, TablesAgree, TypeOK
    <2>7. OpenRowHasLiveJob'
      BY <1>1 DEF EnqueueRefused, SetState, InsertRow, Throw, OpenRowHasLiveJob, TypeOK
    <2>8. DownIsEmpty'
      BY <1>1 DEF EnqueueRefused, SetState, InsertRow, Throw, DownIsEmpty, TypeOK
    <2> QED
      BY <1>1, <2>1, <2>2, <2>3, <2>4, <2>5, <2>6, <2>7, <2>8
  <1>2. ASSUME NEW j \in Jobs, Enqueue(j) PROVE Safe'
    <2>1. /\ live' = Append(live, j) /\ live' \in Seq(Jobs) /\ Len(live) \in Nat
          /\ Len(live') = Len(live) + 1 /\ live'[Len(live) + 1] = j
          /\ \A i \in 1..Len(live) : live'[i] = live[i] /\ live[i] \in Jobs
      BY <1>2 DEF Enqueue, TypeOK
    <2>2. /\ state[j] = "none" /\ state' = [state EXCEPT ![j] = "queued"] /\ ~In(j, live)
          /\ \A x \in Jobs : x # j => state'[x] = state[x]
          /\ state'[j] = "queued"
      BY <1>2 DEF Enqueue, SetState, TypeOK, LiveMap, In
    <2>3. \A x \in Jobs : In(x, live') <=> x = j \/ In(x, live)
      <3>1. In(j, live')
        BY <2>1 DEF In
      <3>2. ASSUME NEW x \in Jobs, In(x, live) PROVE In(x, live')
        BY <2>1, <3>2 DEF In
      <3>3. ASSUME NEW x \in Jobs, In(x, live'), x # j PROVE In(x, live)
        <4>1. PICK i \in 1..Len(live') : live'[i] = x
          BY <3>3 DEF In
        <4>2. i \in 1..Len(live)
          BY <2>1, <3>3, <4>1
        <4> QED
          BY <2>1, <4>1, <4>2 DEF In
      <3> QED
        BY <3>1, <3>2, <3>3
    <2>4. throws' = 0 => throws = 0
      BY <1>2 DEF Enqueue, Throw, TypeOK
    <2>5. CallbackScans'
      <3>1. CASE scan' = <<j>> /\ ctx' = "command"
        <4>1. Len(scan') = 1 /\ scan'[1] = j /\ scan' # <<>>
          BY <3>1
        <4>2. Suffix(scan', live')
          BY <2>1, <4>1 DEF Suffix
        <4> QED
          BY <3>1, <4>1, <4>2 DEF CallbackScans
      <3>2. CASE UNCHANGED <<ctx, scan>>
        <4>1. scan' = <<>> /\ ctx' = "none" /\ Len(scan') = 0
          BY <1>2, <3>2 DEF Enqueue, CallbackScans
        <4>2. Suffix(scan', live')
          BY <2>1, <4>1 DEF Suffix
        <4> QED
          BY <4>1, <4>2 DEF CallbackScans
      <3> QED
        BY <1>2, <3>1, <3>2 DEF Enqueue
    <2>6. LiveMap'
      <3>1. Distinct(live')
        <4> SUFFICES ASSUME NEW a \in 1..Len(live'), NEW b \in 1..Len(live'), a < b
                     PROVE  live'[a] # live'[b]
          BY <2>1 DEF Distinct
        <4>1. a \in 1..Len(live)
          BY <2>1
        <4>2. CASE b = Len(live) + 1
          BY <2>1, <2>2, <4>1, <4>2 DEF In
        <4>3. CASE b \in 1..Len(live)
          BY <2>1, <4>1, <4>3 DEF LiveMap, Distinct
        <4> QED
          BY <2>1, <4>2, <4>3
      <3>2. \A i \in 1..Len(live') : state'[live'[i]] # "none"
        <4> SUFFICES ASSUME NEW i \in 1..Len(live') PROVE state'[live'[i]] # "none"
          OBVIOUS
        <4>1. CASE i = Len(live) + 1
          BY <2>1, <2>2, <4>1
        <4>2. CASE i \in 1..Len(live)
          BY <2>1, <2>2, <4>2 DEF LiveMap
        <4> QED
          BY <2>1, <4>1, <4>2
      <3>3. \A x \in Jobs : state'[x] \in {"queued", "running"} => In(x, live')
        BY <2>2, <2>3 DEF LiveMap
      <3> QED
        BY <3>1, <3>2, <3>3 DEF LiveMap
    <2>7. SlotsOwned'
      BY <1>2, <2>2, <2>4 DEF Enqueue, SlotsOwned, Processes, TypeOK
    <2>8. WaitersAreScanned'
      <3> SUFFICES ASSUME throws' = 0, running < MaxConcurrent, NEW x \in Jobs,
                          state'[x] = "queued"
                   PROVE  In(x, scan')
        BY <1>2 DEF Enqueue, WaitersAreScanned
      <3>1. scan = <<>> /\ Len(scan) = 0
        BY <1>2 DEF Enqueue, CallbackScans
      <3>2. x = j
        BY <2>2, <2>4, <3>1 DEF WaitersAreScanned, In
      <3>3. scan' = <<j>>
        BY <1>2 DEF Enqueue, Throw, TypeOK
      <3>4. Len(scan') = 1 /\ scan'[1] = j
        BY <3>3
      <3> QED
        BY <3>2, <3>4 DEF In
    <2>9. FifoStart'
      <3> SUFFICES ASSUME throws = 0, NEW m \in 1..Len(live'), NEW n \in 1..Len(live'), m < n,
                          state'[live'[n]] = "running"
                   PROVE  state'[live'[m]] # "queued"
        BY <2>4 DEF FifoStart
      <3>1. n \in 1..Len(live) /\ m \in 1..Len(live)
        BY <2>1, <2>2
      <3>2. live[m] # j /\ live[n] # j
        BY <2>2, <3>1 DEF In
      <3>3. state'[live'[m]] = state[live[m]] /\ state'[live'[n]] = state[live[n]]
        BY <2>1, <2>2, <3>1, <3>2
      <3> QED
        BY <3>1, <3>3 DEF FifoStart
    <2>10. TablesAgree'
      BY <1>2, <2>4 DEF Enqueue, SetState, InsertRow, Throw, TablesAgree, TypeOK
    <2>11. OpenRowHasLiveJob'
      <3>1. \A x \in Jobs : x # j => row'[x] = row[x]
        BY <1>2 DEF Enqueue, InsertRow, TypeOK
      <3> QED
        BY <1>2, <2>3, <3>1 DEF Enqueue, OpenRowHasLiveJob, In
    <2>12. DownIsEmpty'
      BY <1>2 DEF Enqueue, DownIsEmpty
    <2> QED
      BY <2>5, <2>6, <2>7, <2>8, <2>9, <2>10, <2>11, <2>12
  <1>3. ASSUME NEW j \in Jobs, ProcEnds(j) PROVE Safe'
    <2>1. SlotsOwned'
      BY <1>3 DEF ProcEnds, memory, tables, SlotsOwned, Processes, TypeOK
    <2>2. DownIsEmpty'
      BY <1>3 DEF ProcEnds, memory, tables, DownIsEmpty, TypeOK
    <2> QED
      BY <1>3, <2>1, <2>2 DEF ProcEnds, memory, tables, CallbackScans, LiveMap,
         WaitersAreScanned, FifoStart, TablesAgree, OpenRowHasLiveJob
  <1>4. ASSUME NEW j \in Jobs, ExitUnheard(j) PROVE Safe'
    <2>1. SlotsOwned'
      BY <1>4 DEF ExitUnheard, memory, tables, SlotsOwned, Processes, TypeOK
    <2>2. DownIsEmpty'
      BY <1>4 DEF ExitUnheard, memory, tables, DownIsEmpty, TypeOK
    <2> QED
      BY <1>4, <2>1, <2>2 DEF ExitUnheard, memory, tables, CallbackScans, LiveMap,
         WaitersAreScanned, FifoStart, TablesAgree, OpenRowHasLiveJob
  <1>5. ASSUME NEW j \in Jobs, NEW final \in {"done", "failed"}, ExitHeard(j, final) PROVE Safe'
    <2>1. /\ j \in watched /\ state[j] = "running" /\ In(j, live)
          /\ running' = running - 1 /\ watched' = watched \ {j}
          /\ throws' = throws /\ alive' = alive /\ alive
          /\ scan' = live'
      BY <1>5 DEF ExitHeard, SlotsOwned, LiveMap
    <2>2. /\ live' \in Seq(Jobs) /\ state' \in [Jobs -> States]
          /\ LiveMap' /\ FifoStart' /\ OpenRowHasLiveJob'
      BY <1>5, <2>1, JobLeaves DEF ExitHeard
    <2>3. state' = [state EXCEPT ![j] = final] /\ proc' = [proc EXCEPT ![j] = "gone"]
      BY <1>5 DEF ExitHeard, SetState
    <2>4. CallbackScans'
      <3>1. Suffix(live', live')
        BY <2>2 DEF Suffix
      <3> QED
        BY <1>5, <2>1, <3>1 DEF ExitHeard, CallbackScans
    <2>5. SlotsOwned'
      <3>1. /\ running \in Nat \ {0} /\ Cardinality(watched) \in Nat
            /\ Cardinality(watched') = Cardinality(watched) - 1
        BY <2>1, WatchedHasSlot
      <3>2. Processes' = Processes \ {j}
        BY <2>3 DEF Processes, TypeOK
      <3>3. \A x \in watched' : state'[x] = "running" /\ proc'[x] \in {"alive", "exited"}
        BY <2>1, <2>3 DEF SlotsOwned, TypeOK
      <3>4. Cardinality(watched') <= running' /\ running' <= MaxConcurrent
        BY <2>1, <3>1 DEF SlotsOwned
      <3>5. throws' = 0 => running' = Cardinality(watched') /\ Processes' = watched'
        BY <2>1, <3>1, <3>2 DEF SlotsOwned
      <3> QED
        BY <3>3, <3>4, <3>5 DEF SlotsOwned
    <2>6. WaitersAreScanned'
      BY <2>1, <2>2 DEF WaitersAreScanned, LiveMap
    <2>7. TablesAgree'
      BY <1>5, <2>1, <2>3 DEF ExitHeard, SetRow, SessionEnds, TablesAgree, TypeOK
    <2>8. DownIsEmpty'
      BY <2>1 DEF DownIsEmpty
    <2> QED
      BY <2>2, <2>4, <2>5, <2>6, <2>7, <2>8
  <1>6. CASE StartSkipped
    <2>1. alive
      BY <1>6 DEF StartSkipped, DownIsEmpty
    <2>2. UNCHANGED <<alive, live, state, running, fleet, watched, proc, row, sessRow, throws>>
      BY <1>6 DEF StartSkipped, Continue, tables
    <2>3. CallbackScans'
      <3>1. scan' \in {<<>>, Tail(scan)} /\ ctx' = IF scan' = <<>> THEN "none" ELSE ctx
        BY <1>6 DEF StartSkipped, Continue
      <3>2. Suffix(<<>>, live) /\ Suffix(Tail(scan), live)
        <4>1. Len(<<>>) = 0 /\ Len(live) \in Nat
          BY DEF TypeOK
        <4> QED
          BY <1>6, <4>1, VisitedJob DEF StartSkipped, Suffix
      <3>3. ctx # "none"
        BY <1>6 DEF StartSkipped, CallbackScans
      <3> QED
        BY <2>2, <3>1, <3>2, <3>3 DEF CallbackScans
    <2>4. WaitersAreScanned'
      <3> SUFFICES ASSUME throws = 0, running < MaxConcurrent, NEW j \in Jobs, state[j] = "queued"
                   PROVE  In(j, scan')
        BY <2>2 DEF WaitersAreScanned
      <3>1. scan' = Tail(scan) /\ state[Head(scan)] # "queued"
        BY <1>6 DEF StartSkipped, Continue, Startable, TypeOK
      <3>2. In(j, scan) /\ j # Head(scan)
        BY <3>1 DEF WaitersAreScanned
      <3> QED
        BY <1>6, <3>1, <3>2, VisitedJob DEF StartSkipped
    <2> QED
      BY <2>1, <2>2, <2>3, <2>4
      DEF LiveMap, SlotsOwned, Processes, FifoStart, TablesAgree, OpenRowHasLiveJob, DownIsEmpty
  <1>7. CASE StartFails
    <2>1. alive
      BY <1>7 DEF StartFails, DownIsEmpty
    <2>2. PICK j \in Jobs :
            /\ j = Head(scan) /\ In(j, live) /\ state[j] = "queued"
            /\ live' = Without(live, j)
            /\ SetState(j, "failed") /\ SetRow(j, "failed")
      BY <1>7, VisitedJob DEF StartFails, Startable
    <2>3. CallbackScans'
      <3>1. scan' = Tail(scan) /\ ctx' = IF scan' = <<>> THEN "none" ELSE ctx
        BY <1>7 DEF StartFails, Continue
      <3>2. ctx # "none"
        BY <1>7 DEF StartFails, CallbackScans
      <3> QED
        BY <1>7, <2>2, <3>1, <3>2, VisitedJob DEF StartFails, CallbackScans
    <2>4. LiveMap' /\ FifoStart' /\ OpenRowHasLiveJob'
      <3>1. throws' = 0 => throws = 0
        BY <1>7 DEF StartFails, Throw, TypeOK
      <3> QED
        BY <1>7, <2>2, <3>1, JobLeaves DEF StartFails, Continue
    <2>5. state' = [state EXCEPT ![j] = "failed"]
      BY <2>2 DEF SetState
    <2>6. SlotsOwned'
      BY <1>7, <2>2, <2>5 DEF StartFails, SlotsOwned, Processes, TypeOK
    <2>7. WaitersAreScanned'
      <3> SUFFICES ASSUME throws = 0, running < MaxConcurrent, NEW x \in Jobs, state'[x] = "queued"
                   PROVE  In(x, Tail(scan))
        BY <1>7 DEF StartFails, Continue, WaitersAreScanned
      <3>1. x # j /\ state[x] = "queued"
        BY <2>5 DEF TypeOK
      <3>2. In(x, scan)
        BY <3>1 DEF WaitersAreScanned
      <3> QED
        BY <1>7, <2>2, <3>1, <3>2, VisitedJob DEF StartFails
    <2>8. TablesAgree'
      BY <1>7, <2>2, <2>5 DEF StartFails, Continue, SetRow, TablesAgree, TypeOK
    <2>9. DownIsEmpty'
      BY <1>7, <2>1 DEF StartFails, Continue, DownIsEmpty
    <2> QED
      BY <2>3, <2>4, <2>6, <2>7, <2>8, <2>9
  <1>8. CASE StartRuns
    <2>1. alive
      BY <1>8 DEF StartRuns, DownIsEmpty
    <2>2. PICK j \in Jobs :
            /\ j = Head(scan) /\ In(j, live) /\ state[j] = "queued" /\ running < MaxConcurrent
            /\ state' = [state EXCEPT ![j] = "running"] /\ SetRow(j, "running")
            /\ proc' = [proc EXCEPT ![j] = "alive"]
            /\ watched' = watched \cup {j} /\ running' = running + 1
            /\ fleet' = fleet \cup {j} /\ sessRow' = [sessRow EXCEPT ![j] = "open"]
            /\ live' = live /\ throws' = throws /\ alive' = alive
      BY <1>8, VisitedJob DEF StartRuns, Startable, SetState, OnSession, Wire, Continue
    <2>3. CallbackScans'
      <3>1. scan' = Tail(scan) /\ ctx' = IF scan' = <<>> THEN "none" ELSE ctx
        BY <1>8 DEF StartRuns, Continue
      <3>2. ctx # "none"
        BY <1>8 DEF StartRuns, CallbackScans
      <3> QED
        BY <1>8, <2>2, <3>1, <3>2, VisitedJob DEF StartRuns, CallbackScans
    <2>4. LiveMap'
      <3>1. \A i \in 1..Len(live) : state'[live[i]] # "none"
        BY <2>2 DEF LiveMap, TypeOK
      <3>2. \A x \in Jobs : state'[x] \in {"queued", "running"} => In(x, live)
        BY <2>2 DEF LiveMap, TypeOK
      <3> QED
        BY <2>2, <3>1, <3>2 DEF LiveMap
    <2>5. SlotsOwned'
      <3>1. j \notin watched
        BY <2>2 DEF SlotsOwned
      <3>2. IsFiniteSet(watched) /\ Cardinality(watched) \in Nat
        BY FS_Subset, FS_CardinalityType DEF TypeOK
      <3>3. Cardinality(watched') = Cardinality(watched) + 1
        BY <2>2, <3>1, <3>2, FS_AddElement
      <3>4. \A x \in watched' : state'[x] = "running" /\ proc'[x] \in {"alive", "exited"}
        BY <2>2 DEF SlotsOwned, TypeOK
      <3>5. Processes' = Processes \cup {j}
        BY <2>2 DEF Processes, TypeOK
      <3>6. Cardinality(watched') <= running' /\ running' <= MaxConcurrent
        BY <2>2, <3>2, <3>3 DEF SlotsOwned, TypeOK
      <3>7. throws' = 0 => running' = Cardinality(watched') /\ Processes' = watched'
        BY <2>2, <3>3, <3>5 DEF SlotsOwned
      <3> QED
        BY <3>4, <3>6, <3>7 DEF SlotsOwned
    <2>6. WaitersAreScanned'
      <3> SUFFICES ASSUME throws = 0, NEW x \in Jobs, state'[x] = "queued"
                   PROVE  In(x, Tail(scan))
        BY <1>8, <2>2 DEF StartRuns, Continue, WaitersAreScanned
      <3>1. x # j /\ state[x] = "queued"
        BY <2>2 DEF TypeOK
      <3>2. In(x, scan)
        BY <2>2, <3>1 DEF WaitersAreScanned
      <3> QED
        BY <1>8, <2>2, <3>1, <3>2, VisitedJob DEF StartRuns
    <2>7. FifoStart'
      <3> SUFFICES ASSUME throws = 0, NEW m \in 1..Len(live), NEW n \in 1..Len(live), m < n,
                          state'[live[n]] = "running", state'[live[m]] = "queued"
                   PROVE  FALSE
        BY <2>2 DEF FifoStart
      <3>1. live[m] \in Jobs /\ live[n] \in Jobs /\ live[m] # j /\ state[live[m]] = "queued"
        BY <2>2 DEF TypeOK
      <3>2. CASE live[n] # j
        BY <2>2, <3>1, <3>2 DEF FifoStart, TypeOK
      <3>3. CASE live[n] = j
        <4>1. In(live[m], scan)
          BY <2>2, <3>1 DEF WaitersAreScanned
        <4>2. ~In(live[m], scan)
          BY <1>8, <2>2, <3>3, ScanProperties DEF StartRuns, TypeOK, CallbackScans, LiveMap
        <4> QED
          BY <4>1, <4>2
      <3> QED
        BY <3>2, <3>3
    <2>8. TablesAgree'
      BY <2>2 DEF SetRow, TablesAgree, TypeOK
    <2>9. OpenRowHasLiveJob'
      <3>1. \A x \in Jobs : x # j => row'[x] = row[x]
        BY <2>2 DEF SetRow, TypeOK
      <3> QED
        BY <2>2, <3>1 DEF OpenRowHasLiveJob, In
    <2>10. DownIsEmpty'
      BY <2>1, <2>2 DEF DownIsEmpty
    <2> QED
      BY <2>3, <2>4, <2>5, <2>6, <2>7, <2>8, <2>9, <2>10
  <1>9. CASE StartLosesSlot
    <2>1. alive
      BY <1>9 DEF StartLosesSlot, DownIsEmpty
    <2>2. PICK j \in Jobs :
            /\ state[j] = "queued" /\ running < MaxConcurrent /\ In(j, live)
            /\ state' = [state EXCEPT ![j] = "running"] /\ running' = running + 1
            /\ UNCHANGED <<alive, live, watched, proc, row>>
      BY <1>9, VisitedJob DEF StartLosesSlot, Startable, SetState, tables
    <2>3. throws' # 0
      BY <1>9 DEF StartLosesSlot, Throw, TypeOK
    <2>4. CallbackScans'
      <3>1. scan' = <<>> /\ ctx' = "none" /\ Len(scan') = 0 /\ Len(live) \in Nat
        BY <1>9 DEF StartLosesSlot, TypeOK
      <3> QED
        BY <2>2, <3>1 DEF CallbackScans, Suffix
    <2>5. LiveMap'
      <3>1. \A i \in 1..Len(live) : state'[live[i]] # "none"
        BY <2>2 DEF LiveMap, TypeOK
      <3>2. \A x \in Jobs : state'[x] \in {"queued", "running"} => In(x, live)
        BY <2>2 DEF LiveMap, TypeOK
      <3> QED
        BY <2>2, <3>1, <3>2 DEF LiveMap
    <2>6. SlotsOwned'
      <3>1. Cardinality(watched) \in Nat
        BY FS_Subset, FS_CardinalityType DEF TypeOK
      <3>2. \A x \in watched : state'[x] = "running"
        BY <2>2 DEF SlotsOwned, TypeOK
      <3> QED
        BY <2>2, <2>3, <3>1, <3>2 DEF SlotsOwned, TypeOK
    <2>7. WaitersAreScanned' /\ FifoStart' /\ TablesAgree'
      BY <2>3 DEF WaitersAreScanned, FifoStart, TablesAgree
    <2>8. OpenRowHasLiveJob'
      BY <2>2 DEF OpenRowHasLiveJob, In, SetRow, TypeOK
    <2>9. DownIsEmpty'
      BY <2>1, <2>2 DEF DownIsEmpty
    <2> QED
      BY <2>4, <2>5, <2>6, <2>7, <2>8, <2>9
  <1>10. CASE StartLosesSession
    <2>1. alive
      BY <1>10 DEF StartLosesSession, DownIsEmpty
    <2>2. PICK j \in Jobs :
            /\ j = Head(scan) /\ In(j, live) /\ state[j] = "queued"
            /\ live' = Without(live, j)
            /\ SetState(j, "failed") /\ SetRow(j, "failed")
      BY <1>10, VisitedJob DEF StartLosesSession, Startable
    <2>3. CallbackScans'
      <3>1. scan' = Tail(scan) /\ ctx' = IF scan' = <<>> THEN "none" ELSE ctx
        BY <1>10 DEF StartLosesSession, Continue
      <3>2. ctx # "none"
        BY <1>10 DEF StartLosesSession, CallbackScans
      <3> QED
        BY <1>10, <2>2, <3>1, <3>2, VisitedJob DEF StartLosesSession, CallbackScans
    <2>4. LiveMap' /\ FifoStart' /\ OpenRowHasLiveJob'
      <3>1. throws' = 0 => throws = 0
        BY <1>10 DEF StartLosesSession, Throw, TypeOK
      <3> QED
        BY <1>10, <2>2, <3>1, JobLeaves DEF StartLosesSession, Continue
    <2>5. state' = [state EXCEPT ![j] = "failed"]
      BY <2>2 DEF SetState
    <2>6. throws' # 0
      BY <1>10 DEF StartLosesSession, Throw, TypeOK
    <2>7. SlotsOwned'
      BY <1>10, <2>2, <2>5, <2>6 DEF StartLosesSession, SlotsOwned, TypeOK
    <2>8. WaitersAreScanned' /\ TablesAgree'
      BY <2>6 DEF WaitersAreScanned, TablesAgree
    <2>9. DownIsEmpty'
      BY <1>10, <2>1 DEF StartLosesSession, Continue, DownIsEmpty
    <2> QED
      BY <2>3, <2>4, <2>7, <2>8, <2>9
  <1>11. CASE StartFailsUnrecorded
    <2>1. alive
      BY <1>11 DEF StartFailsUnrecorded, DownIsEmpty
    <2>2. PICK j \in Jobs :
            /\ state[j] = "queued" /\ In(j, live)
            /\ state' = [state EXCEPT ![j] = "failed"]
            /\ row' = row \/ SetRow(j, "running")
            /\ proc' = proc \/ proc' = [proc EXCEPT ![j] = "alive"]
            /\ UNCHANGED <<alive, live, watched, running>>
      BY <1>11, VisitedJob DEF StartFailsUnrecorded, Startable, SetState
    <2>3. throws' # 0
      BY <1>11 DEF StartFailsUnrecorded, Throw, TypeOK
    <2>4. CallbackScans'
      <3>1. scan' = <<>> /\ ctx' = "none" /\ Len(scan') = 0 /\ Len(live) \in Nat
        BY <1>11 DEF StartFailsUnrecorded, TypeOK
      <3> QED
        BY <2>2, <3>1 DEF CallbackScans, Suffix
    <2>5. LiveMap'
      <3>1. \A i \in 1..Len(live) : state'[live[i]] # "none"
        BY <2>2 DEF LiveMap, TypeOK
      <3>2. \A x \in Jobs : state'[x] \in {"queued", "running"} => In(x, live)
        BY <2>2 DEF LiveMap, TypeOK
      <3> QED
        BY <2>2, <3>1, <3>2 DEF LiveMap
    <2>6. SlotsOwned'
      <3>1. \A x \in watched : x # j
        BY <2>2 DEF SlotsOwned
      <3>2. \A x \in watched : state'[x] = "running" /\ proc'[x] \in {"alive", "exited"}
        BY <2>2, <3>1 DEF SlotsOwned, TypeOK
      <3> QED
        BY <2>2, <2>3, <3>2 DEF SlotsOwned
    <2>7. WaitersAreScanned' /\ FifoStart' /\ TablesAgree'
      BY <2>3 DEF WaitersAreScanned, FifoStart, TablesAgree
    <2>8. OpenRowHasLiveJob'
      BY <2>2 DEF OpenRowHasLiveJob, In, SetRow, TypeOK
    <2>9. DownIsEmpty'
      BY <2>1, <2>2 DEF DownIsEmpty
    <2> QED
      BY <2>4, <2>5, <2>6, <2>7, <2>8, <2>9
  <1>12. CASE ExitThrows
    BY <1>12, DaemonDies DEF ExitThrows, DownIsEmpty
  <1>13. CASE Crash
    BY <1>13, DaemonDies DEF Crash, tables
  <1>14. CASE Boot
    <2>1. CallbackScans'
      BY <1>14 DEF Boot, ReconcileSessions, ReconcileJobs, memory, CallbackScans, TypeOK, Suffix
    <2>2. LiveMap'
      BY <1>14 DEF Boot, ReconcileSessions, ReconcileJobs, memory, LiveMap, TypeOK
    <2>3. SlotsOwned'
      BY <1>14 DEF Boot, ReconcileSessions, ReconcileJobs, memory, SlotsOwned, Processes, TypeOK
    <2>4. WaitersAreScanned'
      BY <1>14 DEF Boot, ReconcileSessions, ReconcileJobs, memory, WaitersAreScanned, TypeOK,
         CallbackScans, In
    <2>5. FifoStart'
      BY <1>14 DEF Boot, ReconcileSessions, ReconcileJobs, memory, FifoStart, TypeOK
    <2>6. TablesAgree'
      <3>1. throws' = throws /\ state' = state /\ fleet' = {} /\ watched' = {}
        BY <1>14 DEF Boot, memory, DownIsEmpty
      <3>2. throws = 0 => row' = state
        BY <1>14 DEF Boot, ReconcileJobs, DownIsEmpty, TypeOK
      <3>3. {j \in Jobs : sessRow'[j] = "open"} = {}
        BY <1>14 DEF Boot, ReconcileSessions, TypeOK
      <3> QED
        BY <3>1, <3>2, <3>3 DEF TablesAgree
    <2>7. OpenRowHasLiveJob'
      BY <1>14 DEF Boot, ReconcileSessions, ReconcileJobs, memory, OpenRowHasLiveJob, TypeOK
    <2>8. DownIsEmpty'
      BY <1>14 DEF Boot, ReconcileSessions, ReconcileJobs, memory, DownIsEmpty, TypeOK
    <2> QED
      BY <1>14, <2>1, <2>2, <2>3, <2>4, <2>5, <2>6, <2>7, <2>8
  <1>15. CASE UNCHANGED vars
    BY <1>15 DEF vars, memory, tables, Processes, CallbackScans, LiveMap, SlotsOwned,
       WaitersAreScanned, FifoStart, TablesAgree, OpenRowHasLiveJob, DownIsEmpty
  <1> QED
    BY <1>1, <1>2, <1>3, <1>4, <1>5, <1>6, <1>7, <1>8,
       <1>9, <1>10, <1>11, <1>12, <1>13, <1>14, <1>15 DEF Next, TryStart

----------------------------------------------------------------------------
\* The invariant holds in every reachable state.
THEOREM Invariance == Spec => []IInv
  <1>1. IInv /\ [Next]_vars => IInv'
    BY NextType, NextSafe DEF IInv
  <1> QED
    BY InitIInv, <1>1, PTL DEF Spec

\* `running' (jobs.ts) counts exactly the sessions whose exit is still to come, and as long
\* as no write has failed there are never more processes than CC_MAX_CONCURRENT_SESSIONS.
THEOREM SlotsAreExact == Spec => []SlotsExact
  <1>1. ASSUME IInv PROVE SlotsExact
    <2> DEFINE up == {j \in Jobs : proc[j] = "alive"}
    <2> SUFFICES ASSUME throws = 0
                 PROVE  running = Cardinality(Processes) /\ Cardinality(up) <= MaxConcurrent
      BY DEF SlotsExact, Quiet
    <2>1. /\ running = Cardinality(watched) /\ Processes = watched /\ watched \subseteq Jobs
          /\ running \in Nat /\ running <= MaxConcurrent
      BY <1>1 DEF IInv, Safe, TypeOK, SlotsOwned
    <2>2. up \subseteq Processes
      BY DEF Processes
    <2>3. IsFiniteSet(Processes)
      BY <2>1, JobsAssumption, FS_Subset
    <2>4. Cardinality(up) <= Cardinality(Processes) /\ IsFiniteSet(up)
      BY <2>2, <2>3, FS_Subset
    <2>5. Cardinality(up) \in Nat
      BY <2>4, FS_CardinalityType
    <2> HIDE DEF up
    <2> QED
      BY <2>1, <2>4, <2>5, JobsAssumption
  <1> QED
    BY Invariance, <1>1, PTL

\* pumpQueue and enqueue leave no job waiting while there is a slot: between callbacks,
\* and until a write fails, a queued job means that every slot is taken.
THEOREM NoJobIsStranded == Spec => []NoStrandedJob
  <1>1. ASSUME IInv PROVE NoStrandedJob
    <2> SUFFICES ASSUME Quiet, running < MaxConcurrent, NEW j \in Jobs, state[j] = "queued"
                 PROVE  FALSE
      BY DEF NoStrandedJob
    <2>1. scan = <<>> /\ In(j, scan)
      BY <1>1 DEF IInv, Safe, Quiet, CallbackScans, WaitersAreScanned
    <2>2. Len(scan) = 0
      BY <2>1
    <2> QED
      BY <2>1, <2>2 DEF In
  <1> QED
    BY Invariance, <1>1, PTL

\* Jobs start in the order they were enqueued, whatever exits and failed starts come
\* between.
THEOREM JobsStartInOrder == Spec => []FifoStart
  <1>1. IInv => FifoStart
    BY DEF IInv, Safe
  <1> QED
    BY Invariance, <1>1, PTL

\* Between callbacks, and until a write fails, the rows of jobs and sessions say what
\* the queue and the fleet say, after any number of deaths and boots (reconcile*).
THEOREM TablesAreExact == Spec => []TablesExact
  <1>1. IInv => TablesExact
    BY DEF IInv, Safe, TablesExact, Quiet, TablesAgree, SlotsOwned
  <1> QED
    BY Invariance, <1>1, PTL

\* Whatever write fails, and also after that, a row that is open belongs to a job in the
\* live map.
THEOREM OpenRowsAreLive == Spec => []OpenRowHasLiveJob
  <1>1. IInv => OpenRowHasLiveJob
    BY DEF IInv, Safe
  <1> QED
    BY Invariance, <1>1, PTL

=============================================================================
