--------------------------- MODULE DeliveryProofs ---------------------------
(***************************************************************************)
(* Proofs about event delivery and replay, for any finite set of devices,  *)
(* any clients, any cap of the replay log and any number of events,        *)
(* replies, lost connections and restarts.                                 *)
(***************************************************************************)
EXTENDS Delivery, FiniteSetTheorems, SequenceTheorems, WellFoundedInduction, TLAPS

----------------------------------------------------------------------------
(* Induction.  The library states it for a predicate; stated for a set, the *)
(* provers can use it.                                                     *)

\* Every nonempty set of naturals has a least member.
LEMMA LeastNat ==
  ASSUME NEW T \in SUBSET Nat, T # {}
  PROVE  \E x \in T : \A y \in T : x <= y
<1> DEFINE R == {p \in Nat \X Nat : p[1] < p[2]}
<1>1. IsWellFoundedOn(R, Nat)
  BY NatLessThanWellFounded DEF OpToRel
<1>2. PICK x \in T : \A y \in T : ~(<<y, x>> \in R)
  BY <1>1, WFMin
<1>3. \A a, b \in Nat : <<b, a>> \in R <=> b < a
  OBVIOUS
<1> HIDE DEF R
<1>4. \A y \in T : ~(y < x)
  BY <1>2, <1>3
<1>5. \A y \in T : x <= y
  BY <1>4
<1> QED
  BY <1>5

\* Induction over the naturals, for the set of those that have a property.
LEMMA NatSetInduction ==
  ASSUME NEW S \in SUBSET Nat, 0 \in S, \A n \in S : n + 1 \in S
  PROVE  \A n \in Nat : n \in S
<1> SUFFICES ASSUME Nat \ S # {} PROVE FALSE
  OBVIOUS
<1>1. Nat \ S \in SUBSET Nat
  OBVIOUS
<1>2. PICK x \in Nat \ S : \A y \in Nat \ S : x <= y
  BY <1>1, LeastNat
<1>3. x - 1 \in Nat
  BY <1>2
<1>4. x - 1 \in S
  BY <1>2, <1>3
<1> QED
  BY <1>2, <1>4

\* Recording is what its recursive definition says: the registry before, and after
\* each recordSent the registry that one leaves.
LEMMA RecordingDef ==
  ASSUME NEW g, NEW todo, Len(todo) \in Nat
  PROVE  /\ Recording(g, todo)[0] = g
         /\ \A i \in 1..Len(todo) : Recording(g, todo)[i] =
              RecordSent(Recording(g, todo)[i - 1], todo[i].device, todo[i].item)
<1> DEFINE Step(f, i) == IF i = 0 THEN g
                         ELSE RecordSent(f[i - 1], todo[i].device, todo[i].item)
           S == {n \in Nat : \E f : f = [i \in 0..n |-> Step(f, i)]}
<1>1. 0 \in S
  <2> DEFINE f == [i \in 0..0 |-> g]
  <2>1. f = [i \in 0..0 |-> Step(f, i)]
    OBVIOUS
  <2> QED
    BY <2>1
<1>2. ASSUME NEW n \in S PROVE n + 1 \in S
  <2>1. PICK f : f = [i \in 0..n |-> Step(f, i)]
    OBVIOUS
  <2> DEFINE h == [i \in 0..n + 1 |-> IF i <= n THEN f[i] ELSE Step(f, i)]
  <2>2. \A i \in 0..n + 1 : h[i] = Step(h, i)
    <3> SUFFICES ASSUME NEW i \in 0..n + 1 PROVE h[i] = Step(h, i)
      OBVIOUS
    <3>1. h[i] = Step(f, i)
      BY <2>1
    <3>2. i # 0 => h[i - 1] = f[i - 1]
      OBVIOUS
    <3> QED
      BY <3>1, <3>2
  <2>3. h = [i \in 0..n + 1 |-> Step(h, i)]
    BY <2>2
  <2>4. \E e : e = [i \in 0..n + 1 |-> Step(e, i)]
    BY <2>3
  <2> QED
    BY <2>4
<1>3. Len(todo) \in S
  <2> HIDE DEF S
  <2>1. S \in SUBSET Nat
    BY DEF S
  <2> QED
    BY <1>1, <1>2, <2>1, NatSetInduction
<1>4. PICK fn : fn = [i \in 0..Len(todo) |-> Step(fn, i)]
  BY <1>3
<1>5. Recording(g, todo) = CHOOSE f : f = [i \in 0..Len(todo) |-> Step(f, i)]
  BY DEF Recording
<1> DEFINE r == Recording(g, todo)
<1>6. r = [i \in 0..Len(todo) |-> Step(r, i)]
  BY <1>4, <1>5
<1> HIDE DEF r
<1>7. r[0] = g /\ \A i \in 1..Len(todo) : r[i] = Step(r, i)
  BY <1>6
<1> QED
  BY <1>7 DEF r

----------------------------------------------------------------------------
(* Types.                                                                  *)

Items == {x \in [kind : {"pending", "resolved", "sessions", "jobs", "private"},
                 n : 0..MaxPublished, approval : 0..MaxPublished] :
            x.kind = "pending" => x.approval # 0}
Entries == [seq : Nat, item : Items]
Frames  == [salt : BOOLEAN, resumed : BOOLEAN, seq : Nat, item : Items]

\* A device's counter and its log fit together.
LogOK(out, log) ==
  /\ Len(log) <= MaxEvents
  /\ log # <<>> => out = log[Len(log)].seq
  /\ \A i \in 1..Len(log) - 1 : log[i + 1].seq = log[i].seq + 1

Registries ==
  {g \in [out : [Devices -> Nat \cup {NoStream}], log : [Devices -> Seq(Entries)],
          lru : Seq(Devices)] :
     \A d \in Devices : LogOK(g.out[d], g.log[d])}

TypeInv ==
  /\ TypeOK
  /\ reg \in Registries
  /\ down \in [Clients -> Seq(Frames)]
  /\ open \subseteq 1..MaxPublished

\* What the constructors of items and frames return.
LEMMA ItemTypes ==
  /\ Private \in Items /\ Sessions \in Items
  /\ \A n \in 0..MaxPublished : Jobs(n) \in Items
  /\ \A n \in 0..MaxPublished, a \in 1..MaxPublished :
       Pending(n, a) \in Items /\ Resolved(n, a) \in Items
  /\ \A seq \in Nat, item \in Items : Frame(seq, item) \in Frames
  /\ \A resumed \in BOOLEAN : Salt(resumed) \in Frames
<1> MaxPublished \in Nat
  BY DeliveryAssumption
<1>1. Private \in Items /\ Sessions \in Items
  BY DEF Private, Sessions, Items
<1> QED
  BY <1>1 DEF Jobs, Pending, Resolved, Items, Frame, Salt, Frames

\* Push and splice: the newest entries, in their order, and never more than the cap.
LEMMA KeepProperties ==
  ASSUME NEW S, NEW log \in Seq(S), Len(log) > 0
  PROVE  LET n == IF Len(log) > MaxEvents THEN MaxEvents ELSE Len(log) IN
         /\ Keep(log) \in Seq(S)
         /\ Len(Keep(log)) = n
         /\ \A i \in 1..n : Keep(log)[i] = log[Len(log) - n + i]
<1> DEFINE n == IF Len(log) > MaxEvents THEN MaxEvents ELSE Len(log)
           m == Len(log) - n + 1
<1>1. Len(log) \in Nat /\ n \in Nat /\ n > 0 /\ n <= Len(log)
  BY DeliveryAssumption, LenProperties
<1>2. \A i \in m..Len(log) : log[i] \in S
  <2>1. \A i \in m..Len(log) : i \in 1..Len(log)
    BY <1>1
  <2> QED
    BY <2>1, ElementOfSeq
<1>3. Keep(log) = SubSeq(log, m, Len(log))
  BY DEF Keep
<1> HIDE DEF n
<1>4. m \in Int /\ Len(log) \in Int
  BY <1>1
<1>5. /\ Keep(log) \in Seq(S)
      /\ Len(Keep(log)) = IF m <= Len(log) THEN Len(log) - m + 1 ELSE 0
      /\ \A i \in 1..Len(log) - m + 1 : Keep(log)[i] = log[m + i - 1]
  BY <1>2, <1>3, <1>4, SubSeqProperties
<1>6. m <= Len(log) /\ Len(log) - m + 1 = n
  BY <1>1
<1>7. \A i \in 1..n : m + i - 1 = Len(log) - n + i
  BY <1>1
<1>8. /\ Keep(log) \in Seq(S)
      /\ Len(Keep(log)) = n
      /\ \A i \in 1..n : Keep(log)[i] = log[Len(log) - n + i]
  BY <1>5, <1>6, <1>7
<1> QED
  BY <1>8 DEF n

\* An event logged under the next seq leaves a log that ends at the counter.
LEMMA KeepIsContiguous ==
  ASSUME NEW log \in Seq(Entries), NEW out, LogOK(out, log),
         NEW e \in Entries, log # <<>> => e.seq = out + 1
  PROVE  /\ Keep(Append(log, e)) \in Seq(Entries)
         /\ Keep(Append(log, e)) # <<>>
         /\ LogOK(e.seq, Keep(Append(log, e)))
<1> DEFINE new == Append(log, e)
           n == IF Len(new) > MaxEvents THEN MaxEvents ELSE Len(new)
           k == Keep(new)
<1>1. /\ new \in Seq(Entries) /\ Len(new) = Len(log) + 1
      /\ \A i \in 1..Len(log) : new[i] = log[i]
      /\ new[Len(log) + 1] = e
  BY AppendProperties
<1>2. Len(log) \in Nat /\ (log # <<>> <=> Len(log) > 0)
  BY LenProperties, EmptySeq
<1> HIDE DEF new
<1>3. k \in Seq(Entries) /\ Len(k) = n /\ \A i \in 1..n : k[i] = new[Len(new) - n + i]
  BY <1>1, <1>2, KeepProperties
<1>4. n \in Nat /\ n > 0 /\ n <= MaxEvents /\ n <= Len(new)
  BY <1>1, <1>2, DeliveryAssumption
<1> HIDE DEF n, k
<1>5. k[n] = e
  BY <1>1, <1>2, <1>3, <1>4
<1>6. \A i \in 1..Len(log) : new[i + 1].seq = new[i].seq + 1
  <2> SUFFICES ASSUME NEW i \in 1..Len(log) PROVE new[i + 1].seq = new[i].seq + 1
    OBVIOUS
  <2>1. CASE i = Len(log)
    BY <1>1, <1>2, <2>1 DEF LogOK
  <2>2. CASE i # Len(log)
    <3>1. i \in 1..Len(log) - 1 /\ i + 1 \in 1..Len(log)
      BY <2>2, <1>2
    <3> QED
      BY <1>1, <3>1 DEF LogOK
  <2> QED
    BY <2>1, <2>2
<1>7. \A i \in 1..n - 1 : k[i + 1].seq = k[i].seq + 1
  <2> SUFFICES ASSUME NEW i \in 1..n - 1 PROVE k[i + 1].seq = k[i].seq + 1
    OBVIOUS
  <2> DEFINE j == Len(new) - n + i
  <2>1. j \in 1..Len(log) /\ i \in 1..n /\ i + 1 \in 1..n /\ Len(new) - n + (i + 1) = j + 1
    BY <1>1, <1>2, <1>4
  <2>2. k[i] = new[j] /\ k[i + 1] = new[j + 1]
    BY <1>3, <2>1
  <2> QED
    BY <1>6, <2>1, <2>2
<1>8. k # <<>>
  BY <1>3, <1>4, EmptySeq
<1>9. k \in Seq(Entries) /\ k # <<>> /\ LogOK(e.seq, k)
  BY <1>3, <1>4, <1>5, <1>7, <1>8 DEF LogOK
<1> QED
  BY <1>9 DEF k, new

\* Deleting a device from the order of the devices leaves a sequence of devices.
LEMMA WithoutType ==
  ASSUME NEW S, NEW q \in Seq(S), NEW d
  PROVE  Without(q, d) \in Seq(S)
<1>1. CASE ~ \E i \in 1..Len(q) : q[i] = d
  BY <1>1 DEF Without
<1>2. CASE \E i \in 1..Len(q) : q[i] = d
  <2> DEFINE p == CHOOSE i \in 1..Len(q) : q[i] = d
  <2>1. p \in 1..Len(q) /\ Len(q) \in Nat
    BY <1>2, LenProperties
  <2>2. Without(q, d) = SubSeq(q, 1, p - 1) \o SubSeq(q, p + 1, Len(q))
    BY <1>2 DEF Without
  <2> HIDE DEF p
  <2>3. (\A i \in 1..p - 1 : q[i] \in S) /\ (\A i \in p + 1..Len(q) : q[i] \in S)
    BY <2>1, ElementOfSeq
  <2>4. SubSeq(q, 1, p - 1) \in Seq(S) /\ SubSeq(q, p + 1, Len(q)) \in Seq(S)
    <3>1. 1 \in Int /\ p - 1 \in Int /\ p + 1 \in Int /\ Len(q) \in Int
      BY <2>1
    <3> QED
      BY <2>3, <3>1, SubSeqProperties
  <2> QED
    BY <2>2, <2>4, ConcatProperties
<1> QED
  BY <1>1, <1>2

\* The seq a stream draws next is a positive number.
LEMMA NextSeqType ==
  ASSUME NEW g \in Registries, NEW d \in Devices
  PROVE  /\ NextSeq(g, d) \in Nat /\ NextSeq(g, d) > 0
         /\ g.log[d] # <<>> => NextSeq(g, d) = g.out[d] + 1
<1>1. g.out[d] \in Nat \cup {NoStream} /\ g.log[d] \in Seq(Entries) /\ LogOK(g.out[d], g.log[d])
  BY DEF Registries
<1>2. g.log[d] # <<>> => g.out[d] \in Nat
  <2> SUFFICES ASSUME g.log[d] # <<>> PROVE g.out[d] \in Nat
    OBVIOUS
  <2>1. Len(g.log[d]) \in 1..Len(g.log[d])
    BY <1>1, EmptySeq, LenProperties
  <2>2. g.log[d][Len(g.log[d])] \in Entries
    BY <1>1, <2>1, ElementOfSeq
  <2> QED
    BY <1>1, <2>2 DEF LogOK, Entries
<1> QED
  BY <1>1, <1>2 DEF NextSeq, NoStream

\* The registry after its parts: a record of them is one.
LEMMA RegistryOf ==
  ASSUME NEW out \in [Devices -> Nat \cup {NoStream}], NEW log \in [Devices -> Seq(Entries)],
         NEW lru \in Seq(Devices), \A d \in Devices : LogOK(out[d], log[d])
  PROVE  [out |-> out, log |-> log, lru |-> lru] \in Registries
BY DEF Registries

\* The parts of a registry.
LEMMA RegistryParts ==
  ASSUME NEW g \in Registries
  PROVE  /\ g.out \in [Devices -> Nat \cup {NoStream}]
         /\ g.log \in [Devices -> Seq(Entries)]
         /\ g.lru \in Seq(Devices)
         /\ \A d \in Devices : LogOK(g.out[d], g.log[d])
BY DEF Registries

\* A device pushed out of the log leaves a registry.
LEMMA EvictType ==
  ASSUME NEW g \in Registries, NEW d
  PROVE  Evict(g, d) \in Registries
<1> USE RegistryParts
<1> DEFINE out == [g.out EXCEPT ![d] = NoStream]
           log == [g.log EXCEPT ![d] = <<>>]
<1>1. out \in [Devices -> Nat \cup {NoStream}]
  OBVIOUS
<1>2. log \in [Devices -> Seq(Entries)]
  BY EmptySeq
<1>3. \A x \in Devices : LogOK(out[x], log[x])
  <2> SUFFICES ASSUME NEW x \in Devices PROVE LogOK(out[x], log[x])
    OBVIOUS
  <2>1. CASE x = d
    BY <2>1, EmptySeq, DeliveryAssumption DEF LogOK
  <2>2. CASE x # d
    BY <2>2
  <2> QED
    BY <2>1, <2>2
<1>4. Without(g.lru, d) \in Seq(Devices)
  BY WithoutType
<1> HIDE DEF out, log
<1>5. [out |-> out, log |-> log, lru |-> Without(g.lru, d)] \in Registries
  BY <1>1, <1>2, <1>3, <1>4, RegistryOf
<1> QED
  BY <1>5 DEF Evict, out, log

\* recordSent, an eviction included, keeps every log an unbroken run of seqs that ends
\* at the device's counter.
LEMMA RecordSentType ==
  ASSUME NEW g \in Registries, NEW d \in Devices, NEW item \in Items
  PROVE  RecordSent(g, d, item) \in Registries
<1> DEFINE seq == NextSeq(g, d)
           e   == [seq |-> seq, item |-> item]
           new == Keep(Append(g.log[d], e))
           out == [g.out EXCEPT ![d] = seq]
           log == [g.log EXCEPT ![d] = new]
           lru == IF g.log[d] = <<>> THEN Append(g.lru, d) ELSE g.lru
           g1  == [out |-> out, log |-> log, lru |-> lru]
<1>1. /\ g.out \in [Devices -> Nat \cup {NoStream}]
      /\ g.log \in [Devices -> Seq(Entries)]
      /\ g.lru \in Seq(Devices)
      /\ \A x \in Devices : LogOK(g.out[x], g.log[x])
  BY RegistryParts
<1>2. seq \in Nat /\ (g.log[d] # <<>> => seq = g.out[d] + 1)
  BY NextSeqType
<1>3. RecordSent(g, d, item) =
        IF g.log[d] = <<>> /\ Len(lru) > MaxDevices THEN Evict(g1, Head(lru)) ELSE g1
  BY <1>1 DEF RecordSent
<1> HIDE DEF seq
<1>4. e \in Entries /\ e.seq = seq
  BY <1>2 DEF Entries
<1> HIDE DEF e
<1>5. new \in Seq(Entries) /\ LogOK(seq, new)
  BY <1>1, <1>2, <1>4, KeepIsContiguous
<1> HIDE DEF new
<1>6. out \in [Devices -> Nat \cup {NoStream}]
  BY <1>1, <1>2
<1>7. log \in [Devices -> Seq(Entries)]
  BY <1>1, <1>5
<1>8. \A x \in Devices : LogOK(out[x], log[x])
  BY <1>1, <1>5
<1>9. lru \in Seq(Devices)
  BY <1>1, AppendProperties
<1> HIDE DEF out, log, lru
<1>10. g1 \in Registries
  BY <1>6, <1>7, <1>8, <1>9, RegistryOf
<1> HIDE DEF g1
<1> QED
  BY <1>3, <1>10, EvictType

\* touch leaves the logs alone.
LEMMA TouchType ==
  ASSUME NEW g \in Registries, NEW d \in Devices
  PROVE  Touch(g, d) \in Registries
<1> DEFINE out == [g.out EXCEPT ![d] = IF @ = NoStream THEN 0 ELSE @]
           lru == IF g.log[d] = <<>> THEN g.lru ELSE Append(Without(g.lru, d), d)
<1>1. /\ g.out \in [Devices -> Nat \cup {NoStream}]
      /\ g.log \in [Devices -> Seq(Entries)]
      /\ g.lru \in Seq(Devices)
      /\ \A x \in Devices : LogOK(g.out[x], g.log[x])
  BY RegistryParts
<1>2. out \in [Devices -> Nat \cup {NoStream}]
  BY <1>1
<1>3. lru \in Seq(Devices)
  BY <1>1, WithoutType, AppendProperties
<1>4. \A x \in Devices : LogOK(out[x], g.log[x])
  <2> SUFFICES ASSUME NEW x \in Devices PROVE LogOK(out[x], g.log[x])
    OBVIOUS
  <2>1. CASE g.log[x] = <<>>
    BY <2>1, EmptySeq, DeliveryAssumption DEF LogOK
  <2>2. CASE g.log[x] # <<>>
    <3>1. g.out[x] # NoStream
      BY <2>2, NextSeqType DEF NextSeq, NoStream
    <3> QED
      BY <1>1, <3>1
  <2> QED
    BY <2>1, <2>2
<1> HIDE DEF out, lru
<1>5. [out |-> out, log |-> g.log, lru |-> lru] \in Registries
  BY <1>1, <1>2, <1>3, <1>4, RegistryOf
<1> QED
  BY <1>5 DEF Touch, out, lru

\* Whatever is recorded one after the other, the registry stays one.
LEMMA RecordingType ==
  ASSUME NEW g \in Registries, NEW todo, Len(todo) \in Nat,
         \A i \in 1..Len(todo) : todo[i].device \in Devices /\ todo[i].item \in Items
  PROVE  \A i \in 0..Len(todo) : Recording(g, todo)[i] \in Registries
<1> DEFINE r == Recording(g, todo)
           S == {i \in Nat : i <= Len(todo) => r[i] \in Registries}
<1>1. r[0] = g /\ \A i \in 1..Len(todo) :
        r[i] = RecordSent(r[i - 1], todo[i].device, todo[i].item)
  BY RecordingDef
<1> HIDE DEF r
<1>2. 0 \in S
  BY <1>1
<1>3. ASSUME NEW n \in S PROVE n + 1 \in S
  <2> SUFFICES ASSUME n + 1 <= Len(todo) PROVE r[n + 1] \in Registries
    OBVIOUS
  <2>1. n + 1 \in 1..Len(todo) /\ (n + 1) - 1 = n /\ r[n] \in Registries
    OBVIOUS
  <2>2. r[n + 1] = RecordSent(r[n], todo[n + 1].device, todo[n + 1].item)
    BY <1>1, <2>1
  <2> QED
    BY <2>1, <2>2, RecordSentType
<1> HIDE DEF S
<1>4. S \in SUBSET Nat
  BY DEF S
<1>5. \A i \in Nat : i \in S
  BY <1>2, <1>3, <1>4, NatSetInduction
<1> QED
  BY <1>5 DEF S, r

\* sendSealed for a list of items leaves a registry, and yields one frame for each.
LEMMA SendAllType ==
  ASSUME NEW g \in Registries, NEW d \in Devices, NEW items \in Seq(Items)
  PROVE  /\ SendAll(g, d, items).reg \in Registries
         /\ SendAll(g, d, items).frames \in Seq(Frames)
<1> DEFINE todo == [i \in 1..Len(items) |-> [device |-> d, item |-> items[i]]]
           r == Recording(g, todo)
<1>1. Len(items) \in Nat /\ \A i \in 1..Len(items) : items[i] \in Items
  BY LenProperties, ElementOfSeq
<1>2. todo \in Seq([device : Devices, item : Items]) /\ Len(todo) = Len(items)
  BY <1>1, IsASeq
<1>3. \A i \in 1..Len(todo) : todo[i].device \in Devices /\ todo[i].item \in Items
  BY <1>1, <1>2
<1>4. SendAll(g, d, items) =
        [reg |-> r[Len(items)],
         frames |-> [i \in 1..Len(items) |-> Frame(NextSeq(r[i - 1], d), items[i])]]
  BY DEF SendAll
<1> HIDE DEF todo
<1>5. \A i \in 0..Len(items) : r[i] \in Registries
  BY <1>1, <1>2, <1>3, RecordingType
<1> HIDE DEF r
<1>6. \A i \in 1..Len(items) : Frame(NextSeq(r[i - 1], d), items[i]) \in Frames
  <2> SUFFICES ASSUME NEW i \in 1..Len(items)
               PROVE  Frame(NextSeq(r[i - 1], d), items[i]) \in Frames
    OBVIOUS
  <2>1. i - 1 \in 0..Len(items)
    BY <1>1
  <2>2. NextSeq(r[i - 1], d) \in Nat
    BY <1>5, <2>1, NextSeqType
  <2> QED
    BY <1>1, <2>2, ItemTypes
<1>7. Len(items) \in 0..Len(items)
  BY <1>1
<1>8. [i \in 1..Len(items) |-> Frame(NextSeq(r[i - 1], d), items[i])] \in Seq(Frames)
  BY <1>1, <1>6, IsASeq
<1> QED
  BY <1>4, <1>5, <1>7, <1>8

\* The seqs of a log count up to the counter.
LEMMA LogCounts ==
  ASSUME NEW log \in Seq(Entries), NEW out, LogOK(out, log)
  PROVE  \A i \in 1..Len(log) : log[i].seq = out - Len(log) + i
<1>1. Len(log) \in Nat /\ \A i \in 1..Len(log) : log[i] \in Entries
  BY LenProperties, ElementOfSeq
<1> DEFINE n == Len(log)
           S == {k \in Nat : k < n => log[n - k].seq = out - k}
<1>2. 0 \in S
  <2> SUFFICES ASSUME 0 < n PROVE log[n - 0].seq = out - 0
    OBVIOUS
  <2>1. log # <<>> /\ n - 0 = n
    BY <1>1, EmptySeq
  <2>2. log[n].seq = out /\ log[n].seq \in Nat
    BY <1>1, <2>1 DEF LogOK, Entries
  <2>3. out - 0 = out
    BY <2>2
  <2> QED
    BY <2>1, <2>2, <2>3
<1>3. ASSUME NEW k \in S PROVE k + 1 \in S
  <2> SUFFICES ASSUME k + 1 < n PROVE log[n - (k + 1)].seq = out - (k + 1)
    OBVIOUS
  <2>1. n - (k + 1) \in 1..n - 1 /\ (n - (k + 1)) + 1 = n - k /\ k < n /\ n - k \in 1..n
    BY <1>1
  <2>2. log[n - k].seq = log[n - (k + 1)].seq + 1
    BY <2>1 DEF LogOK
  <2>3. log[n - k].seq = out - k
    BY <2>1
  <2>4. n - (k + 1) \in 1..n /\ n \in 1..n /\ log # <<>>
    BY <1>1, <2>1, EmptySeq
  <2>5. log[n - (k + 1)].seq \in Nat /\ out \in Nat
    BY <1>1, <2>4 DEF Entries, LogOK
  <2> QED
    BY <2>2, <2>3, <2>5
<1> HIDE DEF S
<1>4. S \in SUBSET Nat
  BY DEF S
<1>5. \A k \in Nat : k \in S
  BY <1>2, <1>3, <1>4, NatSetInduction
<1> SUFFICES ASSUME NEW i \in 1..n PROVE log[i].seq = out - n + i
  OBVIOUS
<1>6. n - i \in Nat /\ n - i < n /\ n - (n - i) = i
  BY <1>1
<1>7. log[i].seq = out - (n - i)
  BY <1>5, <1>6 DEF S
<1>8. out \in Nat
  <2>1. log # <<>> /\ n \in 1..n
    BY <1>1, EmptySeq
  <2> QED
    BY <1>1, <2>1 DEF LogOK, Entries
<1> QED
  BY <1>1, <1>7, <1>8

\* What is replayed is the end of the log: all entries after lastSeq, in their order.
LEMMA ReplayedIsSuffix ==
  ASSUME NEW g \in Registries, NEW d \in Devices, NEW lastSeq \in Int
  PROVE  LET log == g.log[d] IN
         \E k \in 0..Len(log) :
           /\ \A i \in 1..Len(log) : log[i].seq > lastSeq <=> i > k
           /\ Replayed(g, d, lastSeq) =
                [i \in 1..Len(log) - k |-> Frame(log[k + i].seq, log[k + i].item)]
<1> DEFINE log == g.log[d]
           out == g.out[d]
           n   == Len(log)
           P(k) == \A i \in 1..n : log[i].seq > lastSeq <=> i > k
<1>1. log \in Seq(Entries) /\ LogOK(out, log) /\ out \in Nat \cup {NoStream}
  BY RegistryParts
<1>2. n \in Nat
  BY <1>1, LenProperties
<1>3. \A i \in 1..n : log[i].seq = out - n + i
  BY <1>1, LogCounts
<1>4. \E k \in 0..n : P(k)
  <2>0. out \in Int
    BY <1>1 DEF NoStream
  <2> HIDE DEF log, out, n
  <2>1. CASE lastSeq <= out - n
    <3>1. P(0) /\ 0 \in 0..n
      BY <1>2, <1>3, <2>0, <2>1
    <3> QED
      BY <3>1
  <2>2. CASE lastSeq >= out
    <3>1. P(n) /\ n \in 0..n
      BY <1>2, <1>3, <2>0, <2>2
    <3> QED
      BY <3>1
  <2>3. CASE lastSeq > out - n /\ lastSeq < out
    <3> DEFINE m == lastSeq - (out - n)
    <3>1. P(m) /\ m \in 0..n
      BY <1>2, <1>3, <2>0, <2>3
    <3> QED
      BY <3>1
  <2> QED
    BY <2>0, <2>1, <2>2, <2>3, <1>2
<1> DEFINE skip == CHOOSE k \in 0..n : P(k)
<1>5. skip \in 0..n /\ P(skip)
  BY <1>4
<1>6. Replayed(g, d, lastSeq) =
        [i \in 1..n - skip |-> Frame(log[skip + i].seq, log[skip + i].item)]
  BY DEF Replayed
<1> HIDE DEF skip
<1> QED
  BY <1>5, <1>6

\* The frames of a replay.
LEMMA ReplayedType ==
  ASSUME NEW g \in Registries, NEW d \in Devices, NEW lastSeq \in Int
  PROVE  Replayed(g, d, lastSeq) \in Seq(Frames)
<1> DEFINE log == g.log[d]
<1>1. log \in Seq(Entries) /\ Len(log) \in Nat /\ \A i \in 1..Len(log) : log[i] \in Entries
  BY RegistryParts, LenProperties, ElementOfSeq
<1>2. PICK k \in 0..Len(log) : Replayed(g, d, lastSeq) =
        [i \in 1..Len(log) - k |-> Frame(log[k + i].seq, log[k + i].item)]
  BY ReplayedIsSuffix
<1> HIDE DEF log
<1>3. \A i \in 1..Len(log) - k : Frame(log[k + i].seq, log[k + i].item) \in Frames
  <2> SUFFICES ASSUME NEW i \in 1..Len(log) - k
               PROVE  Frame(log[k + i].seq, log[k + i].item) \in Frames
    OBVIOUS
  <2>1. k + i \in 1..Len(log)
    BY <1>1
  <2>2. log[k + i].seq \in Nat /\ log[k + i].item \in Items
    BY <1>1, <2>1 DEF Entries
  <2> QED
    BY <2>2, ItemTypes
<1>4. Len(log) - k \in Nat
  BY <1>1
<1> QED
  BY <1>2, <1>3, <1>4, IsASeq

\* Short sequences.
LEMMA Tuples ==
  ASSUME NEW S, NEW x \in S, NEW y \in S, NEW z \in S
  PROVE  <<x>> \in Seq(S) /\ <<x, y>> \in Seq(S) /\ <<x, y, z>> \in Seq(S)
OBVIOUS

\* The items of a snapshot: the sessions, the open approval if there is one, the jobs.
LEMMA SnapshotType ==
  ASSUME open \subseteq 1..MaxPublished, published \in 0..MaxPublished
  PROVE  /\ Snapshot \in Seq(Items)
         /\ open = {} => Snapshot = <<Sessions, Jobs(published)>>
         /\ \A a : open = {a} => Snapshot = <<Sessions, Pending(0, a), Jobs(published)>>
<1> DEFINE a == CHOOSE x \in open : TRUE
<1>1. Sessions \in Items /\ Jobs(published) \in Items
  BY ItemTypes
<1>2. open = {} => Snapshot = <<Sessions, Jobs(published)>>
  BY DEF Snapshot
<1>3. open # {} => Snapshot = <<Sessions, Pending(0, a), Jobs(published)>>
  BY DEF Snapshot
<1>4. open # {} => a \in open
  OBVIOUS
<1> HIDE DEF a
<1>5. 0 \in 0..MaxPublished
  BY DeliveryAssumption
<1>6. open # {} => Pending(0, a) \in Items
  BY <1>4, <1>5, ItemTypes
<1>7. Snapshot \in Seq(Items)
  <2>1. CASE open = {}
    BY <1>1, <1>2, <2>1, Tuples
  <2>2. CASE open # {}
    BY <1>1, <1>3, <1>6, <2>2, Tuples
  <2> QED
    BY <2>1, <2>2
<1>8. ASSUME NEW b, open = {b} PROVE Snapshot = <<Sessions, Pending(0, b), Jobs(published)>>
  BY <1>3, <1>4, <1>8
<1> QED
  BY <1>2, <1>7, <1>8

\* An enumeration of a set of devices lists each of them once.
LEMMA EnumerationProperties ==
  ASSUME NEW S \in SUBSET Devices, NEW q \in SetToSeqs(S)
  PROVE  /\ q \in Seq(S)
         /\ Len(q) \in Nat
         /\ \A i \in 1..Len(q) : q[i] \in S
         /\ \A i, j \in 1..Len(q) : q[i] = q[j] => i = j
         /\ \A x \in S : \E i \in 1..Len(q) : q[i] = x
<1> DEFINE n == Cardinality(S)
<1>1. IsFiniteSet(S)
  BY FS_Subset, DeliveryAssumption
<1>2. n \in Nat
  BY <1>1, FS_CardinalityType
<1>3. q \in [1..n -> S] /\ \A i, j \in 1..n : i # j => q[i] # q[j]
  BY DEF SetToSeqs
<1> HIDE DEF n
<1>4. q \in Seq(S) /\ Len(q) = n
  BY <1>2, <1>3
<1>5. q \in Injection(1..n, S)
  BY <1>3 DEF Injection, IsInjective
<1>6. Cardinality(1..n) = n
  <2>1. 1 \in Int /\ n \in Int
    BY <1>2
  <2>2. Cardinality(1..n) = IF 1 > n THEN 0 ELSE n - 1 + 1
    BY <2>1, FS_Interval
  <2> QED
    BY <2>2, <1>2
<1>7. q \in Surjection(1..n, S)
  BY <1>1, <1>5, <1>6, FS_Injection DEF n
<1>8. \A x \in S : \E i \in 1..n : q[i] = x
  BY <1>7 DEF Surjection
<1> QED
  BY <1>2, <1>3, <1>4, <1>8

\* The connected devices are devices.
LEMMA ConnectedType ==
  /\ Connected \subseteq Devices
  /\ \A c \in Clients : DeviceOf[c] \in Devices /\ (sock[c] = "auth" => DeviceOf[c] \in Connected)
BY DeliveryAssumption DEF Connected

\* broadcast leaves a registry and well-formed frames.
LEMMA BroadcastType ==
  ASSUME TypeInv, NEW item \in Items, Broadcast(item)
  PROVE  reg' \in Registries /\ down' \in [Clients -> Seq(Frames)]
<1> DEFINE RF(g, devs) == RecordFor(g, devs, item)
<1>1. PICK online \in SetToSeqs(Connected) :
        LET live   == RF(reg, online)
            after  == live[Len(online)]
            at(d)  == CHOOSE i \in 1..Len(online) : online[i] = d
            seq(d) == NextSeq(live[at(d) - 1], d)
        IN
        \E offline \in SetToSeqs({d \in Devices : after.out[d] # NoStream} \ Connected) :
          /\ reg' = RF(after, offline)[Len(offline)]
          /\ down' = [c \in Clients |->
               IF sock[c] = "auth" THEN Append(down[c], Frame(seq(DeviceOf[c]), item))
                                   ELSE down[c]]
  BY DEF Broadcast
<1> DEFINE live   == RF(reg, online)
           after  == live[Len(online)]
           at(d)  == CHOOSE i \in 1..Len(online) : online[i] = d
           seq(d) == NextSeq(live[at(d) - 1], d)
           Off    == {d \in Devices : after.out[d] # NoStream} \ Connected
<1>2. PICK offline \in SetToSeqs(Off) :
          /\ reg' = RF(after, offline)[Len(offline)]
          /\ down' = [c \in Clients |->
               IF sock[c] = "auth" THEN Append(down[c], Frame(seq(DeviceOf[c]), item))
                                   ELSE down[c]]
  BY <1>1
<1>3. ASSUME NEW g \in Registries, NEW S \in SUBSET Devices, NEW q \in SetToSeqs(S)
      PROVE  \A i \in 0..Len(q) : RF(g, q)[i] \in Registries
  <2> DEFINE todo == [i \in 1..Len(q) |-> [device |-> q[i], item |-> item]]
  <2>1. Len(q) \in Nat /\ \A i \in 1..Len(q) : q[i] \in Devices
    BY <1>3, EnumerationProperties
  <2>2. Len(todo) = Len(q)
    BY <2>1
  <2>3. \A i \in 1..Len(todo) : todo[i].device \in Devices /\ todo[i].item \in Items
    BY <2>1, <2>2
  <2>4. RF(g, q) = Recording(g, todo)
    BY DEF RecordFor
  <2> HIDE DEF todo
  <2> QED
    BY <1>3, <2>1, <2>2, <2>3, <2>4, RecordingType
<1> HIDE DEF RF
<1>4. reg \in Registries /\ down \in [Clients -> Seq(Frames)]
  BY DEF TypeInv
<1>5. \A i \in 0..Len(online) : live[i] \in Registries
  BY <1>3, <1>4, ConnectedType
<1>6. Len(online) \in Nat /\ \A x \in Connected : at(x) \in 1..Len(online) /\ online[at(x)] = x
  <2>1. Len(online) \in Nat /\ \A x \in Connected : \E i \in 1..Len(online) : online[i] = x
    BY ConnectedType, EnumerationProperties
  <2> QED
    BY <2>1
<1>7. after \in Registries
  <2>1. Len(online) \in 0..Len(online)
    BY <1>6
  <2> QED
    BY <1>5, <2>1
<1>8. Off \in SUBSET Devices
  OBVIOUS
<1> HIDE DEF after, Off, live, at
<1>9. reg' \in Registries
  <2>1. Len(offline) \in Nat
    BY <1>8, EnumerationProperties
  <2>2. Len(offline) \in 0..Len(offline)
    BY <2>1
  <2>3. \A i \in 0..Len(offline) : RF(after, offline)[i] \in Registries
    BY <1>3, <1>7, <1>8
  <2> QED
    BY <1>2, <2>2, <2>3
<1>10. \A c \in Clients : sock[c] = "auth" => Frame(seq(DeviceOf[c]), item) \in Frames
  <2> SUFFICES ASSUME NEW c \in Clients, sock[c] = "auth"
               PROVE  Frame(seq(DeviceOf[c]), item) \in Frames
    OBVIOUS
  <2>1. DeviceOf[c] \in Devices /\ DeviceOf[c] \in Connected
    BY ConnectedType
  <2>2. at(DeviceOf[c]) - 1 \in 0..Len(online)
    BY <1>6, <2>1
  <2>3. seq(DeviceOf[c]) \in Nat
    BY <1>5, <2>1, <2>2, NextSeqType
  <2> HIDE DEF seq
  <2> QED
    BY <2>3, ItemTypes
<1> HIDE DEF seq
<1>11. \A c \in Clients : sock[c] = "auth" =>
         Append(down[c], Frame(seq(DeviceOf[c]), item)) \in Seq(Frames)
  BY <1>4, <1>10, AppendProperties
<1>12. down' \in [Clients -> Seq(Frames)]
  BY <1>2, <1>4, <1>11
<1> QED
  BY <1>9, <1>12

\* A registry's log is what TypeOK says of it.
LEMMA TypeOKOfRegistry ==
  ASSUME NEW g \in Registries
  PROVE  /\ g.out \in [Devices -> Int]
         /\ \A d \in Devices : \A i \in 1..Len(g.log[d]) : g.log[d][i].seq \in Nat
         /\ \A d \in Devices :
              /\ Len(g.log[d]) <= MaxEvents
              /\ g.log[d] # <<>> => g.out[d] = g.log[d][Len(g.log[d])].seq
              /\ \A i \in 1..Len(g.log[d]) - 1 : g.log[d][i + 1].seq = g.log[d][i].seq + 1
<1>1. /\ g.out \in [Devices -> Nat \cup {NoStream}]
      /\ g.log \in [Devices -> Seq(Entries)]
      /\ \A d \in Devices : LogOK(g.out[d], g.log[d])
  BY RegistryParts
<1>2. \A d \in Devices : \A i \in 1..Len(g.log[d]) : g.log[d][i] \in Entries
  BY <1>1, ElementOfSeq
<1>3. \A d \in Devices : \A i \in 1..Len(g.log[d]) : g.log[d][i].seq \in Nat
  BY <1>2 DEF Entries
<1>4. g.out \in [Devices -> Int]
  BY <1>1 DEF NoStream
<1> QED
  BY <1>1, <1>3, <1>4 DEF LogOK

\* The parts of the type invariant that are about the clients.
ClientTypes ==
  /\ sock \in [Clients -> {"closed", "open", "auth"}]
  /\ hello \in [Clients -> Int]
  /\ key \in [Clients -> BOOLEAN]
  /\ highest \in [Clients -> Nat]
  /\ seen \in [Clients -> SUBSET Nat]
  /\ known \in [Clients -> SUBSET (1..MaxPublished)]
  /\ screen \in [Clients -> SUBSET (1..MaxPublished)]

\* The type invariant in parts.
LEMMA TypeInvParts ==
  /\ TypeInv <=>
       /\ reg \in Registries
       /\ down \in [Clients -> Seq(Frames)]
       /\ open \subseteq 1..MaxPublished
       /\ published \in 0..MaxPublished
       /\ ClientTypes
  /\ TypeInv' <=>
       /\ reg' \in Registries
       /\ down' \in [Clients -> Seq(Frames)]
       /\ open' \subseteq 1..MaxPublished
       /\ published' \in 0..MaxPublished
       /\ ClientTypes'
BY TypeOKOfRegistry DEF TypeInv, TypeOK, LogIsContiguous, ClientTypes

\* The registry of a daemon that has just started.
LEMMA NewRegistryType == NewRegistry \in Registries
<1>1. \A d \in Devices : LogOK(NoStream, <<>>)
  BY DeliveryAssumption, EmptySeq DEF LogOK
<1>2. <<>> \in Seq(Entries) /\ <<>> \in Seq(Devices)
  BY EmptySeq
<1>3. [d \in Devices |-> NoStream] \in [Devices -> Nat \cup {NoStream}]
  OBVIOUS
<1>4. [d \in Devices |-> <<>>] \in [Devices -> Seq(Entries)]
  BY <1>2
<1>5. \A d \in Devices : LogOK([x \in Devices |-> NoStream][d], [x \in Devices |-> <<>>][d])
  BY <1>1
<1> QED
  BY <1>2, <1>3, <1>4, <1>5, RegistryOf DEF NewRegistry

\* The initial states have the type.
LEMMA InitType == Init => TypeInv
<1> SUFFICES ASSUME Init PROVE TypeInv
  OBVIOUS
<1>1. NewRegistry \in Registries
  BY NewRegistryType
<1>2. down \in [Clients -> Seq(Frames)]
  BY EmptySeq DEF Init
<1>3. published \in 0..MaxPublished
  BY DeliveryAssumption DEF Init
<1>4. ClientTypes
  BY DEF Init, ClientTypes, NoHello
<1> QED
  BY <1>1, <1>2, <1>3, <1>4, TypeInvParts DEF Init

\* hello leaves a registry and well-formed frames.
LEMMA HelloType ==
  ASSUME TypeInv, NEW c \in Clients, NEW acks \in {<<>>, <<Private>>}, Hello(c, acks)
  PROVE  reg' \in Registries /\ down' \in [Clients -> Seq(Frames)]
<1> DEFINE d       == DeviceOf[c]
           g       == Touch(reg, d)
           resumes == Resumes(reg, d, hello[c])
           first   == IF resumes THEN [reg |-> g, frames |-> Replayed(g, d, hello[c])]
                                 ELSE SendAll(g, d, Snapshot)
           last    == SendAll(first.reg, d, acks)
<1>1. /\ reg \in Registries /\ down \in [Clients -> Seq(Frames)] /\ hello[c] \in Int
      /\ open \subseteq 1..MaxPublished /\ published \in 0..MaxPublished
  BY TypeInvParts DEF ClientTypes
<1>2. reg' = last.reg
      /\ down' = [down EXCEPT ![c] = @ \o <<Salt(resumes)>> \o first.frames \o last.frames]
  BY DEF Hello
<1>3. d \in Devices
  BY DeliveryAssumption
<1>4. g \in Registries
  BY <1>1, <1>3, TouchType
<1>5. acks \in Seq(Items) /\ Snapshot \in Seq(Items)
  BY <1>1, ItemTypes, EmptySeq, Tuples, SnapshotType
<1>6. resumes \in BOOLEAN
  BY DEF Resumes
<1> HIDE DEF g, resumes, d
<1>7. first.reg \in Registries /\ first.frames \in Seq(Frames)
  <2>1. CASE resumes
    BY <1>1, <1>3, <1>4, <2>1, ReplayedType
  <2>2. CASE ~resumes
    BY <1>3, <1>4, <1>5, <2>2, SendAllType
  <2> QED
    BY <2>1, <2>2
<1> HIDE DEF first
<1>8. last.reg \in Registries /\ last.frames \in Seq(Frames)
  BY <1>3, <1>5, <1>7, SendAllType
<1> HIDE DEF last
<1>9. <<Salt(resumes)>> \in Seq(Frames)
  BY <1>6, ItemTypes, Tuples
<1>10. down[c] \o <<Salt(resumes)>> \in Seq(Frames)
  BY <1>1, <1>9, ConcatProperties
<1>11. down[c] \o <<Salt(resumes)>> \o first.frames \in Seq(Frames)
  BY <1>7, <1>10, ConcatProperties
<1>12. down[c] \o <<Salt(resumes)>> \o first.frames \o last.frames \in Seq(Frames)
  BY <1>8, <1>11, ConcatProperties
<1> QED
  BY <1>1, <1>2, <1>8, <1>12

\* A frame handed on keeps the types: what it tells of are events and approvals.
LEMMA ReceiveFrameType ==
  ASSUME TypeInv, NEW c \in Clients, ReceiveFrame(c)
  PROVE  TypeInv'
<1>1. /\ reg \in Registries /\ down \in [Clients -> Seq(Frames)]
      /\ open \subseteq 1..MaxPublished /\ published \in 0..MaxPublished /\ ClientTypes
  BY TypeInvParts
<1>2. /\ UNCHANGED <<reg, open, published, sock, hello, key>> /\ down[c] # <<>>
      /\ down' = [down EXCEPT ![c] = Tail(@)]
  BY DEF ReceiveFrame
<1>3. down' \in [Clients -> Seq(Frames)]
  BY <1>1, <1>2, HeadTailProperties
<1> DEFINE f == Head(down[c])
<1>4. f.seq \in Nat /\ f.item \in Items
  <2>1. f \in Frames
    BY <1>1, <1>2, HeadTailProperties
  <2> HIDE DEF f
  <2> QED
    BY <2>1 DEF Frames
<1>5. ClientTypes'
  <2>1. CASE Duplicate(c, f.seq)
    <3>1. UNCHANGED <<highest, seen, screen, known>>
      BY <2>1 DEF ReceiveFrame
    <3> QED
      BY <1>1, <1>2, <3>1 DEF ClientTypes
  <2>2. CASE ~Duplicate(c, f.seq)
    <3>1. /\ seen' = [seen EXCEPT ![c] = @ \cup {f.seq}]
          /\ highest' = [highest EXCEPT ![c] = IF f.seq > @ THEN f.seq ELSE @]
          /\ known' = [known EXCEPT ![c] = @ \cup Learnt(f.item)]
          /\ screen' = [screen EXCEPT ![c] = ApplyEvent(@, f.item)]
      BY <2>2 DEF ReceiveFrame
    <3> HIDE DEF f
    <3>2. Learnt(f.item) \subseteq 1..MaxPublished
      <4>1. f.item.n \in 0..MaxPublished /\ MaxPublished \in Nat
        BY <1>4, DeliveryAssumption DEF Items
      <4>2. 1..f.item.n \subseteq 1..MaxPublished
        BY <4>1
      <4>3. f.item.n # 0 => {f.item.n} \subseteq 1..MaxPublished
        BY <4>1
      <4> QED
        BY <4>2, <4>3 DEF Learnt
    <3>3. ApplyEvent(screen[c], f.item) \subseteq 1..MaxPublished
      <4>1. screen[c] \subseteq 1..MaxPublished
        BY <1>1 DEF ClientTypes
      <4>2. f.item.kind = "pending" => f.item.approval \in 1..MaxPublished
        BY <1>4, DeliveryAssumption DEF Items
      <4> QED
        BY <4>1, <4>2 DEF ApplyEvent
    <3>4. seen' \in [Clients -> SUBSET Nat] /\ highest' \in [Clients -> Nat]
      BY <1>1, <1>4, <3>1 DEF ClientTypes
    <3>5. known' \in [Clients -> SUBSET (1..MaxPublished)]
      BY <1>1, <3>1, <3>2 DEF ClientTypes
    <3>6. screen' \in [Clients -> SUBSET (1..MaxPublished)]
      BY <1>1, <3>1, <3>3 DEF ClientTypes
    <3> QED
      BY <1>1, <1>2, <3>4, <3>5, <3>6 DEF ClientTypes
  <2> QED
    BY <2>1, <2>2
<1> QED
  BY <1>1, <1>2, <1>3, <1>5, TypeInvParts

\* Every step keeps the type invariant.
LEMMA TypeStep == TypeInv /\ [Next]_vars => TypeInv'
<1> SUFFICES ASSUME TypeInv, [Next]_vars PROVE TypeInv'
  OBVIOUS
<1>1. /\ reg \in Registries /\ down \in [Clients -> Seq(Frames)]
      /\ open \subseteq 1..MaxPublished /\ published \in 0..MaxPublished /\ ClientTypes
  BY TypeInvParts
<1>2. CASE UNCHANGED vars
  BY <1>1, <1>2, TypeInvParts DEF vars, clientVars, view, ClientTypes
<1>3. ASSUME NEW c \in Clients, NEW acks \in {<<>>, <<Private>>}, Hello(c, acks)
      PROVE  TypeInv'
  <2>1. reg' \in Registries /\ down' \in [Clients -> Seq(Frames)]
    BY <1>3, HelloType
  <2>2. /\ sock' = [sock EXCEPT ![c] = "auth"] /\ hello' = [hello EXCEPT ![c] = NoHello]
        /\ UNCHANGED <<clientVars, open, published>>
    BY <1>3 DEF Hello
  <2>3. ClientTypes'
    BY <1>1, <2>2 DEF ClientTypes, clientVars, view, NoHello
  <2> QED
    BY <1>1, <2>1, <2>2, <2>3, TypeInvParts
<1>4. CASE Publish
  <2>1. /\ published' = published + 1 /\ published < MaxPublished
        /\ UNCHANGED <<sock, hello, clientVars>>
    BY <1>4 DEF Publish
  <2>2. published' \in 1..MaxPublished /\ published' \in 0..MaxPublished
    BY <1>1, <2>1, DeliveryAssumption
  <2>3. open' \subseteq 1..MaxPublished /\ \E item \in Items : Broadcast(item)
    <3>1. CASE open' = {published'} /\ Broadcast(Pending(published', published'))
      BY <2>2, <3>1, ItemTypes
    <3>2. CASE \E a \in open : open' = {} /\ Broadcast(Resolved(published', a))
      BY <1>1, <2>2, <3>2, ItemTypes
    <3> QED
      BY <1>4, <3>1, <3>2 DEF Publish
  <2>4. reg' \in Registries /\ down' \in [Clients -> Seq(Frames)]
    BY <2>3, BroadcastType
  <2>5. ClientTypes'
    BY <1>1, <2>1 DEF ClientTypes, clientVars, view
  <2> QED
    BY <2>2, <2>3, <2>4, <2>5, TypeInvParts
<1>5. ASSUME NEW c \in Clients, SendTo(c) PROVE TypeInv'
  <2> DEFINE sent == SendAll(reg, DeviceOf[c], <<Private>>)
  <2>1. /\ reg' = sent.reg /\ down' = [down EXCEPT ![c] = @ \o sent.frames]
        /\ UNCHANGED <<sock, hello, clientVars, open, published>>
    BY <1>5 DEF SendTo
  <2>2. DeviceOf[c] \in Devices /\ <<Private>> \in Seq(Items)
    BY DeliveryAssumption, ItemTypes, Tuples
  <2>3. sent.reg \in Registries /\ sent.frames \in Seq(Frames)
    BY <1>1, <2>2, SendAllType
  <2> HIDE DEF sent
  <2>4. down[c] \o sent.frames \in Seq(Frames)
    BY <1>1, <2>3, ConcatProperties
  <2>5. down' \in [Clients -> Seq(Frames)]
    BY <1>1, <2>1, <2>4
  <2>6. ClientTypes'
    BY <1>1, <2>1 DEF ClientTypes, clientVars, view
  <2> QED
    BY <1>1, <2>1, <2>3, <2>5, <2>6, TypeInvParts
<1>6. CASE Restart
  <2>1. /\ reg' = NewRegistry /\ down' = [x \in Clients |-> <<>>] /\ open' = {}
        /\ sock' = [x \in Clients |-> "closed"] /\ hello' = [x \in Clients |-> NoHello]
        /\ key' = [x \in Clients |-> FALSE]
        /\ UNCHANGED <<highest, seen, screen, known, published>>
    BY <1>6 DEF Restart, view
  <2>2. reg' \in Registries
    BY <2>1, NewRegistryType
  <2>3. down' \in [Clients -> Seq(Frames)]
    BY <2>1, EmptySeq
  <2>4. ClientTypes'
    BY <1>1, <2>1 DEF ClientTypes, NoHello
  <2> QED
    BY <1>1, <2>1, <2>2, <2>3, <2>4, TypeInvParts
<1>7. ASSUME NEW c \in Clients, Dial(c) PROVE TypeInv'
  <2>1. ClientTypes'
    BY <1>1, <1>7 DEF Dial, ClientTypes, clientVars, view
  <2> QED
    BY <1>1, <1>7, <2>1, TypeInvParts DEF Dial
<1>8. ASSUME NEW c \in Clients, Drop(c) PROVE TypeInv'
  <2>1. ClientTypes'
    BY <1>1, <1>8 DEF Drop, ClientTypes, view, NoHello
  <2>2. down' \in [Clients -> Seq(Frames)]
    BY <1>1, <1>8, EmptySeq DEF Drop
  <2> QED
    BY <1>1, <1>8, <2>1, <2>2, TypeInvParts DEF Drop
<1>9. ASSUME NEW c \in Clients, ReceiveSalt(c) PROVE TypeInv'
  <2>0. /\ key' = [key EXCEPT ![c] = TRUE]
        /\ \/ UNCHANGED <<highest, seen>>
           \/ /\ highest' = [highest EXCEPT ![c] = 0]
              /\ seen' = [seen EXCEPT ![c] = {}]
        /\ UNCHANGED <<sock, hello, screen, known>>
    BY <1>9 DEF ReceiveSalt
  <2>1. ClientTypes'
    <3>1. key' \in [Clients -> BOOLEAN]
      BY <1>1, <2>0 DEF ClientTypes
    <3>2. highest' \in [Clients -> Nat]
      BY <1>1, <2>0 DEF ClientTypes
    <3>3. seen \in [Clients -> SUBSET Nat] /\ {} \in SUBSET Nat
      BY <1>1 DEF ClientTypes
    <3>4. seen' \in [Clients -> SUBSET Nat]
      BY <2>0, <3>3
    <3> QED
      BY <1>1, <2>0, <3>1, <3>2, <3>4 DEF ClientTypes
  <2>2. down' \in [Clients -> Seq(Frames)]
    BY <1>1, <1>9, HeadTailProperties DEF ReceiveSalt
  <2> QED
    BY <1>1, <1>9, <2>1, <2>2, TypeInvParts DEF ReceiveSalt
<1> QED
  BY <1>2, <1>3, <1>4, <1>5, <1>6, <1>7, <1>8, <1>9, ReceiveFrameType DEF Next, ClientStep

\* Whatever is sent to whom, evictions from the replay log and restarts included, the
\* state of Delivery has its type, and every replay log is an unbroken run of seqs that
\* ends at the device's counter, no longer than its cap.
THEOREM DeliveryTypeCorrect == Spec => []TypeOK
<1>1. TypeInv => TypeOK
  BY DEF TypeInv
<1> QED
  BY <1>1, InitType, TypeStep, PTL DEF Spec

----------------------------------------------------------------------------
(* The history of a device: everything recorded for it by this daemon      *)
(* process, of which the replay log keeps the end.  With each item go the  *)
(* number of events there had been by then and the approvals then open.    *)

Records == [item : Items, pub : Nat, opn : SUBSET Nat]
Histories == [Devices -> Seq(Records)]

\* The replay log has room for every device.
Roomy == Cardinality(Devices) <= MaxDevices

\* log is the end of the history hd, under the seqs that are its places in it.
EndOf(log, hd) ==
  /\ Len(log) <= Len(hd)
  /\ \A i \in 1..Len(log) :
       /\ log[i].seq = Len(hd) - Len(log) + i
       /\ log[i].item = hd[Len(hd) - Len(log) + i].item

\* A device's counter and log, and its history.
StreamOK(out, log, hd) ==
  /\ out = NoStream => hd = <<>> /\ log = <<>>
  /\ out # NoStream => out = Len(hd)
  /\ hd # <<>> => log # <<>>
  /\ EndOf(log, hd)

\* The devices in the order of the log are those that have a log, each once.
LruOK(lru, log) ==
  /\ \A i, j \in 1..Len(lru) : lru[i] = lru[j] => i = j
  /\ \A i \in 1..Len(lru) : log[lru[i]] # <<>>

RegOK(g, H) ==
  /\ \A d \in Devices : StreamOK(g.out[d], g.log[d], H[d])
  /\ LruOK(g.lru, g.log)

\* Deleting a device from the order keeps the others, each once.
LEMMA WithoutProperties ==
  ASSUME NEW q \in Seq(Devices), NEW d \in Devices,
         \A i, j \in 1..Len(q) : q[i] = q[j] => i = j
  PROVE  LET w == Without(q, d) IN
         /\ w \in Seq(Devices)
         /\ \A i, j \in 1..Len(w) : w[i] = w[j] => i = j
         /\ \A i \in 1..Len(w) : w[i] # d /\ \E k \in 1..Len(q) : w[i] = q[k]
<1>0. Len(q) \in Nat /\ \A i \in 1..Len(q) : q[i] \in Devices
  BY LenProperties, ElementOfSeq
<1>1. CASE ~ \E i \in 1..Len(q) : q[i] = d
  BY <1>1 DEF Without
<1>2. CASE \E i \in 1..Len(q) : q[i] = d
  <2> DEFINE p == CHOOSE i \in 1..Len(q) : q[i] = d
             s == SubSeq(q, 1, p - 1)
             t == SubSeq(q, p + 1, Len(q))
             w == Without(q, d)
             Was(i) == IF i < p THEN i ELSE i + 1
  <2>1. p \in 1..Len(q) /\ q[p] = d
    BY <1>2
  <2>2. w = s \o t
    BY <1>2 DEF Without
  <2> HIDE DEF p, w
  <2>3. 1 \in Int /\ p - 1 \in Int /\ p + 1 \in Int /\ Len(q) \in Int
    BY <1>0, <2>1
  <2>4. s \in Seq(Devices) /\ Len(s) = p - 1 /\ \A i \in 1..p - 1 : s[i] = q[i]
    <3>1. \A i \in 1..p - 1 : q[i] \in Devices
      BY <1>0, <2>1
    <3>2. /\ s \in Seq(Devices) /\ Len(s) = IF 1 <= p - 1 THEN (p - 1) - 1 + 1 ELSE 0
          /\ \A i \in 1..(p - 1) - 1 + 1 : s[i] = q[1 + i - 1]
      BY <2>3, <3>1, SubSeqProperties
    <3> QED
      BY <1>0, <2>1, <3>2
  <2>5. t \in Seq(Devices) /\ Len(t) = Len(q) - p /\ \A i \in 1..Len(q) - p : t[i] = q[p + i]
    <3>1. \A i \in p + 1..Len(q) : q[i] \in Devices
      BY <1>0, <2>1
    <3>2. /\ t \in Seq(Devices) /\ Len(t) = IF p + 1 <= Len(q) THEN Len(q) - (p + 1) + 1 ELSE 0
          /\ \A i \in 1..Len(q) - (p + 1) + 1 : t[i] = q[p + 1 + i - 1]
      BY <2>3, <3>1, SubSeqProperties
    <3> QED
      BY <1>0, <2>1, <3>2
  <2> HIDE DEF s, t
  <2>6. /\ w \in Seq(Devices) /\ Len(w) = Len(s) + Len(t)
        /\ \A i \in 1..Len(s) + Len(t) : w[i] = IF i <= Len(s) THEN s[i] ELSE t[i - Len(s)]
    BY <2>2, <2>4, <2>5, ConcatProperties
  <2>7. Len(w) = Len(q) - 1
    BY <1>0, <2>1, <2>4, <2>5, <2>6
  <2>8. ASSUME NEW i \in 1..Len(w)
        PROVE  Was(i) \in 1..Len(q) /\ Was(i) # p /\ w[i] = q[Was(i)]
    <3>1. CASE i < p
      BY <1>0, <2>1, <2>4, <2>5, <2>6, <2>7, <3>1
    <3>2. CASE ~(i < p)
      <4>1. w[i] = t[i - (p - 1)]
        BY <1>0, <2>1, <2>4, <2>5, <2>6, <2>7, <3>2
      <4>2. i - (p - 1) \in 1..Len(q) - p /\ p + (i - (p - 1)) = i + 1 /\ i + 1 \in 1..Len(q)
        BY <1>0, <2>1, <2>7, <3>2
      <4> QED
        BY <2>1, <2>5, <3>2, <4>1, <4>2
    <3> QED
      BY <3>1, <3>2
  <2>9. ASSUME NEW i \in 1..Len(w), NEW j \in 1..Len(w), w[i] = w[j] PROVE i = j
    <3>1. Was(i) = Was(j)
      BY <2>8, <2>9
    <3> QED
      BY <1>0, <2>1, <2>7, <3>1
  <2>10. ASSUME NEW i \in 1..Len(w) PROVE w[i] # d /\ \E k \in 1..Len(q) : w[i] = q[k]
    <3>1. Was(i) \in 1..Len(q) /\ Was(i) # p /\ w[i] = q[Was(i)]
      BY <2>8
    <3> HIDE DEF Was
    <3> QED
      BY <2>1, <3>1
  <2> QED
    BY <2>6, <2>9, <2>10 DEF w
<1> QED
  BY <1>1, <1>2

\* The log has room for a device that is not in it.
LEMMA RoomForOneMore ==
  ASSUME Roomy, NEW q \in Seq(Devices), \A i, j \in 1..Len(q) : q[i] = q[j] => i = j
  PROVE  Len(q) <= MaxDevices
<1>1. Len(q) \in Nat /\ q \in [1..Len(q) -> Devices]
  BY LenProperties
<1>2. q \in Injection(1..Len(q), Devices)
  BY <1>1 DEF Injection, IsInjective
<1>3. Cardinality(1..Len(q)) <= Cardinality(Devices)
  BY <1>2, FS_Injection, DeliveryAssumption
<1>4. Cardinality(1..Len(q)) = Len(q)
  <2>1. 1 \in Int /\ Len(q) \in Int
    BY <1>1
  <2>2. Cardinality(1..Len(q)) = IF 1 > Len(q) THEN 0 ELSE Len(q) - 1 + 1
    BY <2>1, FS_Interval
  <2> QED
    BY <1>1, <2>2
<1>5. Cardinality(Devices) \in Nat /\ MaxDevices \in Nat
  BY FS_CardinalityType, DeliveryAssumption
<1> QED
  BY <1>1, <1>3, <1>4, <1>5 DEF Roomy

\* push and splice on the log keep it the end of the history.
LEMMA KeepIsEnd ==
  ASSUME NEW log \in Seq(Entries), NEW hd \in Seq(Records), EndOf(log, hd),
         NEW e \in Entries, NEW x \in Records, e.seq = Len(hd) + 1, e.item = x.item
  PROVE  EndOf(Keep(Append(log, e)), Append(hd, x))
<1> DEFINE new == Append(log, e)
           hx  == Append(hd, x)
           n   == IF Len(new) > MaxEvents THEN MaxEvents ELSE Len(new)
           k   == Keep(new)
<1>1. /\ new \in Seq(Entries) /\ Len(new) = Len(log) + 1
      /\ \A i \in 1..Len(log) : new[i] = log[i]
      /\ new[Len(log) + 1] = e
  BY AppendProperties
<1>2. /\ Len(hx) = Len(hd) + 1
      /\ \A i \in 1..Len(hd) : hx[i] = hd[i]
      /\ hx[Len(hd) + 1] = x
  BY AppendProperties
<1>3. Len(log) \in Nat /\ Len(hd) \in Nat /\ Len(log) <= Len(hd)
  BY LenProperties DEF EndOf
<1> HIDE DEF new, hx
<1>4. Len(k) = n /\ \A i \in 1..n : k[i] = new[Len(new) - n + i]
  BY <1>1, <1>3, KeepProperties
<1>5. n \in Nat /\ n > 0 /\ n <= Len(new)
  BY <1>1, <1>3, DeliveryAssumption
<1> HIDE DEF n, k
<1>6. ASSUME NEW j \in 1..Len(new)
      PROVE  /\ new[j].seq = Len(hx) - Len(new) + j
             /\ new[j].item = hx[Len(hx) - Len(new) + j].item
  <2> DEFINE at == Len(hd) - Len(log) + j
  <2>1. Len(hx) - Len(new) + j = at
    BY <1>1, <1>2, <1>3
  <2>2. CASE j <= Len(log)
    <3>1. j \in 1..Len(log) /\ at \in 1..Len(hd)
      BY <1>3, <2>2
    <3>2. new[j] = log[j] /\ hx[at] = hd[at]
      BY <1>1, <1>2, <3>1
    <3>3. log[j].seq = at /\ log[j].item = hd[at].item
      BY <3>1 DEF EndOf
    <3> QED
      BY <2>1, <3>2, <3>3
  <2>3. CASE j = Len(log) + 1
    <3>1. at = Len(hd) + 1
      BY <1>3, <2>3
    <3> HIDE DEF at
    <3> QED
      BY <1>1, <1>2, <2>1, <2>3, <3>1
  <2> QED
    BY <1>1, <1>3, <2>2, <2>3
<1>7. ASSUME NEW i \in 1..n
      PROVE  /\ k[i].seq = Len(hx) - n + i
             /\ k[i].item = hx[Len(hx) - n + i].item
  <2> DEFINE j == Len(new) - n + i
  <2>1. j \in 1..Len(new) /\ Len(hx) - Len(new) + j = Len(hx) - n + i
    BY <1>1, <1>2, <1>3, <1>5
  <2>2. k[i] = new[j]
    BY <1>4
  <2> HIDE DEF j
  <2> QED
    BY <1>6, <2>1, <2>2
<1>8. n <= Len(hx)
  BY <1>1, <1>2, <1>3, <1>5
<1>9. EndOf(k, hx)
  BY <1>4, <1>7, <1>8 DEF EndOf
<1> QED
  BY <1>9 DEF k, new, hx

\* The next seq is the next place in the history.
LEMMA NextSeqIsNextPlace ==
  ASSUME NEW g, NEW H \in Histories, NEW d \in Devices,
         StreamOK(g.out[d], g.log[d], H[d])
  PROVE  NextSeq(g, d) = Len(H[d]) + 1
<1>1. H[d] \in Seq(Records) /\ Len(H[d]) \in Nat
  BY LenProperties DEF Histories
<1>2. H[d] = <<>> => Len(H[d]) = 0
  BY <1>1, EmptySeq
<1> QED
  BY <1>1, <1>2 DEF NextSeq, StreamOK

\* recordSent writes one record into the history of one device: where there is room
\* for every device, it disturbs no other.
LEMMA RecordSentHistory ==
  ASSUME Roomy, NEW g \in Registries, NEW H \in Histories, RegOK(g, H),
         NEW d \in Devices, NEW x \in Records
  PROVE  /\ RegOK(RecordSent(g, d, x.item), [H EXCEPT ![d] = Append(@, x)])
         /\ [H EXCEPT ![d] = Append(@, x)] \in Histories
         /\ \A y \in Devices : y # d => RecordSent(g, d, x.item).out[y] = g.out[y]
<1> DEFINE item == x.item
           seq == NextSeq(g, d)
           e   == [seq |-> seq, item |-> item]
           new == Keep(Append(g.log[d], e))
           out == [g.out EXCEPT ![d] = seq]
           log == [g.log EXCEPT ![d] = new]
           lru == IF g.log[d] = <<>> THEN Append(g.lru, d) ELSE g.lru
           g1  == [out |-> out, log |-> log, lru |-> lru]
           HH  == [H EXCEPT ![d] = Append(@, x)]
<1>1. /\ g.out \in [Devices -> Nat \cup {NoStream}]
      /\ g.log \in [Devices -> Seq(Entries)]
      /\ g.lru \in Seq(Devices)
      /\ \A y \in Devices : LogOK(g.out[y], g.log[y])
  BY RegistryParts
<1>2. /\ \A y \in Devices : StreamOK(g.out[y], g.log[y], H[y])
      /\ LruOK(g.lru, g.log)
  BY DEF RegOK
<1>3. seq = Len(H[d]) + 1 /\ seq \in Nat /\ seq > 0 /\ (g.log[d] # <<>> => seq = g.out[d] + 1)
  BY <1>2, NextSeqIsNextPlace, NextSeqType
<1>4. H[d] \in Seq(Records) /\ item \in Items
  BY DEF Histories, Records
<1>5. RecordSent(g, d, item) =
        IF g.log[d] = <<>> /\ Len(lru) > MaxDevices THEN Evict(g1, Head(lru)) ELSE g1
  BY <1>1 DEF RecordSent
<1> HIDE DEF seq
<1>6. e \in Entries /\ e.seq = seq /\ e.item = item
  BY <1>3, <1>4 DEF Entries
<1> HIDE DEF e
<1>7. new \in Seq(Entries) /\ new # <<>>
  BY <1>1, <1>3, <1>6, KeepIsContiguous
<1>8. EndOf(new, Append(H[d], x))
  <2>1. EndOf(g.log[d], H[d])
    BY <1>2 DEF StreamOK
  <2> QED
    BY <1>1, <1>3, <1>4, <1>6, <2>1, KeepIsEnd
<1> HIDE DEF new
<1>9. /\ HH \in Histories /\ HH[d] = Append(H[d], x)
      /\ \A y \in Devices : y # d => HH[y] = H[y]
  BY <1>4, AppendProperties DEF Histories
<1>10. /\ out[d] = seq /\ log[d] = new
       /\ \A y \in Devices : y # d => out[y] = g.out[y] /\ log[y] = g.log[y]
  BY <1>1
<1>11. Append(H[d], x) # <<>> /\ Len(Append(H[d], x)) = Len(H[d]) + 1
  BY <1>4, AppendProperties
<1> HIDE DEF out, log, HH
<1>12. \A y \in Devices : StreamOK(out[y], log[y], HH[y])
  <2> SUFFICES ASSUME NEW y \in Devices PROVE StreamOK(out[y], log[y], HH[y])
    OBVIOUS
  <2>1. CASE y # d
    BY <1>2, <1>9, <1>10, <2>1
  <2>2. CASE y = d
    <3>1. seq # NoStream
      BY <1>3 DEF NoStream
    <3>2. StreamOK(seq, new, Append(H[d], x))
      BY <1>3, <1>7, <1>8, <1>11, <3>1 DEF StreamOK
    <3> QED
      BY <1>9, <1>10, <2>2, <3>2
  <2> QED
    BY <2>1, <2>2
<1>13. Len(g.lru) \in Nat /\ \A i \in 1..Len(g.lru) : g.lru[i] \in Devices
  BY <1>1, LenProperties, ElementOfSeq
<1>14. lru \in Seq(Devices) /\ LruOK(lru, log)
  <2>1. CASE g.log[d] # <<>>
    <3>1. \A i \in 1..Len(g.lru) : log[g.lru[i]] # <<>>
      BY <1>2, <1>7, <1>10, <1>13 DEF LruOK
    <3> QED
      BY <1>1, <1>2, <2>1, <3>1 DEF LruOK
  <2>2. CASE g.log[d] = <<>>
    <3>1. lru = Append(g.lru, d)
      BY <2>2
    <3>2. /\ lru \in Seq(Devices) /\ Len(lru) = Len(g.lru) + 1
          /\ \A i \in 1..Len(g.lru) : lru[i] = g.lru[i]
          /\ lru[Len(g.lru) + 1] = d
      BY <1>1, <3>1, AppendProperties
    <3> HIDE DEF lru
    <3>3. \A i \in 1..Len(g.lru) : g.lru[i] # d /\ log[g.lru[i]] # <<>>
      BY <1>2, <1>7, <1>10, <1>13, <2>2 DEF LruOK
    <3>4. \A i \in 1..Len(lru) : i \in 1..Len(g.lru) \/ i = Len(g.lru) + 1
      BY <1>13, <3>2
    <3>5. \A i \in 1..Len(lru) : log[lru[i]] # <<>>
      BY <1>7, <1>10, <3>2, <3>3, <3>4
    <3>6. \A i, j \in 1..Len(lru) : lru[i] = lru[j] => i = j
      BY <1>2, <3>2, <3>3, <3>4 DEF LruOK
    <3> QED
      BY <3>2, <3>5, <3>6 DEF LruOK
  <2> QED
    BY <2>1, <2>2
<1> HIDE DEF lru
<1>15. Len(lru) <= MaxDevices
  BY <1>14, RoomForOneMore DEF LruOK
<1>16. ~(Len(lru) > MaxDevices)
  BY <1>14, <1>15, LenProperties, DeliveryAssumption
<1>17. RecordSent(g, d, item) = g1 /\ g1.out = out /\ g1.log = log /\ g1.lru = lru
  BY <1>5, <1>16
<1>18. RegOK(g1, HH)
  BY <1>12, <1>14, <1>17 DEF RegOK
<1> QED
  BY <1>9, <1>10, <1>17, <1>18 DEF HH

\* touch moves a device to the end of the order, and gives it a counter.
LEMMA TouchHistory ==
  ASSUME NEW g \in Registries, NEW H \in Histories, RegOK(g, H), NEW d \in Devices
  PROVE  /\ RegOK(Touch(g, d), H)
         /\ Touch(g, d).log = g.log
         /\ Touch(g, d).out[d] # NoStream
         /\ \A y \in Devices : y # d \/ g.out[d] # NoStream => Touch(g, d).out[y] = g.out[y]
<1> DEFINE out == [g.out EXCEPT ![d] = IF @ = NoStream THEN 0 ELSE @]
           w   == Without(g.lru, d)
           lru == IF g.log[d] = <<>> THEN g.lru ELSE Append(w, d)
<1>1. /\ g.out \in [Devices -> Nat \cup {NoStream}]
      /\ g.log \in [Devices -> Seq(Entries)]
      /\ g.lru \in Seq(Devices)
  BY RegistryParts
<1>2. /\ \A y \in Devices : StreamOK(g.out[y], g.log[y], H[y])
      /\ LruOK(g.lru, g.log)
  BY DEF RegOK
<1>3. Touch(g, d).out = out /\ Touch(g, d).log = g.log /\ Touch(g, d).lru = lru
  BY DEF Touch
<1>4. /\ out[d] = (IF g.out[d] = NoStream THEN 0 ELSE g.out[d])
      /\ \A y \in Devices : y # d => out[y] = g.out[y]
  BY <1>1
<1> HIDE DEF out
<1>5. \A y \in Devices : StreamOK(out[y], g.log[y], H[y])
  <2> SUFFICES ASSUME NEW y \in Devices PROVE StreamOK(out[y], g.log[y], H[y])
    OBVIOUS
  <2>1. CASE y # d \/ g.out[d] # NoStream
    BY <1>2, <1>4, <2>1
  <2>2. CASE y = d /\ g.out[d] = NoStream
    <3>1. H[d] = <<>> /\ g.log[d] = <<>> /\ Len(H[d]) = 0
      BY <1>2, <2>2, EmptySeq DEF StreamOK
    <3> QED
      BY <1>2, <1>4, <2>2, <3>1 DEF StreamOK, NoStream
  <2> QED
    BY <2>1, <2>2
<1>6. LruOK(lru, g.log)
  <2>1. CASE g.log[d] = <<>>
    BY <1>2, <2>1
  <2>2. CASE g.log[d] # <<>>
    <3>1. /\ w \in Seq(Devices)
          /\ \A i, j \in 1..Len(w) : w[i] = w[j] => i = j
          /\ \A i \in 1..Len(w) : w[i] # d /\ \E k \in 1..Len(g.lru) : w[i] = g.lru[k]
      BY <1>1, <1>2, WithoutProperties DEF LruOK
    <3> HIDE DEF w
    <3>2. lru = Append(w, d) /\ Len(w) \in Nat
      BY <2>2, <3>1, LenProperties
    <3>3. Len(lru) = Len(w) + 1 /\ lru[Len(w) + 1] = d /\ \A i \in 1..Len(w) : lru[i] = w[i]
      BY <3>1, <3>2, AppendProperties
    <3> HIDE DEF lru
    <3>4. \A i \in 1..Len(lru) : i \in 1..Len(w) \/ i = Len(w) + 1
      BY <3>2, <3>3
    <3>5. \A i \in 1..Len(lru) : g.log[lru[i]] # <<>>
      BY <1>2, <2>2, <3>1, <3>3, <3>4 DEF LruOK
    <3>6. \A i, j \in 1..Len(lru) : lru[i] = lru[j] => i = j
      BY <3>1, <3>3, <3>4
    <3> QED
      BY <3>5, <3>6 DEF LruOK
  <2> QED
    BY <2>1, <2>2
<1> HIDE DEF lru
<1> QED
  BY <1>3, <1>4, <1>5, <1>6 DEF RegOK, NoStream

\* The records es, cut after i of them, behind the history hd.
Upto(hd, es, i) == SubSeq(hd \o es, 1, Len(hd) + i)

\* Cutting after nothing, after one more and after everything.
LEMMA UptoProperties ==
  ASSUME NEW hd \in Seq(Records), NEW es \in Seq(Records)
  PROVE  /\ Upto(hd, es, 0) = hd
         /\ Upto(hd, es, Len(es)) = hd \o es
         /\ \A i \in 0..Len(es) :
              Upto(hd, es, i) \in Seq(Records) /\ Len(Upto(hd, es, i)) = Len(hd) + i
         /\ \A i \in 1..Len(es) : Upto(hd, es, i) = Append(Upto(hd, es, i - 1), es[i])
<1> DEFINE s == hd \o es
<1>1. Len(hd) \in Nat /\ Len(es) \in Nat
  BY LenProperties
<1>2. /\ s \in Seq(Records) /\ Len(s) = Len(hd) + Len(es)
      /\ \A i \in 1..Len(hd) + Len(es) : s[i] = IF i <= Len(hd) THEN hd[i] ELSE es[i - Len(hd)]
  BY ConcatProperties
<1> HIDE DEF s
<1>3. \A i \in 1..Len(s) : s[i] \in Records
  BY <1>2, ElementOfSeq
<1>4. ASSUME NEW i \in 0..Len(es)
      PROVE  /\ Upto(hd, es, i) \in Seq(Records) /\ Len(Upto(hd, es, i)) = Len(hd) + i
             /\ \A j \in 1..Len(hd) + i : Upto(hd, es, i)[j] = s[j]
  <2> DEFINE n == Len(hd) + i
  <2>1. n \in Nat /\ n <= Len(s) /\ 1 \in Int /\ n \in Int
    BY <1>1, <1>2
  <2>2. Upto(hd, es, i) = SubSeq(s, 1, n)
    BY DEF Upto, s
  <2>3. \A j \in 1..n : s[j] \in Records
    BY <1>2, <1>3, <2>1, LenProperties
  <2> HIDE DEF n
  <2>4. /\ SubSeq(s, 1, n) \in Seq(Records)
        /\ Len(SubSeq(s, 1, n)) = IF 1 <= n THEN n - 1 + 1 ELSE 0
        /\ \A j \in 1..n - 1 + 1 : SubSeq(s, 1, n)[j] = s[1 + j - 1]
    BY <2>1, <2>3, SubSeqProperties
  <2>5. \A j \in 1..n : j \in 1..n - 1 + 1 /\ 1 + j - 1 = j
    BY <2>1
  <2>6. Len(SubSeq(s, 1, n)) = n
    BY <2>1, <2>4
  <2>7. \A j \in 1..n : SubSeq(s, 1, n)[j] = s[j]
    BY <2>4, <2>5
  <2> QED
    BY <2>2, <2>4, <2>6, <2>7 DEF n
<1>5. Upto(hd, es, 0) = hd
  <2>1. 0 \in 0..Len(es) /\ Len(hd) + 0 = Len(hd)
    BY <1>1
  <2>2. \A j \in 1..Len(hd) : s[j] = hd[j]
    BY <1>1, <1>2
  <2>3. Len(Upto(hd, es, 0)) = Len(hd) /\ \A j \in 1..Len(hd) : Upto(hd, es, 0)[j] = hd[j]
    BY <1>4, <2>1, <2>2
  <2> QED
    BY <1>4, <2>1, <2>3, SeqEqual
<1>6. Upto(hd, es, Len(es)) = s
  <2>1. Len(es) \in 0..Len(es)
    BY <1>1
  <2> QED
    BY <1>2, <1>4, <2>1, SeqEqual
<1>7. ASSUME NEW i \in 1..Len(es)
      PROVE  Upto(hd, es, i) = Append(Upto(hd, es, i - 1), es[i])
  <2> DEFINE u == Upto(hd, es, i)
             v == Upto(hd, es, i - 1)
             a == Append(v, es[i])
  <2>1. i \in 0..Len(es) /\ i - 1 \in 0..Len(es) /\ es[i] \in Records
    BY <1>1, ElementOfSeq
  <2>2. /\ u \in Seq(Records) /\ Len(u) = Len(hd) + i
        /\ \A j \in 1..Len(hd) + i : u[j] = s[j]
    BY <1>4, <2>1
  <2>3. /\ v \in Seq(Records) /\ Len(v) = Len(hd) + (i - 1)
        /\ \A j \in 1..Len(hd) + (i - 1) : v[j] = s[j]
    BY <1>4, <2>1
  <2> HIDE DEF u, v
  <2>4. /\ a \in Seq(Records) /\ Len(a) = Len(v) + 1
        /\ \A j \in 1..Len(v) : a[j] = v[j]
        /\ a[Len(v) + 1] = es[i]
    BY <2>1, <2>3, AppendProperties
  <2>5. Len(v) + 1 = Len(hd) + i
    BY <1>1, <2>3
  <2>6. s[Len(hd) + i] = es[i]
    <3>1. Len(hd) + i \in 1..Len(hd) + Len(es) /\ ~(Len(hd) + i <= Len(hd))
          /\ (Len(hd) + i) - Len(hd) = i
      BY <1>1
    <3> QED
      BY <1>2, <3>1
  <2> HIDE DEF a
  <2>7. \A j \in 1..Len(hd) + i : a[j] = u[j]
    <3> SUFFICES ASSUME NEW j \in 1..Len(hd) + i PROVE a[j] = u[j]
      OBVIOUS
    <3>1. CASE j = Len(hd) + i
      BY <2>2, <2>4, <2>5, <2>6, <3>1
    <3>2. CASE j # Len(hd) + i
      <4>1. j \in 1..Len(v) /\ j \in 1..Len(hd) + (i - 1)
        BY <1>1, <2>3, <3>2
      <4> QED
        BY <2>2, <2>3, <2>4, <4>1
    <3> QED
      BY <3>1, <3>2
  <2>8. a = u
    BY <2>2, <2>4, <2>5, <2>7, SeqEqual
  <2> QED
    BY <2>8 DEF a, u, v
<1> QED
  BY <1>4, <1>5, <1>6, <1>7 DEF s

\* The records es are of the items, in their order.
ItemsOf(es, items) == Len(es) = Len(items) /\ \A i \in 1..Len(items) : es[i].item = items[i]

\* Items were sent to a socket of d under the next seqs, and G2 are the histories since.
Numbered(g, G, d, items, G2) ==
  /\ G2 \in Histories
  /\ RegOK(SendAll(g, d, items).reg, G2)
  /\ \A y \in Devices : y # d => SendAll(g, d, items).reg.out[y] = g.out[y]
  /\ Len(SendAll(g, d, items).frames) = Len(items)
  /\ \A i \in 1..Len(items) : SendAll(g, d, items).frames[i] = Frame(Len(G[d]) + i, items[i])

\* sendSealed for a list of items writes their records behind the device's history,
\* each at the place that is the seq of its frame.
LEMMA SendAllHistory ==
  ASSUME Roomy, NEW g \in Registries, NEW H \in Histories, RegOK(g, H), NEW d \in Devices,
         NEW items \in Seq(Items), NEW es \in Seq(Records), ItemsOf(es, items)
  PROVE  Numbered(g, H, d, items, [H EXCEPT ![d] = @ \o es])
<1> DEFINE todo == [i \in 1..Len(items) |-> [device |-> d, item |-> items[i]]]
           r == Recording(g, todo)
           n == Len(items)
           G(i) == [H EXCEPT ![d] = Upto(@, es, i)]
           S == {i \in Nat : i <= n =>
                   /\ RegOK(r[i], G(i))
                   /\ \A y \in Devices : y # d => r[i].out[y] = g.out[y]}
<1>0. Len(es) = Len(items) /\ \A i \in 1..Len(items) : es[i].item = items[i]
  BY DEF ItemsOf
<1>1. n \in Nat /\ \A i \in 1..n : items[i] \in Items
  BY LenProperties, ElementOfSeq
<1>2. Len(todo) = n /\ \A i \in 1..n : todo[i].device = d /\ todo[i].item = items[i]
  BY <1>1
<1>3. SendAll(g, d, items) =
        [reg |-> r[n], frames |-> [i \in 1..n |-> Frame(NextSeq(r[i - 1], d), items[i])]]
  BY DEF SendAll
<1> HIDE DEF todo, n
<1>4. r[0] = g /\ \A i \in 1..n : r[i] = RecordSent(r[i - 1], d, items[i])
  BY <1>1, <1>2, RecordingDef
<1>5. \A i \in 0..n : r[i] \in Registries
  BY <1>1, <1>2, RecordingType
<1> HIDE DEF r
<1>6. H[d] \in Seq(Records)
  BY DEF Histories
<1>7. \A i \in 0..n : /\ G(i) \in Histories /\ G(i)[d] = Upto(H[d], es, i)
                      /\ Len(G(i)[d]) = Len(H[d]) + i
  BY <1>0, <1>6, UptoProperties DEF Histories, n
<1>8. G(0) = H /\ G(n) = [H EXCEPT ![d] = @ \o es]
  BY <1>0, <1>6, UptoProperties DEF Histories, n
<1>9. ASSUME NEW i \in 1..n
      PROVE  G(i) = [G(i - 1) EXCEPT ![d] = Append(@, es[i])]
  <2>1. Upto(H[d], es, i) = Append(Upto(H[d], es, i - 1), es[i])
    BY <1>0, <1>6, UptoProperties DEF n
  <2> QED
    BY <2>1 DEF Histories
<1> HIDE DEF G
<1>10. 0 \in S
  BY <1>4, <1>8
<1>11. ASSUME NEW i \in S PROVE i + 1 \in S
  <2> SUFFICES ASSUME i + 1 <= n
               PROVE  /\ RegOK(r[i + 1], G(i + 1))
                      /\ \A y \in Devices : y # d => r[i + 1].out[y] = g.out[y]
    OBVIOUS
  <2>1. i + 1 \in 1..n /\ (i + 1) - 1 = i /\ i \in 0..n /\ i <= n
    BY <1>1
  <2>2. RegOK(r[i], G(i)) /\ \A y \in Devices : y # d => r[i].out[y] = g.out[y]
    BY <2>1
  <2>3. r[i + 1] = RecordSent(r[i], d, items[i + 1])
    BY <1>4, <2>1
  <2>4. G(i + 1) = [G(i) EXCEPT ![d] = Append(@, es[i + 1])]
    BY <1>9, <2>1
  <2>5. es[i + 1] \in Records /\ es[i + 1].item = items[i + 1]
    BY <1>0, <2>1, ElementOfSeq DEF n
  <2>6. r[i] \in Registries /\ G(i) \in Histories
    BY <1>5, <1>7, <2>1
  <2> HIDE DEF S
  <2>7. /\ RegOK(RecordSent(r[i], d, es[i + 1].item), [G(i) EXCEPT ![d] = Append(@, es[i + 1])])
        /\ \A y \in Devices : y # d => RecordSent(r[i], d, es[i + 1].item).out[y] = r[i].out[y]
    BY <2>2, <2>5, <2>6, RecordSentHistory
  <2> QED
    BY <2>2, <2>3, <2>4, <2>5, <2>7
<1> HIDE DEF S
<1>12. S \in SUBSET Nat
  BY DEF S
<1>13. \A i \in Nat : i \in S
  BY <1>10, <1>11, <1>12, NatSetInduction
<1>14. \A i \in 0..n : RegOK(r[i], G(i)) /\ \A y \in Devices : y # d => r[i].out[y] = g.out[y]
  <2>1. \A i \in 0..n : i \in Nat /\ i <= n
    BY <1>1
  <2> QED
    BY <1>13, <2>1 DEF S
<1>15. n \in 0..n
  BY <1>1
<1>16. \A i \in 1..n : NextSeq(r[i - 1], d) = Len(H[d]) + i
  <2> SUFFICES ASSUME NEW i \in 1..n PROVE NextSeq(r[i - 1], d) = Len(H[d]) + i
    OBVIOUS
  <2>1. i - 1 \in 0..n /\ Len(H[d]) \in Nat
    BY <1>1, <1>6, LenProperties
  <2>2. StreamOK(r[i - 1].out[d], r[i - 1].log[d], G(i - 1)[d]) /\ G(i - 1) \in Histories
    BY <1>7, <1>14, <2>1 DEF RegOK
  <2>3. NextSeq(r[i - 1], d) = Len(G(i - 1)[d]) + 1
    BY <2>2, NextSeqIsNextPlace
  <2>4. Len(G(i - 1)[d]) = Len(H[d]) + (i - 1)
    BY <1>7, <2>1
  <2> DEFINE k == Len(H[d])
             m == Len(G(i - 1)[d])
             s == NextSeq(r[i - 1], d)
  <2>5. i \in Int /\ k \in Int /\ m = k + (i - 1) /\ s = m + 1
    BY <1>1, <2>1, <2>3, <2>4
  <2> HIDE DEF k, m, s
  <2>6. s = k + i
    BY <2>5
  <2> QED
    BY <2>6 DEF k, s
<1>17. /\ SendAll(g, d, items).reg = r[n]
       /\ Len(SendAll(g, d, items).frames) = n
       /\ \A i \in 1..n : SendAll(g, d, items).frames[i] = Frame(NextSeq(r[i - 1], d), items[i])
  BY <1>1, <1>3
<1>18. /\ RegOK(SendAll(g, d, items).reg, G(n)) /\ G(n) \in Histories
       /\ \A y \in Devices : y # d => SendAll(g, d, items).reg.out[y] = g.out[y]
  BY <1>7, <1>14, <1>15, <1>17
<1> QED
  BY <1>8, <1>16, <1>17, <1>18 DEF n, Numbered

\* One event recorded for a set of devices in any order is written once behind the
\* history of each.
LEMMA RecordForHistory ==
  ASSUME Roomy, NEW g \in Registries, NEW H \in Histories, RegOK(g, H),
         NEW D \in SUBSET Devices, NEW q \in SetToSeqs(D), NEW x \in Records
  PROVE  LET r  == RecordFor(g, q, x.item)
             HH == [y \in Devices |-> IF y \in D THEN Append(H[y], x) ELSE H[y]]
         IN  /\ HH \in Histories
             /\ r[Len(q)] \in Registries
             /\ RegOK(r[Len(q)], HH)
             /\ \A y \in Devices \ D : r[Len(q)].out[y] = g.out[y]
             /\ \A i \in 1..Len(q) : NextSeq(r[i - 1], q[i]) = Len(H[q[i]]) + 1
<1> DEFINE item == x.item
           n == Len(q)
           todo == [i \in 1..n |-> [device |-> q[i], item |-> item]]
           r == RecordFor(g, q, item)
           HH == [y \in Devices |-> IF y \in D THEN Append(H[y], x) ELSE H[y]]
           Past(i) == {y \in Devices : \E j \in 1..i : q[j] = y}
           G(i) == [y \in Devices |-> IF y \in Past(i) THEN Append(H[y], x) ELSE H[y]]
           S == {i \in Nat : i <= n =>
                   /\ RegOK(r[i], G(i))
                   /\ \A y \in Devices : y \notin Past(i) => r[i].out[y] = g.out[y]}
<1>1. /\ n \in Nat
      /\ \A i \in 1..n : q[i] \in D /\ q[i] \in Devices
      /\ \A i, j \in 1..n : q[i] = q[j] => i = j
      /\ \A y \in D : \E i \in 1..n : q[i] = y
  BY EnumerationProperties
<1> HIDE DEF n
<1>2. Len(todo) = n /\ \A i \in 1..n : todo[i].device = q[i] /\ todo[i].item = item
  BY <1>1
<1>3. r = Recording(g, todo)
  BY DEF RecordFor, n
<1>4. item \in Items
  BY DEF Records
<1> HIDE DEF todo
<1>5. r[0] = g /\ \A i \in 1..n : r[i] = RecordSent(r[i - 1], q[i], item)
  BY <1>1, <1>2, <1>3, RecordingDef
<1>6. \A i \in 0..n : r[i] \in Registries
  BY <1>1, <1>2, <1>3, <1>4, RecordingType
<1> HIDE DEF r
<1>7. \A y \in Devices : H[y] \in Seq(Records) /\ Append(H[y], x) \in Seq(Records)
  BY AppendProperties DEF Histories
<1>8. HH \in Histories /\ \A i \in 0..n : G(i) \in Histories
  BY <1>7 DEF Histories
<1>9. G(0) = H
  <2>1. Past(0) = {}
    OBVIOUS
  <2> QED
    BY <2>1 DEF Histories
<1>10. G(n) = HH
  <2>1. Past(n) = D
    BY <1>1
  <2> QED
    BY <2>1
<1>11. ASSUME NEW i \in 1..n
       PROVE  /\ Past(i) = Past(i - 1) \cup {q[i]} /\ q[i] \notin Past(i - 1)
              /\ G(i) = [G(i - 1) EXCEPT ![q[i]] = Append(@, x)]
  <2>1. \A j \in 1..i : j \in 1..i - 1 \/ j = i
    BY <1>1
  <2>2. \A j \in 1..i - 1 : j \in 1..i /\ j \in 1..n /\ j # i
    BY <1>1
  <2>3. i \in 1..i
    BY <1>1
  <2>4. Past(i) = Past(i - 1) \cup {q[i]}
    BY <1>1, <2>1, <2>2, <2>3
  <2>5. q[i] \notin Past(i - 1)
    BY <1>1, <2>2
  <2> HIDE DEF Past
  <2> QED
    BY <1>1, <2>4, <2>5
<1> HIDE DEF G, Past
<1>12. 0 \in S
  BY <1>5, <1>9
<1>13. ASSUME NEW i \in S PROVE i + 1 \in S
  <2> SUFFICES ASSUME i + 1 <= n
               PROVE  /\ RegOK(r[i + 1], G(i + 1))
                      /\ \A y \in Devices : y \notin Past(i + 1) => r[i + 1].out[y] = g.out[y]
    OBVIOUS
  <2>1. i + 1 \in 1..n /\ (i + 1) - 1 = i /\ i \in 0..n /\ i <= n
    BY <1>1
  <2>2. RegOK(r[i], G(i)) /\ \A y \in Devices : y \notin Past(i) => r[i].out[y] = g.out[y]
    BY <2>1
  <2>3. r[i + 1] = RecordSent(r[i], q[i + 1], item)
    BY <1>5, <2>1
  <2>4. /\ G(i + 1) = [G(i) EXCEPT ![q[i + 1]] = Append(@, x)]
        /\ Past(i + 1) = Past(i) \cup {q[i + 1]}
    BY <1>11, <2>1
  <2>5. r[i] \in Registries /\ G(i) \in Histories /\ q[i + 1] \in Devices
    BY <1>1, <1>6, <1>8, <2>1
  <2> HIDE DEF S
  <2>6. /\ RegOK(RecordSent(r[i], q[i + 1], item), [G(i) EXCEPT ![q[i + 1]] = Append(@, x)])
        /\ \A y \in Devices : y # q[i + 1] =>
             RecordSent(r[i], q[i + 1], item).out[y] = r[i].out[y]
    BY <2>2, <2>5, RecordSentHistory
  <2> QED
    BY <2>2, <2>3, <2>4, <2>6
<1> HIDE DEF S
<1>14. S \in SUBSET Nat
  BY DEF S
<1>15. \A i \in Nat : i \in S
  BY <1>12, <1>13, <1>14, NatSetInduction
<1>16. \A i \in 0..n :
         RegOK(r[i], G(i)) /\ \A y \in Devices : y \notin Past(i) => r[i].out[y] = g.out[y]
  <2>1. \A i \in 0..n : i \in Nat /\ i <= n
    BY <1>1
  <2> QED
    BY <1>15, <2>1 DEF S
<1>17. n \in 0..n /\ \A y \in Devices \ D : y \notin Past(n)
  BY <1>1 DEF Past
<1>18. \A i \in 1..n : NextSeq(r[i - 1], q[i]) = Len(H[q[i]]) + 1
  <2> SUFFICES ASSUME NEW i \in 1..n PROVE NextSeq(r[i - 1], q[i]) = Len(H[q[i]]) + 1
    OBVIOUS
  <2>1. i - 1 \in 0..n /\ q[i] \in Devices
    BY <1>1
  <2>2. StreamOK(r[i - 1].out[q[i]], r[i - 1].log[q[i]], G(i - 1)[q[i]]) /\ G(i - 1) \in Histories
    BY <1>8, <1>16, <2>1 DEF RegOK
  <2>3. NextSeq(r[i - 1], q[i]) = Len(G(i - 1)[q[i]]) + 1
    BY <2>1, <2>2, NextSeqIsNextPlace
  <2>4. G(i - 1)[q[i]] = H[q[i]]
    BY <1>11, <2>1 DEF G
  <2> QED
    BY <2>3, <2>4
<1>19. /\ HH \in Histories /\ r[n] \in Registries /\ RegOK(r[n], HH)
       /\ \A y \in Devices \ D : r[n].out[y] = g.out[y]
  BY <1>6, <1>8, <1>10, <1>16, <1>17
<1> QED
  BY <1>18, <1>19 DEF r, n

\* broadcast writes its event once behind every history there is, connected or not,
\* and to every authenticated client at that place.
LEMMA BroadcastHistory ==
  ASSUME Roomy, TypeInv, NEW H \in Histories, RegOK(reg, H), NEW x \in Records,
         \A d \in Devices : reg.out[d] # NoStream => H[d] # <<>>,
         \A c \in Clients : sock[c] = "auth" => reg.out[DeviceOf[c]] # NoStream,
         Broadcast(x.item)
  PROVE  LET HH == [y \in Devices |-> IF H[y] # <<>> THEN Append(H[y], x) ELSE H[y]] IN
         /\ HH \in Histories
         /\ RegOK(reg', HH)
         /\ \A d \in Devices : reg'.out[d] # NoStream => HH[d] # <<>>
         /\ \A d \in Devices : reg.out[d] # NoStream => reg'.out[d] # NoStream
         /\ \A c \in Clients : down'[c] =
              IF sock[c] = "auth" THEN Append(down[c], Frame(Len(H[DeviceOf[c]]) + 1, x.item))
                                  ELSE down[c]
<1> DEFINE item == x.item
           HH == [y \in Devices |-> IF H[y] # <<>> THEN Append(H[y], x) ELSE H[y]]
<1>1. PICK online \in SetToSeqs(Connected) :
        LET live   == RecordFor(reg, online, item)
            after  == live[Len(online)]
            at(d)  == CHOOSE i \in 1..Len(online) : online[i] = d
            seq(d) == NextSeq(live[at(d) - 1], d)
        IN
        \E offline \in SetToSeqs({d \in Devices : after.out[d] # NoStream} \ Connected) :
          /\ reg' = RecordFor(after, offline, item)[Len(offline)]
          /\ down' = [c \in Clients |->
               IF sock[c] = "auth" THEN Append(down[c], Frame(seq(DeviceOf[c]), item))
                                   ELSE down[c]]
  BY DEF Broadcast
<1> DEFINE live   == RecordFor(reg, online, item)
           after  == live[Len(online)]
           at(d)  == CHOOSE i \in 1..Len(online) : online[i] = d
           seq(d) == NextSeq(live[at(d) - 1], d)
           Off    == {d \in Devices : after.out[d] # NoStream} \ Connected
           H1     == [y \in Devices |-> IF y \in Connected THEN Append(H[y], x) ELSE H[y]]
           H2     == [y \in Devices |-> IF y \in Off THEN Append(H1[y], x) ELSE H1[y]]
<1>2. PICK offline \in SetToSeqs(Off) :
          /\ reg' = RecordFor(after, offline, item)[Len(offline)]
          /\ down' = [c \in Clients |->
               IF sock[c] = "auth" THEN Append(down[c], Frame(seq(DeviceOf[c]), item))
                                   ELSE down[c]]
  BY <1>1
<1>3. reg \in Registries /\ Connected \in SUBSET Devices
  BY ConnectedType DEF TypeInv
<1>4. /\ H1 \in Histories /\ after \in Registries /\ RegOK(after, H1)
      /\ \A y \in Devices \ Connected : after.out[y] = reg.out[y]
      /\ \A i \in 1..Len(online) : NextSeq(live[i - 1], online[i]) = Len(H[online[i]]) + 1
  BY <1>3, RecordForHistory
<1>5. \A y \in Connected : at(y) \in 1..Len(online) /\ online[at(y)] = y
  <2>1. \A y \in Connected : \E i \in 1..Len(online) : online[i] = y
    BY <1>3, EnumerationProperties
  <2> QED
    BY <2>1
<1>6. \A c \in Clients : sock[c] = "auth" => seq(DeviceOf[c]) = Len(H[DeviceOf[c]]) + 1
  BY <1>4, <1>5, ConnectedType
<1> HIDE DEF after, live, at
<1>7. Off \in SUBSET Devices
  OBVIOUS
<1>8. H2 \in Histories /\ RegOK(reg', H2) /\ \A y \in Devices \ Off : reg'.out[y] = after.out[y]
  <2> HIDE DEF Off, H1
  <2> QED
    BY <1>2, <1>4, <1>7, RecordForHistory
<1>9. \A y \in Connected : y \in Devices /\ H[y] # <<>> /\ reg.out[y] # NoStream
  BY <1>3 DEF Connected
<1>10. \A y \in Devices : reg.out[y] # NoStream <=> H[y] # <<>>
  BY DEF RegOK, StreamOK
<1>11. \A y \in Devices : y \in Off <=> H[y] # <<>> /\ y \notin Connected
  BY <1>4, <1>10
<1> HIDE DEF Off
<1>12. H2 = HH
  <2>1. \A y \in Devices : H2[y] = HH[y]
    BY <1>9, <1>11
  <2> QED
    BY <2>1
<1>13. \A y \in Devices : H[y] \in Seq(Records) /\ Append(H[y], x) # <<>>
  BY AppendProperties DEF Histories
<1>14. \A y \in Devices : HH[y] # <<>> <=> H[y] # <<>>
  BY <1>13
<1> HIDE DEF H1, H2, HH
<1>15. \A y \in Devices : reg'.out[y] # NoStream => HH[y] # <<>>
  <2> SUFFICES ASSUME NEW y \in Devices, H[y] = <<>> PROVE reg'.out[y] = NoStream
    BY <1>14
  <2>1. y \notin Connected /\ y \notin Off
    BY <1>9, <1>11
  <2> QED
    BY <1>4, <1>8, <1>10, <2>1
<1>16. \A y \in Devices : reg.out[y] # NoStream => reg'.out[y] # NoStream
  <2>1. \A y \in Devices : reg'.out[y] = NoStream => HH[y] = <<>>
    BY <1>8, <1>12 DEF RegOK, StreamOK
  <2> QED
    BY <1>10, <1>14, <2>1
<1>17. \A c \in Clients : down'[c] =
         IF sock[c] = "auth" THEN Append(down[c], Frame(Len(H[DeviceOf[c]]) + 1, item))
                             ELSE down[c]
  BY <1>2, <1>6
<1> QED
  BY <1>8, <1>12, <1>15, <1>16, <1>17 DEF HH

----------------------------------------------------------------------------
(* What is in a history: the events in their order, and snapshots in one   *)
(* piece.                                                                  *)

\* The record at s is one of a snapshot, and not its last.
InSnapshot(hd, s) ==
  \/ hd[s].item.kind = "sessions"
  \/ hd[s].item.kind = "pending" /\ hd[s].item.n = 0

\* An event is the next event; it opens an approval when none is open, or resolves the
\* open one.
EventOK(hd, s) ==
  LET item == hd[s].item IN
  IsEvent(item) =>
    /\ s > 1
    /\ hd[s].pub = hd[s - 1].pub + 1
    /\ item.n = hd[s].pub
    /\ item.kind = "pending" => hd[s - 1].opn = {} /\ hd[s].opn = {item.approval}
    /\ item.kind = "resolved" => hd[s - 1].opn = {item.approval} /\ hd[s].opn = {}

\* Nothing else changes how many events there were, or what is open.
OtherOK(hd, s) ==
  ~IsEvent(hd[s].item) =>
    /\ hd[s].item.kind # "resolved"
    /\ hd[s].item.n <= hd[s].pub
    /\ s > 1 => hd[s].pub = hd[s - 1].pub /\ hd[s].opn = hd[s - 1].opn

\* The sessions of a snapshot are followed by the open approval and by the jobs.
PieceOK(hd, s) ==
  LET item == hd[s].item IN
  /\ item.kind = "jobs" => item.n = hd[s].pub
  /\ InSnapshot(hd, s) => s < Len(hd)
  /\ item.kind = "pending" /\ item.n = 0 =>
       hd[s].opn = {item.approval} /\ hd[s + 1].item.kind = "jobs"
  /\ item.kind = "sessions" =>
       IF hd[s].opn = {} THEN hd[s + 1].item.kind = "jobs"
       ELSE hd[s + 1].item.kind = "pending" /\ hd[s + 1].item.n = 0

EntryOK(hd, s) == EventOK(hd, s) /\ OtherOK(hd, s) /\ PieceOK(hd, s)

\* A history, when there were pub events and opn is open.
HistOK(hd, pub, opn) ==
  /\ \A s \in 1..Len(hd) : EntryOK(hd, s)
  /\ hd # <<>> => hd[Len(hd)].pub = pub /\ hd[Len(hd)].opn = opn

\* hx is hd with records behind it.
Extends(hd, hx) == Len(hd) <= Len(hx) /\ \A i \in 1..Len(hd) : hx[i] = hd[i]

\* The record at s is the last event so far, or behind it.
Quiet(hd, s) == \A t \in s + 1..Len(hd) : ~IsEvent(hd[t].item)

\* What is behind a history does not disturb it.
LEMMA ExtendsKeeps ==
  ASSUME NEW hd \in Seq(Records), NEW hx \in Seq(Records), Extends(hd, hx),
         \A s \in 1..Len(hd) : EntryOK(hd, s)
  PROVE  \A s \in 1..Len(hd) : EntryOK(hx, s)
<1> SUFFICES ASSUME NEW s \in 1..Len(hd) PROVE EntryOK(hx, s)
  OBVIOUS
<1>1. Len(hd) \in Nat /\ Len(hx) \in Nat /\ Len(hd) <= Len(hx)
  BY LenProperties DEF Extends
<1>2. hx[s] = hd[s] /\ (s > 1 => hx[s - 1] = hd[s - 1])
  BY <1>1 DEF Extends
<1>3. s < Len(hd) => hx[s + 1] = hd[s + 1] /\ s < Len(hx)
  BY <1>1 DEF Extends
<1>4. EventOK(hx, s) /\ OtherOK(hx, s)
  BY <1>2 DEF EntryOK, EventOK, OtherOK
<1>5. PieceOK(hx, s)
  BY <1>2, <1>3 DEF EntryOK, PieceOK, InSnapshot
<1> QED
  BY <1>4, <1>5 DEF EntryOK

\* The number of events never falls along a history, and where there is no event
\* neither it nor what is open changes.
LEMMA HistoryGrows ==
  ASSUME NEW hd \in Seq(Records), \A s \in 1..Len(hd) : EntryOK(hd, s),
         NEW a \in 1..Len(hd), NEW b \in a..Len(hd)
  PROVE  /\ hd[a].pub <= hd[b].pub
         /\ (\A t \in a + 1..b : ~IsEvent(hd[t].item)) =>
              hd[b].pub = hd[a].pub /\ hd[b].opn = hd[a].opn
<1> DEFINE P(k) == /\ hd[a].pub <= hd[a + k].pub
                   /\ (\A t \in a + 1..a + k : ~IsEvent(hd[t].item)) =>
                        hd[a + k].pub = hd[a].pub /\ hd[a + k].opn = hd[a].opn
           S == {k \in Nat : a + k <= Len(hd) => P(k)}
<1>1. Len(hd) \in Nat /\ \A i \in 1..Len(hd) : hd[i].pub \in Nat
  <2>1. \A i \in 1..Len(hd) : hd[i] \in Records
    BY ElementOfSeq
  <2> QED
    BY <2>1, LenProperties DEF Records
<1>2. 0 \in S
  BY <1>1
<1>3. ASSUME NEW k \in S PROVE k + 1 \in S
  <2> SUFFICES ASSUME a + (k + 1) <= Len(hd) PROVE P(k + 1)
    OBVIOUS
  <2> DEFINE c == a + (k + 1)
  <2>1. c \in 1..Len(hd) /\ c > 1 /\ c - 1 = a + k /\ a + k \in 1..Len(hd) /\ c \in a + 1..c
    BY <1>1
  <2>2. P(k)
    BY <1>1
  <2>3. \A t \in a + 1..a + k : t \in a + 1..c
    BY <1>1
  <2>4. EventOK(hd, c) /\ OtherOK(hd, c)
    BY <2>1 DEF EntryOK
  <2> HIDE DEF c, S
  <2>5. CASE IsEvent(hd[c].item)
    <3>1. hd[c].pub = hd[a + k].pub + 1
      BY <2>1, <2>4, <2>5 DEF EventOK
    <3>2. hd[a].pub <= hd[c].pub
      BY <1>1, <2>1, <2>2, <3>1
    <3> QED
      BY <2>1, <2>5, <3>2 DEF c
  <2>6. CASE ~IsEvent(hd[c].item)
    <3>1. hd[c].pub = hd[a + k].pub /\ hd[c].opn = hd[a + k].opn
      BY <2>1, <2>4, <2>6 DEF OtherOK
    <3>2. (\A t \in a + 1..c : ~IsEvent(hd[t].item)) =>
            hd[c].pub = hd[a].pub /\ hd[c].opn = hd[a].opn
      BY <2>2, <2>3, <3>1
    <3>3. hd[a].pub <= hd[c].pub
      BY <2>2, <3>1
    <3> QED
      BY <3>2, <3>3 DEF c
  <2> QED
    BY <2>5, <2>6
<1> HIDE DEF S, P
<1>4. S \in SUBSET Nat
  BY DEF S
<1>5. \A k \in Nat : k \in S
  BY <1>2, <1>3, <1>4, NatSetInduction
<1>6. b - a \in Nat /\ a + (b - a) = b /\ b <= Len(hd)
  BY <1>1
<1>7. P(b - a)
  BY <1>5, <1>6 DEF S
<1> QED
  BY <1>6, <1>7 DEF P

\* A record behind a history that is no event and no part of a snapshot.
LEMMA HistAppendPrivate ==
  ASSUME NEW hd \in Seq(Records), NEW pub \in Nat, NEW opn \in SUBSET Nat,
         HistOK(hd, pub, opn), hd # <<>>
  PROVE  LET hx == Append(hd, [item |-> Private, pub |-> pub, opn |-> opn]) IN
         /\ hx \in Seq(Records) /\ hx # <<>> /\ Len(hx) = Len(hd) + 1
         /\ HistOK(hx, pub, opn) /\ Extends(hd, hx)
         /\ hx[Len(hd) + 1].item = Private
<1> DEFINE x  == [item |-> Private, pub |-> pub, opn |-> opn]
           hx == Append(hd, x)
           n  == Len(hd)
<1>1. x \in Records /\ x.item = Private /\ x.pub = pub /\ x.opn = opn
  BY ItemTypes DEF Records
<1> HIDE DEF x
<1>2. /\ hx \in Seq(Records) /\ hx # <<>> /\ Len(hx) = n + 1
      /\ \A i \in 1..n : hx[i] = hd[i]
      /\ hx[n + 1] = x
  BY <1>1, AppendProperties
<1>3. n \in Nat /\ n > 0
  BY LenProperties, EmptySeq
<1> HIDE DEF hx
<1>4. Extends(hd, hx)
  BY <1>2, <1>3 DEF Extends
<1>5. \A s \in 1..n : EntryOK(hx, s)
  BY <1>2, <1>4, ExtendsKeeps DEF HistOK
<1>6. /\ hx[n + 1].item.kind = "private" /\ ~IsEvent(hx[n + 1].item)
      /\ hx[n + 1].item.n = 0 /\ 0 <= pub
      /\ hx[n + 1].pub = pub /\ hx[n + 1].opn = opn
  BY <1>1, <1>2 DEF Private, IsEvent
<1>7. hx[(n + 1) - 1].pub = pub /\ hx[(n + 1) - 1].opn = opn
  <2>1. (n + 1) - 1 = n /\ n \in 1..n
    BY <1>3
  <2> QED
    BY <1>2, <2>1 DEF HistOK
<1>8. EntryOK(hx, n + 1)
  BY <1>6, <1>7 DEF EntryOK, EventOK, OtherOK, PieceOK, InSnapshot
<1>9. \A s \in 1..Len(hx) : s \in 1..n \/ s = n + 1
  BY <1>2, <1>3
<1>10. HistOK(hx, pub, opn)
  BY <1>2, <1>5, <1>6, <1>8, <1>9 DEF HistOK
<1> QED
  BY <1>1, <1>2, <1>4, <1>10 DEF hx, x

\* The next event behind a history.
LEMMA HistAppendEvent ==
  ASSUME NEW hd \in Seq(Records), NEW pub \in Nat, NEW opn \in SUBSET Nat,
         HistOK(hd, pub, opn), hd # <<>>,
         NEW item \in Items, NEW new \in SUBSET Nat, item.n = pub + 1,
         \/ item.kind = "pending" /\ opn = {} /\ new = {item.approval}
         \/ item.kind = "resolved" /\ opn = {item.approval} /\ new = {}
  PROVE  LET hx == Append(hd, [item |-> item, pub |-> pub + 1, opn |-> new]) IN
         /\ hx \in Seq(Records) /\ hx # <<>> /\ Len(hx) = Len(hd) + 1
         /\ HistOK(hx, pub + 1, new) /\ Extends(hd, hx)
         /\ hx[Len(hd) + 1].item = item /\ hx[Len(hd) + 1].pub = pub + 1
         /\ IsEvent(item) /\ ~InSnapshot(hx, Len(hd) + 1)
<1> DEFINE x  == [item |-> item, pub |-> pub + 1, opn |-> new]
           hx == Append(hd, x)
           n  == Len(hd)
<1>1. x \in Records /\ x.item = item /\ x.pub = pub + 1 /\ x.opn = new
  BY DEF Records
<1> HIDE DEF x
<1>2. /\ hx \in Seq(Records) /\ hx # <<>> /\ Len(hx) = n + 1
      /\ \A i \in 1..n : hx[i] = hd[i]
      /\ hx[n + 1] = x
  BY <1>1, AppendProperties
<1>3. n \in Nat /\ n > 0
  BY LenProperties, EmptySeq
<1> HIDE DEF hx
<1>4. Extends(hd, hx)
  BY <1>2, <1>3 DEF Extends
<1>5. \A s \in 1..n : EntryOK(hx, s)
  BY <1>2, <1>4, ExtendsKeeps DEF HistOK
<1>6. hx[n + 1].item = item /\ hx[n + 1].pub = pub + 1 /\ hx[n + 1].opn = new
  BY <1>1, <1>2
<1>7. IsEvent(item) /\ item.n # 0
  BY DEF IsEvent
<1>8. ~InSnapshot(hx, n + 1) /\ item.kind # "jobs" /\ item.kind # "sessions"
  BY <1>6, <1>7 DEF InSnapshot
<1>9. hx[(n + 1) - 1].pub = pub /\ hx[(n + 1) - 1].opn = opn
  <2>1. (n + 1) - 1 = n /\ n \in 1..n
    BY <1>3
  <2> QED
    BY <1>2, <2>1 DEF HistOK
<1>10. EventOK(hx, n + 1)
  BY <1>3, <1>6, <1>9 DEF EventOK
<1>11. OtherOK(hx, n + 1) /\ PieceOK(hx, n + 1)
  BY <1>6, <1>7, <1>8 DEF OtherOK, PieceOK
<1>12. \A s \in 1..Len(hx) : s \in 1..n \/ s = n + 1
  BY <1>2, <1>3
<1>13. HistOK(hx, pub + 1, new)
  BY <1>2, <1>5, <1>6, <1>10, <1>11, <1>12 DEF HistOK, EntryOK
<1> QED
  BY <1>1, <1>2, <1>4, <1>6, <1>7, <1>8, <1>13 DEF hx, x

\* The items of a snapshot when there were pub events and opn is open.
IsSnapshot(items, pub, opn) ==
  \/ opn = {} /\ items = <<Sessions, Jobs(pub)>>
  \/ \E a \in 1..MaxPublished : opn = {a} /\ items = <<Sessions, Pending(0, a), Jobs(pub)>>

\* A snapshot is two or three items.
LEMMA SnapshotItems ==
  ASSUME NEW pub \in 0..MaxPublished, NEW opn, NEW items, IsSnapshot(items, pub, opn)
  PROVE  items \in Seq(Items) /\ Len(items) \in {2, 3}
<1>1. /\ Sessions \in Items /\ Jobs(pub) \in Items
      /\ \A a \in 1..MaxPublished : Pending(0, a) \in Items
  BY ItemTypes, DeliveryAssumption
<1>2. CASE opn = {} /\ items = <<Sessions, Jobs(pub)>>
  BY <1>1, <1>2, Tuples
<1>3. ASSUME NEW a \in 1..MaxPublished, items = <<Sessions, Pending(0, a), Jobs(pub)>>
      PROVE  items \in Seq(Items) /\ Len(items) \in {2, 3}
  BY <1>1, <1>3, Tuples
<1> QED
  BY <1>2, <1>3 DEF IsSnapshot

\* The records es carry the items of one snapshot, all written at the same moment.
Carry(es, items, pub, opn) ==
  /\ Len(es) = Len(items)
  /\ \A i \in 1..Len(items) : es[i].item = items[i] /\ es[i].pub = pub /\ es[i].opn = opn

\* The history hx is hd with a snapshot's records behind it.
SnapshotBehind(hd, items, pub, opn, hx) ==
  /\ \A i \in 1..Len(items) : ~IsEvent(items[i])
  /\ hx \in Seq(Records) /\ hx # <<>> /\ Len(hx) = Len(hd) + Len(items)
  /\ \A i \in 1..Len(items) : hx[Len(hd) + i].item = items[i] /\ hx[Len(hd) + i].pub = pub
  /\ HistOK(hx, pub, opn) /\ Extends(hd, hx)
  /\ hx[Len(hd) + 1].item.kind = "sessions"

\* A snapshot behind a history, which may be empty.
LEMMA HistAppendSnapshot ==
  ASSUME NEW hd \in Seq(Records), NEW pub \in 0..MaxPublished, NEW opn \in SUBSET Nat,
         HistOK(hd, pub, opn), NEW items, IsSnapshot(items, pub, opn), NEW es \in Seq(Records),
         Carry(es, items, pub, opn)
  PROVE  SnapshotBehind(hd, items, pub, opn, hd \o es)
<1> USE DEF Carry, SnapshotBehind
<1> DEFINE m  == Len(items)
           hx == hd \o es
           n  == Len(hd)
<1>1. MaxPublished \in Nat /\ n \in Nat /\ pub \in Nat /\ 0 \in 0..MaxPublished
  BY LenProperties, DeliveryAssumption
<1>2. /\ Sessions.kind = "sessions" /\ Sessions.n = 0
      /\ Jobs(pub).kind = "jobs" /\ Jobs(pub).n = pub
  BY DEF Sessions, Jobs
<1>3. \A a : Pending(0, a).kind = "pending" /\ Pending(0, a).n = 0 /\ Pending(0, a).approval = a
  BY DEF Pending
<1>4. /\ Sessions \in Items /\ Jobs(pub) \in Items
      /\ \A a \in 1..MaxPublished : Pending(0, a) \in Items
  BY <1>1, ItemTypes
<1>5. ~IsEvent(Sessions) /\ ~IsEvent(Jobs(pub)) /\ \A a : ~IsEvent(Pending(0, a))
  BY <1>2, <1>3 DEF IsEvent
<1>6. /\ items \in Seq(Items) /\ m \in {2, 3} /\ m \in Nat /\ (m = 2 <=> opn = {})
      /\ \A i \in 1..m : ~IsEvent(items[i])
      /\ items[1] = Sessions /\ items[m] = Jobs(pub)
      /\ opn # {} => \E a \in 1..MaxPublished : opn = {a} /\ items[2] = Pending(0, a)
  <2>1. CASE opn = {} /\ items = <<Sessions, Jobs(pub)>>
    <3>1. m = 2 /\ items[1] = Sessions /\ items[2] = Jobs(pub) /\ items \in Seq(Items)
      BY <1>4, <2>1, Tuples
    <3>2. \A i \in 1..m : i = 1 \/ i = 2
      BY <3>1
    <3> QED
      BY <1>5, <2>1, <3>1, <3>2
  <2>2. ASSUME NEW a \in 1..MaxPublished, opn = {a},
               items = <<Sessions, Pending(0, a), Jobs(pub)>>
        PROVE  /\ items \in Seq(Items) /\ m \in {2, 3} /\ m \in Nat /\ (m = 2 <=> opn = {})
               /\ \A i \in 1..m : ~IsEvent(items[i])
               /\ items[1] = Sessions /\ items[m] = Jobs(pub)
               /\ \E b \in 1..MaxPublished : opn = {b} /\ items[2] = Pending(0, b)
    <3>1. /\ m = 3 /\ items[1] = Sessions /\ items[2] = Pending(0, a)
          /\ items[3] = Jobs(pub) /\ items \in Seq(Items)
      BY <1>4, <2>2, Tuples
    <3>2. \A i \in 1..m : i = 1 \/ i = 2 \/ i = 3
      BY <3>1
    <3> QED
      BY <1>5, <2>2, <3>1, <3>2
  <2> QED
    BY <2>1, <2>2 DEF IsSnapshot
<1> HIDE DEF m
<1>10. /\ es \in Seq(Records) /\ Len(es) = m
       /\ \A i \in 1..m : es[i].item = items[i] /\ es[i].pub = pub /\ es[i].opn = opn
  BY DEF m
<1>11. /\ hx \in Seq(Records) /\ Len(hx) = n + m
       /\ \A i \in 1..n + m : hx[i] = IF i <= n THEN hd[i] ELSE es[i - n]
  <2>1. /\ hx \in Seq(Records) /\ Len(hx) = Len(hd) + Len(es)
        /\ \A i \in 1..Len(hd) + Len(es) : hx[i] = IF i <= Len(hd) THEN hd[i] ELSE es[i - Len(hd)]
    BY <1>10, ConcatProperties
  <2> QED
    BY <1>10, <2>1
<1> HIDE DEF hx
<1>12. \A i \in 1..m : hx[n + i].item = items[i] /\ hx[n + i].pub = pub /\ hx[n + i].opn = opn
  <2> SUFFICES ASSUME NEW i \in 1..m
               PROVE  hx[n + i].item = items[i] /\ hx[n + i].pub = pub /\ hx[n + i].opn = opn
    OBVIOUS
  <2>1. n + i \in 1..n + m /\ ~(n + i <= n) /\ (n + i) - n = i
    BY <1>1, <1>6
  <2>2. hx[n + i] = es[i]
    BY <1>11, <2>1
  <2> QED
    BY <1>10, <2>2
<1>13. \A i \in 1..n : hx[i] = hd[i]
  <2>1. \A i \in 1..n : i \in 1..n + m /\ i <= n
    BY <1>1, <1>6
  <2> QED
    BY <1>11, <2>1
<1>14. Extends(hd, hx)
  BY <1>1, <1>6, <1>11, <1>13 DEF Extends
<1>15. \A s \in 1..n : EntryOK(hx, s)
  BY <1>11, <1>14, ExtendsKeeps DEF HistOK
<1>16. ASSUME NEW i \in 1..m PROVE EntryOK(hx, n + i)
  <2> DEFINE s == n + i
  <2>1. hx[s].item = items[i] /\ hx[s].pub = pub /\ hx[s].opn = opn /\ ~IsEvent(hx[s].item)
    BY <1>6, <1>12
  <2>2. s > 1 => hx[s - 1].pub = pub /\ hx[s - 1].opn = opn
    <3> SUFFICES ASSUME s > 1 PROVE hx[s - 1].pub = pub /\ hx[s - 1].opn = opn
      OBVIOUS
    <3>1. CASE i = 1
      <4>1. s - 1 = n /\ n \in 1..n /\ n > 0
        BY <1>1, <3>1
      <4>2. hd # <<>> /\ hx[n] = hd[n]
        BY <1>13, <4>1, EmptySeq
      <4> QED
        BY <4>1, <4>2 DEF HistOK
    <3>2. CASE i # 1
      <4>1. i - 1 \in 1..m /\ s - 1 = n + (i - 1)
        BY <1>1, <1>6, <3>2
      <4> QED
        BY <1>12, <4>1
    <3> QED
      BY <3>1, <3>2
  <2>3. s < Len(hx) <=> i # m
    BY <1>1, <1>6, <1>11
  <2>4. i # m => hx[s + 1].item = items[i + 1]
    <3>1. i # m => i + 1 \in 1..m /\ s + 1 = n + (i + 1)
      BY <1>1, <1>6
    <3> QED
      BY <1>12, <3>1
  <2> HIDE DEF s
  <2>5. CASE i = m
    <3>1. hx[s].item.kind = "jobs" /\ hx[s].item.n = pub
      BY <1>2, <1>6, <2>1, <2>5
    <3>2. EventOK(hx, s) /\ OtherOK(hx, s)
      BY <2>1, <2>2, <3>1 DEF EventOK, OtherOK
    <3>3. PieceOK(hx, s)
      BY <2>1, <3>1 DEF PieceOK, InSnapshot
    <3> QED
      BY <3>2, <3>3 DEF EntryOK, s
  <2>6. CASE i = 1
    <3>1. i # m
      BY <1>6, <2>6
    <3>2. items[1] = Sessions /\ (opn = {} => items[2] = Jobs(pub))
      BY <1>6
    <3>3. i + 1 = 2
      BY <2>6
    <3>4. opn # {} => items[2].kind = "pending" /\ items[2].n = 0
      BY <1>3, <1>6
    <3>5. hx[s + 1].item = items[2]
      BY <2>4, <3>1, <3>3
    <3>6. PieceOK(hx, s)
      BY <1>2, <2>1, <2>3, <2>6, <3>1, <3>2, <3>4, <3>5 DEF PieceOK, InSnapshot
    <3>7. EventOK(hx, s) /\ OtherOK(hx, s)
      BY <1>1, <1>2, <2>1, <2>2, <2>6, <3>2 DEF EventOK, OtherOK
    <3> QED
      BY <3>6, <3>7 DEF EntryOK, s
  <2>7. CASE i # 1 /\ i # m
    <3>1. m = 3 /\ i = 2 /\ i + 1 = 3 /\ opn # {}
      BY <1>6, <2>7
    <3>2. PICK a \in 1..MaxPublished : opn = {a} /\ items[2] = Pending(0, a)
      BY <1>6, <3>1
    <3>3. hx[s + 1].item.kind = "jobs"
      BY <1>2, <1>6, <2>4, <2>7, <3>1
    <3>4. hx[s].item.kind = "pending" /\ hx[s].item.n = 0 /\ hx[s].opn = {hx[s].item.approval}
      BY <1>3, <2>1, <3>1, <3>2
    <3>5. PieceOK(hx, s)
      BY <2>3, <2>7, <3>3, <3>4 DEF PieceOK, InSnapshot
    <3>6. EventOK(hx, s) /\ OtherOK(hx, s)
      BY <2>1, <2>2, <3>4 DEF EventOK, OtherOK
    <3> QED
      BY <3>5, <3>6 DEF EntryOK, s
  <2> QED
    BY <2>5, <2>6, <2>7 DEF s
<1>17. \A s \in 1..Len(hx) : s \in 1..n \/ \E i \in 1..m : s = n + i
  <2> SUFFICES ASSUME NEW s \in 1..Len(hx), s \notin 1..n PROVE \E i \in 1..m : s = n + i
    OBVIOUS
  <2>1. s - n \in 1..m /\ s = n + (s - n)
    BY <1>1, <1>6, <1>11
  <2> QED
    BY <2>1
<1>18. HistOK(hx, pub, opn)
  <2>1. m \in 1..m
    BY <1>6
  <2> QED
    BY <1>11, <1>12, <1>15, <1>16, <1>17, <2>1 DEF HistOK
<1>19. hx # <<>> /\ 1 \in 1..m
  BY <1>1, <1>6, <1>11, EmptySeq
<1>20. hx[n + 1].item.kind = "sessions"
  BY <1>2, <1>6, <1>12, <1>19
<1> QED
  BY <1>6, <1>11, <1>12, <1>14, <1>18, <1>19, <1>20 DEF hx, m

----------------------------------------------------------------------------
(* What is on its way to a client: places of the history of its device, in *)
(* order, that leave out no event and that do not tear a snapshot.         *)

\* A client that has got as far as a may get the record at b next.
Linked(hd, a, b) ==
  /\ a < b
  /\ a = 0 => hd[b].item.kind = "sessions"
  /\ a # 0 => /\ \A t \in a + 1..b - 1 : ~IsEvent(hd[t].item)
              /\ InSnapshot(hd, a) => b = a + 1

\* Where a client that started at start is after i of the frames.
Pos(start, frames, i) == IF i = 0 THEN start ELSE frames[i].seq

\* The frames take a client from start to the last event there is.
Chain(hd, start, frames) ==
  /\ start \in Nat
  /\ \A i \in 1..Len(frames) :
       /\ frames[i].seq \in 1..Len(hd)
       /\ ~frames[i].salt
       /\ frames[i].item = hd[frames[i].seq].item
       /\ Linked(hd, Pos(start, frames, i - 1), frames[i].seq)
  /\ LET end == Pos(start, frames, Len(frames)) IN
       end \in 1..Len(hd) /\ ~InSnapshot(hd, end) /\ Quiet(hd, end)

\* Where a chain is before each frame.
LEMMA PosType ==
  ASSUME NEW hd \in Seq(Records), NEW start, NEW frames \in Seq(Frames),
         Chain(hd, start, frames), NEW i \in 0..Len(frames)
  PROVE  Pos(start, frames, i) \in Nat
<1>1. Len(frames) \in Nat /\ Len(hd) \in Nat
  BY LenProperties
<1>2. CASE i = 0
  BY <1>2 DEF Pos, Chain
<1>3. CASE i # 0
  BY <1>1, <1>3 DEF Pos, Chain
<1> QED
  BY <1>2, <1>3

\* Being next to each other is a matter of the records between.
LEMMA LinkedExtends ==
  ASSUME NEW hd \in Seq(Records), NEW hx \in Seq(Records), Extends(hd, hx),
         NEW a \in Nat, NEW b \in 1..Len(hd), Linked(hd, a, b)
  PROVE  Linked(hx, a, b)
<1>1. Len(hd) \in Nat /\ Len(hx) \in Nat /\ Len(hd) <= Len(hx) /\ a < b
  BY LenProperties DEF Extends, Linked
<1>2. hx[b] = hd[b]
  BY DEF Extends
<1>3. a # 0 => hx[a] = hd[a]
  BY <1>1 DEF Extends
<1>4. a # 0 => \A t \in a + 1..b - 1 : hx[t] = hd[t]
  BY <1>1 DEF Extends
<1> QED
  BY <1>1, <1>2, <1>3, <1>4 DEF Linked, InSnapshot

\* What is written behind the history for others, if it is no event, leaves a chain be.
LEMMA ChainExtend ==
  ASSUME NEW hd \in Seq(Records), NEW hx \in Seq(Records), Extends(hd, hx),
         NEW start, NEW frames \in Seq(Frames), Chain(hd, start, frames),
         \A s \in Len(hd) + 1..Len(hx) : ~IsEvent(hx[s].item)
  PROVE  Chain(hx, start, frames)
<1> DEFINE end == Pos(start, frames, Len(frames))
<1>1. Len(hd) \in Nat /\ Len(hx) \in Nat /\ Len(frames) \in Nat /\ Len(hd) <= Len(hx)
  BY LenProperties DEF Extends
<1>2. ASSUME NEW i \in 1..Len(frames)
      PROVE  /\ frames[i].seq \in 1..Len(hx)
             /\ ~frames[i].salt
             /\ frames[i].item = hx[frames[i].seq].item
             /\ Linked(hx, Pos(start, frames, i - 1), frames[i].seq)
  <2> DEFINE b == frames[i].seq
             a == Pos(start, frames, i - 1)
  <2>1. /\ b \in 1..Len(hd) /\ ~frames[i].salt /\ frames[i].item = hd[b].item
        /\ Linked(hd, a, b)
    BY DEF Chain
  <2>2. i - 1 \in 0..Len(frames)
    BY <1>1
  <2>3. a \in Nat
    BY <2>2, PosType
  <2> HIDE DEF a, b
  <2>4. Linked(hx, a, b)
    BY <2>1, <2>3, LinkedExtends
  <2>5. b \in 1..Len(hx) /\ hx[b] = hd[b]
    BY <1>1, <2>1 DEF Extends
  <2> QED
    BY <2>1, <2>4, <2>5 DEF a, b
<1>3. end \in 1..Len(hd) /\ ~InSnapshot(hd, end) /\ Quiet(hd, end)
  BY DEF Chain
<1> HIDE DEF end
<1>4. end \in 1..Len(hx) /\ hx[end] = hd[end]
  BY <1>1, <1>3 DEF Extends
<1>5. Quiet(hx, end)
  <2> SUFFICES ASSUME NEW t \in end + 1..Len(hx) PROVE ~IsEvent(hx[t].item)
    BY DEF Quiet
  <2>1. t \in end + 1..Len(hd) \/ t \in Len(hd) + 1..Len(hx)
    BY <1>1, <1>3
  <2>2. t \in end + 1..Len(hd) => t \in 1..Len(hd) /\ hx[t] = hd[t]
    BY <1>1, <1>3 DEF Extends
  <2> QED
    BY <1>3, <2>1, <2>2 DEF Quiet
<1>6. ~InSnapshot(hx, end)
  BY <1>3, <1>4 DEF InSnapshot
<1>7. start \in Nat
  BY DEF Chain
<1> QED
  BY <1>2, <1>4, <1>5, <1>6, <1>7 DEF Chain, end

\* The record written next may be sent next.
LEMMA ChainAppend ==
  ASSUME NEW hd \in Seq(Records), NEW hx \in Seq(Records), Extends(hd, hx),
         Len(hx) = Len(hd) + 1,
         NEW start, NEW frames \in Seq(Frames), Chain(hd, start, frames),
         NEW f \in Frames, f.seq = Len(hx), ~f.salt, f.item = hx[Len(hx)].item,
         ~InSnapshot(hx, Len(hx))
  PROVE  Chain(hx, start, Append(frames, f))
<1> DEFINE fs  == Append(frames, f)
           n   == Len(frames)
           end == Pos(start, frames, n)
<1>1. Len(hd) \in Nat /\ Len(hx) \in Nat /\ n \in Nat
  BY LenProperties
<1>2. /\ Len(fs) = n + 1 /\ fs[n + 1] = f
      /\ \A i \in 1..n : fs[i] = frames[i]
  BY AppendProperties
<1> HIDE DEF fs
<1>3. end \in 1..Len(hd) /\ ~InSnapshot(hd, end) /\ Quiet(hd, end)
  BY DEF Chain
<1> HIDE DEF end
<1>4. Linked(hx, end, Len(hx))
  <2>1. end < Len(hx) /\ end # 0 /\ hx[end] = hd[end] /\ Len(hx) - 1 = Len(hd)
    BY <1>1, <1>3 DEF Extends
  <2>2. \A t \in end + 1..Len(hd) : hx[t] = hd[t]
    BY <1>1, <1>3 DEF Extends
  <2>3. \A t \in end + 1..Len(hx) - 1 : ~IsEvent(hx[t].item)
    BY <1>3, <2>1, <2>2 DEF Quiet
  <2> QED
    BY <1>3, <2>1, <2>3 DEF Linked, InSnapshot
<1>5. \A i \in 0..n : Pos(start, fs, i) = Pos(start, frames, i)
  BY <1>1, <1>2 DEF Pos
<1>6. ASSUME NEW i \in 1..n + 1
      PROVE  /\ fs[i].seq \in 1..Len(hx)
             /\ ~fs[i].salt
             /\ fs[i].item = hx[fs[i].seq].item
             /\ Linked(hx, Pos(start, fs, i - 1), fs[i].seq)
  <2>1. CASE i = n + 1
    <3>1. i - 1 = n /\ n \in 0..n /\ Len(hx) \in 1..Len(hx)
      BY <1>1, <2>1
    <3>2. Pos(start, fs, i - 1) = end
      BY <1>5, <3>1 DEF end
    <3>3. fs[i] = f
      BY <1>2, <2>1
    <3> QED
      BY <1>4, <3>1, <3>2, <3>3
  <2>2. CASE i # n + 1
    <3> DEFINE b == frames[i].seq
               a == Pos(start, frames, i - 1)
    <3>1. i \in 1..n /\ i - 1 \in 0..n
      BY <1>1, <2>2
    <3>2. /\ b \in 1..Len(hd) /\ ~frames[i].salt /\ frames[i].item = hd[b].item
          /\ Linked(hd, a, b)
      BY <3>1 DEF Chain
    <3>3. a \in Nat
      BY <3>1, PosType
    <3>4. fs[i] = frames[i] /\ Pos(start, fs, i - 1) = a
      BY <1>2, <1>5, <3>1
    <3> HIDE DEF a
    <3>5. Linked(hx, a, b)
      BY <3>2, <3>3, LinkedExtends
    <3>6. b \in 1..Len(hx) /\ hx[b] = hd[b]
      BY <1>1, <3>2 DEF Extends
    <3> QED
      BY <3>2, <3>4, <3>5, <3>6
  <2> QED
    BY <2>1, <2>2
<1>7. Pos(start, fs, n + 1) = Len(hx)
  BY <1>1, <1>2 DEF Pos
<1>8. Quiet(hx, Len(hx)) /\ Len(hx) \in 1..Len(hx)
  BY <1>1 DEF Quiet
<1>9. start \in Nat
  BY DEF Chain
<1>10. Chain(hx, start, fs)
  BY <1>2, <1>6, <1>7, <1>8, <1>9 DEF Chain
<1> QED
  BY <1>10 DEF fs

\* A client that takes the first frame is on the rest of the chain.
LEMMA ChainTail ==
  ASSUME NEW hd \in Seq(Records), NEW start, NEW frames \in Seq(Frames),
         frames # <<>>, Chain(hd, start, frames)
  PROVE  Chain(hd, frames[1].seq, Tail(frames))
<1> DEFINE fs == Tail(frames)
           n  == Len(frames)
           f  == frames[1].seq
<1>1. n \in Nat /\ n > 0
  BY LenProperties, EmptySeq
<1>2. Len(fs) = n - 1 /\ \A i \in 1..n - 1 : fs[i] = frames[i + 1]
  BY HeadTailProperties
<1> HIDE DEF fs
<1>3. \A i \in 0..n - 1 : Pos(f, fs, i) = Pos(start, frames, i + 1)
  BY <1>1, <1>2 DEF Pos
<1>4. f \in 1..Len(hd)
  BY <1>1 DEF Chain
<1>5. f \in Nat
  BY <1>4, LenProperties
<1> HIDE DEF f
<1>6. ASSUME NEW i \in 1..n - 1
      PROVE  /\ fs[i].seq \in 1..Len(hd)
             /\ ~fs[i].salt
             /\ fs[i].item = hd[fs[i].seq].item
             /\ Linked(hd, Pos(f, fs, i - 1), fs[i].seq)
  <2>1. i + 1 \in 1..n /\ i - 1 \in 0..n - 1 /\ (i - 1) + 1 = (i + 1) - 1
    BY <1>1
  <2>2. fs[i] = frames[i + 1] /\ Pos(f, fs, i - 1) = Pos(start, frames, (i + 1) - 1)
    BY <1>2, <1>3, <2>1
  <2> QED
    BY <2>1, <2>2 DEF Chain
<1>7. Pos(f, fs, n - 1) = Pos(start, frames, n)
  <2>1. n - 1 \in 0..n - 1 /\ (n - 1) + 1 = n
    BY <1>1
  <2> QED
    BY <1>3, <2>1
<1>8. Chain(hd, f, fs)
  BY <1>2, <1>5, <1>6, <1>7 DEF Chain
<1> QED
  BY <1>8 DEF fs, f

\* Everything behind the place a is a chain for a client that is there, and for one
\* that starts anew when a snapshot begins there.
LEMMA ChainRun ==
  ASSUME NEW hd \in Seq(Records), \A s \in 1..Len(hd) : EntryOK(hd, s), hd # <<>>,
         NEW a \in 0..Len(hd), NEW start \in {0, a}, NEW frames \in Seq(Frames),
         start = 0 => a < Len(hd) /\ hd[a + 1].item.kind = "sessions",
         Len(frames) = Len(hd) - a,
         \A i \in 1..Len(frames) : frames[i] = Frame(a + i, hd[a + i].item)
  PROVE  Chain(hd, start, frames)
<1> DEFINE n == Len(frames)
           L == Len(hd)
<1>1. L \in Nat /\ L > 0 /\ n \in Nat /\ n = L - a /\ start \in Nat
  BY LenProperties, EmptySeq
<1>2. \A i \in 1..n : /\ frames[i].seq = a + i /\ frames[i].item = hd[a + i].item
                      /\ ~frames[i].salt
  <2>1. \A seq, item : /\ Frame(seq, item).seq = seq /\ Frame(seq, item).item = item
                       /\ ~Frame(seq, item).salt
    BY DEF Frame
  <2> QED
    BY <2>1
<1>3. ASSUME NEW i \in 1..n
      PROVE  /\ a + i \in 1..L
             /\ Linked(hd, Pos(start, frames, i - 1), a + i)
  <2>1. a + i \in 1..L
    BY <1>1
  <2>2. CASE i = 1
    <3>1. i - 1 = 0 /\ a + i = a + 1 /\ start < a + i
      BY <1>1, <2>2
    <3>2. Pos(start, frames, i - 1) = start
      BY <3>1 DEF Pos
    <3>3. start # 0 => start = a /\ a # 0
      OBVIOUS
    <3>4. start # 0 => \A t \in start + 1..(a + i) - 1 : FALSE
      BY <1>1, <3>1, <3>3
    <3>5. Linked(hd, start, a + i)
      BY <3>1, <3>3, <3>4 DEF Linked
    <3> QED
      BY <2>1, <3>2, <3>5
  <2>3. CASE i # 1
    <3>1. i - 1 \in 1..n /\ i - 1 # 0
      BY <1>1, <2>3
    <3>2. Pos(start, frames, i - 1) = a + (i - 1)
      BY <1>2, <3>1 DEF Pos
    <3>3. /\ a + (i - 1) < a + i /\ a + (i - 1) # 0 /\ a + i = (a + (i - 1)) + 1
          /\ \A t \in (a + (i - 1)) + 1..(a + i) - 1 : FALSE
      BY <1>1, <3>1
    <3>4. Linked(hd, a + (i - 1), a + i)
      BY <3>3 DEF Linked
    <3> QED
      BY <2>1, <3>2, <3>4
  <2> QED
    BY <2>2, <2>3
<1>4. Pos(start, frames, n) = L
  <2>1. CASE n = 0
    BY <1>1, <2>1 DEF Pos
  <2>2. CASE n # 0
    <3>1. n \in 1..n /\ a + n = L
      BY <1>1, <2>2
    <3> QED
      BY <1>2, <2>2, <3>1 DEF Pos
  <2> QED
    BY <2>1, <2>2
<1>5. L \in 1..L /\ Quiet(hd, L)
  BY <1>1 DEF Quiet
<1>6. ~InSnapshot(hd, L)
  BY <1>1, <1>5 DEF EntryOK, PieceOK
<1> QED
  BY <1>1, <1>2, <1>3, <1>4, <1>5, <1>6 DEF Chain

----------------------------------------------------------------------------
(* What a client has made of the history up to the place h.                *)

\* It knows of every event, or is in the middle of a snapshot that will tell it; and it
\* shows what is open, and nothing else unless it was resynced with approvals on its
\* screen.
Synced(hd, h, kn, sc, res) ==
  /\ InSnapshot(hd, h) \/ 1..hd[h].pub \subseteq kn
  /\ \/ hd[h].opn \subseteq sc
     \/ hd[h].item.kind = "sessions"
  /\ \/ res
     \/ sc = hd[h].opn
     \/ hd[h].item.kind = "sessions" /\ sc = {}

\* What an item teaches: the jobs of a snapshot every event so far, an event itself.
LEMMA LearntItem ==
  ASSUME NEW item
  PROVE  /\ item.kind = "jobs" => Learnt(item) = 1..item.n
         /\ item.kind # "jobs" => Learnt(item) = {item.n} \ {0}
BY DEF Learnt

\* The first record of a snapshot begins it, wherever the client was.
LEMMA SyncedFirst ==
  ASSUME NEW hd, NEW b, hd[b].item.kind = "sessions", NEW kn, NEW sc, NEW res,
         res \/ sc = {}
  PROVE  Synced(hd, b, kn \cup Learnt(hd[b].item), ApplyEvent(sc, hd[b].item), res)
<1>1. ApplyEvent(sc, hd[b].item) = sc
  BY DEF ApplyEvent
<1> QED
  BY <1>1 DEF Synced, InSnapshot

\* The next frame of a chain keeps a client in step with the history.
LEMMA SyncedNext ==
  ASSUME NEW hd \in Seq(Records), \A s \in 1..Len(hd) : EntryOK(hd, s),
         NEW a \in 1..Len(hd), NEW b \in 1..Len(hd), Linked(hd, a, b),
         NEW kn, NEW sc, NEW res, Synced(hd, a, kn, sc, res)
  PROVE  Synced(hd, b, kn \cup Learnt(hd[b].item), ApplyEvent(sc, hd[b].item), res)
<1> DEFINE item == hd[b].item
           k2   == kn \cup Learnt(item)
           s2   == ApplyEvent(sc, item)
<1>1. Len(hd) \in Nat /\ a < b /\ \A i \in 1..Len(hd) : hd[i].pub \in Nat /\ hd[i].item \in Items
  <2>1. \A i \in 1..Len(hd) : hd[i] \in Records
    BY ElementOfSeq
  <2> QED
    BY <2>1, LenProperties DEF Records, Linked
<1>2. EventOK(hd, b) /\ OtherOK(hd, b) /\ PieceOK(hd, b) /\ PieceOK(hd, a) /\ b > 1
  BY <1>1 DEF EntryOK
<1>3. /\ item.kind = "jobs" => Learnt(item) = 1..item.n
      /\ item.kind # "jobs" /\ item.n # 0 => Learnt(item) = {item.n}
  BY LearntItem
<1>4. /\ item.kind = "pending" => s2 = sc \cup {item.approval}
      /\ item.kind = "resolved" => s2 = sc \ {item.approval}
      /\ item.kind \notin {"pending", "resolved"} => s2 = sc
  BY DEF ApplyEvent
<1>5. item.kind \in {"pending", "resolved", "sessions", "jobs", "private"}
  BY <1>1 DEF Items
<1> HIDE DEF s2, k2
<1>6. CASE InSnapshot(hd, a)
  <2>1. b = a + 1 /\ b - 1 = a
    BY <1>1, <1>6 DEF Linked
  <2>2. ~IsEvent(item) /\ hd[b].pub = hd[a].pub /\ hd[b].opn = hd[a].opn
    <3>1. ~IsEvent(item)
      BY <1>2, <1>6, <2>1 DEF PieceOK, InSnapshot, IsEvent
    <3> QED
      BY <1>2, <2>1, <3>1 DEF OtherOK
  <2>3. CASE item.kind = "jobs"
    <3>1. 1..hd[b].pub \subseteq k2
      BY <1>2, <1>3, <2>3 DEF PieceOK, k2
    <3>2. s2 = sc
      BY <1>4, <2>3
    <3>3. hd[a].item.kind = "sessions" => hd[a].opn = {}
      BY <1>2, <2>1, <2>3 DEF PieceOK
    <3>4. hd[b].opn \subseteq s2 /\ (res \/ s2 = hd[b].opn)
      BY <2>2, <3>2, <3>3 DEF Synced
    <3> QED
      BY <3>1, <3>4 DEF Synced, s2, k2
  <2>4. CASE item.kind = "pending" /\ item.n = 0
    <3>1. InSnapshot(hd, b)
      BY <2>4 DEF InSnapshot
    <3>2. hd[b].opn = {item.approval} /\ s2 = sc \cup {item.approval}
      BY <1>2, <1>4, <2>4 DEF PieceOK
    <3>3. res \/ s2 = hd[b].opn
      BY <2>2, <3>2 DEF Synced
    <3> QED
      BY <3>1, <3>2, <3>3 DEF Synced, s2, k2
  <2> QED
    BY <1>2, <1>6, <2>1, <2>3, <2>4 DEF PieceOK, InSnapshot
<1>7. CASE ~InSnapshot(hd, a)
  <2>1. hd[b - 1].pub = hd[a].pub /\ hd[b - 1].opn = hd[a].opn
    <3>1. b - 1 \in a..Len(hd) /\ \A t \in a + 1..b - 1 : ~IsEvent(hd[t].item)
      BY <1>1 DEF Linked
    <3> QED
      BY <3>1, HistoryGrows
  <2>2. 1..hd[a].pub \subseteq kn /\ hd[a].opn \subseteq sc /\ (res \/ sc = hd[a].opn)
    BY <1>7 DEF Synced, InSnapshot
  <2>3. CASE IsEvent(item)
    <3>1. hd[b].pub = hd[a].pub + 1 /\ item.n = hd[b].pub
      BY <1>2, <2>1, <2>3 DEF EventOK
    <3>2. item.kind # "jobs" /\ item.n # 0
      BY <2>3 DEF IsEvent
    <3>3. 1..hd[b].pub \subseteq k2
      <4>1. \A e \in 1..hd[b].pub : e \in 1..hd[a].pub \/ e = item.n
        BY <1>1, <3>1
      <4> QED
        BY <1>3, <2>2, <3>2, <4>1 DEF k2
    <3>4. CASE item.kind = "pending"
      <4>1. hd[a].opn = {} /\ hd[b].opn = {item.approval}
        BY <1>2, <2>1, <2>3, <3>4 DEF EventOK
      <4>2. hd[b].opn \subseteq s2 /\ (res \/ s2 = hd[b].opn)
        BY <1>4, <2>2, <3>4, <4>1
      <4> QED
        BY <3>3, <4>2 DEF Synced, s2, k2
    <3>5. CASE item.kind = "resolved"
      <4>1. hd[a].opn = {item.approval} /\ hd[b].opn = {}
        BY <1>2, <2>1, <2>3, <3>5 DEF EventOK
      <4>2. hd[b].opn \subseteq s2 /\ (res \/ s2 = hd[b].opn)
        BY <1>4, <2>2, <3>5, <4>1
      <4> QED
        BY <3>3, <4>2 DEF Synced, s2, k2
    <3> QED
      BY <2>3, <3>4, <3>5 DEF IsEvent
  <2>4. CASE ~IsEvent(item)
    <3>1. hd[b].pub = hd[a].pub /\ hd[b].opn = hd[a].opn /\ item.kind # "resolved"
      BY <1>2, <2>1, <2>4 DEF OtherOK
    <3>2. 1..hd[b].pub \subseteq k2
      BY <2>2, <3>1 DEF k2
    <3>3. s2 = sc \/ s2 = sc \cup hd[b].opn
      <4>1. CASE item.kind = "pending"
        <5>1. item.n = 0
          BY <2>4, <4>1 DEF IsEvent
        <5> QED
          BY <1>2, <1>4, <4>1, <5>1 DEF PieceOK
      <4>2. CASE item.kind # "pending"
        BY <1>4, <3>1, <4>2
      <4> QED
        BY <4>1, <4>2
    <3>4. hd[b].opn \subseteq s2 /\ (res \/ s2 = hd[b].opn)
      BY <2>2, <3>1, <3>3
    <3> QED
      BY <3>2, <3>4 DEF Synced, s2, k2
  <2> QED
    BY <2>3, <2>4
<1> QED
  BY <1>6, <1>7

\* A client that is at the last event has learnt everything.
LEMMA SyncedLast ==
  ASSUME NEW hd \in Seq(Records), NEW pub, NEW opn, HistOK(hd, pub, opn),
         NEW a \in 1..Len(hd), ~InSnapshot(hd, a), Quiet(hd, a),
         NEW kn, NEW sc, NEW res, Synced(hd, a, kn, sc, res)
  PROVE  1..pub \subseteq kn /\ opn \subseteq sc /\ (res \/ sc = opn)
<1>1. Len(hd) \in Nat /\ Len(hd) \in a..Len(hd) /\ hd # <<>>
  BY LenProperties, EmptySeq
<1>2. hd[Len(hd)].pub = hd[a].pub /\ hd[Len(hd)].opn = hd[a].opn
  BY <1>1, HistoryGrows DEF HistOK, Quiet
<1>3. hd[a].pub = pub /\ hd[a].opn = opn
  BY <1>1, <1>2 DEF HistOK
<1> QED
  BY <1>3 DEF Synced, InSnapshot

----------------------------------------------------------------------------
(* A client and the history of its device.                                 *)

\* The frames a client has still to read, and where it will be when it starts on them:
\* with the salt of a full resync it begins anew.
Unread(ke, dn)    == IF ke THEN dn ELSE Tail(dn)
Start(ke, dn, hi) == IF ke \/ dn[1].resumed THEN hi ELSE 0

\* The salt comes first, and behind it a chain.
LinkOK(hd, sk, ke, dn, hi) ==
  /\ sk # "auth" => dn = <<>> /\ ~ke
  /\ sk = "auth" =>
       /\ ~ke => dn # <<>> /\ dn[1].salt /\ (dn[1].resumed => hi # 0)
       /\ Chain(hd, Start(ke, dn, hi), Unread(ke, dn))

\* The client was handed no event that is still to come.
ShownOK(hd, sk, ke, dn, hi, shown, pub) ==
  /\ shown \subseteq 1..pub
  /\ hi \in 1..Len(hd) => shown \subseteq 1..hd[hi].pub
  /\ sk = "auth" /\ Start(ke, dn, hi) = 0 => shown \subseteq 1..hd[Unread(ke, dn)[1].seq].pub

\* Unless an earlier daemon issued its checkpoint, it is in step with the history there.
LearntOK(hd, sk, ke, hi, kn, sc, res, old, pub) ==
  /\ kn \subseteq 1..pub
  /\ hi # 0 /\ ~old => hi <= Len(hd) /\ Synced(hd, hi, kn, sc, res)
  /\ sk = "auth" /\ ke /\ hi = 0 => res \/ sc = {}

\* The first frame of a chain, and a chain without frames.
LEMMA ChainFirst ==
  ASSUME NEW hd \in Seq(Records), NEW start, NEW frames \in Seq(Frames),
         Chain(hd, start, frames)
  PROVE  /\ frames = <<>> =>
              start \in 1..Len(hd) /\ ~InSnapshot(hd, start) /\ Quiet(hd, start)
         /\ start = 0 => frames # <<>>
         /\ frames # <<>> =>
              /\ frames[1].seq \in 1..Len(hd) /\ ~frames[1].salt
              /\ frames[1].item = hd[frames[1].seq].item
              /\ Linked(hd, start, frames[1].seq)
         /\ start \in Nat /\ hd # <<>>
<1>1. Len(frames) \in Nat /\ Len(hd) \in Nat
  BY LenProperties
<1>2. frames = <<>> =>
        start \in 1..Len(hd) /\ ~InSnapshot(hd, start) /\ Quiet(hd, start)
  <2> SUFFICES ASSUME frames = <<>>
               PROVE  start \in 1..Len(hd) /\ ~InSnapshot(hd, start) /\ Quiet(hd, start)
    OBVIOUS
  <2>1. Len(frames) = 0
    BY EmptySeq
  <2>2. Pos(start, frames, Len(frames)) = start
    BY <2>1 DEF Pos
  <2> QED
    BY <2>2 DEF Chain
<1>3. frames # <<>> => 1 \in 1..Len(frames) /\ Pos(start, frames, 1 - 1) = start
  BY <1>1, EmptySeq DEF Pos
<1>4. hd # <<>>
  BY <1>1, EmptySeq DEF Chain
<1>5. start \in Nat
  BY DEF Chain
<1>6. frames # <<>> =>
        /\ frames[1].seq \in 1..Len(hd) /\ ~frames[1].salt
        /\ frames[1].item = hd[frames[1].seq].item
        /\ Linked(hd, start, frames[1].seq)
  BY <1>3 DEF Chain
<1> QED
  BY <1>1, <1>2, <1>4, <1>5, <1>6

\* What is unread are frames, and a client that starts anew has some.
LEMMA UnreadType ==
  ASSUME NEW hd \in Seq(Records), NEW ke \in BOOLEAN, NEW dn \in Seq(Frames), NEW hi \in Nat,
         LinkOK(hd, "auth", ke, dn, hi)
  PROVE  /\ Unread(ke, dn) \in Seq(Frames)
         /\ Start(ke, dn, hi) \in Nat /\ hd # <<>>
         /\ Start(ke, dn, hi) = 0 =>
              Unread(ke, dn) # <<>> /\ Unread(ke, dn)[1].seq \in 1..Len(hd)
<1>1. Unread(ke, dn) \in Seq(Frames)
  <2>1. CASE ke
    BY <2>1 DEF Unread
  <2>2. CASE ~ke
    <3>1. dn # <<>>
      BY <2>2 DEF LinkOK
    <3>2. Tail(dn) \in Seq(Frames)
      BY <3>1, HeadTailProperties
    <3> QED
      BY <2>2, <3>2 DEF Unread
  <2> QED
    BY <2>1, <2>2
<1>2. Chain(hd, Start(ke, dn, hi), Unread(ke, dn))
  BY DEF LinkOK
<1> QED
  BY <1>1, <1>2, ChainFirst

\* What is written behind the history for others leaves a client be, if it is offline or
\* what is written is no event.
LEMMA ClientExtend ==
  ASSUME NEW hd \in Seq(Records), NEW hx \in Seq(Records), Extends(hd, hx),
         NEW pub \in Nat, NEW pub2 \in Nat, pub <= pub2,
         \A s \in Len(hd) + 1..Len(hx) : pub <= hx[s].pub,
         NEW sk, NEW ke \in BOOLEAN, NEW dn \in Seq(Frames), NEW hi \in Nat,
         NEW shown, NEW kn, NEW sc, NEW res, NEW old,
         sk # "auth" \/ \A s \in Len(hd) + 1..Len(hx) : ~IsEvent(hx[s].item),
         LinkOK(hd, sk, ke, dn, hi), ShownOK(hd, sk, ke, dn, hi, shown, pub),
         LearntOK(hd, sk, ke, hi, kn, sc, res, old, pub)
  PROVE  /\ LinkOK(hx, sk, ke, dn, hi) /\ ShownOK(hx, sk, ke, dn, hi, shown, pub2)
         /\ LearntOK(hx, sk, ke, hi, kn, sc, res, old, pub2)
<1>1. Len(hd) \in Nat /\ Len(hx) \in Nat /\ Len(hd) <= Len(hx)
  BY LenProperties DEF Extends
<1>2. \A s \in 1..Len(hx) : hx[s].pub \in Nat
  <2>1. \A s \in 1..Len(hx) : hx[s] \in Records
    BY ElementOfSeq
  <2> QED
    BY <2>1 DEF Records
<1>3. LinkOK(hx, sk, ke, dn, hi)
  <2>1. CASE sk # "auth"
    BY <2>1 DEF LinkOK
  <2>2. CASE sk = "auth"
    <3>1. Unread(ke, dn) \in Seq(Frames) /\ Chain(hd, Start(ke, dn, hi), Unread(ke, dn))
      BY <2>2, UnreadType DEF LinkOK
    <3>2. Chain(hx, Start(ke, dn, hi), Unread(ke, dn))
      BY <2>2, <3>1, ChainExtend
    <3> QED
      BY <2>2, <3>2 DEF LinkOK
  <2> QED
    BY <2>1, <2>2
<1>4. 1..pub \subseteq 1..pub2
  OBVIOUS
<1>5. ShownOK(hx, sk, ke, dn, hi, shown, pub2)
  <2>1. shown \subseteq 1..pub2
    BY <1>4 DEF ShownOK
  <2>2. ASSUME hi \in 1..Len(hx) PROVE shown \subseteq 1..hx[hi].pub
    <3>1. CASE hi \in 1..Len(hd)
      BY <3>1 DEF ShownOK, Extends
    <3>2. CASE hi \notin 1..Len(hd)
      <4>1. hi \in Len(hd) + 1..Len(hx)
        BY <1>1, <2>2, <3>2
      <4>2. pub <= hx[hi].pub /\ hx[hi].pub \in Nat
        BY <1>2, <2>2, <4>1
      <4>3. 1..pub \subseteq 1..hx[hi].pub
        BY <4>2
      <4> QED
        BY <4>3 DEF ShownOK
    <3> QED
      BY <3>1, <3>2
  <2>3. ASSUME sk = "auth", Start(ke, dn, hi) = 0
        PROVE  shown \subseteq 1..hx[Unread(ke, dn)[1].seq].pub
    <3>1. Unread(ke, dn)[1].seq \in 1..Len(hd)
      BY <2>3, UnreadType
    <3>2. hx[Unread(ke, dn)[1].seq] = hd[Unread(ke, dn)[1].seq]
      BY <3>1 DEF Extends
    <3> QED
      BY <2>3, <3>2 DEF ShownOK
  <2> QED
    BY <2>1, <2>2, <2>3 DEF ShownOK
<1>6. LearntOK(hx, sk, ke, hi, kn, sc, res, old, pub2)
  <2>1. kn \subseteq 1..pub2 /\ (sk = "auth" /\ ke /\ hi = 0 => res \/ sc = {})
    BY <1>4 DEF LearntOK
  <2>2. ASSUME hi # 0, ~old PROVE hi <= Len(hx) /\ Synced(hx, hi, kn, sc, res)
    <3>1. hi <= Len(hd) /\ Synced(hd, hi, kn, sc, res)
      BY <2>2 DEF LearntOK
    <3>2. hi \in 1..Len(hd)
      BY <1>1, <2>2, <3>1
    <3>3. hx[hi] = hd[hi] /\ hi <= Len(hx)
      BY <1>1, <3>2 DEF Extends
    <3> QED
      BY <3>1, <3>3 DEF Synced, InSnapshot
  <2> QED
    BY <2>1, <2>2 DEF LearntOK
<1> QED
  BY <1>3, <1>5, <1>6

\* A client that is sent what is written.
LEMMA ClientAppend ==
  ASSUME NEW hd \in Seq(Records), NEW hx \in Seq(Records), Extends(hd, hx),
         Len(hx) = Len(hd) + 1, ~InSnapshot(hx, Len(hx)),
         NEW pub \in Nat, pub <= hx[Len(hx)].pub,
         NEW ke \in BOOLEAN, NEW dn \in Seq(Frames), NEW hi \in Nat,
         NEW shown, NEW kn, NEW sc, NEW res, NEW old,
         LinkOK(hd, "auth", ke, dn, hi), ShownOK(hd, "auth", ke, dn, hi, shown, pub),
         LearntOK(hd, "auth", ke, hi, kn, sc, res, old, pub)
  PROVE  LET d2 == Append(dn, Frame(Len(hx), hx[Len(hx)].item)) IN
         /\ LinkOK(hx, "auth", ke, d2, hi)
         /\ ShownOK(hx, "auth", ke, d2, hi, shown, hx[Len(hx)].pub)
         /\ LearntOK(hx, "auth", ke, hi, kn, sc, res, old, hx[Len(hx)].pub)
<1> DEFINE f  == Frame(Len(hx), hx[Len(hx)].item)
           d2 == Append(dn, f)
           u  == Unread(ke, dn)
           st == Start(ke, dn, hi)
           pub2 == hx[Len(hx)].pub
<1>0. /\ f \in Frames /\ f.seq = Len(hx) /\ ~f.salt /\ f.item = hx[Len(hx)].item
      /\ pub2 \in Nat /\ pub <= pub2
  <2>1. Len(hx) \in 1..Len(hx) /\ Len(hx) \in Nat
    BY LenProperties
  <2>2. hx[Len(hx)] \in Records
    BY <2>1, ElementOfSeq
  <2> QED
    BY <2>1, <2>2, ItemTypes DEF Frame, Records
<1> HIDE DEF f, pub2
<1>1. Len(dn) \in Nat /\ Len(hd) \in Nat
  BY LenProperties
<1>2. d2 \in Seq(Frames) /\ d2 # <<>> /\ Len(d2) = Len(dn) + 1 /\ d2[Len(dn) + 1] = f
      /\ \A i \in 1..Len(dn) : d2[i] = dn[i]
  BY <1>0, AppendProperties
<1>3. dn # <<>> => d2[1] = dn[1]
  BY <1>1, <1>2, EmptySeq
<1>4. u \in Seq(Frames) /\ Chain(hd, st, u) /\ (st = 0 => u # <<>> /\ u[1].seq \in 1..Len(hd))
  BY UnreadType DEF LinkOK
<1>5. Start(ke, d2, hi) = st
  <2>1. ~ke => d2[1] = dn[1]
    BY <1>3 DEF LinkOK
  <2> QED
    BY <2>1 DEF Start
<1>6. Unread(ke, d2) = Append(u, f)
  <2>1. CASE ke
    BY <2>1 DEF Unread
  <2>2. CASE ~ke
    <3>1. dn # <<>>
      BY <2>2 DEF LinkOK
    <3>2. Tail(Append(dn, f)) = Append(Tail(dn), f)
      BY <3>1, HeadTailAppend
    <3> QED
      BY <2>2, <3>2 DEF Unread
  <2> QED
    BY <2>1, <2>2
<1> HIDE DEF d2, u, st
<1>7. Chain(hx, st, Append(u, f))
  BY <1>0, <1>4, ChainAppend
<1>8. LinkOK(hx, "auth", ke, d2, hi)
  <2>1. ~ke => d2 # <<>> /\ d2[1].salt /\ (d2[1].resumed => hi # 0)
    BY <1>2, <1>3 DEF LinkOK
  <2> QED
    BY <1>5, <1>6, <1>7, <2>1 DEF LinkOK
<1>9. LinkOK(hd, "closed", FALSE, <<>>, hi)
  BY DEF LinkOK
<1>10. ShownOK(hd, "closed", FALSE, <<>>, hi, shown, pub)
  BY DEF ShownOK
<1>11. Len(hx) = Len(hd) + 1 /\ \A s \in Len(hd) + 1..Len(hx) : s = Len(hx)
  BY <1>1
<1>12. <<>> \in Seq(Frames) /\ FALSE \in BOOLEAN
  BY EmptySeq
<1>13. \A s \in Len(hd) + 1..Len(hx) : pub <= hx[s].pub
  BY <1>0, <1>11 DEF pub2
<1>14. LearntOK(hd, "closed", FALSE, hi, kn, sc, res, old, pub)
  BY DEF LearntOK
<1>15. /\ ShownOK(hx, "closed", FALSE, <<>>, hi, shown, pub2)
       /\ LearntOK(hx, "closed", FALSE, hi, kn, sc, res, old, pub2)
  <2> DEFINE sk == "closed"
             ke2 == FALSE
             no == <<>>
  <2>1. /\ LinkOK(hd, sk, ke2, no, hi) /\ ShownOK(hd, sk, ke2, no, hi, shown, pub)
        /\ LearntOK(hd, sk, ke2, hi, kn, sc, res, old, pub)
    BY <1>9, <1>10, <1>14
  <2>2. sk # "auth" /\ ke2 \in BOOLEAN /\ no \in Seq(Frames)
    BY <1>12
  <2> HIDE DEF sk, ke2, no
  <2>3. /\ ShownOK(hx, sk, ke2, no, hi, shown, pub2)
        /\ LearntOK(hx, sk, ke2, hi, kn, sc, res, old, pub2)
    BY <1>0, <1>13, <2>1, <2>2, ClientExtend
  <2> QED
    BY <2>3 DEF sk, ke2, no
<1>16. st = 0 => shown \subseteq 1..hx[Append(u, f)[1].seq].pub
  <2> SUFFICES ASSUME st = 0 PROVE shown \subseteq 1..hx[Append(u, f)[1].seq].pub
    OBVIOUS
  <2>1. u # <<>> /\ u[1].seq \in 1..Len(hd)
    BY <1>4
  <2>2. Append(u, f)[1] = u[1]
    BY <1>0, <1>4, <2>1, AppendProperties, EmptySeq, LenProperties
  <2>3. hx[u[1].seq] = hd[u[1].seq]
    BY <2>1 DEF Extends
  <2>4. shown \subseteq 1..hd[u[1].seq].pub
    BY DEF ShownOK, st, u
  <2> QED
    BY <2>2, <2>3, <2>4
<1>17. ShownOK(hx, "auth", ke, d2, hi, shown, pub2)
  BY <1>5, <1>6, <1>15, <1>16 DEF ShownOK
<1>18. LearntOK(hx, "auth", ke, hi, kn, sc, res, old, pub2)
  BY <1>15 DEF LearntOK
<1> QED
  BY <1>8, <1>17, <1>18 DEF d2, f, pub2

----------------------------------------------------------------------------
(* The inductive invariant, for some histories of the devices.             *)

\* A client that dialled asks to resume from its checkpoint; what it was sent, what it was
\* handed and what it learnt agree with its device's history.
ClientOK(c, H) ==
  /\ sock[c] = "open" => hello[c] = highest[c]
  /\ LinkOK(H[DeviceOf[c]], sock[c], key[c], down[c], highest[c])
  /\ ShownOK(H[DeviceOf[c]], sock[c], key[c], down[c], highest[c], rendered[c], published)
  /\ LearntOK(H[DeviceOf[c]], sock[c], key[c], highest[c], known[c], screen[c],
              c \in resynced, c \in stale, published)

\* The history of a device that the daemon knows is not empty.
HistoriesOK(H) ==
  \A d \in Devices :
    HistOK(H[d], published, open) /\ (reg.out[d] # NoStream => H[d] # <<>>)

\* The registry, the clients and the histories H fit together.
IInv(H) ==
  /\ RegOK(reg, H)
  /\ HistoriesOK(H)
  /\ open = {} \/ \E a \in 1..MaxPublished : open = {a}
  /\ rendered \in [Clients -> SUBSET Nat]
  /\ \A c \in Clients : ClientOK(c, H)
  /\ DedupExact

DeliveryInv == TypeInv /\ \E H \in Histories : IInv(H)

\* An empty history fits any state, and a history extends itself.
LEMMA HistTrivial ==
  /\ \A pub, opn : HistOK(<<>>, pub, opn)
  /\ \A hd \in Seq(Records) : Extends(hd, hd) /\ \A s \in Len(hd) + 1..Len(hd) : FALSE
<1>1. Len(<<>>) = 0
  BY EmptySeq
<1>2. \A pub, opn : HistOK(<<>>, pub, opn)
  BY <1>1 DEF HistOK
<1>3. \A hd \in Seq(Records) : Len(hd) \in Nat
  BY LenProperties
<1> QED
  BY <1>2, <1>3 DEF Extends

\* The types of what belongs to one client.
LEMMA ClientParts ==
  ASSUME TypeInv, NEW c \in Clients
  PROVE  /\ DeviceOf[c] \in Devices
         /\ sock[c] \in {"closed", "open", "auth"} /\ key[c] \in BOOLEAN
         /\ down[c] \in Seq(Frames) /\ highest[c] \in Nat /\ hello[c] \in Int
         /\ published \in Nat /\ MaxPublished \in Nat
BY TypeInvParts, DeliveryAssumption DEF ClientTypes

\* A client that takes no part in a step is left be by it, if what is written behind the
\* history of its device is no event, or it is offline.
LEMMA OthersKept ==
  ASSUME TypeInv, NEW H \in Histories, NEW HH \in Histories,
         NEW c \in Clients, ClientOK(c, H),
         Extends(H[DeviceOf[c]], HH[DeviceOf[c]]),
         published' \in Nat, published <= published',
         \A s \in Len(H[DeviceOf[c]]) + 1..Len(HH[DeviceOf[c]]) :
           /\ published <= HH[DeviceOf[c]][s].pub
           /\ sock[c] # "auth" \/ ~IsEvent(HH[DeviceOf[c]][s].item),
         sock'[c] = sock[c], hello'[c] = hello[c], key'[c] = key[c], down'[c] = down[c],
         highest'[c] = highest[c], rendered'[c] = rendered[c], known'[c] = known[c],
         screen'[c] = screen[c], c \in resynced' <=> c \in resynced,
         c \in stale' <=> c \in stale
  PROVE  ClientOK(c, HH)'
<1> DEFINE hd  == H[DeviceOf[c]]
           hx  == HH[DeviceOf[c]]
           res == c \in resynced
           old == c \in stale
<1>1. /\ DeviceOf[c] \in Devices /\ key[c] \in BOOLEAN /\ down[c] \in Seq(Frames)
      /\ highest[c] \in Nat /\ published \in Nat
  BY ClientParts
<1>2. hd \in Seq(Records) /\ hx \in Seq(Records)
  BY <1>1 DEF Histories
<1>3. /\ LinkOK(hd, sock[c], key[c], down[c], highest[c])
      /\ ShownOK(hd, sock[c], key[c], down[c], highest[c], rendered[c], published)
      /\ LearntOK(hd, sock[c], key[c], highest[c], known[c], screen[c], res, old, published)
  BY DEF ClientOK
<1>4. /\ Extends(hd, hx) /\ \A s \in Len(hd) + 1..Len(hx) : published <= hx[s].pub
      /\ sock[c] # "auth" \/ \A s \in Len(hd) + 1..Len(hx) : ~IsEvent(hx[s].item)
  OBVIOUS
<1> HIDE DEF hd, hx, res, old
<1>5. /\ LinkOK(hx, sock[c], key[c], down[c], highest[c])
      /\ ShownOK(hx, sock[c], key[c], down[c], highest[c], rendered[c], published')
      /\ LearntOK(hx, sock[c], key[c], highest[c], known[c], screen[c], res, old, published')
  BY <1>1, <1>2, <1>3, <1>4, ClientExtend
<1>6. /\ LinkOK(hx, sock'[c], key'[c], down'[c], highest'[c])
      /\ ShownOK(hx, sock'[c], key'[c], down'[c], highest'[c], rendered'[c], published')
      /\ LearntOK(hx, sock'[c], key'[c], highest'[c], known'[c], screen'[c], res, old, published')
  BY <1>5
<1>7. LearntOK(hx, sock'[c], key'[c], highest'[c], known'[c], screen'[c],
               c \in resynced', c \in stale', published')
  BY <1>6 DEF LearntOK, Synced, res, old
<1>8. (sock[c] = "open" => hello[c] = highest[c])'
  BY DEF ClientOK
<1> QED
  BY <1>6, <1>7, <1>8 DEF ClientOK, hx

\* A client that is sent what a step writes.
LEMMA SentTo ==
  ASSUME TypeInv, NEW H \in Histories, NEW HH \in Histories,
         NEW c \in Clients, ClientOK(c, H), sock[c] = "auth",
         Extends(H[DeviceOf[c]], HH[DeviceOf[c]]),
         NEW n \in Nat, n = Len(H[DeviceOf[c]]) + 1, Len(HH[DeviceOf[c]]) = n,
         NEW item \in Items, HH[DeviceOf[c]][n].item = item, ~InSnapshot(HH[DeviceOf[c]], n),
         published' \in Nat, published <= published', HH[DeviceOf[c]][n].pub = published',
         sock'[c] = sock[c], key'[c] = key[c], down'[c] = Append(down[c], Frame(n, item)),
         highest'[c] = highest[c], rendered'[c] = rendered[c], known'[c] = known[c],
         screen'[c] = screen[c], c \in resynced' <=> c \in resynced,
         c \in stale' <=> c \in stale
  PROVE  ClientOK(c, HH)'
<1> DEFINE hd  == H[DeviceOf[c]]
           hx  == HH[DeviceOf[c]]
           res == c \in resynced
           old == c \in stale
           f   == Frame(n, item)
<1>1. /\ DeviceOf[c] \in Devices /\ key[c] \in BOOLEAN /\ down[c] \in Seq(Frames)
      /\ highest[c] \in Nat /\ published \in Nat
  BY ClientParts
<1>2. hd \in Seq(Records) /\ hx \in Seq(Records)
  BY <1>1 DEF Histories
<1>4. /\ LinkOK(hd, "auth", key[c], down[c], highest[c])
      /\ ShownOK(hd, "auth", key[c], down[c], highest[c], rendered[c], published)
      /\ LearntOK(hd, "auth", key[c], highest[c], known[c], screen[c], res, old, published)
  BY DEF ClientOK
<1>5. /\ Extends(hd, hx) /\ Len(hx) = n /\ Len(hx) = Len(hd) + 1 /\ hx[Len(hx)].item = item
      /\ ~InSnapshot(hx, Len(hx)) /\ hx[Len(hx)].pub = published'
  OBVIOUS
<1> HIDE DEF hd, hx, res, old, f
<1>6. /\ LinkOK(hx, "auth", key[c], Append(down[c], f), highest[c])
      /\ ShownOK(hx, "auth", key[c], Append(down[c], f), highest[c], rendered[c], published')
      /\ LearntOK(hx, "auth", key[c], highest[c], known[c], screen[c], res, old, published')
  <2>1. f = Frame(Len(hx), hx[Len(hx)].item) /\ published <= hx[Len(hx)].pub
    BY <1>5 DEF f
  <2> QED
    BY <1>1, <1>2, <1>4, <1>5, <2>1, ClientAppend
<1>7. /\ LinkOK(hx, sock'[c], key'[c], down'[c], highest'[c])
      /\ ShownOK(hx, sock'[c], key'[c], down'[c], highest'[c], rendered'[c], published')
      /\ LearntOK(hx, sock'[c], key'[c], highest'[c], known'[c], screen'[c], res, old, published')
  BY <1>6 DEF f
<1>8. LearntOK(hx, sock'[c], key'[c], highest'[c], known'[c], screen'[c],
               c \in resynced', c \in stale', published')
  BY <1>7 DEF LearntOK, Synced, res, old
<1>9. (sock[c] = "open" => hello[c] = highest[c])'
  OBVIOUS
<1> QED
  BY <1>7, <1>8, <1>9 DEF ClientOK, hx

----------------------------------------------------------------------------
(* The steps.                                                              *)

\* Nothing was sent yet: the histories are empty.
LEMMA DeliveryInit == Init => DeliveryInv
<1> SUFFICES ASSUME Init PROVE DeliveryInv
  OBVIOUS
<1> DEFINE H == [d \in Devices |-> <<>>]
<1>1. TypeInv
  BY InitType
<1>2. H \in Histories /\ \A d \in Devices : H[d] = <<>>
  BY EmptySeq DEF Histories
<1>3. RegOK(reg, H)
  <2>1. /\ reg.lru = <<>> /\ \A d \in Devices : reg.out[d] = NoStream /\ reg.log[d] = <<>>
    BY DEF Init, NewRegistry
  <2>2. Len(<<>>) = 0
    BY EmptySeq
  <2>3. EndOf(<<>>, <<>>) /\ LruOK(reg.lru, reg.log)
    BY <2>1, <2>2 DEF EndOf, LruOK
  <2> QED
    BY <1>2, <2>1, <2>3 DEF RegOK, StreamOK
<1>4. HistoriesOK(H)
  <2>1. \A d \in Devices : reg.out[d] = NoStream
    BY DEF Init, NewRegistry
  <2> QED
    BY <1>2, <2>1, HistTrivial DEF HistoriesOK
<1>5. ASSUME NEW c \in Clients PROVE ClientOK(c, H)
  <2>1. /\ sock[c] = "closed" /\ key[c] = FALSE /\ down[c] = <<>> /\ highest[c] = 0
        /\ rendered[c] = {} /\ known[c] = {}
    BY DEF Init
  <2> HIDE DEF H
  <2> QED
    BY <2>1 DEF ClientOK, LinkOK, ShownOK, LearntOK
<1> HIDE DEF H
<1>6. IInv(H)
  BY <1>3, <1>4, <1>5 DEF IInv, Init, DedupExact
<1> QED
  BY <1>1, <1>2, <1>6 DEF DeliveryInv

\* An event is written behind every history there is, and sent to those who are connected.
LEMMA PublishStep ==
  ASSUME Roomy, TypeInv, NEW H \in Histories, IInv(H), Publish
  PROVE  \E HH \in Histories : IInv(HH)'
<1>1. /\ published \in Nat /\ published' = published + 1 /\ published' \in Nat
      /\ published' \in 1..MaxPublished /\ MaxPublished \in Nat
  BY TypeInvParts, DeliveryAssumption DEF Publish
<1>2. /\ UNCHANGED <<sock, hello, key, highest, screen, known, rendered, twice, resynced>>
      /\ UNCHANGED <<lost, stale>>
  BY DEF Publish, clientVars, view
<1>3. PICK item \in Items :
        /\ Broadcast(item) /\ item.n = published + 1
        /\ \/ item.kind = "pending" /\ open = {} /\ open' = {item.approval}
           \/ item.kind = "resolved" /\ open = {item.approval} /\ open' = {}
        /\ open' = {} \/ \E a \in 1..MaxPublished : open' = {a}
  <2>1. CASE open = {} /\ open' = {published'} /\ Broadcast(Pending(published', published'))
    <3> DEFINE item == Pending(published', published')
    <3>1. /\ item \in Items /\ item.n = published' /\ item.approval = published'
          /\ item.kind = "pending"
      BY <1>1, ItemTypes DEF Pending
    <3> HIDE DEF item
    <3>2. Broadcast(item)
      BY <2>1 DEF item
    <3> QED
      BY <1>1, <2>1, <3>1, <3>2
  <2>2. ASSUME NEW a \in open, open' = {}, Broadcast(Resolved(published', a))
        PROVE  \E item \in Items :
                 /\ Broadcast(item) /\ item.n = published + 1
                 /\ \/ item.kind = "pending" /\ open = {} /\ open' = {item.approval}
                    \/ item.kind = "resolved" /\ open = {item.approval} /\ open' = {}
                 /\ open' = {} \/ \E b \in 1..MaxPublished : open' = {b}
    <3> DEFINE item == Resolved(published', a)
    <3>1. open = {a} /\ a \in 1..MaxPublished
      BY DEF IInv
    <3>2. /\ item \in Items /\ item.n = published' /\ item.approval = a
          /\ item.kind = "resolved"
      BY <1>1, <3>1, ItemTypes DEF Resolved
    <3> HIDE DEF item
    <3>3. Broadcast(item)
      BY <2>2 DEF item
    <3> QED
      BY <1>1, <2>2, <3>1, <3>2, <3>3
  <2> QED
    BY <2>1, <2>2 DEF Publish
<1> DEFINE x  == [item |-> item, pub |-> published + 1, opn |-> open']
<1>4. x \in Records /\ x.item = item /\ open' \in SUBSET Nat /\ open \in SUBSET Nat
  <2>1. open' \in SUBSET Nat
    BY <1>1, <1>3
  <2>2. open \in SUBSET Nat
    BY TypeInvParts
  <2> QED
    BY <1>1, <2>1, <2>2 DEF Records
<1>4a. PICK HH : HH = [y \in Devices |-> IF H[y] # <<>> THEN Append(H[y], x) ELSE H[y]]
  OBVIOUS
<1>5. /\ RegOK(reg, H) /\ HistoriesOK(H) /\ \A c \in Clients : ClientOK(c, H)
  BY DEF IInv
<1>6. \A d \in Devices : H[d] \in Seq(Records)
  BY DEF Histories
<1>7. ASSUME NEW c \in Clients, sock[c] = "auth"
      PROVE  H[DeviceOf[c]] # <<>> /\ reg.out[DeviceOf[c]] # NoStream
  <2>1. /\ DeviceOf[c] \in Devices /\ key[c] \in BOOLEAN /\ down[c] \in Seq(Frames)
        /\ highest[c] \in Nat
    BY ClientParts
  <2>2. LinkOK(H[DeviceOf[c]], "auth", key[c], down[c], highest[c])
    BY <1>5, <1>7 DEF ClientOK
  <2>3. H[DeviceOf[c]] # <<>>
    BY <1>6, <2>1, <2>2, UnreadType
  <2> QED
    BY <1>5, <2>1, <2>3 DEF RegOK, StreamOK
<1>8. /\ HH \in Histories /\ RegOK(reg', HH)
      /\ \A d \in Devices : reg'.out[d] # NoStream => HH[d] # <<>>
      /\ \A c \in Clients : down'[c] =
           IF sock[c] = "auth" THEN Append(down[c], Frame(Len(H[DeviceOf[c]]) + 1, item))
                               ELSE down[c]
  <2> HIDE DEF x
  <2>1. Broadcast(x.item)
    BY <1>3, <1>4
  <2>2. \A d \in Devices : reg.out[d] # NoStream => H[d] # <<>>
    BY <1>5 DEF HistoriesOK
  <2> QED
    BY <1>4, <1>5, <1>7, <1>4a, <2>1, <2>2, BroadcastHistory
<1>9. ASSUME NEW d \in Devices, H[d] # <<>>
      PROVE  LET hx == HH[d] IN
             /\ Len(hx) = Len(H[d]) + 1 /\ Len(H[d]) + 1 \in Nat
             /\ HistOK(hx, published', open') /\ Extends(H[d], hx)
             /\ hx[Len(H[d]) + 1].item = item /\ hx[Len(H[d]) + 1].pub = published'
             /\ ~InSnapshot(hx, Len(H[d]) + 1)
  <2>1. HH[d] = Append(H[d], [item |-> item, pub |-> published + 1, opn |-> open'])
    BY <1>9, <1>4a
  <2>2. HistOK(H[d], published, open)
    BY <1>5 DEF HistoriesOK
  <2>3. Len(H[d]) + 1 \in Nat
    BY <1>6, LenProperties
  <2> HIDE DEF x
  <2> DEFINE new == open'
  <2>4. new \in SUBSET Nat
    BY <1>4
  <2>5. \/ item.kind = "pending" /\ open = {} /\ new = {item.approval}
        \/ item.kind = "resolved" /\ open = {item.approval} /\ new = {}
    BY <1>3
  <2>6. HH[d] = Append(H[d], [item |-> item, pub |-> published + 1, opn |-> new])
    BY <2>1
  <2> HIDE DEF new
  <2>7. LET hx == Append(H[d], [item |-> item, pub |-> published + 1, opn |-> new]) IN
        /\ Len(hx) = Len(H[d]) + 1
        /\ HistOK(hx, published + 1, new) /\ Extends(H[d], hx)
        /\ hx[Len(H[d]) + 1].item = item /\ hx[Len(H[d]) + 1].pub = published + 1
        /\ ~InSnapshot(hx, Len(H[d]) + 1)
    BY <1>1, <1>3, <1>4, <1>6, <1>9, <2>2, <2>4, <2>5, HistAppendEvent
  <2> QED
    BY <1>1, <2>3, <2>6, <2>7 DEF new
<1>10. \A d \in Devices : H[d] = <<>> => HH[d] = H[d]
  BY <1>4a
<1> HIDE DEF x
<1>11. HistoriesOK(HH)'
  <2>1. \A d \in Devices : HistOK(HH[d], published', open')
    BY <1>9, <1>10, HistTrivial
  <2> QED
    BY <1>8, <2>1 DEF HistoriesOK
<1>12. ASSUME NEW c \in Clients PROVE ClientOK(c, HH)'
  <2> DEFINE d == DeviceOf[c]
  <2>1. d \in Devices /\ ClientOK(c, H) /\ H[d] \in Seq(Records) /\ published <= published'
    BY <1>1, <1>5, <1>6, ClientParts
  <2>2. /\ sock'[c] = sock[c] /\ hello'[c] = hello[c] /\ key'[c] = key[c]
        /\ highest'[c] = highest[c] /\ rendered'[c] = rendered[c] /\ known'[c] = known[c]
        /\ screen'[c] = screen[c] /\ (c \in resynced' <=> c \in resynced)
        /\ (c \in stale' <=> c \in stale)
    BY <1>2
  <2>3. CASE sock[c] = "auth"
    <3> DEFINE n == Len(H[d]) + 1
    <3>1. /\ Len(HH[d]) = n /\ n \in Nat /\ Extends(H[d], HH[d])
          /\ HH[d][n].item = item /\ HH[d][n].pub = published' /\ ~InSnapshot(HH[d], n)
      BY <1>7, <1>9, <2>1, <2>3
    <3>2. down'[c] = Append(down[c], Frame(n, item))
      BY <1>8, <2>3
    <3>3. n = Len(H[d]) + 1
      OBVIOUS
    <3> HIDE DEF n
    <3> QED
      BY <1>1, <1>8, <2>1, <2>2, <2>3, <3>1, <3>2, <3>3, SentTo
  <2>4. CASE sock[c] # "auth"
    <3>1. down'[c] = down[c]
      BY <1>8, <2>4
    <3>2. /\ Extends(H[d], HH[d])
          /\ \A s \in Len(H[d]) + 1..Len(HH[d]) : published <= HH[d][s].pub
      <4>1. CASE H[d] = <<>>
        BY <1>10, <2>1, <4>1, HistTrivial
      <4>2. CASE H[d] # <<>>
        <5>1. /\ Len(HH[d]) = Len(H[d]) + 1 /\ Extends(H[d], HH[d])
              /\ HH[d][Len(H[d]) + 1].pub = published' /\ Len(H[d]) + 1 \in Nat
          BY <1>9, <2>1, <4>2
        <5>2. \A s \in Len(H[d]) + 1..Len(HH[d]) : s = Len(H[d]) + 1
          BY <5>1
        <5> QED
          BY <2>1, <5>1, <5>2
      <4> QED
        BY <4>1, <4>2
    <3> QED
      BY <1>1, <1>8, <2>1, <2>2, <2>4, <3>1, <3>2, OthersKept
  <2> QED
    BY <2>3, <2>4
<1>13. DedupExact' /\ rendered' \in [Clients -> SUBSET Nat]
  BY <1>2 DEF IInv, DedupExact
<1>14. IInv(HH)'
  BY <1>3, <1>8, <1>11, <1>12, <1>13 DEF IInv
<1> QED
  BY <1>8, <1>14

\* From G to G2 records were written behind the history of d, and no events.
Written(G, G2, d, pub) ==
  /\ G2 \in Histories
  /\ \A y \in Devices : y # d => G2[y] = G[y]
  /\ Extends(G[d], G2[d])
  /\ \A s \in Len(G[d]) + 1..Len(G2[d]) : ~IsEvent(G2[d][s].item) /\ G2[d][s].pub = pub

\* The clients that have no part in what is written for one device.
LEMMA OthersKeptByWriting ==
  ASSUME TypeInv, NEW H \in Histories, NEW HH, NEW d \in Devices, Written(H, HH, d, published),
         NEW c \in Clients, ClientOK(c, H), published' = published,
         sock'[c] = sock[c], hello'[c] = hello[c], key'[c] = key[c], down'[c] = down[c],
         highest'[c] = highest[c], rendered'[c] = rendered[c], known'[c] = known[c],
         screen'[c] = screen[c], c \in resynced' <=> c \in resynced,
         c \in stale' <=> c \in stale
  PROVE  ClientOK(c, HH)'
<1> DEFINE e == DeviceOf[c]
<1>1. e \in Devices /\ published \in Nat /\ HH \in Histories /\ H[e] \in Seq(Records)
  BY ClientParts DEF Written, Histories
<1>2. /\ Extends(H[e], HH[e])
      /\ \A s \in Len(H[e]) + 1..Len(HH[e]) :
           published <= HH[e][s].pub /\ ~IsEvent(HH[e][s].item)
  <2>1. CASE e = d
    BY <1>1, <2>1 DEF Written
  <2>2. CASE e # d
    <3>1. HH[e] = H[e]
      BY <1>1, <2>2 DEF Written
    <3> QED
      BY <1>1, <3>1, HistTrivial
  <2> QED
    BY <2>1, <2>2
<1>3. published' \in Nat /\ published <= published'
  BY <1>1
<1> QED
  BY <1>1, <1>2, <1>3, OthersKept

\* Writing twice is writing.
LEMMA WrittenTwice ==
  ASSUME NEW G \in Histories, NEW G1, NEW G2, NEW d \in Devices, NEW pub,
         Written(G, G1, d, pub), Written(G1, G2, d, pub)
  PROVE  Written(G, G2, d, pub)
<1>1. G[d] \in Seq(Records) /\ G1[d] \in Seq(Records) /\ G2[d] \in Seq(Records)
  BY DEF Written, Histories
<1>2. Len(G[d]) \in Nat /\ Len(G1[d]) \in Nat /\ Len(G2[d]) \in Nat
  BY <1>1, LenProperties
<1>3. /\ Len(G[d]) <= Len(G1[d]) /\ Len(G1[d]) <= Len(G2[d])
      /\ \A i \in 1..Len(G[d]) : G1[d][i] = G[d][i]
      /\ \A i \in 1..Len(G1[d]) : G2[d][i] = G1[d][i]
  BY DEF Written, Extends
<1>4. Extends(G[d], G2[d])
  BY <1>2, <1>3 DEF Extends
<1>5. ASSUME NEW s \in Len(G[d]) + 1..Len(G2[d])
      PROVE  ~IsEvent(G2[d][s].item) /\ G2[d][s].pub = pub
  <2>1. CASE s \in Len(G1[d]) + 1..Len(G2[d])
    BY <2>1 DEF Written
  <2>2. CASE s \notin Len(G1[d]) + 1..Len(G2[d])
    <3>1. s \in Len(G[d]) + 1..Len(G1[d]) /\ s \in 1..Len(G1[d])
      BY <1>2, <2>2
    <3>2. G2[d][s] = G1[d][s]
      BY <1>3, <3>1
    <3> QED
      BY <3>1, <3>2 DEF Written
  <2> QED
    BY <2>1, <2>2
<1>6. \A y \in Devices : y # d => G2[y] = G[y]
  BY DEF Written
<1>7. G2 \in Histories
  BY DEF Written
<1> QED
  BY <1>4, <1>5, <1>6, <1>7 DEF Written

\* Items that are no events were sent to a socket of d, which had the history G[d]: the
\* frames are the places where they were written.
Sent(g, G, d, items, pub, opn, G2) ==
  LET sent == SendAll(g, d, items)
      n    == Len(G[d])
  IN  /\ Written(G, G2, d, pub)
      /\ sent.reg \in Registries /\ RegOK(sent.reg, G2)
      /\ HistOK(G2[d], pub, opn) /\ G2[d] # <<>>
      /\ \A y \in Devices : y # d => sent.reg.out[y] = g.out[y]
      /\ sent.frames \in Seq(Frames) /\ Len(sent.frames) = Len(items)
      /\ Len(G2[d]) = n + Len(items)
      /\ \A i \in 1..Len(items) :
           /\ G2[d][n + i].item = items[i]
           /\ sent.frames[i] = Frame(n + i, items[i])

\* Replies and acks to one socket.
LEMMA PrivateHistory ==
  ASSUME Roomy, NEW g \in Registries, NEW G \in Histories, RegOK(g, G), NEW d \in Devices,
         NEW pub \in Nat, NEW opn \in SUBSET Nat, HistOK(G[d], pub, opn), G[d] # <<>>,
         NEW acks, acks = <<>> \/ acks = <<Private>>
  PROVE  \E G2 : Sent(g, G, d, acks, pub, opn, G2)
<1>1. G[d] \in Seq(Records) /\ Len(G[d]) \in Nat
  BY LenProperties DEF Histories
<1>2. acks \in Seq(Items) /\ Private \in Items
  BY ItemTypes, EmptySeq, Tuples
<1>3. SendAll(g, d, acks).reg \in Registries /\ SendAll(g, d, acks).frames \in Seq(Frames)
  BY <1>2, SendAllType
<1>4. CASE acks = <<>>
  <2> DEFINE es == <<>>
             G2 == [G EXCEPT ![d] = @ \o es]
  <2>1. es \in Seq(Records) /\ Len(es) = 0 /\ Len(acks) = 0
    BY <1>4, EmptySeq
  <2>2. /\ RegOK(SendAll(g, d, acks).reg, G2)
        /\ \A y \in Devices : y # d => SendAll(g, d, acks).reg.out[y] = g.out[y]
        /\ Len(SendAll(g, d, acks).frames) = 0
    <3> HIDE DEF es
    <3>1. ItemsOf(es, acks)
      BY <2>1 DEF ItemsOf
    <3>2. Numbered(g, G, d, acks, G2)
      BY <1>2, <2>1, <3>1, SendAllHistory
    <3> HIDE DEF G2
    <3> QED
      BY <2>1, <3>2 DEF Numbered
  <2>3. G2 = G
    <3>1. G[d] \o <<>> = G[d]
      BY <1>1, ConcatEmptySeq
    <3> QED
      BY <3>1 DEF Histories
  <2>4. Written(G, G, d, pub)
    BY <1>1, HistTrivial DEF Written
  <2>5. RegOK(SendAll(g, d, acks).reg, G)
    BY <2>2, <2>3
  <2>6. Len(G[d]) = Len(G[d]) + Len(acks)
    BY <1>1, <2>1
  <2>7. \A i \in 1..Len(acks) : FALSE
    BY <2>1
  <2>8. Sent(g, G, d, acks, pub, opn, G)
    BY <1>3, <2>1, <2>2, <2>4, <2>5, <2>6, <2>7 DEF Sent
  <2> QED
    BY <2>8
<1>5. CASE acks = <<Private>>
  <2> DEFINE x  == [item |-> Private, pub |-> pub, opn |-> opn]
             es == <<x>>
             G2 == [G EXCEPT ![d] = @ \o es]
             n  == Len(G[d])
  <2>1. x \in Records /\ x.item = Private
    BY <1>2 DEF Records
  <2>2. LET hx == Append(G[d], x) IN
        /\ hx \in Seq(Records) /\ hx # <<>> /\ Len(hx) = Len(G[d]) + 1
        /\ HistOK(hx, pub, opn) /\ Extends(G[d], hx)
        /\ hx[Len(G[d]) + 1].item = Private
    BY <1>1, HistAppendPrivate
  <2>3. Append(G[d], x)[n + 1] = x /\ x.pub = pub
    BY <1>1, <2>1, AppendProperties
  <2> HIDE DEF x
  <2>4. es \in Seq(Records) /\ Len(es) = 1 /\ es[1] = x
    BY <2>1
  <2>5. acks \in Seq(Items) /\ Len(acks) = 1 /\ acks[1] = Private
    BY <1>2, <1>5
  <2>6. Append(G[d], x) = G[d] \o es
    BY <1>1, <2>1, AppendIsConcat
  <2> HIDE DEF es
  <2>7. /\ G2 \in Histories
        /\ RegOK(SendAll(g, d, acks).reg, G2)
        /\ \A y \in Devices : y # d => SendAll(g, d, acks).reg.out[y] = g.out[y]
        /\ Len(SendAll(g, d, acks).frames) = Len(acks)
        /\ \A i \in 1..Len(acks) : SendAll(g, d, acks).frames[i] = Frame(Len(G[d]) + i, acks[i])
    <3>1. \A i \in 1..Len(acks) : es[i].item = acks[i]
      BY <2>1, <2>4, <2>5
    <3>2. ItemsOf(es, acks)
      BY <2>4, <2>5, <3>1 DEF ItemsOf
    <3>3. Numbered(g, G, d, acks, G2)
      BY <2>4, <2>5, <3>2, SendAllHistory
    <3> HIDE DEF G2
    <3> QED
      BY <3>3 DEF Numbered
  <2>8. G2[d] = Append(G[d], x) /\ \A y \in Devices : y # d => G2[y] = G[y]
    BY <2>6 DEF Histories
  <2> HIDE DEF G2
  <2>9. \A i \in 1..Len(acks) : i = 1
    BY <2>5
  <2>10. \A s \in n + 1..Len(G2[d]) : s = n + 1
    BY <1>1, <2>2, <2>8
  <2>11. ~IsEvent(Private)
    BY DEF Private, IsEvent
  <2>12. Written(G, G2, d, pub)
    BY <2>1, <2>2, <2>3, <2>7, <2>8, <2>10, <2>11 DEF Written
  <2>13. /\ HistOK(G2[d], pub, opn) /\ G2[d] # <<>>
         /\ Len(G2[d]) = Len(G[d]) + Len(acks)
    BY <2>2, <2>5, <2>8
  <2>14. \A i \in 1..Len(acks) : G2[d][Len(G[d]) + i].item = acks[i]
    BY <2>2, <2>5, <2>8, <2>9
  <2>15. Sent(g, G, d, acks, pub, opn, G2)
    BY <1>3, <2>7, <2>12, <2>13, <2>14 DEF Sent
  <2> QED
    BY <2>15
<1> QED
  BY <1>4, <1>5

\* All that is said of one client.
ClientInv(hd, sk, ke, dn, hi, shown, kn, sc, res, old, pub) ==
  /\ LinkOK(hd, sk, ke, dn, hi)
  /\ ShownOK(hd, sk, ke, dn, hi, shown, pub)
  /\ LearntOK(hd, sk, ke, hi, kn, sc, res, old, pub)

\* A client that takes the next frame: it is never a duplicate, nor an event it was
\* handed before.
LEMMA ClientReceive ==
  ASSUME NEW hd \in Seq(Records), NEW pub \in Nat, NEW opn, HistOK(hd, pub, opn),
         NEW dn \in Seq(Frames), dn # <<>>, NEW hi \in Nat,
         NEW shown, NEW kn, NEW sc, NEW res, NEW old,
         ClientInv(hd, "auth", TRUE, dn, hi, shown, kn, sc, res, old, pub)
  PROVE  LET b == dn[1].seq
             item == dn[1].item
             more == IF IsEvent(item) THEN shown \cup {item.n} ELSE shown
         IN  /\ b \in Nat /\ hi < b
             /\ IsEvent(item) => item.n \notin shown
             /\ ClientInv(hd, "auth", TRUE, Tail(dn), b, more, kn \cup Learnt(item),
                          ApplyEvent(sc, item), res, old, pub)
<1> DEFINE b == dn[1].seq
           item == dn[1].item
           more == IF IsEvent(item) THEN shown \cup {item.n} ELSE shown
<1>0. /\ LinkOK(hd, "auth", TRUE, dn, hi) /\ ShownOK(hd, "auth", TRUE, dn, hi, shown, pub)
      /\ LearntOK(hd, "auth", TRUE, hi, kn, sc, res, old, pub)
  BY DEF ClientInv
<1>1. Chain(hd, hi, dn)
  BY <1>0 DEF LinkOK, Start, Unread
<1>2. b \in 1..Len(hd) /\ item = hd[b].item /\ Linked(hd, hi, b) /\ hd # <<>>
  BY <1>1, ChainFirst
<1>3. Chain(hd, b, Tail(dn))
  BY <1>1, ChainTail
<1>4. /\ shown \subseteq 1..pub
      /\ hi \in 1..Len(hd) => shown \subseteq 1..hd[hi].pub
      /\ hi = 0 => shown \subseteq 1..hd[b].pub
  BY <1>0 DEF ShownOK, Start, Unread
<1> HIDE DEF b, item
<1>5. /\ Len(hd) \in Nat /\ b \in Nat /\ b # 0 /\ hi < b /\ (hi # 0 => hi \in 1..Len(hd))
      /\ Len(hd) \in 1..Len(hd)
  BY <1>2, LenProperties DEF Linked
<1>6. \A s \in 1..Len(hd) : hd[s].pub \in Nat /\ hd[s].item \in Items
  <2>1. \A s \in 1..Len(hd) : hd[s] \in Records
    BY ElementOfSeq
  <2> QED
    BY <2>1 DEF Records
<1>7. \A s \in 1..Len(hd) : EntryOK(hd, s)
  BY DEF HistOK
<1>8. hd[b].pub <= pub
  <2>1. Len(hd) \in b..Len(hd)
    BY <1>2, <1>5
  <2>2. hd[b].pub <= hd[Len(hd)].pub
    BY <1>2, <1>7, <2>1, HistoryGrows
  <2> QED
    BY <1>2, <2>2 DEF HistOK
<1>9. shown \subseteq 1..hd[b].pub
  <2>1. CASE hi = 0
    BY <1>4, <2>1
  <2>2. CASE hi # 0
    <3>1. b \in hi..Len(hd) /\ hi \in 1..Len(hd)
      BY <1>2, <1>5, <2>2
    <3>2. hd[hi].pub <= hd[b].pub
      BY <1>7, <3>1, HistoryGrows
    <3>3. 1..hd[hi].pub \subseteq 1..hd[b].pub
      BY <1>2, <1>6, <3>1, <3>2
    <3> QED
      BY <1>4, <3>1, <3>3
  <2> QED
    BY <2>1, <2>2
<1>10. ASSUME IsEvent(item) PROVE item.n \notin shown /\ item.n \in 1..hd[b].pub
  <2>1. b > 1 /\ item.n = hd[b].pub /\ hd[b].pub = hd[b - 1].pub + 1
    BY <1>2, <1>7, <1>10 DEF EntryOK, EventOK
  <2>2. hi # 0
    BY <1>2, <1>10 DEF Linked, IsEvent
  <2>3. b - 1 \in hi..Len(hd) /\ hi \in 1..Len(hd) /\ b - 1 \in 1..Len(hd)
    BY <1>2, <1>5, <2>1, <2>2
  <2>4. hd[hi].pub <= hd[b - 1].pub
    BY <1>7, <2>3, HistoryGrows
  <2>5. hd[b].pub \notin 1..hd[hi].pub /\ hd[b].pub \in 1..hd[b].pub
    BY <1>2, <1>6, <2>1, <2>3, <2>4
  <2> QED
    BY <1>4, <2>1, <2>3, <2>5
<1>11. LinkOK(hd, "auth", TRUE, Tail(dn), b)
  BY <1>3 DEF LinkOK, Start, Unread
<1>12. ShownOK(hd, "auth", TRUE, Tail(dn), b, more, pub)
  <2>1. more \subseteq 1..hd[b].pub
    BY <1>9, <1>10
  <2>2. 1..hd[b].pub \subseteq 1..pub
    BY <1>2, <1>6, <1>8
  <2>3. Start(TRUE, Tail(dn), b) # 0
    BY <1>5 DEF Start
  <2> HIDE DEF more
  <2> QED
    BY <2>1, <2>2, <2>3 DEF ShownOK
<1>13. kn \cup Learnt(item) \subseteq 1..pub
  <2>1. item.n \in Nat /\ item.n <= hd[b].pub /\ hd[b].pub \in Nat
    <3>1. item.n \in Nat /\ hd[b].pub \in Nat
      BY <1>2, <1>6, DeliveryAssumption DEF Items
    <3>2. item.n <= hd[b].pub
      BY <1>2, <1>7, <3>1 DEF EntryOK, EventOK, OtherOK
    <3> QED
      BY <3>1, <3>2
  <2>2. 1..item.n \subseteq 1..pub /\ {item.n} \ {0} \subseteq 1..pub
    BY <1>8, <2>1
  <2>3. Learnt(item) = 1..item.n \/ Learnt(item) = {item.n} \ {0}
    BY LearntItem
  <2>4. kn \subseteq 1..pub
    BY <1>0 DEF LearntOK
  <2> QED
    BY <2>2, <2>3, <2>4
<1>14. ASSUME ~old
       PROVE  Synced(hd, b, kn \cup Learnt(item), ApplyEvent(sc, item), res)
  <2>1. CASE hi = 0
    <3>1. hd[b].item.kind = "sessions" /\ (res \/ sc = {})
      BY <1>0, <1>2, <2>1 DEF Linked, LearntOK
    <3> QED
      BY <1>2, <3>1, SyncedFirst
  <2>2. CASE hi # 0
    <3>1. Synced(hd, hi, kn, sc, res) /\ hi \in 1..Len(hd)
      BY <1>0, <1>5, <1>14, <2>2 DEF LearntOK
    <3> QED
      BY <1>2, <1>7, <3>1, SyncedNext
  <2> QED
    BY <2>1, <2>2
<1>15. LearntOK(hd, "auth", TRUE, b, kn \cup Learnt(item), ApplyEvent(sc, item), res, old, pub)
  BY <1>2, <1>5, <1>13, <1>14 DEF LearntOK
<1> QED
  BY <1>5, <1>10, <1>11, <1>12, <1>15 DEF ClientInv, b, item

\* A step that leaves the daemon and what is rendered alone.
LEMMA DaemonKept ==
  ASSUME NEW H \in Histories, IInv(H), reg' = reg, open' = open, published' = published,
         rendered' \in [Clients -> SUBSET Nat], DedupExact',
         \A c \in Clients : ClientOK(c, H)'
  PROVE  IInv(H)'
<1>1. /\ RegOK(reg', H)
      /\ \A d \in Devices :
           HistOK(H[d], published', open') /\ (reg'.out[d] # NoStream => H[d] # <<>>)
      /\ open' = {} \/ \E a \in 1..MaxPublished : open' = {a}
  BY DEF IInv, HistoriesOK
<1> QED
  BY <1>1 DEF IInv, HistoriesOK

\* Nothing written.
LEMMA WrittenNothing ==
  ASSUME NEW H \in Histories, NEW d \in Devices, NEW pub
  PROVE  Written(H, H, d, pub)
<1>1. H[d] \in Seq(Records)
  BY DEF Histories
<1> QED
  BY <1>1, HistTrivial DEF Written

\* The device of an authenticated client has a history.
LEMMA AuthHasHistory ==
  ASSUME TypeInv, NEW H \in Histories, NEW c \in Clients, ClientOK(c, H), sock[c] = "auth"
  PROVE  H[DeviceOf[c]] # <<>>
<1>1. /\ DeviceOf[c] \in Devices /\ key[c] \in BOOLEAN /\ down[c] \in Seq(Frames)
      /\ highest[c] \in Nat
  BY ClientParts
<1>2. LinkOK(H[DeviceOf[c]], "auth", key[c], down[c], highest[c])
  BY DEF ClientOK
<1>3. H[DeviceOf[c]] \in Seq(Records)
  BY <1>1 DEF Histories
<1> QED
  BY <1>1, <1>2, <1>3, UnreadType

\* onOpen.
LEMMA DialStep ==
  ASSUME TypeInv, NEW H \in Histories, IInv(H), NEW c \in Clients, Dial(c)
  PROVE  IInv(H)'
<1>1. /\ sock[c] = "closed" /\ sock' = [sock EXCEPT ![c] = "open"]
      /\ hello' = [hello EXCEPT ![c] = highest[c]]
      /\ UNCHANGED <<reg, down, key, highest, screen, known, rendered, twice, resynced>>
      /\ UNCHANGED <<lost, stale, open, published>>
  BY DEF Dial, clientVars, view
<1>2. DeviceOf[c] \in Devices /\ sock \in [Clients -> {"closed", "open", "auth"}]
      /\ hello \in [Clients -> Int]
  BY ClientParts, TypeInvParts DEF ClientTypes
<1>3. ClientOK(c, H)'
  <2>1. sock'[c] = "open" /\ hello'[c] = highest[c]
    BY <1>1, <1>2
  <2>2. ClientOK(c, H)
    BY DEF IInv
  <2> QED
    BY <1>1, <2>1, <2>2 DEF ClientOK, LinkOK, ShownOK, LearntOK
<1>4. ASSUME NEW x \in Clients, x # c PROVE ClientOK(x, H)'
  <2>1. ClientOK(x, H) /\ Written(H, H, DeviceOf[c], published)
    BY <1>2, WrittenNothing DEF IInv
  <2>2. sock'[x] = sock[x] /\ hello'[x] = hello[x]
    BY <1>1, <1>2, <1>4
  <2> QED
    BY <1>1, <1>2, <2>1, <2>2, OthersKeptByWriting
<1>5. rendered' \in [Clients -> SUBSET Nat] /\ DedupExact'
  BY <1>1 DEF IInv, DedupExact
<1> QED
  BY <1>1, <1>3, <1>4, <1>5, DaemonKept

\* onClose.
LEMMA DropStep ==
  ASSUME TypeInv, NEW H \in Histories, IInv(H), NEW c \in Clients, Drop(c)
  PROVE  IInv(H)'
<1>1. /\ sock' = [sock EXCEPT ![c] = "closed"] /\ hello' = [hello EXCEPT ![c] = NoHello]
      /\ down' = [down EXCEPT ![c] = <<>>] /\ key' = [key EXCEPT ![c] = FALSE]
      /\ UNCHANGED <<reg, highest, screen, known, rendered, twice, resynced>>
      /\ UNCHANGED <<lost, stale, open, published>>
  BY DEF Drop, clientVars, view
<1>2. /\ DeviceOf[c] \in Devices /\ sock \in [Clients -> {"closed", "open", "auth"}]
      /\ hello \in [Clients -> Int] /\ key \in [Clients -> BOOLEAN]
      /\ down \in [Clients -> Seq(Frames)]
  BY ClientParts, TypeInvParts DEF ClientTypes
<1>3. ClientOK(c, H)'
  <2>1. sock'[c] = "closed" /\ down'[c] = <<>> /\ key'[c] = FALSE
    BY <1>1, <1>2
  <2>2. ClientOK(c, H)
    BY DEF IInv
  <2> QED
    BY <1>1, <2>1, <2>2 DEF ClientOK, LinkOK, ShownOK, LearntOK
<1>4. ASSUME NEW x \in Clients, x # c PROVE ClientOK(x, H)'
  <2>1. ClientOK(x, H) /\ Written(H, H, DeviceOf[c], published)
    BY <1>2, WrittenNothing DEF IInv
  <2>2. /\ sock'[x] = sock[x] /\ hello'[x] = hello[x] /\ down'[x] = down[x]
        /\ key'[x] = key[x]
    BY <1>1, <1>2, <1>4
  <2> QED
    BY <1>1, <1>2, <2>1, <2>2, OthersKeptByWriting
<1>5. rendered' \in [Clients -> SUBSET Nat] /\ DedupExact'
  BY <1>1 DEF IInv, DedupExact
<1> QED
  BY <1>1, <1>3, <1>4, <1>5, DaemonKept

\* A restart: the histories are empty, and every checkpoint is an earlier daemon's.
LEMMA RestartStep ==
  ASSUME TypeInv, NEW H \in Histories, IInv(H), Restart
  PROVE  \E HH \in Histories : IInv(HH)'
<1> DEFINE HH == [d \in Devices |-> <<>>]
<1>1. /\ reg' = NewRegistry /\ sock' = [c \in Clients |-> "closed"]
      /\ down' = [c \in Clients |-> <<>>] /\ key' = [c \in Clients |-> FALSE]
      /\ stale' = stale \cup {c \in Clients : highest[c] > 0} /\ open' = {}
      /\ UNCHANGED <<highest, screen, known, rendered, twice, resynced, lost, published>>
  BY DEF Restart, view
<1>2. HH \in Histories /\ \A d \in Devices : HH[d] = <<>>
  BY EmptySeq DEF Histories
<1>3. Len(<<>>) = 0
  BY EmptySeq
<1> HIDE DEF HH
<1>4. /\ reg'.lru = <<>>
      /\ \A d \in Devices : reg'.out[d] = NoStream /\ reg'.log[d] = <<>>
  BY <1>1 DEF NewRegistry
<1>5. RegOK(reg', HH)
  <2>1. EndOf(<<>>, <<>>) /\ LruOK(reg'.lru, reg'.log)
    BY <1>3, <1>4 DEF EndOf, LruOK
  <2> QED
    BY <1>2, <1>4, <2>1 DEF RegOK, StreamOK
<1>6. HistoriesOK(HH)'
  BY <1>2, <1>4, HistTrivial DEF HistoriesOK
<1>7. ASSUME NEW c \in Clients PROVE ClientOK(c, HH)'
  <2>1. /\ sock'[c] = "closed" /\ down'[c] = <<>> /\ key'[c] = FALSE
        /\ HH[DeviceOf[c]] = <<>> /\ highest[c] \in Nat
    BY <1>1, <1>2, ClientParts
  <2>2. rendered[c] \subseteq 1..published /\ known[c] \subseteq 1..published
    BY DEF IInv, ClientOK, ShownOK, LearntOK
  <2>3. highest[c] # 0 => c \in stale'
    BY <1>1, <2>1
  <2>4. ~(highest[c] \in 1..0)
    BY <2>1
  <2> QED
    BY <1>1, <1>3, <2>1, <2>2, <2>3, <2>4 DEF ClientOK, LinkOK, ShownOK, LearntOK
<1>8. rendered' \in [Clients -> SUBSET Nat] /\ DedupExact'
  BY <1>1 DEF IInv, DedupExact
<1>9. IInv(HH)'
  BY <1>1, <1>5, <1>6, <1>7, <1>8 DEF IInv
<1> QED
  BY <1>2, <1>9

\* onSessionSalt: the client starts where the chain starts.
LEMMA ReceiveSaltStep ==
  ASSUME TypeInv, NEW H \in Histories, IInv(H), NEW c \in Clients, ReceiveSalt(c)
  PROVE  IInv(H)'
<1> DEFINE hd == H[DeviceOf[c]]
           dn == down[c]
<1>1. /\ dn # <<>> /\ ~key[c] /\ key' = [key EXCEPT ![c] = TRUE]
      /\ down' = [down EXCEPT ![c] = Tail(@)]
      /\ UNCHANGED <<reg, sock, hello, screen, known, rendered, twice, lost>>
      /\ UNCHANGED <<open, published>>
      /\ IF Head(dn).resumed THEN UNCHANGED <<highest, stale, resynced>>
         ELSE /\ highest' = [highest EXCEPT ![c] = 0] /\ stale' = stale \ {c}
              /\ resynced' = IF screen[c] = {} THEN resynced ELSE resynced \cup {c}
  BY DEF ReceiveSalt
<1>2. /\ DeviceOf[c] \in Devices /\ key \in [Clients -> BOOLEAN]
      /\ down \in [Clients -> Seq(Frames)] /\ highest \in [Clients -> Nat]
  BY ClientParts, TypeInvParts DEF ClientTypes
<1>3. ClientOK(c, H)
  BY DEF IInv
<1>4. sock[c] = "auth"
  BY <1>1, <1>3 DEF ClientOK, LinkOK
<1>5. Head(dn) = dn[1]
  BY <1>1, <1>2
<1>6. key'[c] = TRUE /\ down'[c] = Tail(dn)
  BY <1>1, <1>2
<1> DEFINE hi == highest'[c]
<1>7. /\ hi = Start(FALSE, dn, highest[c]) /\ hi = Start(TRUE, Tail(dn), hi)
      /\ Unread(TRUE, Tail(dn)) = Unread(FALSE, dn)
  <2>1. hi = IF dn[1].resumed THEN highest[c] ELSE 0
    BY <1>1, <1>2, <1>5
  <2> QED
    BY <2>1 DEF Start, Unread
<1>8. ~key[c] /\ key[c] = FALSE
  BY <1>1, <1>2
<1>9. /\ LinkOK(hd, "auth", FALSE, dn, highest[c])
      /\ ShownOK(hd, "auth", FALSE, dn, highest[c], rendered[c], published)
      /\ LearntOK(hd, "auth", FALSE, highest[c], known[c], screen[c],
                  c \in resynced, c \in stale, published)
  BY <1>3, <1>4, <1>8 DEF ClientOK
<1>10. hi = highest[c] \/ hi = 0
  BY <1>1, <1>2
<1>11. LinkOK(hd, "auth", TRUE, Tail(dn), hi)
  BY <1>7, <1>9 DEF LinkOK
<1>12. ShownOK(hd, "auth", TRUE, Tail(dn), hi, rendered[c], published)
  <2>1. ~(0 \in 1..Len(hd))
    <3>1. hd \in Seq(Records)
      BY <1>2 DEF Histories
    <3> QED
      BY <3>1, LenProperties
  <2> QED
    BY <1>7, <1>9, <1>10, <2>1 DEF ShownOK
<1>13. LearntOK(hd, "auth", TRUE, hi, known[c], screen[c],
                c \in resynced', c \in stale', published)
  <2>1. CASE dn[1].resumed
    <3>1. hi = highest[c] /\ highest[c] # 0 /\ UNCHANGED <<stale, resynced>>
      BY <1>1, <1>5, <1>9, <2>1 DEF LinkOK
    <3> QED
      BY <1>9, <3>1 DEF LearntOK
  <2>2. CASE ~dn[1].resumed
    <3>1. hi = 0 /\ (c \in resynced' \/ screen[c] = {})
      BY <1>1, <1>2, <1>5, <2>2
    <3> QED
      BY <1>9, <3>1 DEF LearntOK
  <2> QED
    BY <2>1, <2>2
<1>14. ClientOK(c, H)'
  BY <1>1, <1>4, <1>6, <1>11, <1>12, <1>13 DEF ClientOK
<1>15. ASSUME NEW x \in Clients, x # c PROVE ClientOK(x, H)'
  <2>1. ClientOK(x, H) /\ Written(H, H, DeviceOf[c], published)
    BY <1>2, WrittenNothing DEF IInv
  <2>2. /\ down'[x] = down[x] /\ key'[x] = key[x] /\ highest'[x] = highest[x]
        /\ (x \in resynced' <=> x \in resynced) /\ (x \in stale' <=> x \in stale)
    BY <1>1, <1>2, <1>15
  <2> QED
    BY <1>1, <1>2, <2>1, <2>2, OthersKeptByWriting
<1>16. rendered' \in [Clients -> SUBSET Nat] /\ DedupExact'
  BY <1>1 DEF IInv, DedupExact
<1> QED
  BY <1>1, <1>14, <1>15, <1>16, DaemonKept

\* onMessage: the frame is new, and takes the client one place on.
LEMMA ReceiveFrameStep ==
  ASSUME TypeInv, NEW H \in Histories, IInv(H), NEW c \in Clients, ReceiveFrame(c)
  PROVE  IInv(H)'
<1> DEFINE hd == H[DeviceOf[c]]
           dn == down[c]
           f  == Head(dn)
           hi == highest[c]
           res == c \in resynced
           old == c \in stale
           more == IF IsEvent(f.item) THEN rendered[c] \cup {f.item.n} ELSE rendered[c]
<1>1. /\ dn # <<>> /\ key[c] /\ down' = [down EXCEPT ![c] = Tail(@)]
      /\ UNCHANGED <<reg, sock, hello, key, stale, resynced, open, published>>
  BY DEF ReceiveFrame
<1>2. /\ DeviceOf[c] \in Devices /\ key \in [Clients -> BOOLEAN]
      /\ down \in [Clients -> Seq(Frames)] /\ highest \in [Clients -> Nat]
      /\ known \in [Clients -> SUBSET (1..MaxPublished)]
      /\ screen \in [Clients -> SUBSET (1..MaxPublished)]
      /\ rendered \in [Clients -> SUBSET Nat]
      /\ published \in Nat /\ hd \in Seq(Records) /\ HistOK(hd, published, open)
  BY ClientParts, TypeInvParts DEF ClientTypes, IInv, HistoriesOK, Histories
<1>3. ClientOK(c, H)
  BY DEF IInv
<1>4. sock[c] = "auth" /\ key[c] = TRUE
  BY <1>1, <1>2, <1>3 DEF ClientOK, LinkOK
<1>5. f = dn[1]
  BY <1>1, <1>2
<1>6. /\ LinkOK(hd, "auth", TRUE, dn, hi)
      /\ ShownOK(hd, "auth", TRUE, dn, hi, rendered[c], published)
      /\ LearntOK(hd, "auth", TRUE, hi, known[c], screen[c], res, old, published)
  BY <1>3, <1>4 DEF ClientOK
<1>8. /\ f.seq \in Nat /\ hi < f.seq
      /\ IsEvent(f.item) => f.item.n \notin rendered[c]
      /\ LinkOK(hd, "auth", TRUE, Tail(dn), f.seq)
      /\ ShownOK(hd, "auth", TRUE, Tail(dn), f.seq, more, published)
      /\ LearntOK(hd, "auth", TRUE, f.seq, known[c] \cup Learnt(f.item),
                  ApplyEvent(screen[c], f.item), res, old, published)
  <2> DEFINE kn == known[c]
             sc == screen[c]
             shown == rendered[c]
             b == dn[1].seq
             item == dn[1].item
             all == IF IsEvent(item) THEN shown \cup {item.n} ELSE shown
  <2>1. ClientInv(hd, "auth", TRUE, dn, hi, shown, kn, sc, res, old, published)
    BY <1>6 DEF ClientInv
  <2>2. dn \in Seq(Frames) /\ dn # <<>> /\ hi \in Nat
    BY <1>1, <1>2
  <2> HIDE DEF hd, res, old, f, dn, hi, kn, sc, shown
  <2>3. /\ b \in Nat /\ hi < b
        /\ IsEvent(item) => item.n \notin shown
        /\ ClientInv(hd, "auth", TRUE, Tail(dn), b, all, kn \cup Learnt(item),
                     ApplyEvent(sc, item), res, old, published)
    BY <1>2, <2>1, <2>2, ClientReceive
  <2> QED
    BY <1>5, <2>3 DEF ClientInv, kn, sc, shown
<1>9. ~Duplicate(c, f.seq)
  BY <1>2, <1>8 DEF Duplicate
<1>10. /\ highest' = [highest EXCEPT ![c] = IF f.seq > @ THEN f.seq ELSE @]
       /\ known' = [known EXCEPT ![c] = @ \cup Learnt(f.item)]
       /\ screen' = [screen EXCEPT ![c] = ApplyEvent(@, f.item)]
       /\ rendered' = IF ~IsEvent(f.item) THEN rendered
                      ELSE [rendered EXCEPT ![c] = @ \cup {f.item.n}]
       /\ twice' = IF IsEvent(f.item) /\ f.item.n \in rendered[c] THEN twice \cup {c} ELSE twice
       /\ lost' = lost
  BY <1>9 DEF ReceiveFrame
<1>11. f.item.n \in Nat
  <2>1. f \in Frames
    BY <1>1, <1>2, HeadTailProperties
  <2> HIDE DEF f
  <2> QED
    BY <2>1, DeliveryAssumption DEF Frames, Items
<1> HIDE DEF f
<1>12. DedupExact'
  BY <1>8, <1>10 DEF IInv, DedupExact
<1>13. /\ rendered' \in [Clients -> SUBSET Nat] /\ rendered'[c] = more
       /\ \A x \in Clients : x # c => rendered'[x] = rendered[x]
  BY <1>2, <1>10, <1>11
<1>14. /\ highest'[c] = f.seq /\ known'[c] = known[c] \cup Learnt(f.item)
       /\ screen'[c] = ApplyEvent(screen[c], f.item) /\ down'[c] = Tail(dn)
       /\ sock'[c] = "auth" /\ key'[c] = TRUE
  BY <1>1, <1>2, <1>4, <1>8, <1>10
<1>15. ClientOK(c, H)'
  <2> HIDE DEF more, dn
  <2> QED
    BY <1>1, <1>8, <1>13, <1>14 DEF ClientOK
<1>16. ASSUME NEW x \in Clients, x # c PROVE ClientOK(x, H)'
  <2>1. ClientOK(x, H) /\ Written(H, H, DeviceOf[c], published)
    BY <1>2, WrittenNothing DEF IInv
  <2>2. /\ down'[x] = down[x] /\ highest'[x] = highest[x] /\ known'[x] = known[x]
        /\ screen'[x] = screen[x] /\ rendered'[x] = rendered[x]
    BY <1>1, <1>2, <1>10, <1>13, <1>16
  <2> QED
    BY <1>1, <1>2, <2>1, <2>2, OthersKeptByWriting
<1> QED
  BY <1>1, <1>12, <1>13, <1>15, <1>16, DaemonKept

\* sendTo.
LEMMA SendToStep ==
  ASSUME Roomy, TypeInv, NEW H \in Histories, IInv(H), NEW c \in Clients, SendTo(c)
  PROVE  \E HH \in Histories : IInv(HH)'
<1> DEFINE d == DeviceOf[c]
           n == Len(H[d]) + 1
           sent == SendAll(reg, d, <<Private>>)
<1>1. /\ sock[c] = "auth" /\ reg' = sent.reg
      /\ down' = [down EXCEPT ![c] = @ \o sent.frames]
      /\ UNCHANGED <<sock, hello, key, highest, screen, known, rendered, twice, resynced>>
      /\ UNCHANGED <<lost, stale, open, published>>
  BY DEF SendTo, clientVars, view
<1>2. /\ d \in Devices /\ reg \in Registries /\ RegOK(reg, H) /\ ClientOK(c, H)
      /\ published \in Nat /\ open \in SUBSET Nat /\ down \in [Clients -> Seq(Frames)]
      /\ HistoriesOK(H) /\ H[d] \in Seq(Records)
  BY ClientParts, TypeInvParts DEF IInv, Histories
<1>3. H[d] # <<>> /\ HistOK(H[d], published, open) /\ n \in Nat
  BY <1>1, <1>2, AuthHasHistory, LenProperties DEF HistoriesOK
<1>5. PICK HH :
        /\ Written(H, HH, d, published) /\ RegOK(sent.reg, HH)
        /\ HistOK(HH[d], published, open) /\ HH[d] # <<>>
        /\ \A y \in Devices : y # d => sent.reg.out[y] = reg.out[y]
        /\ sent.frames \in Seq(Frames) /\ Len(sent.frames) = 1
        /\ Len(HH[d]) = n
        /\ HH[d][n].item = Private /\ sent.frames[1] = Frame(n, Private)
  <2> DEFINE acks == <<Private>>
  <2>1. Len(acks) = 1 /\ 1 \in 1..Len(acks) /\ acks[1] = Private
    OBVIOUS
  <2>2. acks = <<>> \/ acks = <<Private>>
    OBVIOUS
  <2>3. sent = SendAll(reg, d, acks)
    OBVIOUS
  <2> HIDE DEF acks, d, sent
  <2>4. PICK HH : Sent(reg, H, d, acks, published, open, HH)
    BY <1>2, <1>3, <2>2, PrivateHistory
  <2> QED
    BY <2>1, <2>3, <2>4 DEF Sent
<1> HIDE DEF sent
<1>6. HH \in Histories /\ Extends(H[d], HH[d]) /\ HH[d][n].pub = published
  <2>1. n \in Len(H[d]) + 1..Len(HH[d])
    BY <1>3, <1>5
  <2> QED
    BY <1>5, <2>1 DEF Written
<1>7. HistoriesOK(HH)'
  <2>1. ASSUME NEW y \in Devices
        PROVE  HistOK(HH[y], published, open) /\ (reg'.out[y] # NoStream => HH[y] # <<>>)
    <3>1. CASE y = d
      BY <1>5, <3>1
    <3>2. CASE y # d
      <4>1. HH[y] = H[y] /\ reg'.out[y] = reg.out[y]
        BY <1>1, <1>5, <3>2 DEF Written
      <4> QED
        BY <1>2, <4>1 DEF HistoriesOK
    <3> QED
      BY <3>1, <3>2
  <2> QED
    BY <1>1, <2>1 DEF HistoriesOK
<1>8. ClientOK(c, HH)'
  <2>1. down'[c] = Append(down[c], Frame(n, Private))
    <3>1. sent.frames = <<Frame(n, Private)>>
      BY <1>5
    <3>2. Frame(n, Private) \in Frames
      BY <1>3, ItemTypes
    <3>3. down[c] \o <<Frame(n, Private)>> = Append(down[c], Frame(n, Private))
      BY <1>2, <3>2, AppendIsConcat
    <3> QED
      BY <1>1, <1>2, <3>1, <3>3
  <2>2. ~InSnapshot(HH[d], n) /\ Private \in Items
    BY <1>5, ItemTypes DEF InSnapshot, Private
  <2>3. published' \in Nat /\ published <= published' /\ HH[d][n].pub = published'
    BY <1>1, <1>2, <1>6
  <2>4. n = Len(H[d]) + 1 /\ Len(HH[d]) = n
    BY <1>5
  <2> HIDE DEF n
  <2> QED
    BY <1>1, <1>2, <1>3, <1>5, <1>6, <2>1, <2>2, <2>3, <2>4, SentTo
<1>9. ASSUME NEW x \in Clients, x # c PROVE ClientOK(x, HH)'
  <2>1. ClientOK(x, H) /\ down'[x] = down[x]
    BY <1>1, <1>2, <1>9 DEF IInv
  <2> QED
    BY <1>1, <1>2, <1>5, <2>1, OthersKeptByWriting
<1>10. IInv(HH)'
  BY <1>1, <1>5, <1>7, <1>8, <1>9 DEF IInv, DedupExact
<1> QED
  BY <1>6, <1>10

\* A snapshot to one socket.
LEMMA SnapshotHistory ==
  ASSUME Roomy, NEW g \in Registries, NEW G \in Histories, RegOK(g, G), NEW d \in Devices,
         NEW pub \in 0..MaxPublished, NEW opn \in SUBSET Nat, HistOK(G[d], pub, opn), NEW items,
         IsSnapshot(items, pub, opn)
  PROVE  \E G2 : /\ Sent(g, G, d, items, pub, opn, G2) /\ Len(items) \in Nat \ {0}
                 /\ G2[d][Len(G[d]) + 1].item.kind = "sessions"
                 /\ G2[d][Len(G[d]) + 1].pub = pub
<1> DEFINE hd == G[d]
           n  == Len(hd)
           m  == Len(items)
           es == [i \in 1..m |-> [item |-> items[i], pub |-> pub, opn |-> opn]]
           hx == hd \o es
           G2 == [G EXCEPT ![d] = @ \o es]
<1>1. hd \in Seq(Records) /\ n \in Nat /\ HistOK(hd, pub, opn)
  BY LenProperties DEF Histories
<1>2. items \in Seq(Items) /\ m \in {2, 3}
  BY SnapshotItems
<1>3. /\ es \in Seq(Records) /\ Len(es) = m
      /\ \A i \in 1..m : es[i].item = items[i] /\ es[i].pub = pub /\ es[i].opn = opn
  <2>1. \A i \in 1..m : items[i] \in Items
    BY <1>2, ElementOfSeq
  <2> HIDE DEF m
  <2>2. \A i \in 1..m : es[i] \in Records
    BY <2>1, DeliveryAssumption DEF Records
  <2> QED
    BY <1>2, <2>2, IsASeq
<1> HIDE DEF es, m
<1>4. /\ \A i \in 1..m : ~IsEvent(items[i])
      /\ hx \in Seq(Records) /\ hx # <<>> /\ Len(hx) = n + m
      /\ \A i \in 1..m : hx[n + i].item = items[i] /\ hx[n + i].pub = pub
      /\ HistOK(hx, pub, opn) /\ Extends(hd, hx)
      /\ hx[n + 1].item.kind = "sessions"
  <2>1. Carry(es, items, pub, opn)
    BY <1>3 DEF m, Carry
  <2> HIDE DEF hd
  <2>2. SnapshotBehind(hd, items, pub, opn, hd \o es)
    BY <1>1, <1>3, <2>1, HistAppendSnapshot
  <2> QED
    BY <2>2 DEF m, SnapshotBehind
<1>5. /\ G2 \in Histories
      /\ RegOK(SendAll(g, d, items).reg, G2)
      /\ \A y \in Devices : y # d => SendAll(g, d, items).reg.out[y] = g.out[y]
      /\ Len(SendAll(g, d, items).frames) = m
      /\ \A i \in 1..m : SendAll(g, d, items).frames[i] = Frame(n + i, items[i])
  <2>1. ItemsOf(es, items)
    BY <1>3 DEF m, ItemsOf
  <2>2. Numbered(g, G, d, items, G2)
    BY <1>2, <1>3, <2>1, SendAllHistory
  <2> HIDE DEF G2
  <2> QED
    BY <2>2 DEF m, Numbered
<1>6. SendAll(g, d, items).reg \in Registries /\ SendAll(g, d, items).frames \in Seq(Frames)
  BY <1>2, SendAllType
<1>7. G2[d] = hx /\ \A y \in Devices : y # d => G2[y] = G[y]
  BY DEF Histories
<1> HIDE DEF G2, hx
<1>8. Written(G, G2, d, pub)
  <2>1. ASSUME NEW s \in n + 1..Len(hx) PROVE ~IsEvent(hx[s].item) /\ hx[s].pub = pub
    <3>1. s - n \in 1..m /\ n + (s - n) = s
      BY <1>1, <1>2, <1>4
    <3> QED
      BY <1>4, <3>1
  <2> QED
    BY <1>4, <1>5, <1>7, <2>1 DEF Written
<1>9. Sent(g, G, d, items, pub, opn, G2)
  BY <1>4, <1>5, <1>6, <1>7, <1>8 DEF Sent, m
<1>10. hx[n + 1].pub = pub
  <2>1. 1 \in 1..m
    BY <1>2
  <2> QED
    BY <1>4, <2>1
<1> QED
  BY <1>2, <1>4, <1>7, <1>9, <1>10 DEF m

\* A client that may resume is replayed everything behind its checkpoint.
LEMMA ReplayedHistory ==
  ASSUME NEW g \in Registries, NEW H \in Histories, RegOK(g, H), NEW d \in Devices,
         NEW lastSeq \in Nat, Resumes(g, d, lastSeq)
  PROVE  /\ lastSeq \in 1..Len(H[d])
         /\ Replayed(g, d, lastSeq) \in Seq(Frames)
         /\ Len(Replayed(g, d, lastSeq)) = Len(H[d]) - lastSeq
         /\ \A i \in 1..Len(Replayed(g, d, lastSeq)) :
              Replayed(g, d, lastSeq)[i] = Frame(lastSeq + i, H[d][lastSeq + i].item)
<1> DEFINE log == g.log[d]
           n   == Len(log)
           L   == Len(H[d])
           R   == Replayed(g, d, lastSeq)
<1>1. log \in Seq(Entries) /\ n \in Nat /\ H[d] \in Seq(Records) /\ L \in Nat
  BY RegistryParts, LenProperties DEF Histories
<1>2. StreamOK(g.out[d], log, H[d])
  BY DEF RegOK
<1>3. /\ lastSeq # 0 /\ g.out[d] = L /\ n <= L
      /\ \A i \in 1..n : log[i].seq = L - n + i /\ log[i].item = H[d][L - n + i].item
  BY <1>2 DEF Resumes, StreamOK, EndOf
<1>4. ~(lastSeq > L) /\ (lastSeq < L => log # <<>> /\ ~(lastSeq + 1 < log[1].seq))
  BY <1>3 DEF Resumes, Gap
<1>5. lastSeq \in 1..L
  BY <1>1, <1>3, <1>4
<1>5a. n > 0 => log[1].seq = L - n + 1
  <2>1. n > 0 => 1 \in 1..n
    BY <1>1
  <2> QED
    BY <1>3, <2>1
<1>5b. lastSeq < L => n > 0
  BY <1>1, <1>4, EmptySeq
<1>7. PICK k \in 0..n :
        /\ \A i \in 1..n : log[i].seq > lastSeq <=> i > k
        /\ R = [i \in 1..n - k |-> Frame(log[k + i].seq, log[k + i].item)]
  <2>1. lastSeq \in Int
    OBVIOUS
  <2> QED
    BY <2>1, ReplayedIsSuffix
<1> HIDE DEF R, log, n, L
<1> DEFINE k0 == lastSeq - (L - n)
<1>6. k0 \in 0..n /\ \A i \in 1..n : log[i].seq > lastSeq <=> i > k0
  <2>1. k0 \in 0..n
    BY <1>1, <1>3, <1>4, <1>5, <1>5a, <1>5b
  <2>2. \A i \in 1..n : L - n + i > lastSeq <=> i > k0
    BY <1>1, <1>5
  <2> QED
    BY <1>3, <2>1, <2>2
<1> HIDE DEF k0
<1>8. k = k0
  <2>1. \A i \in 1..n : i > k <=> i > k0
    BY <1>6, <1>7
  <2>2. CASE k < k0
    <3>1. k0 \in 1..n /\ k0 > k /\ ~(k0 > k0)
      BY <1>1, <1>6, <1>7, <2>2
    <3> QED
      BY <2>1, <3>1
  <2>3. CASE k0 < k
    <3>1. k \in 1..n /\ k > k0 /\ ~(k > k)
      BY <1>1, <1>6, <1>7, <2>3
    <3> QED
      BY <2>1, <3>1
  <2> QED
    BY <1>1, <1>6, <1>7, <2>2, <2>3
<1>9. R \in Seq(Frames)
  BY ReplayedType DEF R
<1>10. n - k = L - lastSeq /\ n - k \in Nat
  BY <1>1, <1>7, <1>8 DEF k0
<1>11. Len(R) = n - k
  BY <1>7, <1>10
<1>12. ASSUME NEW i \in 1..n - k
       PROVE  R[i] = Frame(lastSeq + i, H[d][lastSeq + i].item)
  <2>1. k + i \in 1..n /\ L - n + (k + i) = lastSeq + i
    BY <1>1, <1>7, <1>8, <1>10 DEF k0
  <2>2. log[k + i].seq = lastSeq + i /\ log[k + i].item = H[d][lastSeq + i].item
    BY <1>3, <2>1
  <2> QED
    BY <1>7, <2>2
<1> QED
  BY <1>5, <1>9, <1>10, <1>11, <1>12 DEF R, L

\* What a hello is answered with: the frames are the history of d behind the place a, and
\* the client, which is at start, may read them.
Greeting(g, G, d, pub, opn, a, start, g2, frames, G2) ==
  /\ Written(G, G2, d, pub)
  /\ g2 \in Registries /\ RegOK(g2, G2)
  /\ HistOK(G2[d], pub, opn) /\ G2[d] # <<>>
  /\ \A y \in Devices : y # d => g2.out[y] = g.out[y]
  /\ a \in 0..Len(G2[d]) /\ start \in {0, a}
  /\ frames \in Seq(Frames) /\ Len(frames) = Len(G2[d]) - a
  /\ \A i \in 1..Len(frames) : frames[i] = Frame(a + i, G2[d][a + i].item)
  /\ start = 0 => a < Len(G2[d]) /\ G2[d][a + 1].item.kind = "sessions"
                    /\ G2[d][a + 1].pub = pub

\* resumeFor, when it resumes.
LEMMA GreetingResumed ==
  ASSUME NEW g0, NEW g \in Registries, NEW H \in Histories, RegOK(g, H), NEW d \in Devices,
         NEW lastSeq \in Nat, Resumes(g, d, lastSeq), NEW pub, NEW opn, HistOK(H[d], pub, opn),
         \A y \in Devices : y # d => g.out[y] = g0.out[y]
  PROVE  Greeting(g0, H, d, pub, opn, lastSeq, lastSeq, g, Replayed(g, d, lastSeq), H)
<1>1. H[d] \in Seq(Records) /\ Written(H, H, d, pub) /\ Len(H[d]) \in Nat
  BY WrittenNothing, LenProperties DEF Histories
<1>2. /\ lastSeq \in 1..Len(H[d])
      /\ Replayed(g, d, lastSeq) \in Seq(Frames)
      /\ Len(Replayed(g, d, lastSeq)) = Len(H[d]) - lastSeq
      /\ \A i \in 1..Len(Replayed(g, d, lastSeq)) :
           Replayed(g, d, lastSeq)[i] = Frame(lastSeq + i, H[d][lastSeq + i].item)
  BY ReplayedHistory
<1>3. H[d] # <<>> /\ lastSeq \in 0..Len(H[d]) /\ lastSeq # 0
  BY <1>1, <1>2, EmptySeq
<1> QED
  BY <1>1, <1>2, <1>3 DEF Greeting

\* resumeFor, when it resyncs.
LEMMA GreetingResynced ==
  ASSUME Roomy, NEW g0, NEW g \in Registries, NEW H \in Histories, RegOK(g, H),
         NEW d \in Devices, NEW pub \in 0..MaxPublished, NEW opn \in SUBSET Nat,
         HistOK(H[d], pub, opn), NEW items, IsSnapshot(items, pub, opn),
         \A y \in Devices : y # d => g.out[y] = g0.out[y]
  PROVE  \E G2 : Greeting(g0, H, d, pub, opn, Len(H[d]), 0, SendAll(g, d, items).reg,
                          SendAll(g, d, items).frames, G2)
<1> DEFINE n == Len(H[d])
           F == SendAll(g, d, items).frames
<1>1. PICK G2 : /\ Sent(g, H, d, items, pub, opn, G2) /\ Len(items) \in Nat \ {0}
                /\ G2[d][n + 1].item.kind = "sessions"
                /\ G2[d][n + 1].pub = pub
  BY SnapshotHistory
<1>2. H[d] \in Seq(Records) /\ n \in Nat
  BY LenProperties DEF Histories
<1>3. /\ Written(H, G2, d, pub)
      /\ SendAll(g, d, items).reg \in Registries /\ RegOK(SendAll(g, d, items).reg, G2)
      /\ HistOK(G2[d], pub, opn) /\ G2[d] # <<>>
      /\ \A y \in Devices : y # d => SendAll(g, d, items).reg.out[y] = g0.out[y]
      /\ F \in Seq(Frames) /\ Len(F) = Len(items) /\ Len(G2[d]) = n + Len(items)
      /\ \A i \in 1..Len(items) : G2[d][n + i].item = items[i] /\ F[i] = Frame(n + i, items[i])
  BY <1>1 DEF Sent
<1>4. /\ n \in 0..Len(G2[d]) /\ Len(F) = Len(G2[d]) - n /\ n < Len(G2[d])
      /\ \A i \in 1..Len(F) : F[i] = Frame(n + i, G2[d][n + i].item)
  BY <1>1, <1>2, <1>3
<1> HIDE DEF n, F
<1>5. Greeting(g0, H, d, pub, opn, n, 0, SendAll(g, d, items).reg, F, G2)
  BY <1>1, <1>3, <1>4 DEF Greeting
<1> QED
  BY <1>5 DEF n, F

\* The frames of F and then those of L.
Joined(F, L, FL) ==
  /\ FL \in Seq(Frames) /\ Len(FL) = Len(F) + Len(L)
  /\ \A i \in 1..Len(F) + Len(L) : FL[i] = IF i <= Len(F) THEN F[i] ELSE L[i - Len(F)]

\* Two sequences of frames, joined.
LEMMA JoinedFrames ==
  ASSUME NEW F \in Seq(Frames), NEW L \in Seq(Frames)
  PROVE  Joined(F, L, F \o L)
<1> DEFINE FL == F \o L
<1>1. /\ FL \in Seq(Frames) /\ Len(FL) = Len(F) + Len(L)
      /\ \A i \in 1..Len(F) + Len(L) : FL[i] = IF i <= Len(F) THEN F[i] ELSE L[i - Len(F)]
  BY ConcatProperties
<1> QED
  BY <1>1 DEF Joined

\* An ack for the commands of the device that were handled may come behind.
LEMMA GreetingAcks ==
  ASSUME Roomy, NEW g0, NEW H \in Histories, NEW d \in Devices, NEW pub \in Nat,
         NEW opn \in SUBSET Nat, NEW a, NEW start, NEW g, NEW F, NEW G,
         Greeting(g0, H, d, pub, opn, a, start, g, F, G),
         NEW acks, acks = <<>> \/ acks = <<Private>>
  PROVE  \E G2 : Greeting(g0, H, d, pub, opn, a, start, SendAll(g, d, acks).reg,
                          F \o SendAll(g, d, acks).frames, G2)
<1> DEFINE n == Len(G[d])
           L == SendAll(g, d, acks).frames
           m == Len(acks)
           FL == F \o L
<1>1. /\ Written(H, G, d, pub) /\ G \in Histories
      /\ g \in Registries /\ RegOK(g, G) /\ HistOK(G[d], pub, opn) /\ G[d] # <<>>
      /\ \A y \in Devices : y # d => g.out[y] = g0.out[y]
      /\ a \in 0..n /\ start \in {0, a}
      /\ F \in Seq(Frames) /\ Len(F) = n - a
      /\ \A i \in 1..Len(F) : F[i] = Frame(a + i, G[d][a + i].item)
      /\ start = 0 => a < n /\ G[d][a + 1].item.kind = "sessions" /\ G[d][a + 1].pub = pub
  BY DEF Greeting, Written
<1>2. n \in Nat /\ m \in Nat
  BY <1>1, LenProperties DEF Histories
<1>3. PICK G2 : Sent(g, G, d, acks, pub, opn, G2)
  BY <1>1, PrivateHistory
<1>4. /\ Written(G, G2, d, pub)
      /\ SendAll(g, d, acks).reg \in Registries /\ RegOK(SendAll(g, d, acks).reg, G2)
      /\ HistOK(G2[d], pub, opn) /\ G2[d] # <<>>
      /\ \A y \in Devices : y # d => SendAll(g, d, acks).reg.out[y] = g.out[y]
      /\ L \in Seq(Frames) /\ Len(L) = m /\ Len(G2[d]) = n + m
      /\ \A i \in 1..m : G2[d][n + i].item = acks[i] /\ L[i] = Frame(n + i, acks[i])
      /\ \A i \in 1..n : G2[d][i] = G[d][i]
  BY <1>3 DEF Sent, Written, Extends
<1>5. Written(H, G2, d, pub)
  BY <1>1, <1>4, WrittenTwice
<1>6. /\ FL \in Seq(Frames) /\ Len(FL) = Len(F) + m
      /\ \A i \in 1..Len(FL) : FL[i] = IF i <= Len(F) THEN F[i] ELSE L[i - Len(F)]
  <2> HIDE DEF L
  <2>1. Joined(F, L, FL)
    BY <1>1, <1>4, JoinedFrames
  <2> HIDE DEF FL
  <2> QED
    BY <1>4, <2>1 DEF Joined
<1> HIDE DEF n, m, L, FL
<1>7. ASSUME NEW i \in 1..Len(FL) PROVE FL[i] = Frame(a + i, G2[d][a + i].item)
  <2>1. CASE i <= Len(F)
    <3>1. i \in 1..Len(F) /\ a + i \in 1..n
      BY <1>1, <1>2, <1>6, <2>1
    <3> QED
      BY <1>1, <1>4, <1>6, <2>1, <3>1
  <2>2. CASE ~(i <= Len(F))
    <3>1. i - Len(F) \in 1..m /\ n + (i - Len(F)) = a + i
      BY <1>1, <1>2, <1>6, <2>2
    <3> QED
      BY <1>4, <1>6, <2>2, <3>1
  <2> QED
    BY <2>1, <2>2
<1>8. Len(FL) = Len(G2[d]) - a /\ a \in 0..Len(G2[d])
  BY <1>1, <1>2, <1>4, <1>6
<1>9. start = 0 => a < Len(G2[d]) /\ G2[d][a + 1].item.kind = "sessions"
                     /\ G2[d][a + 1].pub = pub
  <2>1. start = 0 => a + 1 \in 1..n /\ a < Len(G2[d])
    BY <1>1, <1>2, <1>4
  <2> QED
    BY <1>1, <1>4, <2>1
<1>10. Greeting(g0, H, d, pub, opn, a, start, SendAll(g, d, acks).reg, FL, G2)
  BY <1>1, <1>4, <1>5, <1>6, <1>7, <1>8, <1>9 DEF Greeting
<1> QED
  BY <1>10 DEF FL, L

\* The client a hello is answered, behind the salt.
LEMMA ClientGreeted ==
  ASSUME NEW H \in Histories, NEW d \in Devices, NEW pub \in Nat, NEW opn,
         NEW g0, NEW g, NEW a, NEW start, NEW frames, NEW G,
         Greeting(g0, H, d, pub, opn, a, start, g, frames, G),
         NEW dn, dn # <<>>, Tail(dn) = frames, dn[1].salt, NEW hi \in Nat,
         IF dn[1].resumed THEN start = hi /\ hi # 0 ELSE start = 0,
         NEW shown, NEW kn, NEW sc, NEW res, NEW old,
         ClientInv(H[d], "open", FALSE, <<>>, hi, shown, kn, sc, res, old, pub)
  PROVE  ClientInv(G[d], "auth", FALSE, dn, hi, shown, kn, sc, res, old, pub)
<1> DEFINE hd == H[d]
           hx == G[d]
<1>1. /\ hd \in Seq(Records) /\ hx \in Seq(Records) /\ Extends(hd, hx)
      /\ Len(hd) \in Nat /\ Len(hx) \in Nat
      /\ \A s \in Len(hd) + 1..Len(hx) : ~IsEvent(hx[s].item) /\ hx[s].pub = pub
  BY LenProperties DEF Greeting, Written, Histories
<1>2. /\ hx # <<>> /\ \A s \in 1..Len(hx) : EntryOK(hx, s)
      /\ a \in 0..Len(hx) /\ start \in {0, a}
      /\ frames \in Seq(Frames) /\ Len(frames) = Len(hx) - a
      /\ \A i \in 1..Len(frames) : frames[i] = Frame(a + i, hx[a + i].item)
      /\ start = 0 => a < Len(hx) /\ hx[a + 1].item.kind = "sessions" /\ hx[a + 1].pub = pub
  BY DEF Greeting, HistOK
<1>3. /\ LinkOK(hd, "open", FALSE, <<>>, hi) /\ ShownOK(hd, "open", FALSE, <<>>, hi, shown, pub)
      /\ LearntOK(hd, "open", FALSE, hi, kn, sc, res, old, pub)
  BY DEF ClientInv
<1> HIDE DEF hd, hx
<1>4. Chain(hx, start, frames)
  BY <1>1, <1>2, ChainRun
<1>5. Unread(FALSE, dn) = frames /\ Start(FALSE, dn, hi) = start
  BY DEF Unread, Start
<1>6. LinkOK(hx, "auth", FALSE, dn, hi)
  BY <1>4, <1>5 DEF LinkOK
<1>7. start = 0 => hx[frames[1].seq].pub = pub
  <2>1. start = 0 => 1 \in 1..Len(frames)
    BY <1>1, <1>2
  <2>2. start = 0 => frames[1] = Frame(a + 1, hx[a + 1].item)
    BY <1>2, <2>1
  <2>3. start = 0 => frames[1].seq = a + 1
    BY <2>2 DEF Frame
  <2> QED
    BY <1>2, <2>3
<1>8. hi \in 1..Len(hx) => shown \subseteq 1..hx[hi].pub
  <2>1. CASE hi \in 1..Len(hd)
    BY <1>1, <1>3, <2>1 DEF ShownOK, Extends
  <2>2. CASE hi \in Len(hd) + 1..Len(hx)
    BY <1>1, <1>3, <2>2 DEF ShownOK
  <2> QED
    BY <1>1, <2>1, <2>2
<1>9. ShownOK(hx, "auth", FALSE, dn, hi, shown, pub)
  BY <1>3, <1>5, <1>7, <1>8 DEF ShownOK
<1>10. LearntOK(hx, "auth", FALSE, hi, kn, sc, res, old, pub)
  <2>1. hi # 0 /\ ~old => hi <= Len(hx) /\ Synced(hx, hi, kn, sc, res)
    <3> SUFFICES ASSUME hi # 0, ~old PROVE hi <= Len(hx) /\ Synced(hx, hi, kn, sc, res)
      OBVIOUS
    <3>1. hi \in 1..Len(hd) /\ Synced(hd, hi, kn, sc, res)
      BY <1>1, <1>3 DEF LearntOK
    <3>2. hi <= Len(hx) /\ hx[hi] = hd[hi]
      BY <1>1, <3>1 DEF Extends
    <3> QED
      BY <3>1, <3>2 DEF Synced, InSnapshot
  <2> QED
    BY <1>3, <2>1 DEF LearntOK
<1> QED
  BY <1>6, <1>9, <1>10 DEF ClientInv, hx

\* all is the frame s and then the frames FL.
SaltFirst(s, FL, all) == all # <<>> /\ all[1] = s /\ Tail(all) = FL

\* The salt in front of what is replayed or sent, on a connection that got nothing yet.
LEMMA BehindSalt ==
  ASSUME NEW dn \in Seq(Frames), dn = <<>>, NEW s \in Frames, NEW F \in Seq(Frames),
         NEW L \in Seq(Frames)
  PROVE  SaltFirst(s, F \o L, dn \o <<s>> \o F \o L)
<1> DEFINE one == <<s>>
           FL  == F \o L
           all == one \o FL
<1>1. one \in Seq(Frames) /\ Len(one) = 1 /\ one[1] = s
  OBVIOUS
<1>2. dn \o <<s>> = one
  BY <1>1, ConcatEmptySeq
<1>3. FL \in Seq(Frames) /\ Len(FL) \in Nat
  BY ConcatProperties, LenProperties
<1>4. (one \o F) \o L = all
  BY <1>1, ConcatAssociative
<1> HIDE DEF one, FL
<1>5. /\ all \in Seq(Frames) /\ Len(all) = 1 + Len(FL)
      /\ \A i \in 1..1 + Len(FL) : all[i] = IF i <= 1 THEN one[i] ELSE FL[i - 1]
  <2>1. Joined(one, FL, all)
    BY <1>1, <1>3, JoinedFrames
  <2> HIDE DEF all
  <2> QED
    BY <1>1, <2>1 DEF Joined
<1> HIDE DEF all
<1>6. all # <<>> /\ all[1] = s
  BY <1>1, <1>3, <1>5, EmptySeq
<1>7. /\ Tail(all) \in Seq(Frames) /\ Len(Tail(all)) = Len(FL)
      /\ \A i \in 1..Len(Tail(all)) : Tail(all)[i] = all[i + 1]
  BY <1>3, <1>5, <1>6, HeadTailProperties
<1>8. Tail(all) = FL
  <2>1. ASSUME NEW i \in 1..Len(FL) PROVE Tail(all)[i] = FL[i]
    <3>1. i + 1 \in 1..1 + Len(FL) /\ ~(i + 1 <= 1) /\ (i + 1) - 1 = i
      BY <1>3
    <3>2. all[i + 1] = FL[(i + 1) - 1]
      BY <1>5, <3>1
    <3> QED
      BY <1>7, <3>1, <3>2
  <2> QED
    BY <1>3, <1>7, <2>1, SeqEqual
<1> QED
  BY <1>2, <1>4, <1>6, <1>8 DEF FL, all, SaltFirst

\* A client that may resume before touch may after it.
LEMMA TouchResumes ==
  ASSUME NEW g \in Registries, NEW H \in Histories, RegOK(g, H), NEW d \in Devices,
         NEW lastSeq, Resumes(g, d, lastSeq)
  PROVE  Resumes(Touch(g, d), d, lastSeq)
<1>1. Touch(g, d).log = g.log /\ Touch(g, d).out[d] = g.out[d]
  BY TouchHistory DEF Resumes
<1> HIDE DEF Touch
<1> QED
  BY <1>1 DEF Resumes, Gap

\* hello: whatever the daemon decides, what it answers is a chain for the client.
LEMMA HelloAnswer ==
  ASSUME Roomy, TypeInv, NEW H \in Histories, IInv(H), NEW c \in Clients,
         NEW acks \in {<<>>, <<Private>>}, Hello(c, acks)
  PROVE  \E a, start, frames, HH :
           /\ Greeting(reg, H, DeviceOf[c], published, open, a, start, reg', frames, HH)
           /\ down'[c] # <<>> /\ Tail(down'[c]) = frames /\ down'[c][1].salt
           /\ IF down'[c][1].resumed THEN start = highest[c] /\ highest[c] # 0 ELSE start = 0
           /\ \A x \in Clients : x # c => down'[x] = down[x]
<1> DEFINE d == DeviceOf[c]
           g == Touch(reg, d)
           resumes == Resumes(reg, d, hello[c])
           first == IF resumes THEN [reg |-> g, frames |-> Replayed(g, d, hello[c])]
                    ELSE SendAll(g, d, Snapshot)
           last  == SendAll(first.reg, d, acks)
           pub == published
<1>1. /\ sock[c] = "open" /\ reg' = last.reg
      /\ down' = [down EXCEPT ![c] = @ \o <<Salt(resumes)>> \o first.frames \o last.frames]
  BY DEF Hello
<1>2. /\ d \in Devices /\ reg \in Registries /\ RegOK(reg, H) /\ ClientOK(c, H)
      /\ pub \in 0..MaxPublished /\ pub \in Nat /\ open \in SUBSET Nat
      /\ open \subseteq 1..MaxPublished
      /\ down \in [Clients -> Seq(Frames)] /\ highest[c] \in Nat
      /\ HistOK(H[d], pub, open)
  BY ClientParts, TypeInvParts DEF IInv, HistoriesOK
<1>3. down[c] = <<>> /\ hello[c] = highest[c] /\ down[c] \in Seq(Frames)
  BY <1>1, <1>2 DEF ClientOK, LinkOK
<1>4. g \in Registries /\ RegOK(g, H) /\ \A y \in Devices : y # d => g.out[y] = reg.out[y]
  BY <1>2, TouchType, TouchHistory
<1>5. resumes => hello[c] # 0
  BY DEF Resumes
<1>6. resumes => Resumes(g, d, hello[c])
  BY <1>2, TouchResumes
<1>7. acks = <<>> \/ acks = <<Private>>
  OBVIOUS
<1>8. resumes \in BOOLEAN
  BY DEF Resumes, Gap
<1>9. resumes => first.reg = g /\ first.frames = Replayed(g, d, hello[c])
  OBVIOUS
<1>10. ~resumes => first = SendAll(g, d, Snapshot)
  OBVIOUS
<1> HIDE DEF first, resumes, g, d
<1>11. PICK a, start, G :
         /\ Greeting(reg, H, d, pub, open, a, start, first.reg, first.frames, G)
         /\ IF resumes THEN start = highest[c] /\ highest[c] # 0 ELSE start = 0
  <2>1. CASE resumes
    <3>1. Greeting(reg, H, d, pub, open, highest[c], highest[c], g, Replayed(g, d, highest[c]), H)
      BY <1>2, <1>3, <1>4, <1>6, <2>1, GreetingResumed
    <3> QED
      BY <1>3, <1>5, <1>9, <2>1, <3>1
  <2>2. CASE ~resumes
    <3>1. IsSnapshot(Snapshot, pub, open)
      <4>1. open = {} \/ \E b \in 1..MaxPublished : open = {b}
        BY DEF IInv
      <4>2. /\ open = {} => Snapshot = <<Sessions, Jobs(published)>>
            /\ \A b : open = {b} => Snapshot = <<Sessions, Pending(0, b), Jobs(published)>>
        BY <1>2, SnapshotType
      <4> QED
        BY <4>1, <4>2 DEF IsSnapshot
    <3>2. PICK G : Greeting(reg, H, d, pub, open, Len(H[d]), 0, SendAll(g, d, Snapshot).reg,
                            SendAll(g, d, Snapshot).frames, G)
      <4> DEFINE items == Snapshot
      <4> HIDE DEF items, pub
      <4>1. \E G : Greeting(reg, H, d, pub, open, Len(H[d]), 0, SendAll(g, d, items).reg,
                           SendAll(g, d, items).frames, G)
        BY <1>2, <1>4, <3>1, GreetingResynced DEF items
      <4> QED
        BY <4>1 DEF items
    <3> QED
      BY <1>10, <2>2, <3>2
  <2> QED
    BY <1>8, <2>1, <2>2
<1>12. last.frames \in Seq(Frames) /\ first.frames \in Seq(Frames)
  <2>1. first.reg \in Registries /\ first.frames \in Seq(Frames)
    BY <1>11 DEF Greeting
  <2>2. acks \in Seq(Items)
    BY <1>7, ItemTypes, Tuples, EmptySeq
  <2> QED
    BY <1>2, <2>1, <2>2, SendAllType
<1>13. PICK HH : Greeting(reg, H, d, pub, open, a, start, last.reg,
                          first.frames \o last.frames, HH)
  BY <1>2, <1>7, <1>11, GreetingAcks
<1>14. Salt(resumes) \in Frames /\ Salt(resumes).salt /\ Salt(resumes).resumed = resumes
  BY <1>8, ItemTypes DEF Salt
<1> HIDE DEF last
<1>15. /\ down'[c] = down[c] \o <<Salt(resumes)>> \o first.frames \o last.frames
       /\ \A x \in Clients : x # c => down'[x] = down[x]
  BY <1>1, <1>2
<1>16. /\ down'[c] # <<>> /\ down'[c][1] = Salt(resumes)
       /\ Tail(down'[c]) = first.frames \o last.frames
  <2> DEFINE s == Salt(resumes)
             F == first.frames
             L == last.frames
  <2>1. s \in Frames /\ F \in Seq(Frames) /\ L \in Seq(Frames)
    BY <1>12, <1>14
  <2>2. down'[c] = down[c] \o <<s>> \o F \o L
    BY <1>15
  <2> HIDE DEF s, F, L
  <2>3. SaltFirst(s, F \o L, down[c] \o <<s>> \o F \o L)
    BY <1>3, <2>1, BehindSalt
  <2>4. down'[c] # <<>> /\ down'[c][1] = s /\ Tail(down'[c]) = F \o L
    BY <2>2, <2>3 DEF SaltFirst
  <2> QED
    BY <2>4 DEF s, F, L
<1> DEFINE frames == first.frames \o last.frames
<1>17. Greeting(reg, H, DeviceOf[c], published, open, a, start, reg', frames, HH)
  BY <1>1, <1>13 DEF d
<1>18. /\ down'[c] # <<>> /\ Tail(down'[c]) = frames /\ down'[c][1].salt
       /\ IF down'[c][1].resumed THEN start = highest[c] /\ highest[c] # 0 ELSE start = 0
  BY <1>11, <1>14, <1>16
<1> HIDE DEF frames
<1> QED
  BY <1>15, <1>17, <1>18

\* hello.
LEMMA HelloStep ==
  ASSUME Roomy, TypeInv, NEW H \in Histories, IInv(H), NEW c \in Clients,
         NEW acks \in {<<>>, <<Private>>}, Hello(c, acks)
  PROVE  \E HH \in Histories : IInv(HH)'
<1> DEFINE d == DeviceOf[c]
<1>1. /\ sock[c] = "open"
      /\ sock' = [sock EXCEPT ![c] = "auth"] /\ hello' = [hello EXCEPT ![c] = NoHello]
      /\ UNCHANGED <<key, highest, screen, known, rendered, twice, resynced>>
      /\ UNCHANGED <<lost, stale, open, published>>
  BY DEF Hello, clientVars, view
<1>2. /\ d \in Devices /\ ClientOK(c, H) /\ published \in Nat /\ highest[c] \in Nat
      /\ HistoriesOK(H) /\ key[c] \in BOOLEAN
      /\ sock \in [Clients -> {"closed", "open", "auth"}] /\ hello \in [Clients -> Int]
  BY ClientParts, TypeInvParts DEF IInv, ClientTypes
<1>3. down[c] = <<>> /\ key[c] = FALSE
  BY <1>1, <1>2 DEF ClientOK, LinkOK
<1>4. PICK a, start, frames, HH :
        /\ Greeting(reg, H, d, published, open, a, start, reg', frames, HH)
        /\ down'[c] # <<>> /\ Tail(down'[c]) = frames /\ down'[c][1].salt
        /\ IF down'[c][1].resumed THEN start = highest[c] /\ highest[c] # 0 ELSE start = 0
        /\ \A x \in Clients : x # c => down'[x] = down[x]
  BY HelloAnswer
<1>5. /\ Written(H, HH, d, published) /\ HH \in Histories /\ RegOK(reg', HH)
      /\ HistOK(HH[d], published, open) /\ HH[d] # <<>>
      /\ \A y \in Devices : y # d => reg'.out[y] = reg.out[y] /\ HH[y] = H[y]
  BY <1>4 DEF Greeting, Written
<1>6. HistoriesOK(HH)'
  <2>1. ASSUME NEW y \in Devices
        PROVE  HistOK(HH[y], published, open) /\ (reg'.out[y] # NoStream => HH[y] # <<>>)
    BY <1>2, <1>5 DEF HistoriesOK
  <2> QED
    BY <1>1, <2>1 DEF HistoriesOK
<1>7. ClientOK(c, HH)'
  <2>1. ClientInv(H[d], "open", FALSE, <<>>, highest[c], rendered[c], known[c], screen[c],
                  c \in resynced, c \in stale, published)
    BY <1>1, <1>2, <1>3 DEF ClientOK, ClientInv
  <2>2. ClientInv(HH[d], "auth", FALSE, down'[c], highest[c], rendered[c], known[c], screen[c],
                  c \in resynced, c \in stale, published)
    <3> DEFINE res == c \in resynced
               old == c \in stale
               dn  == down'[c]
               hi  == highest[c]
               shown == rendered[c]
               kn == known[c]
               sc == screen[c]
               g2 == reg'
    <3>1. ClientInv(H[d], "open", FALSE, <<>>, hi, shown, kn, sc, res, old, published)
      BY <2>1
    <3>2. /\ Greeting(reg, H, d, published, open, a, start, g2, frames, HH)
          /\ dn # <<>> /\ Tail(dn) = frames /\ dn[1].salt
          /\ IF dn[1].resumed THEN start = hi /\ hi # 0 ELSE start = 0
      BY <1>4
    <3>3. hi \in Nat
      BY <1>2
    <3> HIDE DEF d, res, old, dn, hi, shown, kn, sc, g2
    <3>4. ClientInv(HH[d], "auth", FALSE, dn, hi, shown, kn, sc, res, old, published)
      BY <1>2, <3>1, <3>2, <3>3, ClientGreeted
    <3> QED
      BY <3>4 DEF res, old, dn, hi, shown, kn, sc
  <2>3. sock'[c] = "auth" /\ key'[c] = FALSE
    BY <1>1, <1>2, <1>3
  <2> QED
    BY <1>1, <2>2, <2>3 DEF ClientOK, ClientInv
<1>8. ASSUME NEW x \in Clients, x # c PROVE ClientOK(x, HH)'
  <2>1. ClientOK(x, H) /\ down'[x] = down[x] /\ sock'[x] = sock[x] /\ hello'[x] = hello[x]
    BY <1>1, <1>2, <1>4, <1>8 DEF IInv
  <2> QED
    BY <1>1, <1>2, <1>5, <2>1, OthersKeptByWriting
<1>9. IInv(HH)'
  BY <1>1, <1>5, <1>6, <1>7, <1>8 DEF IInv, DedupExact
<1> QED
  BY <1>5, <1>9

\* Every step keeps the invariant.
LEMMA DeliveryStep ==
  ASSUME Roomy, DeliveryInv, [Next]_vars
  PROVE  DeliveryInv'
<1>1. TypeInv /\ TypeInv'
  BY TypeStep DEF DeliveryInv
<1>2. PICK H \in Histories : IInv(H)
  BY DEF DeliveryInv
<1>3. \E HH \in Histories : IInv(HH)'
  <2>1. ASSUME NEW c \in Clients, ClientStep(c) PROVE \E HH \in Histories : IInv(HH)'
    <3>1. CASE Dial(c)
      BY <1>1, <1>2, <3>1, DialStep
    <3>2. CASE Drop(c)
      BY <1>1, <1>2, <3>2, DropStep
    <3>3. CASE ReceiveSalt(c)
      BY <1>1, <1>2, <3>3, ReceiveSaltStep
    <3>4. CASE ReceiveFrame(c)
      BY <1>1, <1>2, <3>4, ReceiveFrameStep
    <3>5. CASE SendTo(c)
      BY <1>1, <1>2, <3>5, SendToStep
    <3> QED
      BY <2>1, <3>1, <3>2, <3>3, <3>4, <3>5 DEF ClientStep
  <2>2. ASSUME NEW c \in Clients, NEW acks \in {<<>>, <<Private>>}, Hello(c, acks)
        PROVE  \E HH \in Histories : IInv(HH)'
    BY <1>1, <1>2, <2>2, HelloStep
  <2>3. CASE Publish
    BY <1>1, <1>2, <2>3, PublishStep
  <2>4. CASE Restart
    BY <1>1, <1>2, <2>4, RestartStep
  <2>5. CASE UNCHANGED vars
    <3>1. IInv(H)'
      BY <1>2, <2>5 DEF IInv, HistoriesOK, ClientOK, DedupExact, vars, clientVars, view
    <3> QED
      BY <1>2, <3>1
  <2> QED
    BY <2>1, <2>2, <2>3, <2>4, <2>5 DEF Next
<1>4. PICK HH \in Histories : IInv(HH)'
  BY <1>3
<1> QED
  BY <1>1, <1>4 DEF DeliveryInv

\* A client that has read everything it was sent is at the end of its device's history.
LEMMA InvImpliesComplete == DeliveryInv => OwnCheckpointIsComplete
<1> SUFFICES ASSUME DeliveryInv, NEW c \in Clients \ stale, CaughtUp(c)
             PROVE  /\ known[c] = 1..published
                    /\ open \subseteq screen[c]
                    /\ c \in resynced \/ screen[c] = open
  BY DEF OwnCheckpointIsComplete
<1> DEFINE d == DeviceOf[c]
<1>1. PICK H \in Histories : IInv(H)
  BY DEF DeliveryInv
<1>2. /\ TypeInv /\ d \in Devices /\ H[d] \in Seq(Records) /\ highest[c] \in Nat
      /\ down[c] \in Seq(Frames) /\ ClientOK(c, H) /\ HistOK(H[d], published, open)
  BY <1>1, ClientParts DEF DeliveryInv, IInv, HistoriesOK, Histories
<1>3. sock[c] = "auth" /\ key[c] /\ down[c] = <<>>
  BY DEF CaughtUp
<1>4. Chain(H[d], highest[c], <<>>)
  BY <1>2, <1>3 DEF ClientOK, LinkOK, Start, Unread
<1>5. highest[c] \in 1..Len(H[d]) /\ ~InSnapshot(H[d], highest[c]) /\ Quiet(H[d], highest[c])
  BY <1>2, <1>3, <1>4, ChainFirst
<1>6. known[c] \subseteq 1..published
  BY <1>2 DEF ClientOK, LearntOK
<1>7. Synced(H[d], highest[c], known[c], screen[c], c \in resynced)
  <2>1. highest[c] # 0
    BY <1>2, <1>5, LenProperties
  <2> QED
    BY <1>2, <2>1 DEF ClientOK, LearntOK
<1>8. /\ 1..published \subseteq known[c] /\ open \subseteq screen[c]
      /\ c \in resynced \/ screen[c] = open
  <2> DEFINE res == c \in resynced
             hd == H[d]
             hi == highest[c]
  <2>1. /\ hd \in Seq(Records) /\ HistOK(hd, published, open) /\ hi \in 1..Len(hd)
        /\ ~InSnapshot(hd, hi) /\ Quiet(hd, hi) /\ Synced(hd, hi, known[c], screen[c], res)
    BY <1>2, <1>5, <1>7
  <2> HIDE DEF d, res, hd, hi
  <2>2. 1..published \subseteq known[c] /\ open \subseteq screen[c] /\ (res \/ screen[c] = open)
    BY <2>1, SyncedLast
  <2> QED
    BY <2>2 DEF res
<1> QED
  BY <1>6, <1>8

\* Where the replay log has room for every device, the clients' duplicate filter is
\* exact: no frame is dropped as a duplicate and no event is handed to a client twice,
\* whatever connections break, whatever is replayed or resynced, and however often the
\* daemon restarts.
THEOREM DeliveryDedupExact ==
  ASSUME Roomy
  PROVE  Spec => []DedupExact
<1>1. DeliveryInv /\ [Next]_vars => DeliveryInv'
  BY DeliveryStep
<1>2. DeliveryInv => DedupExact
  BY DEF DeliveryInv, IInv
<1> QED
  BY <1>1, <1>2, DeliveryInit, PTL DEF Spec

\* Where the replay log has room for every device, a client that has read everything it
\* was sent, and whose checkpoint the running daemon issued, knows of every event there
\* ever was and shows what is open.
THEOREM DeliveryComplete ==
  ASSUME Roomy
  PROVE  Spec => []OwnCheckpointIsComplete
<1>1. DeliveryInv /\ [Next]_vars => DeliveryInv'
  BY DeliveryStep
<1> QED
  BY <1>1, DeliveryInit, InvImpliesComplete, PTL DEF Spec

=============================================================================
