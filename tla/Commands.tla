------------------------------ MODULE Commands ------------------------------
(***************************************************************************)
(* Commands from the clients of one paired device to the daemon: the       *)
(* sending half of ReliableClient (protocol/src/client.ts, resend.ts), the *)
(* duplicate filter and the cumulative ack of the daemon                   *)
(* (protocol/src/sync.ts, domain/deviceSessions.ts) and the read loop that *)
(* runs them (interface/clientConnection.ts).                              *)
(*                                                                         *)
(* A client is one ReliableClient: the phone's, or that of one `cc'        *)
(* process.  The clients of a device share its sequence of command         *)
(* numbers, the daemon's filter and its ack level.  A command is its       *)
(* number.  What the daemon sends is reduced to session_salt and acks; how *)
(* events travel that way is the subject of Delivery.                      *)
(***************************************************************************)
EXTENDS Integers, SequencesExt

CONSTANTS
  Clients,      \* the clients of the device
  Capacity,     \* ResendBuffer.capacity
  SeenMax,      \* InboundStream: the filter is pruned when it holds more than this
  SeenKeep,     \* InboundStream: pruning keeps this many numbers below the highest
  Behaviours,   \* which of BehaviourKinds may happen
  MaxSeq,       \* bound: commands issued
  MaxDrops,     \* bound: lost connections
  MaxRestarts   \* bound: daemon restarts

\* "read": commands that are not reliable are sent too; "overflow": the host sends
\* writes while the buffer is full; "throw": a handler throws; "late": the daemon
\* still reads a connection its client has given up; "quit": a client process ends.
BehaviourKinds == {"read", "overflow", "throw", "late", "quit"}

ASSUME CommandsAssumption ==
  /\ Capacity \in Nat \ {0}
  /\ SeenKeep \in Nat /\ SeenMax \in Nat
  /\ Behaviours \subseteq BehaviourKinds
  /\ {MaxSeq, MaxDrops, MaxRestarts} \subseteq Nat

VARIABLES
  outSeq,    \* the last number reserved for the device, kept on disk
  link,      \* the client's side of its connection
  buffer,    \* ResendBuffer.pendingCmds
  maxAcked,  \* ReliableClient.maxAcked
  up,        \* frames on their way to the daemon; Hello is 0
  down,      \* frames on their way to the client
  late,      \* frames on a connection the client no longer has
  authed,    \* clients whose connection the hub knows
  seen,      \* InboundStream.seen of the device
  highest,   \* InboundStream.highest
  through,   \* processed.through
  ahead,     \* processed.ahead
  ran,       \* history: commands given to handleCommand by this daemon process
  done,      \* history: commands some handler completed, in any daemon process
  writes,    \* history: reliable commands the client accepted from its host
  drops, restarts   \* history: how much of each bound is used

clientVars == <<link, buffer, maxAcked, writes>>
filter     == <<seen, highest>>
level      == <<through, ahead>>
daemonVars == <<filter, level, ran, done>>
bounds     == <<drops, restarts>>
vars == <<outSeq, clientVars, up, down, late, authed, daemonVars, bounds>>

Seqs  == 1..MaxSeq
Hello == 0
Salt  == [type |-> "salt", upTo |-> 0]
Ack(n) == [type |-> "ack", upTo |-> n]

Init ==
  /\ outSeq = 0
  /\ link = [c \in Clients |-> "closed"]
  /\ buffer = [c \in Clients |-> {}]
  /\ maxAcked = [c \in Clients |-> 0]
  /\ up = [c \in Clients |-> <<>>]
  /\ down = [c \in Clients |-> <<>>]
  /\ late = [c \in Clients |-> <<>>]
  /\ authed = {}
  /\ seen = {} /\ highest = 0
  /\ through = 0 /\ ahead = {}
  /\ ran = <<>>
  /\ done = {}
  /\ writes = [c \in Clients |-> {}]
  /\ drops = 0 /\ restarts = 0

----------------------------------------------------------------------------
(* The client.                                                             *)

\* reserveOutSeq, one number at a time across every process of the device.
Reserve ==
  /\ outSeq < MaxSeq
  /\ outSeq' = outSeq + 1

\* A frame leaves at once when there is a key, and not at all when there is none.
Transmit(c, s) ==
  up' = IF link[c] = "ready" THEN [up EXCEPT ![c] = Append(@, s)] ELSE up

\* send of a write: into the buffer, then out.
SendWrite(c) ==
  /\ link[c] # "gone"
  /\ Cardinality(buffer[c]) < Capacity
  /\ Reserve
  /\ buffer' = [buffer EXCEPT ![c] = @ \cup {outSeq'}]
  /\ writes' = [writes EXCEPT ![c] = @ \cup {outSeq'}]
  /\ Transmit(c, outSeq')
  /\ UNCHANGED <<link, maxAcked, down, late, authed, daemonVars, bounds>>

\* send of a write while the buffer is full: ResendOverflowError, once the number
\* has been drawn.
SendRefused(c) ==
  /\ "overflow" \in Behaviours
  /\ link[c] # "gone"
  /\ Cardinality(buffer[c]) >= Capacity
  /\ Reserve
  /\ UNCHANGED <<clientVars, up, down, late, authed, daemonVars, bounds>>

\* send of a read: not buffered, and dropped while there is no connection.
SendRead(c) ==
  /\ "read" \in Behaviours
  /\ link[c] # "gone"
  /\ Reserve
  /\ Transmit(c, outSeq')
  /\ UNCHANGED <<clientVars, down, late, authed, daemonVars, bounds>>

\* onOpen.
Open(c) ==
  /\ link[c] = "closed"
  /\ link' = [link EXCEPT ![c] = "open"]
  /\ up' = [up EXCEPT ![c] = <<Hello>>]
  /\ UNCHANGED <<outSeq, buffer, maxAcked, writes, down, late, authed, daemonVars, bounds>>

Ascending(q) == \A i, j \in DOMAIN q : i < j => q[i] < q[j]

\* pending: the unacked writes, in ascending order.
Pending(c) ==
  CHOOSE q \in [1..Cardinality(buffer[c]) -> buffer[c]] : Ascending(q)

\* Mutant: the host's own commands go out, the unacked ones do not.
ReceiveSalt_NoResend(c) ==
  /\ link[c] = "open"
  /\ down[c] # <<>> /\ Head(down[c]) = Salt
  /\ link' = [link EXCEPT ![c] = "ready"]
  /\ down' = [down EXCEPT ![c] = Tail(@)]
  /\ UNCHANGED <<outSeq, buffer, maxAcked, writes, up, late, authed, daemonVars, bounds>>

\* Mutant: the unacked writes are resent newest first.
ReceiveSalt_NewestFirst(c) ==
  /\ link[c] = "open"
  /\ down[c] # <<>> /\ Head(down[c]) = Salt
  /\ link' = [link EXCEPT ![c] = "ready"]
  /\ down' = [down EXCEPT ![c] = Tail(@)]
  /\ up' = [up EXCEPT ![c] = @ \o Reverse(Pending(c))]
  /\ UNCHANGED <<outSeq, buffer, maxAcked, writes, late, authed, daemonVars, bounds>>

\* onSessionSalt: every unacked write is resent at its original number, before
\* anything the host sends next.
ReceiveSalt(c) ==
  /\ link[c] = "open"
  /\ down[c] # <<>> /\ Head(down[c]) = Salt
  /\ link' = [link EXCEPT ![c] = "ready"]
  /\ down' = [down EXCEPT ![c] = Tail(@)]
  /\ up' = [up EXCEPT ![c] = @ \o Pending(c)]
  /\ UNCHANGED <<outSeq, buffer, maxAcked, writes, late, authed, daemonVars, bounds>>

\* Mutant: an ack empties the buffer.
ReceiveAck_DropsAll(c) ==
  /\ link[c] = "ready"
  /\ down[c] # <<>>
  /\ LET n == Head(down[c]).upTo IN
       /\ maxAcked' = [maxAcked EXCEPT ![c] = IF n > @ THEN n ELSE @]
       /\ buffer' = [buffer EXCEPT ![c] = {}]
  /\ down' = [down EXCEPT ![c] = Tail(@)]
  /\ UNCHANGED <<outSeq, link, writes, up, late, authed, daemonVars, bounds>>

\* onMessage of an ack.
ReceiveAck(c) ==
  /\ link[c] = "ready"
  /\ down[c] # <<>>
  /\ LET n == Head(down[c]).upTo IN
       /\ maxAcked' = [maxAcked EXCEPT ![c] = IF n > @ THEN n ELSE @]
       /\ buffer' = [buffer EXCEPT ![c] = {s \in @ : s > n}]
  /\ down' = [down EXCEPT ![c] = Tail(@)]
  /\ UNCHANGED <<outSeq, link, writes, up, late, authed, daemonVars, bounds>>

----------------------------------------------------------------------------
(* The daemon.                                                             *)

\* Mutant: the ack level is sent with the next command only.
DaemonHello_NoAck(c) ==
  /\ up[c] # <<>> /\ Head(up[c]) = Hello
  /\ authed' = authed \cup {c}
  /\ up' = [up EXCEPT ![c] = Tail(@)]
  /\ down' = [down EXCEPT ![c] = Append(@, Salt)]
  /\ UNCHANGED <<outSeq, clientVars, late, daemonVars, bounds>>

\* hello: the salt, and last the ack level, unless it is 0.
DaemonHello(c) ==
  /\ up[c] # <<>> /\ Head(up[c]) = Hello
  /\ authed' = authed \cup {c}
  /\ up' = [up EXCEPT ![c] = Tail(@)]
  /\ down' = [down EXCEPT ![c] = @ \o IF through > 0 THEN <<Salt, Ack(through)>> ELSE <<Salt>>]
  /\ UNCHANGED <<outSeq, clientVars, late, daemonVars, bounds>>

\* InboundStream.accept, when it refuses.
Duplicate(s) == s <= highest /\ s \in seen

\* Mutant: pruning forgets the numbers the clients may still resend.
Remember_PrunesAll(s) ==
  /\ highest' = IF s > highest THEN s ELSE highest
  /\ seen' = IF Cardinality(seen \cup {s}) > SeenMax THEN {s} ELSE seen \cup {s}

\* InboundStream.accept, when it accepts.
Remember(s) ==
  /\ highest' = IF s > highest THEN s ELSE highest
  /\ seen' = IF Cardinality(seen \cup {s}) > SeenMax
             THEN {x \in seen \cup {s} : x >= highest' - SeenKeep}
             ELSE seen \cup {s}

\* Mutant: a high-water mark.
MarkProcessed_HighWater(s) ==
  /\ through' = IF s > through THEN s ELSE through
  /\ UNCHANGED ahead

\* markProcessed: the level only moves over an unbroken run of successes.
MarkProcessed(s) ==
  \/ /\ s = through + 1
     /\ \E n \in s..MaxSeq :
          /\ (s + 1)..n \subseteq ahead
          /\ n + 1 \notin ahead
          /\ through' = n
          /\ ahead' = ahead \ (s..n)
  \/ /\ s > through + 1
     /\ ahead' = ahead \cup {s}
     /\ UNCHANGED through
  \/ /\ s <= through
     /\ UNCHANGED level

\* A command that is no duplicate is remembered and given to its handler; one that
\* throws stays remembered and is not marked.
Run(s) ==
  /\ Remember(s)
  /\ ran' = Append(ran, s)
  /\ \/ MarkProcessed(s) /\ done' = done \cup {s}
     \/ "throw" \in Behaviours /\ UNCHANGED <<level, done>>

\* The read loop: a duplicate is dropped, anything else run and answered with the
\* ack level, unless it is 0.
DaemonFrame(c) ==
  /\ c \in authed /\ up[c] # <<>>
  /\ up' = [up EXCEPT ![c] = Tail(@)]
  /\ LET s == Head(up[c]) IN
       \/ Duplicate(s) /\ UNCHANGED <<daemonVars, down>>
       \/ /\ ~Duplicate(s)
          /\ Run(s)
          /\ down' = [down EXCEPT ![c] = IF through' > 0 THEN Append(@, Ack(through')) ELSE @]
  /\ UNCHANGED <<outSeq, clientVars, late, authed, bounds>>

\* The same on a connection whose client is gone: the ack reaches nobody.
LateFrame(c) ==
  /\ late[c] # <<>>
  /\ late' = [late EXCEPT ![c] = Tail(@)]
  /\ LET s == Head(late[c]) IN
       \/ Duplicate(s) /\ UNCHANGED daemonVars
       \/ ~Duplicate(s) /\ Run(s)
  /\ UNCHANGED <<outSeq, clientVars, up, down, authed, bounds>>

----------------------------------------------------------------------------
(* Faults.                                                                 *)

\* The connection is over for the client.  Frames the daemon's host already has,
\* or will still get, are read in their own time; the rest is lost.
LoseConnection(c) ==
  /\ up' = [up EXCEPT ![c] = <<>>]
  /\ down' = [down EXCEPT ![c] = <<>>]
  /\ authed' = authed \ {c}
  /\ \/ UNCHANGED late
     \/ /\ "late" \in Behaviours
        /\ c \in authed /\ late[c] = <<>>
        /\ \E k \in 1..Len(up[c]) : late' = [late EXCEPT ![c] = SubSeq(up[c], 1, k)]

\* onClose: buffer and maxAcked survive.
Drop(c) ==
  /\ link[c] \in {"open", "ready"}
  /\ drops < MaxDrops
  /\ drops' = drops + 1
  /\ link' = [link EXCEPT ![c] = "closed"]
  /\ LoseConnection(c)
  /\ UNCHANGED <<outSeq, buffer, maxAcked, writes, daemonVars, restarts>>

\* A cc process exits: its command is confirmed or refused, it gave up, or it was
\* interrupted.
Quit(c) ==
  /\ "quit" \in Behaviours
  /\ link[c] # "gone"
  /\ link' = [link EXCEPT ![c] = "gone"]
  /\ LoseConnection(c)
  /\ UNCHANGED <<outSeq, buffer, maxAcked, writes, daemonVars, bounds>>

\* The daemon dies and is started again: the registry is a new one, and every
\* client loses its connection.
Restart ==
  /\ restarts < MaxRestarts
  /\ restarts' = restarts + 1
  /\ seen' = {} /\ highest' = 0
  /\ through' = 0 /\ ahead' = {}
  /\ ran' = <<>>
  /\ link' = [c \in Clients |-> IF link[c] = "gone" THEN "gone" ELSE "closed"]
  /\ up' = [c \in Clients |-> <<>>]
  /\ down' = [c \in Clients |-> <<>>]
  /\ late' = [c \in Clients |-> <<>>]
  /\ authed' = {}
  /\ UNCHANGED <<outSeq, buffer, maxAcked, writes, done, drops>>

Next ==
  \/ \E c \in Clients :
       \/ SendWrite(c) \/ SendRefused(c) \/ SendRead(c)
       \/ Open(c) \/ ReceiveSalt(c) \/ ReceiveAck(c)
       \/ DaemonHello(c) \/ DaemonFrame(c) \/ LateFrame(c)
       \/ Drop(c) \/ Quit(c)
  \/ Restart

Spec == Init /\ [][Next]_vars

\* The client reconnects and reads its socket, and so does the daemon.
Fairness ==
  \A c \in Clients :
    /\ WF_vars(Open(c)) /\ WF_vars(ReceiveSalt(c)) /\ WF_vars(ReceiveAck(c))
    /\ WF_vars(DaemonHello(c)) /\ WF_vars(DaemonFrame(c)) /\ WF_vars(LateFrame(c))

FairSpec == Spec /\ Fairness

----------------------------------------------------------------------------
(* Properties.                                                             *)

\* An ack is never false: whatever threw, was lost, resent or came late, and
\* whoever of the device's clients sent it, every command up to an acked number
\* was completed by a handler.
NoFalseAck == \A c \in Clients : 1..maxAcked[c] \subseteq done

\* "Everything buffered will be delivered": a write the client took from its host
\* leaves the buffer only when a handler has completed it.
NothingLost == \A c \in Clients : writes[c] \subseteq buffer[c] \cup done

\* "A resend is never re-executed": one daemon process gives a command to its
\* handler at most once.
AtMostOnce == \A i, j \in 1..Len(ran) : i # j => ran[i] # ran[j]

\* The writes of one client run once each and in the order in which its host issued
\* them, across reconnects, resends and frames that come late.
InOrder ==
  \A c \in Clients : \A i, j \in 1..Len(ran) :
    i < j /\ {ran[i], ran[j]} \subseteq writes[c] => ran[i] < ran[j]

\* Once nothing is in flight, a connected client holds no command that the ack
\* level already covers: no ack it needs went to somebody else or to nobody.
NoLostAck ==
  \A c \in Clients :
    link[c] = "ready" /\ up[c] = <<>> /\ down[c] = <<>> /\ late[c] = <<>>
      => \A s \in buffer[c] : s > through

\* A number the ack level waits for in vain: this daemon process has seen it and its
\* handler threw, or nobody will send it (again).
Missing(k) ==
  /\ k > through /\ k \notin ahead
  /\ \A c \in Clients : \A i \in 1..Len(up[c]) : up[c][i] # k
  /\ k \in seen \/ \A c \in Clients : k \notin buffer[c]

\* Once connections stop breaking, every write of a lasting client is confirmed, and
\* for good, unless the cumulative level waits in vain for a number below it.
EventuallyConfirmed ==
  \A c \in Clients : \A s \in Seqs :
    s \in buffer[c] ~>
      [](s \notin buffer[c] \/ link[c] = "gone" \/ \E k \in 1..s : Missing(k))

=============================================================================
