------------------------------ MODULE Delivery ------------------------------
(***************************************************************************)
(* Events from the daemon to its clients: the per-device sequence counter  *)
(* and replay log (domain/deviceSessions.ts, domain/replay.ts), the hub    *)
(* that seals and writes frames (interface/clientHub.ts), the hello that   *)
(* resumes or resyncs a client (interface/clientConnection.ts), and the    *)
(* receiving half of ReliableClient (protocol/src/client.ts, sync.ts), and *)
(* the approvals on the phone's screen (mobile/src/core/state/             *)
(* fleetState.ts), which are folded from those events.                     *)
(*                                                                         *)
(* A client is one process with at most one connection; several clients    *)
(* may share one paired device, and then share its sequence.  Broadcast    *)
(* events are numbered in the order they happen; each opens an approval or *)
(* resolves the open one.  A snapshot is the session list, the open        *)
(* approval and the jobs; with its last frame the client has learnt of     *)
(* every event so far.                                                     *)
(***************************************************************************)
EXTENDS Integers, FiniteSets, SequencesExt

CONSTANTS
  Clients,        \* client processes
  Devices,        \* paired devices
  DeviceOf,       \* the device each client authenticates as
  MaxEvents,      \* maxEventsPerDevice of the replay log
  MaxDevices,     \* maxDevices of the replay log
  MaxPublished,   \* bound: broadcast events
  MaxPrivate,     \* bound: replies and acks to one socket
  MaxDrops,       \* bound: lost connections
  MaxRestarts     \* bound: daemon restarts

ASSUME DeliveryAssumption ==
  /\ IsFiniteSet(Devices)
  /\ DeviceOf \in [Clients -> Devices]
  /\ MaxEvents \in Nat \ {0}
  /\ MaxDevices \in Nat \ {0}
  /\ {MaxPublished, MaxPrivate, MaxDrops, MaxRestarts} \subseteq Nat

VARIABLES
  reg,        \* the registry: out, log and lru, see NewRegistry
  sock,       \* [Clients -> {"closed", "open", "auth"}]
  hello,      \* lastSeq of the hello on its way; NoHello when there is none
  down,       \* frames on their way to the client
  key,        \* the client has the session key of this connection
  highest,    \* InboundStream.highest
  seen,       \* InboundStream.seen
  open,       \* broker.list(): the open approval, named by the event that opened it
  screen,     \* FleetState.approvals
  published,  \* history: number of events broadcast so far
  known,      \* history: events the client learnt, as such or in a snapshot
  rendered,   \* history: events handed to onEvent as such
  twice,      \* history: clients that were handed one event twice
  lost,       \* history: clients that dropped a frame as a duplicate
  resynced,   \* history: clients resynced with approvals on their screen
  stale,      \* history: clients whose checkpoint an earlier daemon process issued
  privates, drops, restarts   \* history: how much of each bound is used

view       == <<screen, known, rendered, twice, resynced>>
clientVars == <<key, highest, seen, view, lost, stale>>
bounds     == <<privates, drops, restarts>>
vars == <<reg, sock, hello, down, clientVars, open, published, bounds>>

NoStream == -1
NoHello  == -1

\* out: the OutboundStream of each device, or NoStream; log: its replay entries;
\* lru: the devices with a log, the one seen longest ago first.
NewRegistry == [out |-> [d \in Devices |-> NoStream],
                log |-> [d \in Devices |-> <<>>],
                lru |-> <<>>]

\* n: the number of a broadcast event; of the last frame of a snapshot, how many it covers.
Pending(n, a)  == [kind |-> "pending", n |-> n, approval |-> a]
Resolved(n, a) == [kind |-> "resolved", n |-> n, approval |-> a]
Sessions       == [kind |-> "sessions", n |-> 0, approval |-> 0]
Jobs(n)        == [kind |-> "jobs", n |-> n, approval |-> 0]
Private        == [kind |-> "private", n |-> 0, approval |-> 0]
Frame(seq, item) == [salt |-> FALSE, resumed |-> FALSE, seq |-> seq, item |-> item]
Salt(resumed)    == [salt |-> TRUE, resumed |-> resumed, seq |-> 0, item |-> Private]

Init ==
  /\ reg = NewRegistry
  /\ sock = [c \in Clients |-> "closed"]
  /\ hello = [c \in Clients |-> NoHello]
  /\ down = [c \in Clients |-> <<>>]
  /\ key = [c \in Clients |-> FALSE]
  /\ highest = [c \in Clients |-> 0]
  /\ seen = [c \in Clients |-> {}]
  /\ open = {} /\ screen = [c \in Clients |-> {}]
  /\ published = 0
  /\ known = [c \in Clients |-> {}]
  /\ rendered = [c \in Clients |-> {}]
  /\ twice = {}
  /\ lost = {}
  /\ resynced = {} /\ stale = {}
  /\ privates = 0 /\ drops = 0 /\ restarts = 0

----------------------------------------------------------------------------
(* DeviceSessionRegistry and DeviceReplayLog.                              *)

\* Mutant: the log grows one entry past its cap.
Keep_OneTooMany(log) ==
  SubSeq(log, Len(log) - (IF Len(log) > MaxEvents THEN MaxEvents + 1 ELSE Len(log)) + 1, Len(log))

\* push and splice: the newest MaxEvents entries.
Keep(log) ==
  SubSeq(log, Len(log) - (IF Len(log) > MaxEvents THEN MaxEvents ELSE Len(log)) + 1, Len(log))

\* Map.delete: the device leaves, the others keep their order.
Without(lru, d) ==
  IF \E i \in 1..Len(lru) : lru[i] = d
    THEN LET at == CHOOSE i \in 1..Len(lru) : lru[i] = d
         IN SubSeq(lru, 1, at - 1) \o SubSeq(lru, at + 1, Len(lru))
    ELSE lru

Evict(g, d) == [out |-> [g.out EXCEPT ![d] = NoStream],
                log |-> [g.log EXCEPT ![d] = <<>>],
                lru |-> Without(g.lru, d)]

\* The seq the device's OutboundStream draws next; a device without one gets one.
NextSeq(g, d) == (IF g.out[d] = NoStream THEN 0 ELSE g.out[d]) + 1

\* recordSent: draw the device's next seq and log the event under it; a device
\* that enters the log may push the least recently seen one out of both maps.
RecordSent(g, d, item) ==
  LET seq    == NextSeq(g, d)
      enters == g.log[d] = <<>>
      lru    == IF enters THEN Append(g.lru, d) ELSE g.lru
      g1     == [out |-> [g.out EXCEPT ![d] = seq],
                 log |-> [g.log EXCEPT ![d] = Keep(Append(@, [seq |-> seq, item |-> item]))],
                 lru |-> lru]
  IN IF enters /\ Len(lru) > MaxDevices THEN Evict(g1, Head(lru)) ELSE g1

\* outboundFor and touch, as resumeFor calls them.
Touch(g, d) ==
  [out |-> [g.out EXCEPT ![d] = IF @ = NoStream THEN 0 ELSE @],
   log |-> g.log,
   lru |-> IF g.log[d] = <<>> THEN g.lru
           ELSE Append(Without(g.lru, d), d)]

\* Mutant: off by one, a log that starts one event too late still resumes.
Gap_OffByOne(g, d, lastSeq) ==
  \/ lastSeq > g.out[d]
  \/ /\ lastSeq < g.out[d]
     /\ g.log[d] = <<>> \/ lastSeq + 2 < g.log[d][1].seq

\* replayFrom: may the client that saw lastSeq be replayed what it missed?
Gap(g, d, lastSeq) ==
  \/ lastSeq > g.out[d]
  \/ /\ lastSeq < g.out[d]
     /\ g.log[d] = <<>> \/ lastSeq + 1 < g.log[d][1].seq

\* resumeFor: a full resync for a client with no lastSeq, for a device this
\* process never sent to, and for a gap.
Resumes(g, d, lastSeq) ==
  /\ lastSeq # 0
  /\ g.out[d] # NoStream
  /\ ~Gap(g, d, lastSeq)

\* The frames after lastSeq, at their original seqs.  The log is ascending, so what
\* filter keeps of it is a suffix.
Replayed(g, d, lastSeq) ==
  LET log  == g.log[d]
      skip == CHOOSE k \in 0..Len(log) :
                \A i \in 1..Len(log) : log[i].seq > lastSeq <=> i > k
  IN [i \in 1..Len(log) - skip |-> Frame(log[skip + i].seq, log[skip + i].item)]

\* recordSent for a list of devices and items, one after the other: the registry
\* before the first, and after each.
Recording(g, todo) ==
  LET r[i \in 0..Len(todo)] ==
        IF i = 0 THEN g ELSE RecordSent(r[i - 1], todo[i].device, todo[i].item)
  IN r

\* sendSealed for a list of items: the registry after them and the frames they became.
SendAll(g, d, items) ==
  LET r == Recording(g, [i \in 1..Len(items) |-> [device |-> d, item |-> items[i]]])
  IN [reg |-> r[Len(items)],
      frames |-> [i \in 1..Len(items) |-> Frame(NextSeq(r[i - 1], d), items[i])]]

\* snapshot(): sessions, open approvals (there is at most one here), jobs.
Snapshot ==
  IF open = {} THEN <<Sessions, Jobs(published)>>
  ELSE <<Sessions, Pending(0, CHOOSE a \in open : TRUE), Jobs(published)>>

----------------------------------------------------------------------------
(* The daemon.                                                             *)

\* hello: resume or resync, then an ack if commands of this device were handled.
Hello(c, acks) ==
  LET d       == DeviceOf[c]
      g       == Touch(reg, d)
      resumes == Resumes(reg, d, hello[c])
      first   == IF resumes THEN [reg |-> g, frames |-> Replayed(g, d, hello[c])]
                            ELSE SendAll(g, d, Snapshot)
      last    == SendAll(first.reg, d, acks)
  IN
  /\ sock[c] = "open" /\ hello[c] # NoHello
  /\ sock' = [sock EXCEPT ![c] = "auth"]
  /\ hello' = [hello EXCEPT ![c] = NoHello]
  /\ reg' = last.reg
  /\ down' = [down EXCEPT ![c] = @ \o <<Salt(resumes)>> \o first.frames \o last.frames]
  /\ privates + Len(acks) <= MaxPrivate
  /\ privates' = privates + Len(acks)
  /\ UNCHANGED <<clientVars, open, published, drops, restarts>>

Connected == {DeviceOf[c] : c \in {x \in Clients : sock[x] = "auth"}}

\* One broadcast event recorded for the devices of a list in turn: the registry
\* before the first, and after each.
RecordFor(g, devs, item) ==
  Recording(g, [i \in 1..Len(devs) |-> [device |-> devs[i], item |-> item]])

\* broadcast: one seq per connected device, written to each of its sockets;
\* then the devices known but offline record it too.
Broadcast(item) ==
  \E online \in SetToSeqs(Connected) :
    LET live  == RecordFor(reg, online, item)
        after == live[Len(online)]
        at(d) == CHOOSE i \in 1..Len(online) : online[i] = d
        seq(d) == NextSeq(live[at(d) - 1], d)
    IN
    \E offline \in SetToSeqs({d \in Devices : after.out[d] # NoStream} \ Connected) :
      /\ reg' = RecordFor(after, offline, item)[Len(offline)]
      /\ down' = [c \in Clients |->
           IF sock[c] = "auth" THEN Append(down[c], Frame(seq(DeviceOf[c]), item))
                               ELSE down[c]]

\* The broker's listeners: an approval opens, or the open one is resolved.
Publish ==
  /\ published < MaxPublished
  /\ published' = published + 1
  /\ \/ open = {} /\ open' = {published'} /\ Broadcast(Pending(published', published'))
     \/ \E a \in open : open' = {} /\ Broadcast(Resolved(published', a))
  /\ UNCHANGED <<sock, hello, clientVars, bounds>>

\* sendTo: a reply or an ack to one socket.
SendTo(c) ==
  /\ sock[c] = "auth"
  /\ privates < MaxPrivate
  /\ privates' = privates + 1
  /\ LET sent == SendAll(reg, DeviceOf[c], <<Private>>) IN
       /\ reg' = sent.reg
       /\ down' = [down EXCEPT ![c] = @ \o sent.frames]
  /\ UNCHANGED <<sock, hello, clientVars, open, published, drops, restarts>>

\* Everything in memory is gone and every connection with it.
Restart ==
  /\ restarts < MaxRestarts
  /\ restarts' = restarts + 1
  /\ reg' = NewRegistry
  /\ sock' = [c \in Clients |-> "closed"]
  /\ hello' = [c \in Clients |-> NoHello]
  /\ down' = [c \in Clients |-> <<>>]
  /\ key' = [c \in Clients |-> FALSE]
  /\ stale' = stale \cup {c \in Clients : highest[c] > 0}
  /\ open' = {}
  /\ UNCHANGED <<highest, seen, view, lost, published, privates, drops>>

----------------------------------------------------------------------------
(* ReliableClient, and the network.                                        *)

\* Mutant: a client that has a checkpoint does not reconnect.
Dial_Once(c) ==
  /\ sock[c] = "closed"
  /\ highest[c] = 0
  /\ sock' = [sock EXCEPT ![c] = "open"]
  /\ hello' = [hello EXCEPT ![c] = highest[c]]
  /\ UNCHANGED <<reg, down, clientVars, open, published, bounds>>

\* onOpen: a hello that asks to resume from the checkpoint; no lastSeq when it
\* is zero.
Dial(c) ==
  /\ sock[c] = "closed"
  /\ sock' = [sock EXCEPT ![c] = "open"]
  /\ hello' = [hello EXCEPT ![c] = highest[c]]
  /\ UNCHANGED <<reg, down, clientVars, open, published, bounds>>

\* The connection is lost, or the daemon drops it for its backlog: what was on
\* its way is gone and onClose forgets the key.
Drop(c) ==
  /\ sock[c] # "closed"
  /\ drops < MaxDrops
  /\ drops' = drops + 1
  /\ sock' = [sock EXCEPT ![c] = "closed"]
  /\ hello' = [hello EXCEPT ![c] = NoHello]
  /\ down' = [down EXCEPT ![c] = <<>>]
  /\ key' = [key EXCEPT ![c] = FALSE]
  /\ UNCHANGED <<reg, highest, seen, view, lost, stale, open, published, privates, restarts>>

\* Mutant: the inbound stream survives a full resync.
ReceiveSalt_KeepsStream(c) ==
  /\ down[c] # <<>> /\ Head(down[c]).salt
  /\ ~key[c]
  /\ key' = [key EXCEPT ![c] = TRUE]
  /\ down' = [down EXCEPT ![c] = Tail(@)]
  /\ UNCHANGED <<reg, sock, hello, highest, seen, view, lost, stale, open, published, bounds>>

\* onSessionSalt: a full resync starts the inbound stream afresh.
ReceiveSalt(c) ==
  /\ down[c] # <<>> /\ Head(down[c]).salt
  /\ ~key[c]
  /\ key' = [key EXCEPT ![c] = TRUE]
  /\ IF Head(down[c]).resumed THEN UNCHANGED <<highest, seen, stale, resynced>>
     ELSE /\ highest' = [highest EXCEPT ![c] = 0]
          /\ seen' = [seen EXCEPT ![c] = {}]
          /\ stale' = stale \ {c}
          /\ resynced' = IF screen[c] = {} THEN resynced ELSE resynced \cup {c}
  /\ down' = [down EXCEPT ![c] = Tail(@)]
  /\ UNCHANGED <<reg, sock, hello, screen, known, rendered, twice, lost, open, published, bounds>>

\* What an item tells a client that did not know it.
Learnt(item) ==
  IF item.kind = "jobs" THEN 1..item.n ELSE {item.n} \ {0}

\* applyEvent: what an event does to the approvals on the screen.  No event clears them.
ApplyEvent(approvals, item) ==
  CASE item.kind = "pending" -> approvals \cup {item.approval}
    [] item.kind = "resolved" -> approvals \ {item.approval}
    [] OTHER -> approvals

IsEvent(item) == item.kind \in {"pending", "resolved"} /\ item.n # 0

\* InboundStream.accept: a seq already seen is a duplicate.  The pruning of `seen' beyond
\* 5000 numbers is left out: it forgets only numbers 2000 below `highest', which no
\* behaviour within the bounds reaches (Commands has the pruning).
Duplicate(c, seq) == seq <= highest[c] /\ seq \in seen[c]

\* onMessage once the key is there: drop a duplicate, or accept and hand it on.
ReceiveFrame(c) ==
  /\ down[c] # <<>> /\ ~Head(down[c]).salt
  /\ key[c]
  /\ LET f == Head(down[c]) IN
       IF Duplicate(c, f.seq)
       THEN /\ lost' = lost \cup {c}
            /\ UNCHANGED <<highest, seen, screen, known, rendered, twice>>
       ELSE /\ seen' = [seen EXCEPT ![c] = @ \cup {f.seq}]
            /\ highest' = [highest EXCEPT ![c] = IF f.seq > @ THEN f.seq ELSE @]
            /\ known' = [known EXCEPT ![c] = @ \cup Learnt(f.item)]
            /\ screen' = [screen EXCEPT ![c] = ApplyEvent(@, f.item)]
            /\ rendered' = IF ~IsEvent(f.item) THEN rendered
                           ELSE [rendered EXCEPT ![c] = @ \cup {f.item.n}]
            /\ twice' = IF IsEvent(f.item) /\ f.item.n \in rendered[c]
                        THEN twice \cup {c} ELSE twice
            /\ UNCHANGED lost
  /\ down' = [down EXCEPT ![c] = Tail(@)]
  /\ UNCHANGED <<reg, sock, hello, key, stale, resynced, open, published, bounds>>

ClientStep(c) == Dial(c) \/ Drop(c) \/ ReceiveSalt(c) \/ ReceiveFrame(c) \/ SendTo(c)

Next ==
  \/ \E c \in Clients :
       ClientStep(c) \/ \E acks \in {<<>>, <<Private>>} : Hello(c, acks)
  \/ Publish
  \/ Restart

Spec == Init /\ [][Next]_vars

\* What Hello does to the socket: a step of Next that does this is a Hello(c, acks).
Answered(c) ==
  /\ sock[c] = "open" /\ hello[c] # NoHello
  /\ sock' = [sock EXCEPT ![c] = "auth"]

\* Clients redial, and what is written on a live connection is handled.  Drops
\* and restarts are not owed, and the bounds make them cease.
Fairness ==
  \A c \in Clients :
    /\ WF_vars(Dial(c)) /\ WF_sock(Answered(c))
    /\ WF_vars(ReceiveSalt(c)) /\ WF_vars(ReceiveFrame(c))

FairSpec == Spec /\ Fairness

----------------------------------------------------------------------------
(* Properties.                                                             *)

\* The replay log of a device is an unbroken run of seqs that ends at the
\* device's counter, so `oldest' in replayFrom is really the oldest it can serve.
LogIsContiguous ==
  \A d \in Devices : LET log == reg.log[d] IN
    /\ Len(log) <= MaxEvents
    /\ log # <<>> => reg.out[d] = log[Len(log)].seq
    /\ \A i \in 1..Len(log) - 1 : log[i + 1].seq = log[i].seq + 1

\* The type of the replay logs, which are contiguous, of the sequence counters and of
\* what clients learnt.
TypeOK ==
  /\ reg.out \in [Devices -> Int]
  /\ \A d \in Devices : \A i \in 1..Len(reg.log[d]) : reg.log[d][i].seq \in Nat
  /\ LogIsContiguous
  /\ sock \in [Clients -> {"closed", "open", "auth"}]
  /\ hello \in [Clients -> Int]
  /\ key \in [Clients -> BOOLEAN]
  /\ highest \in [Clients -> Nat]
  /\ seen \in [Clients -> SUBSET Nat]
  /\ published \in 0..MaxPublished
  /\ {known, screen} \subseteq [Clients -> SUBSET (1..MaxPublished)]

\* Nothing is in flight to a client that completed its handshake.
CaughtUp(c) == sock[c] = "auth" /\ key[c] /\ down[c] = <<>>

\* A client that looks up to date is: whatever connections broke, whatever it
\* was replayed or resynced, it learnt every event there ever was.
CaughtUpIsComplete ==
  \A c \in Clients : CaughtUp(c) => known[c] = 1..published

\* The same for a client whose checkpoint was issued by the running daemon process:
\* neither broken connections, nor other processes of the device, nor the end of the
\* replay log, nor a restart it was resynced after leave it with a hole.  And its screen
\* is right: it shows every open approval, and no other, except that what was on it
\* before a full resync may stay for ever.
OwnCheckpointIsComplete ==
  \A c \in Clients \ stale : CaughtUp(c) =>
    /\ known[c] = 1..published
    /\ open \subseteq screen[c]
    /\ c \in resynced \/ screen[c] = open

\* The clients' duplicate filter is exact: reconnecting never hands a client an event
\* it has already rendered, and a genuine frame is never mistaken for a duplicate and
\* dropped.
DedupExact == twice = {} /\ lost = {}

\* Once connections stop breaking, every client learns every event in the end, as
\* such or in a snapshot, those of its offline time too, unless the daemon took a
\* checkpoint of its predecessor for its own.
EventuallyInformed == <>[](\A c \in Clients \ stale : known[c] = 1..published)

=============================================================================
