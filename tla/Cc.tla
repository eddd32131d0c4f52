--------------------------------- MODULE Cc ---------------------------------
(***************************************************************************)
(* One-shot `cc' processes of one paired device (runAuthenticated in       *)
(* cli/src/cc.ts), from reading device.json to their exit: the lock file   *)
(* under which they draw a command number (cli/src/deviceStore.ts), the    *)
(* host around ReliableClient that reconnects, resends and decides when    *)
(* and how to exit, and the daemon they share, which numbers what it sends *)
(* per device and acks cumulatively.                                       *)
(*                                                                         *)
(* The file steps of different processes interleave; what one process does *)
(* with one message does not.  What a process wrote to a connection it     *)
(* then gave up, the daemon may read late or never.  That the filters drop *)
(* no genuine frame is the subject of Delivery and Commands.               *)
(***************************************************************************)
EXTENDS Integers, Sequences, SequencesExt, BagsExt

CONSTANTS
  Procs,         \* the processes
  Commands,      \* sets of processes: which may be the ones that run `cc history'
  Behaviours,    \* which of BehaviourKinds may happen
  MaxEvents,     \* maxEventsPerDevice of the replay log
  Limits,        \* what CC_RECONNECT_MAX_ATTEMPTS may be
  MaxUpsets      \* bound: broadcasts, lost connections, kills and daemon restarts, in all

\* "leftover": a process died earlier and left its lock file; "stall": a process may
\* stop for more than ten seconds while it holds the lock; "throw": a handler throws.
BehaviourKinds == {"leftover", "stall", "throw"}

ASSUME CcAssumption ==
  /\ Procs \cap {"nobody", "dead"} = {}
  /\ Commands \subseteq SUBSET Procs
  /\ Behaviours \subseteq BehaviourKinds
  /\ MaxEvents \in Nat \ {0}
  /\ Limits \subseteq Nat
  /\ MaxUpsets \in Nat

VARIABLES
  reads,       \* the processes that run `cc history'; the others write
  maxAttempts, \* CC_RECONNECT_MAX_ATTEMPTS
  store,       \* outSeq in device.json, or Torn while the file is cut short
  lock,        \* whose lock file there is: Nobody's, a Dead process's or a process's
  old,         \* the lock file is more than ten seconds old
  pc,          \* what each process does next
  exit,        \* why it exited
  num,         \* myCmdSeq, or the number of the last read
  ever,        \* everConnected
  attempt,
  highest,     \* inb.lastSeq
  sock,        \* the process's connection: "none", "up" or "broken"
  up, down,    \* frames on their way
  late,        \* a bag: the unread frames to the daemon on connections the process gave up
  out,         \* the daemon's counter for the device, NoStream when there is none
  log,         \* the device's replay log
  seen,        \* numbers the daemon has accepted
  through, ahead,   \* processed
  done, refused, threw,   \* history: processes whose own command a handler has
                          \* completed, refused with an error, thrown at
  missed,            \* history: processes whose command was refused on a connection they
                     \* had given up, while they were listening on a new one
  overtaken,         \* processes whose number the level passed without an ack to them
                     \* since their last hello
  drawn, reused,     \* history: numbers drawn, and drawn again
  stolen, torn,      \* history: a live process's lock was removed; one was killed while
                     \* device.json was cut short
  resumed, resynced, \* history: processes that reconnected in each way, once they had issued
  upsets             \* history: how much of MaxUpsets is used

setting   == <<reads, maxAttempts>>
disk      == <<store, lock, old>>
memory    == <<ever, attempt, highest>>
host      == <<pc, exit, num, memory>>
net       == <<sock, up, down, late>>
daemon    == <<out, log, seen, through, ahead>>
outcomes  == <<done, refused, threw, missed, overtaken>>
numbering == <<drawn, reused, stolen, torn>>
rejoined  == <<resumed, resynced>>
vars == <<setting, disk, host, net, daemon, outcomes, numbering, rejoined, upsets>>

Torn     == -1
NoStream == -1
Nobody   == "nobody"
Dead     == "dead"

Ended   == {"done", "killed"}

Hello(n)   == [t |-> "hello", n |-> n]
Command(n) == [t |-> "command", n |-> n]
Salt(r)    == [t |-> "salt", n |-> IF r THEN 1 ELSE 0, of |-> Nobody]
Ack(n)     == [t |-> "ack", n |-> n, of |-> Nobody]
Event      == [t |-> "event", n |-> 0, of |-> Nobody]
Reply(p)   == [t |-> "reply", n |-> 0, of |-> p]
Error(p)   == [t |-> "error", n |-> 0, of |-> p]
Frame(seq, ev) == [seq |-> seq, ev |-> ev]

\* record: the oldest entries go when the log is over its limit.
Latest(frames) ==
  SubSeq(frames, IF Len(frames) > MaxEvents THEN Len(frames) - MaxEvents + 1 ELSE 1, Len(frames))

\* An earlier invocation drew number 1, got a snapshot and its ack, and exited.
Init ==
  /\ reads \in Commands
  /\ maxAttempts \in Limits
  /\ store = 1
  /\ \/ lock = Nobody /\ old = FALSE
     \/ "leftover" \in Behaviours /\ lock = Dead /\ old \in BOOLEAN
  /\ pc = [p \in Procs |-> "start"]
  /\ exit = [p \in Procs |-> "none"]
  /\ num = [p \in Procs |-> 0]
  /\ ever = [p \in Procs |-> FALSE]
  /\ attempt = [p \in Procs |-> 0]
  /\ highest = [p \in Procs |-> 0]
  /\ sock = [p \in Procs |-> "none"]
  /\ up = [p \in Procs |-> <<>>] /\ down = [p \in Procs |-> <<>>]
  /\ late = [p \in Procs |-> EmptyBag]
  /\ out = 2 /\ log = Latest(<<Frame(1, Event), Frame(2, Ack(1))>>)
  /\ seen = {1} /\ through = 1 /\ ahead = {}
  /\ done = {} /\ refused = {} /\ threw = {} /\ missed = {} /\ overtaken = {}
  /\ drawn = {1} /\ reused = {} /\ stolen = FALSE /\ torn = FALSE
  /\ resumed = {} /\ resynced = {}
  /\ upsets = 0

----------------------------------------------------------------------------
(* The process.                                                            *)

\* The socket of p goes away, and what the daemon sent on it.  What p wrote may yet arrive:
\* never more than one frame is unread, since p writes again only when it is answered.
Hang(p, state) ==
  /\ sock' = [sock EXCEPT ![p] = state]
  /\ late' = [late EXCEPT ![p] = IF up[p] = <<>> THEN @ ELSE BagAdd(@, Head(up[p]))]
  /\ up' = [up EXCEPT ![p] = <<>>]
  /\ down' = [down EXCEPT ![p] = <<>>]

Goto(p, next) == pc' = [pc EXCEPT ![p] = next]

\* The process is gone, with its memory and its socket.
Gone(p, how) ==
  /\ Goto(p, how)
  /\ ever' = [ever EXCEPT ![p] = FALSE]
  /\ attempt' = [attempt EXCEPT ![p] = 0]
  /\ highest' = [highest EXCEPT ![p] = 0]
  /\ Hang(p, "none")

\* process.exit, and why.
Exit(p, why) == exit' = [exit EXCEPT ![p] = why] /\ Gone(p, "done")

\* One more of what the bound counts.
Upset == upsets < MaxUpsets /\ upsets' = upsets + 1

\* connect and onOpen; a daemon that cannot be reached is a connection that breaks.
Connect(p) ==
  /\ Goto(p, "open")
  /\ sock' = [sock EXCEPT ![p] = "up"]
  /\ up' = [up EXCEPT ![p] = <<Hello(highest[p])>>]
  /\ down' = [down EXCEPT ![p] = <<>>]

\* requireDevice, without the lock: a file cut short looks like no file.
Start(p) ==
  /\ pc[p] = "start"
  /\ \/ store = Torn /\ Exit(p, "unpaired")
     \/ store # Torn /\ Connect(p) /\ UNCHANGED <<exit, memory, late>>
  /\ UNCHANGED <<setting, disk, num, daemon, outcomes, numbering,
                 rejoined, upsets>>

\* The connection breaks.
Drop(p) ==
  /\ Upset
  /\ sock[p] = "up"
  /\ Hang(p, "broken")
  /\ UNCHANGED <<setting, disk, host, daemon, outcomes, numbering, rejoined>>

\* The 'error' handler before the first handshake, or the 'close' handler and its timer.
OnClose(p) ==
  /\ pc[p] \in {"open", "wait"} /\ sock[p] = "broken"
  /\ \/ ~ever[p] /\ Exit(p, "unreachable")
     \/ attempt[p] >= maxAttempts /\ Exit(p, "gaveup")
     \/ /\ attempt[p] < maxAttempts
        /\ attempt' = [attempt EXCEPT ![p] = @ + 1]
        /\ Connect(p)
        /\ UNCHANGED <<exit, ever, highest, late>>
  /\ UNCHANGED <<setting, disk, num, daemon, outcomes, numbering, rejoined, upsets>>

\* The commands onReady puts on the wire: a write that was issued is resent by the engine.
Resent(p) == IF p \notin reads /\ num[p] # 0 THEN <<Command(num[p])>> ELSE <<>>

\* Mutant: a read is issued once, like a write.
OnReady_ReadOnce(p) == Goto(p, IF num[p] = 0 THEN "try" ELSE "wait")

\* onReady: a read is issued on every connection, a write on the first.
OnReady(p) == Goto(p, IF p \in reads \/ num[p] = 0 THEN "try" ELSE "wait")

\* onSessionSalt.
ReceiveSalt(p) ==
  /\ pc[p] = "open" /\ down[p] # <<>>
  /\ LET resumes == Head(down[p]).ev.n = 1 IN
       /\ highest' = [highest EXCEPT ![p] = IF resumes THEN @ ELSE 0]
       /\ resumed' = IF resumes /\ num[p] # 0 THEN resumed \cup {p} ELSE resumed
       /\ resynced' = IF ~resumes /\ num[p] # 0 THEN resynced \cup {p} ELSE resynced
  /\ down' = [down EXCEPT ![p] = Tail(@)]
  /\ up' = [up EXCEPT ![p] = @ \o Resent(p)]
  /\ ever' = [ever EXCEPT ![p] = TRUE]
  /\ attempt' = [attempt EXCEPT ![p] = 0]
  /\ OnReady(p)
  /\ UNCHANGED <<setting, disk, exit, num, sock, late, daemon, outcomes, numbering, upsets>>

\* Mutant: any ack will do.
OnAck_AnyAck(p, n) == p \notin reads

\* Mutant: the process waits for the ack of a later command.
OnAck_Beyond(p, n) == p \notin reads /\ n > num[p]

\* onAck: is this the confirmation of the process's own command?
OnAck(p, n) == p \notin reads /\ n >= num[p]

\* onMessage, onAck and onEvent of a process that has issued its command.  It exits at the
\* first ack that reaches its number, so lastAcked is never ahead of the ack it reads.
Receive(p) ==
  /\ pc[p] = "wait" /\ down[p] # <<>>
  /\ LET f == Head(down[p]) IN
       \/ f.ev.t = "ack" /\ OnAck(p, f.ev.n) /\ Exit(p, "confirmed")
       \/ f.ev.t = "error" /\ Exit(p, "refused")
       \/ f.ev.t = "reply" /\ p \in reads /\ Exit(p, "replied")
       \/ /\ ~(f.ev.t = "ack" /\ OnAck(p, f.ev.n))
          /\ f.ev.t # "error"
          /\ ~(f.ev.t = "reply" /\ p \in reads)
          /\ highest' = [highest EXCEPT ![p] = IF f.seq > @ THEN f.seq ELSE @]
          /\ down' = [down EXCEPT ![p] = Tail(@)]
          /\ UNCHANGED <<pc, exit, ever, attempt, sock, up, late>>
  /\ UNCHANGED <<setting, disk, num, daemon, outcomes, numbering, rejoined, upsets>>

\* Killed, at any point.
Kill(p) ==
  /\ Upset
  /\ pc[p] \notin Ended
  /\ Gone(p, "killed")
  /\ torn' = (torn \/ pc[p] = "write")
  /\ UNCHANGED <<setting, disk, exit, num, daemon, outcomes, drawn, reused, stolen, rejoined>>

----------------------------------------------------------------------------
(* reserveOutSeq.  The process does nothing else meanwhile.                *)

\* Mutant: the lock file is opened without O_EXCL.
TakeLock_NotExclusive(p) == lock' = p /\ old' = FALSE

\* openSync(lockPath, 'wx').
TakeLock(p) == lock = Nobody /\ lock' = p /\ old' = FALSE

Acquire(p) ==
  /\ pc[p] = "try"
  /\ TakeLock(p)
  /\ Goto(p, "load")
  /\ UNCHANGED <<setting, store, exit, num, memory, net, daemon, outcomes,
                 numbering, rejoined, upsets>>

\* EEXIST: look at the age of the file; give up after five seconds, or try again.
Busy(p) ==
  /\ pc[p] = "try" /\ lock # Nobody
  /\ \/ old /\ Goto(p, "unlink") /\ UNCHANGED <<exit, memory, net>>
     \/ ~old /\ Exit(p, "locked")
  /\ UNCHANGED <<setting, disk, num, daemon, outcomes, numbering,
                 rejoined, upsets>>

\* unlinkSync(lockPath) by p: whichever file has that name now.
RemoveLock(p) ==
  /\ lock' = Nobody /\ old' = FALSE
  /\ stolen' = (stolen \/ lock \in {q \in Procs \ {p} : pc[q] \notin Ended})

\* The file that was found too old is removed, and the deadline looked at.
Unlink(p) ==
  /\ pc[p] = "unlink"
  /\ RemoveLock(p)
  /\ \/ Goto(p, "try") /\ UNCHANGED <<exit, memory, net>>
     \/ Exit(p, "locked")
  /\ UNCHANGED <<setting, store, num, daemon, outcomes,
                 drawn, reused, torn, rejoined, upsets>>

\* loadDevice: a file cut short counts as 0.
Load(p) ==
  /\ pc[p] = "load"
  /\ num' = [num EXCEPT ![p] = (IF store = Torn THEN 0 ELSE store) + 1]
  /\ Goto(p, "save")
  /\ UNCHANGED <<setting, disk, exit, memory, net, daemon, outcomes, numbering,
                 rejoined, upsets>>

\* persistOutSeq, up to the truncation of the file; nothing is written when the record
\* cannot be read.
Save(p) ==
  /\ pc[p] = "save"
  /\ \/ store = Torn /\ Goto(p, "free") /\ UNCHANGED store
     \/ store # Torn /\ Goto(p, "write") /\ store' = Torn
  /\ UNCHANGED <<setting, lock, old, exit, num, memory, net, daemon, outcomes,
                 numbering, rejoined, upsets>>

Write(p) ==
  /\ pc[p] = "write"
  /\ store' = num[p]
  /\ Goto(p, "free")
  /\ UNCHANGED <<setting, lock, old, exit, num, memory, net, daemon, outcomes,
                 numbering, rejoined, upsets>>

\* The finally block; send and flush put the command on the wire, if there is one.
Free(p) ==
  /\ pc[p] = "free"
  /\ RemoveLock(p)
  /\ drawn' = drawn \cup {num[p]}
  /\ reused' = IF num[p] \in drawn THEN reused \cup {num[p]} ELSE reused
  /\ up' = IF sock[p] = "up" THEN [up EXCEPT ![p] = Append(@, Command(num[p]))] ELSE up
  /\ Goto(p, "wait")
  /\ UNCHANGED <<setting, store, exit, num, memory, sock, down, late, daemon, outcomes,
                 torn, rejoined, upsets>>

\* Ten seconds pass over a lock file.
Age ==
  /\ lock # Nobody /\ ~old
  /\ lock \in {p \in Procs : pc[p] \notin Ended} => "stall" \in Behaviours
  /\ old' = TRUE
  /\ UNCHANGED <<setting, store, lock, host, net, daemon, outcomes, numbering, rejoined, upsets>>

----------------------------------------------------------------------------
(* The daemon.                                                             *)

Counter == IF out = NoStream THEN 0 ELSE out

\* recordSent for a list of events, and the frames they become.
Sealed(evs) == [i \in 1..Len(evs) |-> Frame(Counter + i, evs[i])]
Record(evs) == out' = Counter + Len(evs) /\ log' = Latest(log \o Sealed(evs))

\* resumeFor.
Resumes(lastSeq) ==
  /\ lastSeq # 0 /\ out # NoStream
  /\ lastSeq <= out
  /\ lastSeq < out => log # <<>> /\ lastSeq + 1 >= log[1].seq

\* What filter keeps of the log, which is ascending: its end.
Replay(lastSeq) ==
  LET skip == CHOOSE k \in 0..Len(log) : \A i \in 1..Len(log) : log[i].seq > lastSeq <=> i > k
  IN SubSeq(log, skip + 1, Len(log))

AckOf(level) == IF level > 0 THEN <<Ack(level)>> ELSE <<>>

\* The hub knows the connection of p: its hello has been read.
Greeted(p) == sock[p] = "up" /\ \A i \in 1..Len(up[p]) : up[p][i].t # "hello"

\* What hello adds to the stream: a snapshot unless it resumes, then the ack level.
Welcome(lastSeq) == (IF Resumes(lastSeq) THEN <<>> ELSE <<Event>>) \o AckOf(through)

\* hello: the salt, what is replayed, and the rest.
DaemonHello(p) ==
  /\ up[p] # <<>> /\ Head(up[p]).t = "hello"
  /\ up' = [up EXCEPT ![p] = Tail(@)]
  /\ LET lastSeq == Head(up[p]).n
         sent == Welcome(lastSeq)
     IN /\ Record(sent)
        /\ down' = [down EXCEPT ![p] = @ \o <<Frame(0, Salt(Resumes(lastSeq)))>>
                      \o (IF Resumes(lastSeq) THEN Replay(lastSeq) ELSE <<>>) \o Sealed(sent)]
  /\ overtaken' = overtaken \ {p}
  /\ UNCHANGED <<setting, disk, host, sock, late, seen, through, ahead, done, refused, threw,
                 missed, numbering, rejoined, upsets>>

\* markProcessed.
MarkProcessed(n) ==
  \/ /\ n = through + 1
     /\ \E m \in n..n + Cardinality(ahead) :
          /\ (n + 1)..m \subseteq ahead /\ m + 1 \notin ahead
          /\ through' = m
          /\ ahead' = ahead \ (n..m)
  \/ /\ n # through + 1
     /\ ahead' = IF n > through THEN ahead \cup {n} ELSE ahead
     /\ UNCHANGED through

\* handleCommand for the command of p: what it sends before the ack.
Handle(p, n, evs) ==
  \/ /\ evs = (IF p \in reads THEN <<Reply(p)>> ELSE <<>>)
     /\ done' = done \cup {p}
     /\ MarkProcessed(n)
     /\ UNCHANGED <<refused, threw>>
  \/ /\ p \notin reads /\ evs = <<Error(p)>>
     /\ refused' = refused \cup {p}
     /\ MarkProcessed(n)
     /\ UNCHANGED <<done, threw>>
  \/ /\ "throw" \in Behaviours /\ evs = <<>>
     /\ threw' = threw \cup {p}
     /\ UNCHANGED <<done, refused, through, ahead>>

\* Connections the hub knows, whose process's number the level passes now.
Passed == {q \in Procs : Greeted(q) /\ through < num[q] /\ num[q] <= through'}

\* The read loop: a duplicate is dropped, anything else handled, and the level acked.
DaemonFrame(p) ==
  /\ up[p] # <<>> /\ Head(up[p]).t = "command"
  /\ up' = [up EXCEPT ![p] = Tail(@)]
  /\ LET n == Head(up[p]).n IN
       \/ n \in seen /\ UNCHANGED <<daemon, outcomes, down>>
       \/ /\ n \notin seen
          /\ seen' = seen \cup {n}
          /\ \E evs \in {<<>>, <<Reply(p)>>, <<Error(p)>>} :
               /\ Handle(p, n, evs)
               /\ Record(evs \o AckOf(through'))
               /\ down' = [down EXCEPT ![p] = @ \o Sealed(evs \o AckOf(through'))]
          /\ overtaken' = overtaken \cup (Passed \ {p})
          /\ UNCHANGED missed
  /\ UNCHANGED <<setting, disk, host, sock, late, numbering, rejoined, upsets>>

\* The frame m is read from a connection that p gave up: nobody hears the answer.
ReadLate(p, m) ==
  /\ m \in DOMAIN late[p]
  /\ late' = [late EXCEPT ![p] = BagRemove(@, m)]

\* A late hello takes numbers of the stream.
LateHello(p, m) ==
  /\ ReadLate(p, m) /\ m.t = "hello"
  /\ Record(Welcome(m.n))
  /\ UNCHANGED <<setting, disk, host, sock, up, down, seen, through, ahead, outcomes,
                 numbering, rejoined, upsets>>

\* A late command is handled like any other.
LateFrame(p, m) ==
  /\ ReadLate(p, m) /\ m.t = "command"
  /\ \/ m.n \in seen /\ UNCHANGED <<daemon, outcomes>>
     \/ /\ m.n \notin seen
        /\ seen' = seen \cup {m.n}
        /\ \E evs \in {<<>>, <<Reply(p)>>, <<Error(p)>>} :
             /\ Handle(p, m.n, evs)
             /\ Record(evs \o AckOf(through'))
             /\ missed' = missed \cup {q \in {p} : evs = <<Error(p)>> /\ Greeted(p)}
        /\ overtaken' = overtaken \cup Passed
  /\ UNCHANGED <<setting, disk, host, sock, up, down, numbering, rejoined, upsets>>

\* A broadcast: every authenticated socket of the device gets the one frame.
Publish ==
  /\ Upset
  /\ out # NoStream
  /\ Record(<<Event>>)
  /\ down' = [p \in Procs |->
       IF Greeted(p) THEN down[p] \o Sealed(<<Event>>) ELSE down[p]]
  /\ UNCHANGED <<setting, disk, host, sock, up, late, seen, through, ahead, outcomes, numbering,
                 rejoined>>

\* The daemon is restarted: counters, log, filter and level are new, connections gone.
Restart ==
  /\ Upset
  /\ out' = NoStream /\ log' = <<>>
  /\ seen' = {} /\ through' = 0 /\ ahead' = {}
  /\ sock' = [p \in Procs |-> IF sock[p] = "up" THEN "broken" ELSE sock[p]]
  /\ up' = [p \in Procs |-> <<>>] /\ down' = [p \in Procs |-> <<>>]
  /\ late' = [p \in Procs |-> EmptyBag]
  /\ UNCHANGED <<setting, disk, host, outcomes, numbering, rejoined>>

----------------------------------------------------------------------------
LockStep(p) ==
  Acquire(p) \/ Busy(p) \/ Unlink(p) \/ Load(p) \/ Save(p) \/ Write(p) \/ Free(p)

ProcStep(p) ==
  \/ Start(p) \/ OnClose(p) \/ ReceiveSalt(p) \/ Receive(p)
  \/ LockStep(p)

DaemonStep(p) == DaemonHello(p) \/ DaemonFrame(p)

Next ==
  \/ \E p \in Procs : ProcStep(p) \/ DaemonStep(p) \/ Drop(p) \/ Kill(p)
  \/ \E p \in Procs : \E m \in DOMAIN late[p] : LateHello(p, m) \/ LateFrame(p, m)
  \/ Age \/ Publish \/ Restart

Spec == Init /\ [][Next]_vars

\* Processes run and both sides read their sockets.  Nobody owes a broadcast, a drop, a
\* kill or a restart, nor that what was written to a lost connection arrives, nor that a
\* lock file grows old: who waits for one gives up.
Fairness == \A p \in Procs : WF_vars(ProcStep(p)) /\ WF_vars(DaemonStep(p))

FairSpec == Spec /\ Fairness

----------------------------------------------------------------------------
(* Properties.                                                             *)

\* "Reserve the next outbound sequence number, atomically across concurrent invocations":
\* no number is drawn twice, whoever crashed or died holding the lock, unless a waiter
\* removed the lock of a live process or one was killed with device.json cut short.
NumbersUnique == reused # {} => stolen \/ torn

\* How a process exits is true.  Confirmed: a handler completed its own command and
\* refused nothing, unless its number had been drawn before, or the refusal was lost: in a
\* full resync, or because the daemon read the command late, from a connection the process
\* had given up, when it had already answered the hello of the next.  Replied or refused:
\* the answer was its own, unless it was resumed and replayed another process's.
ExitIsTrue ==
  \A p \in Procs :
    /\ exit[p] = "confirmed" =>
         \/ p \in done \/ num[p] \in reused
         \/ p \in refused /\ p \in resynced \cup missed
    /\ exit[p] = "replied" => p \in done \/ p \in resumed
    /\ exit[p] = "refused" => p \in refused \/ p \in resumed

\* A number the ack level waits for in vain.
Missing(k) ==
  /\ k > through /\ k \notin ahead
  /\ k \in seen \/ \A p \in Procs : pc[p] \in Ended \/ num[p] # k

\* Once connections stop breaking, every process ends: an answer, or an ack of its level,
\* sent on its connection or repeated at its next hello, reaches it.  Unless its handler
\* threw, its number was drawn twice and its command dropped, the level waits in vain for a
\* number up to its own, or the level passed its number after its last hello in an ack that
\* went to another connection: another process's, or one that it had given up.
EveryCommandEnds ==
  <>[](\A p \in Procs :
         \/ pc[p] \in Ended
         \/ pc[p] = "wait" /\ (p \in threw \/ num[p] \in reused)
         \/ /\ pc[p] = "wait" /\ p \notin reads
            /\ p \in overtaken \/ \E k \in 1..num[p] : Missing(k))
=============================================================================
