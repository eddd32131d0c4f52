-------------------------------- MODULE Jobs --------------------------------
(***************************************************************************)
(* The job queue (application/jobs.ts), the session processes it starts,   *)
(* the live fleet map (application/commands.ts, wire), and the job and     *)
(* session rows (infrastructure/db.ts) with their reconciliation at boot   *)
(* (index.ts).                                                             *)
(*                                                                         *)
(* A spawn command and the exit of a session are JavaScript callbacks that *)
(* loop over tryStart.  The loop is spread over several steps here, one    *)
(* per job it visits: `scan' holds the jobs still to visit, `ctx' says     *)
(* which callback is running, and no other callback starts before it ends. *)
(* What a failing database does depends on it: guardMessage catches the    *)
(* exception in a command, nothing does in a session's exit.               *)
(***************************************************************************)
EXTENDS Naturals, Sequences, FiniteSets

CONSTANTS
  Jobs,          \* spawn requests, each enqueued at most once
  MaxConcurrent, \* CC_MAX_CONCURRENT_SESSIONS
  Faults,        \* which of FaultKinds may happen
  MaxThrows,     \* bound: failed writes the daemon survives
  MaxRestarts    \* bound: how often the daemon dies

\* "insert": the INSERT of a job row throws; "slot": recording the job as running
\* throws; "session": recording the session throws after it was spawned; "failed":
\* recording that a start failed throws; "exit": recording the end of a session or
\* job throws.
FaultKinds == {"insert", "slot", "session", "failed", "exit"}

ASSUME JobsAssumption ==
  /\ IsFiniteSet(Jobs)
  /\ MaxConcurrent \in Nat \ {0}
  /\ Faults \subseteq FaultKinds
  /\ {MaxThrows, MaxRestarts} \subseteq Nat

VARIABLES
  alive,    \* the daemon is running
  ctx,      \* the callback being run: "none", "command" or "exit"
  scan,     \* the jobs tryStart has yet to be called for
  live,     \* JobQueue.jobs, in insertion order
  state,    \* Job.state
  running,  \* JobQueue.running
  fleet,    \* sessions: the sessions clients can see and steer
  watched,  \* jobs whose queue hears the exit of their session
  proc,     \* the claude process of each job
  row,      \* state column of the job's row, "none" when there is no row
  sessRow,  \* the session's row: "none", "open", or "ended"
  restarts, \* history: how often the daemon died
  throws    \* history: how many writes failed and the daemon went on

memory == <<ctx, scan, live, state, running, fleet, watched>>
tables == <<row, sessRow>>
vars == <<alive, memory, proc, tables, restarts, throws>>

States == {"none", "queued", "running", "done", "failed"}

Init ==
  /\ alive = TRUE
  /\ ctx = "none"
  /\ scan = <<>>
  /\ live = <<>>
  /\ state = [j \in Jobs |-> "none"]
  /\ running = 0
  /\ fleet = {}
  /\ watched = {}
  /\ proc = [j \in Jobs |-> "none"]
  /\ row = [j \in Jobs |-> "none"]
  /\ sessRow = [j \in Jobs |-> "none"]
  /\ restarts = 0
  /\ throws = 0

----------------------------------------------------------------------------
\* UPDATE of a row that may not be there.
SetRow(j, s) == row' = IF row[j] = "none" THEN row ELSE [row EXCEPT ![j] = s]

\* insertJob.
InsertRow(j, s) == row' = [row EXCEPT ![j] = s]

\* A write fails in a handler that guardMessage guards: the daemon goes on.
Throw == throws < MaxThrows /\ throws' = throws + 1

SetState(j, s) == state' = [state EXCEPT ![j] = s]

\* Map.delete: the entry leaves, the others keep their order.
Without(q, j) ==
  IF \E i \in 1..Len(q) : q[i] = j
    THEN LET p == CHOOSE i \in 1..Len(q) : q[i] = j
         IN SubSeq(q, 1, p - 1) \o SubSeq(q, p + 1, Len(q))
    ELSE q

\* The daemon dies, and the claude processes, whose stdin it held, with it.
Die ==
  /\ restarts < MaxRestarts
  /\ restarts' = restarts + 1
  /\ alive' = FALSE
  /\ ctx' = "none" /\ scan' = <<>> /\ live' = <<>> /\ running' = 0
  /\ fleet' = {} /\ watched' = {}
  /\ state' = [j \in Jobs |-> IF state[j] \in {"queued", "running"} THEN "failed" ELSE state[j]]
  /\ proc' = [j \in Jobs |-> IF proc[j] = "none" THEN "none" ELSE "gone"]
  /\ UNCHANGED throws

\* The rest of the callback: the jobs left to visit, or its end.
Continue(rest) ==
  /\ scan' = rest
  /\ ctx' = IF rest = <<>> THEN "none" ELSE ctx
  /\ UNCHANGED <<alive, restarts>>

----------------------------------------------------------------------------
(* The spawn command.                                                      *)

\* enqueue of a project whose hook margin is refused: terminal at birth.
EnqueueRefused(j) ==
  /\ alive /\ ctx = "none"
  /\ state[j] = "none"
  /\ SetState(j, "failed")
  /\ \/ InsertRow(j, "failed") /\ UNCHANGED throws
     \/ "insert" \in Faults /\ Throw /\ UNCHANGED row
  /\ UNCHANGED <<alive, ctx, scan, live, running, fleet, watched, proc, sessRow, restarts>>

\* enqueue: into the live map, then the row, then tryStart.
Enqueue(j) ==
  /\ alive /\ ctx = "none"
  /\ state[j] = "none"
  /\ SetState(j, "queued")
  /\ live' = Append(live, j)
  /\ \/ InsertRow(j, "queued") /\ ctx' = "command" /\ scan' = <<j>> /\ UNCHANGED throws
     \/ "insert" \in Faults /\ Throw /\ UNCHANGED <<row, ctx, scan>>
  /\ UNCHANGED <<alive, running, fleet, watched, proc, sessRow, restarts>>

----------------------------------------------------------------------------
(* tryStart, for the job at the head of `scan'.                            *)

Startable(j) == state[j] = "queued" /\ running < MaxConcurrent

\* Mutant: with no slot left the loop goes round and round.
StartSkipped_Spins ==
  /\ scan # <<>>
  /\ ~Startable(Head(scan))
  /\ Continue(IF running >= MaxConcurrent THEN scan ELSE Tail(scan))
  /\ UNCHANGED <<live, state, running, fleet, watched, proc, tables, throws>>

\* No slot, or not a queued job; pumpQueue leaves its loop when slots run out.
StartSkipped ==
  /\ scan # <<>>
  /\ ~Startable(Head(scan))
  /\ Continue(IF running >= MaxConcurrent THEN <<>> ELSE Tail(scan))
  /\ UNCHANGED <<live, state, running, fleet, watched, proc, tables, throws>>

\* Mutant: the failed start keeps its slot.
StartFails_KeepsSlot ==
  /\ scan # <<>>
  /\ LET j == Head(scan) IN
       /\ Startable(j)
       /\ SetState(j, "failed")
       /\ SetRow(j, "failed")
       /\ live' = Without(live, j)
  /\ running' = running + 1
  /\ Continue(Tail(scan))
  /\ UNCHANGED <<fleet, watched, proc, sessRow, throws>>

\* The margin no longer holds, or the process cannot be spawned: the job fails
\* and no slot is used.
StartFails ==
  /\ scan # <<>>
  /\ LET j == Head(scan) IN
       /\ Startable(j)
       /\ SetState(j, "failed")
       /\ SetRow(j, "failed")
       /\ live' = Without(live, j)
  /\ Continue(Tail(scan))
  /\ UNCHANGED <<running, fleet, watched, proc, sessRow, throws>>

\* wire: the session enters the fleet.
Wire(j) == fleet' = fleet \cup {j}

\* onSession: the session is recorded, then wired.
OnSession(j) ==
  /\ sessRow' = [sessRow EXCEPT ![j] = "open"]
  /\ Wire(j)

\* The slot is taken, the process spawned, its session recorded and wired, and
\* the queue listens for its exit.
StartRuns ==
  /\ scan # <<>>
  /\ LET j == Head(scan) IN
       /\ Startable(j)
       /\ SetState(j, "running")
       /\ running' = running + 1
       /\ SetRow(j, "running")
       /\ proc' = [proc EXCEPT ![j] = "alive"]
       /\ OnSession(j)
       /\ watched' = watched \cup {j}
  /\ Continue(Tail(scan))
  /\ UNCHANGED <<live, throws>>

\* The UPDATE right after running++ throws, outside the try block.
StartLosesSlot ==
  /\ "slot" \in Faults
  /\ scan # <<>>
  /\ LET j == Head(scan) IN
       /\ Startable(j)
       /\ SetState(j, "running")
       /\ running' = running + 1
  /\ ctx = "command"
  /\ ctx' = "none" /\ scan' = <<>>
  /\ Throw
  /\ UNCHANGED <<alive, restarts, live, fleet, watched, proc, tables>>

\* Recording the session throws once the process exists: the catch block gives
\* the slot back and fails the job; nobody owns the process.
StartLosesSession ==
  /\ "session" \in Faults
  /\ scan # <<>>
  /\ LET j == Head(scan) IN
       /\ Startable(j)
       /\ SetState(j, "failed")
       /\ SetRow(j, "failed")
       /\ live' = Without(live, j)
       /\ proc' = [proc EXCEPT ![j] = "alive"]
  /\ Throw
  /\ Continue(Tail(scan))
  /\ UNCHANGED <<running, fleet, watched, sessRow>>

\* Recording the failure throws, at a refusal or in the catch block, whether the
\* process could not be spawned or its session not recorded: the exception escapes,
\* and the job stays in the live map with its row as it was.
StartFailsUnrecorded ==
  /\ "failed" \in Faults
  /\ scan # <<>>
  /\ LET j == Head(scan) IN
       /\ Startable(j)
       /\ SetState(j, "failed")
       /\ \/ UNCHANGED <<row, proc>>
          \/ SetRow(j, "running") /\ UNCHANGED proc
          \/ SetRow(j, "running") /\ proc' = [proc EXCEPT ![j] = "alive"]
  /\ ctx = "command"
  /\ ctx' = "none" /\ scan' = <<>>
  /\ Throw
  /\ UNCHANGED <<alive, restarts, live, running, fleet, watched, sessRow>>

----------------------------------------------------------------------------
(* The end of a session.                                                   *)

\* The claude process ends, or could not be started after all.
ProcEnds(j) ==
  /\ proc[j] = "alive"
  /\ proc' = [proc EXCEPT ![j] = "exited"]
  /\ UNCHANGED <<alive, memory, tables, restarts, throws>>

\* What wire hears of an exit: the session leaves the fleet; then recordSessionEnded.
SessionEnds(j) ==
  /\ fleet' = fleet \ {j}
  /\ sessRow' = [sessRow EXCEPT ![j] = "ended"]

\* Mutant: the freed slot is not offered to the queue.
ExitHeard_NoPump(j, final) ==
  /\ alive /\ ctx = "none"
  /\ proc[j] = "exited"
  /\ j \in watched
  /\ proc' = [proc EXCEPT ![j] = "gone"]
  /\ SessionEnds(j)
  /\ watched' = watched \ {j}
  /\ running' = running - 1
  /\ SetState(j, final)
  /\ SetRow(j, final)
  /\ live' = Without(live, j)
  /\ UNCHANGED <<scan, ctx>>
  /\ UNCHANGED <<alive, restarts, throws>>

\* Mutant: the queue is searched from its end.
ExitHeard_NewestFirst(j, final) ==
  /\ alive /\ ctx = "none"
  /\ proc[j] = "exited"
  /\ j \in watched
  /\ proc' = [proc EXCEPT ![j] = "gone"]
  /\ SessionEnds(j)
  /\ watched' = watched \ {j}
  /\ running' = running - 1
  /\ SetState(j, final)
  /\ SetRow(j, final)
  /\ live' = Without(live, j)
  /\ scan' = [i \in 1..Len(live') |-> live'[Len(live') + 1 - i]]
  /\ ctx' = IF live' = <<>> THEN "none" ELSE "exit"
  /\ UNCHANGED <<alive, restarts, throws>>

\* 'exit' is heard: the session leaves the fleet and its row is closed; then the
\* queue frees the slot, finishes the job and looks for queued ones.
ExitHeard(j, final) ==
  /\ alive /\ ctx = "none"
  /\ proc[j] = "exited"
  /\ j \in watched
  /\ proc' = [proc EXCEPT ![j] = "gone"]
  /\ SessionEnds(j)
  /\ watched' = watched \ {j}
  /\ running' = running - 1
  /\ SetState(j, final)
  /\ SetRow(j, final)
  /\ live' = Without(live, j)
  /\ scan' = live'
  /\ ctx' = IF live' = <<>> THEN "none" ELSE "exit"
  /\ UNCHANGED <<alive, restarts, throws>>

\* The exit of a process nobody listens to.
ExitUnheard(j) ==
  /\ alive /\ ctx = "none"
  /\ proc[j] = "exited"
  /\ j \notin watched
  /\ proc' = [proc EXCEPT ![j] = "gone"]
  /\ UNCHANGED <<alive, memory, tables, restarts, throws>>

\* A write fails while an exit is handled, of the session's row or of a job's: the
\* exception is nobody's to catch.
ExitThrows ==
  /\ "exit" \in Faults
  /\ ctx = "exit" \/ (ctx = "none" /\ \E j \in watched : proc[j] = "exited")
  /\ Die
  /\ \/ UNCHANGED sessRow
     \/ \E j \in watched : proc[j] = "exited" /\ sessRow' = [sessRow EXCEPT ![j] = "ended"]
  /\ UNCHANGED row

----------------------------------------------------------------------------
\* A crash or a shutdown.
Crash ==
  /\ alive
  /\ Die
  /\ UNCHANGED tables

\* reconcileOrphanedSessions.
ReconcileSessions ==
  sessRow' = [j \in Jobs |-> IF sessRow[j] = "open" THEN "ended" ELSE sessRow[j]]

\* Mutant: jobs that were cut off are recorded as done.
ReconcileJobs_Done ==
  row' = [j \in Jobs |-> IF row[j] \in {"queued", "running"} THEN "done" ELSE row[j]]

\* reconcileOrphanedJobs.
ReconcileJobs ==
  row' = [j \in Jobs |-> IF row[j] \in {"queued", "running"} THEN "failed" ELSE row[j]]

\* Mutant: boot leaves the job rows of the dead process as they are.
Boot_NoReconcile ==
  /\ ~alive
  /\ alive' = TRUE
  /\ ReconcileSessions
  /\ UNCHANGED <<memory, proc, row, restarts, throws>>

\* Boot: rows a dead process left open are closed before anything else runs.
Boot ==
  /\ ~alive
  /\ alive' = TRUE
  /\ ReconcileSessions
  /\ ReconcileJobs
  /\ UNCHANGED <<memory, proc, restarts, throws>>

TryStart ==
  \/ StartSkipped \/ StartFails \/ StartRuns
  \/ StartLosesSlot \/ StartLosesSession \/ StartFailsUnrecorded

Next ==
  \/ \E j \in Jobs :
       \/ EnqueueRefused(j) \/ Enqueue(j)
       \/ ProcEnds(j) \/ ExitUnheard(j)
       \/ \E final \in {"done", "failed"} : ExitHeard(j, final)
  \/ TryStart
  \/ ExitThrows
  \/ Crash
  \/ Boot

Spec == Init /\ [][Next]_vars

\* The event loop runs the callbacks it owes, a dead daemon is started again, and
\* sessions end (the operator closes them; the code cannot make them end).
Fairness ==
  /\ WF_vars(TryStart)
  /\ WF_vars(Boot)
  /\ \A j \in Jobs :
       WF_vars(ProcEnds(j)) /\ WF_vars(\E final \in {"done", "failed"} : ExitHeard(j, final))

FairSpec == Spec /\ Fairness

----------------------------------------------------------------------------
(* Properties.                                                             *)

\* No callback is running, and no write has failed in one that went on.
Quiet == alive /\ ctx = "none" /\ throws = 0

Processes == {j \in Jobs : proc[j] \in {"alive", "exited"}}

\* `running' counts the session processes whose exit is still to be heard: no
\* failed start keeps a slot and no exit gives one back twice.  So
\* CC_MAX_CONCURRENT_SESSIONS is a cap: until a write fails, there are never more
\* live processes, in the middle of a callback neither.
SlotsExact ==
  /\ Quiet => running = Cardinality(Processes)
  /\ throws = 0 => Cardinality({j \in Jobs : proc[j] = "alive"}) <= MaxConcurrent

\* "Queued jobs never coexist with spare capacity except transiently", whatever
\* mix of refusals, failed spawns, exits and restarts led here: no job waits in vain.
NoStrandedJob ==
  Quiet /\ running < MaxConcurrent => \A j \in Jobs : state[j] # "queued"

\* A job never starts while one that was enqueued before it is still waiting.
FifoStart ==
  throws = 0 => \A m, n \in 1..Len(live) :
    m < n /\ state[live[n]] = "running" => state[live[m]] # "queued"

\* Queue, fleet and tables agree, also after a restart: the durable row of a job says
\* what the queue says, and every session process can be seen and steered by clients
\* and has an open row for exactly as long: none is left running with no owner.
TablesExact ==
  Quiet =>
    /\ row = state
    /\ fleet = Processes
    /\ fleet = {j \in Jobs : sessRow[j] = "open"}

\* A row is open only for a job the queue still holds: whatever write failed and
\* whenever the daemon died, nothing is shown as queued or running for ever.
OpenRowHasLiveJob ==
  alive => \A j \in Jobs : row[j] \in {"queued", "running"} =>
    \E i \in 1..Len(live) : live[i] = j

\* No job waits for ever, provided sessions end and no write fails; when one fails in
\* the handler of an exit, the daemon dies and the job fails with it.
EveryJobIsDequeued ==
  \A j \in Jobs : state[j] = "queued" ~> state[j] # "queued" \/ throws > 0

=============================================================================
