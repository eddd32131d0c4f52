------------------------------ MODULE Sessions ------------------------------
(***************************************************************************)
(* One headless Claude Code session: the child process, the state the      *)
(* daemon derives from its events (infrastructure/session.ts,              *)
(* infrastructure/sessionState.ts), the commands that steer it and its     *)
(* place in the fleet map (application/commands.ts), and the state a       *)
(* client's screen shows (apps/mobile core/state/fleetState.ts).           *)
(*                                                                         *)
(* Texts, models and transcripts are left out: a request to the process    *)
(* is its kind, and so is a line of its output.  What `claude' itself does *)
(* is external: it answers a user message with a turn of output lines that *)
(* ends in a result, and a control request with a control_response; an     *)
(* interrupted turn has no result.                                         *)
(***************************************************************************)
EXTENDS Naturals, Sequences

CONSTANTS
  Behaviours,    \* which of BehaviourKinds may happen
  MaxRequests,   \* bound: requests written to the process
  MaxSpoken,     \* bound: output lines in the middle of turns
  MaxResyncs     \* bound: times the client connects again

\* "interrupt": clients interrupt; "late": Node reports the exit before all output
\* was read; "epipe": writing to a process that just died raises an error event.
BehaviourKinds == {"interrupt", "late", "epipe"}

ASSUME SessionsAssumption ==
  /\ Behaviours \subseteq BehaviourKinds
  /\ MaxRequests \in Nat /\ MaxSpoken \in Nat /\ MaxResyncs \in Nat

VARIABLES
  alive,     \* the daemon is running
  proc,      \* the child: "starting", "running", "dead" (not yet reaped), "failed" or "closed"
  stdin,     \* requests the child has not read
  pipe,      \* output lines the daemon has not read
  busy,      \* the child is in a turn
  inited,    \* the child has reported system/init
  stopped,   \* history: an interrupt ended a turn
  state,     \* Session.state
  exits,     \* history: how often the session emitted `exit'
  listed,    \* the session is in the fleet map
  wire,      \* session events under way to the client: the state they carry
  shown,     \* the state the client shows, "absent" for no session
  requests, spoken, resyncs   \* history: uses of the bounds

child == <<stdin, busy, inited, stopped>>
client == <<shown, resyncs>>
vars == <<alive, proc, child, pipe, state, exits, listed, wire, client, requests, spoken>>

Terminal == {"finished", "errored"}
States == {"starting", "ready", "idle", "working", "waiting_approval", "waiting_input"} \cup Terminal

\* deriveSessionState: the state a line of output implies; a line that implies none
\* is not in the domain.
derived ==
  [init |-> "idle", permission_prompt |-> "waiting_approval",
   agent_needs_input |-> "waiting_input", idle_prompt |-> "waiting_input",
   agent_completed |-> "idle", assistant |-> "working", result |-> "idle"]

\* Lines within a turn.
Spoken == {"assistant", "permission_prompt", "agent_needs_input", "agent_completed"}

\* The constructor, and wire(): the session is listed and announced.
Init ==
  /\ alive = TRUE
  /\ proc = "starting"
  /\ stdin = <<>> /\ pipe = <<>>
  /\ busy = FALSE /\ inited = FALSE /\ stopped = FALSE
  /\ state = "starting"
  /\ exits = 0
  /\ listed = TRUE
  /\ wire = <<"starting">>
  /\ shown = "absent"
  /\ requests = 0 /\ spoken = 0 /\ resyncs = 0

----------------------------------------------------------------------------
(* Events of the child process.                                            *)

\* setState, and the broadcast of `state'.
SetState(s) ==
  /\ state' = s
  /\ wire' = IF s = state THEN wire ELSE Append(wire, s)

\* setState to a terminal state, then `exit': announced twice, dropped from the map.
EmitExit(s) ==
  /\ state' = s
  /\ wire' = wire \o <<s, s>>
  /\ exits' = exits + 1
  /\ listed' = FALSE

\* `spawn'.
Spawned ==
  /\ alive /\ proc = "starting"
  /\ proc' = "running"
  /\ IF state = "starting" THEN SetState("ready") ELSE UNCHANGED <<state, wire>>
  /\ UNCHANGED <<alive, child, pipe, exits, listed, client, requests, spoken>>

\* `error': the binary cannot be started.
SpawnError ==
  /\ alive /\ proc = "starting"
  /\ proc' = "failed"
  /\ state \notin Terminal
  /\ EmitExit("errored")
  /\ UNCHANGED <<alive, child, pipe, client, requests, spoken>>

\* Mutant: every `exit' of the process ends the session.
ExitEvent_Unguarded(s) ==
  /\ alive
  /\ \/ proc = "failed"
     \/ proc = "dead" /\ (pipe = <<>> \/ "late" \in Behaviours)
  /\ proc' = "closed"
  /\ EmitExit(s)
  /\ UNCHANGED <<alive, child, pipe, client, requests, spoken>>

\* `exit' with the code that means s; after an `error' it may still come, and is
\* ignored.  Node may report it before the output was read to its end.
ExitEvent(s) ==
  /\ alive
  /\ \/ proc = "failed"
     \/ proc = "dead" /\ (pipe = <<>> \/ "late" \in Behaviours)
  /\ proc' = "closed"
  /\ IF state \in Terminal THEN UNCHANGED <<state, wire, exits, listed>> ELSE EmitExit(s)
  /\ UNCHANGED <<alive, child, pipe, client, requests, spoken>>

\* Mutant: a result does not end the turn.
HandleEvent_ResultIgnored ==
  /\ alive /\ pipe # <<>>
  /\ pipe' = Tail(pipe)
  /\ IF Head(pipe) \in DOMAIN derived \ {"result"}
       THEN SetState(derived[Head(pipe)]) ELSE UNCHANGED <<state, wire>>
  /\ UNCHANGED <<alive, proc, child, exits, listed, client, requests, spoken>>

\* Mutant: the state is changed and not broadcast.
HandleEvent_Silent ==
  /\ alive /\ pipe # <<>>
  /\ pipe' = Tail(pipe)
  /\ state' = IF Head(pipe) \in DOMAIN derived THEN derived[Head(pipe)] ELSE state
  /\ UNCHANGED <<alive, proc, child, exits, listed, wire, client, requests, spoken>>

\* handleEvent for the next line of output.
HandleEvent ==
  /\ alive /\ pipe # <<>>
  /\ pipe' = Tail(pipe)
  /\ IF Head(pipe) \in DOMAIN derived
       THEN SetState(derived[Head(pipe)]) ELSE UNCHANGED <<state, wire>>
  /\ UNCHANGED <<alive, proc, child, exits, listed, client, requests, spoken>>

----------------------------------------------------------------------------
(* Commands.                                                               *)

\* A command finds the session in the map, and the session takes it.
Steerable == alive /\ listed /\ state \notin Terminal /\ requests < MaxRequests

\* write: a child that died, and was not reaped yet, reads nothing any more.
Write(request) ==
  /\ requests' = requests + 1
  /\ IF proc = "dead" THEN UNCHANGED stdin ELSE stdin' = Append(stdin, request)
  /\ UNCHANGED <<alive, proc, busy, inited, stopped, pipe, exits, listed, client, spoken>>

\* send.
Send ==
  /\ Steerable
  /\ Write("user")
  /\ SetState("working")

\* interrupt, set_model and set_permission_mode in a mode that is allowed: a control
\* request, the state is left alone.
Control(request) ==
  /\ Steerable
  /\ request = "interrupt" => "interrupt" \in Behaviours
  /\ Write(request)
  /\ UNCHANGED <<state, wire>>

\* The same write to a broken pipe: nobody listens to the `error' of stdin, which
\* is raised after the guarded handler has returned.
WriteBreaks ==
  /\ Steerable
  /\ proc = "dead" /\ "epipe" \in Behaviours
  /\ requests' = requests + 1
  /\ alive' = FALSE
  /\ UNCHANGED <<proc, child, pipe, state, exits, listed, wire, client, spoken>>

----------------------------------------------------------------------------
(* The child process, as the daemon relies on it.                          *)

\* It reads a request.
ClaudeReads ==
  /\ proc = "running" /\ stdin # <<>>
  /\ stdin' = Tail(stdin)
  /\ \/ /\ Head(stdin) = "user"
        /\ ~busy
        /\ busy' = TRUE
        /\ inited' = TRUE
        /\ pipe' = IF inited THEN pipe ELSE Append(pipe, "init")
        /\ UNCHANGED stopped
     \/ /\ Head(stdin) # "user"
        /\ busy' = (busy /\ Head(stdin) # "interrupt")
        /\ stopped' = (stopped \/ busy # busy')
        /\ pipe' = Append(pipe, "control_response")
        /\ UNCHANGED inited
  /\ UNCHANGED <<alive, proc, state, exits, listed, wire, client, requests, spoken>>

\* It reports progress of the turn.
ClaudeSpeaks(line) ==
  /\ proc = "running" /\ busy
  /\ spoken < MaxSpoken
  /\ spoken' = spoken + 1
  /\ pipe' = Append(pipe, line)
  /\ UNCHANGED <<alive, proc, child, state, exits, listed, wire, client, requests>>

\* It ends the turn.
ClaudeFinishes ==
  /\ proc = "running" /\ busy
  /\ busy' = FALSE
  /\ pipe' = Append(pipe, "result")
  /\ UNCHANGED <<alive, proc, stdin, inited, stopped, state, exits, listed, wire, client, requests, spoken>>

\* It ends, for whatever reason.
ClaudeDies ==
  /\ proc = "running"
  /\ proc' = "dead"
  /\ stdin' = <<>>
  /\ busy' = FALSE
  /\ UNCHANGED <<alive, inited, stopped, pipe, state, exits, listed, wire, client, requests, spoken>>

----------------------------------------------------------------------------
(* The client.                                                             *)

\* applyEvent: session_update, or a session_list with or without the session.
Receive ==
  /\ wire # <<>>
  /\ shown' = Head(wire)
  /\ wire' = Tail(wire)
  /\ UNCHANGED <<alive, proc, child, pipe, state, exits, listed, resyncs, requests, spoken>>

\* The client connects again and is sent the snapshot.
Resync ==
  /\ alive /\ resyncs < MaxResyncs
  /\ resyncs' = resyncs + 1
  /\ wire' = <<IF listed THEN state ELSE "absent">>
  /\ UNCHANGED <<alive, proc, child, pipe, state, exits, listed, shown, requests, spoken>>

Next ==
  \/ Spawned \/ SpawnError \/ HandleEvent
  \/ \E s \in Terminal : ExitEvent(s)
  \/ Send \/ WriteBreaks
  \/ \E request \in {"interrupt", "set_model", "set_permission_mode"} : Control(request)
  \/ ClaudeReads \/ ClaudeFinishes \/ ClaudeDies
  \/ \E line \in Spoken : ClaudeSpeaks(line)
  \/ Receive \/ Resync

Spec == Init /\ [][Next]_vars

\* The event loop runs every callback in the end; the child starts or fails to, reads
\* its input and ends its turns.
Fairness ==
  /\ WF_vars(Spawned \/ SpawnError) /\ WF_vars(HandleEvent)
  /\ WF_vars(\E s \in Terminal : ExitEvent(s))
  /\ WF_vars(ClaudeReads) /\ WF_vars(ClaudeFinishes) /\ WF_vars(Receive)

FairSpec == Spec /\ Fairness

----------------------------------------------------------------------------
(* Properties.                                                             *)

\* The session ends once: of `error' and `exit', in whatever order and however late
\* they come, at most one gives the job queue its slot back, and it takes the session
\* out of the map.
EndsOnce == exits <= 1 /\ (listed <=> exits = 0)

\* A screen that has heard everything shows what is: the state of a live session, and
\* never a live state for a session that ended and was not set back by late output.
ScreenIsTrue ==
  wire = <<>> =>
    /\ listed => shown = state
    /\ ~listed /\ state \in Terminal => shown \in Terminal \cup {"absent"}

\* A session that works stops working: its turn or its process ends.  Excepted are
\* sessions whose turn was interrupted, dead ones that late output set back, and the
\* death of the daemon.
EventuallySettles ==
  state = "working" ~> state # "working" \/ stopped \/ ~listed \/ ~alive

=============================================================================
