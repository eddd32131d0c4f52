--------------------------- MODULE SessionsProofs ---------------------------
(***************************************************************************)
(* Proofs about one headless session, for any combination of interrupts,   *)
(* late output and broken pipes, and any number of requests, output lines  *)
(* and reconnections.                                                      *)
(***************************************************************************)
EXTENDS Sessions, TLAPS

Procs == {"starting", "running", "dead", "failed", "closed"}
Lines == Spoken \cup {"init", "control_response", "result"}
Requests == {"user", "interrupt", "set_model", "set_permission_mode"}
Screens == States \cup {"absent"}

TypeOK ==
  /\ alive \in BOOLEAN /\ listed \in BOOLEAN
  /\ busy \in BOOLEAN /\ inited \in BOOLEAN /\ stopped \in BOOLEAN
  /\ proc \in Procs
  /\ stdin \in Seq(Requests)
  /\ pipe \in Seq(Lines)
  /\ state \in States
  /\ exits \in Nat
  /\ wire \in Seq(Screens) /\ shown \in Screens

\* Until Node reports how the child went, the session is in the map and has not ended;
\* the `exit' after an `error' finds it ended, and no output can have come in between
\* to set it back.
EndsWithChild ==
  /\ proc \in {"starting", "running", "dead"} => exits = 0 /\ state \notin Terminal
  /\ proc \in {"failed", "closed"} => exits = 1
  /\ proc \in {"starting", "failed"} => pipe = <<>>
  /\ proc = "failed" => state \in Terminal

\* What the screen will show once it has heard everything.
Latest == IF wire = <<>> THEN shown ELSE wire[Len(wire)]

\* It is the state of a session in the map, and no live state for one that ended.
LatestIsTrue ==
  /\ listed => Latest = state
  /\ ~listed /\ state \in Terminal => Latest \in Terminal \cup {"absent"}

IInv == TypeOK /\ EndsWithChild /\ EndsOnce /\ LatestIsTrue

----------------------------------------------------------------------------
\* The initial state satisfies the invariant.
LEMMA InitIInv == Init => IInv
  <1> SUFFICES ASSUME Init PROVE IInv
    OBVIOUS
  <1> USE DEF Init, States, Terminal, Screens
  <1>1. TypeOK
    <2>1. "starting" \in Screens /\ <<"starting">> \in Seq(Screens)
      OBVIOUS
    <2>2. stdin \in Seq(Requests) /\ pipe \in Seq(Lines)
      OBVIOUS
    <2> QED
      BY <2>1, <2>2 DEF TypeOK, Procs
  <1>2. EndsWithChild /\ EndsOnce
    BY DEF EndsWithChild, EndsOnce
  <1>3. LatestIsTrue
    BY DEF LatestIsTrue, Latest
  <1> QED
    BY <1>1, <1>2, <1>3 DEF IInv

\* A line of output implies a live state: nothing Claude says ends a session.
LEMMA DerivedIsLive ==
  ASSUME NEW line \in DOMAIN derived
  PROVE  derived[line] \in States \ Terminal
  BY DEF derived, States, Terminal

\* A broadcast is the last thing the screen hears.
LEMMA SetStateShows ==
  ASSUME TypeOK, NEW s \in States, SetState(s), UNCHANGED shown
  PROVE  /\ state' = s
         /\ wire' \in Seq(Screens)
         /\ Latest' = IF s = state THEN Latest ELSE s
  <1>1. CASE s = state
    BY <1>1 DEF SetState, TypeOK, Latest
  <1>2. CASE s # state
    <2>1. wire' = Append(wire, s) /\ s \in Screens
      BY <1>2 DEF SetState, Screens
    <2>2. wire' \in Seq(Screens) /\ wire' # <<>> /\ wire'[Len(wire')] = s
      BY <2>1 DEF TypeOK
    <2> QED
      BY <1>2, <2>2 DEF SetState, Latest
  <1> QED
    BY <1>1, <1>2

\* So is the end of the session, which takes it out of the map.
LEMMA EmitExitShows ==
  ASSUME TypeOK, NEW s \in Terminal, EmitExit(s)
  PROVE  /\ state' = s /\ state' \in States
         /\ wire' \in Seq(Screens)
         /\ Latest' = s
         /\ exits' = exits + 1 /\ ~listed'
  <1>1. s \in Screens /\ s \in States
    BY DEF Screens, States
  <1>2. wire' = wire \o <<s, s>>
    BY DEF EmitExit
  <1>3. /\ wire' \in Seq(Screens) /\ wire' # <<>>
        /\ Len(wire') = Len(wire) + 2 /\ wire'[Len(wire) + 2] = s
    BY <1>1, <1>2 DEF TypeOK
  <1> QED
    BY <1>1, <1>3 DEF EmitExit, Latest

\* Every step keeps the invariant.
LEMMA NextIInv == IInv /\ [Next]_vars => IInv'
  <1> SUFFICES ASSUME IInv, [Next]_vars PROVE IInv'
    OBVIOUS
  <1> USE SessionsAssumption DEF IInv, child, client
  <1>1. CASE Spawned
    <2>1. /\ state' \in States \ Terminal /\ wire' \in Seq(Screens)
          /\ Latest' = IF state' = state THEN Latest ELSE state'
      <3>1. CASE state = "starting"
        <4>1. SetState("ready") /\ UNCHANGED shown /\ "ready" \in States \ Terminal
          BY <1>1, <3>1 DEF Spawned, States, Terminal
        <4> QED
          BY <4>1, SetStateShows
      <3>2. CASE state # "starting"
        BY <1>1, <3>2 DEF Spawned, TypeOK, Latest, EndsWithChild
      <3> QED
        BY <3>1, <3>2
    <2>2. TypeOK'
      BY <1>1, <2>1 DEF Spawned, TypeOK, Procs
    <2>3. EndsWithChild'
      BY <1>1, <2>1 DEF Spawned, EndsWithChild
    <2>4. EndsOnce'
      BY <1>1 DEF Spawned, EndsOnce
    <2>5. LatestIsTrue'
      BY <1>1, <2>1 DEF Spawned, LatestIsTrue, EndsWithChild, EndsOnce
    <2> QED
      BY <2>2, <2>3, <2>4, <2>5
  <1>2. CASE SpawnError
    <2>1. /\ state' = "errored" /\ state' \in States /\ state' \in Terminal
          /\ wire' \in Seq(Screens) /\ Latest' = "errored"
          /\ exits' = exits + 1 /\ ~listed'
      BY <1>2, EmitExitShows DEF SpawnError, Terminal
    <2>2. listed' \in BOOLEAN
      BY <1>2 DEF SpawnError, EmitExit
    <2>3. exits' = 1
      BY <1>2, <2>1 DEF SpawnError, EndsWithChild
    <2>4. TypeOK'
      BY <1>2, <2>1, <2>2, <2>3 DEF SpawnError, TypeOK, Procs
    <2>5. EndsWithChild'
      BY <1>2, <2>1, <2>3 DEF SpawnError, EndsWithChild
    <2>6. EndsOnce'
      BY <2>1, <2>3 DEF EndsOnce
    <2>7. LatestIsTrue'
      BY <2>1 DEF LatestIsTrue
    <2> QED
      BY <2>4, <2>5, <2>6, <2>7
  <1>3. CASE HandleEvent
    <2>1. /\ state' \in States /\ wire' \in Seq(Screens)
          /\ state' = state \/ state' \notin Terminal
          /\ Latest' = IF state' = state THEN Latest ELSE state'
      <3>1. CASE Head(pipe) \in DOMAIN derived
        <4>1. derived[Head(pipe)] \in States \ Terminal
          BY <3>1, DerivedIsLive
        <4>2. SetState(derived[Head(pipe)]) /\ UNCHANGED shown
          BY <1>3, <3>1 DEF HandleEvent
        <4> QED
          BY <4>1, <4>2, SetStateShows
      <3>2. CASE Head(pipe) \notin DOMAIN derived
        BY <1>3, <3>2 DEF HandleEvent, TypeOK, Latest
      <3> QED
        BY <3>1, <3>2
    <2>2. pipe' \in Seq(Lines)
      BY <1>3 DEF HandleEvent, TypeOK
    <2>3. TypeOK'
      BY <1>3, <2>1, <2>2 DEF HandleEvent, TypeOK
    <2>4. EndsWithChild'
      BY <1>3, <2>1 DEF HandleEvent, EndsWithChild
    <2>5. EndsOnce'
      BY <1>3 DEF HandleEvent, EndsOnce
    <2>6. LatestIsTrue'
      BY <1>3, <2>1 DEF HandleEvent, LatestIsTrue
    <2> QED
      BY <2>3, <2>4, <2>5, <2>6
  <1>4. ASSUME NEW s \in Terminal, ExitEvent(s) PROVE IInv'
    <2>1. CASE state \in Terminal
      <3>1. proc = "failed"
        BY <1>4, <2>1 DEF ExitEvent, EndsWithChild
      <3>2. TypeOK'
        BY <1>4, <2>1 DEF ExitEvent, TypeOK, Procs
      <3>3. EndsWithChild' /\ EndsOnce'
        BY <1>4, <2>1, <3>1 DEF ExitEvent, EndsWithChild, EndsOnce
      <3>4. LatestIsTrue'
        BY <1>4, <2>1 DEF ExitEvent, LatestIsTrue, Latest
      <3> QED
        BY <3>2, <3>3, <3>4
    <2>2. CASE state \notin Terminal
      <3>1. proc = "dead"
        BY <1>4, <2>2 DEF ExitEvent, EndsWithChild
      <3>2. EmitExit(s)
        BY <1>4, <2>2 DEF ExitEvent
      <3>3. /\ state' \in States /\ state' \in Terminal
            /\ wire' \in Seq(Screens) /\ Latest' \in Terminal
            /\ exits' = exits + 1 /\ ~listed'
        BY <1>4, <3>2, EmitExitShows
      <3>4. listed' \in BOOLEAN
        BY <3>2 DEF EmitExit
      <3>5. exits' = 1
        BY <3>1, <3>3 DEF EndsWithChild
      <3>6. TypeOK'
        BY <1>4, <3>3, <3>4, <3>5 DEF ExitEvent, TypeOK, Procs
      <3>7. EndsWithChild' /\ EndsOnce'
        BY <1>4, <3>3, <3>5 DEF ExitEvent, EndsWithChild, EndsOnce
      <3>8. LatestIsTrue'
        BY <3>3 DEF LatestIsTrue
      <3> QED
        BY <3>6, <3>7, <3>8
    <2> QED
      BY <2>1, <2>2
  <1>5. CASE Send
    <2>1. /\ state' \in States \ Terminal /\ wire' \in Seq(Screens)
          /\ Latest' = IF state' = state THEN Latest ELSE state'
      <3>1. SetState("working") /\ UNCHANGED shown /\ "working" \in States \ Terminal
        BY <1>5 DEF Send, Write, States, Terminal
      <3> QED
        BY <3>1, SetStateShows
    <2>2. stdin' \in Seq(Requests)
      BY <1>5 DEF Send, Write, TypeOK, Requests
    <2>3. TypeOK'
      BY <1>5, <2>1, <2>2 DEF Send, Write, TypeOK
    <2>4. EndsWithChild'
      BY <1>5, <2>1 DEF Send, Steerable, Write, EndsWithChild, EndsOnce
    <2>5. EndsOnce'
      BY <1>5 DEF Send, Write, EndsOnce
    <2>6. LatestIsTrue'
      BY <1>5, <2>1 DEF Send, Steerable, Write, LatestIsTrue
    <2> QED
      BY <2>3, <2>4, <2>5, <2>6
  <1>6. CASE WriteBreaks
    <2>1. TypeOK'
      BY <1>6 DEF WriteBreaks, Steerable, TypeOK, Lines, Screens, Procs, Requests
    <2>2. EndsWithChild'
      BY <1>6 DEF WriteBreaks, Steerable, EndsWithChild, EndsOnce
    <2>3. EndsOnce'
      BY <1>6 DEF WriteBreaks, Steerable, EndsWithChild, EndsOnce
    <2>4. LatestIsTrue'
      BY <1>6 DEF WriteBreaks, Steerable, LatestIsTrue, Latest
    <2> QED
      BY <2>1, <2>2, <2>3, <2>4
  <1>7. ASSUME NEW request \in {"interrupt", "set_model", "set_permission_mode"}, Control(request) PROVE IInv'
    <2>1. TypeOK'
      BY <1>7 DEF Control, Steerable, Write, TypeOK, Lines, Screens, Procs, Requests
    <2>2. EndsWithChild'
      BY <1>7 DEF Control, Steerable, Write, EndsWithChild, EndsOnce
    <2>3. EndsOnce'
      BY <1>7 DEF Control, Steerable, Write, EndsWithChild, EndsOnce
    <2>4. LatestIsTrue'
      BY <1>7 DEF Control, Steerable, Write, LatestIsTrue, Latest
    <2> QED
      BY <2>1, <2>2, <2>3, <2>4
  <1>8. CASE ClaudeReads
    <2>1. TypeOK'
      <3>1. stdin' \in Seq(Requests)
        BY <1>8 DEF ClaudeReads, TypeOK
      <3>2. Append(pipe, "init") \in Seq(Lines) /\ Append(pipe, "control_response") \in Seq(Lines)
        BY DEF TypeOK, Lines
      <3>3. pipe' \in Seq(Lines)
        BY <1>8, <3>2 DEF ClaudeReads, TypeOK
      <3>4. busy' \in BOOLEAN /\ inited' \in BOOLEAN /\ stopped' \in BOOLEAN
        BY <1>8 DEF ClaudeReads, TypeOK
      <3> QED
        BY <1>8, <3>1, <3>2, <3>3, <3>4 DEF ClaudeReads, TypeOK
    <2>2. EndsWithChild'
      BY <1>8 DEF ClaudeReads, EndsWithChild, EndsOnce
    <2>3. EndsOnce'
      BY <1>8 DEF ClaudeReads, EndsWithChild, EndsOnce
    <2>4. LatestIsTrue'
      BY <1>8 DEF ClaudeReads, LatestIsTrue, Latest
    <2> QED
      BY <2>1, <2>2, <2>3, <2>4
  <1>9. CASE ClaudeFinishes
    <2>1. TypeOK'
      <3>1. pipe' \in Seq(Lines)
        BY <1>9 DEF ClaudeFinishes, TypeOK, Lines
      <3>2. busy' \in BOOLEAN
        BY <1>9 DEF ClaudeFinishes
      <3> QED
        BY <1>9, <3>1, <3>2 DEF ClaudeFinishes, TypeOK
    <2>2. EndsWithChild'
      BY <1>9 DEF ClaudeFinishes, EndsWithChild, EndsOnce
    <2>3. EndsOnce'
      BY <1>9 DEF ClaudeFinishes, EndsWithChild, EndsOnce
    <2>4. LatestIsTrue'
      BY <1>9 DEF ClaudeFinishes, LatestIsTrue, Latest
    <2> QED
      BY <2>1, <2>2, <2>3, <2>4
  <1>10. CASE ClaudeDies
    <2>1. TypeOK'
      <3>1. stdin' \in Seq(Requests) /\ proc' \in Procs
        BY <1>10 DEF ClaudeDies, Procs
      <3>2. busy' \in BOOLEAN
        BY <1>10 DEF ClaudeDies
      <3> QED
        BY <1>10, <3>1, <3>2 DEF ClaudeDies, TypeOK
    <2>2. EndsWithChild'
      BY <1>10 DEF ClaudeDies, EndsWithChild, EndsOnce
    <2>3. EndsOnce'
      BY <1>10 DEF ClaudeDies, EndsWithChild, EndsOnce
    <2>4. LatestIsTrue'
      BY <1>10 DEF ClaudeDies, LatestIsTrue, Latest
    <2> QED
      BY <2>1, <2>2, <2>3, <2>4
  <1>11. ASSUME NEW line \in Spoken, ClaudeSpeaks(line) PROVE IInv'
    <2>1. TypeOK'
      BY <1>11 DEF ClaudeSpeaks, TypeOK, Lines, Screens, Procs, Requests
    <2>2. EndsWithChild'
      BY <1>11 DEF ClaudeSpeaks, EndsWithChild, EndsOnce
    <2>3. EndsOnce'
      BY <1>11 DEF ClaudeSpeaks, EndsWithChild, EndsOnce
    <2>4. LatestIsTrue'
      BY <1>11 DEF ClaudeSpeaks, LatestIsTrue, Latest
    <2> QED
      BY <2>1, <2>2, <2>3, <2>4
  <1>12. CASE Receive
    <2>1. TypeOK'
      BY <1>12 DEF Receive, TypeOK, Lines, Screens, Procs, Requests
    <2>2. EndsWithChild'
      BY <1>12 DEF Receive, EndsWithChild, EndsOnce
    <2>3. EndsOnce'
      BY <1>12 DEF Receive, EndsWithChild, EndsOnce
    <2>4. LatestIsTrue'
      <3>1. Latest' = Latest
        <4>1. /\ wire \in Seq(Screens) /\ wire # <<>> /\ Len(wire) \in Nat \ {0}
              /\ Len(Tail(wire)) = Len(wire) - 1
              /\ \A i \in 1..(Len(wire) - 1) : Tail(wire)[i] = wire[i + 1]
          BY <1>12 DEF Receive, TypeOK
        <4>2. CASE Tail(wire) = <<>>
          <5>1. Len(wire) = 1
            <6>1. Len(Tail(wire)) = 0
              BY <4>2
            <6> QED
              BY <4>1, <6>1
          <5> QED
            BY <1>12, <4>1, <4>2, <5>1 DEF Receive, Latest
        <4>3. CASE Tail(wire) # <<>>
          <5>1. Len(Tail(wire)) # 0
            BY <4>1, <4>3
          <5>2. Tail(wire)[Len(Tail(wire))] = wire[Len(wire)]
            BY <4>1, <5>1
          <5> QED
            BY <1>12, <4>1, <4>3, <5>2 DEF Receive, Latest
        <4> QED
          BY <4>2, <4>3
      <3> QED
        BY <1>12, <3>1 DEF Receive, LatestIsTrue
    <2> QED
      BY <2>1, <2>2, <2>3, <2>4
  <1>13. CASE Resync
    <2>1. TypeOK'
      BY <1>13 DEF Resync, TypeOK, Lines, Screens, Procs, Requests
    <2>2. EndsWithChild'
      BY <1>13 DEF Resync, EndsWithChild, EndsOnce
    <2>3. EndsOnce'
      BY <1>13 DEF Resync, EndsWithChild, EndsOnce
    <2>4. LatestIsTrue'
      BY <1>13 DEF Resync, LatestIsTrue, Latest
    <2> QED
      BY <2>1, <2>2, <2>3, <2>4
  <1>14. CASE UNCHANGED vars
    BY <1>14 DEF vars, TypeOK, EndsWithChild, EndsOnce, LatestIsTrue, Latest
  <1> QED
    BY <1>1, <1>2, <1>3, <1>4, <1>5, <1>6, <1>7,
       <1>8, <1>9, <1>10, <1>11, <1>12, <1>13, <1>14 DEF Next

----------------------------------------------------------------------------
\* The invariant holds in every reachable state.
THEOREM Invariance == Spec => []IInv
  BY InitIInv, NextIInv, PTL DEF Spec

\* Of the `error' and `exit' callbacks of a child (session.ts), in whatever order and
\* however late after its output, at most one ends the session, and the session is in
\* the fleet map exactly until then.
THEOREM SessionEndsOnce == Spec => []EndsOnce
  <1>1. IInv => EndsOnce
    BY DEF IInv
  <1> QED
    BY Invariance, <1>1, PTL

\* A client that has received every broadcast and snapshot shows the state of a listed
\* session, and shows no live state for a session that ended.
THEOREM ScreenShowsState == Spec => []ScreenIsTrue
  <1>1. IInv => ScreenIsTrue
    BY DEF IInv, LatestIsTrue, Latest, ScreenIsTrue
  <1> QED
    BY Invariance, <1>1, PTL

=============================================================================
