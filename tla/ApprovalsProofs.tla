-------------------------- MODULE ApprovalsProofs ---------------------------
(***************************************************************************)
(* Proofs about the approval path, for any set of requests, ids, devices   *)
(* and sessions, any assignment of ids to requests (collisions included),  *)
(* any combination of faults and any bound on restarts and age-outs.  The  *)
(* last two theorems name the faults they exclude.                         *)
(***************************************************************************)
EXTENDS Approvals, TLAPS

\* Before its socket is accepted, nothing was asked or answered for a request.
QuietBefore ==
  \A r \in Reqs :
    /\ bridge[r] \in {"idle", "dialing"} => conn[r] = "none"
    /\ conn[r] = "none" => ~up[r] /\ answers[r] = <<>> /\ down[r] = <<>>
    /\ bridge[r] # "done" => verdict[r] = "none"

\* A request whose line is still on its way is unknown to the broker.
AskedOnce ==
  \A r \in Reqs : up[r] => answers[r] = <<>> /\ \A id \in Ids : pending[id].req # r

\* An entry belongs to the request that presented its id, which has heard
\* nothing as long as the entry is undecided.
EntryOfRequest ==
  \A id \in Ids : Known(id) =>
    /\ IdOf[pending[id].req] = id
    /\ conn[pending[id].req] # "none"
    /\ Undecided(id) => answers[pending[id].req] = <<>>

\* The answer a request got, if any, is the only one, and the only line its
\* socket can hold; only a device allows.
AnswerAt(r) ==
  \/ answers[r] = <<>> /\ down[r] = <<>>
  \/ \E a \in Answer :
       /\ answers[r] = <<a>>
       /\ a.decision = "allow" => a.by \in Devices
       /\ down[r] \in {<<>>, <<a.decision>>}

AnswersSound == \A r \in Reqs : AnswerAt(r)

\* A verdict to allow repeats the answer.
VerdictSound ==
  \A r \in Reqs : verdict[r] = "allow" =>
    answers[r] # <<>> /\ answers[r][1].decision = "allow"

\* Only a decided entry has its timer armed.
TimerAfterDecision ==
  \A id \in Ids : pending[id].timer => pending[id].decision # "none"

IInv ==
  /\ TypeOK
  /\ TimerAfterDecision
  /\ QuietBefore
  /\ AskedOnce
  /\ EntryOfRequest
  /\ WaiterExact
  /\ AnswersSound
  /\ VerdictSound

----------------------------------------------------------------------------
\* The initial state satisfies the invariant.
LEMMA InitInv == Init => IInv
  BY ConstantsAssumption
  DEF Init, IInv, TypeOK, QuietBefore, AskedOnce, EntryOfRequest, WaiterExact,
      AnswersSound, AnswerAt, VerdictSound, TimerAfterDecision, NoEntry, NoRow, Entry,
      Row, Known, Undecided, Phases, Decisions, Deciders, Answer

\* Type correctness of the part decide() and abandon() share.
LEMMA RespondType ==
  ASSUME TypeOK, NEW id \in Ids, NEW decision \in Decisions, NEW by \in Deciders,
         Respond(id, decision, by)
  PROVE  /\ answers' \in [Reqs -> Seq(Answer)]
         /\ down' \in [Reqs -> Seq(Decisions)]
  <1>1. waiters[id] \in Reqs \cup {NoReq}
    BY DEF TypeOK
  <1>2. [decision |-> decision, by |-> by] \in Answer
    BY DEF Answer
  <1>3. CASE waiters[id] = NoReq
    BY <1>3 DEF TypeOK, Respond
  <1>4. CASE waiters[id] \in Reqs
    <2>1. answers' = [answers EXCEPT ![waiters[id]] =
                        Append(@, [decision |-> decision, by |-> by])]
      BY <1>4, ConstantsAssumption DEF Respond
    <2>2. \/ down' = [down EXCEPT ![waiters[id]] = Append(@, decision)]
          \/ down' = down
      BY <1>4, ConstantsAssumption DEF Respond
    <2>3. answers' \in [Reqs -> Seq(Answer)]
      BY <1>2, <1>4, <2>1 DEF TypeOK
    <2>4. down' \in [Reqs -> Seq(Decisions)]
      <3>1. Append(down[waiters[id]], decision) \in Seq(Decisions)
        BY <1>4 DEF TypeOK
      <3> QED
        BY <1>4, <2>2, <3>1 DEF TypeOK
    <2> QED
      BY <2>3, <2>4
  <1> QED
    BY <1>1, <1>3, <1>4

\* decide() and abandon(), with the row they update, keep the types.
LEMMA ResolveType ==
  ASSUME TypeOK, NEW id \in Ids, NEW decision \in Decisions, NEW by \in Deciders,
         NEW recorded \in BOOLEAN, Resolve(id, decision, by, recorded)
  PROVE  /\ answers' \in [Reqs -> Seq(Answer)]
         /\ down' \in [Reqs -> Seq(Decisions)]
         /\ waiters' \in [Ids -> Reqs \cup {NoReq}]
         /\ tracked' \in [Sessions -> SUBSET Ids]
         /\ pending' \in [Ids -> Entry]
         /\ audit' \in [Ids -> Row]
  <1>1. /\ answers' \in [Reqs -> Seq(Answer)]
        /\ down' \in [Reqs -> Seq(Decisions)]
    BY RespondType DEF Resolve
  <1>2. waiters' \in [Ids -> Reqs \cup {NoReq}]
    BY DEF Resolve, TypeOK
  <1>3. tracked' \in [Sessions -> SUBSET Ids]
    BY DEF Resolve, TypeOK
  <1>4. pending' \in [Ids -> Entry]
    BY DEF Resolve, TypeOK, Entry, DecidedEntry
  <1>5. audit' \in [Ids -> Row]
    <2>1. DecidedRow(audit[id], decision, by) \in Row
      BY DEF TypeOK, Row, DecidedRow
    <2>2. audit' = audit \/ audit' = [audit EXCEPT ![id] = DecidedRow(audit[id], decision, by)]
      BY DEF Resolve, UpdateRow
    <2> QED
      BY <2>1, <2>2 DEF TypeOK
  <1> QED
    BY <1>1, <1>2, <1>3, <1>4, <1>5

\* The daemon's death keeps the types.
LEMMA PerishType ==
  ASSUME TypeOK, Perish
  PROVE  /\ restarts' \in 0..MaxRestarts
         /\ alive' \in BOOLEAN
         /\ pending' \in [Ids -> Entry]
         /\ waiters' \in [Ids -> Reqs \cup {NoReq}]
         /\ claimed' \subseteq Reqs
         /\ tracked' \in [Sessions -> SUBSET Ids]
         /\ conn' \in [Reqs -> {"none", "open", "closed"}]
         /\ up' \in [Reqs -> BOOLEAN]
  <1>1. NoEntry \in Entry
    BY DEF NoEntry, Entry
  <1>2. restarts' \in 0..MaxRestarts
    BY ConstantsAssumption DEF TypeOK, Perish
  <1>3. conn' \in [Reqs -> {"none", "open", "closed"}]
    BY DEF TypeOK, Perish
  <1> QED
    BY <1>1, <1>2, <1>3 DEF Perish

\* Every step keeps the types.
LEMMA NextType == TypeOK /\ [Next]_vars => TypeOK'
  <1> SUFFICES ASSUME TypeOK, [Next]_vars PROVE TypeOK'
    OBVIOUS
  <1> USE ConstantsAssumption
  <1>1. ASSUME NEW r \in Reqs, BridgeStep(r) PROVE TypeOK'
    <2>1. CASE StartHook(r)
      BY <2>1 DEF TypeOK, StartHook, memVars, Phases
    <2>2. CASE Connect(r)
      BY <2>2 DEF TypeOK, Connect, memVars, Phases
    <2>3. CASE ReadDecision(r)
      <3>1. Tail(down[r]) \in Seq(Decisions)
        BY <2>3 DEF TypeOK, ReadDecision
      <3> QED
        BY <2>3, <3>1 DEF TypeOK, ReadDecision, Settle, memVars, Phases, Decisions
    <2>4. CASE SelfDeny(r) \/ SocketLost(r)
      <3>1. /\ bridge' = [bridge EXCEPT ![r] = "done"]
            /\ verdict' = [verdict EXCEPT ![r] = "deny"]
            /\ UNCHANGED <<conn, up, down, memVars, audit, answers, restarts, ageouts>>
        BY <2>4 DEF SelfDeny, SocketLost, Settle
      <3>2. bridge' \in [Reqs -> Phases] /\ verdict' \in [Reqs -> Decisions \cup {"none"}]
        BY <3>1 DEF TypeOK, Phases, Decisions
      <3> QED
        BY <3>1, <3>2 DEF TypeOK, memVars
    <2>5. CASE KillHook(r)
      BY <2>5 DEF TypeOK, KillHook, memVars, Phases
    <2> QED
      BY <1>1, <2>1, <2>2, <2>3, <2>4, <2>5 DEF BridgeStep
  <1>2. ASSUME NEW r \in Reqs, NEW s \in Sessions \cup {NoSession}, RequestOpened(r, s)
        PROVE TypeOK'
    <2>1. IdOf[r] \in Ids
      OBVIOUS
    <2>2. pending' \in [Ids -> Entry] /\ waiters' \in [Ids -> Reqs \cup {NoReq}]
      BY <1>2, <2>1 DEF TypeOK, RequestOpened, OpenEntry, Entry
    <2>3. audit' \in [Ids -> Row]
      BY <1>2, <2>1 DEF TypeOK, RequestOpened, InsertRow, Row
    <2>4. tracked' \in [Sessions -> SUBSET Ids] /\ claimed' \subseteq Reqs
      <3>1. CASE UNCHANGED <<claimed, tracked>>
        BY <3>1 DEF TypeOK
      <3>2. CASE /\ claimed' = claimed \cup {r}
                 /\ tracked' = [t \in Sessions |->
                      IF t = s THEN tracked[t] \cup {IdOf[r]} ELSE tracked[t]]
        BY <2>1, <3>2 DEF TypeOK
      <3> QED
        BY <1>2, <3>1, <3>2 DEF RequestOpened
    <2> QED
      BY <1>2, <2>2, <2>3, <2>4 DEF TypeOK, RequestOpened
  <1>3. ASSUME NEW r \in Reqs, RequestRejected(r) PROVE TypeOK'
    <2>1. [decision |-> "deny", by |-> "duplicate"] \in Answer
      BY DEF Answer, Decisions, Deciders
    <2> QED
      BY <1>3, <2>1 DEF TypeOK, RequestRejected, memVars, Decisions
  <1>4. ASSUME NEW r \in Reqs, HookClosed(r) PROVE TypeOK'
    <2>1. "deny" \in Decisions /\ "daemon" \in Deciders /\ IdOf[r] \in Ids
      BY DEF Decisions, Deciders
    <2>2. CASE Resolve(IdOf[r], "deny", "daemon", TRUE)
               /\ conn' = [conn EXCEPT ![r] = "closed"]
               /\ up' = [up EXCEPT ![r] = FALSE]
               /\ UNCHANGED <<alive, claimed, restarts>>
      BY <1>4, <2>1, <2>2, ResolveType DEF TypeOK, HookClosed
    <2>3. CASE Respond(IdOf[r], "deny", "daemon") /\ Perish /\ UNCHANGED audit
      BY <1>4, <2>1, <2>3, RespondType, PerishType DEF TypeOK, HookClosed
    <2>4. CASE /\ conn' = [conn EXCEPT ![r] = "closed"]
               /\ up' = [up EXCEPT ![r] = FALSE]
               /\ UNCHANGED <<down, memVars, audit, answers, restarts>>
      BY <1>4, <2>4 DEF TypeOK, HookClosed, memVars
    <2> QED
      BY <1>4, <2>2, <2>3, <2>4 DEF HookClosed
  <1>5. ASSUME NEW d \in Devices, NEW id \in Ids, NEW decision \in Decisions,
               DecideWins(d, id, decision)
        PROVE TypeOK'
    <2>1. d \in Deciders
      BY DEF Deciders
    <2>2. PICK recorded \in BOOLEAN : Resolve(id, decision, d, recorded)
      BY <1>5 DEF DecideWins
    <2> QED
      BY <1>5, <2>1, <2>2, ResolveType DEF TypeOK, DecideWins
  <1>6. ASSUME NEW d \in Devices, NEW id \in Ids, NEW decision \in Decisions,
               DecideKilled(d, id, decision)
        PROVE TypeOK'
    <2>1. d \in Deciders
      BY DEF Deciders
    <2> QED
      BY <1>6, <2>1, RespondType, PerishType DEF TypeOK, DecideKilled
  <1>7. ASSUME NEW id \in Ids, AgeOut(id) PROVE TypeOK'
    BY <1>7 DEF TypeOK, AgeOut, NoEntry, Entry, bridgeVars
  <1>8. CASE Crash
    BY <1>8, PerishType DEF TypeOK, Crash
  <1>9. CASE Boot
    BY <1>9 DEF TypeOK, Boot, bridgeVars
  <1>10. CASE UNCHANGED vars
    BY <1>10 DEF TypeOK, vars, bridgeVars, memVars
  <1> QED
    BY <1>1, <1>2, <1>3, <1>4, <1>5, <1>6, <1>7, <1>8, <1>9, <1>10 DEF Next, DaemonStep

\* The state of the daemon and of every bridge stays within its types.
THEOREM TypeCorrect == Spec => []TypeOK
  <1>1. Init => TypeOK
    BY InitInv DEF IInv
  <1> QED
    BY <1>1, NextType, PTL DEF Spec

----------------------------------------------------------------------------
(* The inductive invariant.                                                *)

\* Only decide() and abandon() arm the timer, and they have decided by then.
LEMMA NextTimer == TypeOK /\ TimerAfterDecision /\ [Next]_vars => TimerAfterDecision'
  <1> SUFFICES ASSUME TypeOK, TimerAfterDecision, [Next]_vars PROVE TimerAfterDecision'
    OBVIOUS
  <1> USE ConstantsAssumption
  <1>1. CASE pending' = pending
    BY <1>1 DEF TimerAfterDecision
  <1>2. CASE pending' = [id \in Ids |-> NoEntry]
    BY <1>2 DEF TimerAfterDecision, NoEntry
  <1>3. ASSUME NEW id \in Ids, pending' = [pending EXCEPT ![id] = NoEntry]
        PROVE TimerAfterDecision'
    BY <1>3 DEF TimerAfterDecision, NoEntry, TypeOK
  <1>4. ASSUME NEW id \in Ids, NEW decision \in Decisions, NEW by, NEW recorded,
               Resolve(id, decision, by, recorded)
        PROVE TimerAfterDecision'
    BY <1>4 DEF TimerAfterDecision, Resolve, DecidedEntry, Decisions, TypeOK
  <1>5. ASSUME NEW r \in Reqs, NEW s, OpenEntry(r, s)
        PROVE TimerAfterDecision'
    BY <1>5 DEF TimerAfterDecision, OpenEntry, TypeOK
  <1>6. ASSUME NEW r \in Reqs, HookClosed(r) PROVE TimerAfterDecision'
    <2>1. "deny" \in Decisions /\ IdOf[r] \in Ids
      BY DEF Decisions
    <2> QED
      BY <1>1, <1>2, <1>4, <1>6, <2>1 DEF HookClosed, Perish, memVars
  <1>7. ASSUME NEW r \in Reqs, BridgeStep(r) \/ RequestRejected(r) PROVE pending' = pending
    BY <1>7 DEF BridgeStep, StartHook, Connect, ReadDecision, SelfDeny, SocketLost,
         KillHook, RequestRejected, memVars
  <1>8. CASE Crash \/ Boot \/ UNCHANGED vars
    BY <1>1, <1>2, <1>8 DEF Crash, Perish, Boot, vars, memVars
  <1>9. ASSUME NEW d \in Devices, NEW id \in Ids, NEW decision \in Decisions,
               DecideWins(d, id, decision) \/ DecideKilled(d, id, decision)
        PROVE TimerAfterDecision'
    BY <1>2, <1>4, <1>9 DEF DecideWins, DecideKilled, Perish
  <1> QED
    BY <1>1, <1>3, <1>5, <1>6, <1>7, <1>8, <1>9
       DEF Next, DaemonStep, RequestOpened, AgeOut

\* What every daemon step does to the sockets: they only close, and request
\* lines are only consumed.
SocketsOnlyClose ==
  \A r \in Reqs :
    /\ conn'[r] = conn[r] \/ (conn[r] = "open" /\ conn'[r] = "closed")
    /\ up'[r] => up[r]

\* Answering the waiter of an undecided entry: one request hears one answer.
LEMMA Answered ==
  ASSUME IInv, TypeOK', NEW id \in Ids, Undecided(id),
         NEW decision \in Decisions, NEW by \in Deciders,
         decision = "allow" => by \in Devices,
         Respond(id, decision, by), UNCHANGED <<bridge, verdict>>, SocketsOnlyClose
  PROVE  /\ pending[id].req \in Reqs
         /\ \A r \in Reqs : r # pending[id].req => answers'[r] = answers[r]
         /\ AnswersSound'
         /\ VerdictSound'
         /\ QuietBefore'
  <1> DEFINE w == pending[id].req
             a == [decision |-> decision, by |-> by]
  <1>1. w \in Reqs /\ w # NoReq /\ waiters[id] = w
    BY ConstantsAssumption DEF IInv, TypeOK, WaiterExact, Undecided, Known, Entry
  <1>2. a \in Answer /\ a.decision = decision /\ a.by = by
    BY DEF Answer
  <1>3. answers[w] = <<>> /\ down[w] = <<>> /\ conn[w] # "none"
    BY <1>1 DEF IInv, EntryOfRequest, AnswersSound, AnswerAt, Undecided
  <1>4. /\ answers' = [answers EXCEPT ![w] = Append(@, a)]
        /\ down' = [down EXCEPT ![w] = Append(@, decision)] \/ down' = down
    BY <1>1 DEF Respond
  <1>5. /\ answers'[w] = <<a>>
        /\ down'[w] \in {<<>>, <<decision>>}
        /\ \A r \in Reqs : r # w => answers'[r] = answers[r] /\ down'[r] = down[r]
    <2>1. /\ answers'[w] = Append(<<>>, a)
          /\ \A r \in Reqs : r # w => answers'[r] = answers[r]
      BY <1>1, <1>3, <1>4 DEF IInv, TypeOK
    <2>2. /\ down'[w] \in {<<>>, Append(<<>>, decision)}
          /\ \A r \in Reqs : r # w => down'[r] = down[r]
      BY <1>1, <1>3, <1>4 DEF IInv, TypeOK
    <2>3. Append(<<>>, a) = <<a>> /\ Append(<<>>, decision) = <<decision>>
      OBVIOUS
    <2> QED
      BY <2>1, <2>2, <2>3
  <1>6. AnswersSound'
    <2> SUFFICES ASSUME NEW r \in Reqs PROVE AnswerAt(r)'
      BY DEF AnswersSound
    <2>1. CASE r = w
      BY <1>2, <1>5, <2>1 DEF AnswerAt
    <2>2. CASE r # w
      BY <1>5, <2>2 DEF IInv, AnswersSound, AnswerAt
    <2> QED
      BY <2>1, <2>2
  <1>7. VerdictSound'
    BY <1>3, <1>5 DEF IInv, VerdictSound
  <1>8. QuietBefore'
    BY <1>3, <1>5 DEF IInv, QuietBefore, SocketsOnlyClose
  <1> QED
    BY <1>1, <1>5, <1>6, <1>7, <1>8

\* decide() and abandon() keep the invariant.
LEMMA Resolved ==
  ASSUME IInv, TypeOK', TimerAfterDecision', NEW id \in Ids, Undecided(id),
         NEW decision \in Decisions, NEW by \in Deciders, NEW recorded \in BOOLEAN,
         decision = "allow" => by \in Devices,
         Resolve(id, decision, by, recorded), UNCHANGED <<bridge, verdict>>,
         SocketsOnlyClose
  PROVE  IInv'
  <1>1. /\ pending[id].req \in Reqs
        /\ \A r \in Reqs : r # pending[id].req => answers'[r] = answers[r]
        /\ AnswersSound' /\ VerdictSound' /\ QuietBefore'
    BY Answered DEF Resolve
  <1>2. /\ pending'[id].req = pending[id].req
        /\ pending'[id].decision = decision
        /\ \A j \in Ids : j # id => pending'[j] = pending[j]
        /\ waiters'[id] = NoReq
        /\ \A j \in Ids : j # id => waiters'[j] = waiters[j]
    BY DEF Resolve, DecidedEntry, IInv, TypeOK
  <1>3. decision # "none"
    BY DEF Decisions
  <1>4. AskedOnce'
    BY <1>1, <1>2 DEF IInv, AskedOnce, SocketsOnlyClose
  <1>5. EntryOfRequest'
    <2> SUFFICES ASSUME NEW j \in Ids, Known(j)'
                 PROVE  /\ IdOf[pending'[j].req] = j
                        /\ conn'[pending'[j].req] # "none"
                        /\ Undecided(j)' => answers'[pending'[j].req] = <<>>
      BY DEF EntryOfRequest
    <2>1. Known(j) /\ pending'[j].req = pending[j].req /\ pending[j].req \in Reqs
      BY <1>2, ConstantsAssumption DEF Known, IInv, TypeOK, Entry
    <2>2. IdOf[pending[j].req] = j /\ conn'[pending[j].req] # "none"
      BY <2>1 DEF IInv, EntryOfRequest, SocketsOnlyClose
    <2>3. CASE j = id
      BY <1>2, <1>3, <2>1, <2>2, <2>3 DEF Undecided
    <2>4. CASE j # id
      <3>1. pending[j].req # pending[id].req
        BY <2>1, <2>4, <1>1 DEF IInv, EntryOfRequest, Known, Undecided
      <3>2. Undecided(j)' => Undecided(j)
        BY <1>2, <2>4 DEF Undecided, Known
      <3> QED
        BY <1>1, <2>1, <2>2, <3>1, <3>2 DEF IInv, EntryOfRequest
    <2> QED
      BY <2>3, <2>4
  <1>6. WaiterExact'
    BY <1>2, <1>3 DEF IInv, WaiterExact, Undecided, Known
  <1> QED
    BY <1>1, <1>4, <1>5, <1>6 DEF IInv

\* The daemon's death leaves an empty broker.
LEMMA Perished ==
  ASSUME IInv, Perish
  PROVE  AskedOnce' /\ EntryOfRequest' /\ WaiterExact' /\ SocketsOnlyClose
  BY ConstantsAssumption
  DEF Perish, NoEntry, AskedOnce, EntryOfRequest, WaiterExact, Known, Undecided,
      SocketsOnlyClose, IInv, TypeOK

\* Every step keeps the invariant.
LEMMA NextInv == IInv /\ [Next]_vars => IInv'
  <1> SUFFICES ASSUME IInv, [Next]_vars PROVE IInv'
    OBVIOUS
  <1> USE ConstantsAssumption
  <1>0. TypeOK /\ TypeOK' /\ TimerAfterDecision'
    BY NextType, NextTimer DEF IInv
  <1>1. ASSUME NEW r \in Reqs, BridgeStep(r) PROVE IInv'
    <2>1. UNCHANGED <<pending, waiters, answers>>
      BY <1>1 DEF BridgeStep, StartHook, Connect, ReadDecision, SelfDeny, SocketLost,
           KillHook, memVars
    <2>2. WaiterExact'
      BY <2>1 DEF IInv, WaiterExact, Undecided, Known
    <2>3. CASE StartHook(r) \/ KillHook(r)
      BY <1>0, <2>1, <2>2, <2>3
         DEF StartHook, KillHook, IInv, TypeOK, QuietBefore, AskedOnce, EntryOfRequest,
             AnswersSound, AnswerAt, VerdictSound, Known, Undecided
    <2>4. CASE Connect(r)
      <3>1. /\ bridge[r] = "dialing" /\ conn[r] = "none" /\ answers[r] = <<>>
            /\ \A id \in Ids : pending[id].req # r
        BY <2>4 DEF Connect, IInv, QuietBefore, EntryOfRequest, Known
      <3>2. QuietBefore'
        BY <1>0, <2>1, <2>4 DEF Connect, IInv, TypeOK, QuietBefore
      <3>3. AskedOnce'
        BY <2>1, <2>4, <3>1 DEF Connect, IInv, TypeOK, AskedOnce
      <3>4. EntryOfRequest'
        BY <2>1, <2>4 DEF Connect, IInv, TypeOK, EntryOfRequest, Known, Undecided
      <3>5. AnswersSound' /\ VerdictSound'
        BY <2>1, <2>4 DEF Connect, IInv, AnswersSound, AnswerAt, VerdictSound
      <3> QED
        BY <1>0, <2>2, <3>2, <3>3, <3>4, <3>5 DEF IInv
    <2>5. CASE ReadDecision(r)
      <3>1. PICK a \in Answer : answers[r] = <<a>> /\ down[r] = <<a.decision>>
                                /\ (a.decision = "allow" => a.by \in Devices)
        BY <2>5 DEF ReadDecision, IInv, AnswersSound, AnswerAt
      <3>2. Head(down[r]) = a.decision /\ Tail(down[r]) = <<>>
        BY <3>1
      <3>3. /\ verdict'[r] = "allow" => a.decision = "allow"
            /\ bridge'[r] = "done"
            /\ down'[r] = <<>>
            /\ \A q \in Reqs : q # r => /\ verdict'[q] = verdict[q]
                                        /\ bridge'[q] = bridge[q]
                                        /\ down'[q] = down[q]
            /\ UNCHANGED <<conn, up>>
        BY <2>5, <3>2, <1>0 DEF ReadDecision, Settle, TypeOK
      <3>4. conn[r] # "none"
        BY <3>1 DEF IInv, QuietBefore
      <3>5. QuietBefore'
        BY <2>1, <3>3, <3>4 DEF IInv, QuietBefore
      <3>6. AskedOnce' /\ EntryOfRequest'
        BY <2>1, <3>3 DEF IInv, AskedOnce, EntryOfRequest, Known, Undecided
      <3>7. AnswersSound'
        BY <2>1, <3>1, <3>3 DEF IInv, AnswersSound, AnswerAt
      <3>8. VerdictSound'
        BY <2>1, <3>1, <3>3 DEF IInv, VerdictSound
      <3> QED
        BY <1>0, <2>2, <3>5, <3>6, <3>7, <3>8 DEF IInv
    <2>6. CASE SelfDeny(r) \/ SocketLost(r)
      <3>1. /\ bridge' = [bridge EXCEPT ![r] = "done"]
            /\ verdict' = [verdict EXCEPT ![r] = "deny"]
            /\ UNCHANGED <<conn, up, down>>
        BY <2>6 DEF SelfDeny, SocketLost, Settle
      <3>2. QuietBefore' /\ VerdictSound'
        BY <1>0, <2>1, <3>1 DEF IInv, QuietBefore, VerdictSound, TypeOK
      <3>3. AskedOnce' /\ EntryOfRequest' /\ AnswersSound'
        BY <2>1, <3>1 DEF IInv, AskedOnce, EntryOfRequest, AnswersSound, AnswerAt,
             Known, Undecided
      <3> QED
        BY <1>0, <2>2, <3>2, <3>3 DEF IInv
    <2> QED
      BY <1>1, <2>3, <2>4, <2>5, <2>6 DEF BridgeStep
  <1>2. ASSUME NEW r \in Reqs, NEW s \in Sessions \cup {NoSession}, RequestOpened(r, s)
        PROVE IInv'
    <2>1. /\ conn[r] = "open" /\ up[r] /\ up' = [up EXCEPT ![r] = FALSE]
          /\ ~Known(IdOf[r])
          /\ UNCHANGED <<bridge, verdict, conn, down, answers>>
      BY <1>2 DEF RequestOpened, OpenEntry
    <2>2. /\ pending'[IdOf[r]].req = r /\ pending'[IdOf[r]].decision = "none"
          /\ waiters'[IdOf[r]] = r
          /\ \A id \in Ids : id # IdOf[r] =>
               pending'[id] = pending[id] /\ waiters'[id] = waiters[id]
      BY <1>0, <1>2 DEF RequestOpened, OpenEntry, TypeOK
    <2>3. answers[r] = <<>> /\ \A id \in Ids : pending[id].req # r
      BY <2>1 DEF IInv, AskedOnce
    <2>4. QuietBefore' /\ AnswersSound' /\ VerdictSound'
      BY <1>0, <2>1 DEF IInv, QuietBefore, AnswersSound, AnswerAt, VerdictSound, TypeOK
    <2>5. AskedOnce'
      <3>1. \A q \in Reqs : up'[q] => q # r /\ up[q]
        BY <1>0, <2>1 DEF TypeOK
      <3> QED
        BY <2>1, <2>2, <3>1 DEF IInv, AskedOnce
    <2>6. EntryOfRequest'
      BY <2>1, <2>2, <2>3 DEF IInv, EntryOfRequest, Known, Undecided
    <2>7. WaiterExact'
      BY <2>2 DEF IInv, WaiterExact, Known, Undecided
    <2> QED
      BY <1>0, <2>4, <2>5, <2>6, <2>7 DEF IInv
  <1>3. ASSUME NEW r \in Reqs, RequestRejected(r) PROVE IInv'
    <2> DEFINE a == [decision |-> "deny", by |-> "duplicate"]
    <2>1. a \in Answer /\ a.decision = "deny"
      BY DEF Answer, Decisions, Deciders
    <2>2. conn[r] = "open" /\ answers[r] = <<>> /\ down[r] = <<>>
          /\ \A id \in Ids : pending[id].req # r
      BY <1>3 DEF RequestRejected, IInv, AskedOnce, AnswersSound, AnswerAt
    <2>3. /\ answers'[r] = <<a>> /\ down'[r] = <<"deny">>
          /\ conn'[r] = "closed" /\ ~up'[r]
          /\ \A q \in Reqs : q # r => /\ answers'[q] = answers[q]
                                      /\ down'[q] = down[q]
                                      /\ conn'[q] = conn[q]
                                      /\ up'[q] = up[q]
          /\ UNCHANGED <<bridge, verdict, pending, waiters>>
      BY <1>0, <1>3, <2>2 DEF RequestRejected, TypeOK, memVars
    <2>4. AnswersSound'
      <3> SUFFICES ASSUME NEW q \in Reqs PROVE AnswerAt(q)'
        BY DEF AnswersSound
      <3>1. CASE q = r
        BY <2>1, <2>3, <3>1 DEF AnswerAt
      <3>2. CASE q # r
        BY <2>3, <3>2 DEF IInv, AnswersSound, AnswerAt
      <3> QED
        BY <3>1, <3>2
    <2>5. QuietBefore' /\ VerdictSound'
      BY <2>2, <2>3 DEF IInv, QuietBefore, VerdictSound
    <2>6. AskedOnce' /\ WaiterExact'
      BY <2>3 DEF IInv, AskedOnce, WaiterExact, Known, Undecided
    <2>7. EntryOfRequest'
      BY <1>0, <2>2, <2>3 DEF IInv, EntryOfRequest, Known, Undecided, TypeOK, Entry
    <2> QED
      BY <1>0, <2>4, <2>5, <2>6, <2>7 DEF IInv
  <1>4. ASSUME NEW r \in Reqs, HookClosed(r) PROVE IInv'
    <2>1. /\ conn[r] = "open" /\ UNCHANGED <<bridge, verdict>>
          /\ "deny" \in Decisions /\ "daemon" \in Deciders /\ IdOf[r] \in Ids
      BY <1>4 DEF HookClosed, Decisions, Deciders
    <2>2. CASE /\ Undecided(IdOf[r])
               /\ Resolve(IdOf[r], "deny", "daemon", TRUE)
               /\ conn' = [conn EXCEPT ![r] = "closed"]
               /\ up' = [up EXCEPT ![r] = FALSE]
      <3>1. SocketsOnlyClose
        BY <1>0, <2>1, <2>2 DEF SocketsOnlyClose, TypeOK
      <3> QED
        BY <1>0, <2>1, <2>2, <3>1, Resolved
    <2>3. CASE Undecided(IdOf[r]) /\ Respond(IdOf[r], "deny", "daemon") /\ Perish
      <3>1. AskedOnce' /\ EntryOfRequest' /\ WaiterExact' /\ SocketsOnlyClose
        BY <2>3, Perished
      <3>2. AnswersSound' /\ VerdictSound' /\ QuietBefore'
        BY <1>0, <2>1, <2>3, <3>1, Answered
      <3> QED
        BY <1>0, <3>1, <3>2 DEF IInv
    <2>4. CASE /\ conn' = [conn EXCEPT ![r] = "closed"]
               /\ up' = [up EXCEPT ![r] = FALSE]
               /\ UNCHANGED <<down, memVars, audit, answers, restarts>>
      BY <1>0, <2>1, <2>4
         DEF IInv, TypeOK, QuietBefore, AskedOnce, EntryOfRequest, WaiterExact,
             AnswersSound, AnswerAt, VerdictSound, Known, Undecided, memVars
    <2> QED
      BY <1>4, <2>2, <2>3, <2>4 DEF HookClosed
  <1>5. ASSUME NEW d \in Devices, NEW id \in Ids, NEW decision \in Decisions,
               DecideWins(d, id, decision)
        PROVE IInv'
    <2>1. d \in Deciders /\ Undecided(id) /\ UNCHANGED <<bridge, verdict, conn, up>>
      BY <1>5 DEF DecideWins, Deciders
    <2>2. PICK recorded \in BOOLEAN : Resolve(id, decision, d, recorded)
      BY <1>5 DEF DecideWins
    <2>3. SocketsOnlyClose
      BY <2>1 DEF SocketsOnlyClose
    <2> QED
      BY <1>0, <2>1, <2>2, <2>3, Resolved
  <1>6. ASSUME NEW d \in Devices, NEW id \in Ids, NEW decision \in Decisions,
               DecideKilled(d, id, decision)
        PROVE IInv'
    <2>1. /\ d \in Deciders /\ Undecided(id) /\ UNCHANGED <<bridge, verdict>>
          /\ Respond(id, decision, d) /\ Perish
      BY <1>6 DEF DecideKilled, Deciders
    <2>2. AskedOnce' /\ EntryOfRequest' /\ WaiterExact' /\ SocketsOnlyClose
      BY <2>1, Perished
    <2>3. AnswersSound' /\ VerdictSound' /\ QuietBefore'
      BY <1>0, <2>1, <2>2, Answered
    <2> QED
      BY <1>0, <2>2, <2>3 DEF IInv
  <1>7. ASSUME NEW id \in Ids, AgeOut(id) PROVE IInv'
    <2>1. /\ pending' = [pending EXCEPT ![id] = NoEntry]
          /\ UNCHANGED <<bridge, verdict, conn, up, down, waiters, answers>>
          /\ pending[id].timer
      BY <1>7 DEF AgeOut, bridgeVars
    <2>2. Known(id) => pending[id].decision # "none"
      BY <1>7, <2>1 DEF IInv, TimerAfterDecision
    <2> QED
      BY <1>0, <2>1, <2>2
         DEF IInv, TypeOK, QuietBefore, AskedOnce, EntryOfRequest, WaiterExact,
             AnswersSound, AnswerAt, VerdictSound, Known, Undecided, NoEntry
  <1>8. CASE Crash
    <2>1. /\ Perish /\ UNCHANGED <<bridge, verdict, down, answers>>
      BY <1>8 DEF Crash
    <2>2. AskedOnce' /\ EntryOfRequest' /\ WaiterExact' /\ SocketsOnlyClose
      BY <2>1, Perished
    <2>3. AnswersSound' /\ VerdictSound' /\ QuietBefore'
      BY <2>1, <2>2 DEF IInv, AnswersSound, AnswerAt, VerdictSound, QuietBefore,
           SocketsOnlyClose
    <2> QED
      BY <1>0, <2>2, <2>3 DEF IInv
  <1>9. CASE Boot \/ UNCHANGED vars
    <2>1. UNCHANGED <<bridge, verdict, conn, up, down, pending, waiters, answers>>
      BY <1>9 DEF Boot, vars, bridgeVars, memVars
    <2> QED
      BY <1>0, <2>1
         DEF IInv, QuietBefore, AskedOnce, EntryOfRequest, WaiterExact,
             AnswersSound, AnswerAt, VerdictSound, Known, Undecided
  <1> QED
    BY <1>1, <1>2, <1>3, <1>4, <1>5, <1>6, <1>7, <1>8, <1>9 DEF Next, DaemonStep

\* A tool call proceeds only on an allow that a paired device gave to this very
\* request, whatever collides, fails or restarts.
THEOREM OnlyAnAllowOpensTheGate == Spec => []GateNeedsAllow
  <1>1. IInv => GateNeedsAllow
    <2> SUFFICES ASSUME IInv, NEW r \in Reqs, verdict[r] = "allow"
                 PROVE \E d \in Devices : answers[r] = <<[decision |-> "allow", by |-> d]>>
      BY DEF GateNeedsAllow
    <2>1. answers[r] # <<>> /\ answers[r][1].decision = "allow"
      BY DEF IInv, VerdictSound
    <2>2. PICK a \in Answer : answers[r] = <<a>> /\ (a.decision = "allow" => a.by \in Devices)
      BY <2>1 DEF IInv, AnswersSound, AnswerAt
    <2>3. a.decision = "allow" /\ a.by \in Devices
      BY <2>1, <2>2
    <2>4. a = [decision |-> "allow", by |-> a.by]
      BY <2>3 DEF Answer
    <2> QED
      BY <2>2, <2>3, <2>4
  <1> QED
    BY <1>1, InitInv, NextInv, PTL DEF Spec

\* No hook is answered twice.
THEOREM HooksAreAnsweredOnce == Spec => []OneAnswer
  <1>1. IInv => OneAnswer
    <2> SUFFICES ASSUME IInv, NEW r \in Reqs PROVE Len(answers[r]) <= 1
      BY DEF OneAnswer
    <2>1. answers[r] = <<>> \/ \E a \in Answer : answers[r] = <<a>>
      BY DEF IInv, AnswersSound, AnswerAt
    <2>2. \A a \in Answer : Len(<<a>>) = 1
      OBVIOUS
    <2>3. CASE answers[r] = <<>>
      BY <2>3
    <2>4. ASSUME NEW a \in Answer, answers[r] = <<a>> PROVE Len(answers[r]) <= 1
      BY <2>2, <2>4
    <2> QED
      BY <2>1, <2>3, <2>4
  <1> QED
    BY <1>1, InitInv, NextInv, PTL DEF Spec

\* The maps of the broker agree.
THEOREM WaitersAreExact == Spec => []WaiterExact
  <1>1. IInv => WaiterExact
    BY DEF IInv
  <1> QED
    BY <1>1, InitInv, NextInv, PTL DEF Spec

----------------------------------------------------------------------------
(* Refinement.                                                             *)

\* A step answers at most one request, which had no answer; the step that
\* answers is not the one that ends a bridge.
AnswersStep ==
  \/ UNCHANGED answers
  \/ /\ UNCHANGED verdict
     /\ \E r \in Reqs, a \in Answer :
          answers[r] = <<>> /\ answers' = [answers EXCEPT ![r] = <<a>>]

\* Answering a waiter adds at most the first answer of one request.
LEMMA RespondStep ==
  ASSUME IInv, NEW id \in Ids, Undecided(id), NEW decision \in Decisions,
         NEW by \in Deciders, Respond(id, decision, by), UNCHANGED verdict
  PROVE  AnswersStep
  <1> DEFINE w == pending[id].req
             a == [decision |-> decision, by |-> by]
  <1>1. w \in Reqs /\ w # NoReq /\ waiters[id] = w
    BY ConstantsAssumption DEF IInv, TypeOK, WaiterExact, Undecided, Known, Entry
  <1>2. a \in Answer
    BY DEF Answer
  <1>3. answers[w] = <<>>
    BY <1>1 DEF IInv, EntryOfRequest, Undecided
  <1>4. answers' = [answers EXCEPT ![w] = Append(answers[w], a)]
    BY <1>1 DEF Respond
  <1>5. Append(<<>>, a) = <<a>>
    OBVIOUS
  <1>6. answers' = [answers EXCEPT ![w] = <<a>>]
    BY <1>3, <1>4, <1>5
  <1> QED
    BY <1>1, <1>2, <1>3, <1>6 DEF AnswersStep

\* No action of the approval path adds a second answer to a request, or changes one.
LEMMA EveryAnswersStep == IInv /\ [Next]_vars => AnswersStep
  <1> SUFFICES ASSUME IInv, [Next]_vars PROVE AnswersStep
    OBVIOUS
  <1> USE ConstantsAssumption
  <1>1. ASSUME NEW r \in Reqs, RequestRejected(r) PROVE AnswersStep
    <2> DEFINE a == [decision |-> "deny", by |-> "duplicate"]
    <2>1. a \in Answer
      BY DEF Answer, Decisions, Deciders
    <2>2. answers[r] = <<>> /\ Append(<<>>, a) = <<a>>
      BY <1>1 DEF RequestRejected, IInv, AskedOnce
    <2>3. answers' = [answers EXCEPT ![r] = Append(answers[r], a)]
      BY <1>1 DEF RequestRejected
    <2>4. answers' = [answers EXCEPT ![r] = <<a>>]
      BY <2>2, <2>3
    <2> QED
      BY <1>1, <2>1, <2>2, <2>4 DEF RequestRejected, AnswersStep
  <1>2. ASSUME NEW r \in Reqs, HookClosed(r) PROVE AnswersStep
    <2>1. "deny" \in Decisions /\ "daemon" \in Deciders /\ IdOf[r] \in Ids
      BY DEF Decisions, Deciders
    <2>2. CASE UNCHANGED answers
      BY <2>2 DEF AnswersStep
    <2>3. CASE Undecided(IdOf[r]) /\ Respond(IdOf[r], "deny", "daemon")
      BY <1>2, <2>1, <2>3, RespondStep DEF HookClosed
    <2> QED
      BY <1>2, <2>2, <2>3 DEF HookClosed, Resolve
  <1>3. ASSUME NEW d \in Devices, NEW id \in Ids, NEW decision \in Decisions,
               DecideWins(d, id, decision) \/ DecideKilled(d, id, decision)
        PROVE AnswersStep
    <2>1. d \in Deciders /\ Undecided(id) /\ Respond(id, decision, d) /\ UNCHANGED verdict
      BY <1>3 DEF DecideWins, DecideKilled, Resolve, Deciders
    <2> QED
      BY <2>1, RespondStep
  <1>4. ASSUME NEW r \in Reqs, BridgeStep(r) PROVE UNCHANGED answers
    BY <1>4 DEF BridgeStep, StartHook, Connect, ReadDecision, SelfDeny, SocketLost, KillHook
  <1>5. ASSUME NEW r \in Reqs, NEW s \in Sessions \cup {NoSession}, RequestOpened(r, s)
        PROVE UNCHANGED answers
    BY <1>5 DEF RequestOpened
  <1>6. CASE Crash \/ Boot \/ (\E id \in Ids : AgeOut(id)) \/ UNCHANGED vars
    BY <1>6 DEF Crash, Boot, AgeOut, vars, AnswersStep
  <1> QED
    BY <1>1, <1>2, <1>3, <1>4, <1>5, <1>6 DEF Next, DaemonStep, AnswersStep

\* A step changes at most one verdict, from none; to allow only on an allow.
VerdictStep ==
  \/ UNCHANGED verdict
  \/ \E r \in Reqs :
       /\ verdict[r] = "none"
       /\ \/ verdict' = [verdict EXCEPT ![r] = "deny"]
          \/ /\ verdict' = [verdict EXCEPT ![r] = "allow"]
             /\ answers[r] # <<>> /\ answers[r][1].decision = "allow"

\* A bridge lets its tool call proceed only in the step that reads its own allow.
LEMMA EveryVerdictStep == IInv /\ [Next]_vars => VerdictStep
  <1> SUFFICES ASSUME IInv, [Next]_vars PROVE VerdictStep
    OBVIOUS
  <1>1. ASSUME NEW r \in Reqs, BridgeStep(r) PROVE VerdictStep
    <2>1. CASE StartHook(r) \/ Connect(r) \/ KillHook(r)
      BY <2>1 DEF StartHook, Connect, KillHook, VerdictStep
    <2>2. CASE SelfDeny(r) \/ SocketLost(r)
      BY <2>2 DEF SelfDeny, SocketLost, Settle, VerdictStep, IInv, QuietBefore
    <2>3. CASE ReadDecision(r)
      <3>1. PICK a \in Answer : answers[r] = <<a>> /\ down[r] = <<a.decision>>
        BY <2>3 DEF ReadDecision, IInv, AnswersSound, AnswerAt
      <3>2. Head(down[r]) = a.decision /\ answers[r] # <<>> /\ answers[r][1] = a
        BY <3>1
      <3>3. verdict[r] = "none"
        BY <2>3 DEF ReadDecision, IInv, QuietBefore
      <3>4. \/ verdict' = [verdict EXCEPT ![r] = "deny"]
            \/ verdict' = [verdict EXCEPT ![r] = "allow"] /\ a.decision = "allow"
        BY <2>3, <3>2 DEF ReadDecision, Settle
      <3> QED
        BY <3>2, <3>3, <3>4 DEF VerdictStep
    <2> QED
      BY <1>1, <2>1, <2>2, <2>3 DEF BridgeStep
  <1>2. CASE DaemonStep \/ UNCHANGED vars
    BY <1>2 DEF DaemonStep, RequestOpened, RequestRejected, HookClosed, DecideWins,
         DecideKilled, AgeOut, Crash, Boot, vars, bridgeVars, VerdictStep
  <1> QED
    BY <1>1, <1>2 DEF Next

\* Every step of the approval path is a step of the gate, or changes nothing
\* the gate knows of.
LEMMA GateStep == IInv /\ [Next]_vars => [Gate!Next]_(Gate!vars)
  <1> SUFFICES ASSUME IInv, AnswersStep, VerdictStep PROVE [Gate!Next]_(Gate!vars)
    BY EveryAnswersStep, EveryVerdictStep
  <1>1. CASE UNCHANGED <<answers, verdict>>
    BY <1>1 DEF Gate!vars, voteOf
  <1>2. ASSUME UNCHANGED verdict, NEW r \in Reqs, NEW a \in Answer, answers[r] = <<>>,
               answers' = [answers EXCEPT ![r] = <<a>>]
        PROVE  Gate!Next
    <2>1. <<a>> # <<>> /\ <<a>>[1] = a
      OBVIOUS
    <2>2. answers \in [Reqs -> Seq(Answer)]
      BY DEF IInv, TypeOK
    <2>3. voteOf' = [voteOf EXCEPT ![r] = a.decision]
      BY <1>2, <2>1, <2>2 DEF voteOf
    <2>4. voteOf[r] = "none" /\ a.decision \in {"allow", "deny"}
      BY <1>2 DEF voteOf, Answer, Decisions
    <2>5. Gate!Vote(r, a.decision)
      BY <1>2, <2>3, <2>4 DEF Gate!Vote
    <2> QED
      BY <2>4, <2>5 DEF Gate!Next
  <1>3. ASSUME UNCHANGED answers, NEW r \in Reqs, verdict[r] = "none",
               verdict' = [verdict EXCEPT ![r] = "deny"]
        PROVE  Gate!Next
    <2>1. voteOf' = voteOf
      BY <1>3 DEF voteOf
    <2> QED
      BY <1>3, <2>1 DEF Gate!CloseGate, Gate!Next
  <1>4. ASSUME UNCHANGED answers, NEW r \in Reqs, verdict[r] = "none",
               verdict' = [verdict EXCEPT ![r] = "allow"],
               answers[r] # <<>>, answers[r][1].decision = "allow"
        PROVE  Gate!Next
    <2>1. voteOf' = voteOf /\ voteOf[r] = "allow"
      BY <1>4 DEF voteOf
    <2> QED
      BY <1>4, <2>1 DEF Gate!OpenGate, Gate!Next
  <1> QED
    BY <1>1, <1>2, <1>3, <1>4 DEF AnswersStep, VerdictStep

\* The approval path implements the gate: one final answer per request, and no
\* way through without an allow.
THEOREM ImplementsGate == Spec => GateSpec
  <1>1. Init => Gate!Init
    BY DEF Init, Gate!Init, voteOf
  <1> QED
    BY <1>1, InitInv, NextInv, GateStep, PTL DEF Spec, GateSpec, Gate!Spec

----------------------------------------------------------------------------
(* Who abandons, what is pending and what is recorded.  These invariants   *)
(* lean on IInv and not on each other, so each has a step lemma of its own.*)

\* What a step of a bridge, a boot or a stutter does: the broker and the table are
\* left alone, a finished bridge stays finished, an accepted socket stays as it is.
BridgeEffect ==
  /\ UNCHANGED <<pending, claimed, tracked, audit, answers, ageouts>>
  /\ \A q \in Reqs :
       /\ bridge[q] = "done" => bridge'[q] = "done"
       /\ conn[q] # "none" => conn'[q] = conn[q] /\ up'[q] = up[q]

\* What the death of the daemon does to the broker.
PerishEffect ==
  /\ UNCHANGED <<bridge, audit, ageouts>>
  /\ pending' = [id \in Ids |-> NoEntry]
  /\ claimed' = {}
  /\ tracked' = [s \in Sessions |-> {}]
  /\ SocketsOnlyClose

\* What a decision does, by a device or by the daemon, as the invariants below see it.
ResolveEffect(id, decision, by, recorded) ==
  /\ UNCHANGED <<bridge, claimed, ageouts>>
  /\ SocketsOnlyClose
  /\ pending' = [pending EXCEPT ![id] = DecidedEntry(pending[id], decision, by, recorded)]
  /\ tracked' = [s \in Sessions |->
       IF s = pending[id].owner THEN tracked[s] \ {id} ELSE tracked[s]]
  /\ IF recorded THEN UpdateRow(id, decision, by) ELSE UNCHANGED audit

\* The socket of r closes and its hook claimed nothing that is still open.
CloseEffect(r) ==
  /\ ~(r \in claimed /\ Undecided(IdOf[r]))
  /\ UNCHANGED <<pending, claimed, tracked, audit, answers, ageouts, bridge>>
  /\ conn' = [conn EXCEPT ![r] = "closed"]
  /\ up' = [up EXCEPT ![r] = FALSE]

\* Answering the waiter of an undecided entry, as the invariants below see it.
Told(id, decision, by) ==
  /\ Undecided(id) /\ pending[id].req \in Reqs
  /\ answers[pending[id].req] = <<>>
  /\ answers' = [answers EXCEPT ![pending[id].req] = <<[decision |-> decision, by |-> by]>>]

\* The decision reaches the request that the entry stands for, and no other.
LEMMA WaiterIsTold ==
  ASSUME IInv, NEW id \in Ids, Undecided(id), NEW decision, NEW by,
         Respond(id, decision, by)
  PROVE  Told(id, decision, by)
  <1> DEFINE w == pending[id].req
             a == [decision |-> decision, by |-> by]
  <1>1. w \in Reqs /\ w # NoReq /\ waiters[id] = w
    BY ConstantsAssumption DEF IInv, TypeOK, WaiterExact, Undecided, Known, Entry
  <1>2. answers[w] = <<>>
    BY <1>1 DEF IInv, EntryOfRequest, Undecided
  <1>3. answers' = [answers EXCEPT ![w] = Append(answers[w], a)]
    BY <1>1 DEF Respond
  <1>4. Append(<<>>, a) = <<a>>
    OBVIOUS
  <1>5. answers' = [answers EXCEPT ![w] = <<a>>]
    BY <1>2, <1>3, <1>4
  <1> QED
    BY <1>1, <1>2, <1>5 DEF Told

\* Every step is one of seven: what the invariants below need to know of it.
StepEffect ==
  \/ BridgeEffect
  \/ \E r \in Reqs, s \in Sessions \cup {NoSession} : RequestOpened(r, s)
  \/ \E r \in Reqs : RequestRejected(r)
  \/ \E r \in Reqs : HookClosed(r) /\ CloseEffect(r)
  \/ \E r \in Reqs :
       /\ r \in claimed /\ bridge[r] = "done" /\ conn[r] = "open"
       /\ Told(IdOf[r], "deny", "daemon")
       /\ \/ /\ ResolveEffect(IdOf[r], "deny", "daemon", TRUE)
             /\ conn' = [conn EXCEPT ![r] = "closed"]
          \/ "decision" \in Faults /\ PerishEffect
  \/ \E d \in Devices, id \in Ids, decision \in Decisions :
       /\ Told(id, decision, d)
       /\ \/ ResolveEffect(id, decision, d, TRUE) /\ conn' = conn
          \/ "decision" \in Faults /\ ResolveEffect(id, decision, d, FALSE) /\ conn' = conn
          \/ "kill" \in Faults /\ PerishEffect
  \/ \E id \in Ids : AgeOut(id)
  \/ PerishEffect /\ UNCHANGED answers

\* The steps of the approval path are of those kinds.
LEMMA EveryStepEffect == IInv /\ [Next]_vars => StepEffect
  <1> SUFFICES ASSUME IInv, [Next]_vars PROVE StepEffect
    OBVIOUS
  <1> USE ConstantsAssumption
  <1>0. TypeOK
    BY DEF IInv
  <1>1. ASSUME NEW r \in Reqs, BridgeStep(r) PROVE BridgeEffect
    <2>1. CASE Connect(r)
      <3>1. conn[r] = "none"
        BY <2>1 DEF Connect, IInv, QuietBefore
      <3> QED
        BY <1>0, <2>1, <3>1 DEF Connect, BridgeEffect, memVars, TypeOK
    <2>2. CASE StartHook(r)
      BY <1>0, <2>2 DEF StartHook, BridgeEffect, memVars, TypeOK
    <2>3. CASE ReadDecision(r) \/ SelfDeny(r) \/ SocketLost(r) \/ KillHook(r)
      <3>1. /\ bridge' = [bridge EXCEPT ![r] = "done"]
            /\ UNCHANGED <<conn, up, memVars, audit, answers, ageouts>>
        BY <2>3 DEF ReadDecision, SelfDeny, SocketLost, KillHook, Settle
      <3> QED
        BY <1>0, <3>1 DEF BridgeEffect, memVars, TypeOK
    <2> QED
      BY <1>1, <2>1, <2>2, <2>3 DEF BridgeStep
  <1>2. ASSUME Perish, UNCHANGED <<bridge, audit, ageouts>> PROVE PerishEffect
    BY <1>2, Perished DEF Perish, PerishEffect
  <1>3. ASSUME NEW r \in Reqs, HookClosed(r) PROVE StepEffect
    <2>1. /\ conn[r] = "open" /\ bridge[r] = "done" /\ UNCHANGED <<bridge, ageouts>>
          /\ IdOf[r] \in Ids
      BY <1>3 DEF HookClosed
    <2>2. CASE r \in claimed /\ Undecided(IdOf[r])
      <3>1. Respond(IdOf[r], "deny", "daemon")
        BY <1>3, <2>2 DEF HookClosed, Resolve
      <3>2. Told(IdOf[r], "deny", "daemon")
        BY <2>1, <2>2, <3>1, WaiterIsTold
      <3>3. CASE /\ Resolve(IdOf[r], "deny", "daemon", TRUE)
                 /\ conn' = [conn EXCEPT ![r] = "closed"]
                 /\ up' = [up EXCEPT ![r] = FALSE]
                 /\ UNCHANGED <<alive, claimed, restarts>>
        <4>1. SocketsOnlyClose
          BY <1>0, <2>1, <3>3 DEF SocketsOnlyClose, TypeOK
        <4>2. ResolveEffect(IdOf[r], "deny", "daemon", TRUE)
          BY <2>1, <3>3, <4>1 DEF Resolve, ResolveEffect
        <4> QED
          BY <2>1, <2>2, <3>2, <3>3, <4>2 DEF StepEffect
      <3>4. CASE "decision" \in Faults /\ Perish /\ UNCHANGED audit
        BY <1>2, <2>1, <2>2, <3>2, <3>4 DEF StepEffect
      <3> QED
        BY <1>3, <2>2, <3>3, <3>4 DEF HookClosed
    <2>3. CASE ~(r \in claimed /\ Undecided(IdOf[r]))
      <3>1. CloseEffect(r)
        BY <1>3, <2>1, <2>3 DEF HookClosed, CloseEffect, memVars
      <3> QED
        BY <1>3, <3>1 DEF StepEffect
    <2> QED
      BY <2>2, <2>3
  <1>4. ASSUME NEW d \in Devices, NEW id \in Ids, NEW decision \in Decisions,
               DecideWins(d, id, decision)
        PROVE StepEffect
    <2>1. PICK recorded \in BOOLEAN :
            Resolve(id, decision, d, recorded) /\ (~recorded => "decision" \in Faults)
      BY <1>4 DEF DecideWins
    <2>2. Told(id, decision, d)
      BY <1>4, <2>1, WaiterIsTold DEF DecideWins, Resolve
    <2>3. ResolveEffect(id, decision, d, recorded) /\ conn' = conn
      BY <1>4, <2>1 DEF DecideWins, Resolve, ResolveEffect, SocketsOnlyClose
    <2>4. CASE recorded = TRUE
      BY <2>2, <2>3, <2>4 DEF StepEffect
    <2>5. CASE recorded = FALSE
      BY <2>1, <2>2, <2>3, <2>5 DEF StepEffect
    <2> QED
      BY <2>4, <2>5
  <1>5. ASSUME NEW d \in Devices, NEW id \in Ids, NEW decision \in Decisions,
               DecideKilled(d, id, decision)
        PROVE StepEffect
    <2>1. Told(id, decision, d)
      BY <1>5, WaiterIsTold DEF DecideKilled
    <2>2. PerishEffect /\ "kill" \in Faults
      BY <1>2, <1>5 DEF DecideKilled
    <2> QED
      BY <2>1, <2>2 DEF StepEffect
  <1>6. CASE Crash
    BY <1>2, <1>6 DEF Crash, StepEffect
  <1>7. CASE Boot \/ UNCHANGED vars
    BY <1>7 DEF Boot, vars, bridgeVars, memVars, BridgeEffect, StepEffect
  <1> QED
    BY <1>1, <1>3, <1>4, <1>5, <1>6, <1>7 DEF Next, DaemonStep, StepEffect

\* Every claim is of the request its entry stands for, as long as no decided entry
\* has aged out and made room for another request with the same id.
ClaimedIsOwner == ageouts = 0 => \A r \in claimed : pending[IdOf[r]].req = r

\* A row is of a request that presented its id and has been read by the daemon; a
\* decided row is never the row of the request that is now waiting under its id.
RowAt(id) ==
  /\ audit[id].req = NoReq => audit[id].decision = "none"
  /\ audit[id].req # NoReq =>
       /\ IdOf[audit[id].req] = id
       /\ conn[audit[id].req] # "none"
       /\ ~up[audit[id].req]
  /\ audit[id].decision # "none" /\ Undecided(id) => pending[id].req # audit[id].req

\* Every row of the table is sound.
RowsSound == \A id \in Ids : RowAt(id)

\* An id the broker does not track has no entry, hence no decision.
UnknownIsBlank == \A id \in Ids : ~Known(id) => pending[id] = NoEntry

\* While the entry of an id that one request alone presents is kept, its row is kept.
KnownIsRecorded ==
  \A id \in Ids : Sole(id) /\ Known(id) => audit[id].req = pending[id].req

----------------------------------------------------------------------------
(* The daemon denies on its own only a request whose hook is gone.         *)

\* A claim is made in the step that opens the entry, and the entry is not given to
\* another request before it ages out.
LEMMA NextClaims ==
  IInv /\ ClaimedIsOwner /\ [Next]_vars => ClaimedIsOwner'
  <1> SUFFICES ASSUME IInv, ClaimedIsOwner, StepEffect PROVE ClaimedIsOwner'
    BY EveryStepEffect
  <1> USE ConstantsAssumption
  <1>0. TypeOK
    BY DEF IInv
  <1>1. ASSUME pending' = pending, claimed' = claimed, ageouts' = ageouts
        PROVE  ClaimedIsOwner'
    BY <1>1 DEF ClaimedIsOwner
  <1>2. CASE PerishEffect
    BY <1>2 DEF PerishEffect, ClaimedIsOwner
  <1>3. ASSUME NEW r \in Reqs, NEW s, RequestOpened(r, s) PROVE ClaimedIsOwner'
    <2>1. /\ ~Known(IdOf[r]) /\ IdOf[r] \in Ids /\ ageouts' = ageouts
          /\ pending'[IdOf[r]].req = r
          /\ \A id \in Ids : id # IdOf[r] => pending'[id] = pending[id]
          /\ claimed' \subseteq claimed \cup {r}
      BY <1>0, <1>3 DEF RequestOpened, OpenEntry, TypeOK
    <2>2. ASSUME ageouts = 0, NEW q \in claimed, q # r PROVE pending'[IdOf[q]].req = q
      <3>1. pending[IdOf[q]].req = q /\ q \in Reqs
        BY <1>0, <2>2 DEF ClaimedIsOwner, TypeOK
      <3>2. IdOf[q] # IdOf[r] /\ IdOf[q] \in Ids
        BY <2>1, <3>1 DEF Known
      <3> QED
        BY <2>1, <3>1, <3>2
    <2> QED
      BY <2>1, <2>2 DEF ClaimedIsOwner
  <1>4. ASSUME NEW id \in Ids, NEW decision, NEW by, NEW recorded,
               ResolveEffect(id, decision, by, recorded)
        PROVE  ClaimedIsOwner'
    <2>1. \A j \in Ids : pending'[j].req = pending[j].req
      BY <1>0, <1>4 DEF ResolveEffect, DecidedEntry, TypeOK
    <2>2. \A r \in claimed : IdOf[r] \in Ids
      BY <1>0 DEF TypeOK
    <2> QED
      BY <1>4, <2>1, <2>2 DEF ResolveEffect, ClaimedIsOwner
  <1>5. ASSUME NEW id \in Ids, AgeOut(id) PROVE ClaimedIsOwner'
    <2>1. ageouts' # 0
      BY <1>0, <1>5 DEF AgeOut, TypeOK
    <2> QED
      BY <2>1 DEF ClaimedIsOwner
  <1>6. ASSUME NEW r \in Reqs PROVE IdOf[r] \in Ids
    OBVIOUS
  <1>7. CASE BridgeEffect \/ \E r \in Reqs : RequestRejected(r) \/ CloseEffect(r)
    BY <1>1, <1>7 DEF BridgeEffect, RequestRejected, CloseEffect, memVars
  <1> QED
    BY <1>2, <1>3, <1>4, <1>5, <1>6, <1>7 DEF StepEffect

\* A deny of the daemon's own is given in the close of the socket that claimed the id,
\* which by ClaimedIsOwner is the one that waits.
LEMMA NextAbandons ==
  IInv /\ ClaimedIsOwner /\ OnlyOwnHookAbandons /\ [Next]_vars => OnlyOwnHookAbandons'
  <1> SUFFICES ASSUME IInv, ClaimedIsOwner, OnlyOwnHookAbandons, StepEffect, ageouts' = 0,
                      NEW q \in Reqs, NEW i \in 1..Len(answers'[q]),
                      answers'[q][i].by = "daemon"
               PROVE  bridge'[q] = "done"
    BY EveryStepEffect DEF OnlyOwnHookAbandons
  <1> USE ConstantsAssumption
  <1>0. TypeOK
    BY DEF IInv
  <1>1. bridge[q] = "done" => bridge'[q] = "done"
    <2>1. CASE BridgeEffect
      BY <2>1 DEF BridgeEffect
    <2>2. CASE bridge' = bridge
      BY <2>2
    <2>3. ASSUME NEW r \in Reqs, HookClosed(r) PROVE bridge' = bridge
      BY <2>3 DEF HookClosed
    <2> QED
      BY <2>1, <2>2, <2>3 DEF StepEffect, RequestOpened, RequestRejected, ResolveEffect,
           PerishEffect, AgeOut, bridgeVars
  <1>2. ageouts = 0
    <2>1. ASSUME NEW id \in Ids, AgeOut(id) PROVE FALSE
      BY <1>0, <2>1 DEF AgeOut, TypeOK
    <2>2. CASE ageouts' = ageouts
      BY <2>2
    <2>3. ASSUME NEW r \in Reqs, HookClosed(r) PROVE ageouts' = ageouts
      BY <2>3 DEF HookClosed
    <2> QED
      BY <2>1, <2>2, <2>3 DEF StepEffect, BridgeEffect, RequestOpened, RequestRejected,
           ResolveEffect, PerishEffect
  <1>3. answers'[q] = answers[q] => bridge[q] = "done"
    BY <1>2 DEF OnlyOwnHookAbandons
  <1>4. ASSUME NEW id \in Ids, NEW decision, NEW by, Told(id, decision, by),
               answers'[q] # answers[q]
        PROVE  q = pending[id].req /\ by = "daemon"
    <2>1. q = pending[id].req /\ answers'[q] = <<[decision |-> decision, by |-> by]>>
      BY <1>0, <1>4 DEF Told, TypeOK
    <2>2. i = 1 /\ answers'[q][i].by = by
      BY <2>1
    <2> QED
      BY <2>1, <2>2
  <1>5. ASSUME NEW r \in Reqs, RequestRejected(r) PROVE answers'[q] = answers[q]
    <2> DEFINE a == [decision |-> "deny", by |-> "duplicate"]
    <2>1. answers[r] = <<>> /\ Append(<<>>, a) = <<a>>
      BY <1>5 DEF RequestRejected, IInv, AskedOnce
    <2>2. CASE q = r
      <3>1. answers'[q] = <<a>>
        BY <1>0, <1>5, <2>1, <2>2 DEF RequestRejected, TypeOK
      <3> QED
        BY <3>1
    <2>3. CASE q # r
      BY <1>0, <1>5, <2>3 DEF RequestRejected, TypeOK
    <2> QED
      BY <2>2, <2>3
  <1>6. ASSUME NEW r \in Reqs, r \in claimed, bridge[r] = "done",
               Told(IdOf[r], "deny", "daemon"), answers'[q] # answers[q]
        PROVE  bridge[q] = "done"
    BY <1>2, <1>4, <1>6 DEF ClaimedIsOwner
  <1>7. ASSUME NEW d \in Devices, NEW id \in Ids, NEW decision, Told(id, decision, d)
        PROVE  answers'[q] = answers[q]
    BY <1>4, <1>7
  <1> QED
    BY <1>1, <1>2, <1>3, <1>5, <1>6, <1>7
       DEF StepEffect, BridgeEffect, RequestOpened, CloseEffect, AgeOut

\* While no decided id has aged out, the daemon denies a request of its own accord only
\* after that request's own hook has ended: the `claimed' set of hookBridge.ts.
THEOREM HooksAreNotAbandonedByOthers == Spec => []OnlyOwnHookAbandons
  <1>1. Init => ClaimedIsOwner /\ OnlyOwnHookAbandons
    BY DEF Init, ClaimedIsOwner, OnlyOwnHookAbandons
  <1> QED
    BY <1>1, InitInv, NextInv, NextClaims, NextAbandons, PTL DEF Spec

----------------------------------------------------------------------------
(* A decision is final.                                                    *)

\* A row is inserted for a request whose line has just been read, and decided in the
\* step that decides the entry of its id.
LEMMA NextRows == IInv /\ RowsSound /\ [Next]_vars => RowsSound'
  <1> SUFFICES ASSUME IInv, RowsSound, StepEffect, NEW id \in Ids
               PROVE  RowAt(id)'
    BY EveryStepEffect DEF RowsSound
  <1> USE ConstantsAssumption
  <1>0. TypeOK /\ audit[id].req \in Reqs \cup {NoReq} /\ RowAt(id)
    BY DEF IInv, TypeOK, Row, RowsSound
  <1>1. ASSUME \/ pending'[id] = pending[id]
               \/ pending'[id].decision # "none"
               \/ pending'[id] = NoEntry,
               audit'[id] = audit[id],
               \A q \in Reqs : conn[q] # "none" /\ ~up[q] => conn'[q] # "none" /\ ~up'[q]
        PROVE  RowAt(id)'
    BY <1>0, <1>1 DEF RowAt, Undecided, Known, NoEntry
  <1>2. CASE BridgeEffect
    BY <1>1, <1>2 DEF BridgeEffect
  <1>3. CASE PerishEffect
    BY <1>1, <1>3 DEF PerishEffect, SocketsOnlyClose
  <1>4. ASSUME NEW r \in Reqs, RequestRejected(r) \/ CloseEffect(r) PROVE RowAt(id)'
    <2>1. /\ pending' = pending /\ audit' = audit
          /\ conn' = [conn EXCEPT ![r] = "closed"] /\ up' = [up EXCEPT ![r] = FALSE]
      BY <1>4 DEF RequestRejected, CloseEffect, memVars
    <2> QED
      BY <1>0, <1>1, <2>1 DEF TypeOK
  <1>5. ASSUME NEW j \in Ids, AgeOut(j) PROVE RowAt(id)'
    <2>1. pending'[id] = pending[id] \/ pending'[id] = NoEntry
      BY <1>0, <1>5 DEF AgeOut, TypeOK
    <2> QED
      BY <1>1, <1>5, <2>1 DEF AgeOut, bridgeVars
  <1>6. ASSUME NEW r \in Reqs, NEW s, RequestOpened(r, s) PROVE RowAt(id)'
    <2>1. /\ conn[r] = "open" /\ up[r] /\ up' = [up EXCEPT ![r] = FALSE] /\ conn' = conn
          /\ IdOf[r] \in Ids
      BY <1>6 DEF RequestOpened
    <2>2. \A q \in Reqs : conn[q] # "none" /\ ~up[q] => conn'[q] # "none" /\ ~up'[q]
      BY <1>0, <2>1 DEF TypeOK
    <2>3. CASE id # IdOf[r]
      <3>1. pending'[id] = pending[id] /\ audit'[id] = audit[id]
        BY <1>0, <1>6, <2>1, <2>3 DEF RequestOpened, OpenEntry, InsertRow, TypeOK
      <3> QED
        BY <1>1, <2>2, <3>1
    <2>4. CASE id = IdOf[r]
      <3>1. pending'[id].req = r /\ ~up'[r] /\ audit[id].req # r
        BY <1>0, <1>6, <2>1, <2>4 DEF RequestOpened, OpenEntry, RowAt, TypeOK
      <3>2. \/ audit'[id] = audit[id]
            \/ audit'[id] = [req |-> r, decision |-> "none", by |-> "nobody"]
        BY <1>0, <1>6, <2>1, <2>4 DEF RequestOpened, InsertRow, TypeOK
      <3>3. CASE audit'[id] = audit[id]
        BY <1>0, <2>2, <3>1, <3>3 DEF RowAt
      <3>4. CASE audit'[id] = [req |-> r, decision |-> "none", by |-> "nobody"]
        BY <2>1, <2>4, <3>1, <3>4 DEF RowAt
      <3> QED
        BY <3>2, <3>3, <3>4
    <2> QED
      BY <2>3, <2>4
  <1>7. ASSUME NEW j \in Ids, NEW decision \in Decisions, NEW by, NEW recorded \in BOOLEAN,
               ResolveEffect(j, decision, by, recorded)
        PROVE  RowAt(id)'
    <2>1. \A q \in Reqs : conn[q] # "none" /\ ~up[q] => conn'[q] # "none" /\ ~up'[q]
      BY <1>7 DEF ResolveEffect, SocketsOnlyClose
    <2>2. CASE id # j
      <3>1. pending'[id] = pending[id] /\ audit'[id] = audit[id]
        BY <1>0, <1>7, <2>2 DEF ResolveEffect, UpdateRow, TypeOK
      <3> QED
        BY <1>1, <2>1, <3>1
    <2>3. CASE id = j
      <3>1. pending'[id].decision # "none"
        BY <1>0, <1>7, <2>3 DEF ResolveEffect, DecidedEntry, Decisions, TypeOK
      <3>2. \/ audit'[id] = audit[id]
            \/ audit[id].req # NoReq /\ audit'[id].req = audit[id].req
        BY <1>0, <1>7, <2>3 DEF ResolveEffect, UpdateRow, DecidedRow, TypeOK
      <3> QED
        BY <1>0, <1>1, <2>1, <3>1, <3>2 DEF RowAt, Undecided
    <2> QED
      BY <2>2, <2>3
  <1>8. "deny" \in Decisions /\ \A r \in Reqs : IdOf[r] \in Ids
    BY DEF Decisions
  <1> QED
    BY <1>2, <1>3, <1>4, <1>5, <1>6, <1>7, <1>8 DEF StepEffect

\* Entries appear with their request and go as a whole.
LEMMA NextBlank == IInv /\ UnknownIsBlank /\ [Next]_vars => UnknownIsBlank'
  <1> SUFFICES ASSUME IInv, UnknownIsBlank, StepEffect, NEW id \in Ids
               PROVE  ~Known(id)' => pending'[id] = NoEntry
    BY EveryStepEffect DEF UnknownIsBlank
  <1> USE ConstantsAssumption
  <1>0. TypeOK
    BY DEF IInv
  <1>1. CASE pending'[id] = pending[id] \/ pending'[id] = NoEntry
    BY <1>1 DEF UnknownIsBlank, Known
  <1>2. CASE BridgeEffect \/ PerishEffect \/ \E r \in Reqs : RequestRejected(r) \/ CloseEffect(r)
    BY <1>1, <1>2 DEF BridgeEffect, PerishEffect, RequestRejected, CloseEffect, memVars
  <1>3. ASSUME NEW j \in Ids, AgeOut(j)
        PROVE  pending'[id] = pending[id] \/ pending'[id] = NoEntry
    BY <1>0, <1>3 DEF AgeOut, TypeOK
  <1>4. ASSUME NEW r \in Reqs, NEW s, RequestOpened(r, s)
        PROVE  pending'[id] = pending[id] \/ Known(id)'
    BY <1>0, <1>4 DEF RequestOpened, OpenEntry, Known, TypeOK
  <1>5. ASSUME NEW j \in Ids, NEW decision, NEW by, NEW recorded,
               Told(j, decision, by), ResolveEffect(j, decision, by, recorded)
        PROVE  pending'[id] = pending[id] \/ Known(id)'
    BY <1>0, <1>5 DEF ResolveEffect, DecidedEntry, Told, Undecided, Known, TypeOK
  <1>6. \A r \in Reqs : IdOf[r] \in Ids
    OBVIOUS
  <1> QED
    BY <1>1, <1>2, <1>3, <1>4, <1>5, <1>6 DEF StepEffect

\* What DecisionStands says of one id.
StandsAt(id) ==
  /\ pending[id].decision # "none" =>
       \/ pending'[id].decision = pending[id].decision /\ pending'[id].by = pending[id].by
       \/ pending'[id] = NoEntry
  /\ audit[id].decision # "none" /\ audit'[id] # audit[id] =>
       LET r == waiters[id] IN
       /\ r \in Reqs \ {audit[id].req}
       /\ answers'[r] # answers[r]

\* No step clears or replaces a decision: only an undecided entry is decided, only an
\* unknown id is opened, and only the table's row of another request is overwritten.
LEMMA DecisionStep ==
  IInv /\ RowsSound /\ UnknownIsBlank /\ [Next]_vars => \A id \in Ids : StandsAt(id)
  <1> SUFFICES ASSUME IInv, RowsSound, UnknownIsBlank, StepEffect, NEW id \in Ids
               PROVE  StandsAt(id)
    BY EveryStepEffect
  <1> USE ConstantsAssumption
  <1>0. TypeOK /\ RowAt(id)
    BY DEF IInv, RowsSound
  <1>1. ASSUME pending'[id] = pending[id] \/ pending'[id] = NoEntry, audit'[id] = audit[id]
        PROVE  StandsAt(id)
    BY <1>1 DEF StandsAt
  <1>2. CASE BridgeEffect \/ PerishEffect \/ \E r \in Reqs : RequestRejected(r) \/ CloseEffect(r)
    BY <1>1, <1>2 DEF BridgeEffect, PerishEffect, RequestRejected, CloseEffect, memVars
  <1>3. ASSUME NEW j \in Ids, AgeOut(j) PROVE StandsAt(id)
    <2>1. pending'[id] = pending[id] \/ pending'[id] = NoEntry
      BY <1>0, <1>3 DEF AgeOut, TypeOK
    <2> QED
      BY <1>1, <1>3, <2>1 DEF AgeOut
  <1>4. ASSUME NEW r \in Reqs, NEW s, RequestOpened(r, s) PROVE StandsAt(id)
    <2>1. audit[id].decision # "none" => audit'[id] = audit[id]
      BY <1>0, <1>4 DEF RequestOpened, InsertRow, RowAt, TypeOK
    <2>2. pending[id].decision # "none" => pending'[id] = pending[id]
      <3>1. ~Known(IdOf[r])
        BY <1>4 DEF RequestOpened, OpenEntry
      <3>2. CASE id = IdOf[r]
        BY <3>1, <3>2 DEF UnknownIsBlank, NoEntry
      <3>3. CASE id # IdOf[r]
        BY <1>0, <1>4, <3>3 DEF RequestOpened, OpenEntry, TypeOK
      <3> QED
        BY <3>2, <3>3
    <2> QED
      BY <2>1, <2>2 DEF StandsAt
  <1>5. ASSUME NEW j \in Ids, NEW decision \in Decisions, NEW by, NEW recorded \in BOOLEAN,
               Told(j, decision, by), ResolveEffect(j, decision, by, recorded)
        PROVE  StandsAt(id)
    <2>1. CASE id # j
      <3>1. pending'[id] = pending[id] /\ audit'[id] = audit[id]
        BY <1>0, <1>5, <2>1 DEF ResolveEffect, UpdateRow, TypeOK
      <3> QED
        BY <1>1, <3>1
    <2>2. CASE id = j
      <3>1. Undecided(id) /\ pending[id].req \in Reqs /\ waiters[id] = pending[id].req
        BY <1>5, <2>2 DEF Told, IInv, WaiterExact
      <3>2. answers'[waiters[id]] = <<[decision |-> decision, by |-> by]>>
        BY <1>0, <1>5, <2>2, <3>1 DEF Told, TypeOK
      <3>3. answers[waiters[id]] = <<>>
        BY <1>5, <2>2, <3>1 DEF Told
      <3>4. audit[id].decision # "none" => pending[id].req # audit[id].req
        BY <1>0, <3>1 DEF RowAt
      <3> QED
        BY <3>1, <3>2, <3>3, <3>4 DEF StandsAt, Undecided
    <2> QED
      BY <2>1, <2>2
  <1>6. "deny" \in Decisions /\ \A r \in Reqs : IdOf[r] \in Ids
    BY DEF Decisions
  <1> QED
    BY <1>2, <1>3, <1>4, <1>5, <1>6 DEF StepEffect

\* A decision is final, in the broker and in the table, whatever collides, fails,
\* ages out or restarts.
THEOREM DecisionsAreFinal == Spec => DecisionStands
  <1>1. Init => RowsSound /\ UnknownIsBlank
    BY DEF Init, RowsSound, RowAt, NoRow, UnknownIsBlank
  <1>2. IInv /\ RowsSound /\ UnknownIsBlank /\ [Next]_vars =>
          [\A id \in Ids : StandsAt(id)]_vars
    BY DecisionStep
  <1> QED
    BY <1>1, <1>2, InitInv, NextInv, NextRows, NextBlank, PTL
       DEF Spec, DecisionStands, StandsAt

----------------------------------------------------------------------------
(* What is pending.                                                        *)

\* The hypothesis: the 'pending' listener, which writes the row and reads the push
\* tokens, does not throw, so that the handler goes on to claim and to track the id.
ListenerDoesNotThrow == Faults \cap {"row", "tokens"} = {}

\* The ids of the undecided requests a session owns.
OwnedBy(s) == {id \in Ids : Undecided(id) /\ pending[id].owner = s}

\* A waiting request has claimed its id and its socket is open.
WaitingAt(id) ==
  Undecided(id) => pending[id].req \in claimed /\ conn[pending[id].req] = "open"

\* Both hold of every id, and every session tracks what it owns.
PendingInv ==
  /\ \A id \in Ids : WaitingAt(id)
  /\ \A s \in Sessions : tracked[s] = OwnedBy(s)

\* The id is claimed and tracked where its entry is opened, and both are undone where
\* the entry is decided.
LEMMA NextPending ==
  ASSUME ListenerDoesNotThrow
  PROVE  IInv /\ PendingInv /\ [Next]_vars => PendingInv'
  <1> SUFFICES ASSUME IInv, PendingInv, StepEffect PROVE PendingInv'
    BY EveryStepEffect
  <1> USE ConstantsAssumption
  <1>0. TypeOK /\ \A id \in Ids : pending[id].req \in Reqs \cup {NoReq}
    BY DEF IInv, TypeOK, Entry
  <1>1. ASSUME NEW r \in Reqs, pending' = pending, claimed' = claimed, tracked' = tracked,
               conn' = [conn EXCEPT ![r] = "closed"],
               \A id \in Ids : Undecided(id) => pending[id].req # r
        PROVE  PendingInv'
    BY <1>0, <1>1 DEF PendingInv, WaitingAt, OwnedBy, Undecided, Known, TypeOK
  <1>2. CASE BridgeEffect
    BY <1>0, <1>2 DEF BridgeEffect, PendingInv, WaitingAt, OwnedBy, Undecided, Known
  <1>3. CASE PerishEffect
    BY <1>3 DEF PerishEffect, PendingInv, WaitingAt, OwnedBy, Undecided, Known, NoEntry
  <1>4. ASSUME NEW r \in Reqs, RequestRejected(r) PROVE PendingInv'
    BY <1>1, <1>4 DEF RequestRejected, memVars, IInv, AskedOnce
  <1>5. ASSUME NEW r \in Reqs, CloseEffect(r) PROVE PendingInv'
    <2>1. \A id \in Ids : Undecided(id) => pending[id].req # r
      BY <1>5 DEF CloseEffect, PendingInv, WaitingAt, IInv, EntryOfRequest, Undecided
    <2> QED
      BY <1>1, <1>5, <2>1 DEF CloseEffect
  <1>6. ASSUME NEW j \in Ids, AgeOut(j) PROVE PendingInv'
    <2>1. ~Undecided(j) /\ UNCHANGED <<conn, claimed, tracked>>
      BY <1>6 DEF AgeOut, bridgeVars, IInv, TimerAfterDecision, Undecided
    <2>2. /\ ~Undecided(j)'
          /\ \A id \in Ids : id # j => pending'[id] = pending[id]
      BY <1>0, <1>6 DEF AgeOut, Undecided, Known, NoEntry, TypeOK
    <2>3. \A id \in Ids : /\ Undecided(id)' <=> Undecided(id)
                          /\ Undecided(id) => pending'[id] = pending[id]
      BY <2>1, <2>2 DEF Undecided, Known
    <2> QED
      BY <2>1, <2>3 DEF PendingInv, WaitingAt, OwnedBy
  <1>7. ASSUME NEW r \in Reqs, NEW s \in Sessions \cup {NoSession}, RequestOpened(r, s)
        PROVE  PendingInv'
    <2>1. /\ conn[r] = "open" /\ conn' = conn
          /\ claimed' = claimed \cup {r}
          /\ tracked' = [t \in Sessions |->
               IF t = s THEN tracked[t] \cup {IdOf[r]} ELSE tracked[t]]
          /\ IdOf[r] \in Ids
          /\ ~Undecided(IdOf[r])
      BY <1>7 DEF RequestOpened, OpenEntry, ListenerDoesNotThrow, Undecided
    <2>2. /\ Undecided(IdOf[r])' /\ pending'[IdOf[r]].req = r /\ pending'[IdOf[r]].owner = s
          /\ \A id \in Ids : id # IdOf[r] => pending'[id] = pending[id]
      BY <1>0, <1>7 DEF RequestOpened, OpenEntry, Undecided, Known, TypeOK
    <2>3. \A id \in Ids : id # IdOf[r] => (Undecided(id)' <=> Undecided(id))
      BY <2>2 DEF Undecided, Known
    <2>4. \A id \in Ids : WaitingAt(id)'
      BY <2>1, <2>2, <2>3 DEF PendingInv, WaitingAt
    <2>5. \A t \in Sessions : tracked'[t] = OwnedBy(t)'
      <3> SUFFICES ASSUME NEW t \in Sessions PROVE tracked'[t] = OwnedBy(t)'
        OBVIOUS
      <3>1. tracked[t] = OwnedBy(t)
        BY DEF PendingInv
      <3>2. CASE t = s
        <4>1. tracked'[t] = OwnedBy(t) \cup {IdOf[r]}
          BY <2>1, <3>1, <3>2
        <4>2. OwnedBy(t)' = OwnedBy(t) \cup {IdOf[r]}
          BY <2>1, <2>2, <2>3, <3>2 DEF OwnedBy
        <4> QED
          BY <4>1, <4>2
      <3>3. CASE t # s
        <4>1. tracked'[t] = OwnedBy(t)
          BY <2>1, <3>1, <3>3
        <4>2. OwnedBy(t)' = OwnedBy(t)
          BY <2>1, <2>2, <2>3, <3>3 DEF OwnedBy
        <4> QED
          BY <4>1, <4>2
      <3> QED
        BY <3>2, <3>3
    <2> QED
      BY <2>4, <2>5 DEF PendingInv
  <1>8. ASSUME NEW j \in Ids, NEW decision \in Decisions, NEW by, NEW recorded,
               Undecided(j), ResolveEffect(j, decision, by, recorded),
               \A q \in Reqs : IdOf[q] # j => conn'[q] = conn[q]
        PROVE  PendingInv'
    <2>1. /\ ~Undecided(j)'
          /\ \A id \in Ids : id # j => pending'[id] = pending[id]
      BY <1>0, <1>8 DEF ResolveEffect, DecidedEntry, Decisions, Undecided, Known, TypeOK
    <2>2. \A id \in Ids : id # j => (Undecided(id)' <=> Undecided(id))
      BY <2>1 DEF Undecided, Known
    <2>3. \A id \in Ids : WaitingAt(id)'
      <3> SUFFICES ASSUME NEW id \in Ids, Undecided(id)' PROVE WaitingAt(id)'
        BY DEF WaitingAt
      <3>1. id # j /\ Undecided(id) /\ pending'[id] = pending[id]
        BY <2>1, <2>2
      <3>2. pending[id].req \in Reqs /\ IdOf[pending[id].req] = id
        BY <1>0, <3>1 DEF IInv, EntryOfRequest, Undecided, Known
      <3> QED
        BY <1>8, <3>1, <3>2 DEF PendingInv, WaitingAt, ResolveEffect
    <2>4. ASSUME NEW t \in Sessions PROVE tracked'[t] = OwnedBy(t)'
      <3>1. tracked[t] = OwnedBy(t)
        BY DEF PendingInv
      <3>2. OwnedBy(t)' = OwnedBy(t) \ {j}
        BY <2>1, <2>2 DEF OwnedBy
      <3>3. CASE t = pending[j].owner
        BY <1>8, <3>1, <3>2, <3>3 DEF ResolveEffect
      <3>4. CASE t # pending[j].owner
        <4>1. j \notin OwnedBy(t)
          BY <3>4 DEF OwnedBy
        <4> QED
          BY <1>8, <3>1, <3>2, <3>4, <4>1 DEF ResolveEffect
      <3> QED
        BY <3>3, <3>4
    <2> QED
      BY <2>3, <2>4 DEF PendingInv
  <1>9. "deny" \in Decisions /\ \A r \in Reqs : IdOf[r] \in Ids
    BY DEF Decisions
  <1>10. ASSUME NEW r \in Reqs, conn' = [conn EXCEPT ![r] = "closed"]
         PROVE  \A q \in Reqs : IdOf[q] # IdOf[r] => conn'[q] = conn[q]
    BY <1>0, <1>10 DEF TypeOK
  <1>11. ASSUME NEW r \in Reqs, Told(IdOf[r], "deny", "daemon"),
                \/ /\ ResolveEffect(IdOf[r], "deny", "daemon", TRUE)
                   /\ conn' = [conn EXCEPT ![r] = "closed"]
                \/ PerishEffect
         PROVE  PendingInv'
    BY <1>3, <1>8, <1>9, <1>10, <1>11 DEF Told
  <1>12. ASSUME NEW d \in Devices, NEW id \in Ids, NEW decision \in Decisions,
                Told(id, decision, d),
                \/ \E recorded \in BOOLEAN :
                     ResolveEffect(id, decision, d, recorded) /\ conn' = conn
                \/ PerishEffect
         PROVE  PendingInv'
    BY <1>3, <1>8, <1>12 DEF Told
  <1> QED
    BY <1>2, <1>3, <1>4, <1>5, <1>6, <1>7, <1>11, <1>12 DEF StepEffect

\* Unless the 'pending' listener throws, every approval shown to a client has a hook that
\* waits for it on an open socket, and each session counts exactly its own: also when
\* decided ids age out and are presented again, the UPDATE throws or the daemon dies.
THEOREM PendingIsExact ==
  ASSUME ListenerDoesNotThrow
  PROVE  Spec => []PendingExact
  <1>1. Init => PendingInv
    BY DEF Init, PendingInv, WaitingAt, OwnedBy, Undecided, Known, NoEntry
  <1>2. PendingInv => PendingExact
    BY DEF PendingInv, WaitingAt, OwnedBy, PendingExact
  <1>3. IInv /\ PendingInv /\ [Next]_vars => PendingInv'
    BY NextPending
  <1> QED
    BY <1>1, <1>2, <1>3, InitInv, NextInv, PTL DEF Spec

----------------------------------------------------------------------------
(* What is recorded.                                                       *)

\* The hypothesis: neither the INSERT nor the UPDATE throws, and the process is not
\* killed between the answer and the UPDATE.
WritesSucceed == Faults \cap {"row", "decision", "kill"} = {}

\* The row of the id r presents is the row of r, decided as its hook was told.
RecordedAt(r) ==
  \A i \in 1..Len(answers[r]) :
    answers[r][i].by # "duplicate" =>
      audit[IdOf[r]] = [req |-> r, decision |-> answers[r][i].decision, by |-> answers[r][i].by]

\* Both hold of every id and every request.
RecordInv ==
  /\ KnownIsRecorded
  /\ \A r \in Reqs : Sole(IdOf[r]) => RecordedAt(r)

\* The row is written where the entry is opened and decided where the hook is told.
LEMMA NextRecorded ==
  ASSUME WritesSucceed
  PROVE  IInv /\ RowsSound /\ RecordInv /\ [Next]_vars => RecordInv'
  <1> SUFFICES ASSUME IInv, RowsSound, RecordInv, StepEffect PROVE RecordInv'
    BY EveryStepEffect
  <1> USE ConstantsAssumption
  <1>0. TypeOK /\ \A id \in Ids : audit[id].req \in Reqs \cup {NoReq}
    BY DEF IInv, TypeOK, Row
  <1>1. ASSUME audit' = audit, answers' = answers,
               \A id \in Ids : pending'[id] = pending[id] \/ pending'[id] = NoEntry
        PROVE  RecordInv'
    BY <1>1 DEF RecordInv, KnownIsRecorded, RecordedAt, Known, Sole, NoEntry
  <1>2. CASE BridgeEffect
    BY <1>1, <1>2 DEF BridgeEffect
  <1>3. CASE PerishEffect /\ UNCHANGED answers
    BY <1>1, <1>3 DEF PerishEffect
  <1>4. ASSUME NEW r \in Reqs, CloseEffect(r) PROVE RecordInv'
    BY <1>1, <1>4 DEF CloseEffect
  <1>5. ASSUME NEW j \in Ids, AgeOut(j) PROVE RecordInv'
    BY <1>0, <1>1, <1>5 DEF AgeOut, TypeOK
  <1>6. ASSUME NEW r \in Reqs, RequestRejected(r) PROVE RecordInv'
    <2> DEFINE a == [decision |-> "deny", by |-> "duplicate"]
    <2>1. answers[r] = <<>> /\ Append(<<>>, a) = <<a>>
      BY <1>6 DEF RequestRejected, IInv, AskedOnce
    <2>2. /\ UNCHANGED <<pending, audit>> /\ answers'[r] = <<a>>
          /\ \A q \in Reqs : q # r => answers'[q] = answers[q]
      BY <1>0, <1>6, <2>1 DEF RequestRejected, memVars, TypeOK
    <2>3. RecordedAt(r)'
      BY <2>2 DEF RecordedAt
    <2>4. ASSUME NEW q \in Reqs, q # r PROVE RecordedAt(q) => RecordedAt(q)'
      BY <2>2, <2>4 DEF RecordedAt
    <2> QED
      BY <2>2, <2>3, <2>4 DEF RecordInv, KnownIsRecorded, Known, Sole
  <1>7. ASSUME NEW r \in Reqs, NEW s, RequestOpened(r, s) PROVE RecordInv'
    <2>1. /\ InsertRow(r) /\ answers' = answers /\ IdOf[r] \in Ids
          /\ pending'[IdOf[r]].req = r
          /\ \A id \in Ids : id # IdOf[r] => pending'[id] = pending[id]
      BY <1>0, <1>7 DEF RequestOpened, OpenEntry, WritesSucceed, TypeOK
    <2>2. /\ \A id \in Ids : id # IdOf[r] => audit'[id] = audit[id]
          /\ audit[IdOf[r]].req # NoReq => audit'[IdOf[r]] = audit[IdOf[r]]
          /\ audit[IdOf[r]].req = NoReq => audit'[IdOf[r]].req = r
      BY <1>0, <2>1 DEF InsertRow, TypeOK
    <2>3. Sole(IdOf[r]) => audit'[IdOf[r]].req = r
      BY <1>0, <2>1, <2>2 DEF Sole, RowsSound, RowAt
    <2>4. KnownIsRecorded'
      BY <2>1, <2>2, <2>3 DEF RecordInv, KnownIsRecorded, Known, Sole
    <2>5. ASSUME NEW q \in Reqs, Sole(IdOf[q]), RecordedAt(q) PROVE RecordedAt(q)'
      <3>1. IdOf[q] \in Ids
        OBVIOUS
      <3> SUFFICES ASSUME NEW i \in 1..Len(answers[q]), answers[q][i].by # "duplicate"
                   PROVE  audit'[IdOf[q]] = audit[IdOf[q]]
        BY <2>1, <2>5 DEF RecordedAt
      <3>2. audit[IdOf[q]] = [req |-> q, decision |-> answers[q][i].decision,
                              by |-> answers[q][i].by]
        BY <2>5 DEF RecordedAt
      <3>3. audit[IdOf[q]].req # NoReq
        BY <3>2
      <3> QED
        BY <2>2, <3>1, <3>3
    <2> QED
      BY <2>4, <2>5 DEF RecordInv, Sole
  <1>8. ASSUME NEW j \in Ids, NEW decision \in Decisions, NEW by,
               Told(j, decision, by), ResolveEffect(j, decision, by, TRUE)
        PROVE  RecordInv'
    <2> DEFINE a == [decision |-> decision, by |-> by]
    <2>0. PICK w \in Reqs : w = pending[j].req
      BY <1>8 DEF Told
    <2>1. /\ IdOf[w] = j /\ Known(j)
          /\ answers' = [answers EXCEPT ![w] = <<a>>]
      BY <1>8, <2>0 DEF Told, Undecided, IInv, EntryOfRequest
    <2>2. /\ answers'[w] = <<a>>
          /\ \A q \in Reqs : q # w => answers'[q] = answers[q]
      BY <1>0, <2>1 DEF TypeOK
    <2>3. /\ \A id \in Ids : pending'[id].req = pending[id].req
          /\ \A id \in Ids : id # j => audit'[id] = audit[id]
          /\ audit'[j].req = audit[j].req
          /\ audit[j].req # NoReq => audit'[j] = [req |-> audit[j].req, decision |-> decision, by |-> by]
      BY <1>0, <1>8 DEF ResolveEffect, UpdateRow, DecidedRow, DecidedEntry, TypeOK
    <2>4. KnownIsRecorded'
      BY <2>3 DEF RecordInv, KnownIsRecorded, Known, Sole
    <2>5. ASSUME Sole(j) PROVE RecordedAt(w)'
      <3>1. audit[j].req = w /\ w # NoReq
        BY <2>0, <2>1, <2>5 DEF RecordInv, KnownIsRecorded, Known
      <3>2. audit'[j] = [req |-> w, decision |-> decision, by |-> by]
        BY <2>3, <3>1
      <3> SUFFICES ASSUME NEW i \in 1..Len(answers'[w])
                   PROVE  audit'[j] = [req |-> w, decision |-> answers'[w][i].decision,
                                       by |-> answers'[w][i].by]
        BY <2>1 DEF RecordedAt
      <3>3. answers'[w][i] = a
        BY <2>2
      <3> QED
        BY <3>2, <3>3
    <2>6. ASSUME NEW q \in Reqs, Sole(IdOf[q]), q # w, RecordedAt(q) PROVE RecordedAt(q)'
      <3>1. IdOf[q] # j /\ IdOf[q] \in Ids
        BY <2>1, <2>6 DEF Sole
      <3> QED
        BY <2>2, <2>3, <2>6, <3>1 DEF RecordedAt
    <2> QED
      BY <2>1, <2>4, <2>5, <2>6 DEF RecordInv, Sole
  <1>9. "deny" \in Decisions /\ \A r \in Reqs : IdOf[r] \in Ids
    BY DEF Decisions
  <1>10. ASSUME NEW r \in Reqs, Told(IdOf[r], "deny", "daemon"),
                ResolveEffect(IdOf[r], "deny", "daemon", TRUE)
         PROVE  RecordInv'
    BY <1>8, <1>9, <1>10
  <1>11. "decision" \notin Faults /\ "kill" \notin Faults
    BY DEF WritesSucceed
  <1> QED
    BY <1>2, <1>3, <1>4, <1>5, <1>6, <1>7, <1>8, <1>10, <1>11 DEF StepEffect

\* When the writes succeed and the process is not killed inside a decision, the audit
\* table tells of every hook with an id of its own what the hook was told and who decided,
\* across age-outs, restarts and a throwing push.
THEOREM DecisionsAreRecorded ==
  ASSUME WritesSucceed
  PROVE  Spec => []DecisionsRecorded
  <1>1. Init => RowsSound /\ RecordInv
    BY DEF Init, RowsSound, RowAt, NoRow, RecordInv, KnownIsRecorded, RecordedAt, Known, NoEntry
  <1>2. RecordInv => DecisionsRecorded
    BY DEF RecordInv, RecordedAt, DecisionsRecorded
  <1>3. IInv /\ RowsSound /\ RecordInv /\ [Next]_vars => RecordInv'
    BY NextRecorded
  <1> QED
    BY <1>1, <1>2, <1>3, InitInv, NextInv, NextRows, PTL DEF Spec

=============================================================================
