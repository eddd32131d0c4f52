----------------------------- MODULE Approvals -----------------------------
(***************************************************************************)
(* The approval path: a blocked PreToolUse hook (hook/approve-bridge.mjs), *)
(* the daemon's hook socket (interface/hookBridge.ts), the broker that     *)
(* arbitrates decisions (domain/approvals.ts), the audit rows the broker's *)
(* events write (index.ts, infrastructure/db.ts) and the decide command    *)
(* (application/commands.ts).                                              *)
(*                                                                         *)
(* A request r of Reqs is one run of the bridge process, with the one      *)
(* socket it opens; IdOf[r] is the tool_use_id it presents.  Two requests  *)
(* may present the same id.  One JavaScript callback is one action: the    *)
(* daemon is single threaded, so what interleaves is whole callbacks, and  *)
(* the lines that travel on a socket between them.                         *)
(***************************************************************************)
EXTENDS Naturals, Sequences

CONSTANTS
  Reqs,         \* runs of the hook bridge, one socket each
  Ids,          \* tool_use_ids
  IdOf,         \* the id each request presents
  Devices,      \* authenticated devices that may decide
  Sessions,     \* sessions of this daemon that may own a request
  NoReq,        \* "no such request"
  NoSession,    \* the hook's session_id is not one of ours
  Faults,       \* which of FaultKinds may happen
  MaxRestarts,  \* bound: how often the daemon dies
  MaxAgeOuts    \* bound: how many decided entries age out of `pending'

\* "row": the INSERT throws; "tokens": reading the push tokens throws;
\* "decision": the UPDATE throws; "kill": the process is killed between the
\* answer to the hook and the UPDATE.
FaultKinds == {"row", "tokens", "decision", "kill"}

ASSUME ConstantsAssumption ==
  /\ IdOf \in [Reqs -> Ids]
  /\ NoReq \notin Reqs
  /\ NoSession \notin Sessions
  /\ Devices \cap {"daemon", "duplicate", "nobody"} = {}
  /\ Faults \subseteq FaultKinds
  /\ MaxRestarts \in Nat
  /\ MaxAgeOuts \in Nat

VARIABLES
  \* the bridge processes and their sockets
  bridge,    \* [Reqs -> Phases]
  verdict,   \* the permissionDecision printed on stdout
  conn,      \* the daemon's end of the hook socket
  up,        \* the approval_request line is on its way
  down,      \* approval_decision lines on their way to the bridge
  \* the daemon's memory
  alive,     \* the daemon process is running
  pending,   \* ApprovalBroker.pending
  waiters,   \* ApprovalBroker.waiters: whose socket hears the decision
  claimed,   \* the sockets whose `claimed' set holds their id
  tracked,   \* per session: its pendingApprovals set
  \* durable state, and history
  audit,     \* rows of the approvals table
  answers,   \* history: every approval_decision the daemon wrote, by request
  restarts,  \* history: how often the daemon died
  ageouts    \* history: how many entries aged out

bridgeVars == <<bridge, verdict, conn, up, down>>
memVars    == <<alive, pending, waiters, claimed, tracked>>
vars == <<bridgeVars, memVars, audit, answers, restarts, ageouts>>

Phases    == {"idle", "dialing", "waiting", "done"}
Decisions == {"allow", "deny"}
Deciders  == Devices \cup {"daemon", "duplicate"}
Answer    == [decision : Decisions, by : Deciders]

\* An entry of the broker: who asked, its owner, the decision once taken,
\* and whether the timer that ages it out is armed.
Entry ==
  [req : Reqs \cup {NoReq}, owner : Sessions \cup {NoSession},
   decision : Decisions \cup {"none"}, by : Deciders \cup {"nobody"},
   timer : BOOLEAN]

NoEntry == [req |-> NoReq, owner |-> NoSession, decision |-> "none",
            by |-> "nobody", timer |-> FALSE]

\* A row of the approvals table: the request that was recorded, its decision.
Row == [req : Reqs \cup {NoReq}, decision : Decisions \cup {"none"},
        by : Deciders \cup {"nobody"}]

NoRow == [req |-> NoReq, decision |-> "none", by |-> "nobody"]

\* The entry and the row once the decision is taken.
DecidedEntry(e, decision, by, timer) ==
  [req |-> e.req, owner |-> e.owner, decision |-> decision, by |-> by, timer |-> timer]

DecidedRow(row, decision, by) == [req |-> row.req, decision |-> decision, by |-> by]

Known(id)     == pending[id].req # NoReq
Undecided(id) == Known(id) /\ pending[id].decision = "none"

Init ==
  /\ bridge  = [r \in Reqs |-> "idle"]
  /\ verdict = [r \in Reqs |-> "none"]
  /\ conn    = [r \in Reqs |-> "none"]
  /\ up      = [r \in Reqs |-> FALSE]
  /\ down    = [r \in Reqs |-> <<>>]
  /\ alive   = TRUE
  /\ pending = [id \in Ids |-> NoEntry]
  /\ waiters = [id \in Ids |-> NoReq]
  /\ claimed = {}
  /\ tracked = [s \in Sessions |-> {}]
  /\ audit   = [id \in Ids |-> NoRow]
  /\ answers = [r \in Reqs |-> <<>>]
  /\ restarts = 0
  /\ ageouts  = 0

----------------------------------------------------------------------------
(* The bridge process.                                                     *)

\* Claude runs the hook: the process reads its payload and dials the socket.
StartHook(r) ==
  /\ bridge[r] = "idle"
  /\ bridge' = [bridge EXCEPT ![r] = "dialing"]
  /\ UNCHANGED <<verdict, conn, up, down, memVars, audit, answers, restarts, ageouts>>

\* 'connect': the request line is written.
Connect(r) ==
  /\ bridge[r] = "dialing"
  /\ alive
  /\ bridge' = [bridge EXCEPT ![r] = "waiting"]
  /\ conn' = [conn EXCEPT ![r] = "open"]
  /\ up' = [up EXCEPT ![r] = TRUE]
  /\ UNCHANGED <<verdict, down, memVars, audit, answers, restarts, ageouts>>

\* Mutant: the `settled' flag is not tested, so a finished bridge speaks again.
Settle_NotOnce(r, decision) ==
  /\ bridge[r] # "idle"
  /\ bridge' = [bridge EXCEPT ![r] = "done"]
  /\ verdict' = [verdict EXCEPT ![r] = decision]

\* decide() of the bridge: print one verdict, once, and exit.
Settle(r, decision) ==
  /\ bridge[r] \in {"dialing", "waiting"}
  /\ bridge' = [bridge EXCEPT ![r] = "done"]
  /\ verdict' = [verdict EXCEPT ![r] = decision]

\* A decision line arrives.  Anything but an explicit allow is a deny.
ReadDecision(r) ==
  /\ bridge[r] = "waiting"
  /\ down[r] # <<>>
  /\ Settle(r, IF Head(down[r]) = "allow" THEN "allow" ELSE "deny")
  /\ down' = [down EXCEPT ![r] = Tail(@)]
  /\ UNCHANGED <<conn, up, memVars, audit, answers, restarts, ageouts>>

\* Mutant: the deadline lets the tool call through.
SelfDeny_FailsOpen(r) ==
  /\ Settle(r, "allow")
  /\ UNCHANGED <<conn, up, down, memVars, audit, answers, restarts, ageouts>>

\* The self-deny timer, an exception, or an unparseable payload.
SelfDeny(r) ==
  /\ Settle(r, "deny")
  /\ UNCHANGED <<conn, up, down, memVars, audit, answers, restarts, ageouts>>

\* 'error' or 'close' of the socket: the daemon is not there, or closed it.  A
\* reset may overtake a line that was already written.
SocketLost(r) ==
  /\ \/ bridge[r] = "dialing" /\ ~alive
     \/ conn[r] = "closed"
  /\ Settle(r, "deny")
  /\ UNCHANGED <<conn, up, down, memVars, audit, answers, restarts, ageouts>>

\* The session dies and takes its hook with it: no verdict is printed.
KillHook(r) ==
  /\ bridge[r] \in {"dialing", "waiting"}
  /\ bridge' = [bridge EXCEPT ![r] = "done"]
  /\ UNCHANGED <<verdict, conn, up, down, memVars, audit, answers, restarts, ageouts>>

----------------------------------------------------------------------------
(* The daemon.                                                             *)

\* Everything the process knew is gone and its sockets close; the audit table
\* and the lines already written to a socket survive it.
Perish ==
  /\ restarts < MaxRestarts
  /\ restarts' = restarts + 1
  /\ alive' = FALSE
  /\ pending' = [id \in Ids |-> NoEntry]
  /\ waiters' = [id \in Ids |-> NoReq]
  /\ claimed' = {}
  /\ tracked' = [s \in Sessions |-> {}]
  /\ conn' = [r \in Reqs |-> IF conn[r] = "open" THEN "closed" ELSE conn[r]]
  /\ up' = [r \in Reqs |-> FALSE]

\* open(): claim the id for this request, unless it is already tracked.
OpenEntry(r, owner) ==
  /\ ~Known(IdOf[r])
  /\ pending' = [pending EXCEPT ![IdOf[r]] =
       [req |-> r, owner |-> owner, decision |-> "none", by |-> "nobody", timer |-> FALSE]]
  /\ waiters' = [waiters EXCEPT ![IdOf[r]] = r]

\* recordApprovalRequested: INSERT ... ON CONFLICT DO NOTHING.
InsertRow(r) ==
  audit' = IF audit[IdOf[r]].req # NoReq THEN audit
           ELSE [audit EXCEPT ![IdOf[r]] = [req |-> r, decision |-> "none", by |-> "nobody"]]

\* Mutant: the id is tracked without checking that a session of ours owns it.
RequestOpened_OwnerUnchecked(r, owner) ==
  /\ conn[r] = "open" /\ up[r]
  /\ up' = [up EXCEPT ![r] = FALSE]
  /\ OpenEntry(r, owner)
  /\ InsertRow(r)
  /\ claimed' = claimed \cup {r}
  /\ tracked' = [s \in Sessions \cup {owner} |->
       IF s = owner THEN {IdOf[r]} ELSE tracked[s]]
  /\ UNCHANGED <<bridge, verdict, conn, down, alive, answers, restarts, ageouts>>

\* An approval_request opens a new entry.  The 'pending' listener runs inside
\* open(); when it throws, guardMessage drops the rest of the handler.
RequestOpened(r, owner) ==
  /\ conn[r] = "open" /\ up[r]
  /\ up' = [up EXCEPT ![r] = FALSE]
  /\ OpenEntry(r, owner)
  /\ \/ /\ InsertRow(r)
        /\ claimed' = claimed \cup {r}
        /\ tracked' = [s \in Sessions |->
             IF s = owner THEN tracked[s] \cup {IdOf[r]} ELSE tracked[s]]
     \/ /\ "row" \in Faults
        /\ UNCHANGED <<audit, claimed, tracked>>
     \/ /\ "tokens" \in Faults
        /\ InsertRow(r)
        /\ UNCHANGED <<claimed, tracked>>
  /\ UNCHANGED <<bridge, verdict, conn, down, alive, answers, restarts, ageouts>>

\* An approval_request whose id is tracked already is denied and cut off.
RequestRejected(r) ==
  /\ conn[r] = "open" /\ up[r]
  /\ Known(IdOf[r])
  /\ up' = [up EXCEPT ![r] = FALSE]
  /\ down' = [down EXCEPT ![r] = Append(@, "deny")]
  /\ conn' = [conn EXCEPT ![r] = "closed"]
  /\ answers' = [answers EXCEPT ![r] =
       Append(@, [decision |-> "deny", by |-> "duplicate"])]
  /\ UNCHANGED <<bridge, verdict, memVars, audit, restarts, ageouts>>

\* The waiter's respond callback, if there is one: the decision goes to the socket that asked
\* (a write to a closed one is swallowed) and the owner forgets the id.
Respond(id, decision, by) ==
  LET r == waiters[id] IN
  IF r = NoReq THEN UNCHANGED <<answers, down>>
  ELSE /\ answers' = [answers EXCEPT ![r] =
            Append(@, [decision |-> decision, by |-> by])]
       /\ down' = IF conn[r] = "open" THEN [down EXCEPT ![r] = Append(@, decision)]
                                      ELSE down

\* Mutant: the decision is recorded without its decider.
UpdateRow_Anonymous(id, decision, by) ==
  audit' = IF audit[id].req = NoReq THEN audit
           ELSE [audit EXCEPT ![id] = DecidedRow(audit[id], decision, audit[id].by)]

\* recordApprovalDecision: UPDATE ... WHERE tool_use_id = id.
UpdateRow(id, decision, by) ==
  audit' = IF audit[id].req = NoReq THEN audit
           ELSE [audit EXCEPT ![id] = DecidedRow(audit[id], decision, by)]

\* Mutant: the waiter is used and not deleted.
Resolve_KeepsWaiter(id, decision, by, recorded) ==
  /\ Respond(id, decision, by)
  /\ tracked' = [s \in Sessions |->
       IF s = pending[id].owner THEN tracked[s] \ {id} ELSE tracked[s]]
  /\ pending' = [pending EXCEPT ![id] = DecidedEntry(pending[id], decision, by, recorded)]
  /\ IF recorded THEN UpdateRow(id, decision, by) ELSE UNCHANGED audit
  /\ UNCHANGED waiters

\* Mutant: when the UPDATE fails the entry is put back to be decided again,
\* although the hook has its answer.
Resolve_RetriesAfterAnswer(id, decision, by, recorded) ==
  /\ Respond(id, decision, by)
  /\ IF recorded
     THEN /\ waiters' = [waiters EXCEPT ![id] = NoReq]
          /\ tracked' = [s \in Sessions |->
               IF s = pending[id].owner THEN tracked[s] \ {id} ELSE tracked[s]]
          /\ pending' = [pending EXCEPT ![id] = DecidedEntry(pending[id], decision, by, TRUE)]
          /\ UpdateRow(id, decision, by)
     ELSE UNCHANGED <<waiters, tracked, pending, audit>>

\* The part decide() and abandon() share: set the decision, answer the hook,
\* then emit 'resolved'.  When its listener throws, the timer is not armed.
Resolve(id, decision, by, recorded) ==
  /\ Respond(id, decision, by)
  /\ waiters' = [waiters EXCEPT ![id] = NoReq]
  /\ tracked' = [s \in Sessions |->
       IF s = pending[id].owner THEN tracked[s] \ {id} ELSE tracked[s]]
  /\ pending' = [pending EXCEPT ![id] = DecidedEntry(pending[id], decision, by, recorded)]
  /\ IF recorded THEN UpdateRow(id, decision, by) ELSE UNCHANGED audit

\* Mutant: no compare-and-swap, the last decision wins.
DecideWins_NoCas(d, id, decision) ==
  /\ alive
  /\ Known(id)
  /\ Resolve(id, decision, d, TRUE)
  /\ UNCHANGED <<bridge, verdict, conn, up, alive, claimed, restarts, ageouts>>

\* decide: the first decision wins.  guardMessage catches a failing UPDATE.
DecideWins(d, id, decision) ==
  /\ alive
  /\ Undecided(id)
  /\ \/ Resolve(id, decision, d, TRUE)
     \/ "decision" \in Faults /\ Resolve(id, decision, d, FALSE)
  /\ UNCHANGED <<bridge, verdict, conn, up, alive, claimed, restarts, ageouts>>

\* The process is killed after the answer left and before the UPDATE.
DecideKilled(d, id, decision) ==
  /\ "kill" \in Faults
  /\ alive
  /\ Undecided(id)
  /\ Respond(id, decision, d)
  /\ Perish
  /\ UNCHANGED <<bridge, verdict, audit, ageouts>>

\* Mutant: a closing socket abandons the id it presented, claimed or not.
HookClosed_Unclaimed(r) ==
  /\ conn[r] = "open"
  /\ bridge[r] = "done"
  /\ conn' = [conn EXCEPT ![r] = "closed"]
  /\ up' = [up EXCEPT ![r] = FALSE]
  /\ IF Undecided(IdOf[r]) THEN Resolve(IdOf[r], "deny", "daemon", TRUE)
     ELSE UNCHANGED <<down, pending, waiters, tracked, audit, answers>>
  /\ UNCHANGED <<alive, claimed, restarts, bridge, verdict, ageouts>>

\* Mutant: nobody listens for the close of a socket that claimed an id.
HookClosed_Unheard(r) ==
  /\ conn[r] = "open"
  /\ bridge[r] = "done"
  /\ r \notin claimed
  /\ conn' = [conn EXCEPT ![r] = "closed"]
  /\ up' = [up EXCEPT ![r] = FALSE]
  /\ UNCHANGED <<down, memVars, audit, answers, restarts, bridge, verdict, ageouts>>

\* Mutant: abandon() deletes the waiter without calling it.
HookClosed_Silent(r) ==
  /\ conn[r] = "open"
  /\ bridge[r] = "done"
  /\ conn' = [conn EXCEPT ![r] = "closed"]
  /\ up' = [up EXCEPT ![r] = FALSE]
  /\ IF r \in claimed /\ Undecided(IdOf[r])
     THEN /\ waiters' = [waiters EXCEPT ![IdOf[r]] = NoReq]
          /\ pending' = [pending EXCEPT ![IdOf[r]] =
               DecidedEntry(pending[IdOf[r]], "deny", "daemon", TRUE)]
          /\ UpdateRow(IdOf[r], "deny", "daemon")
     ELSE UNCHANGED <<pending, waiters, audit>>
  /\ UNCHANGED <<alive, claimed, tracked, down, answers, restarts, bridge, verdict, ageouts>>

\* 'close' of a hook socket: abandon the id this socket claimed, if it is still
\* undecided.  Nothing guards this callback: a failing UPDATE ends the process.
HookClosed(r) ==
  /\ conn[r] = "open"
  /\ bridge[r] = "done"
  /\ IF r \in claimed /\ Undecided(IdOf[r])
     THEN \/ /\ Resolve(IdOf[r], "deny", "daemon", TRUE)
             /\ conn' = [conn EXCEPT ![r] = "closed"]
             /\ up' = [up EXCEPT ![r] = FALSE]
             /\ UNCHANGED <<alive, claimed, restarts>>
          \/ /\ "decision" \in Faults
             /\ Respond(IdOf[r], "deny", "daemon")
             /\ Perish
             /\ UNCHANGED audit
     ELSE /\ conn' = [conn EXCEPT ![r] = "closed"]
          /\ up' = [up EXCEPT ![r] = FALSE]
          /\ UNCHANGED <<down, memVars, audit, answers, restarts>>
  /\ UNCHANGED <<bridge, verdict, ageouts>>

\* The retention timer: a decided entry leaves `pending' after a minute.
AgeOut(id) ==
  /\ ageouts < MaxAgeOuts
  /\ pending[id].timer
  /\ pending' = [pending EXCEPT ![id] = NoEntry]
  /\ ageouts' = ageouts + 1
  /\ UNCHANGED <<bridgeVars, alive, waiters, claimed, tracked, audit, answers, restarts>>

\* A crash or a shutdown.
Crash ==
  /\ alive
  /\ Perish
  /\ UNCHANGED <<bridge, verdict, down, audit, answers, ageouts>>

\* Boot: an empty broker, the old socket path unlinked and listened on again.
Boot ==
  /\ ~alive
  /\ alive' = TRUE
  /\ UNCHANGED <<bridgeVars, pending, waiters, claimed, tracked, audit, answers,
                 restarts, ageouts>>

BridgeStep(r) ==
  \/ StartHook(r) \/ Connect(r) \/ ReadDecision(r)
  \/ SelfDeny(r) \/ SocketLost(r) \/ KillHook(r)

DaemonStep ==
  \/ \E r \in Reqs :
       \/ \E s \in Sessions \cup {NoSession} : RequestOpened(r, s)
       \/ RequestRejected(r)
       \/ HookClosed(r)
  \/ \E d \in Devices, id \in Ids, decision \in Decisions :
       DecideWins(d, id, decision) \/ DecideKilled(d, id, decision)
  \/ \E id \in Ids : AgeOut(id)
  \/ Crash
  \/ Boot

Next == DaemonStep \/ \E r \in Reqs : BridgeStep(r)

Spec == Init /\ [][Next]_vars

\* Timers fire and the event loop delivers what arrived; people, Claude and
\* crashes owe nothing.
Fairness ==
  /\ \A r \in Reqs : WF_vars(SelfDeny(r)) /\ WF_vars(HookClosed(r))

FairSpec == Spec /\ Fairness

----------------------------------------------------------------------------
(* Properties.                                                             *)

\* The type of every bridge, of the broker's maps and of the approvals table.
TypeOK ==
  /\ bridge  \in [Reqs -> Phases]
  /\ verdict \in [Reqs -> Decisions \cup {"none"}]
  /\ conn    \in [Reqs -> {"none", "open", "closed"}]
  /\ up      \in [Reqs -> BOOLEAN]
  /\ down    \in [Reqs -> Seq(Decisions)]
  /\ alive   \in BOOLEAN
  /\ pending \in [Ids -> Entry]
  /\ waiters \in [Ids -> Reqs \cup {NoReq}]
  /\ claimed \subseteq Reqs
  /\ tracked \in [Sessions -> SUBSET Ids]
  /\ audit   \in [Ids -> Row]
  /\ answers \in [Reqs -> Seq(Answer)]
  /\ restarts \in 0..MaxRestarts
  /\ ageouts \in 0..MaxAgeOuts

\* A tool call proceeds only on an allow that a paired device gave to this very
\* request: no timeout, duplicate, crash or reused id opens the gate.
GateNeedsAllow ==
  \A r \in Reqs : verdict[r] = "allow" =>
    \E d \in Devices : answers[r] = <<[decision |-> "allow", by |-> d]>>

\* The daemon writes at most one decision to a hook, whoever races to decide,
\* abandon or reject it: the compare-and-swap of decide() and abandon().
OneAnswer == \A r \in Reqs : Len(answers[r]) <= 1

\* The broker's two maps agree: an id has a waiter exactly while its entry is
\* undecided, and it is the waiter of the request the operator is shown.
WaiterExact ==
  \A id \in Ids : waiters[id] = IF Undecided(id) THEN pending[id].req ELSE NoReq

\* A decision is final.  In `pending' it stands until the entry ages out: opening
\* the id again, a second decide() or an abandon() never clears or replaces it.  In
\* the audit table it changes only when another request, which reused the id, is
\* itself answered: opening, rejecting, a lost race, ageing out or a restart never
\* touch a decided row (ON CONFLICT DO NOTHING, compare-and-swap).
DecisionStands ==
  [][\A id \in Ids :
       /\ pending[id].decision # "none" =>
            \/ pending'[id].decision = pending[id].decision /\ pending'[id].by = pending[id].by
            \/ pending'[id] = NoEntry
       /\ audit[id].decision # "none" /\ audit'[id] # audit[id] =>
            LET r == waiters[id] IN
            /\ r \in Reqs \ {audit[id].req}
            /\ answers'[r] # answers[r]]_vars

\* The daemon denies a request on its own only once that request's own hook is
\* gone: while no decided id has aged out, the close of another socket never
\* denies it (`claimed' in hookBridge.ts).
OnlyOwnHookAbandons ==
  ageouts = 0 =>
    \A r \in Reqs : \A i \in 1..Len(answers[r]) :
      answers[r][i].by = "daemon" => bridge[r] = "done"

\* Every approval a client is asked to decide still has a hook to hear it, and a
\* session's "(N pending)" is exact: it counts the undecided requests the session owns,
\* no phantom and none missing.
PendingExact ==
  /\ \A id \in Ids : Undecided(id) => conn[pending[id].req] = "open"
  /\ \A s \in Sessions :
       tracked[s] = {id \in Ids : Undecided(id) /\ pending[id].owner = s}

\* An id that one request presents and no other.
Sole(id) == \A q, r \in Reqs : IdOf[q] = id /\ IdOf[r] = id => q = r

\* Every decision the broker gave to a hook with an id of its own is in the audit
\* table, with the decision and the decider the hook was told, also after a restart.
DecisionsRecorded ==
  \A r \in Reqs : \A i \in 1..Len(answers[r]) :
    Sole(IdOf[r]) /\ answers[r][i].by # "duplicate" =>
      audit[IdOf[r]] = [req |-> r, decision |-> answers[r][i].decision, by |-> answers[r][i].by]

\* The bridge always answers: the hook process ends, whatever the daemon does.  And no
\* approval stays open for ever: if nobody decides it, the hook's own deadline closes its
\* socket and the daemon abandons it.
EventuallyResolved ==
  /\ \A r \in Reqs : bridge[r] = "dialing" ~> bridge[r] = "done"
  /\ \A id \in Ids : Undecided(id) ~> ~Undecided(id)

----------------------------------------------------------------------------
(* Refinement: the answer of a request is its vote, its verdict the gate.  *)

voteOf == [r \in Reqs |-> IF answers[r] = <<>> THEN "none" ELSE answers[r][1].decision]

Gate == INSTANCE ApprovalGate WITH vote <- voteOf, gate <- verdict

\* The approval path implements the gate.
GateSpec == Gate!Spec

============================================================================
