---------------------------- MODULE ApprovalGate ----------------------------
(***************************************************************************)
(* What the approval path promises about one tool call, with no daemon, no *)
(* sockets and no crashes in sight.  A request is answered at most once,   *)
(* and the answer is final.  Its gate opens only after the answer "allow", *)
(* whereas it may close at any moment: refusing is always safe.            *)
(***************************************************************************)
CONSTANTS Reqs

VARIABLES
  vote,  \* the answer given to each request, "none" before
  gate   \* "none" while the tool call is blocked, then "allow" or "deny"

vars == <<vote, gate>>

Init ==
  /\ vote = [r \in Reqs |-> "none"]
  /\ gate = [r \in Reqs |-> "none"]

\* The first answer wins.
Vote(r, v) ==
  /\ vote[r] = "none"
  /\ vote' = [vote EXCEPT ![r] = v]
  /\ UNCHANGED gate

\* The tool call proceeds.
OpenGate(r) ==
  /\ gate[r] = "none"
  /\ vote[r] = "allow"
  /\ gate' = [gate EXCEPT ![r] = "allow"]
  /\ UNCHANGED vote

\* The tool call is refused.
CloseGate(r) ==
  /\ gate[r] = "none"
  /\ gate' = [gate EXCEPT ![r] = "deny"]
  /\ UNCHANGED vote

Next == \E r \in Reqs :
  \/ \E v \in {"allow", "deny"} : Vote(r, v)
  \/ OpenGate(r)
  \/ CloseGate(r)

Spec == Init /\ [][Next]_vars
============================================================================
