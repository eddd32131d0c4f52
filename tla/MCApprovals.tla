---------------------------- MODULE MCApprovals -----------------------------
(* Small instances of Approvals.                                           *)
EXTENDS Approvals, TLC

\* r1 and r2 collide, r3 does not.
CollidingIds == ("r1" :> "a") @@ ("r2" :> "a") @@ ("r3" :> "b")

\* Both requests present the same id.
SameId == ("r1" :> "a") @@ ("r2" :> "a")
=============================================================================
