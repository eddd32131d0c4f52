------------------------------- MODULE MCCc --------------------------------
(* Small instances of Cc.                                                  *)
EXTENDS Cc

\* The second process was killed before it drew a number, and left nothing behind.
Alone ==
  /\ pc["p2"] = "killed" /\ num["p2"] = 0
  /\ lock \in {Nobody, "p1"} /\ ~old
  /\ late["p2"] = EmptyBag

\* Two processes with one upset, or one process with more: a refusal that is read late and
\* then acked takes a lost connection, a broadcast and another lost connection.
OneOrAlone == upsets' <= 1 \/ (Alone /\ ~old')

CcSpec == Init /\ [][Next /\ OneOrAlone]_vars /\ Fairness
=============================================================================
