----------------------------- MODULE MCAdmission -----------------------------
(* One sender with two connections.  a is open to everyone, p is protected  *)
(* and only granted for asks, so a broadcast reaches a and b and not p.     *)
EXTENDS Admission, TLC
CONSTANTS me, a, b, p, ghost
MCCalls == {[kind |-> "send", to |-> a], [kind |-> "ask", to |-> p],
            [kind |-> "send", to |-> p], [kind |-> "send", to |-> ghost],
            [kind |-> "broadcast", to |-> a]}
MCCeiling == [x \in Axes |-> IF x = "sender" THEN 3 ELSE 2]
Symmetry == Permutations(Conns)
=============================================================================
