------------------------------- MODULE MCAsks -------------------------------
(* Two cells that ask each other; q2 retries q1's key. *)
EXTENDS Asks, TLC
CONSTANTS a, b, q1, q2, q3, w1, w2, w3, r1, r2

MCAsker == q1 :> a @@ q2 :> a @@ q3 :> b
MCResponder == q1 :> b @@ q2 :> b @@ q3 :> a
MCKey == q1 :> 1 @@ q2 :> 1 @@ q3 :> 1
MCAskOf == w1 :> q1 @@ w2 :> q1 @@ w3 :> q3
MCAnswerOf == r1 :> q1 @@ r2 :> q1
LiveAsker == q1 :> a @@ q3 :> b
LiveResponder == q1 :> b @@ q3 :> a
LiveKey == q1 :> 1 @@ q3 :> 1
LiveAnswerOf == r1 :> q1

(* w1 and w2, and r1 and r2, are alike. *)
Interchange == Permutations({w1, w2}) \cup Permutations({r1, r2})
=============================================================================
