------------------------------- MODULE MCMail -------------------------------
(* A send to c and a broadcast to b and c under one key: whichever comes    *)
(* second is a retry.  b has an adapter, c only pulls.                      *)
EXTENDS Mail, TLC
CONSTANTS a, b, c, s1, bc

MCFrom == s1 :> a @@ bc :> a
MCTo == s1 :> {c} @@ bc :> {b, c}
MCKey == s1 :> 1 @@ bc :> 1
=============================================================================
