----------------------------- MODULE MCSessions -----------------------------
(* One cell: c1 comes with its first token and pipelines two calls with a   *)
(* frame that does not parse between them, c2 comes with the second token   *)
(* and a frame that is too large.                                           *)
EXTENDS Sessions, TLC
CONSTANTS c1, c2
MCTokenOf == c1 :> 1 @@ c2 :> 2
MCScript == c1 :> <<"proof", "call", "bad", "call">> @@ c2 :> <<"proof", "big">>
=============================================================================
