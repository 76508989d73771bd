------------------------------ MODULE MCEngines ------------------------------
(* Two calls of cell_spawn, each by one of these: on the named cell with    *)
(* one key or another, or for an ephemeral pi cell.  So they may be two     *)
(* threads of one cell, a call and its retry, or two cells.                 *)
EXTENDS Engines, TLC

P(key, named, kind) == [caller |-> "a", key |-> key, named |-> named, engine |-> kind]
MCParams == {P(1, TRUE, None), P(2, TRUE, None), P(1, FALSE, "pi")}
Symmetry == Permutations(Requests)
=============================================================================
