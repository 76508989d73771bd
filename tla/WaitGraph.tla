----------------------------- MODULE WaitGraph -----------------------------
(***************************************************************************)
(* Directed graphs of waiting cells, and what the deadlock check of        *)
(* cell_await is about.  Reachability and cycles are defined by sets       *)
(* closed under the edges: no paths, no recursion.                         *)
(***************************************************************************)
CONSTANT Cells

Closed(E, R) == \A a \in R, b \in Cells : <<a, b>> \in E => b \in R

(* b can be reached from a: it is in every closed set that has a. *)
Reaches(E, a, b) ==
    \A R \in SUBSET Cells : a \in R /\ Closed(E, R) => b \in R

(* No set of cells in which everybody waits for somebody of the set. *)
Acyclic(E) ==
    \A S \in SUBSET Cells :
        S # {} => \E a \in S : \A b \in S : <<a, b>> \notin E
=============================================================================
