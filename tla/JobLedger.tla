------------------------------ MODULE JobLedger ------------------------------
(***************************************************************************)
(* What the fabric promises of the jobs it takes, without scheduler,       *)
(* leases, engines or crashes: a ledger in which a job waits, is started   *)
(* when no other job of its cell is, goes back to waiting only while no    *)
(* engine has accepted it, and is finished for good.                       *)
(***************************************************************************)
CONSTANTS Jobs,
          Cell      \* the cell of each job

VARIABLES phase,    \* of each job
          accepted  \* jobs an engine is known to have accepted

ledger == <<phase, accepted>>

Phases == {"none", "waiting", "started", "finished", "cancelled"}

Init == phase = [j \in Jobs |-> "none"] /\ accepted = {}

Move(S, to) == phase' = [j \in Jobs |-> IF j \in S THEN to ELSE phase[j]]

Submit(j) ==
    /\ phase[j] = "none"
    /\ Move({j}, "waiting")
    /\ UNCHANGED accepted

(* A cancel does not hold back a start that is under way. *)
Start(j) ==
    /\ phase[j] \in {"waiting", "cancelled"}
    /\ \A k \in Jobs : Cell[k] = Cell[j] => phase[k] # "started"
    /\ Move({j}, "started")
    /\ UNCHANGED accepted

Accept(j) ==
    /\ phase[j] # "none"
    /\ accepted' = accepted \cup {j}
    /\ UNCHANGED phase

GiveBack(S) ==
    /\ \A j \in S : phase[j] = "started" /\ j \notin accepted
    /\ Move(S, "waiting")
    /\ UNCHANGED accepted

Cancel(S) ==
    /\ \A j \in S : phase[j] \in {"waiting", "started"}
    /\ Move(S, "cancelled")
    /\ UNCHANGED accepted

Finish(j) ==
    /\ phase[j] # "none"
    /\ Move({j}, "finished")
    /\ UNCHANGED accepted

Next ==
    \/ \E j \in Jobs : Submit(j) \/ Start(j) \/ Accept(j) \/ Finish(j)
    \/ \E S \in SUBSET Jobs : GiveBack(S) \/ Cancel(S)

Spec == Init /\ [][Next]_ledger
=============================================================================
