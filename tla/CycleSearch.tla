---------------------------- MODULE CycleSearch ----------------------------
(***************************************************************************)
(* WaitForGraph::closes_cycle: the breadth-first search that decides       *)
(* whether a new edge from -> to closes a cycle over the active awaits,    *)
(* and the list of cells it reports.  The edges are a hash map: those of   *)
(* one node are met in any order.                                          *)
(***************************************************************************)
EXTENDS WaitGraph, Naturals, Sequences

VARIABLES
    edges,    \* the active edges (count > 0), fixed during the search
    from, to, \* the edge to be activated
    pc,       \* "call", "search", "report", then "some" or "none"
    queue, visited, parent,
    node,     \* the node whose edges are being scanned
    left,     \* successors of node still to be scanned
    cycle     \* the list returned with "some"

vars == <<edges, from, to, pc, queue, visited, parent, node, left, cycle>>
input == <<edges, from, to>>

Successors(n) == {b \in Cells : <<n, b>> \in edges}

(* The graph is acyclic whenever closes_cycle is called: every edge got in *)
(* through this check (Asks shows that releases keep it so).               *)
Init ==
    /\ edges \in {E \in SUBSET (Cells \X Cells) : Acyclic(E)}
    /\ from \in Cells /\ to \in Cells
    /\ pc = "call"
    /\ queue = <<>> /\ visited = {} /\ parent = [c \in Cells |-> to]
    /\ node = to /\ left = {} /\ cycle = <<>>

(* A cell awaiting itself. *)
SelfAwait ==
    /\ pc = "call"
    /\ from = to
    /\ cycle' = <<from>>
    /\ pc' = "some"
    /\ UNCHANGED <<input, queue, visited, parent, node, left>>

Start ==
    /\ pc = "call"
    /\ from # to
    /\ queue' = <<to>>
    /\ visited' = {to}
    /\ pc' = "search"
    /\ UNCHANGED <<input, parent, node, left, cycle>>

(* Wrong variant: the head of the queue is read and stays there. *)
PopPeek ==
    /\ pc = "search"
    /\ left = {} /\ queue # <<>>
    /\ node' = Head(queue)
    /\ left' = Successors(Head(queue))
    /\ UNCHANGED <<input, pc, queue, visited, parent, cycle>>

(* while let Some(node) = queue.pop_front() *)
Pop ==
    /\ pc = "search"
    /\ left = {} /\ queue # <<>>
    /\ node' = Head(queue)
    /\ queue' = Tail(queue)
    /\ left' = Successors(Head(queue))
    /\ UNCHANGED <<input, pc, visited, parent, cycle>>

(* Wrong variant: a new node is not put into the queue. *)
VisitNotQueued(b) ==
    /\ visited' = visited \cup {b}
    /\ parent' = [parent EXCEPT ![b] = IF b \in visited THEN @ ELSE node]
    /\ UNCHANGED queue

(* Wrong variant: the parent is the start of the search, not the node. *)
VisitParentTo(b) ==
    IF b \in visited THEN UNCHANGED <<queue, visited, parent>>
    ELSE /\ visited' = visited \cup {b}
         /\ parent' = [parent EXCEPT ![b] = to]
         /\ queue' = Append(queue, b)

(* if visited.insert(b) { ... } *)
Visit(b) ==
    IF b \in visited THEN UNCHANGED <<queue, visited, parent>>
    ELSE /\ visited' = visited \cup {b}
         /\ parent' = [parent EXCEPT ![b] = node]
         /\ queue' = Append(queue, b)

(* An edge node -> b that does not lead to from. *)
Scan(b) ==
    /\ pc = "search"
    /\ b \in left
    /\ b # from
    /\ left' = left \ {b}
    /\ Visit(b)
    /\ UNCHANGED <<input, pc, node, cycle>>

(* An edge node -> from: the cycle is reported. *)
Hit ==
    /\ pc = "search"
    /\ from \in left
    /\ cycle' = <<from, to>>
    /\ pc' = "report"
    /\ UNCHANGED <<input, queue, visited, parent, node, left>>

(* while cur != to { push cur; cur = parent[cur] }, cur being node. *)
Walk ==
    /\ pc = "report"
    /\ IF node = to
       THEN pc' = "some" /\ UNCHANGED <<node, cycle>>
       ELSE /\ cycle' = Append(cycle, node)
            /\ node' = parent[node]
            /\ UNCHANGED pc
    /\ UNCHANGED <<input, queue, visited, parent, left>>

(* The queue is empty: no cycle. *)
Exhausted ==
    /\ pc = "search"
    /\ left = {} /\ queue = <<>>
    /\ pc' = "none"
    /\ UNCHANGED <<input, queue, visited, parent, node, left, cycle>>

Done == pc \in {"some", "none"} /\ UNCHANGED vars

Search == SelfAwait \/ Start \/ Pop \/ (\E b \in Cells : Scan(b)) \/ Hit \/ Walk
          \/ Exhausted

Next == Search \/ Done

Spec == Init /\ [][Next]_vars

(* The search is a loop of one thread under the graph's mutex. *)
FairSpec == Spec /\ WF_vars(Search)

-----------------------------------------------------------------------------
TypeOK ==
    /\ edges \subseteq Cells \X Cells
    /\ from \in Cells /\ to \in Cells /\ node \in Cells
    /\ pc \in {"call", "search", "report", "some", "none"}
    /\ queue \in Seq(Cells)
    /\ visited \subseteq Cells /\ left \subseteq Cells
    /\ parent \in [Cells -> Cells]
    /\ cycle \in Seq(Cells)

(* The verdict is right: closes_cycle returns None only if from cannot be  *)
(* reached from to, and a cycle only if it can.                            *)
VerdictCorrect ==
    /\ pc = "none" => ~Reaches(edges, to, from)
    /\ pc = "some" => Reaches(edges, to, from)

(* The reported cells are a cycle: after from and to, the rest read        *)
(* backwards leads from to along active edges back to from.                *)
CycleReported ==
    pc = "some" /\ from # to =>
        LET n == Len(cycle)
            succ(i) == IF i = 2 THEN cycle[n] ELSE IF i = 3 THEN from ELSE cycle[i - 1]
        IN IF n = 2 THEN <<to, from>> \in edges
           ELSE \A i \in 2..n : <<cycle[i], succ(i)>> \in edges

(* The search ends. *)
Terminates == <>(pc \in {"some", "none"})
=============================================================================
