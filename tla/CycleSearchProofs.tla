------------------------- MODULE CycleSearchProofs -------------------------
(***************************************************************************)
(* The verdict of closes_cycle and the cycle it reports are right for any  *)
(* number of cells and any edges, in whatever order the hash map yields    *)
(* them.                                                                   *)
(***************************************************************************)
EXTENDS CycleSearch, TLAPS

InQueue(v) == \E i \in 1..Len(queue) : queue[i] = v

(* What the search knows.  Everything visited can be reached from to and   *)
(* is not from; and an edge that leaves the visited nodes starts at a node *)
(* in the queue, or at the one being scanned and is still to be scanned.   *)
SearchInv ==
    pc \in {"search", "none"} =>
        /\ to \in visited /\ from \notin visited
        /\ \A v \in visited : Reaches(edges, to, v)
        /\ \A i \in 1..Len(queue) : queue[i] \in visited
        /\ left \subseteq Successors(node)
        /\ left # {} => node \in visited
        /\ \A v \in visited : \A b \in Successors(v) :
              b \in visited \/ InQueue(v) \/ (v = node /\ b \in left)

(* The search begins and ends with nothing left to do, or ends after from  *)
(* was met.                                                                *)
EndInv ==
    /\ pc = "call" => left = {}
    /\ pc = "none" => queue = <<>> /\ left = {}
    /\ pc \in {"report", "some"} => Reaches(edges, to, from)

IInv == TypeOK /\ SearchInv /\ EndInv

-----------------------------------------------------------------------------
LEMMA InitInv == ASSUME Init PROVE IInv
<1>1. TypeOK BY DEF Init, TypeOK
<1>2. SearchInv /\ EndInv BY DEF Init, SearchInv, EndInv
<1> QED BY <1>1, <1>2 DEF IInv

(* Reachability goes on along an edge. *)
LEMMA ReachesOn ==
  ASSUME NEW E, NEW x \in Cells, NEW y \in Cells, NEW z \in Cells,
         Reaches(E, x, y), <<y, z>> \in E
  PROVE  Reaches(E, x, z)
  BY DEF Reaches, Closed

LEMMA StartInv == ASSUME IInv, Start PROVE IInv'
<1> USE DEF Start, input
<1>1. TypeOK' BY DEF IInv, TypeOK
<1>2. queue' = <<to>> /\ Len(queue') = 1 /\ queue'[1] = to BY DEF IInv, TypeOK
<1>3. Reaches(edges, to, to) BY DEF Reaches
<1>4. left = {} BY DEF IInv, EndInv
<1> QED BY <1>1, <1>2, <1>3, <1>4 DEF IInv, SearchInv, EndInv, InQueue, Successors

LEMMA PopInv == ASSUME IInv, Pop PROVE IInv'
<1> USE DEF Pop, input
<1>1. TypeOK' BY DEF IInv, TypeOK, Successors
<1>2. /\ queue \in Seq(Cells) /\ queue # <<>>
      /\ Head(queue) = queue[1] /\ 1 \in 1..Len(queue)
      /\ Len(queue') = Len(queue) - 1
      /\ \A i \in 1..Len(queue') : queue'[i] = queue[i + 1] /\ i + 1 \in 1..Len(queue)
  BY DEF IInv, TypeOK
<1>3. \A v : InQueue(v) => v = node' \/ InQueue(v)'
  <2> SUFFICES ASSUME NEW v, NEW i \in 1..Len(queue), queue[i] = v, v # node'
               PROVE  InQueue(v)'
    BY DEF InQueue
  <2>1. i # 1 /\ Len(queue) \in Nat BY <1>2
  <2>2. i - 1 \in 1..Len(queue') /\ (i - 1) + 1 = i BY <1>2, <2>1
  <2> QED BY <1>2, <2>2 DEF InQueue
<1>4. SearchInv
  BY DEF IInv
<1>5. SearchInv'
  BY <1>2, <1>3, <1>4 DEF SearchInv, Successors
<1> QED BY <1>1, <1>5 DEF IInv, EndInv

LEMMA ScanInv == ASSUME IInv, NEW b \in Cells, Scan(b) PROVE IInv'
<1> USE DEF Scan, Visit, input
<1>1. TypeOK'
  <2>1. CASE b \in visited BY <2>1 DEF IInv, TypeOK
  <2>2. CASE b \notin visited
    <3>1. queue' \in Seq(Cells) BY <2>2 DEF IInv, TypeOK
    <3>2. parent' \in [Cells -> Cells] BY <2>2 DEF IInv, TypeOK
    <3> QED BY <2>2, <3>1, <3>2 DEF IInv, TypeOK
  <2> QED BY <2>1, <2>2
<1>2. SearchInv /\ pc = "search" /\ queue \in Seq(Cells) BY DEF IInv, TypeOK
<1>3. CASE b \in visited
  BY <1>1, <1>2, <1>3 DEF SearchInv, Successors, InQueue, IInv, EndInv
<1>4. CASE b \notin visited
  <2>1. /\ Len(queue') = Len(queue) + 1 /\ queue'[Len(queue')] = b
        /\ \A i \in 1..Len(queue) : queue'[i] = queue[i] /\ i \in 1..Len(queue')
        /\ Len(queue') \in 1..Len(queue')
        /\ \A i \in 1..Len(queue') : i \in 1..Len(queue) \/ i = Len(queue')
    BY <1>2, <1>4
  <2>2. (\A v : InQueue(v) => InQueue(v)') /\ InQueue(b)' BY <2>1 DEF InQueue
  <2>3. Reaches(edges, to, b)
    <3>1. node \in visited /\ <<node, b>> \in edges /\ Reaches(edges, to, node)
      BY <1>2 DEF SearchInv, Successors
    <3>2. node \in Cells /\ to \in Cells BY DEF IInv, TypeOK
    <3> QED BY <3>1, <3>2, ReachesOn
  <2>4. SearchInv' BY <1>2, <1>4, <2>1, <2>2, <2>3 DEF SearchInv, Successors
  <2> QED BY <1>1, <1>2, <2>4 DEF IInv, EndInv
<1> QED BY <1>3, <1>4

LEMMA HitInv == ASSUME IInv, Hit PROVE IInv'
<1>1. TypeOK' BY DEF IInv, TypeOK, Hit, input
<1>2. Reaches(edges, to, from)
  <2>1. node \in visited /\ <<node, from>> \in edges /\ Reaches(edges, to, node)
    BY DEF IInv, SearchInv, Successors, Hit
  <2>2. node \in Cells /\ to \in Cells /\ from \in Cells BY DEF IInv, TypeOK
  <2> QED BY <2>1, <2>2, ReachesOn
<1> QED BY <1>1, <1>2 DEF IInv, SearchInv, EndInv, Hit, input

LEMMA NextInv == ASSUME IInv, [Next]_vars PROVE IInv'
<1>1. CASE SelfAwait
  <2>1. TypeOK' BY <1>1 DEF IInv, TypeOK, SelfAwait, input
  <2>2. Reaches(edges, to, from) BY <1>1 DEF SelfAwait, Reaches
  <2> QED BY <1>1, <2>1, <2>2 DEF IInv, SearchInv, EndInv, SelfAwait, input
<1>2. CASE Walk
  <2>1. TypeOK' BY <1>2 DEF IInv, TypeOK, Walk, input
  <2> QED BY <1>2, <2>1 DEF IInv, SearchInv, EndInv, Walk, input
<1>3. CASE Exhausted
  <2>1. TypeOK' BY <1>3 DEF IInv, TypeOK, Exhausted, input
  <2> QED BY <1>3, <2>1 DEF IInv, SearchInv, EndInv, Exhausted, input, InQueue, Successors
<1>4. CASE UNCHANGED vars
  BY <1>4 DEF IInv, TypeOK, SearchInv, EndInv, InQueue, Successors, vars
<1> QED
  BY <1>1, <1>2, <1>3, <1>4, StartInv, PopInv, ScanInv, HitInv DEF Next, Search, Done

(* The inductive invariant holds of every behaviour of the search. *)
THEOREM Invariance == Spec => []IInv
<1>1. Init => IInv BY InitInv
<1>2. IInv /\ [Next]_vars => IInv' BY NextInv
<1> QED BY <1>1, <1>2, PTL DEF Spec

(* closes_cycle answers None exactly when from cannot be reached from to:  *)
(* an exhausted search has visited a closed set without from.              *)
THEOREM SearchCorrect == Spec => []VerdictCorrect
<1>1. IInv => VerdictCorrect
  <2> SUFFICES ASSUME IInv PROVE VerdictCorrect OBVIOUS
  <2>1. ASSUME pc = "none" PROVE ~Reaches(edges, to, from)
    <3>1. queue = <<>> /\ left = {} BY <2>1 DEF IInv, EndInv
    <3>2. \A v : ~InQueue(v) BY <3>1 DEF InQueue
    <3>3. to \in visited /\ from \notin visited BY <2>1 DEF IInv, SearchInv
    <3>4. Closed(edges, visited)
      BY <2>1, <3>1, <3>2 DEF Closed, IInv, SearchInv, Successors
    <3>5. visited \in SUBSET Cells BY DEF IInv, TypeOK
    <3> QED BY <3>3, <3>4, <3>5 DEF Reaches
  <2> QED BY <2>1 DEF VerdictCorrect, IInv, EndInv
<1> QED BY <1>1, Invariance, PTL

-----------------------------------------------------------------------------
(* The reported list.  A node met by the search was met on an edge of its  *)
(* parent, and the list grows by one cell whose edge leads to the one      *)
(* before it: to from for the first of them.                               *)

(* The cell after the i-th of the list on the way from to to from. *)
Before(i) == IF i = 3 THEN from ELSE cycle[i - 1]

ParentInv ==
    pc \in {"search", "report"} =>
        \A v \in visited \ {to} : parent[v] \in visited /\ <<parent[v], v>> \in edges

WalkInv ==
    pc = "report" =>
        /\ node \in visited /\ from # to
        /\ Len(cycle) >= 2 /\ cycle[2] = to
        /\ <<node, Before(Len(cycle) + 1)>> \in edges
        /\ \A i \in 3..Len(cycle) : <<cycle[i], Before(i)>> \in edges

ListInv == IInv /\ ParentInv /\ WalkInv /\ CycleReported

LEMMA ParentStep == ASSUME ListInv, Search PROVE ParentInv'
<1> USE DEF ListInv, ParentInv, input
<1>1. CASE SelfAwait BY <1>1 DEF SelfAwait
<1>2. CASE Start BY <1>2 DEF Start
<1>3. CASE Pop BY <1>3 DEF Pop
<1>4. ASSUME NEW b \in Cells, Scan(b) PROVE ParentInv'
  <2>1. CASE b \in visited BY <1>4, <2>1 DEF Scan, Visit
  <2>2. CASE b \notin visited
    <3>1. node \in visited /\ <<node, b>> \in edges
      BY <1>4 DEF IInv, SearchInv, Successors, Scan
    <3>2. /\ parent' = [parent EXCEPT ![b] = node] /\ visited' = visited \cup {b}
          /\ edges' = edges /\ to' = to /\ pc = "search"
      BY <1>4, <2>2 DEF Scan, Visit
    <3>3. parent \in [Cells -> Cells] /\ visited \subseteq Cells BY DEF IInv, TypeOK
    <3>4. parent'[b] = node /\ \A v \in visited : parent'[v] = parent[v]
      BY <2>2, <3>2, <3>3
    <3> QED BY <3>1, <3>2, <3>4
  <2> QED BY <2>1, <2>2
<1>5. CASE Hit BY <1>5 DEF Hit
<1>6. CASE Walk BY <1>6 DEF Walk
<1>7. CASE Exhausted BY <1>7 DEF Exhausted
<1> QED BY <1>1, <1>2, <1>3, <1>4, <1>5, <1>6, <1>7 DEF Search

(* The walk goes from a node to its parent. *)
LEMMA WalkStep ==
  ASSUME ListInv, Walk, node # to
  PROVE  WalkInv'
<1>1. /\ cycle' = Append(cycle, node) /\ node' = parent[node] /\ pc = "report"
      /\ visited' = visited /\ edges' = edges /\ from' = from /\ to' = to
  BY DEF Walk, input
<1>2. /\ cycle \in Seq(Cells) /\ node \in Cells /\ Len(cycle) \in Nat
  BY DEF ListInv, IInv, TypeOK
<1>3. /\ Len(cycle') = Len(cycle) + 1 /\ cycle'[Len(cycle) + 1] = node
      /\ \A i \in 1..Len(cycle) : cycle'[i] = cycle[i]
  BY <1>1, <1>2
<1>4. /\ node \in visited /\ from # to /\ Len(cycle) >= 2 /\ cycle[2] = to
      /\ <<node, Before(Len(cycle) + 1)>> \in edges
      /\ \A i \in 3..Len(cycle) : <<cycle[i], Before(i)>> \in edges
  BY <1>1 DEF ListInv, WalkInv
<1>5. node' \in visited /\ <<node', node>> \in edges
  BY <1>1, <1>4 DEF ListInv, ParentInv
<1>6. \A i \in 3..Len(cycle) + 1 : Before(i)' = Before(i)
  BY <1>1, <1>2, <1>3 DEF Before
<1>7. Before(Len(cycle) + 1)' = node
  <2>1. Len(cycle') + 1 # 3 /\ (Len(cycle') + 1) - 1 = Len(cycle) + 1
    BY <1>2, <1>3, <1>4
  <2> QED BY <1>3, <2>1 DEF Before
<1>8. \A i \in 3..Len(cycle') : <<cycle'[i], Before(i)'>> \in edges
  <2> SUFFICES ASSUME NEW i \in 3..Len(cycle') PROVE <<cycle'[i], Before(i)'>> \in edges
    OBVIOUS
  <2>1. CASE i = Len(cycle) + 1 BY <1>2, <1>3, <1>4, <1>6, <2>1
  <2>2. CASE i # Len(cycle) + 1
    <3>1. i \in 3..Len(cycle) /\ i \in 1..Len(cycle) /\ i \in 3..Len(cycle) + 1
      BY <1>2, <1>3, <2>2
    <3> QED BY <1>3, <1>4, <1>6, <3>1
  <2> QED BY <2>1, <2>2
<1>9. cycle'[2] = to /\ Len(cycle') >= 2
  BY <1>2, <1>3, <1>4
<1> QED BY <1>1, <1>4, <1>5, <1>7, <1>8, <1>9 DEF WalkInv

(* The walk ends at to: the list is closed. *)
LEMMA WalkEnd ==
  ASSUME ListInv, Walk, node = to
  PROVE  CycleReported'
<1>1. /\ cycle' = cycle /\ pc = "report" /\ edges' = edges /\ from' = from /\ to' = to
  BY DEF Walk, input
<1>2. Len(cycle) \in Nat BY DEF ListInv, IInv, TypeOK
<1>3. /\ Len(cycle) >= 2 /\ cycle[2] = to
      /\ <<to, Before(Len(cycle) + 1)>> \in edges
      /\ \A i \in 3..Len(cycle) : <<cycle[i], Before(i)>> \in edges
  BY <1>1 DEF ListInv, WalkInv
<1>4. CASE Len(cycle) = 2
  <2>1. Before(Len(cycle) + 1) = from BY <1>4 DEF Before
  <2> QED BY <1>1, <1>3, <1>4, <2>1 DEF CycleReported
<1>5. CASE Len(cycle) # 2
  <2>1. Before(Len(cycle) + 1) = cycle[Len(cycle)]
    <3>1. Len(cycle) + 1 # 3 /\ (Len(cycle) + 1) - 1 = Len(cycle)
      BY <1>2, <1>3, <1>5
    <3> QED BY <3>1 DEF Before
  <2>2. ASSUME NEW i \in 2..Len(cycle)
        PROVE  <<cycle[i], IF i = 2 THEN cycle[Len(cycle)]
                           ELSE IF i = 3 THEN from ELSE cycle[i - 1]>> \in edges
    <3>1. CASE i = 2 BY <1>3, <2>1, <3>1
    <3>2. CASE i # 2
      <4>1. i \in 3..Len(cycle) BY <1>2, <3>2
      <4> QED BY <1>3, <3>2, <4>1 DEF Before
    <3> QED BY <3>1, <3>2
  <2> QED BY <1>1, <1>5, <2>2 DEF CycleReported
<1> QED BY <1>4, <1>5

LEMMA ListStep == ASSUME ListInv, [Next]_vars PROVE ListInv'
<1>1. IInv' BY NextInv DEF ListInv
<1>2. CASE SelfAwait
  <2>1. ParentInv' BY <1>2, ParentStep DEF Search
  <2> QED BY <1>1, <1>2, <2>1 DEF ListInv, WalkInv, CycleReported, SelfAwait, input
<1>3. CASE Hit
  <2>1. ParentInv' BY <1>3, ParentStep DEF Search
  <2>2. /\ cycle' = <<from, to>> /\ Len(cycle') = 2 /\ cycle'[2] = to /\ node' = node
        /\ edges' = edges /\ from' = from /\ to' = to /\ visited' = visited
        /\ pc = "search" /\ pc' = "report"
    BY <1>3 DEF Hit, input
  <2>3. node \in visited /\ to \in visited /\ from \notin visited /\ <<node, from>> \in edges
    BY <1>3 DEF ListInv, IInv, SearchInv, Successors, Hit
  <2>4. Before(3)' = from BY <2>2 DEF Before
  <2>5. WalkInv' BY <2>2, <2>3, <2>4 DEF WalkInv
  <2> QED BY <1>1, <2>1, <2>2, <2>5 DEF ListInv, CycleReported
<1>4. CASE Walk
  <2>1. ParentInv' BY <1>4, ParentStep DEF Search
  <2>2. CASE node = to
    <3>1. pc' = "some" BY <1>4, <2>2 DEF Walk
    <3> QED BY <1>1, <1>4, <2>1, <2>2, <3>1, WalkEnd DEF ListInv, WalkInv
  <2>3. CASE node # to
    <3>1. pc' = "report" BY <1>4, <2>3 DEF Walk
    <3> QED BY <1>1, <1>4, <2>1, <2>3, <3>1, WalkStep DEF ListInv, CycleReported
  <2> QED BY <2>2, <2>3
<1>5. CASE Start \/ Pop \/ (\E b \in Cells : Scan(b)) \/ Exhausted
  <2>1. ParentInv' BY <1>5, ParentStep DEF Search
  <2>2. pc' \in {"search", "none"} BY <1>5 DEF Start, Pop, Scan, Exhausted
  <2> QED BY <1>1, <2>1, <2>2 DEF ListInv, WalkInv, CycleReported
<1>6. CASE UNCHANGED vars
  BY <1>1, <1>6 DEF ListInv, ParentInv, WalkInv, CycleReported, Before, vars
<1> QED BY <1>2, <1>3, <1>4, <1>5, <1>6 DEF Next, Search, Done

(* The cells closes_cycle reports are a cycle of the graph with the new    *)
(* edge, of any length: the rest of the list read backwards leads from to  *)
(* along active edges back to from.                                        *)
THEOREM ReportIsACycle == Spec => []CycleReported
<1>1. Init => ListInv
  BY InitInv DEF Init, ListInv, ParentInv, WalkInv, CycleReported
<1>2. ListInv /\ [Next]_vars => ListInv' BY ListStep
<1>3. ListInv => CycleReported BY DEF ListInv
<1> QED BY <1>1, <1>2, <1>3, PTL DEF Spec
=============================================================================
