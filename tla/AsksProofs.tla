----------------------------- MODULE AsksProofs -----------------------------
(***************************************************************************)
(* Proofs about Asks, for any cells and any calls, and about the graph     *)
(* underneath.                                                             *)
(***************************************************************************)
EXTENDS Asks, FiniteSetTheorems, TLAPS

-----------------------------------------------------------------------------
(***************************************************************************)
(* The wait-for graph.                                                     *)
(***************************************************************************)

(* Removing edges makes no cycle. *)
LEMMA FewerEdges ==
  ASSUME NEW E, NEW F, E \subseteq F, Acyclic(F)
  PROVE  Acyclic(E)
  BY DEF Acyclic

(* The check of try_activate_await is enough: an edge whose target does    *)
(* not reach its source closes no cycle.                                   *)
LEMMA NewEdge ==
  ASSUME NEW E, Acyclic(E), NEW x \in Cells, NEW y \in Cells, ~Reaches(E, y, x)
  PROVE  Acyclic(E \cup {<<x, y>>})
<1>1. PICK R \in SUBSET Cells : y \in R /\ Closed(E, R) /\ x \notin R
  BY DEF Reaches
<1> SUFFICES ASSUME NEW S \in SUBSET Cells, S # {}
             PROVE  \E c \in S : \A d \in S : <<c, d>> \notin E \cup {<<x, y>>}
  BY DEF Acyclic
<1>2. CASE S \cap R = {}
  <2>1. PICK c \in S : \A d \in S : <<c, d>> \notin E
    BY DEF Acyclic
  <2> QED BY <1>1, <1>2, <2>1
<1>3. CASE S \cap R # {}
  <2>1. PICK c \in S \cap R : \A d \in S \cap R : <<c, d>> \notin E
    BY <1>3 DEF Acyclic
  <2> QED BY <1>1, <2>1 DEF Closed
<1> QED BY <1>2, <1>3

-----------------------------------------------------------------------------
(***************************************************************************)
(* The inductive invariant.                                                *)
(***************************************************************************)

AskSection == {"audited", "delivered", "ticketed"}
ReplySection == {"audited", "committed"}

(* A call between its statements holds the store. *)
LockInv ==
    /\ \A q \in Requests : call[q] \in AskSection => lock = q
    /\ \A r \in Replies : call[r] \in ReplySection => lock = r

(* The ticket is not there before it is inserted, and a reply about to be  *)
(* committed still finds it pending.                                       *)
FreshInv ==
    /\ \A q \in Requests :
          call[q] \in {"idle", "admitted", "audited", "delivered"} => ticket[q] = "none"
    /\ \A r \in Replies : call[r] = "audited" => ticket[AnswerOf[r]] = "pending"
    /\ \A r \in Replies : call[r] = "found" => ticket[AnswerOf[r]] # "none"
    /\ \A w \in Awaits : call[w] = "found" => ticket[AskOf[w]] # "none"

(* Whoever notifies, or was notified, does so after the ask was settled. *)
NoticeInv ==
    /\ \A q \in permit \cup expiring : Settled(q)
    /\ \A r \in Replies : call[r] \in {"committed", "notify"} => Settled(AnswerOf[r])
    /\ WokenSeesOutcome

(* Calls past their audit events. *)
AuditInv ==
    /\ \A q \in Requests : call[q] \in AskSection => q \in audited
    /\ \A r \in Replies : call[r] \in ReplySection => r \in audited
    /\ AuditedFirst

(* Every ticket is bound to its key, is about to be, or was cut off. *)
KeyInv ==
    /\ \A q \in bound : call[q] = "done"
    /\ \A q \in Requests :
          ticket[q] # "none" => q \in bound \/ call[q] \in {"ticketed", "lost"}
    /\ \A p \in bound, q \in Requests : call[q] \in AskSection => ~SameKey(p, q)
    /\ \A p, q \in bound : p # q => ~SameKey(p, q)

StoreInv == TypeOK /\ LockInv /\ FreshInv /\ NoticeInv /\ AuditInv /\ KeyInv

IInv == StoreInv /\ EdgesExact /\ NoWaitCycle

-----------------------------------------------------------------------------
(***************************************************************************)
(* The store.                                                              *)
(***************************************************************************)

LEMMA InitStore == ASSUME Init PROVE StoreInv
<1> USE DEF Init, Calls
<1>1. TypeOK
  <2>1. ticket \in [Requests -> TicketState] BY DEF TicketState
  <2>2. edges \in [Cells \X Cells -> Nat] OBVIOUS
  <2>3. call \in [Calls -> Places] BY DEF Places
  <2>4. faults \in Nat BY AsksAssumption
  <2>5. reply \in [Requests -> Replies \cup {Nobody}] OBVIOUS
  <2> QED BY <2>1, <2>2, <2>3, <2>4, <2>5 DEF TypeOK
<1>2. LockInv BY DEF LockInv, AskSection, ReplySection
<1>3. FreshInv BY DEF FreshInv
<1>4. NoticeInv BY DEF NoticeInv, WokenSeesOutcome
<1>5. AuditInv BY DEF AuditInv, AuditedFirst, AskSection, ReplySection
<1>6. KeyInv BY DEF KeyInv
<1> QED BY <1>1, <1>2, <1>3, <1>4, <1>5, <1>6 DEF StoreInv

(* Types of the assumed functions, and of the calls. *)
LEMMA Maps ==
  /\ \A w \in Awaits : AskOf[w] \in Requests /\ w \in Calls
  /\ \A r \in Replies : AnswerOf[r] \in Requests /\ r \in Calls
  /\ \A q \in Requests : q \in Calls /\ Asker[q] \in Cells /\ Responder[q] \in Cells
  /\ \A q \in Requests : q \notin Replies /\ q \notin Awaits
  /\ \A r \in Replies : r \notin Awaits
  /\ Nobody \notin Calls
  BY AsksAssumption DEF Calls

(* cell_ask. *)
LEMMA AskStore == ASSUME StoreInv, NEW q \in Requests, AskStep(q) PROVE StoreInv'
<1> USE Maps DEF StoreInv, TypeOK, LockInv, FreshInv, NoticeInv, AuditInv, KeyInv,
      WokenSeesOutcome, AuditedFirst, Settled, AskSection, ReplySection, StoreFree, Go,
      TicketState, Places, Waiting, store, waits, SameKey
<1>1. CASE AskAdmit(q) BY <1>1 DEF AskAdmit
<1>2. CASE AskDuplicate(q) BY <1>2 DEF AskDuplicate
<1>3. CASE AskAudit(q) BY <1>3 DEF AskAudit
<1>4. CASE AskAuditFails(q) BY <1>4 DEF AskAuditFails
<1>5. CASE AskDeliver(q) BY <1>5 DEF AskDeliver
<1>6. CASE AskTicket(q) BY <1>6 DEF AskTicket
<1>7. CASE AskBind(q) BY <1>7 DEF AskBind
<1> QED BY <1>1, <1>2, <1>3, <1>4, <1>5, <1>6, <1>7 DEF AskStep

(* cell_reply up to the notification. *)
LEMMA ReplyStore ==
  ASSUME StoreInv, NEW r \in Replies, ReplyStep(r), ~ReplyNotify(r)
  PROVE  StoreInv'
<1> USE Maps DEF StoreInv, TypeOK, LockInv, FreshInv, NoticeInv, AuditInv, KeyInv,
      WokenSeesOutcome, AuditedFirst, Settled, AskSection, ReplySection, StoreFree, Go,
      TicketState, Places, Waiting, store, waits, SameKey
<1>1. CASE ReplyLookup(r) BY <1>1 DEF ReplyLookup
<1>2. CASE ReplyRefused(r) BY <1>2 DEF ReplyRefused
<1>3. CASE ReplyAudit(r) BY <1>3 DEF ReplyAudit
<1>4. CASE ReplyAuditFails(r) BY <1>4 DEF ReplyAuditFails
<1>5. CASE ReplyCommit(r) BY <1>5 DEF ReplyCommit
<1>6. CASE ReplyDeliver(r) BY <1>6 DEF ReplyDeliver
<1> QED BY <1>1, <1>2, <1>3, <1>4, <1>5, <1>6 DEF ReplyStep

(* A notification about a settled ask. *)
LEMMA NotifyStore ==
  ASSUME StoreInv, NEW q \in Requests, Settled(q), NEW call1 \in [Calls -> Places],
         \A k \in Calls : call1[k] # call[k] =>
             k \in Replies /\ call[k] = "notify" /\ call1[k] = "done",
         NotifyOne(q, call1), expiring' \subseteq expiring,
         UNCHANGED <<store, lock, wakers, edges, faults>>
  PROVE  StoreInv'
<1> USE Maps DEF StoreInv, TypeOK, LockInv, FreshInv, NoticeInv, AuditInv, KeyInv,
      WokenSeesOutcome, AuditedFirst, Settled, AskSection, ReplySection,
      TicketState, Places, Waiting, store, SameKey
<1>1. call' \in [Calls -> Places] /\ permit' \subseteq permit \cup {q}
  BY DEF NotifyOne
<1>2. \A k \in Calls : call'[k] # call[k] =>
          \/ k \in Replies /\ call[k] = "notify" /\ call'[k] = "done"
          \/ k \in Awaits /\ AskOf[k] = q /\ call[k] = "sleeping" /\ call'[k] = "woken"
  BY DEF NotifyOne
<1> QED BY <1>1, <1>2

(* cell_await. *)
LEMMA AwaitStore == ASSUME StoreInv, NEW w \in Awaits, AwaitStep(w) PROVE StoreInv'
<1> USE Maps DEF StoreInv, TypeOK, LockInv, FreshInv, NoticeInv, AuditInv, KeyInv,
      WokenSeesOutcome, AuditedFirst, Settled, AskSection, ReplySection, StoreFree, Go,
      TicketState, Places, Waiting, store, waits, SameKey
<1>1. CASE AwaitLookup(w) BY <1>1 DEF AwaitLookup
<1>2. CASE AwaitActivate(w)
  <2>1. Pair(w) \in Cells \X Cells BY DEF Pair
  <2> QED BY <1>2, <2>1 DEF AwaitActivate
<1>3. CASE AwaitRefused(w) BY <1>3 DEF AwaitRefused
<1>4. CASE AwaitRegister(w) BY <1>4 DEF AwaitRegister
<1>5. CASE AwaitPoll(w) BY <1>5 DEF AwaitPoll
<1>6. CASE AwaitRead(w) BY <1>6 DEF AwaitRead
<1>7. CASE AwaitTimeout(w) BY <1>7 DEF AwaitTimeout
<1>8. CASE AwaitRelease(w)
  <2>1. Pair(w) \in Cells \X Cells BY DEF Pair
  <2> QED BY <1>8, <2>1 DEF AwaitRelease
<1> QED BY <1>1, <1>2, <1>3, <1>4, <1>5, <1>6, <1>7, <1>8 DEF AwaitStep

(* The delivery loop's expiry. *)
LEMMA ExpireStore ==
  ASSUME StoreInv, NEW S \in SUBSET Requests, ExpireAsks(S)
  PROVE  StoreInv'
  BY Maps DEF ExpireAsks, StoreInv, TypeOK, LockInv, FreshInv, NoticeInv, AuditInv, KeyInv,
      WokenSeesOutcome, AuditedFirst, Settled, AskSection, ReplySection, StoreFree,
      TicketState, waits, SameKey

LEMMA CrashStore == ASSUME StoreInv, Crash PROVE StoreInv'
  BY Maps DEF Crash, StoreInv, TypeOK, LockInv, FreshInv, NoticeInv, AuditInv, KeyInv,
      WokenSeesOutcome, AuditedFirst, Settled, AskSection, ReplySection, store,
      TicketState, Places, SameKey

(* A notification is one of a reply or of the delivery loop. *)
LEMMA ReplyNotifyStore ==
  ASSUME StoreInv, NEW r \in Replies, ReplyNotify(r) PROVE StoreInv'
<1>1. Settled(AnswerOf[r]) /\ AnswerOf[r] \in Requests
  BY Maps DEF ReplyNotify, StoreInv, NoticeInv
<1>2. [call EXCEPT ![r] = "done"] \in [Calls -> Places]
  BY Maps DEF StoreInv, TypeOK, Places
<1>3. \A k \in Calls : [call EXCEPT ![r] = "done"][k] # call[k] =>
          k \in Replies /\ call[k] = "notify" /\ [call EXCEPT ![r] = "done"][k] = "done"
  BY Maps DEF ReplyNotify, StoreInv, TypeOK
<1> QED BY <1>1, <1>2, <1>3, NotifyStore DEF ReplyNotify

LEMMA ExpireNotifyStore ==
  ASSUME StoreInv, NEW q \in Requests, ExpireNotify(q) PROVE StoreInv'
<1>1. Settled(q) /\ call \in [Calls -> Places] /\ expiring' \subseteq expiring
  BY DEF ExpireNotify, StoreInv, NoticeInv, TypeOK
<1> QED BY <1>1, NotifyStore DEF ExpireNotify

LEMMA NextStore == ASSUME StoreInv, [Next]_vars PROVE StoreInv'
<1>1. CASE UNCHANGED vars
  BY <1>1 DEF vars, store, waits, StoreInv, TypeOK, LockInv, FreshInv, NoticeInv, AuditInv,
      KeyInv, WokenSeesOutcome, AuditedFirst, Settled
<1> QED
  BY <1>1, AskStore, ReplyStore, ReplyNotifyStore, AwaitStore, ExpireStore,
     ExpireNotifyStore, CrashStore DEF Next

-----------------------------------------------------------------------------
(***************************************************************************)
(* The blocked awaits and the counters.                                    *)
(***************************************************************************)

LEMMA Pairs == \A w \in Awaits : Pair(w) \in Cells \X Cells
  BY Maps DEF Pair

Counted(p) == {w \in Blocked : Pair(w) = p}

LEMMA CountedFinite == \A p : IsFiniteSet(Counted(p))
<1> SUFFICES ASSUME NEW p PROVE IsFiniteSet(Counted(p)) OBVIOUS
<1>1. Counted(p) \in SUBSET Awaits BY DEF Counted, Blocked
<1> QED BY <1>1, AsksAssumption, FS_Subset

(* While the counters are exact they give the edges of the blocked awaits. *)
LEMMA ActiveIsBlocked ==
  ASSUME EdgesExact PROVE ActiveEdges = {Pair(w) : w \in Blocked}
<1>1. \A p \in Cells \X Cells : edges[p] = Cardinality(Counted(p))
  BY DEF EdgesExact, Counted
<1>2. \A p : Cardinality(Counted(p)) \in Nat /\ (Cardinality(Counted(p)) = 0 <=> Counted(p) = {})
  BY CountedFinite, FS_EmptySet, FS_CardinalityType
<1>3. ASSUME NEW p \in Cells \X Cells
      PROVE  p \in ActiveEdges <=> Counted(p) # {}
  BY <1>1, <1>2 DEF ActiveEdges
<1>4. ASSUME NEW p \in Cells \X Cells
      PROVE  Counted(p) # {} <=> p \in {Pair(w) : w \in Blocked}
  BY DEF Counted
<1>5. ActiveEdges \subseteq Cells \X Cells BY DEF ActiveEdges
<1>6. {Pair(w) : w \in Blocked} \subseteq Cells \X Cells BY Pairs DEF Blocked
<1> QED BY <1>3, <1>4, <1>5, <1>6

(* Nobody starts or stops waiting. *)
LEMMA SameBlocked ==
  ASSUME EdgesExact, NoWaitCycle, Blocked' = Blocked, edges' = edges
  PROVE  EdgesExact' /\ NoWaitCycle'
  BY DEF EdgesExact, NoWaitCycle, Pair

LEMMA ActivateGraph ==
  ASSUME IInv, NEW w \in Awaits, AwaitActivate(w) PROVE EdgesExact' /\ NoWaitCycle'
<1> DEFINE a == Asker[AskOf[w]]  b == Responder[AskOf[w]]
<1>1. a \in Cells /\ b \in Cells /\ Pair(w) = <<a, b>> /\ w \in Calls
  BY Maps DEF Pair
<1>2. Blocked' = Blocked \cup {w} /\ w \notin Blocked
  BY <1>1 DEF AwaitActivate, Go, Blocked, IInv, StoreInv, TypeOK, Calls, Waiting
<1>3. ~Reaches(ActiveEdges, b, a) BY <1>1 DEF AwaitActivate, ClosesCycle
<1>4. NoWaitCycle'
  <2>1. Acyclic(ActiveEdges) BY ActiveIsBlocked DEF IInv, NoWaitCycle
  <2>2. Acyclic(ActiveEdges \cup {<<a, b>>}) BY <1>1, <1>3, <2>1, NewEdge
  <2>3. {Pair(v) : v \in Blocked'} = ActiveEdges \cup {<<a, b>>}
    BY <1>1, <1>2, ActiveIsBlocked DEF IInv
  <2> QED BY <2>2, <2>3 DEF NoWaitCycle, Pair
<1>5. EdgesExact'
  <2> SUFFICES ASSUME NEW p \in Cells \X Cells
               PROVE  edges'[p] = Cardinality({v \in Blocked' : Pair(v) = p})
    BY DEF EdgesExact, Pair
  <2>1. edges[p] = Cardinality(Counted(p)) BY DEF IInv, EdgesExact, Counted
  <2>2. CASE p = Pair(w)
    <3>1. {v \in Blocked' : Pair(v) = p} = Counted(p) \cup {w} /\ w \notin Counted(p)
      BY <1>2, <2>2 DEF Counted
    <3>2. edges'[p] = edges[p] + 1
      BY <2>2 DEF AwaitActivate, IInv, StoreInv, TypeOK
    <3> QED BY <2>1, <3>1, <3>2, CountedFinite, FS_AddElement
  <2>3. CASE p # Pair(w)
    <3>1. {v \in Blocked' : Pair(v) = p} = Counted(p)
      BY <1>2, <2>3 DEF Counted
    <3>2. edges'[p] = edges[p]
      BY <2>3 DEF AwaitActivate, IInv, StoreInv, TypeOK
    <3> QED BY <2>1, <3>1, <3>2
  <2> QED BY <2>2, <2>3
<1> QED BY <1>4, <1>5

LEMMA ReleaseGraph ==
  ASSUME IInv, NEW w \in Awaits, AwaitRelease(w) PROVE EdgesExact' /\ NoWaitCycle'
<1>1. Blocked' = Blocked \ {w} /\ w \in Blocked
  BY Maps DEF AwaitRelease, Go, Blocked, IInv, StoreInv, TypeOK, Calls, Waiting
<1>2. NoWaitCycle'
  <2>1. {Pair(v) : v \in Blocked'} \subseteq {Pair(v) : v \in Blocked} BY <1>1
  <2> QED BY <2>1, FewerEdges DEF IInv, NoWaitCycle, Pair
<1>3. EdgesExact'
  <2> SUFFICES ASSUME NEW p \in Cells \X Cells
               PROVE  edges'[p] = Cardinality({v \in Blocked' : Pair(v) = p})
    BY DEF EdgesExact, Pair
  <2>1. edges[p] = Cardinality(Counted(p)) BY DEF IInv, EdgesExact, Counted
  <2>2. CASE p = Pair(w)
    <3>1. {v \in Blocked' : Pair(v) = p} = Counted(p) \ {w} /\ w \in Counted(p)
      BY <1>1, <2>2 DEF Counted
    <3>2. edges[p] \in Nat /\ edges[p] # 0
      BY <2>1, <3>1, CountedFinite, FS_EmptySet, FS_CardinalityType
    <3>3. edges'[p] = edges[p] - 1
      BY <2>2, <3>2 DEF AwaitRelease, IInv, StoreInv, TypeOK
    <3> QED BY <2>1, <3>1, <3>3, CountedFinite, FS_RemoveElement
  <2>3. CASE p # Pair(w)
    <3>1. {v \in Blocked' : Pair(v) = p} = Counted(p)
      BY <1>1, <2>3 DEF Counted
    <3>2. edges'[p] = edges[p]
      BY <2>3 DEF AwaitRelease, IInv, StoreInv, TypeOK
    <3> QED BY <2>1, <3>1, <3>2
  <2> QED BY <2>2, <2>3
<1> QED BY <1>2, <1>3

(* Nobody waits: after a crash, and at the start. *)
LEMMA NobodyWaits ==
  ASSUME Blocked = {}, edges = [p \in Cells \X Cells |-> 0]
  PROVE  EdgesExact /\ NoWaitCycle
<1>1. EdgesExact
  <2>1. \A p : {w \in Blocked : Pair(w) = p} = {} OBVIOUS
  <2> QED BY <2>1, FS_EmptySet DEF EdgesExact
<1>2. {Pair(w) : w \in Blocked} = {} OBVIOUS
<1>3. Acyclic({}) BY DEF Acyclic
<1> QED BY <1>1, <1>2, <1>3 DEF NoWaitCycle

LEMMA CrashGraph == ASSUME IInv, Crash PROVE EdgesExact' /\ NoWaitCycle'
<1>1. Blocked' = {} BY Maps DEF Crash, Blocked, Waiting
<1>2. edges' = [p \in Cells \X Cells |-> 0] BY DEF Crash
<1>3. EdgesExact'
  <2>1. \A p : {w \in Blocked' : Pair(w) = p} = {} BY <1>1
  <2> QED BY <1>2, <2>1, FS_EmptySet DEF EdgesExact, Pair
<1>4. {Pair(w) : w \in Blocked'} = {} BY <1>1
<1>5. Acyclic({}) BY DEF Acyclic
<1> QED BY <1>3, <1>4, <1>5 DEF NoWaitCycle, Pair

(* Every other step leaves the blocked awaits and the counters alone. *)
LEMMA QuietStep ==
  ASSUME IInv, [Next]_vars, ~Crash,
         \A w \in Awaits : ~AwaitActivate(w) /\ ~AwaitRelease(w)
  PROVE  Blocked' = Blocked /\ edges' = edges
<1> USE Maps DEF IInv, StoreInv, TypeOK, Blocked, Waiting, Go
<1>1. CASE UNCHANGED vars BY <1>1 DEF vars, waits
<1>2. ASSUME NEW q \in Requests, AskStep(q) PROVE Blocked' = Blocked /\ edges' = edges
  BY <1>2 DEF AskStep, AskAdmit, AskDuplicate, AskAudit, AskAuditFails, AskDeliver,
              AskTicket, AskBind, waits
<1>3. ASSUME NEW q, NEW call1 \in [Calls -> Places], NotifyOne(q, call1),
             \A w \in Awaits : call1[w] = call[w]
      PROVE  Blocked' = Blocked
  BY <1>3 DEF NotifyOne
<1>4. ASSUME NEW r \in Replies, ReplyStep(r) PROVE Blocked' = Blocked /\ edges' = edges
  <2>1. CASE ReplyNotify(r)
    <3>1. /\ [call EXCEPT ![r] = "done"] \in [Calls -> Places]
          /\ \A w \in Awaits : [call EXCEPT ![r] = "done"][w] = call[w]
      BY DEF Places
    <3> QED BY <1>3, <2>1, <3>1 DEF ReplyNotify
  <2>2. CASE ~ReplyNotify(r)
    BY <1>4, <2>2 DEF ReplyStep, ReplyLookup, ReplyRefused, ReplyAudit, ReplyAuditFails,
                      ReplyCommit, ReplyDeliver, waits
  <2> QED BY <2>1, <2>2
<1>5. ASSUME NEW w \in Awaits, AwaitStep(w) PROVE Blocked' = Blocked /\ edges' = edges
  <2>1. CASE AwaitRead(w)
    <3>1. ticket[AskOf[w]] \in {"answered", "expired"} /\ call[w] = "woken"
      BY <2>1 DEF AwaitRead, NoticeInv, WokenSeesOutcome, Settled
    <3> QED BY <2>1, <3>1 DEF AwaitRead, waits
  <2>2. CASE ~AwaitRead(w)
    BY <1>5, <2>2 DEF AwaitStep, AwaitLookup, AwaitRefused, AwaitRegister, AwaitPoll,
                      AwaitTimeout, waits
  <2> QED BY <2>1, <2>2
<1>6. ASSUME NEW S \in SUBSET Requests, ExpireAsks(S) PROVE Blocked' = Blocked /\ edges' = edges
  BY <1>6 DEF ExpireAsks, waits
<1>7. ASSUME NEW q \in Requests, ExpireNotify(q) PROVE Blocked' = Blocked /\ edges' = edges
  BY <1>3, <1>7 DEF ExpireNotify
<1> QED BY <1>1, <1>2, <1>4, <1>5, <1>6, <1>7 DEF Next

LEMMA InitInv == ASSUME Init PROVE IInv
<1>1. StoreInv BY InitStore
<1>2. Blocked = {} BY Maps DEF Init, Blocked, Waiting
<1> QED BY <1>1, <1>2, NobodyWaits DEF Init, IInv

LEMMA NextInv == ASSUME IInv, [Next]_vars PROVE IInv'
<1>1. StoreInv' BY NextStore DEF IInv
<1>2. EdgesExact' /\ NoWaitCycle'
  <2>1. CASE Crash BY <2>1, CrashGraph
  <2>2. CASE \E w \in Awaits : AwaitActivate(w) BY <2>2, ActivateGraph
  <2>3. CASE \E w \in Awaits : AwaitRelease(w) BY <2>3, ReleaseGraph
  <2>4. CASE ~Crash /\ \A w \in Awaits : ~AwaitActivate(w) /\ ~AwaitRelease(w)
    BY <2>4, QuietStep, SameBlocked DEF IInv
  <2> QED BY <2>1, <2>2, <2>3, <2>4
<1> QED BY <1>1, <1>2 DEF IInv

-----------------------------------------------------------------------------
(***************************************************************************)
(* The theorems.                                                           *)
(***************************************************************************)

(* The inductive invariant holds of every behaviour. *)
THEOREM Invariance == Spec => []IInv
<1>1. Init => IInv BY InitInv
<1>2. IInv /\ [Next]_vars => IInv' BY NextInv
<1> QED BY <1>1, <1>2, PTL DEF Spec

(* No cells wait for each other in a circle, however asks, awaits,         *)
(* replies, time-outs and crashes interleave (try_activate_await).         *)
THEOREM DeadlockFree == Spec => []NoWaitCycle
<1>1. IInv => NoWaitCycle BY DEF IInv
<1> QED BY <1>1, Invariance, PTL

(* The graph's counters are the blocked awaits: no exit path of cell_await *)
(* leaks an edge or frees another one's (AwaitEdgeGuard).                  *)
THEOREM NoLeak == Spec => []EdgesExact
<1>1. IInv => EdgesExact BY DEF IInv
<1> QED BY <1>1, Invariance, PTL

(* What can be received or awaited has been audited (G3-01). *)
THEOREM FailClosedAudit == Spec => []AuditedFirst
<1>1. IInv => AuditedFirst BY DEF IInv, StoreInv, AuditInv
<1> QED BY <1>1, Invariance, PTL

(* A notified await finds its ask settled. *)
THEOREM NotifiedAfterCommit == Spec => []WokenSeesOutcome
<1>1. IInv => WokenSeesOutcome BY DEF IInv, StoreInv, NoticeInv
<1> QED BY <1>1, Invariance, PTL

(* One ticket per sender and key, calls cut off by a crash excepted. *)
THEOREM Deduplicated == Spec => []OneTicketPerKey
<1>1. IInv => OneTicketPerKey
  <2> SUFFICES ASSUME IInv, NEW p \in Requests, NEW q \in Requests,
                      p # q, SameKey(p, q), ticket[p] # "none", ticket[q] # "none",
                      call[p] # "lost", call[q] # "lost"
               PROVE  FALSE
    BY DEF OneTicketPerKey
  <2>1. /\ p \in bound \/ call[p] = "ticketed"
        /\ q \in bound \/ call[q] = "ticketed"
    BY DEF IInv, StoreInv, KeyInv
  <2>2. ~(call[p] = "ticketed" /\ call[q] = "ticketed")
    BY DEF IInv, StoreInv, LockInv, AskSection
  <2>3. SameKey(q, p) BY DEF SameKey
  <2> QED BY <2>1, <2>2, <2>3 DEF IInv, StoreInv, KeyInv, AskSection
<1> QED BY <1>1, Invariance, PTL

(* A settled ask keeps its outcome: at most one reply, and never one after *)
(* the expiry.                                                             *)
THEOREM SettledOnce == Spec => SingleReply
<1>1. ASSUME IInv, [Next]_vars, NEW q \in Requests, Settled(q)
      PROVE  ticket'[q] = ticket[q] /\ reply'[q] = reply[q]
  <2> USE Maps DEF IInv, StoreInv, TypeOK, Settled
  <2>1. CASE ticket' = ticket /\ reply' = reply BY <2>1
  <2>2. CASE \E p \in Requests : AskTicket(p)
    BY <1>1, <2>2 DEF AskTicket, FreshInv
  <2>3. CASE \E r \in Replies : ReplyCommit(r)
    BY <1>1, <2>3 DEF ReplyCommit, FreshInv
  <2>4. CASE \E S \in SUBSET Requests : ExpireAsks(S)
    BY <1>1, <2>4 DEF ExpireAsks
  <2> QED
    BY <1>1, <2>1, <2>2, <2>3, <2>4 DEF Next, vars, store, AskStep, ReplyStep, AwaitStep,
       AskAdmit, AskDuplicate, AskAudit, AskAuditFails, AskDeliver, AskBind, ReplyLookup,
       ReplyRefused, ReplyAudit, ReplyAuditFails, ReplyDeliver, ReplyNotify, AwaitLookup,
       AwaitActivate, AwaitRefused, AwaitRegister, AwaitPoll, AwaitRead, AwaitTimeout,
       AwaitRelease, ExpireNotify, Crash
<1>2. IInv /\ [Next]_vars =>
        [\A q \in Requests : Settled(q) =>
            ticket'[q] = ticket[q] /\ reply'[q] = reply[q]]_vars
  BY <1>1
<1> QED BY <1>2, Invariance, PTL DEF Spec, SingleReply
=============================================================================
