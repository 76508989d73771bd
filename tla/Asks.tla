-------------------------------- MODULE Asks --------------------------------
(***************************************************************************)
(* Ask tickets: cell_ask, cell_await and cell_reply with the wait-for      *)
(* graph, the wakers and the expiry of the delivery loop.  Every call is a *)
(* tokio task; the store is one mutex around autocommitted statements, the *)
(* graph and the wakers have mutexes of their own.  A crash keeps the      *)
(* tables and the audit log, and loses everything else.                    *)
(***************************************************************************)
EXTENDS WaitGraph, Naturals, FiniteSets

CONSTANTS
    Requests,            \* calls of cell_ask; the ask_id is the call
    Asker, Responder,    \* from_cell and to_cell of a request
    Key,                 \* its idempotency key
    Awaits, AskOf,       \* calls of cell_await, and the ask each is about
    Replies, AnswerOf,   \* calls of cell_reply, and the ask each is about
    PendingCap,          \* quota.pending_ask_cap
    Env,                 \* the disturbances of this model: "crash", "auditfail"
    Faults,              \* how many of them happen
    Nobody               \* no call

Calls == Requests \cup Awaits \cup Replies

ASSUME AsksAssumption ==
    /\ Asker \in [Requests -> Cells] /\ Responder \in [Requests -> Cells]
    /\ AskOf \in [Awaits -> Requests] /\ AnswerOf \in [Replies -> Requests]
    /\ DOMAIN Key = Requests
    /\ Requests \cap Awaits = {} /\ Requests \cap Replies = {}
    /\ Awaits \cap Replies = {} /\ Nobody \notin Calls
    /\ IsFiniteSet(Awaits)
    /\ PendingCap \in Nat /\ Faults \in Nat

VARIABLES
    \* the database and the audit log
    ticket,    \* asks.state, "none" without a row
    reply,     \* asks.reply_message_id: the reply that was recorded
    sent,      \* messages with a delivery row
    bound,     \* requests a dedupe row points to
    audited,   \* messages whose events are in the audit log
    \* the daemon's memory
    lock,      \* the call that holds the store between two statements
    edges,     \* WaitForGraph.edges: active awaits per pair of cells
    wakers,    \* asks with an entry in ask_wakers
    permit,    \* those whose Notify holds a permit
    expiring,  \* asks the delivery loop has expired and not yet notified
    call,      \* where each call is
    faults

store  == <<ticket, reply, sent, bound, audited>>
waits  == <<edges, wakers, permit>>
vars   == <<store, lock, waits, expiring, call, faults>>

TicketState == {"none", "pending", "answered", "expired"}
Settled(q) == ticket[q] \in {"answered", "expired"}
StoreFree == lock = Nobody
Go(k, pc) == call' = [call EXCEPT ![k] = pc]

(* An await is counted in the graph from its activation to its release. *)
Waiting == {"activated", "registered", "sleeping", "woken",
            "answered", "expired", "pending"}

(* Where a call can be; "lost" is one that a crash cut off. *)
Places == {"idle", "admitted", "audited", "delivered", "ticketed", "found",
           "committed", "notify", "done", "lost"} \cup Waiting

Blocked == {w \in Awaits : call[w] \in Waiting}
Pair(w) == <<Asker[AskOf[w]], Responder[AskOf[w]]>>
ActiveEdges == {p \in Cells \X Cells : edges[p] > 0}

Init ==
    /\ ticket = [q \in Requests |-> "none"]
    /\ reply = [q \in Requests |-> Nobody]
    /\ sent = {} /\ bound = {} /\ audited = {}
    /\ lock = Nobody
    /\ edges = [p \in Cells \X Cells |-> 0]
    /\ wakers = {} /\ permit = {} /\ expiring = {}
    /\ call = [k \in Calls |-> "idle"]
    /\ faults = Faults

-----------------------------------------------------------------------------
(* cell_ask. *)

OpenAsks(c) == {q \in Requests : Asker[q] = c /\ ticket[q] = "pending"}

(* The pending-ask cap is read in a critical section of its own. *)
AskAdmit(q) ==
    /\ call[q] = "idle" /\ StoreFree
    /\ Go(q, IF Cardinality(OpenAsks(Asker[q])) >= PendingCap
             THEN "done" ELSE "admitted")
    /\ UNCHANGED <<store, lock, waits, expiring, faults>>

SameKey(p, q) == Asker[p] = Asker[q] /\ Key[p] = Key[q]

(* The key is bound: the old ids, or E_DUP if the body differs. *)
AskDuplicate(q) ==
    /\ call[q] = "admitted" /\ StoreFree
    /\ \E p \in bound : SameKey(p, q)
    /\ Go(q, "done")
    /\ UNCHANGED <<store, lock, waits, expiring, faults>>

(* Wrong variant: the dedupe lookup is not repeated under the lock. *)
AskAuditNoLookup(q) ==
    /\ call[q] = "admitted" /\ StoreFree
    /\ lock' = q
    /\ audited' = audited \cup {q}
    /\ Go(q, "audited")
    /\ UNCHANGED <<ticket, reply, sent, bound, waits, expiring, faults>>

(* The envelope, which nobody sees yet, and both audit events. *)
AskAudit(q) ==
    /\ call[q] = "admitted" /\ StoreFree
    /\ ~\E p \in bound : SameKey(p, q)
    /\ lock' = q
    /\ audited' = audited \cup {q}
    /\ Go(q, "audited")
    /\ UNCHANGED <<ticket, reply, sent, bound, waits, expiring, faults>>

(* Wrong variant: the delivery row is inserted before the events. *)
AskAuditFailsSent(q) ==
    /\ call[q] = "admitted" /\ StoreFree
    /\ ~\E p \in bound : SameKey(p, q)
    /\ "auditfail" \in Env /\ faults > 0
    /\ faults' = faults - 1
    /\ sent' = sent \cup {q}
    /\ Go(q, "done")
    /\ UNCHANGED <<ticket, reply, bound, audited, lock, waits, expiring>>

(* An append fails: E_INTERNAL before anything can be seen. *)
AskAuditFails(q) ==
    /\ call[q] = "admitted" /\ StoreFree
    /\ ~\E p \in bound : SameKey(p, q)
    /\ "auditfail" \in Env /\ faults > 0
    /\ faults' = faults - 1
    /\ Go(q, "done")
    /\ UNCHANGED <<store, lock, waits, expiring>>

AskDeliver(q) ==
    /\ call[q] = "audited"
    /\ sent' = sent \cup {q}
    /\ Go(q, "delivered")
    /\ UNCHANGED <<ticket, reply, bound, audited, lock, waits, expiring, faults>>

AskTicket(q) ==
    /\ call[q] = "delivered"
    /\ ticket' = [ticket EXCEPT ![q] = "pending"]
    /\ Go(q, "ticketed")
    /\ UNCHANGED <<reply, sent, bound, audited, lock, waits, expiring, faults>>

AskBind(q) ==
    /\ call[q] = "ticketed"
    /\ bound' = bound \cup {q}
    /\ lock' = Nobody
    /\ Go(q, "done")
    /\ UNCHANGED <<ticket, reply, sent, audited, waits, expiring, faults>>

-----------------------------------------------------------------------------
(* cell_reply. *)

(* get_ask and the ownership check; an unknown ask changes nothing. *)
ReplyLookup(r) ==
    /\ call[r] = "idle" /\ StoreFree
    /\ ticket[AnswerOf[r]] # "none"
    /\ Go(r, "found")
    /\ UNCHANGED <<store, lock, waits, expiring, faults>>

(* reply_precheck: the ticket is not pending any more. *)
ReplyRefused(r) ==
    /\ call[r] = "found" /\ StoreFree
    /\ ticket[AnswerOf[r]] # "pending"
    /\ Go(r, "done")
    /\ UNCHANGED <<store, lock, waits, expiring, faults>>

(* Wrong variant: the store is unlocked while the event is appended. *)
ReplyAuditUnlocked(r) ==
    /\ call[r] = "found" /\ StoreFree
    /\ ticket[AnswerOf[r]] = "pending"
    /\ audited' = audited \cup {r}
    /\ Go(r, "audited")
    /\ UNCHANGED <<ticket, reply, sent, bound, lock, waits, expiring, faults>>

(* reply_precheck says Recorded, and the event is appended. *)
ReplyAudit(r) ==
    /\ call[r] = "found" /\ StoreFree
    /\ ticket[AnswerOf[r]] = "pending"
    /\ lock' = r
    /\ audited' = audited \cup {r}
    /\ Go(r, "audited")
    /\ UNCHANGED <<ticket, reply, sent, bound, waits, expiring, faults>>

(* Wrong variant: a failed append is logged and the asker is notified. *)
ReplyAuditFailsNotifies(r) ==
    /\ call[r] = "found" /\ StoreFree
    /\ ticket[AnswerOf[r]] = "pending"
    /\ "auditfail" \in Env /\ faults > 0
    /\ faults' = faults - 1
    /\ Go(r, "notify")
    /\ UNCHANGED <<store, lock, waits, expiring>>

(* The append fails: the ask stays pending. *)
ReplyAuditFails(r) ==
    /\ call[r] = "found" /\ StoreFree
    /\ ticket[AnswerOf[r]] = "pending"
    /\ "auditfail" \in Env /\ faults > 0
    /\ faults' = faults - 1
    /\ Go(r, "done")
    /\ UNCHANGED <<store, lock, waits, expiring>>

(* commit_reply updates the row whatever its state. *)
ReplyCommit(r) ==
    /\ call[r] = "audited"
    /\ ticket' = [ticket EXCEPT ![AnswerOf[r]] = "answered"]
    /\ reply' = [reply EXCEPT ![AnswerOf[r]] = r]
    /\ Go(r, "committed")
    /\ UNCHANGED <<sent, bound, audited, lock, waits, expiring, faults>>

ReplyDeliver(r) ==
    /\ call[r] = "committed"
    /\ sent' = sent \cup {r}
    /\ lock' = Nobody
    /\ Go(r, "notify")
    /\ UNCHANGED <<ticket, reply, bound, audited, waits, expiring, faults>>

(* Notify::notify_one on the ask's waker, if it has one: one sleeping      *)
(* await is woken, or the permit is kept.  call1 is call after the step of *)
(* whoever notifies.                                                       *)
NotifyOne(q, call1) ==
    LET Sleeping == {w \in Awaits : AskOf[w] = q /\ call[w] = "sleeping"} IN
    \/ /\ q \notin wakers
       /\ call' = call1 /\ UNCHANGED permit
    \/ /\ q \in wakers /\ Sleeping = {}
       /\ permit' = permit \cup {q} /\ call' = call1
    \/ \E w \in Sleeping :
          /\ q \in wakers
          /\ call' = [call1 EXCEPT ![w] = "woken"] /\ UNCHANGED permit

ReplyNotify(r) ==
    /\ call[r] = "notify"
    /\ NotifyOne(AnswerOf[r], [call EXCEPT ![r] = "done"])
    /\ UNCHANGED <<store, lock, edges, wakers, expiring, faults>>

-----------------------------------------------------------------------------
(* cell_await. *)

(* A settled ticket is returned at once. *)
AwaitLookup(w) ==
    /\ call[w] = "idle" /\ StoreFree
    /\ ticket[AskOf[w]] # "none"
    /\ Go(w, IF Settled(AskOf[w]) THEN "done" ELSE "found")
    /\ UNCHANGED <<store, lock, waits, expiring, faults>>

(* closes_cycle: see CycleSearch, which computes this. *)
ClosesCycle(w) == Reaches(ActiveEdges, Pair(w)[2], Pair(w)[1])

(* try_activate_await: check and insertion under the graph's mutex. *)
AwaitActivate(w) ==
    /\ call[w] = "found"
    /\ ~ClosesCycle(w)
    /\ edges' = [edges EXCEPT ![Pair(w)] = @ + 1]
    /\ Go(w, "activated")
    /\ UNCHANGED <<store, lock, wakers, permit, expiring, faults>>

(* E_WOULD_DEADLOCK. *)
AwaitRefused(w) ==
    /\ call[w] = "found"
    /\ ClosesCycle(w)
    /\ Go(w, "done")
    /\ UNCHANGED <<store, lock, waits, expiring, faults>>

(* The entry of ask_wakers is created when the first await comes by. *)
AwaitRegister(w) ==
    /\ call[w] = "activated"
    /\ wakers' = wakers \cup {AskOf[w]}
    /\ Go(w, "registered")
    /\ UNCHANGED <<store, lock, edges, permit, expiring, faults>>

(* The first poll of notified(): a kept permit is taken. *)
AwaitPoll(w) ==
    /\ call[w] = "registered"
    /\ permit' = permit \ {AskOf[w]}
    /\ Go(w, IF AskOf[w] \in permit THEN "woken" ELSE "sleeping")
    /\ UNCHANGED <<store, lock, edges, wakers, expiring, faults>>

(* Woken: the ticket is read again and decides the answer. *)
AwaitRead(w) ==
    /\ call[w] = "woken" /\ StoreFree
    /\ Go(w, ticket[AskOf[w]])
    /\ UNCHANGED <<store, lock, waits, expiring, faults>>

(* Wrong variant: a settled ask is left to its notification. *)
AwaitTimeoutIfPending(w) ==
    /\ call[w] = "sleeping" /\ StoreFree
    /\ ~Settled(AskOf[w])
    /\ Go(w, "pending")
    /\ UNCHANGED <<store, lock, waits, expiring, faults>>

(* The timer fires: "pending", whatever the ticket is. *)
AwaitTimeout(w) ==
    /\ call[w] = "sleeping" /\ StoreFree
    /\ Go(w, "pending")
    /\ UNCHANGED <<store, lock, waits, expiring, faults>>

(* Wrong variant: the pair is removed although others wait on it. *)
AwaitReleasePair(w) ==
    /\ call[w] \in {"answered", "expired", "pending"}
    /\ edges' = [edges EXCEPT ![Pair(w)] = 0]
    /\ Go(w, "done")
    /\ UNCHANGED <<store, lock, wakers, permit, expiring, faults>>

(* Wrong variant: the edge is released only after an answer. *)
AwaitReleaseAnswered(w) ==
    /\ call[w] \in {"answered", "expired", "pending"}
    /\ edges' = [edges EXCEPT ![Pair(w)] = IF call[w] = "answered" THEN @ - 1 ELSE @]
    /\ Go(w, "done")
    /\ UNCHANGED <<store, lock, wakers, permit, expiring, faults>>

(* AwaitEdgeGuard is dropped: WaitForGraph::release. *)
AwaitRelease(w) ==
    /\ call[w] \in {"answered", "expired", "pending"}
    /\ edges' = [edges EXCEPT ![Pair(w)] = IF @ = 0 THEN 0 ELSE @ - 1]
    /\ Go(w, "done")
    /\ UNCHANGED <<store, lock, wakers, permit, expiring, faults>>

-----------------------------------------------------------------------------
(* Time, the delivery loop and crashes. *)

(* Wrong variant: only asks that somebody awaited are expired. *)
ExpireAsksAwaited(S) ==
    /\ StoreFree /\ expiring = {} /\ S # {} /\ S \subseteq wakers
    /\ \A q \in S : ticket[q] = "pending"
    /\ ticket' = [q \in Requests |-> IF q \in S THEN "expired" ELSE ticket[q]]
    /\ expiring' = S
    /\ UNCHANGED <<reply, sent, bound, audited, lock, waits, call, faults>>

(* expire_asks_due, at the start of a tick of the delivery loop: S are    *)
(* the pending asks whose expires_at has passed.                           *)
ExpireAsks(S) ==
    /\ StoreFree /\ expiring = {} /\ S # {}
    /\ \A q \in S : ticket[q] = "pending"
    /\ ticket' = [q \in Requests |-> IF q \in S THEN "expired" ELSE ticket[q]]
    /\ expiring' = S
    /\ UNCHANGED <<reply, sent, bound, audited, lock, waits, call, faults>>

(* ... and its loop over the expired ids. *)
ExpireNotify(q) ==
    /\ q \in expiring
    /\ expiring' = expiring \ {q}
    /\ NotifyOne(q, call)
    /\ UNCHANGED <<store, lock, edges, wakers, faults>>

(* The daemon is killed and started again; nothing is repaired. *)
Crash ==
    /\ "crash" \in Env /\ faults > 0
    /\ faults' = faults - 1
    /\ lock' = Nobody
    /\ edges' = [p \in Cells \X Cells |-> 0]
    /\ wakers' = {} /\ permit' = {} /\ expiring' = {}
    /\ call' = [k \in Calls |->
                  IF call[k] \in {"idle", "done"} THEN call[k] ELSE "lost"]
    /\ UNCHANGED <<store>>

-----------------------------------------------------------------------------
AskStep(q) ==
    \/ AskAdmit(q) \/ AskDuplicate(q) \/ AskAudit(q) \/ AskAuditFails(q)
    \/ AskDeliver(q) \/ AskTicket(q) \/ AskBind(q)

ReplyStep(r) ==
    \/ ReplyLookup(r) \/ ReplyRefused(r) \/ ReplyAudit(r) \/ ReplyAuditFails(r)
    \/ ReplyCommit(r) \/ ReplyDeliver(r) \/ ReplyNotify(r)

AwaitStep(w) ==
    \/ AwaitLookup(w) \/ AwaitActivate(w) \/ AwaitRefused(w) \/ AwaitRegister(w)
    \/ AwaitPoll(w) \/ AwaitRead(w) \/ AwaitTimeout(w) \/ AwaitRelease(w)


Next ==
    \/ \E q \in Requests : AskStep(q)
    \/ \E r \in Replies : ReplyStep(r)
    \/ \E w \in Awaits : AwaitStep(w)
    \/ \E S \in SUBSET Requests : ExpireAsks(S)
    \/ \E q \in Requests : ExpireNotify(q)
    \/ Crash

Spec == Init /\ [][Next]_vars

(* Clients need not call; what has started runs on, timers fire, every     *)
(* expires_at passes some day and the delivery loop ticks every 500 ms.    *)
Fairness ==
    /\ \A q \in Requests : WF_vars(call[q] # "idle" /\ AskStep(q))
    /\ \A r \in Replies : WF_vars(call[r] # "idle" /\ ReplyStep(r))
    /\ \A w \in Awaits : WF_vars(call[w] # "idle" /\ AwaitStep(w))
    /\ \A q \in Requests : WF_vars(\E S \in SUBSET Requests : q \in S /\ ExpireAsks(S))
    /\ \A q \in Requests : WF_vars(ExpireNotify(q))

FairSpec == Spec /\ Fairness
-----------------------------------------------------------------------------
TypeOK ==
    /\ ticket \in [Requests -> TicketState]
    /\ reply \in [Requests -> Replies \cup {Nobody}]
    /\ sent \subseteq Requests \cup Replies
    /\ bound \subseteq Requests
    /\ audited \subseteq Requests \cup Replies
    /\ lock \in Requests \cup Replies \cup {Nobody}
    /\ edges \in [Cells \X Cells -> Nat]
    /\ wakers \subseteq Requests /\ permit \subseteq Requests
    /\ expiring \subseteq Requests
    /\ call \in [Calls -> Places]
    /\ faults \in Nat

(* No set of cells is waiting on itself: the edges of the awaits that are  *)
(* really blocked, whatever the graph's counters say, have no cycle        *)
(* (try_activate_await, AwaitEdgeGuard).                                   *)
NoWaitCycle == Acyclic({Pair(w) : w \in Blocked})

(* The counters are the blocked awaits: every exit path releases exactly   *)
(* its own edge, so no pair is blocked or freed by somebody else's await   *)
(* (G3-05).                                                                *)
EdgesExact ==
    \A p \in Cells \X Cells :
        edges[p] = Cardinality({w \in Blocked : Pair(w) = p})

(* A ticket is settled once: neither a second reply, nor the expiry of an  *)
(* answered ask, nor a reply to an expired one changes it, although        *)
(* commit_reply updates the row unconditionally.                           *)
SingleReply ==
    [][\A q \in Requests : Settled(q) =>
          ticket'[q] = ticket[q] /\ reply'[q] = reply[q]]_vars

(* Nothing can be received or awaited that the audit log does not have     *)
(* (G3-01): delivery rows, tickets and recorded replies, after crashes too. *)
AuditedFirst ==
    /\ sent \subseteq audited
    /\ \A q \in Requests : ticket[q] # "none" => q \in audited
    /\ \A q \in Requests : reply[q] # Nobody => reply[q] \in audited

(* An await that was notified finds its ask settled: no notification is    *)
(* sent before the row is written, and no permit is left over from one.    *)
WokenSeesOutcome ==
    \A w \in Awaits : call[w] = "woken" => Settled(AskOf[w])

(* Two tickets for one idempotency key exist only if a crash cut off one   *)
(* of the two calls (submission dedupe of cell_ask).                       *)
OneTicketPerKey ==
    \A p, q \in Requests :
        p # q /\ SameKey(p, q) /\ ticket[p] # "none" /\ ticket[q] # "none"
            => "lost" \in {call[p], call[q]}

(* Every blocked await ends: it is answered, expires or times out, or the  *)
(* daemon dies.                                                            *)
AwaitsReturn ==
    \A w \in Awaits : w \in Blocked ~> call[w] \in {"done", "lost"}

(* Every ask is settled, whatever crashes: its TTL outlives the daemon.    *)
AsksSettle == \A q \in Requests : ticket[q] = "pending" ~> Settled(q)

(* An await returns the answer as soon as it is recorded: none sleeps on   *)
(* for an ask whose reply was recorded and whose notification was sent.    *)
AnswerSeen ==
    \A w \in Awaits :
        LET r == reply[AskOf[w]] IN
        call[w] = "sleeping" /\ r # Nobody => call[r] # "done"
=============================================================================
