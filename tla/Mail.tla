-------------------------------- MODULE Mail --------------------------------
(***************************************************************************)
(* Mail between cells: cell_send, cell_broadcast, cell_inbox and           *)
(* report_tool_correlation against the delivery loop, which expires,       *)
(* claims and pushes delivery rows through the recipients' adapters.  The  *)
(* store is one mutex around autocommitted statements; the loop releases   *)
(* it while an adapter works.  Time is abstract: a lease lapses, a backoff *)
(* ends and a TTL elapses by actions of their own.  A pull commits before  *)
(* its response is written, and the connection may be gone by then.  A     *)
(* crash keeps tables and audit log and loses the rest.  Calls refused by  *)
(* the ACL or a rate limit touch none of this state and are the subject of *)
(* Admission.                                                              *)
(***************************************************************************)
EXTENDS Naturals, Sequences, FiniteSets

CONSTANTS
    Cells,
    Sends, Broadcasts,   \* calls of cell_send, cell_broadcast; also message ids
    From, To,            \* the sender and the recipients of a call
    Key, Body,           \* its idempotency key and the hash of its body
    Pushed,              \* cells with an installed adapter
    Outcomes,            \* what an adapter may answer
    QueueCap,            \* quota.queue_depth_max
    MaxAttempts,         \* cfg.max_attempts
    ClaimMax,            \* rows claimed per tick (50 in the code)
    InboxMax,            \* the largest limit of a cell_inbox
    Env, Faults,         \* disturbances of this model, and how many happen
    Nobody               \* no call

Calls == Sends \cup Broadcasts
Deliveries == {d \in Calls \X Cells : d[2] \in To[d[1]]}
Outcome == {"delivered", "acked", "transient", "permanent", "notready"}
Disturbances == {"crash", "auditfail", "slow", "disconnect"}

ASSUME MailAssumption ==
    /\ Sends \cap Broadcasts = {} /\ Nobody \notin Calls
    /\ From \in [Calls -> Cells] /\ To \in [Calls -> SUBSET Cells]
    /\ \A k \in Sends : \E r \in Cells : To[k] = {r}
    /\ DOMAIN Key = Calls /\ DOMAIN Body = Calls
    /\ Pushed \subseteq Cells /\ Outcomes \subseteq Outcome
    /\ Env \subseteq Disturbances
    /\ QueueCap \in Nat /\ MaxAttempts \in Nat \ {0} /\ Faults \in Nat
    /\ ClaimMax \in Nat \ {0} /\ InboxMax \in Nat \ {0}

VARIABLES
    \* the tables and the audit log
    envelopes,  \* messages with an envelope row
    seq,        \* envelopes.seq of a message, 0 for a broadcast
    counter,    \* seq_counters, the next number of an ordered pair
    order,      \* the delivery rows in rowid order
    row,        \* deliveries.state, "none" without a row
    attempts,   \* deliveries.attempts
    lease,      \* deliveries.lease_until: "null", "held" or "lapsed"
    backoff,    \* rows whose next_retry_at is ahead
    overdue,    \* messages whose expires_at is past
    bound,      \* messages a dedupe row points to
    audited,    \* messages whose enqueued or fanned-out event is durable
    \* the daemon's memory
    lock,       \* the call that holds the store between two statements
    call,       \* where each call is
    phase,      \* where the delivery loop is
    batch,      \* what it has claimed and not visited yet
    current,    \* the delivery it pushes, or Nobody
    answer,     \* the outcome of the push it made
    strays,     \* adapter calls that outlived their time-out
    responses,  \* what committed pulls return and nobody has received yet
    \* history
    received,   \* deliveries that reached the recipient or its adapter
    lost,       \* deliveries in a response that never arrived
    failures,   \* how often the loop heard an adapter fail transiently
    forged,     \* a causal record was written of a delivery never handed over
    faults      \* disturbances: how many are left, how often each kind happened

NoRow == "none"
rows == <<order, row, attempts, lease, backoff>>
submitted == <<envelopes, seq, counter, bound, audited>>
table == <<submitted, overdue, rows>>
loop == <<phase, batch, current, answer, strays>>
handover == <<received, lost, responses>>
history == <<handover, failures, forged>>
vars == <<table, lock, call, loop, history, faults>>

DeliveryState == {"queued", "claimed", "delivered", "acked", "failed", "expired"}
Pending == {"queued", "claimed"}
Over == {"acked", "failed", "expired"}
CallState == {"new", "admitted", "stored", "audited", "delivering",
              "sent", "replayed", "dup", "refused", "failed", "crashed"}

Go(k, pc) == call' = [call EXCEPT ![k] = pc]
StoreFree == lock = Nobody
Disturb(kind) ==
    /\ kind \in Env /\ faults.left > 0
    /\ faults' = [left |-> faults.left - 1, seen |-> [faults.seen EXCEPT ![kind] = @ + 1]]
Times(kind) == faults.seen[kind]

Init ==
    /\ envelopes = {} /\ seq = [k \in Calls |-> 0]
    /\ counter = [p \in Cells \X Cells |-> 1]
    /\ order = <<>>
    /\ row = [d \in Deliveries |-> NoRow]
    /\ attempts = [d \in Deliveries |-> 0]
    /\ lease = [d \in Deliveries |-> "null"]
    /\ backoff = {} /\ overdue = {} /\ bound = {} /\ audited = {}
    /\ lock = Nobody
    /\ call = [k \in Calls |-> "new"]
    /\ phase = "expire" /\ batch = {} /\ current = Nobody /\ answer = "notready"
    /\ strays = [d \in Deliveries |-> 0]
    /\ responses = {} /\ received = {} /\ lost = {}
    /\ failures = [d \in Deliveries |-> 0] /\ forged = FALSE
    /\ faults = [left |-> Faults, seen |-> [kind \in Disturbances |-> 0]]

-----------------------------------------------------------------------------
(***************************************************************************)
(* Submission.                                                             *)
(***************************************************************************)

PendingOf(r) == {d \in Deliveries : d[2] = r /\ row[d] \in Pending}

(* LIMIT n: how many rows of S are returned. *)
Limit(n, S) == IF n < Cardinality(S) THEN n ELSE Cardinality(S)

(* Admission reads the queue depth in a critical section of its own; a     *)
(* broadcast does not look at it.                                          *)
Admit(k) ==
    /\ call[k] = "new" /\ StoreFree
    /\ IF k \in Sends /\ \E r \in To[k] : Cardinality(PendingOf(r)) >= QueueCap
         THEN Go(k, "refused")
         ELSE Go(k, "admitted")
    /\ UNCHANGED <<table, lock, loop, history, faults>>

SameKey(k, l) == From[k] = From[l] /\ Key[k] = Key[l]

(* dedupe_lookup finds the binding: the same message for the same body,    *)
(* E_DUP for another one.                                                  *)
Replay(k) ==
    /\ call[k] = "admitted" /\ StoreFree
    /\ \E l \in bound : SameKey(k, l) /\
          Go(k, IF Body[l] = Body[k] THEN "replayed" ELSE "dup")
    /\ UNCHANGED <<table, lock, loop, history, faults>>

(* next_seq for a send, 0 for a broadcast, then insert_envelope.  The      *)
(* number is used up even if nothing more of the call survives.            *)
Store(k) ==
    /\ call[k] = "admitted" /\ StoreFree
    /\ ~\E l \in bound : SameKey(k, l)
    /\ IF k \in Broadcasts
         THEN UNCHANGED <<seq, counter>>
         ELSE \E r \in To[k] : LET p == <<From[k], r>> IN
                /\ seq' = [seq EXCEPT ![k] = counter[p]]
                /\ counter' = [counter EXCEPT ![p] = @ + 1]
    /\ envelopes' = envelopes \cup {k}
    /\ lock' = k
    /\ Go(k, "stored")
    /\ UNCHANGED <<rows, overdue, bound, audited, loop, history, faults>>

(* Wrong variant: the rows are inserted whatever became of the event. *)
AuditOptional(k) ==
    /\ call[k] = "stored"
    /\ \/ audited' = audited \cup {k} /\ UNCHANGED faults
       \/ Disturb("auditfail") /\ UNCHANGED audited
    /\ Go(k, "audited")
    /\ UNCHANGED <<envelopes, seq, counter, rows, overdue, bound, lock,
                   loop, history>>

(* The event is made durable before any delivery row exists; without it    *)
(* the call fails and leaves an envelope nobody can see.                   *)
Audit(k) ==
    /\ call[k] = "stored"
    /\ \/ audited' = audited \cup {k} /\ Go(k, "audited") /\ UNCHANGED <<lock, faults>>
       \/ Disturb("auditfail") /\ Go(k, "failed") /\ lock' = Nobody /\ UNCHANGED audited
    /\ UNCHANGED <<envelopes, seq, counter, rows, overdue, bound, loop,
                   history>>

(* insert_delivery, once per recipient, each a commit of its own. *)
InsertDelivery(d) ==
    /\ call[d[1]] \in {"audited", "delivering"} /\ row[d] = NoRow
    /\ order' = Append(order, d)
    /\ row' = [row EXCEPT ![d] = "queued"]
    /\ Go(d[1], "delivering")
    /\ UNCHANGED <<submitted, attempts, lease, backoff, overdue, lock, loop,
                   history, faults>>

(* Wrong variant: the key is left unbound. *)
BindNothing(k) ==
    /\ call[k] \in {"audited", "delivering"}
    /\ \A d \in Deliveries : d[1] = k => row[d] # NoRow
    /\ lock' = Nobody
    /\ Go(k, "sent")
    /\ UNCHANGED <<table, loop, history, faults>>

(* dedupe_insert ends the section: a crash before it leaves rows that the  *)
(* retry of the same key does not find.                                    *)
Bind(k) ==
    /\ call[k] \in {"audited", "delivering"}
    /\ \A d \in Deliveries : d[1] = k => row[d] # NoRow
    /\ bound' = bound \cup {k}
    /\ lock' = Nobody
    /\ Go(k, "sent")
    /\ UNCHANGED <<envelopes, seq, counter, rows, overdue, audited, loop,
                   history, faults>>

-----------------------------------------------------------------------------
(***************************************************************************)
(* The recipient.                                                          *)
(***************************************************************************)

(* cell_inbox: the pending rows with the lowest seq, at most limit of      *)
(* them, go to delivered whatever the loop is doing with them, and then    *)
(* into the response.  The limit is the client's; a smaller one also       *)
(* stands for a pull that a crash or a failed statement cuts short.        *)
Inbox(r) ==
    /\ StoreFree
    /\ \E limit \in 1..InboxMax : \E S \in SUBSET PendingOf(r) :
        /\ S # {}
        /\ Cardinality(S) = Limit(limit, PendingOf(r))
        /\ \A d \in S, e \in PendingOf(r) \ S : seq[d[1]] <= seq[e[1]]
        /\ row' = [d \in Deliveries |-> IF d \in S THEN "delivered" ELSE row[d]]
        /\ lease' = [d \in Deliveries |-> IF d \in S THEN "null" ELSE lease[d]]
        /\ responses' = responses \cup {S}
    /\ UNCHANGED <<submitted, order, attempts, backoff, overdue, lock, call,
                   loop, received, lost, failures, forged, faults>>

(* The response is written and reaches the recipient. *)
Respond(S) ==
    /\ S \in responses
    /\ responses' = responses \ {S}
    /\ received' = received \cup S
    /\ UNCHANGED <<table, lock, call, loop, lost, failures, forged, faults>>

(* It cannot be written, or goes down with the connection; nothing looks   *)
(* at the rows again.                                                      *)
RespondFails(S) ==
    /\ S \in responses
    /\ Disturb("disconnect")
    /\ responses' = responses \ {S}
    /\ lost' = lost \cup S
    /\ UNCHANGED <<table, lock, call, loop, received, failures, forged>>

(* Deliveries that left the store towards the recipient. *)
HandedOver == received \cup lost \cup UNION responses

(* report_tool_correlation writes a causal record, for a delivery that is  *)
(* delivered or acked; if the audit fails there is no record.              *)
Report(d) ==
    /\ StoreFree
    /\ row[d] \in {"delivered", "acked"}
    /\ forged' = (forged \/ d \notin HandedOver)
    /\ UNCHANGED <<table, lock, call, loop, handover, failures, faults>>

-----------------------------------------------------------------------------
(***************************************************************************)
(* The delivery loop.                                                      *)
(***************************************************************************)

(* The table of allowed transitions; transition() fails outside it and     *)
(* the loop ignores the failure.                                           *)
transition_allowed(s, t) ==
    <<s, t>> \in {<<"queued", "claimed">>, <<"claimed", "delivered">>,
                  <<"claimed", "queued">>, <<"claimed", "failed">>,
                  <<"delivered", "acked">>, <<"queued", "failed">>,
                  <<"queued", "expired">>, <<"claimed", "expired">>}

(* Wrong variant: only rows nobody has claimed expire. *)
ExpireQueued ==
    /\ phase = "expire" /\ StoreFree
    /\ row' = [d \in Deliveries |->
                 IF d[1] \in overdue /\ row[d] = "queued" THEN "expired" ELSE row[d]]
    /\ phase' = "claim"
    /\ UNCHANGED <<submitted, order, attempts, lease, backoff, overdue,
                   lock, call, batch, current, answer, strays, history, faults>>

(* Wrong variant: a job of its own expires rows, whatever the loop does. *)
ExpireAnytime ==
    /\ StoreFree
    /\ \E d \in Deliveries : d[1] \in overdue /\ row[d] \in Pending
    /\ row' = [d \in Deliveries |->
                 IF d[1] \in overdue /\ row[d] \in Pending THEN "expired" ELSE row[d]]
    /\ phase' = IF phase = "expire" THEN "claim" ELSE phase
    /\ UNCHANGED <<submitted, order, attempts, lease, backoff, overdue,
                   lock, call, batch, current, answer, strays, history, faults>>

(* expire_due, the first thing a tick does to deliveries. *)
ExpireDue ==
    /\ phase = "expire" /\ StoreFree
    /\ row' = [d \in Deliveries |->
                 IF d[1] \in overdue /\ row[d] \in {"queued", "claimed", "delivered"}
                    /\ transition_allowed(row[d], "expired")
                 THEN "expired" ELSE row[d]]
    /\ phase' = "claim"
    /\ UNCHANGED <<submitted, order, attempts, lease, backoff, overdue,
                   lock, call, batch, current, answer, strays, history, faults>>

Lapsed(d) == row[d] = "claimed" /\ lease[d] = "lapsed"
Due(d) == (row[d] = "queued" \/ Lapsed(d)) /\ d \notin backoff

(* ORDER BY rowid. *)
Before(d, e) == \E i, j \in DOMAIN order : i < j /\ order[i] = d /\ order[j] = e

(* After the last delivery of the batch the tick is over. *)
Then(rest) == batch' = rest /\ phase' = IF rest = {} THEN "expire" ELSE "batch"

(* claim_due: lapsed claims go back to queued, then the due rows are       *)
(* claimed in rowid order.                                                 *)
ClaimDue ==
    /\ phase = "claim" /\ StoreFree
    /\ LET due == {d \in Deliveries : Due(d)} IN
       \E mine \in SUBSET due :
         /\ Cardinality(mine) = Limit(ClaimMax, due)
         /\ \A d \in mine, e \in due \ mine : Before(d, e)
         /\ Then(mine)
         /\ row' = [d \in Deliveries |-> IF d \in mine THEN "claimed"
                                         ELSE IF Lapsed(d) THEN "queued" ELSE row[d]]
         /\ lease' = [d \in Deliveries |-> IF d \in mine THEN "held"
                                           ELSE IF Lapsed(d) THEN "null" ELSE lease[d]]
    /\ UNCHANGED <<submitted, order, attempts, backoff, overdue, lock, call,
                   current, answer, strays, history, faults>>

(* The next delivery of the batch: without an adapter it is NotReady and   *)
(* stays claimed, waiting for a pull; otherwise the adapter is called      *)
(* without the mutex.                                                      *)
Push(d) ==
    /\ phase = "batch" /\ d \in batch
    /\ \A e \in batch \ {d} : Before(d, e)
    /\ IF d[2] \in Pushed
         THEN phase' = "push" /\ current' = d /\ batch' = batch \ {d}
         ELSE Then(batch \ {d}) /\ UNCHANGED current
    /\ UNCHANGED <<table, lock, call, answer, strays, history, faults>>

Takes(o) == o \in {"delivered", "acked"}

(* The adapter answers in time. *)
AdapterAnswers(o) ==
    /\ phase = "push" /\ o \in Outcomes
    /\ answer' = o
    /\ phase' = "apply"
    /\ received' = IF Takes(o) THEN received \cup {current} ELSE received
    /\ failures' = IF o = "transient" THEN [failures EXCEPT ![current] = @ + 1]
                   ELSE failures
    /\ UNCHANGED <<table, lock, call, batch, current, strays, responses, lost,
                   forged, faults>>

(* Wrong variant: a call that has not failed yet counts as delivered. *)
TimeoutIsDelivery ==
    /\ phase = "push" /\ Disturb("slow")
    /\ answer' = "delivered"
    /\ phase' = "apply"
    /\ strays' = [strays EXCEPT ![current] = @ + 1]
    /\ UNCHANGED <<table, lock, call, batch, current, history>>

(* After 250 ms the loop goes on with NotReady; spawn_blocking cannot be   *)
(* stopped, so the adapter may still hand the message over.                *)
AdapterTimeout ==
    /\ phase = "push" /\ Disturb("slow")
    /\ answer' = "notready"
    /\ phase' = "apply"
    /\ strays' = [strays EXCEPT ![current] = @ + 1]
    /\ UNCHANGED <<table, lock, call, batch, current, history>>

(* A late answer goes nowhere. *)
StrayEnds(d, o) ==
    /\ strays[d] > 0 /\ o \in Outcomes
    /\ strays' = [strays EXCEPT ![d] = @ - 1]
    /\ received' = IF Takes(o) THEN received \cup {d} ELSE received
    /\ UNCHANGED <<table, lock, call, phase, batch, current, answer, responses,
                   lost, failures, forged, faults>>

(* The rest of the loop variables once current is settled. *)
Settle ==
    /\ phase = "apply" /\ StoreFree
    /\ Then(batch)
    /\ current' = Nobody /\ answer' = "notready"
    /\ UNCHANGED <<submitted, order, overdue, lock, call, strays, history,
                   faults>>

outcome_to_state(o) == CASE o = "delivered" -> "delivered"
                         [] o = "acked" -> "acked"
                         [] o = "permanent" -> "failed"
                         [] OTHER -> "queued"

(* Delivered, Acked and PermanentFailure go through transition(): if the   *)
(* recipient pulled the row meanwhile, or the edge does not exist, nothing *)
(* changes.                                                                *)
ApplyGuarded ==
    /\ Settle /\ answer \in {"delivered", "acked", "permanent"}
    /\ LET d == current IN
         row' = IF transition_allowed(row[d], outcome_to_state(answer))
                THEN [row EXCEPT ![d] = outcome_to_state(answer)] ELSE row
    /\ UNCHANGED <<attempts, lease, backoff>>

(* Wrong variant: one attempt too many. *)
RetryOnceMore ==
    /\ Settle /\ answer = "transient"
    /\ LET d == current IN
         /\ attempts' = [attempts EXCEPT ![d] = @ + 1]
         /\ IF attempts[d] + 1 > MaxAttempts
              THEN row' = [row EXCEPT ![d] = "failed"] /\ UNCHANGED <<lease, backoff>>
              ELSE /\ row' = [row EXCEPT ![d] = "queued"]
                   /\ lease' = [lease EXCEPT ![d] = "null"]
                   /\ backoff' = backoff \cup {d}

(* record_attempt_failure asks for no state: the row goes to queued, or to *)
(* failed once the attempts are used up, also when it was pulled since.    *)
ApplyTransient ==
    /\ Settle /\ answer = "transient"
    /\ LET d == current IN
         /\ attempts' = [attempts EXCEPT ![d] = @ + 1]
         /\ IF attempts[d] + 1 >= MaxAttempts
              THEN row' = [row EXCEPT ![d] = "failed"] /\ UNCHANGED <<lease, backoff>>
              ELSE /\ row' = [row EXCEPT ![d] = "queued"]
                   /\ lease' = [lease EXCEPT ![d] = "null"]
                   /\ backoff' = backoff \cup {d}

(* NotReady leaves the row claimed until its lease lapses. *)
ApplyNotReady ==
    /\ Settle /\ answer = "notready"
    /\ UNCHANGED <<row, attempts, lease, backoff>>

Apply == ApplyGuarded \/ ApplyTransient \/ ApplyNotReady

-----------------------------------------------------------------------------
(***************************************************************************)
(* Time and crashes.                                                       *)
(***************************************************************************)

(* Time passes where somebody can notice: an instant that falls in another *)
(* state is noticed, at the earliest, in the next of these.                *)
LeaseLapses(d) ==
    /\ row[d] = "claimed" /\ lease[d] = "held"
    /\ lease' = [lease EXCEPT ![d] = "lapsed"]
    /\ UNCHANGED <<submitted, order, row, attempts, backoff, overdue, lock,
                   call, loop, history, faults>>

BackoffEnds(d) ==
    /\ d \in backoff /\ row[d] = "queued"
    /\ backoff' = backoff \ {d}
    /\ UNCHANGED <<submitted, order, row, attempts, lease, overdue, lock,
                   call, loop, history, faults>>

TtlElapses(k) ==
    /\ k \notin overdue /\ \E d \in Deliveries : d[1] = k /\ row[d] \in Pending
    /\ overdue' = overdue \cup {k}
    /\ UNCHANGED <<submitted, rows, lock, call, loop, history, faults>>

Ended == {"new", "sent", "replayed", "dup", "refused", "failed", "crashed"}

(* The process dies between two statements and is started again; what a    *)
(* pull committed and did not get out is lost.                             *)
Crash ==
    /\ Disturb("crash")
    /\ lock' = Nobody
    /\ call' = [k \in Calls |-> IF call[k] \in Ended THEN call[k] ELSE "crashed"]
    /\ phase' = "expire" /\ batch' = {} /\ current' = Nobody /\ answer' = "notready"
    /\ strays' = [d \in Deliveries |-> 0]
    /\ responses' = {} /\ lost' = lost \cup UNION responses
    /\ UNCHANGED <<table, received, failures, forged>>

Tick == ExpireDue \/ ClaimDue \/ (\E d \in Deliveries : Push(d)) \/ Apply

Next ==
    \/ \E k \in Calls : Admit(k) \/ Replay(k) \/ Store(k) \/ Audit(k) \/ Bind(k) \/ TtlElapses(k)
    \/ \E r \in Cells : Inbox(r)
    \/ \E S \in responses : Respond(S) \/ RespondFails(S)
    \/ \E d \in Deliveries : InsertDelivery(d) \/ Report(d) \/ LeaseLapses(d) \/ BackoffEnds(d)
    \/ Tick
    \/ \E o \in Outcomes : AdapterAnswers(o) \/ \E d \in Deliveries : StrayEnds(d, o)
    \/ AdapterTimeout
    \/ Crash

Spec == Init /\ [][Next]_vars

(* The loop ticks for ever, a handler that holds the mutex goes on, an     *)
(* adapter answers or is timed out, and every TTL elapses.  No recipient   *)
(* is assumed to pull, no adapter to accept, no lease to lapse in time.    *)
Fairness ==
    /\ WF_vars(Tick)
    /\ WF_vars(\E o \in Outcomes : AdapterAnswers(o))
    /\ WF_vars(\E k \in Calls : Audit(k) \/ Bind(k) \/ \E d \in Deliveries : InsertDelivery(d))
    /\ \A k \in Calls : WF_vars(TtlElapses(k))

FairSpec == Spec /\ Fairness

-----------------------------------------------------------------------------
(***************************************************************************)
(* Properties.                                                             *)
(***************************************************************************)

TypeOK ==
    /\ envelopes \subseteq Calls /\ seq \in [Calls -> Nat]
    /\ counter \in [Cells \X Cells -> Nat \ {0}]
    /\ order \in Seq(Deliveries)
    /\ row \in [Deliveries -> DeliveryState \cup {NoRow}]
    /\ attempts \in [Deliveries -> Nat]
    /\ lease \in [Deliveries -> {"null", "held", "lapsed"}]
    /\ backoff \subseteq Deliveries /\ overdue \subseteq Calls /\ bound \subseteq Calls
    /\ audited \subseteq Calls
    /\ lock \in Calls \cup {Nobody}
    /\ call \in [Calls -> CallState]
    /\ phase \in {"expire", "claim", "batch", "push", "apply"}
    /\ batch \subseteq Deliveries /\ current \in Deliveries \cup {Nobody}
    /\ answer \in Outcome
    /\ strays \in [Deliveries -> Nat]
    /\ responses \subseteq SUBSET Deliveries
    /\ received \subseteq Deliveries /\ lost \subseteq Deliveries
    /\ failures \in [Deliveries -> Nat] /\ forged \in BOOLEAN
    /\ faults \in [left : Nat, seen : [Disturbances -> Nat]]

(* Fail-closed submission: a message can be pulled or pushed only if its   *)
(* enqueued or fanned-out event is durable, whatever statement a crash or  *)
(* a failed write stopped its call at.                                     *)
EnqueuedAudited == \A d \in Deliveries : row[d] # NoRow => d[1] \in audited

(* A retry collapses: of two calls with one key, one at most is answered   *)
(* with a message of its own, and only a crash leaves rows of the other.   *)
OneMessagePerKey ==
    \A k, l \in Calls : SameKey(k, l) /\ k # l
        /\ (\E d \in Deliveries : d[1] = k /\ row[d] # NoRow)
        /\ (\E d \in Deliveries : d[1] = l /\ row[d] # NoRow)
        => call[k] = "crashed" \/ call[l] = "crashed"

(* A row is delivered only because a pull put it into a response or an     *)
(* adapter said in time that it took the message: a time-out or a late     *)
(* answer delivers nothing.  acked is the adapter's word alone, so the     *)
(* message did arrive; a response is lost only by a crash or with its      *)
(* connection; and a causal record is never about a message that was       *)
(* handed to nobody.                                                       *)
DeliveredWasHandedOver ==
    /\ \A d \in Deliveries : row[d] = "delivered" => d \in HandedOver
    /\ \A d \in Deliveries : row[d] = "acked" => d \in received
    /\ Times("crash") = 0 /\ Times("disconnect") = 0 => lost = {}
    /\ ~forged

(* The budget: an adapter is heard to fail MaxAttempts times, and once     *)
(* more for every restart that came between its answer and the count, and  *)
(* whatever may be claimed again has an attempt left, a row that was       *)
(* pulled in between included.  (Attempts that end in NotReady, in a       *)
(* lapsed lease or after their time-out are not counted by the code: they  *)
(* are bounded by the TTL alone.)                                          *)
AttemptBudget ==
    \A d \in Deliveries : /\ failures[d] <= MaxAttempts + Times("crash")
                          /\ row[d] \in Pending => attempts[d] < MaxAttempts

(* acked, failed and expired are final, although record_attempt_failure    *)
(* and inbox write the state without looking at it.                        *)
TerminalIsFinal ==
    [][\A d \in Deliveries : row[d] \in Over => row'[d] = row[d]]_vars

(* Every delivery is settled: pulled, taken, failed or expired, although   *)
(* an adapter may never be ready and a crash may drop a claim.             *)
MailSettles ==
    \A d \in Deliveries : row[d] = "queued" ~> row[d] \in Over \cup {"delivered"}

(* At-least-once: what is marked delivered or acked has reached its        *)
(* recipient or still will.                                                *)
AtLeastOnce ==
    \A d \in Deliveries :
        row[d] \in {"delivered", "acked"} => d \in received \cup UNION responses

(* A lapsed lease is a retryable failure: taking the claim back uses up an *)
(* attempt.                                                                *)
LapseCounts ==
    [][\A d \in Deliveries :
         Lapsed(d) /\ row'[d] \in Pending /\ lease'[d] # "lapsed"
         => attempts'[d] > attempts[d]]_vars

(* A pull is the terminal delivery: a delivered row is not offered again.  *)
PullIsTerminal ==
    [][\A d \in Deliveries : row[d] = "delivered" => row'[d] \in {"delivered", "acked"}]_vars
=============================================================================
