----------------------------- MODULE MailProofs -----------------------------
(***************************************************************************)
(* Proofs about Mail, for any cells, calls, keys, adapters and limits, and *)
(* any number of disturbances.                                             *)
(***************************************************************************)
EXTENDS Mail, TLAPS

-----------------------------------------------------------------------------
(***************************************************************************)
(* The inductive invariant.                                                *)
(***************************************************************************)

Section == {"stored", "audited", "delivering"}
Live == Section \cup {"sent"}

(* A call between its statements holds the store. *)
LockInv == \A k \in Calls : call[k] \in Section => lock = k

(* Calls past their audit event, and their rows. *)
AuditInv ==
    /\ \A k \in Calls : call[k] \in {"audited", "delivering"} => k \in audited
    /\ EnqueuedAudited

(* A call that ended with a message has bound its key, a row belongs to a  *)
(* call that went that far or was cut off, and no other call with the same *)
(* key is on its way.                                                      *)
KeyInv ==
    /\ \A k \in Calls : call[k] = "sent" => k \in bound
    /\ \A d \in Deliveries : row[d] # NoRow => call[d[1]] \in {"delivering", "sent", "crashed"}
    /\ \A k, l \in Calls :
          SameKey(k, l) /\ k # l /\ call[k] \in Live => call[l] \notin Live

(* What the loop has in hand: claimed and not settled yet. *)
InHand == batch \cup (IF phase \in {"push", "apply"} THEN {current} ELSE {})

(* What the loop has in hand is still claimed, or was pulled meanwhile,    *)
(* and is visited once.                                                    *)
BatchInv ==
    /\ InHand \subseteq Deliveries
    /\ phase \in {"expire", "claim"} => batch = {}
    /\ phase \in {"push", "apply"} => current \notin batch
    /\ \A d \in InHand : row[d] \in {"claimed", "delivered"}

(* Whoever may be pushed, now or later, has an attempt left. *)
BudgetInv ==
    \A d \in Deliveries :
        /\ attempts[d] <= MaxAttempts
        /\ row[d] \in Pending \cup {NoRow} \/ d \in InHand => attempts[d] < MaxAttempts

(* What the loop heard and has not counted yet. *)
Uncounted(d) == IF phase = "apply" /\ current = d /\ answer = "transient" THEN 1 ELSE 0

(* A failure that was heard is counted, is about to be, or was forgotten   *)
(* in a restart.                                                           *)
HeardInv ==
    \A d \in Deliveries : failures[d] <= attempts[d] + Times("crash") + Uncounted(d)

(* An answer that will mark the row delivered or acked was a hand-over. *)
AnswerInv ==
    /\ phase = "apply" /\ Takes(answer) => current \in received
    /\ DeliveredWasHandedOver

IInv == TypeOK /\ LockInv /\ AuditInv /\ KeyInv /\ BatchInv /\ BudgetInv /\ HeardInv /\ AnswerInv

-----------------------------------------------------------------------------
(***************************************************************************)
(* Submission.                                                             *)
(***************************************************************************)

LEMMA Ends == \A d \in Deliveries : d[1] \in Calls /\ d[2] \in Cells
  BY DEF Deliveries

FaultsRecord == [left : Nat, seen : [Disturbances -> Nat]]

(* What happened is never forgotten. *)
FaultsGrow ==
    /\ faults' \in FaultsRecord
    /\ \A kind \in Disturbances : Times(kind) <= faults'.seen[kind]

LEMMA Counted ==
  ASSUME TypeOK, NEW kind, Disturb(kind)
  PROVE  /\ kind \in Disturbances /\ FaultsGrow
         /\ faults'.seen[kind] = Times(kind) + 1
<1>1. /\ kind \in Disturbances /\ faults.left \in Nat /\ faults.left > 0
      /\ faults.seen \in [Disturbances -> Nat]
  BY MailAssumption DEF TypeOK, Disturb
<1>2. faults' = [left |-> faults.left - 1, seen |-> [faults.seen EXCEPT ![kind] = @ + 1]]
  BY DEF Disturb
<1>3. faults.left - 1 \in Nat BY <1>1
<1> QED BY <1>1, <1>2, <1>3 DEF FaultsRecord, FaultsGrow, Times

LEMMA Uncounting ==
  ASSUME TypeOK, \/ UNCHANGED faults
                 \/ \E kind \in Disturbances : Disturb(kind)
  PROVE  FaultsGrow
<1>1. CASE UNCHANGED faults BY <1>1 DEF TypeOK, FaultsRecord, FaultsGrow, Times
<1>2. CASE \E kind \in Disturbances : Disturb(kind) BY <1>2, Counted
<1> QED BY <1>1, <1>2

(* A step that leaves hand-overs, attempts and answers alone, and marks    *)
(* nothing delivered.                                                      *)
LEMMA HandKept ==
  ASSUME IInv, FaultsGrow, UNCHANGED <<history, attempts>>,
         \/ UNCHANGED <<phase, current, answer>>
         \/ phase # "apply" /\ phase' # "apply",
         \A d \in Deliveries : row'[d] \in {"delivered", "acked"} => row'[d] = row[d]
  PROVE  HeardInv' /\ AnswerInv'
<1>1. UNCHANGED <<received, lost, responses, failures, forged>> BY DEF history, handover
<1>2. \A kind \in Disturbances :
        Times(kind) \in Nat /\ Times(kind)' \in Nat /\ Times(kind) <= Times(kind)'
  BY DEF IInv, TypeOK, FaultsGrow, FaultsRecord, Times
<1>3. HeardInv'
  <2>1. \A d \in Deliveries : Uncounted(d)' = Uncounted(d) /\ Uncounted(d) \in Nat
    BY DEF Uncounted
  <2>2. \A d \in Deliveries : failures[d] \in Nat /\ attempts[d] \in Nat
    BY DEF IInv, TypeOK
  <2> QED BY <1>1, <1>2, <2>1, <2>2 DEF IInv, HeardInv, Disturbances
<1>4. AnswerInv'
  <2>1. Times("crash")' = 0 /\ Times("disconnect")' = 0 => lost' = {}
    BY <1>1, <1>2 DEF IInv, AnswerInv, DeliveredWasHandedOver, Disturbances
  <2> QED BY <1>1, <2>1 DEF IInv, AnswerInv, DeliveredWasHandedOver, HandedOver
<1> QED BY <1>3, <1>4

LEMMA InitIInv == ASSUME Init PROVE IInv
<1> USE Ends, MailAssumption DEF Init
<1>1. TypeOK
  <2>1. row \in [Deliveries -> DeliveryState \cup {NoRow}] OBVIOUS
  <2>2. call \in [Calls -> CallState] BY DEF CallState
  <2>3. order \in Seq(Deliveries) OBVIOUS
  <2>4. answer \in Outcome BY DEF Outcome
  <2>5. /\ attempts \in [Deliveries -> Nat] /\ strays \in [Deliveries -> Nat]
        /\ failures \in [Deliveries -> Nat]
    OBVIOUS
  <2>6. lease \in [Deliveries -> {"null", "held", "lapsed"}] OBVIOUS
  <2>7. seq \in [Calls -> Nat] /\ counter \in [Cells \X Cells -> Nat \ {0}] OBVIOUS
  <2>8. faults \in [left : Nat, seen : [Disturbances -> Nat]] OBVIOUS
  <2> QED BY <2>1, <2>2, <2>3, <2>4, <2>5, <2>6, <2>7, <2>8 DEF TypeOK
<1>2. LockInv BY DEF LockInv, Section
<1>3. AuditInv BY DEF AuditInv, EnqueuedAudited
<1>4. KeyInv BY DEF KeyInv, Live, Section
<1>5. BatchInv BY DEF BatchInv, InHand
<1>6. BudgetInv BY DEF BudgetInv, InHand
<1>7. HeardInv
  <2>1. Times("crash") = 0 BY DEF Times, Disturbances
  <2> QED BY <2>1 DEF HeardInv, Uncounted
<1>8. AnswerInv BY DEF AnswerInv, DeliveredWasHandedOver, NoRow
<1> QED BY <1>1, <1>2, <1>3, <1>4, <1>5, <1>6, <1>7, <1>8 DEF IInv

Submit(k) == Admit(k) \/ Replay(k) \/ Store(k) \/ Audit(k) \/ Bind(k)

(* What a step of a submission may do to the rest: nothing. *)
LEMMA SubmitRest ==
  ASSUME IInv, NEW k \in Calls, Submit(k)
  PROVE  /\ UNCHANGED <<overdue, rows, loop, history>> /\ FaultsGrow
         /\ BatchInv' /\ BudgetInv' /\ HeardInv' /\ AnswerInv'
<1>1. UNCHANGED <<overdue, rows, loop, history>>
  BY DEF Submit, Admit, Replay, Store, Audit, Bind, table
<1>2. FaultsGrow
  <2>1. UNCHANGED faults \/ Disturb("auditfail")
    BY DEF Submit, Admit, Replay, Store, Audit, Bind
  <2>2. Disturb("auditfail") => \E kind \in Disturbances : Disturb(kind) BY DEF Disturbances
  <2> QED BY <2>1, <2>2, Uncounting DEF IInv
<1>3. HeardInv' /\ AnswerInv' BY <1>1, <1>2, HandKept DEF rows, loop
<1> QED BY <1>1, <1>2, <1>3 DEF IInv, rows, loop, BatchInv, BudgetInv, InHand

LEMMA SubmitType == ASSUME TypeOK, NEW k \in Calls, Submit(k),
                           UNCHANGED <<overdue, rows, loop, history>>, FaultsGrow
                    PROVE  TypeOK'
<1>1. /\ envelopes' \subseteq Calls /\ bound' \subseteq Calls /\ audited' \subseteq Calls
      /\ lock' \in Calls \cup {Nobody}
  BY DEF TypeOK, Submit, Admit, Replay, Store, Audit, Bind, table, submitted
<1>2. call' \in [Calls -> CallState]
  BY DEF TypeOK, CallState, Submit, Admit, Replay, Store, Audit, Bind, Go
<1>3. seq' \in [Calls -> Nat] /\ counter' \in [Cells \X Cells -> Nat \ {0}]
  <2>1. CASE Store(k) /\ k \notin Broadcasts
    <3>1. PICK r \in To[k] : LET p == <<From[k], r>> IN
            /\ seq' = [seq EXCEPT ![k] = counter[p]]
            /\ counter' = [counter EXCEPT ![p] = @ + 1]
      BY <2>1 DEF Store
    <3>2. <<From[k], r>> \in Cells \X Cells BY MailAssumption
    <3>3. counter[<<From[k], r>>] \in Nat BY <3>2 DEF TypeOK
    <3> QED BY <3>1, <3>2, <3>3 DEF TypeOK
  <2>2. CASE UNCHANGED <<seq, counter>> BY <2>2 DEF TypeOK
  <2> QED BY <2>1, <2>2 DEF Submit, Admit, Replay, Store, Audit, Bind, table, submitted
<1> QED BY <1>1, <1>2, <1>3 DEF TypeOK, rows, loop, history, handover, FaultsGrow, FaultsRecord

(* What it does to its call, from where, and to what goes with it. *)
Moved(k, pc) ==
    \/ /\ call[k] \in {"new", "admitted"} /\ pc \in {"refused", "admitted", "replayed", "dup"}
       /\ bound' = bound /\ audited' = audited /\ lock' = lock
    \/ /\ call[k] = "admitted" /\ pc = "stored" /\ lock = Nobody /\ lock' = k
       /\ ~\E l \in bound : SameKey(k, l)
       /\ bound' = bound /\ audited' = audited
    \/ /\ call[k] = "stored" /\ pc = "audited" /\ audited' = audited \cup {k}
       /\ bound' = bound /\ lock' = lock
    \/ /\ call[k] = "stored" /\ pc = "failed" /\ lock' = Nobody
       /\ bound' = bound /\ audited' = audited
    \/ /\ call[k] \in {"audited", "delivering"} /\ pc = "sent" /\ lock' = Nobody
       /\ bound' = bound \cup {k} /\ audited' = audited

LEMMA SubmitMoves ==
  ASSUME NEW k \in Calls, Submit(k)
  PROVE  \E pc : call' = [call EXCEPT ![k] = pc] /\ Moved(k, pc)
<1> USE DEF Moved, Go, table, submitted, StoreFree
<1>1. CASE Admit(k) BY <1>1 DEF Admit
<1>2. CASE Replay(k) BY <1>2 DEF Replay
<1>3. CASE Store(k) BY <1>3 DEF Store
<1>4. CASE Audit(k) BY <1>4 DEF Audit
<1>5. CASE Bind(k) BY <1>5 DEF Bind
<1> QED BY <1>1, <1>2, <1>3, <1>4, <1>5 DEF Submit

LEMMA SubmitIInv == ASSUME IInv, NEW k \in Calls, Submit(k) PROVE IInv'
<1>1. /\ UNCHANGED <<overdue, rows, loop, history>> /\ FaultsGrow
      /\ BatchInv' /\ BudgetInv' /\ HeardInv' /\ AnswerInv'
  BY SubmitRest
<1>2. TypeOK' BY <1>1, SubmitType DEF IInv
<1>3. PICK pc : call' = [call EXCEPT ![k] = pc] /\ Moved(k, pc) BY SubmitMoves
<1>4. row' = row /\ Nobody \notin Calls /\ call \in [Calls -> CallState]
  BY <1>1, MailAssumption DEF IInv, TypeOK, rows
<1>5. LockInv' BY <1>3, <1>4 DEF IInv, LockInv, Section, Moved
<1>6. AuditInv'
  <2>1. audited \subseteq audited' BY <1>3 DEF Moved
  <2>2. \A l \in Calls : call'[l] \in {"audited", "delivering"} => l \in audited'
    BY <1>3, <1>4, <2>1 DEF IInv, AuditInv, Moved
  <2> QED BY <1>4, <2>1, <2>2 DEF IInv, AuditInv, EnqueuedAudited
<1>7. KeyInv'
  <2>1. \A l \in Calls : call'[l] = "sent" => l \in bound'
    BY <1>3, <1>4 DEF IInv, KeyInv, Moved
  <2>2. \A d \in Deliveries :
          row'[d] # NoRow => call'[d[1]] \in {"delivering", "sent", "crashed"}
    BY <1>3, <1>4, Ends DEF IInv, KeyInv, Moved
  <2>3. CASE pc = "stored"
    <3>1. \A l \in Calls : call[l] \in Live => ~SameKey(k, l)
      BY <1>3, <1>4, <2>3 DEF IInv, KeyInv, LockInv, Live, Section, Moved
    <3>2. \A l \in Calls : call[l] \in Live => ~SameKey(l, k) BY <3>1 DEF SameKey
    <3> QED BY <1>3, <1>4, <2>1, <2>2, <2>3, <3>1, <3>2 DEF IInv, KeyInv
  <2>4. CASE pc # "stored"
    <3>1. \A l \in Calls : call'[l] \in Live => call[l] \in Live
      BY <1>3, <1>4, <2>4 DEF Live, Section, Moved
    <3> QED BY <2>1, <2>2, <3>1 DEF IInv, KeyInv
  <2> QED BY <2>3, <2>4
<1> QED BY <1>1, <1>2, <1>5, <1>6, <1>7 DEF IInv

LEMMA InsertIInv == ASSUME IInv, NEW d \in Deliveries, InsertDelivery(d) PROVE IInv'
<1>0. HeardInv' /\ AnswerInv'
  <2>1. FaultsGrow BY Uncounting DEF IInv, InsertDelivery
  <2>2. UNCHANGED <<history, attempts, phase, current, answer>> BY DEF InsertDelivery, loop
  <2>3. \A e \in Deliveries : row'[e] \in {"delivered", "acked"} => row'[e] = row[e]
    BY DEF InsertDelivery, IInv, TypeOK
  <2> QED BY <2>1, <2>2, <2>3, HandKept
<1> USE Ends, MailAssumption
    DEF IInv, InsertDelivery, Go, submitted, loop, history, handover
<1>1. TypeOK'
  <2>1. row' \in [Deliveries -> DeliveryState \cup {NoRow}] BY DEF TypeOK, DeliveryState
  <2>2. call' \in [Calls -> CallState] BY DEF TypeOK, CallState
  <2>3. order' \in Seq(Deliveries) BY DEF TypeOK
  <2> QED BY <2>1, <2>2, <2>3 DEF TypeOK
<1>2. LockInv' BY DEF LockInv, Section, TypeOK
<1>3. AuditInv' BY DEF AuditInv, EnqueuedAudited, TypeOK
<1>4. KeyInv' BY DEF KeyInv, Live, Section, TypeOK
<1>5. BatchInv' BY DEF BatchInv, InHand, TypeOK, NoRow
<1>6. BudgetInv' BY DEF BudgetInv, InHand, TypeOK, Pending
<1> QED BY <1>0, <1>1, <1>2, <1>3, <1>4, <1>5, <1>6

-----------------------------------------------------------------------------
(***************************************************************************)
(* The recipient, and time.                                                *)
(***************************************************************************)

LEMMA InboxIInv == ASSUME IInv, NEW r \in Cells, Inbox(r) PROVE IInv'
<1>1. PICK S \in SUBSET PendingOf(r) :
        /\ row' = [d \in Deliveries |-> IF d \in S THEN "delivered" ELSE row[d]]
        /\ lease' = [d \in Deliveries |-> IF d \in S THEN "null" ELSE lease[d]]
        /\ responses' = responses \cup {S}
  BY DEF Inbox
<1>2. S \subseteq Deliveries /\ \A d \in S : row[d] \in Pending BY DEF PendingOf
<1>0. HeardInv' /\ AnswerInv'
  <2>1. /\ UNCHANGED <<attempts, phase, current, answer, received, lost, failures, forged, faults>>
        /\ HandedOver' = HandedOver \cup S
    BY <1>1 DEF Inbox, loop, HandedOver
  <2>2. HeardInv' BY <2>1 DEF IInv, HeardInv, Uncounted, Times
  <2>3. \A d \in Deliveries : row'[d] = "delivered" => row[d] = "delivered" \/ d \in S
    BY <1>1
  <2>4. \A d \in Deliveries : row'[d] = "acked" => row[d] = "acked" BY <1>1
  <2> QED BY <2>1, <2>2, <2>3, <2>4 DEF IInv, AnswerInv, DeliveredWasHandedOver, Times
<1>9. responses' \subseteq SUBSET Deliveries
  <2>1. responses \subseteq SUBSET Deliveries BY DEF IInv, TypeOK
  <2> QED BY <1>1, <1>2, <2>1
<1> USE Ends, MailAssumption, <1>1, <1>2 DEF IInv, Inbox, submitted, loop
<1>3. TypeOK'
  <2>1. row' \in [Deliveries -> DeliveryState \cup {NoRow}] BY DEF TypeOK, DeliveryState
  <2>2. lease' \in [Deliveries -> {"null", "held", "lapsed"}] BY DEF TypeOK
  <2> QED BY <1>9, <2>1, <2>2 DEF TypeOK
<1>4. LockInv' BY DEF LockInv, TypeOK
<1>5. AuditInv' BY DEF AuditInv, EnqueuedAudited, TypeOK, Pending, NoRow
<1>6. KeyInv' BY DEF KeyInv, TypeOK, Pending, NoRow
<1>7. BatchInv' BY DEF BatchInv, InHand, TypeOK
<1>8. BudgetInv' BY DEF BudgetInv, InHand, TypeOK, Pending
<1> QED BY <1>0, <1>3, <1>4, <1>5, <1>6, <1>7, <1>8

(* A response arrives, or is lost with its connection. *)
LEMMA RespondIInv ==
  ASSUME IInv, NEW S \in responses, Respond(S) \/ RespondFails(S)
  PROVE  IInv'
<1>1. /\ UNCHANGED <<table, lock, call, loop, failures, forged>>
      /\ responses' = responses \ {S} /\ S \subseteq Deliveries
  BY DEF Respond, RespondFails, IInv, TypeOK
<1>2. /\ received \subseteq received' /\ received' \subseteq Deliveries
      /\ lost' \subseteq Deliveries /\ HandedOver \subseteq HandedOver'
  BY <1>1 DEF Respond, RespondFails, IInv, TypeOK, HandedOver
<1>3. Disturb("disconnect") => \E kind \in Disturbances : Disturb(kind) BY DEF Disturbances
<1>4. FaultsGrow BY <1>3, Uncounting DEF IInv, Respond, RespondFails
<1>5. TypeOK'
  BY <1>1, <1>2, <1>4 DEF IInv, TypeOK, table, submitted, rows, loop, FaultsGrow, FaultsRecord
<1>6. LockInv' /\ AuditInv' /\ KeyInv' /\ BatchInv' /\ BudgetInv'
  BY <1>1 DEF IInv, LockInv, AuditInv, KeyInv, BatchInv, BudgetInv, InHand, EnqueuedAudited,
              table, submitted, rows, loop
<1>7. \A kind \in Disturbances :
        Times(kind) \in Nat /\ Times(kind)' \in Nat /\ Times(kind) <= Times(kind)'
  BY <1>4 DEF IInv, TypeOK, FaultsGrow, FaultsRecord, Times
<1>8. HeardInv'
  <2>1. \A d \in Deliveries : Uncounted(d)' = Uncounted(d) /\ Uncounted(d) \in Nat
    BY <1>1 DEF Uncounted, loop
  <2>2. \A d \in Deliveries : failures[d] \in Nat /\ attempts[d] \in Nat
    BY DEF IInv, TypeOK
  <2>3. attempts' = attempts BY <1>1 DEF table, rows
  <2>4. "crash" \in Disturbances BY DEF Disturbances
  <2> QED BY <1>1, <1>7, <2>1, <2>2, <2>3, <2>4 DEF IInv, HeardInv
<1>9. AnswerInv'
  <2>1. Times("crash")' = 0 /\ Times("disconnect")' = 0 => lost' = {}
    <3>1. CASE Respond(S)
      BY <1>7, <3>1 DEF Respond, Times, IInv, AnswerInv, DeliveredWasHandedOver
    <3>2. CASE RespondFails(S)
      <4>1. Times("disconnect")' = Times("disconnect") + 1
        BY <3>2, Counted DEF RespondFails, IInv, Times
      <4>2. Times("disconnect") \in Nat BY <1>7 DEF Disturbances
      <4> QED BY <4>1, <4>2
    <3> QED BY <3>1, <3>2
  <2>2. row' = row /\ phase' = phase /\ answer' = answer /\ current' = current
    BY <1>1 DEF table, rows, loop
  <2>3. forged' = forged BY <1>1
  <2> QED BY <1>2, <2>1, <2>2, <2>3 DEF IInv, AnswerInv, DeliveredWasHandedOver
<1> QED BY <1>5, <1>6, <1>8, <1>9 DEF IInv

LEMMA TimeIInv ==
  ASSUME IInv,
         \/ \E d \in Deliveries : Report(d) \/ LeaseLapses(d) \/ BackoffEnds(d)
         \/ \E k \in Calls : TtlElapses(k)
  PROVE  IInv'
<1> USE Ends, MailAssumption DEF table, rows, submitted, loop, history, handover
<1>1. CASE \E d \in Deliveries : Report(d)
  <2>1. UNCHANGED <<table, lock, call, loop, handover, failures, faults>> BY <1>1 DEF Report
  <2>2. forged' = FALSE
    <3>1. PICK d \in Deliveries : /\ row[d] \in {"delivered", "acked"}
                                  /\ forged' = (forged \/ d \notin HandedOver)
      BY <1>1 DEF Report
    <3>2. ~forged /\ d \in HandedOver
      BY <3>1 DEF IInv, AnswerInv, DeliveredWasHandedOver, HandedOver
    <3> QED BY <3>1, <3>2
  <2>3. TypeOK' BY <2>1, <2>2 DEF IInv, TypeOK
  <2>4. LockInv' /\ AuditInv' /\ KeyInv' /\ BatchInv' /\ BudgetInv'
    BY <2>1 DEF IInv, LockInv, AuditInv, KeyInv, BatchInv, BudgetInv, InHand, EnqueuedAudited
  <2>5. HeardInv' BY <2>1 DEF IInv, HeardInv, Uncounted, Times
  <2>6. AnswerInv'
    BY <2>1, <2>2 DEF IInv, AnswerInv, DeliveredWasHandedOver, HandedOver, Times
  <2> QED BY <2>3, <2>4, <2>5, <2>6 DEF IInv
<1>2. CASE \/ \E d \in Deliveries : LeaseLapses(d) \/ BackoffEnds(d)
           \/ \E k \in Calls : TtlElapses(k)
  <2>1. UNCHANGED <<submitted, order, row, attempts, lock, call, loop, history, faults>>
    BY <1>2 DEF LeaseLapses, BackoffEnds, TtlElapses
  <2>2. /\ lease' \in [Deliveries -> {"null", "held", "lapsed"}]
        /\ backoff' \subseteq Deliveries /\ overdue' \subseteq Calls
    BY <1>2 DEF LeaseLapses, BackoffEnds, TtlElapses, IInv, TypeOK
  <2>3. TypeOK' BY <2>1, <2>2 DEF IInv, TypeOK
  <2>4. LockInv' /\ AuditInv' /\ KeyInv' /\ BatchInv' /\ BudgetInv'
    BY <2>1 DEF IInv, LockInv, AuditInv, KeyInv, BatchInv, BudgetInv, InHand, EnqueuedAudited
  <2>5. FaultsGrow BY <2>1, Uncounting DEF IInv
  <2>6. HeardInv' /\ AnswerInv' BY <2>1, <2>5, HandKept
  <2> QED BY <2>3, <2>4, <2>6 DEF IInv
<1> QED BY <1>1, <1>2

-----------------------------------------------------------------------------
(***************************************************************************)
(* The delivery loop.                                                      *)
(***************************************************************************)

(* The parts of the invariant about calls look at row only to see whether  *)
(* there is one.                                                           *)
LEMMA CallsKept ==
  ASSUME IInv, UNCHANGED <<submitted, lock, call>>,
         \A d \in Deliveries : row'[d] # NoRow => row[d] # NoRow
  PROVE  LockInv' /\ AuditInv' /\ KeyInv'
  BY DEF IInv, LockInv, AuditInv, KeyInv, EnqueuedAudited, submitted

LEMMA ExpireIInv == ASSUME IInv, ExpireDue PROVE IInv'
<1> USE MailAssumption DEF IInv, ExpireDue
<1>1. \A d \in Deliveries : row'[d] # row[d] => row[d] \in Pending /\ row'[d] = "expired"
  BY DEF transition_allowed, Pending, TypeOK
<1>2. TypeOK'
  <2>1. row' \in [Deliveries -> DeliveryState \cup {NoRow}] BY DEF TypeOK, DeliveryState
  <2> QED BY <2>1 DEF TypeOK, submitted, history, handover
<1>3. LockInv' /\ AuditInv' /\ KeyInv'
  BY <1>1, CallsKept DEF Pending, NoRow
<1>4. BatchInv' BY DEF BatchInv, InHand
<1>5. BudgetInv' BY <1>1 DEF BudgetInv, InHand, TypeOK, Pending, NoRow
<1>6. HeardInv' /\ AnswerInv'
  <2>1. FaultsGrow BY Uncounting
  <2> QED BY <1>1, <2>1, HandKept
<1> QED BY <1>2, <1>3, <1>4, <1>5, <1>6

LEMMA ClaimIInv == ASSUME IInv, ClaimDue PROVE IInv'
<1>1. PICK mine \in SUBSET {d \in Deliveries : Due(d)} :
        /\ Then(mine)
        /\ row' = [d \in Deliveries |-> IF d \in mine THEN "claimed"
                                        ELSE IF Lapsed(d) THEN "queued" ELSE row[d]]
        /\ lease' = [d \in Deliveries |-> IF d \in mine THEN "held"
                                          ELSE IF Lapsed(d) THEN "null" ELSE lease[d]]
  BY DEF ClaimDue
<1>2. \A d \in Deliveries :
        \/ row'[d] = row[d] /\ d \notin mine
        \/ row[d] \in Pending /\ row'[d] \in Pending /\ (d \in mine => row'[d] = "claimed")
  BY <1>1 DEF Due, Lapsed, Pending
<1>3. batch' = mine /\ phase' \in {"expire", "batch"} /\ (phase' = "expire" => mine = {})
  BY <1>1 DEF Then
<1>4. mine \subseteq Deliveries /\ \A d \in mine : row[d] \in Pending
  BY <1>1 DEF Due, Lapsed, Pending
<1> USE MailAssumption DEF IInv, ClaimDue
<1>5. TypeOK'
  <2>1. row' \in [Deliveries -> DeliveryState \cup {NoRow}] BY <1>1 DEF TypeOK, DeliveryState
  <2>2. lease' \in [Deliveries -> {"null", "held", "lapsed"}] BY <1>1 DEF TypeOK
  <2> QED BY <1>3, <1>4, <2>1, <2>2 DEF TypeOK, submitted, history, handover
<1>6. LockInv' /\ AuditInv' /\ KeyInv' BY <1>2, CallsKept DEF Pending, NoRow
<1>7. BatchInv' BY <1>2, <1>3, <1>4 DEF BatchInv, InHand
<1>8. BudgetInv' BY <1>2, <1>3, <1>4 DEF BudgetInv, InHand, Pending
<1>9. HeardInv' /\ AnswerInv'
  <2>1. FaultsGrow BY Uncounting
  <2>2. \A d \in Deliveries : row'[d] \in {"delivered", "acked"} => row'[d] = row[d]
    BY <1>2 DEF Pending
  <2>3. phase # "apply" /\ phase' # "apply" BY <1>3
  <2> QED BY <2>1, <2>2, <2>3, HandKept
<1> QED BY <1>5, <1>6, <1>7, <1>8, <1>9

LEMMA PushIInv == ASSUME IInv, NEW d \in Deliveries, Push(d) PROVE IInv'
<1> USE MailAssumption DEF IInv, Push, Then, table, rows, submitted, history, handover
<1>1. TypeOK' BY DEF TypeOK
<1>2. LockInv' /\ AuditInv' /\ KeyInv' BY CallsKept
<1>3. BatchInv' BY DEF BatchInv, InHand
<1>4. InHand' \subseteq InHand BY DEF InHand
<1>5. BudgetInv' BY <1>4 DEF BudgetInv
<1>6. HeardInv' /\ AnswerInv'
  <2>1. FaultsGrow BY Uncounting
  <2> QED BY <2>1, HandKept
<1> QED BY <1>1, <1>2, <1>3, <1>5, <1>6

(* The adapter answers, is timed out, or ends after its time-out. *)
Adapter == \/ \E o \in Outcomes : AdapterAnswers(o) \/ \E d \in Deliveries : StrayEnds(d, o)
           \/ AdapterTimeout

LEMMA AdapterIInv == ASSUME IInv, Adapter PROVE IInv'
<1> USE MailAssumption
    DEF IInv, Adapter, AdapterAnswers, StrayEnds, AdapterTimeout, table, rows, submitted, history,
        handover
<1>0. FaultsGrow
  <2>1. UNCHANGED faults \/ Disturb("slow") OBVIOUS
  <2>2. Disturb("slow") => \E kind \in Disturbances : Disturb(kind) BY DEF Disturbances
  <2> QED BY <2>1, <2>2, Uncounting
<1>1. UNCHANGED <<table, lock, call, batch, current, lost, responses, forged>> OBVIOUS
<1>2. received \subseteq received' /\ received' \subseteq received \cup Deliveries
  BY DEF BatchInv, InHand
<1>3. TypeOK'
  <2>1. strays' \in [Deliveries -> Nat]
    <3>1. CASE UNCHANGED strays BY <3>1 DEF TypeOK
    <3>2. CASE AdapterTimeout
      <4>1. current \in Deliveries BY <3>2 DEF BatchInv, InHand
      <4>2. strays[current] \in Nat BY <4>1 DEF TypeOK
      <4>3. strays' = [strays EXCEPT ![current] = @ + 1] BY <3>2
      <4> QED BY <4>1, <4>2, <4>3 DEF TypeOK
    <3>3. CASE \E o \in Outcomes : \E d \in Deliveries : StrayEnds(d, o)
      <4>1. PICK d \in Deliveries : strays[d] > 0 /\ strays' = [strays EXCEPT ![d] = @ - 1]
        BY <3>3
      <4>2. strays[d] - 1 \in Nat BY <4>1 DEF TypeOK
      <4> QED BY <4>1, <4>2 DEF TypeOK
    <3> QED BY <3>1, <3>2, <3>3
  <2>2. answer' \in Outcome
    <3>1. answer \in Outcome BY DEF TypeOK
    <3>2. CASE AdapterTimeout
      <4>1. answer' = "notready" BY <3>2
      <4> QED BY <4>1 DEF Outcome
    <3>3. CASE \E o \in Outcomes : AdapterAnswers(o) \/ \E d \in Deliveries : StrayEnds(d, o)
      <4>1. answer' \in Outcomes \/ answer' = answer BY <3>3
      <4> QED BY <3>1, <4>1
    <3> QED BY <3>2, <3>3
  <2>3. phase' \in {"expire", "claim", "batch", "push", "apply"} BY DEF TypeOK
  <2>4. failures' \in [Deliveries -> Nat]
    <3>1. CASE UNCHANGED failures BY <3>1 DEF TypeOK
    <3>2. CASE phase = "push" /\ failures' = [failures EXCEPT ![current] = @ + 1]
      <4>1. current \in Deliveries BY <3>2 DEF BatchInv, InHand
      <4>2. failures[current] \in Nat BY <4>1 DEF TypeOK
      <4> QED BY <3>2, <4>1, <4>2 DEF TypeOK
    <3> QED BY <3>1, <3>2
  <2> QED BY <1>0, <1>1, <1>2, <2>1, <2>2, <2>3, <2>4 DEF TypeOK, FaultsGrow, FaultsRecord
<1>4. LockInv' /\ AuditInv' /\ KeyInv' BY <1>1, CallsKept
<1>5. InHand' = InHand BY <1>1 DEF InHand
<1>6. BatchInv' BY <1>1, <1>5 DEF BatchInv
<1>7. BudgetInv' BY <1>1, <1>5 DEF BudgetInv
<1>8. AnswerInv'
  <2>1. phase' = "apply" /\ Takes(answer') => current' \in received'
    BY <1>1, <1>2 DEF AnswerInv, Takes
  <2>2. HandedOver \subseteq HandedOver' BY <1>1, <1>2 DEF HandedOver
  <2>3. Times("crash")' = 0 /\ Times("disconnect")' = 0
          => Times("crash") = 0 /\ Times("disconnect") = 0
    BY <1>0 DEF FaultsGrow, FaultsRecord, Times, TypeOK, Disturbances
  <2> QED BY <1>1, <1>2, <2>1, <2>2, <2>3 DEF AnswerInv, DeliveredWasHandedOver
<1>9. HeardInv'
  <2>1. Times("crash") \in Nat /\ Times("crash")' \in Nat /\ Times("crash") <= Times("crash")'
    BY <1>0 DEF FaultsGrow, FaultsRecord, Times, TypeOK, Disturbances
  <2>2. \A d \in Deliveries : failures[d] \in Nat /\ attempts[d] \in Nat /\ attempts'[d] = attempts[d]
    BY <1>1 DEF TypeOK
  <2>3. \A d \in Deliveries : failures'[d] - failures[d] <= Uncounted(d)' - Uncounted(d)
    <3>1. CASE \E o \in Outcomes : AdapterAnswers(o)
      <4>1. PICK o \in Outcomes : AdapterAnswers(o) BY <3>1
      <4>2. CASE o = "transient"
        <5>1. current \in Deliveries BY <4>1 DEF BatchInv, InHand
        <5>2. \A d \in Deliveries : failures'[d] = IF d = current THEN failures[d] + 1 ELSE failures[d]
          BY <4>1, <4>2, <5>1 DEF TypeOK
        <5> QED BY <2>2, <4>1, <4>2, <5>2 DEF Uncounted
      <4>3. CASE o # "transient"
        BY <2>2, <4>1, <4>3 DEF Uncounted
      <4> QED BY <4>2, <4>3
    <3>2. CASE AdapterTimeout
      BY <2>2, <3>2 DEF Uncounted
    <3>3. CASE \E o \in Outcomes : \E d \in Deliveries : StrayEnds(d, o)
      BY <2>2, <3>3 DEF Uncounted
    <3> QED BY <3>1, <3>2, <3>3
  <2>4. \A d \in Deliveries : failures'[d] \in Nat BY <1>3 DEF TypeOK
  <2>5. \A d \in Deliveries : Uncounted(d) \in Nat /\ Uncounted(d)' \in Nat BY DEF Uncounted
  <2> QED BY <2>1, <2>2, <2>3, <2>4, <2>5 DEF HeardInv
<1> QED BY <1>3, <1>4, <1>6, <1>7, <1>8, <1>9

(* The row of the current delivery after its answer was applied, and what  *)
(* became of its attempts.  A row that is over stays as it is, because     *)
(* none that is over is in hand.                                           *)
Applied ==
    \/ UNCHANGED <<row, attempts>> /\ answer # "transient"
    \/ /\ answer \in {"delivered", "acked", "permanent"} /\ UNCHANGED attempts
       /\ row' = [row EXCEPT ![current] = outcome_to_state(answer)]
    \/ /\ answer = "transient" /\ attempts' = [attempts EXCEPT ![current] = @ + 1]
       /\ \/ attempts[current] + 1 < MaxAttempts /\ row' = [row EXCEPT ![current] = "queued"]
          \/ row' = [row EXCEPT ![current] = "failed"]

LEMMA ApplyMoves == ASSUME IInv, Apply PROVE Settle /\ Applied
<1>1. current \in Deliveries BY DEF IInv, BatchInv, InHand, Apply, ApplyGuarded, ApplyTransient,
        ApplyNotReady, Settle
<1>2. attempts[current] \in Nat BY <1>1 DEF IInv, TypeOK
<1>3. CASE ApplyGuarded BY <1>3 DEF ApplyGuarded, Applied
<1>4. CASE ApplyTransient BY <1>2, <1>4, MailAssumption DEF ApplyTransient, Applied
<1>5. CASE ApplyNotReady BY <1>5 DEF ApplyNotReady, Applied
<1> QED BY <1>3, <1>4, <1>5 DEF Apply

LEMMA ApplyIInv == ASSUME IInv, Apply PROVE IInv'
<1>1. Settle /\ Applied BY ApplyMoves
<1>2. /\ phase = "apply" /\ batch' = batch /\ current' = Nobody /\ answer' = "notready"
      /\ phase' \in {"expire", "batch"} /\ (phase' = "expire" => batch = {})
      /\ UNCHANGED <<submitted, order, overdue, lock, call, strays, history, faults>>
  BY <1>1 DEF Settle, Then
<1>3. /\ current \in Deliveries /\ current \notin batch /\ batch \subseteq Deliveries
      /\ row[current] \in {"claimed", "delivered"} /\ attempts[current] < MaxAttempts
      /\ attempts[current] \in Nat
      /\ Takes(answer) => current \in received
  BY <1>2 DEF IInv, BatchInv, BudgetInv, AnswerInv, InHand, TypeOK
<1>4. row \in [Deliveries -> DeliveryState \cup {NoRow}] /\ attempts \in [Deliveries -> Nat]
  BY DEF IInv, TypeOK
<1>5. \A d \in Deliveries : d # current => row'[d] = row[d] /\ attempts'[d] = attempts[d]
  BY <1>1, <1>4 DEF Applied
<1>6. /\ row'[current] \in DeliveryState
      /\ row'[current] \in {"delivered", "acked"} => row' = row \/ Takes(answer)
      /\ attempts'[current] = attempts[current] + Uncounted(current)
      /\ attempts'[current] \in Nat /\ attempts'[current] <= MaxAttempts
      /\ row'[current] \in Pending => attempts'[current] < MaxAttempts
  BY <1>1, <1>2, <1>3, <1>4, MailAssumption
     DEF Applied, outcome_to_state, DeliveryState, Pending, Takes, Uncounted
<1>7. TypeOK'
  <2>1. row' \in [Deliveries -> DeliveryState \cup {NoRow}]
    BY <1>1, <1>3, <1>4 DEF Applied, DeliveryState, outcome_to_state
  <2>2. attempts' \in [Deliveries -> Nat] BY <1>1, <1>3, <1>4 DEF Applied
  <2>3. lease' \in [Deliveries -> {"null", "held", "lapsed"}] /\ backoff' \subseteq Deliveries
    <3>1. CASE UNCHANGED <<lease, backoff>> BY <3>1 DEF IInv, TypeOK
    <3>2. CASE lease' = [lease EXCEPT ![current] = "null"] /\ backoff' = backoff \cup {current}
      BY <1>3, <3>2 DEF IInv, TypeOK
    <3> QED BY <3>1, <3>2 DEF Apply, ApplyGuarded, ApplyTransient, ApplyNotReady
  <2>4. answer' \in Outcome BY <1>2 DEF Outcome
  <2> QED BY <1>2, <2>1, <2>2, <2>3, <2>4 DEF IInv, TypeOK, submitted, history, handover
<1>8. LockInv' /\ AuditInv' /\ KeyInv'
  <2>1. \A d \in Deliveries : row'[d] # NoRow => row[d] # NoRow BY <1>3, <1>5 DEF NoRow
  <2> QED BY <1>2, <2>1, CallsKept
<1>9. InHand' = batch /\ batch \subseteq InHand BY <1>2 DEF InHand
<1>10. BatchInv' BY <1>2, <1>3, <1>5, <1>9 DEF IInv, BatchInv
<1>11. BudgetInv'
  <2>1. row'[current] # NoRow BY <1>6 DEF DeliveryState, NoRow
  <2> QED BY <1>3, <1>5, <1>6, <1>9, <2>1 DEF IInv, BudgetInv
<1>12. AnswerInv'
  <2>1. \A d \in Deliveries :
          /\ row'[d] = "delivered" => d \in HandedOver
          /\ row'[d] = "acked" => d \in received
    BY <1>3, <1>5, <1>6 DEF IInv, AnswerInv, DeliveredWasHandedOver, HandedOver
  <2> QED BY <1>2, <2>1
          DEF IInv, AnswerInv, DeliveredWasHandedOver, HandedOver, Times, history, handover
<1>13. HeardInv'
  <2>1. \A d \in Deliveries : attempts'[d] = attempts[d] + Uncounted(d)
    <3>1. \A d \in Deliveries : d # current => Uncounted(d) = 0 BY DEF Uncounted
    <3> QED BY <1>3, <1>4, <1>5, <1>6, <3>1
  <2>2. \A d \in Deliveries : Uncounted(d)' = 0 BY <1>2 DEF Uncounted
  <2>3. Times("crash") \in Nat BY DEF IInv, TypeOK, Times, Disturbances
  <2>4. \A d \in Deliveries :
          attempts[d] \in Nat /\ failures[d] \in Nat /\ Uncounted(d) \in Nat
    BY DEF IInv, TypeOK, Uncounted
  <2>5. UNCHANGED <<failures, faults>> BY <1>2 DEF history
  <2> QED BY <2>1, <2>2, <2>3, <2>4, <2>5 DEF IInv, HeardInv, Times
<1> QED BY <1>7, <1>8, <1>10, <1>11, <1>12, <1>13 DEF IInv

LEMMA CrashIInv == ASSUME IInv, Crash PROVE IInv'
<1> USE MailAssumption DEF IInv, Crash, table, rows, submitted, history
<1>0. FaultsGrow /\ Times("crash")' = Times("crash") + 1 /\ Times("crash") \in Nat
  BY Counted DEF Times, TypeOK, Disturbances
<1>1. \A k \in Calls : (call'[k] = call[k] /\ call[k] \in Ended) \/ call'[k] = "crashed"
  OBVIOUS
<1>2. TypeOK'
  <2>1. call' \in [Calls -> CallState] BY DEF TypeOK, CallState
  <2>2. answer' \in Outcome BY DEF Outcome
  <2>3. strays' \in [Deliveries -> Nat] OBVIOUS
  <2>4. lost' \subseteq Deliveries BY DEF TypeOK
  <2> QED BY <1>0, <2>1, <2>2, <2>3, <2>4 DEF TypeOK, FaultsGrow, FaultsRecord
<1>3. LockInv' BY <1>1 DEF Section, LockInv, Ended
<1>4. AuditInv' BY <1>1 DEF AuditInv, EnqueuedAudited, Ended
<1>5. KeyInv' BY <1>1, Ends DEF KeyInv, Live, Section, Ended
<1>6. BatchInv' BY DEF BatchInv, InHand
<1>7. BudgetInv' BY DEF BudgetInv, InHand
<1>8. AnswerInv'
  <2>1. HandedOver' = HandedOver /\ phase' # "apply" BY DEF HandedOver
  <2> QED BY <1>0, <2>1 DEF AnswerInv, DeliveredWasHandedOver
<1>9. HeardInv'
  <2>1. \A d \in Deliveries : Uncounted(d)' = 0 /\ Uncounted(d) \in 0..1 BY DEF Uncounted
  <2>2. \A d \in Deliveries : attempts[d] \in Nat /\ failures[d] \in Nat BY DEF TypeOK
  <2> QED BY <1>0, <2>1, <2>2 DEF HeardInv
<1> QED BY <1>2, <1>3, <1>4, <1>5, <1>6, <1>7, <1>8, <1>9

-----------------------------------------------------------------------------
(***************************************************************************)
(* Theorems.                                                               *)
(***************************************************************************)

LEMMA NextIInv == ASSUME IInv, [Next]_vars PROVE IInv'
<1>1. CASE Next
  BY <1>1, SubmitIInv, InsertIInv, InboxIInv, RespondIInv, TimeIInv, ExpireIInv, ClaimIInv, PushIInv,
     AdapterIInv, ApplyIInv, CrashIInv
     DEF Next, Tick, Submit, Adapter
<1>2. CASE UNCHANGED vars
  BY <1>2 DEF vars, table, rows, submitted, loop, history, handover, IInv, TypeOK, LockInv,
     AuditInv, KeyInv, BatchInv, BudgetInv, HeardInv, Uncounted, Times, AnswerInv, InHand,
     EnqueuedAudited, DeliveredWasHandedOver, HandedOver
<1> QED BY <1>1, <1>2

(* The inductive invariant of submission, inbox and delivery loop. *)
THEOREM MailInvariant == Spec => []IInv
  BY InitIInv, NextIInv, PTL DEF Spec

(* Fail-closed submission, for any calls and any disturbances: no delivery *)
(* row exists without the durable event of its message.                    *)
THEOREM NoRowUnaudited == Spec => []EnqueuedAudited
<1>1. IInv => EnqueuedAudited BY DEF IInv, AuditInv
<1> QED BY <1>1, MailInvariant, PTL

(* Two calls with one idempotency key both leave rows only if a crash cut  *)
(* one of them off before dedupe_insert.                                   *)
THEOREM RetriesCollapse == Spec => []OneMessagePerKey
<1>1. ASSUME IInv PROVE OneMessagePerKey
  <2> SUFFICES ASSUME NEW k \in Calls, NEW l \in Calls, SameKey(k, l), k # l,
                      NEW d \in Deliveries, d[1] = k, row[d] # NoRow,
                      NEW e \in Deliveries, e[1] = l, row[e] # NoRow
               PROVE  call[k] = "crashed" \/ call[l] = "crashed"
    BY DEF OneMessagePerKey
  <2> QED BY <1>1 DEF IInv, KeyInv, Live, Section
<1> QED BY <1>1, MailInvariant, PTL

(* delivered was a pull or an adapter's word, acked arrived, responses are *)
(* lost by crashes and broken connections only, and every causal record is *)
(* about a message that was handed over, whatever pulls, time-outs and     *)
(* late adapters do.                                                       *)
THEOREM DeliveryIsHandOver == Spec => []DeliveredWasHandedOver
<1>1. IInv => DeliveredWasHandedOver BY DEF IInv, AnswerInv
<1> QED BY <1>1, MailInvariant, PTL

(* The retry budget of record_attempt_failure, for any MaxAttempts: what   *)
(* the loop hears is counted before it claims again, or lost in a restart. *)
THEOREM BudgetKept == Spec => []AttemptBudget
<1>1. ASSUME IInv, NEW d \in Deliveries
      PROVE  /\ failures[d] <= MaxAttempts + Times("crash")
             /\ row[d] \in Pending => attempts[d] < MaxAttempts
  <2>1. /\ attempts[d] \in Nat /\ failures[d] \in Nat /\ Times("crash") \in Nat
        /\ Uncounted(d) \in 0..1
    BY <1>1 DEF IInv, TypeOK, Times, Disturbances, Uncounted
  <2>2. Uncounted(d) = 1 => d \in InHand BY DEF Uncounted, InHand
  <2> QED BY <1>1, <2>1, <2>2, MailAssumption DEF IInv, BudgetInv, HeardInv
<1>2. IInv => AttemptBudget BY <1>1 DEF AttemptBudget
<1> QED BY <1>2, MailInvariant, PTL

(* A row that is over is left alone by every step, although neither inbox  *)
(* nor record_attempt_failure looks at the state it overwrites: what they  *)
(* write to is pending or in the loop's hand, and neither is ever over.    *)
LEMMA OverStays ==
  ASSUME IInv, [Next]_vars, NEW d \in Deliveries, row[d] \in Over
  PROVE  row'[d] = row[d]
<1> USE DEF Over
<1>2. CASE \E k \in Calls : Submit(k)
  BY <1>2, SubmitRest DEF rows
<1>3. CASE \E e \in Deliveries : InsertDelivery(e)
  BY <1>3 DEF InsertDelivery, IInv, TypeOK, NoRow
<1>4. CASE \E r \in Cells : Inbox(r)
  BY <1>4 DEF Inbox, PendingOf, Pending
<1>5. CASE ExpireDue BY <1>5 DEF ExpireDue, transition_allowed
<1>6. CASE ClaimDue
  <2>1. PICK mine \in SUBSET {e \in Deliveries : Due(e)} :
          row' = [e \in Deliveries |-> IF e \in mine THEN "claimed"
                                       ELSE IF Lapsed(e) THEN "queued" ELSE row[e]]
    BY <1>6 DEF ClaimDue
  <2> QED BY <2>1 DEF Due, Lapsed
<1>7. CASE Apply
  <2>1. Settle /\ Applied BY <1>7, ApplyMoves
  <2>2. d # current BY <2>1 DEF Settle, IInv, BatchInv, InHand
  <2> QED BY <2>1, <2>2 DEF Applied, IInv, TypeOK
<1>8. CASE \/ (\E e \in Deliveries : Push(e)) \/ Adapter \/ Crash
           \/ \E S \in responses : Respond(S) \/ RespondFails(S)
  BY <1>8 DEF Respond, RespondFails, Push, Adapter, AdapterAnswers, StrayEnds, AdapterTimeout, Crash, table, rows
<1>9. CASE \/ \E e \in Deliveries : Report(e) \/ LeaseLapses(e) \/ BackoffEnds(e)
           \/ \E k \in Calls : TtlElapses(k)
  BY <1>9 DEF Report, LeaseLapses, BackoffEnds, TtlElapses, table, rows
<1>10. CASE UNCHANGED vars BY <1>10 DEF vars, table, rows
<1> QED BY <1>2, <1>3, <1>4, <1>5, <1>6, <1>7, <1>8, <1>9, <1>10 DEF Next, Tick, Submit, Adapter

(* acked, failed and expired are final. *)
THEOREM OverIsFinal == Spec => TerminalIsFinal
<1>1. IInv /\ [Next]_vars => [\A d \in Deliveries : row[d] \in Over => row'[d] = row[d]]_vars
  BY OverStays
<1> QED BY <1>1, MailInvariant, PTL DEF Spec, TerminalIsFinal

=============================================================================
