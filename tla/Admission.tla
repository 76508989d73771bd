----------------------------- MODULE Admission ------------------------------
(***************************************************************************)
(* What an outbound call of one cell passes before its rows are written:   *)
(* the capability and reach gates of the ACL, the depth of the recipient's *)
(* queue, the sliding windows of the quota tracker and the cap on pending  *)
(* asks.  Each is read under a mutex of its own that is released before    *)
(* the next one is taken, the clock is read under none, and the cell may   *)
(* have several connections at once.  What the rows become is the subject  *)
(* of Mail and Asks; here they only count.                                 *)
(***************************************************************************)
EXTENDS Naturals, Sequences, FiniteSets

CONSTANTS
    Me,                      \* the sender
    Registered,              \* cells of the ACL
    Capabilities,            \* those of Me
    Protected,               \* cells behind a per-target grant
    SendGrants, AskGrants,   \* Me's grants: send_to_protected, ask_protected
    Conns,                   \* connections of Me
    Calls,                   \* what a client asks for: [kind, to]
    Window,                  \* WINDOW_MS, in ticks of the clock
    Ceiling,                 \* sender_per_min, ask_per_min, broadcast_per_min
    QueueDepth, PendingCap,  \* queue_depth, pending_ask_cap
    MaxTime, MaxCalls,       \* bounds: the clock, calls of a connection
    MaxRestarts              \* bound: restarts of the daemon

Kinds == {"send", "ask", "broadcast"}
Axes  == {"sender", "ask", "broadcast"}

ASSUME AdmissionAssumption ==
    /\ Me \in Registered /\ IsFiniteSet(Registered) /\ Protected \subseteq Registered
    /\ SendGrants \subseteq Registered /\ AskGrants \subseteq Registered
    /\ IsFiniteSet(Conns) /\ Conns # {}
    /\ \A k \in Calls : k.kind \in Kinds
    /\ Window \in Nat \ {0} /\ Ceiling \in [Axes -> Nat]
    /\ QueueDepth \in Nat \ {0} /\ PendingCap \in Nat \ {0}
    /\ MaxTime \in Nat /\ MaxCalls \in Nat /\ MaxRestarts \in Nat

VARIABLES
    clock,     \* now_ms()
    window,    \* QuotaTracker: the stamps counted on each axis, oldest first
    direct,    \* per recipient: queued or claimed rows of sends and asks
    fanned,    \* per recipient: those of broadcasts
    open,      \* pending asks of Me
    task,      \* what the handler of a connection is at: step, call, clock read
    made,      \* calls a connection has made
    restarts,
    noted      \* history: the stamps of all units counted for Me since the start

rows == <<direct, fanned, open>>
vars == <<clock, window, rows, task, made, restarts, noted>>

-----------------------------------------------------------------------------
(***************************************************************************)
(* The ACL.                                                                *)
(***************************************************************************)

check_reach(to, grants) == to \in Protected => to \in grants

(* capability, then recipient, then protected reach                        *)
authorize_outbound(k) ==
    /\ k.kind \in Capabilities
    /\ k.to \in Registered
    /\ check_reach(k.to, IF k.kind = "ask" THEN AskGrants ELSE SendGrants)

recipients_for_broadcast ==
    {to \in Registered \ {Me} : to \in Protected => to \in SendGrants}

(* A broadcast asks for the capability; who is reached is decided per cell *)
Authorized(k) ==
    IF k.kind = "broadcast" THEN "broadcast" \in Capabilities ELSE authorize_outbound(k)

Units(k) ==
    IF k.kind = "broadcast" /\ recipients_for_broadcast # {}
    THEN Cardinality(recipients_for_broadcast) ELSE 1

-----------------------------------------------------------------------------
(***************************************************************************)
(* The quota tracker.                                                      *)
(***************************************************************************)

(* Wrong variant: the whole deque is emptied once its front is stale.      *)
pruneAll(s, now) == IF s # <<>> /\ now >= Head(s) + Window THEN <<>> ELSE s

(* Only a prefix goes: a stamp that is still young keeps older ones that   *)
(* were pushed after it.  now - f saturates at 0.                          *)
Stale(s, now) == {n \in 0..Len(s) : \A i \in 1..n : now >= s[i] + Window}
prune(s, now) ==
    LET n == CHOOSE n \in Stale(s, now) : \A m \in Stale(s, now) : m <= n
    IN  SubSeq(s, n + 1, Len(s))

Stamps(t, units) == [i \in 1..units |-> t]

Fits(s, units) == Len(s) + units <= Ceiling["sender"]

(* Wrong variant: the depth is compared before the row that is to come.    *)
DepthAdmitsOneMore(to) == direct[to] + fanned[to] <= QueueDepth

DepthAdmits(to) == direct[to] + fanned[to] < QueueDepth

-----------------------------------------------------------------------------
Idle == [at |-> "idle"]
At(c, step) == task[c].at = step
Return(c) == task' = [task EXCEPT ![c] = Idle]
Goto(c, step) == task' = [task EXCEPT ![c].at = step]

Init ==
    /\ clock = 0
    /\ window = [a \in Axes |-> <<>>]
    /\ direct = [r \in Registered |-> 0] /\ fanned = [r \in Registered |-> 0]
    /\ open = 0
    /\ task = [c \in Conns |-> Idle]
    /\ made = [c \in Conns |-> 0]
    /\ restarts = 0
    /\ noted = <<>>

(* A denial is audited and returned before anything is counted.            *)
Submit(c) ==
    /\ At(c, "idle") /\ made[c] < MaxCalls
    /\ made' = [made EXCEPT ![c] = @ + 1]
    /\ \E k \in Calls :
         \/ ~ Authorized(k) /\ UNCHANGED task
         \/ /\ Authorized(k)
            /\ task' = [task EXCEPT ![c] =
                 [at |-> IF k.kind = "broadcast" THEN "clock" ELSE "depth",
                  call |-> k, stamp |-> 0]]
    /\ UNCHANGED <<clock, window, rows, restarts, noted>>

(* check_queue_depth of the rows pending_deliveries_count saw: sends and   *)
(* asks only, handle_broadcast does not come here.                         *)
CheckDepth(c) ==
    /\ At(c, "depth")
    /\ \/ DepthAdmits(task[c].call.to) /\ Goto(c, "clock")
       \/ ~ DepthAdmits(task[c].call.to) /\ Return(c)
    /\ UNCHANGED <<clock, window, rows, made, restarts, noted>>

ReadClock(c) ==
    /\ At(c, "clock")
    /\ task' = [task EXCEPT ![c].at = "sender", ![c].stamp = clock]
    /\ UNCHANGED <<clock, window, rows, made, restarts, noted>>

note_and_check_sender(c) ==
    /\ At(c, "sender")
    /\ LET units == Units(task[c].call)
           now   == task[c].stamp
           s     == prune(window["sender"], now)
       IN  \/ /\ Fits(s, units)
              /\ window' = [window EXCEPT !["sender"] = s \o Stamps(now, units)]
              /\ noted' = noted \o Stamps(now, units)
              /\ Goto(c, "capability")
           \/ /\ ~ Fits(s, units)
              /\ window' = [window EXCEPT !["sender"] = s]
              /\ Return(c)
              /\ UNCHANGED noted
    /\ UNCHANGED <<clock, rows, made, restarts>>

(* Plain sends have no ceiling of their own.  What the sender axis counted *)
(* stays counted when this axis refuses.                                   *)
note_and_check_capability(c) ==
    /\ At(c, "capability")
    /\ LET kind == task[c].call.kind
           now  == task[c].stamp
           s    == prune(window[kind], now)
       IN  \/ kind = "send" /\ Goto(c, "insert") /\ UNCHANGED window
           \/ /\ kind # "send" /\ Len(s) < Ceiling[kind]
              /\ window' = [window EXCEPT ![kind] = Append(s, now)]
              /\ Goto(c, IF kind = "ask" THEN "pending" ELSE "insert")
           \/ /\ kind # "send" /\ Len(s) >= Ceiling[kind]
              /\ window' = [window EXCEPT ![kind] = s]
              /\ Return(c)
    /\ UNCHANGED <<clock, rows, made, restarts, noted>>

(* pending_asks_count, then check_pending_ask_cap                          *)
CheckPending(c) ==
    /\ At(c, "pending")
    /\ \/ open < PendingCap /\ Goto(c, "insert")
       \/ open >= PendingCap /\ Return(c)
    /\ UNCHANGED <<clock, window, rows, made, restarts, noted>>

(* The section that writes the rows.                                       *)
Insert(c) ==
    /\ At(c, "insert")
    /\ LET k == task[c].call IN
       \/ /\ k.kind = "broadcast"
          /\ fanned' = [r \in Registered |->
                          fanned[r] + (IF r \in recipients_for_broadcast THEN 1 ELSE 0)]
          /\ UNCHANGED <<direct, open>>
       \/ /\ k.kind # "broadcast"
          /\ direct' = [direct EXCEPT ![k.to] = @ + 1]
          /\ open' = IF k.kind = "ask" THEN open + 1 ELSE open
          /\ UNCHANGED fanned
    /\ Return(c)
    /\ UNCHANGED <<clock, window, made, restarts, noted>>

-----------------------------------------------------------------------------
(***************************************************************************)
(* The rest of the daemon.                                                 *)
(***************************************************************************)

(* A row becomes delivered, expired, undeliverable or failed.              *)
Drain(r) ==
    /\ \/ direct[r] > 0 /\ direct' = [direct EXCEPT ![r] = @ - 1] /\ UNCHANGED fanned
       \/ fanned[r] > 0 /\ fanned' = [fanned EXCEPT ![r] = @ - 1] /\ UNCHANGED direct
    /\ UNCHANGED <<clock, window, open, task, made, restarts, noted>>

(* An ask is answered or expires.                                          *)
Settle ==
    /\ open > 0 /\ open' = open - 1
    /\ UNCHANGED <<clock, window, direct, fanned, task, made, restarts, noted>>

Tick ==
    /\ clock < MaxTime /\ clock' = clock + 1
    /\ UNCHANGED <<window, rows, task, made, restarts, noted>>

(* The rows are on disk, the windows are not.                              *)
Restart ==
    /\ restarts < MaxRestarts /\ restarts' = restarts + 1
    /\ window' = [a \in Axes |-> <<>>]
    /\ task' = [c \in Conns |-> Idle]
    /\ noted' = <<>>
    /\ UNCHANGED <<clock, rows, made>>

Next ==
    \/ \E c \in Conns :
         \/ Submit(c) \/ CheckDepth(c) \/ ReadClock(c) \/ note_and_check_sender(c)
         \/ note_and_check_capability(c) \/ CheckPending(c) \/ Insert(c)
    \/ \E r \in Registered : Drain(r)
    \/ Settle \/ Tick \/ Restart

Spec == Init /\ [][Next]_vars

-----------------------------------------------------------------------------
(***************************************************************************)
(* Properties.                                                             *)
(***************************************************************************)

Task ==
    [at : {"depth", "clock", "sender", "capability", "pending", "insert"},
     call : Calls, stamp : 0..MaxTime]

(* Every variable keeps its type, and the tracker holds no more units than *)
(* the sender's ceiling.                                                   *)
TypeOK ==
    /\ clock \in 0..MaxTime
    /\ window \in [Axes -> Seq(0..MaxTime)] /\ Len(window["sender"]) <= Ceiling["sender"]
    /\ direct \in [Registered -> Nat] /\ fanned \in [Registered -> Nat] /\ open \in Nat
    /\ task \in [Conns -> Task \cup {Idle}] /\ made \in [Conns -> Nat]
    /\ restarts \in Nat /\ noted \in Seq(0..MaxTime)

(* At no instant are more units of a sender younger than Window than its   *)
(* ceiling allows, whatever the tracker has forgotten and however stale    *)
(* the clock was that the caller read before it waited for the lock        *)
(* (admit_outbound, handle_broadcast).  A unit's age counts from that read.*)
RateBound ==
    Cardinality({i \in DOMAIN noted : noted[i] + Window > clock}) <= Ceiling["sender"]

(* The caps on stored rows, read before and apart from the insertion, are  *)
(* passed by at most the other connections' calls under way: a recipient's *)
(* queue holds at most QueueDepth rows of sends and asks, and Me at most   *)
(* PendingCap pending asks, plus one for each other connection, restarts   *)
(* included.  Fanned rows are not bounded by QueueDepth at all.            *)
CapsUpToRaces ==
    /\ \A r \in Registered : direct[r] <= QueueDepth + Cardinality(Conns) - 1
    /\ open <= PendingCap + Cardinality(Conns) - 1
=============================================================================
