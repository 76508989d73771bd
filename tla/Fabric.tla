------------------------------- MODULE Fabric -------------------------------
(***************************************************************************)
(* The cell fabric of crewd: the persistent tables cell_threads and        *)
(* cell_jobs, the single scheduler thread that moves jobs to engine        *)
(* processes, the request handlers cell_spawn, cell_send_task and          *)
(* cell_cancel that run concurrently with it, the engine supervisor, and   *)
(* a crash of the daemon followed by boot recovery.                        *)
(*                                                                         *)
(* Granularity.  Handlers and scheduler share the store through a mutex,   *)
(* so one action is one critical section; where a critical section holds   *)
(* two autocommitted SQL statements a crash can fall between them, and the *)
(* section is two actions with the lock held in between (StoreLocked).     *)
(* What touches only scheduler-local state is merged with the step before. *)
(*                                                                         *)
(* Time is abstract: a lease may expire and a turn may exceed its timeout  *)
(* at any moment the clock allows.  Env says which disturbances of the     *)
(* environment a model admits, Faults how many of the rare ones.           *)
(***************************************************************************)
EXTENDS Naturals, Sequences, FiniteSets

CONSTANTS Cells,     \* cell names, registry and ephemeral alike
          Threads,   \* crewd_thread_id values a spawn may mint
          Jobs,      \* job_id values an enqueue may mint
          NoJob,     \* absence of a job
          CellOf,    \* cell_threads.cell_name of each thread id
          ThreadOf,  \* cell_jobs.crewd_thread_id of each job id
          PiCells,   \* cells whose engine cannot resume a session
          CodexCells, \* cells whose engine answers the call that starts a turn
          QueueCap,  \* QUEUE_DEPTH_DEFAULT
          Env,       \* disturbances the environment may cause
          Faults     \* how many rare disturbances may happen

EnvKinds == {"cancel", "crash", "die", "timeout", "slow", "spawnfail",
             "startfail", "lostack", "auditfail", "reject", "fail"}

ASSUME FabricAssumption ==
    /\ Cells # {}
    /\ CellOf \in [Threads -> Cells]
    /\ ThreadOf \in [Jobs -> Threads]
    /\ NoJob \notin Jobs
    /\ PiCells \subseteq Cells
    /\ CodexCells \subseteq Cells \ PiCells
    /\ QueueCap \in Nat
    /\ Env \subseteq EnvKinds
    /\ Faults \in Nat

JobCell(j) == CellOf[ThreadOf[j]]

VARIABLES
    tstate,     \* cell_threads.state, "none" before the row exists
    jstate,     \* cell_jobs.state, "none" before the row exists
    rows,       \* each cell's jobs in order of enqueue_seq
    acc,        \* cell_jobs.accepted_by_engine_at IS NOT NULL
    lease,      \* cell_jobs.lease_expires_at: null, in the future, in the past
    turn,       \* Scheduler.in_flight: the job of each thread's turn, or NoJob
    turnAcc,    \* InFlightTurn.accepted
    pc,         \* where the scheduler thread is in tick
    pass,       \* 1 in the tick's first drain (step 3), 2 in its last (step 6)
    todo,       \* threads still to visit in the current loop of tick
    cells,      \* cells still to visit in the starting loop (step 5)
    existing,   \* threads in flight when the tick began
    cur,        \* the job (hence thread and cell) the scheduler works on
    accepted,   \* the accepted flag fail_turn and handle_timeout hold of cur
    events,     \* events polled by drain_turn and not processed yet
    reason,     \* the reason fail_turn was called with
    cancelling, \* cell_cancel handlers between store section and signal
    cancels,    \* the cancel channel: cells with a pending signal
    engine,     \* EngineSupervisor.engines: no adapter, process up, down
    work,       \* turns written to the engine process and not ended
    busy,       \* the engine has accepted the turn at the head of work
    outbox,     \* events emitted by the engine and not polled yet
    faults,     \* rare disturbances: how many are left, which kinds happened
    ran         \* history: how often an engine accepted the job (saturates at 2)

store == <<tstate, jstate, rows, acc, lease>>
locals == <<pass, todo, cells, existing, cur, accepted, events, reason>>
inflight == <<turn, turnAcc>>
signals == <<cancelling, cancels>>
engines == <<engine, work, busy, outbox, ran>>
vars == <<store, inflight, pc, locals, signals, engines, faults>>

-----------------------------------------------------------------------------
(***************************************************************************)
(* Values.                                                                 *)
(***************************************************************************)
ThreadState == {"spawning", "running", "idle", "interrupted", "timeout",
                "failed_unknown", "done"}
JobState == {"queued", "leased", "started", "finished", "cancelled"}
ActiveJob == {"queued", "leased", "started"}
ActiveThread == {"spawning", "running"}
TerminalThread == {"done", "interrupted", "timeout", "failed_unknown"}

(* Wrong variant: the matrix without failed_unknown -> running. *)
TransitionAllowedNoRetry(from, to) ==
    \/ from = "spawning" /\ to \in {"running", "failed_unknown"}
    \/ from = "running" /\ to \in {"idle", "interrupted", "timeout",
                                   "failed_unknown", "done"}
    \/ from \in {"idle", "interrupted", "timeout", "done"} /\ to = "running"

(* The normative matrix of thread transitions. *)
TransitionAllowed(from, to) ==
    \/ from = "spawning" /\ to \in {"running", "failed_unknown"}
    \/ from = "running" /\ to \in {"idle", "interrupted", "timeout",
                                   "failed_unknown", "done"}
    \/ from \in {"idle", "interrupted", "timeout", "failed_unknown", "done"}
         /\ to = "running"

EngineEvent == [kind : {"accepted", "final", "failed"}, job : Jobs]

(* A turn an engine was given; heard: the adapter will report whether it   *)
(* was accepted.                                                           *)
Task == [job : Jobs, heard : BOOLEAN]
Heard(j) == [job |-> j, heard |-> TRUE]
Unheard(j) == [job |-> j, heard |-> FALSE]

JobsOf(c) == {j \in Jobs : JobCell(j) = c}
ActiveJobs(c) == {j \in JobsOf(c) : jstate[j] \in ActiveJob}

(* Wrong variant: only accepted turns occupy their cell. *)
InFlightAccepted(c) == \E t \in Threads : CellOf[t] = c /\ turnAcc[t]

(* The cell's entry check of step 5: some turn of the cell is in flight. *)
InFlight(c) == \E t \in Threads : CellOf[t] = c /\ turn[t] # NoJob
InFlightThreads == {t \in Threads : turn[t] # NoJob}

SchedulerPc == {"boot", "begin", "drain", "event", "finishing",
                "death", "timedout", "start", "leased", "checked", "marking",
                "launch", "failed"}

(* A critical section of the scheduler is open: the store mutex is held. *)
StoreLocked == pc \in {"marking", "finishing", "failed", "timedout"}

(* Handlers serve requests: boot recovery is over and the mutex is free. *)
Serving == pc # "boot" /\ ~StoreLocked

FaultRecord == [left : Nat, seen : SUBSET Env]

(* A rare disturbance happens, and one fewer is left. *)
Disturb(kinds) ==
    /\ kinds \subseteq Env /\ faults.left > 0
    /\ faults' = [left |-> faults.left - 1, seen |-> faults.seen \cup kinds]

Fault(kind) == Disturb({kind})

(* None of these kinds of disturbance has happened so far. *)
Without(kinds) == faults.seen \cap kinds = {}

Init ==
    /\ tstate = [t \in Threads |-> "none"]
    /\ jstate = [j \in Jobs |-> "none"]
    /\ rows = [c \in Cells |-> <<>>]
    /\ acc = [j \in Jobs |-> FALSE]
    /\ lease = [j \in Jobs |-> "null"]
    /\ turn = [t \in Threads |-> NoJob]
    /\ turnAcc = [t \in Threads |-> FALSE]
    /\ pc = "begin"
    /\ pass = 1 /\ todo = {} /\ cells = {} /\ existing = {}
    /\ cur = NoJob /\ accepted = FALSE /\ events = <<>> /\ reason = "none"
    /\ cancelling = {} /\ cancels = {}
    /\ engine = [c \in Cells |-> "none"]
    /\ work = [c \in Cells |-> <<>>]
    /\ busy = [c \in Cells |-> FALSE]
    /\ outbox = [c \in Cells |-> <<>>]
    /\ ran = [j \in Jobs |-> 0]
    /\ faults = [left |-> Faults, seen |-> {}]

-----------------------------------------------------------------------------
(***************************************************************************)
(* Request handlers.  Each takes the store mutex for its whole store part. *)
(***************************************************************************)

(* job_enqueue_inner: the depth cap, then a row whose enqueue_seq follows *)
(* that of every row of the cell.                                         *)
Enqueue(j) ==
    /\ jstate[j] = "none"
    /\ Cardinality(ActiveJobs(JobCell(j))) < QueueCap
    /\ jstate' = [jstate EXCEPT ![j] = "queued"]
    /\ rows' = [rows EXCEPT ![JobCell(j)] = Append(@, j)]

(* Wrong variant: no transaction around thread row and job, so a refused   *)
(* enqueue leaves the thread behind.                                       *)
SpawnTorn(j) ==
    LET t == ThreadOf[j] IN
    /\ Serving
    /\ tstate[t] = "none"
    /\ \A u \in Threads : CellOf[u] = CellOf[t] => tstate[u] \notin ActiveThread
    /\ \/ Enqueue(j)
       \/ /\ Cardinality(ActiveJobs(JobCell(j))) >= QueueCap
          /\ UNCHANGED <<jstate, rows>>
    /\ tstate' = [tstate EXCEPT ![t] = "spawning"]
    /\ UNCHANGED <<acc, lease, inflight, pc, locals, signals, engines, faults>>

(* handle_spawn of a fresh (caller, cell, key): refused while the cell has *)
(* an active thread; the thread row and its first job commit together.     *)
(* A replay of the same key returns the existing thread and changes        *)
(* nothing, so a thread id stands for its request.                         *)
Spawn(j) ==
    LET t == ThreadOf[j] IN
    /\ Serving
    /\ tstate[t] = "none"
    /\ \A u \in Threads : CellOf[u] = CellOf[t] => tstate[u] \notin ActiveThread
    /\ Enqueue(j)
    /\ tstate' = [tstate EXCEPT ![t] = "spawning"]
    /\ UNCHANGED <<acc, lease, inflight, pc, locals, signals, engines, faults>>

(* handle_send_task: a follow-up job on any thread, except a terminal one  *)
(* of an engine that cannot resume.                                        *)
SendTask(j) ==
    LET t == ThreadOf[j] IN
    /\ Serving
    /\ tstate[t] # "none"
    /\ ~(tstate[t] \in TerminalThread /\ CellOf[t] \in PiCells)
    /\ Enqueue(j)
    /\ UNCHANGED <<tstate, acc, lease, inflight, pc, locals, signals, engines,
                   faults>>

(* handle_cancel, store part: every active job of the thread is cancelled, *)
(* and the thread is interrupted if it is running.                         *)
CancelStore(t) ==
    /\ Fault("cancel")
    /\ Serving
    /\ tstate[t] # "none"
    /\ jstate' = [j \in Jobs |->
                    IF ThreadOf[j] = t /\ jstate[j] \in ActiveJob
                    THEN "cancelled" ELSE jstate[j]]
    /\ tstate' = [tstate EXCEPT ![t] =
                    IF @ = "running" THEN "interrupted" ELSE @]
    /\ cancelling' = cancelling \cup {t}
    /\ UNCHANGED <<rows, acc, lease, inflight, pc, locals, cancels, engines>>

(* Wrong variant: a cell without a turn in flight is not signalled. *)
CancelSignalIfInFlight(t) ==
    /\ t \in cancelling
    /\ cancelling' = cancelling \ {t}
    /\ cancels' = IF InFlight(CellOf[t]) THEN cancels \cup {CellOf[t]} ELSE cancels
    /\ UNCHANGED <<store, inflight, pc, locals, engines, faults>>

(* handle_cancel, after the mutex: audit, then the signal to the scheduler. *)
CancelSignal(t) ==
    /\ t \in cancelling
    /\ cancelling' = cancelling \ {t}
    /\ cancels' = cancels \cup {CellOf[t]}
    /\ UNCHANGED <<store, inflight, pc, locals, engines, faults>>

(* handle_cancel whose audit append fails returns before the signal. *)
CancelAuditFails(t) ==
    /\ t \in cancelling
    /\ Fault("auditfail")
    /\ cancelling' = cancelling \ {t}
    /\ UNCHANGED <<store, inflight, pc, locals, cancels, engines>>

-----------------------------------------------------------------------------
(***************************************************************************)
(* The scheduler's tick.                                                   *)
(***************************************************************************)
CurThread == ThreadOf[cur]
CurCell == JobCell(cur)

(* The scheduler is done with one thread or cell and goes to a loop of the *)
(* tick, with what that loop has left to visit.                            *)
Goto(place, n, threads, names, old) ==
    /\ pc' = place
    /\ pass' = n
    /\ todo' = threads
    /\ cells' = names
    /\ existing' = old
    /\ cur' = NoJob /\ accepted' = FALSE /\ events' = <<>> /\ reason' = "none"

(* The tick is over, at its end or by `?` (run_loop logs the error and     *)
(* goes on).                                                               *)
EndTick == Goto("begin", 1, {}, {}, {})

(* The rest of the starting loop (step 5), then of the last drain (step 6) *)
(* over the turns that step 5 started.                                     *)
AfterStart(flight, names) ==
    IF names # {} THEN Goto("start", 1, {}, names, existing)
    ELSE IF flight \ existing # {} THEN Goto("drain", 2, flight \ existing, {}, {})
    ELSE EndTick

(* The rest of the death and timeout loop (step 4), then step 5. *)
AfterDeath(threads) ==
    IF threads # {} THEN Goto("death", 1, threads, {}, existing)
    ELSE Goto("start", 1, {}, Cells, existing)

(* The rest of a draining loop (step 3 or 6), then step 4 over the turns   *)
(* still in flight, or the end.                                            *)
AfterDrain(flight, threads) ==
    IF threads # {} THEN Goto("drain", pass, threads, {}, existing)
    ELSE IF pass = 2 THEN EndTick
    ELSE AfterDeath(flight)

(* Wrong variant: the event channel outlives the adapter. *)
StopEnginesKeepEvents(S) ==
    /\ engine' = [c \in Cells |-> IF c \in S THEN "none" ELSE engine[c]]
    /\ work' = [c \in Cells |-> IF c \in S THEN <<>> ELSE work[c]]
    /\ busy' = [c \in Cells |-> busy[c] /\ c \notin S]
    /\ UNCHANGED <<outbox, ran>>

(* EngineSupervisor::stop for a set of cells: adapters shut down, dropped. *)
StopEngines(S) ==
    /\ engine' = [c \in Cells |-> IF c \in S THEN "none" ELSE engine[c]]
    /\ work' = [c \in Cells |-> IF c \in S THEN <<>> ELSE work[c]]
    /\ busy' = [c \in Cells |-> busy[c] /\ c \notin S]
    /\ outbox' = [c \in Cells |-> IF c \in S THEN <<>> ELSE outbox[c]]
    /\ UNCHANGED ran

(* in_flight.remove *)
DropTurns(S) ==
    /\ turn' = [t \in Threads |-> IF t \in S THEN NoJob ELSE turn[t]]
    /\ turnAcc' = [t \in Threads |-> turnAcc[t] /\ t \notin S]

(* job_requeue: back to the queue, unless accepted or no longer active. *)
RequeueJob(j) ==
    LET hit == ~acc[j] /\ jstate[j] \in {"leased", "started"} IN
    /\ jstate' = [jstate EXCEPT ![j] = IF hit THEN "queued" ELSE @]
    /\ lease' = [lease EXCEPT ![j] = IF hit THEN "null" ELSE @]

(* job_finish *)
FinishJob(j) ==
    /\ jstate' = [jstate EXCEPT ![j] = "finished"]
    /\ UNCHANGED lease

(* Wrong variant: the query without the redelivery boundary. *)
LapsedAccepted(j) == lease[j] = "expired" /\ jstate[j] \in {"leased", "started"}

(* The rows job_requeue_expired_leases selects. *)
Lapsed(j) == lease[j] = "expired" /\ ~acc[j] /\ jstate[j] \in {"leased", "started"}

(* Steps 1 and 2.  drain_cancels: every signalled cell loses its engine    *)
(* and its in-flight turns.  job_requeue_expired_leases: expired, never    *)
(* accepted jobs go back to the queue.  Then step 3 takes the threads in   *)
(* flight.                                                                 *)
BeginTick ==
    LET Dropped == {t \in Threads : CellOf[t] \in cancels}
        flight == InFlightThreads \ Dropped
    IN
    /\ pc = "begin"
    /\ cancels' = {}
    /\ StopEngines(cancels)
    /\ DropTurns(Dropped)
    /\ jstate' = [j \in Jobs |-> IF Lapsed(j) THEN "queued" ELSE jstate[j]]
    /\ lease' = [j \in Jobs |-> IF Lapsed(j) THEN "null" ELSE lease[j]]
    /\ IF flight = {} THEN Goto("start", 1, {}, Cells, {})
       ELSE Goto("drain", 1, flight, {}, flight)
    /\ UNCHANGED <<tstate, rows, acc, cancelling, faults>>

(* Steps 3 and 6, drain_turn: poll everything the cell's adapter holds. *)
Poll(t) ==
    /\ pc = "drain"
    /\ t \in todo
    /\ todo' = todo \ {t}
    /\ cur' = turn[t]
    /\ events' = outbox[CellOf[t]]
    /\ outbox' = [outbox EXCEPT ![CellOf[t]] = <<>>]
    /\ pc' = "event"
    /\ UNCHANGED <<store, inflight, pass, cells, existing, accepted, reason, signals,
                   engine, work, busy, ran, faults>>

(* drain_turn returns: no event is left. *)
EventsDone ==
    /\ pc = "event"
    /\ events = <<>>
    /\ AfterDrain(InFlightThreads, todo)
    /\ UNCHANGED <<store, inflight, signals, engines, faults>>

(* Wrong variant: the acceptance is journalled but not recorded. *)
OnAcceptedForgotten ==
    /\ pc = "event"
    /\ events # <<>> /\ Head(events).kind = "accepted"
    /\ events' = Tail(events)
    /\ UNCHANGED <<store, inflight, pc, pass, todo, cells, existing, cur, accepted,
                   reason, signals, engines, faults>>

(* EngineEvent::Accepted: the redelivery boundary is recorded. *)
OnAccepted ==
    /\ pc = "event"
    /\ events # <<>> /\ Head(events).kind = "accepted"
    /\ acc' = [acc EXCEPT ![cur] = TRUE]
    /\ turnAcc' = [turnAcc EXCEPT ![CurThread] = TRUE]
    /\ events' = Tail(events)
    /\ UNCHANGED <<tstate, jstate, rows, lease, turn, pc, pass, todo, cells, existing,
                   cur, accepted, reason, signals, engines, faults>>

(* EngineEvent::Final, first statement: the job is finished. *)
OnFinal ==
    /\ pc = "event"
    /\ events # <<>> /\ Head(events).kind = "final"
    /\ FinishJob(cur)
    /\ pc' = "finishing"
    /\ UNCHANGED <<tstate, rows, acc, inflight, locals, signals, engines, faults>>

(* ... and the rest: the thread becomes idle, the turn is audited and      *)
(* leaves in_flight.  A refused transition or a failed append ends the     *)
(* tick with the turn still in in_flight.                                  *)
FinalIdle ==
    /\ pc = "finishing"
    /\ IF TransitionAllowed(tstate[CurThread], "idle")
       THEN /\ tstate' = [tstate EXCEPT ![CurThread] = "idle"]
            /\ \/ /\ DropTurns({CurThread})
                  /\ AfterDrain(InFlightThreads \ {CurThread}, todo)
                  /\ UNCHANGED faults
               \/ /\ Fault("auditfail")
                  /\ EndTick
                  /\ UNCHANGED inflight
       ELSE EndTick /\ UNCHANGED <<tstate, inflight, faults>>
    /\ UNCHANGED <<jstate, rows, acc, lease, signals, engines>>

(* Wrong variant: an accepted job is not requeued, and not finished either. *)
FailTurnKeepsJob(j, isAccepted, why) ==
    /\ CASE isAccepted -> UNCHANGED <<jstate, lease>>
         [] ~isAccepted /\ why = "engine_spawn" -> FinishJob(j)
         [] OTHER -> RequeueJob(j)
    /\ cur' = j
    /\ accepted' = isAccepted
    /\ reason' = why
    /\ pc' = "failed"

(* fail_turn, first statement: what becomes of the job. *)
FailTurn(j, isAccepted, why) ==
    /\ IF isAccepted \/ why = "engine_spawn" THEN FinishJob(j) ELSE RequeueJob(j)
    /\ cur' = j
    /\ accepted' = isAccepted
    /\ reason' = why
    /\ pc' = "failed"

(* EngineEvent::Failed *)
OnFailed ==
    /\ pc = "event"
    /\ events # <<>> /\ Head(events).kind = "failed"
    /\ FailTurn(cur, turnAcc[CurThread], "engine_failed")
    /\ UNCHANGED <<tstate, rows, acc, inflight, pass, todo, cells, existing, events,
                   signals, engines, faults>>

(* fail_turn, the rest: the thread becomes failed_unknown, the failure is  *)
(* audited, and the caller goes on: the turn leaves in_flight (event,      *)
(* death), the dead adapter is dropped (death).  A refused transition or a *)
(* failed append ends the tick before any of that.                         *)
FailThread ==
    /\ pc = "failed"
    /\ IF TransitionAllowed(tstate[CurThread], "failed_unknown")
       THEN /\ tstate' = [tstate EXCEPT ![CurThread] = "failed_unknown"]
            /\ \/ /\ CASE reason = "engine_failed" ->
                            /\ DropTurns({CurThread})
                            /\ UNCHANGED engines
                            /\ AfterDrain(InFlightThreads \ {CurThread}, todo)
                       [] reason = "engine_death" ->
                            /\ DropTurns({CurThread})
                            /\ StopEngines({CurCell})
                            /\ AfterDeath(todo)
                       [] OTHER ->
                            /\ UNCHANGED <<inflight, engines>>
                            /\ AfterStart(InFlightThreads, cells)
                  /\ UNCHANGED faults
               \/ /\ Fault("auditfail")
                  /\ EndTick
                  /\ UNCHANGED <<inflight, engines>>
       ELSE EndTick /\ UNCHANGED <<tstate, inflight, engines, faults>>
    /\ UNCHANGED <<jstate, rows, acc, lease, signals>>

(* Step 4, check_death_and_timeout: the engine process is gone. *)
EngineDeath(t) ==
    /\ pc = "death"
    /\ t \in todo
    /\ engine[CellOf[t]] = "down"
    /\ todo' = todo \ {t}
    /\ FailTurn(turn[t], turnAcc[t], "engine_death")
    /\ UNCHANGED <<tstate, rows, acc, inflight, pass, cells, existing, events, signals,
                   engines, faults>>

(* Step 4: the turn exceeded its timeout (1800 s, so long after the lease  *)
(* of 30 s has passed).  handle_timeout takes it out of in_flight first,   *)
(* then the thread becomes timeout.                                        *)
TurnTimeout(t) ==
    /\ pc = "death"
    /\ t \in todo
    /\ engine[CellOf[t]] # "down"
    /\ acc[turn[t]] \/ lease[turn[t]] # "live"
    /\ Fault("timeout")
    /\ DropTurns({t})
    /\ IF TransitionAllowed(tstate[t], "timeout")
       THEN /\ tstate' = [tstate EXCEPT ![t] = "timeout"]
            /\ todo' = todo \ {t}
            /\ cur' = turn[t]
            /\ accepted' = turnAcc[t]
            /\ pc' = "timedout"
            /\ UNCHANGED <<pass, cells, existing, events, reason>>
       ELSE EndTick /\ UNCHANGED tstate
    /\ UNCHANGED <<jstate, rows, acc, lease, signals, engines>>

(* ... then the job is finished or requeued; the engine is asked to        *)
(* interrupt the turn but the adapter stays; the timeout is audited.       *)
TimeoutJob ==
    /\ pc = "timedout"
    /\ IF accepted THEN FinishJob(cur) ELSE RequeueJob(cur)
    /\ \/ AfterDeath(todo) /\ UNCHANGED faults
       \/ /\ Fault("auditfail")
          /\ EndTick
    /\ UNCHANGED <<tstate, rows, acc, inflight, signals, engines>>

(* Step 4: the turn is alive and in time. *)
TurnHealthy(t) ==
    /\ pc = "death"
    /\ t \in todo
    /\ engine[CellOf[t]] # "down"
    /\ AfterDeath(todo \ {t})
    /\ UNCHANGED <<store, inflight, signals, engines, faults>>

(* Wrong variants: no head-of-line check; the newest job instead of the    *)
(* oldest.                                                                 *)
LeasableDespiteStarted(c, j) ==
    /\ j \in JobsOf(c)
    /\ \E i \in DOMAIN rows[c] :
          /\ rows[c][i] = j
          /\ jstate[j] = "queued"
          /\ \A h \in 1..(i - 1) : jstate[rows[c][h]] # "queued"

LeasableNewest(c, j) ==
    /\ j \in JobsOf(c)
    /\ \A k \in JobsOf(c) : jstate[k] # "started"
    /\ \E i \in DOMAIN rows[c] :
          /\ rows[c][i] = j
          /\ jstate[j] = "queued"
          /\ \A h \in (i + 1)..Len(rows[c]) : jstate[rows[c][h]] # "queued"

(* The job job_lease_next picks: the first queued one, and none while a    *)
(* job of the cell is started.                                             *)
Leasable(c, j) ==
    /\ j \in JobsOf(c)
    /\ \A k \in JobsOf(c) : jstate[k] # "started"
    /\ \E i \in DOMAIN rows[c] :
          /\ rows[c][i] = j
          /\ jstate[j] = "queued"
          /\ \A h \in 1..(i - 1) : jstate[rows[c][h]] # "queued"

(* Step 5: a cell with a turn in flight or nothing to lease is passed by. *)
SkipCell(c) ==
    /\ pc = "start"
    /\ c \in cells
    /\ InFlight(c) \/ \A j \in Jobs : ~Leasable(c, j)
    /\ AfterStart(InFlightThreads, cells \ {c})
    /\ UNCHANGED <<store, inflight, signals, engines, faults>>

(* Step 5, try_start_turn, first critical section: job_lease_next. *)
Lease(c, j) ==
    /\ pc = "start"
    /\ c \in cells
    /\ ~InFlight(c)
    /\ Leasable(c, j)
    /\ cells' = cells \ {c}
    /\ jstate' = [jstate EXCEPT ![j] = "leased"]
    /\ lease' = [lease EXCEPT ![j] = "live"]
    /\ cur' = j
    /\ pc' = "leased"
    /\ UNCHANGED <<tstate, rows, acc, inflight, pass, todo, existing, accepted, events,
                   reason, signals, engines, faults>>

(* Second section: thread_get.  A thread that cannot run leaves the job    *)
(* leased.                                                                 *)
CheckThread ==
    /\ pc = "leased"
    /\ IF TransitionAllowed(tstate[CurThread], "running")
       THEN pc' = "checked" /\ UNCHANGED locals
       ELSE AfterStart(InFlightThreads, cells)
    /\ UNCHANGED <<store, inflight, signals, engines, faults>>

(* Third section, first statement: job_mark_started, whatever its state. *)
MarkStarted ==
    /\ pc = "checked"
    /\ jstate' = [jstate EXCEPT ![cur] = "started"]
    /\ pc' = "marking"
    /\ UNCHANGED <<tstate, rows, acc, lease, inflight, locals, signals, engines,
                   faults>>

(* Third section, second statement: the thread runs. *)
RunThread ==
    /\ pc = "marking"
    /\ IF TransitionAllowed(tstate[CurThread], "running")
       THEN /\ tstate' = [tstate EXCEPT ![CurThread] = "running"]
            /\ pc' = "launch"
            /\ UNCHANGED locals
       ELSE EndTick /\ UNCHANGED tstate
    /\ UNCHANGED <<jstate, rows, acc, lease, inflight, signals, engines, faults>>

(* Audit, ensure (an adapter that exists is reused), start_turn: the turn  *)
(* is written to the engine and enters in_flight.                          *)
Launch ==
    /\ pc = "launch"
    /\ engine[CurCell] # "down"
    /\ engine' = [engine EXCEPT ![CurCell] = "up"]
    /\ work' = [work EXCEPT ![CurCell] = Append(@, Heard(cur))]
    /\ turn' = [turn EXCEPT ![CurThread] = cur]
    /\ turnAcc' = [turnAcc EXCEPT ![CurThread] = FALSE]
    /\ AfterStart(InFlightThreads \cup {CurThread}, cells)
    /\ UNCHANGED <<store, signals, busy, outbox, ran, faults>>

(* The audit append of cell_turn_started fails. *)
LaunchAuditFails ==
    /\ pc = "launch"
    /\ Fault("auditfail")
    /\ EndTick
    /\ UNCHANGED <<store, inflight, signals, engines>>

(* ensure cannot make an adapter. *)
SpawnFails ==
    /\ pc = "launch"
    /\ "spawnfail" \in Env
    /\ engine[CurCell] = "none"
    /\ FailTurn(cur, FALSE, "engine_spawn")
    /\ UNCHANGED <<tstate, rows, acc, inflight, pass, todo, cells, existing, events,
                   signals, engines, faults>>

(* start_turn of codex errs although the engine has the turn: the reply to *)
(* turn/start does not come within RPC_TIMEOUT, or it accepts the turn and *)
(* verify_yolo_if_present refuses the policy it echoes.                    *)
StartUnheard ==
    /\ CurCell \in CodexCells
    /\ Fault("lostack")
    /\ work' = [work EXCEPT ![CurCell] = Append(@, Unheard(cur))]

(* start_turn fails: on the stdin of a dead process always; on a live one  *)
(* when the engine refuses the turn, and for codex although it took it.    *)
(* The adapter stays in every case.                                        *)
StartFails ==
    /\ pc = "launch"
    /\ \/ engine[CurCell] = "down" /\ UNCHANGED <<engine, work, faults>>
       \/ /\ engine[CurCell] # "down"
          /\ engine' = [engine EXCEPT ![CurCell] = "up"]
          /\ \/ Fault("startfail") /\ UNCHANGED work
             \/ StartUnheard
    /\ FailTurn(cur, FALSE, "start_turn")
    /\ UNCHANGED <<tstate, rows, acc, inflight, pass, todo, cells, existing, events,
                   signals, busy, outbox, ran>>

(* Steps 1 to 3 and 6: cancels, leases, events; fail_turn for all steps. *)
DrainSteps ==
    \/ BeginTick
    \/ \E t \in Threads : Poll(t)
    \/ EventsDone \/ OnAccepted \/ OnFinal \/ FinalIdle \/ OnFailed \/ FailThread

(* Step 4: death and timeout. *)
DeathSteps ==
    \/ \E t \in Threads : EngineDeath(t) \/ TurnTimeout(t) \/ TurnHealthy(t)
    \/ TimeoutJob

(* Step 5: starting turns. *)
StartSteps ==
    \/ \E c \in Cells : SkipCell(c)
    \/ \E c \in Cells, j \in Jobs : Lease(c, j)
    \/ CheckThread \/ MarkStarted \/ RunThread
    \/ Launch \/ LaunchAuditFails \/ SpawnFails \/ StartFails

Tick == DrainSteps \/ DeathSteps \/ StartSteps

-----------------------------------------------------------------------------
(***************************************************************************)
(* Engine processes, as the adapters and the claude shim drive them: turns *)
(* are taken from stdin one after another, each is accepted and then ends  *)
(* in a final answer or an error.                                          *)
(***************************************************************************)
Emit(c, kind) ==
    outbox' = [outbox EXCEPT ![c] =
                 Append(@, [kind |-> kind, job |-> Head(work[c]).job])]

(* Whether a turn is accepted is the answer to the call that started it,   *)
(* which nobody reads once the call is given up.                           *)
EmitAnswer(c, kind) == IF Head(work[c]).heard THEN Emit(c, kind) ELSE UNCHANGED outbox

EndTurn(c) ==
    /\ work' = [work EXCEPT ![c] = Tail(@)]
    /\ busy' = [busy EXCEPT ![c] = FALSE]
    /\ UNCHANGED <<engine, ran>>

EngineAccept(c) ==
    /\ engine[c] = "up" /\ work[c] # <<>> /\ ~busy[c]
    /\ busy' = [busy EXCEPT ![c] = TRUE]
    /\ ran' = [ran EXCEPT ![Head(work[c]).job] = IF @ = 2 THEN 2 ELSE @ + 1]
    /\ EmitAnswer(c, "accepted")
    /\ UNCHANGED <<store, inflight, pc, locals, signals, engine, work, faults>>

EngineFinal(c) ==
    /\ engine[c] = "up" /\ work[c] # <<>> /\ busy[c]
    /\ Emit(c, "final") /\ EndTurn(c)
    /\ UNCHANGED <<store, inflight, pc, locals, signals, faults>>

(* An accepted turn fails (an aborted one too). *)
EngineFails(c) ==
    /\ "fail" \in Env
    /\ engine[c] = "up" /\ work[c] # <<>> /\ busy[c]
    /\ Emit(c, "failed") /\ EndTurn(c)
    /\ UNCHANGED <<store, inflight, pc, locals, signals, faults>>

(* A turn is refused before it is accepted. *)
EngineRejects(c) ==
    /\ Fault("reject")
    /\ engine[c] = "up" /\ work[c] # <<>> /\ ~busy[c]
    /\ EmitAnswer(c, "failed") /\ EndTurn(c)
    /\ UNCHANGED <<store, inflight, pc, locals, signals>>

(* The process dies, with or without a turn; events already written stay   *)
(* in the adapter's channel.                                               *)
EngineDies(c) ==
    /\ Fault("die")
    /\ engine[c] = "up"
    /\ engine' = [engine EXCEPT ![c] = "down"]
    /\ work' = [work EXCEPT ![c] = <<>>]
    /\ busy' = [busy EXCEPT ![c] = FALSE]
    /\ UNCHANGED <<store, inflight, pc, locals, signals, outbox, ran>>

-----------------------------------------------------------------------------
(***************************************************************************)
(* Time and crashes.                                                       *)
(***************************************************************************)

(* The scheduler is starting job j or has its turn in flight. *)
Handling(j) == cur = j \/ turn[ThreadOf[j]] = j

(* lease_secs pass for a job whose lease matters.  That they pass while    *)
(* the scheduler is handling the job, before the engine accepted it, is    *)
(* the disturbance "slow".                                                 *)
LeaseExpires(j) ==
    /\ lease[j] = "live"
    /\ ~acc[j] /\ jstate[j] \in {"leased", "started"}
    /\ IF Handling(j) THEN Fault("slow") ELSE UNCHANGED faults
    /\ lease' = [lease EXCEPT ![j] = "expired"]
    /\ UNCHANGED <<tstate, jstate, rows, acc, inflight, pc, locals, signals, engines>>

(* The daemon is killed: what is not in the database is gone. *)
Killed ==
    /\ pc # "boot"
    /\ DropTurns(Threads)
    /\ Goto("boot", 1, {}, {}, {})
    /\ cancelling' = {} /\ cancels' = {}
    /\ StopEngines(Cells)

Crash == Fault("crash") /\ Killed /\ UNCHANGED store

(* The daemon is killed inside handle_cancel: each job_cancel commits on   *)
(* its own, in the order of enqueue_seq, and the thread comes last.        *)
CancelTorn(t) ==
    /\ Disturb({"cancel", "crash"})
    /\ Serving
    /\ tstate[t] # "none"
    /\ \E n \in DOMAIN rows[CellOf[t]] :
         LET done == {rows[CellOf[t]][i] : i \in 1..n} IN
         jstate' = [j \in Jobs |->
                      IF j \in done /\ ThreadOf[j] = t /\ jstate[j] \in ActiveJob
                      THEN "cancelled" ELSE jstate[j]]
    /\ Killed
    /\ UNCHANGED <<tstate, rows, acc, lease>>

(* boot_recovery, before the socket is served.  Each thread's transition   *)
(* commits on its own; a crash half way is repaired by the next boot, so   *)
(* one step stands for all.                                                *)
Boot ==
    /\ pc = "boot"
    /\ tstate' = [t \in Threads |->
                    CASE tstate[t] = "running" -> "interrupted"
                      [] tstate[t] = "spawning" -> "failed_unknown"
                      [] OTHER -> tstate[t]]
    /\ pc' = "begin"
    /\ UNCHANGED <<jstate, rows, acc, lease, inflight, locals, signals, engines,
                   faults>>

Handlers ==
    \/ \E j \in Jobs : Spawn(j) \/ SendTask(j)
    \/ \E t \in Threads : CancelStore(t) \/ CancelSignal(t) \/ CancelAuditFails(t)

Engines ==
    \E c \in Cells : \/ EngineAccept(c) \/ EngineFinal(c) \/ EngineFails(c)
                     \/ EngineRejects(c) \/ EngineDies(c)

TimeSteps ==
    \/ \E j \in Jobs : LeaseExpires(j)
    \/ \E t \in Threads : CancelTorn(t)
    \/ Crash \/ Boot

Next == Tick \/ Handlers \/ Engines \/ TimeSteps

Spec == Init /\ [][Next]_vars

(* The scheduler thread loops for ever, a handler that passed its store    *)
(* section is run to its end, a killed daemon is restarted, lease time     *)
(* passes.  That engines answer is an assumption about them.               *)
Fairness ==
    /\ WF_vars(Tick)
    /\ WF_vars(Boot)
    /\ \A t \in Threads : WF_vars(CancelSignal(t))
    /\ \A j \in Jobs : WF_vars(LeaseExpires(j))
    /\ \A c \in Cells : WF_vars(EngineAccept(c)) /\ WF_vars(EngineFinal(c))

FairSpec == Spec /\ Fairness

-----------------------------------------------------------------------------
(***************************************************************************)
(* Properties.                                                             *)
(***************************************************************************)

StoreOK ==
    /\ tstate \in [Threads -> ThreadState \cup {"none"}]
    /\ jstate \in [Jobs -> JobState \cup {"none"}]
    /\ rows \in [Cells -> Seq(Jobs)]
    /\ acc \in [Jobs -> BOOLEAN]
    /\ lease \in [Jobs -> {"null", "live", "expired"}]

InFlightOK ==
    /\ turn \in [Threads -> Jobs \cup {NoJob}]
    /\ turnAcc \in [Threads -> BOOLEAN]

TickOK ==
    /\ pc \in SchedulerPc
    /\ pass \in {1, 2}
    /\ todo \subseteq Threads
    /\ cells \subseteq Cells
    /\ existing \subseteq Threads
    /\ cur \in Jobs \cup {NoJob}
    /\ accepted \in BOOLEAN
    /\ events \in Seq(EngineEvent)
    /\ reason \in {"none", "engine_failed", "engine_death", "engine_spawn",
                   "start_turn"}

SignalsOK ==
    /\ cancelling \subseteq Threads
    /\ cancels \subseteq Cells

EnginesOK ==
    /\ engine \in [Cells -> {"none", "up", "down"}]
    /\ work \in [Cells -> Seq(Task)]
    /\ busy \in [Cells -> BOOLEAN]
    /\ outbox \in [Cells -> Seq(EngineEvent)]
    /\ ran \in [Jobs -> 0..2]

(* Every variable has its type: the tables hold only states of the two     *)
(* enumerations, and the scheduler's records name threads and jobs.        *)
TypeOK ==
    /\ StoreOK
    /\ InFlightOK
    /\ TickOK
    /\ SignalsOK
    /\ EnginesOK
    /\ faults \in FaultRecord

(* Head-of-line blocking: a cell never has two started jobs, whatever      *)
(* handlers, engines, leases and crashes do between job_lease_next and     *)
(* job_mark_started, which updates the row unconditionally.                *)
OneStartedPerCell ==
    \A j, k \in Jobs :
        jstate[j] = "started" /\ jstate[k] = "started" /\ JobCell(j) = JobCell(k)
        => j = k

(* One engine turn per cell: in_flight, keyed by thread, never holds two   *)
(* threads of the same cell, and a thread's turn is one of its own jobs.   *)
OneTurnPerCell ==
    /\ \A t, u \in InFlightThreads : CellOf[t] = CellOf[u] => t = u
    /\ \A t \in InFlightThreads : ThreadOf[turn[t]] = t

(* The job table as the ledger sees it: a lease is still waiting. *)
Phase(state) == IF state \in {"queued", "leased"} THEN "waiting" ELSE state

Ledger == INSTANCE JobLedger WITH
    Cell <- [j \in Jobs |-> JobCell(j)],
    phase <- [j \in Jobs |-> Phase(jstate[j])],
    accepted <- {j \in Jobs : acc[j]}

(* The fabric keeps the job ledger: every step of handlers, scheduler,     *)
(* engines, leases, crashes and boots is a step of the ledger or none.  No *)
(* requeue, late event, repeated fail_turn or cancel takes a finished job  *)
(* back or an accepted one to the queue, and none is started beside        *)
(* another, although job_mark_started, job_finish and job_cancel update    *)
(* the row whatever its state.                                             *)
KeepsLedger == Ledger!Spec

(* A finished job stays finished: no requeue, late event, repeated         *)
(* fail_turn or cancel takes it back, although job_mark_started,           *)
(* job_finish and job_cancel update the row whatever its state.            *)
FinishedIsFinal ==
    [][\A j \in Jobs : jstate[j] = "finished" => jstate'[j] = "finished"]_vars

(* The redelivery boundary: a job whose acceptance is recorded never goes  *)
(* back to the queue, by an expired lease, a failed turn, an engine's      *)
(* death, a timeout or a restart.                                          *)
AcceptedNeverRequeued ==
    [][\A j \in Jobs : acc[j] /\ jstate[j] # "queued" => jstate'[j] # "queued"]_vars

(* A cancel is never forgotten by the scheduler: while a cancelled job     *)
(* still has its turn in flight, the handler has yet to signal or the      *)
(* signal is yet to be drained, wherever in its tick the scheduler was     *)
(* when the handler cancelled the job.  (A handler whose audit append fails *)
(* returns before the signal: from then on the claim is not made.)         *)
CancelReachesEngine ==
    Without({"auditfail"}) => \A t \in InFlightThreads :
        jstate[turn[t]] = "cancelled" => t \in cancelling \/ CellOf[t] \in cancels

(* Between ticks the three records of a turn agree: a thread is running    *)
(* iff it is in in_flight, in_flight names a started job, and no job is    *)
(* started without a turn.  A failed, dead or timed out turn leaves no     *)
(* trace that would occupy the cell.  (A cancel, a crash, a slow section    *)
(* and a failed audit append each leave the records apart.)                *)
TurnCoherence ==
    pc = "begin" /\ Without({"cancel", "crash", "slow", "auditfail"}) =>
        /\ \A t \in Threads : tstate[t] = "running" <=> turn[t] # NoJob
        /\ \A t \in InFlightThreads : jstate[turn[t]] = "started"
        /\ \A j \in Jobs : jstate[j] = "started" => turn[ThreadOf[j]] = j

(* A thread in spawning, which makes its cell answer E_CELL_BUSY, has a    *)
(* job that will take it out of spawning: spawn_idempotent commits thread  *)
(* and job together and the job stays active until the thread ran.  (A      *)
(* cancel takes the job and leaves the thread.)                            *)
SpawningHasWork ==
    Without({"cancel"}) => \A t \in Threads : tstate[t] = "spawning" /\ pc # "boot" =>
        \E j \in Jobs : ThreadOf[j] = t /\ jstate[j] \in ActiveJob

(* FIFO: when a job of a cell is started, every job enqueued before it is  *)
(* over, requeued jobs included.  (A cancel, a crash, a slow section or a   *)
(* failed audit append can leave an older job behind in "leased".)         *)
FifoStart ==
    Without({"cancel", "crash", "slow", "auditfail"}) => \A c \in Cells : \A i \in DOMAIN rows[c] : \A h \in 1..(i - 1) :
        jstate[rows[c][i]] = "started" => jstate[rows[c][h]] \notin ActiveJob

(* An agentic turn is never run twice: whatever happens between the        *)
(* engine's acceptance and the scheduler's record of it, no engine accepts *)
(* the same job a second time.  (A codex call given up after turn/start    *)
(* was written requeues a job the engine has: from then on the claim is    *)
(* not made.)                                                              *)
NoDoubleTurn == Without({"lostack"}) => \A j \in Jobs : ran[j] <= 1

(* Events carry no turn id the scheduler compares: drain_turn attributes   *)
(* what it polls to the thread it drains.  Every event is about that       *)
(* thread's own turn, as long as no turn was given up while its engine     *)
(* lives on (a turn's timeout, or a codex call given up after turn/start). *)
EventsAttributed ==
    pc = "event" /\ Without({"timeout", "lostack"}) =>
        \A i \in DOMAIN events : events[i].job = cur

(* Every enqueued job is eventually finished: the queue of a cell drains,  *)
(* through failed, refused and unstartable turns.                          *)
JobsFinish == \A j \in Jobs : jstate[j] = "queued" ~> jstate[j] = "finished"

(* The queue is served: a queued job is eventually leased, whatever became *)
(* of the turn before it (boot_recovery after a crash) or of the turns of  *)
(* other cells (an error ends the tick, not the scheduler).                *)
QueueServed == \A j \in Jobs : jstate[j] = "queued" ~> jstate[j] # "queued"

(* A cancelled job stays cancelled. *)
CancelledIsFinal ==
    [][\A j \in Jobs : jstate[j] = "cancelled" => jstate'[j] = "cancelled"]_vars
=============================================================================
