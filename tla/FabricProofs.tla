---------------------------- MODULE FabricProofs ----------------------------
(***************************************************************************)
(* Proofs about Fabric, for any sets of cells, threads and jobs, any queue *)
(* cap and any number of disturbances of every kind.                       *)
(***************************************************************************)
EXTENDS Fabric, TLAPS

-----------------------------------------------------------------------------
(***************************************************************************)
(* The inductive invariant.                                                *)
(***************************************************************************)

(* Where the scheduler works on one job, and where it is starting one. *)
Working == {"event", "finishing", "timedout", "failed",
            "leased", "checked", "marking", "launch"}
Starting == {"leased", "checked", "marking", "launch"}

(* The scheduler's current job is a row of the table, and its thread is no *)
(* longer among those to visit.                                            *)
CurInv ==
    /\ pc \in Working => cur \in Jobs
    /\ cur \in Jobs => jstate[cur] # "none" /\ ThreadOf[cur] \notin todo

(* A turn is one of its thread's own jobs. *)
TurnInv ==
    \A t \in Threads : turn[t] # NoJob =>
        turn[t] \in Jobs /\ ThreadOf[turn[t]] = t /\ jstate[turn[t]] # "none"

(* The threads to visit are in flight, and step 5 has none to visit. *)
TodoInv ==
    /\ \A t \in todo : turn[t] # NoJob
    /\ pc = "start" => todo = {}

(* From lease to launch the cell has no turn, and until job_mark_started   *)
(* it has no started job and the leased one can only have been cancelled.  *)
StartInv ==
    /\ pc \in Starting =>
          \A t \in Threads : CellOf[t] = CellOf[ThreadOf[cur]] => turn[t] = NoJob
    /\ pc \in {"leased", "checked"} =>
          /\ jstate[cur] \in {"leased", "cancelled"}
          /\ \A k \in Jobs : CellOf[ThreadOf[k]] = CellOf[ThreadOf[cur]]
                             => jstate[k] # "started"

(* Only rows of the table carry an acceptance. *)
AccInv == \A j \in Jobs : jstate[j] = "none" => ~acc[j]

IInv == /\ TypeOK /\ CurInv /\ TurnInv /\ TodoInv /\ StartInv /\ AccInv
        /\ OneStartedPerCell /\ OneTurnPerCell

-----------------------------------------------------------------------------
(***************************************************************************)
(* What the building blocks of the actions do to the types.                *)
(***************************************************************************)

(* A disturbance that happens leaves a number of them. *)
LEMMA DisturbType ==
  ASSUME TypeOK, NEW kinds, Disturb(kinds) PROVE faults' \in FaultRecord
  BY DEF TypeOK, Disturb, FaultRecord

LEMMA FaultType == ASSUME TypeOK, NEW kind, Fault(kind) PROVE faults' \in FaultRecord
  BY DisturbType DEF Fault

(* Going to a loop of the tick keeps the scheduler's locals typed. *)
LEMMA GotoType ==
  ASSUME NEW place \in SchedulerPc, NEW n \in {1, 2}, NEW threads \in SUBSET Threads,
         NEW names \in SUBSET Cells, NEW old \in SUBSET Threads,
         Goto(place, n, threads, names, old)
  PROVE  TickOK'
<1>1. <<>> \in Seq(EngineEvent)
  OBVIOUS
<1> QED
  BY <1>1 DEF Goto, TickOK, SchedulerPc

(* The end of a tick, by `?` too. *)
LEMMA EndTickType == ASSUME EndTick PROVE TickOK'
  BY GotoType DEF EndTick, SchedulerPc

(* The rest of step 5, and step 6. *)
LEMMA AfterStartType ==
  ASSUME TypeOK, NEW flight \in SUBSET Threads, NEW names \in SUBSET Cells,
         AfterStart(flight, names)
  PROVE  TickOK'
<1>1. CASE names # {}
  BY <1>1, GotoType DEF AfterStart, TypeOK, TickOK, SchedulerPc
<1>2. CASE names = {} /\ flight \ existing # {}
  BY <1>2, GotoType DEF AfterStart, SchedulerPc
<1>3. CASE names = {} /\ flight \ existing = {}
  BY <1>3, EndTickType DEF AfterStart
<1> QED
  BY <1>1, <1>2, <1>3

(* The rest of step 4. *)
LEMMA AfterDeathType ==
  ASSUME TypeOK, NEW threads \in SUBSET Threads, AfterDeath(threads)
  PROVE  TickOK'
<1>1. CASE threads # {}
  BY <1>1, GotoType DEF AfterDeath, TypeOK, TickOK, SchedulerPc
<1>2. CASE threads = {}
  BY <1>2, GotoType DEF AfterDeath, TypeOK, TickOK, SchedulerPc
<1> QED
  BY <1>1, <1>2

(* The rest of steps 3 and 6. *)
LEMMA AfterDrainType ==
  ASSUME TypeOK, NEW flight \in SUBSET Threads, NEW threads \in SUBSET Threads,
         AfterDrain(flight, threads)
  PROVE  TickOK'
<1>1. CASE threads # {}
  BY <1>1, GotoType DEF AfterDrain, TypeOK, TickOK, SchedulerPc
<1>2. CASE threads = {} /\ pass = 2
  BY <1>2, EndTickType DEF AfterDrain
<1>3. CASE threads = {} /\ pass # 2
  BY <1>3, AfterDeathType DEF AfterDrain
<1> QED
  BY <1>1, <1>2, <1>3

(* EngineSupervisor::stop. *)
LEMMA StopType == ASSUME TypeOK, NEW S, StopEngines(S) PROVE EnginesOK'
<1>1. <<>> \in Seq(Jobs) /\ <<>> \in Seq(EngineEvent)
  OBVIOUS
<1> QED
  BY <1>1 DEF TypeOK, EnginesOK, StopEngines

(* in_flight.remove. *)
LEMMA DropType == ASSUME TypeOK, NEW S, DropTurns(S) PROVE InFlightOK'
  BY DEF TypeOK, InFlightOK, DropTurns

(* job_enqueue_inner. *)
LEMMA EnqueueType ==
  ASSUME TypeOK, NEW j \in Jobs, Enqueue(j)
  PROVE  /\ jstate' \in [Jobs -> JobState \cup {"none"}]
         /\ rows' \in [Cells -> Seq(Jobs)]
<1>1. JobCell(j) \in Cells
  BY FabricAssumption DEF JobCell
<1>2. Append(rows[JobCell(j)], j) \in Seq(Jobs)
  BY <1>1 DEF TypeOK, StoreOK
<1> QED
  BY <1>2 DEF Enqueue, TypeOK, StoreOK, JobState

(* job_finish and job_requeue. *)
LEMMA FinishType ==
  ASSUME TypeOK, NEW j, FinishJob(j) \/ RequeueJob(j),
         UNCHANGED <<rows, acc>>, tstate' \in [Threads -> ThreadState \cup {"none"}]
  PROVE  StoreOK'
<1>1. CASE FinishJob(j)
  BY <1>1 DEF TypeOK, StoreOK, FinishJob, JobState
<1>2. CASE RequeueJob(j)
  BY <1>2 DEF TypeOK, StoreOK, RequeueJob, JobState
<1> QED
  BY <1>1, <1>2

(* A thread transition. *)
LEMMA ThreadType ==
  ASSUME TypeOK, NEW t, NEW to \in ThreadState, tstate' = [tstate EXCEPT ![t] = to],
         UNCHANGED <<jstate, rows, acc, lease>>
  PROVE  StoreOK'
  BY DEF TypeOK, StoreOK

(* fail_turn, first statement. *)
LEMMA FailTurnType ==
  ASSUME TypeOK, NEW j \in Jobs, NEW isAccepted \in BOOLEAN,
         NEW why \in {"engine_failed", "engine_death", "engine_spawn", "start_turn"},
         FailTurn(j, isAccepted, why), todo' \in SUBSET Threads,
         UNCHANGED <<tstate, rows, acc, pass, cells, existing, events>>
  PROVE  StoreOK' /\ TickOK'
<1>1. StoreOK'
  BY FinishType DEF FailTurn, TypeOK, StoreOK
<1>2. TickOK'
  BY DEF FailTurn, TypeOK, TickOK, SchedulerPc
<1> QED
  BY <1>1, <1>2

(* An engine writes an event about the turn at the head of its work. *)
LEMMA EmitType ==
  ASSUME TypeOK, NEW c \in Cells, NEW kind \in {"accepted", "final", "failed"},
         work[c] # <<>>, Emit(c, kind)
  PROVE  /\ Head(work[c]).job \in Jobs
         /\ outbox' \in [Cells -> Seq(EngineEvent)]
<1>1. work[c] \in Seq(Task) /\ outbox[c] \in Seq(EngineEvent)
  BY DEF TypeOK, EnginesOK
<1>2. Head(work[c]).job \in Jobs
  <2>1. Head(work[c]) \in Task BY <1>1
  <2> QED BY <2>1 DEF Task
<1>3. [kind |-> kind, job |-> Head(work[c]).job] \in EngineEvent
  BY <1>2 DEF EngineEvent
<1>4. Append(outbox[c], [kind |-> kind, job |-> Head(work[c]).job]) \in Seq(EngineEvent)
  BY <1>1, <1>3
<1> QED
  BY <1>2, <1>4 DEF Emit, TypeOK, EnginesOK

(* ... if anybody reads it. *)
LEMMA AnswerType ==
  ASSUME TypeOK, NEW c \in Cells, NEW kind \in {"accepted", "final", "failed"},
         work[c] # <<>>, EmitAnswer(c, kind)
  PROVE  /\ Head(work[c]).job \in Jobs
         /\ outbox' \in [Cells -> Seq(EngineEvent)]
<1>1. CASE Head(work[c]).heard BY <1>1, EmitType DEF EmitAnswer
<1>2. CASE ~Head(work[c]).heard
  <2>1. Head(work[c]) \in Task BY DEF TypeOK, EnginesOK
  <2> QED BY <1>2, <2>1 DEF EmitAnswer, Task, TypeOK, EnginesOK
<1> QED BY <1>1, <1>2

(* The history of acceptances saturates. *)
LEMMA RanType ==
  ASSUME TypeOK, NEW j \in Jobs,
         ran' = [ran EXCEPT ![j] = IF @ = 2 THEN 2 ELSE @ + 1]
  PROVE  ran' \in [Jobs -> 0..2]
<1> DEFINE next == IF ran[j] = 2 THEN 2 ELSE ran[j] + 1
<1>1. ran[j] \in 0..2
  BY DEF TypeOK, EnginesOK
<1>2. next \in 0..2
  BY <1>1
<1>3. ran' = [ran EXCEPT ![j] = next]
  OBVIOUS
<1> HIDE DEF next
<1> QED
  BY <1>2, <1>3 DEF TypeOK, EnginesOK

(* ... and ends it. *)
LEMMA EndTurnType ==
  ASSUME TypeOK, NEW c \in Cells, NEW kind \in {"final", "failed"},
         work[c] # <<>>, EndTurn(c), Emit(c, kind) \/ EmitAnswer(c, kind)
  PROVE  EnginesOK'
<1>1. outbox' \in [Cells -> Seq(EngineEvent)]
  BY EmitType, AnswerType
<1>2. Tail(work[c]) \in Seq(Task)
  BY DEF TypeOK, EnginesOK
<1> QED
  BY <1>1, <1>2 DEF EndTurn, TypeOK, EnginesOK

(* What a step leaves alone keeps its type. *)
LEMMA Kept ==
  ASSUME TypeOK
  PROVE  /\ UNCHANGED store => StoreOK'
         /\ UNCHANGED inflight => InFlightOK'
         /\ UNCHANGED <<pc, locals>> => TickOK'
         /\ UNCHANGED signals => SignalsOK'
         /\ UNCHANGED engines => EnginesOK'
         /\ UNCHANGED faults => faults' \in FaultRecord
  BY DEF TypeOK, StoreOK, InFlightOK, TickOK, SignalsOK, EnginesOK,
         store, inflight, locals, signals, engines

-----------------------------------------------------------------------------
(***************************************************************************)
(* Every step keeps the types.                                             *)
(***************************************************************************)

(* The request handlers. *)
LEMMA HandlerTypes == ASSUME IInv, Handlers PROVE TypeOK'
<1> USE Kept, FaultType DEF IInv
<1>1. ASSUME NEW j \in Jobs, Spawn(j) PROVE TypeOK'
  <2>1. StoreOK'
    BY <1>1, EnqueueType DEF Spawn, TypeOK, StoreOK, ThreadState
  <2> QED
    BY <1>1, <2>1 DEF Spawn, TypeOK
<1>2. ASSUME NEW j \in Jobs, SendTask(j) PROVE TypeOK'
  <2>1. StoreOK'
    BY <1>2, EnqueueType DEF SendTask, TypeOK, StoreOK
  <2> QED
    BY <1>2, <2>1 DEF SendTask, TypeOK
<1>3. ASSUME NEW t \in Threads, CancelStore(t) PROVE TypeOK'
  <2>1. StoreOK'
    BY <1>3 DEF CancelStore, TypeOK, StoreOK, ThreadState, JobState
  <2>2. SignalsOK'
    BY <1>3 DEF CancelStore, TypeOK, SignalsOK
  <2> QED
    BY <1>3, <2>1, <2>2 DEF CancelStore, TypeOK
<1>4. ASSUME NEW t \in Threads, CancelSignal(t) PROVE TypeOK'
  <2>1. SignalsOK'
    BY <1>4, FabricAssumption DEF CancelSignal, TypeOK, SignalsOK
  <2> QED
    BY <1>4, <2>1 DEF CancelSignal, TypeOK
<1>5. ASSUME NEW t \in Threads, CancelAuditFails(t) PROVE TypeOK'
  <2>1. SignalsOK'
    BY <1>5 DEF CancelAuditFails, TypeOK, SignalsOK
  <2> QED
    BY <1>5, <2>1 DEF CancelAuditFails, TypeOK
<1> QED
  BY <1>1, <1>2, <1>3, <1>4, <1>5 DEF Handlers

(* Steps 1 to 3 and 6 of the tick. *)
LEMMA DrainTypes == ASSUME IInv, DrainSteps PROVE TypeOK'
<1> USE Kept, FaultType DEF IInv
<1>1. CASE BeginTick
  <2>1. StoreOK'
    BY <1>1 DEF BeginTick, TypeOK, StoreOK, JobState
  <2>2. InFlightOK'
    BY <1>1, DropType DEF BeginTick
  <2>3. TickOK'
    BY <1>1, GotoType DEF BeginTick, InFlightThreads, SchedulerPc
  <2>4. EnginesOK'
    BY <1>1, StopType DEF BeginTick
  <2>5. SignalsOK'
    BY <1>1 DEF BeginTick, TypeOK, SignalsOK
  <2> QED
    BY <1>1, <2>1, <2>2, <2>3, <2>4, <2>5 DEF BeginTick, TypeOK
<1>2. ASSUME NEW t \in Threads, Poll(t) PROVE TypeOK'
  <2>1. TickOK'
    BY <1>2, FabricAssumption DEF Poll, TypeOK, TickOK, InFlightOK, EnginesOK,
       SchedulerPc
  <2>2. EnginesOK'
    BY <1>2, FabricAssumption DEF Poll, TypeOK, EnginesOK
  <2> QED
    BY <1>2, <2>1, <2>2 DEF Poll, TypeOK
<1>3. CASE EventsDone
  BY <1>3, AfterDrainType DEF EventsDone, InFlightThreads, TypeOK, TickOK
<1>4. CASE OnAccepted
  <2>1. StoreOK'
    BY <1>4 DEF OnAccepted, TypeOK, StoreOK
  <2>2. InFlightOK'
    BY <1>4 DEF OnAccepted, TypeOK, InFlightOK
  <2>3. TickOK'
    BY <1>4 DEF OnAccepted, TypeOK, TickOK
  <2> QED
    BY <1>4, <2>1, <2>2, <2>3 DEF OnAccepted, TypeOK
<1>5. CASE OnFinal
  <2>1. StoreOK'
    BY <1>5, FinishType DEF OnFinal, TypeOK, StoreOK
  <2>2. TickOK'
    BY <1>5 DEF OnFinal, TypeOK, TickOK, SchedulerPc, locals
  <2> QED
    BY <1>5, <2>1, <2>2 DEF OnFinal, TypeOK
<1>6. CASE FinalIdle
  <2>1. StoreOK'
    BY <1>6, ThreadType DEF FinalIdle, ThreadState, store
  <2>2. InFlightOK'
    BY <1>6, DropType DEF FinalIdle
  <2>3. TickOK'
    BY <1>6, EndTickType, AfterDrainType DEF FinalIdle, InFlightThreads, TypeOK,
       TickOK
  <2>4. faults' \in FaultRecord
    BY <1>6 DEF FinalIdle
  <2> QED
    BY <1>6, <2>1, <2>2, <2>3, <2>4 DEF FinalIdle, TypeOK
<1>7. CASE OnFailed
  <2>1. cur \in Jobs /\ turnAcc[CurThread] \in BOOLEAN
    BY <1>7, FabricAssumption DEF OnFailed, CurInv, Working, CurThread, TypeOK,
       InFlightOK
  <2>2. StoreOK' /\ TickOK'
    BY <1>7, <2>1, FailTurnType DEF OnFailed, TypeOK, TickOK
  <2> QED
    BY <1>7, <2>1, <2>2 DEF OnFailed, TypeOK
<1>8. CASE FailThread
  <2>1. StoreOK'
    BY <1>8, ThreadType DEF FailThread, ThreadState, store
  <2>2. InFlightOK'
    BY <1>8, DropType DEF FailThread
  <2>3. TickOK'
    BY <1>8, EndTickType, AfterDrainType, AfterDeathType, AfterStartType
       DEF FailThread, InFlightThreads, TypeOK, TickOK
  <2>4. EnginesOK'
    BY <1>8, StopType DEF FailThread
  <2>5. faults' \in FaultRecord
    BY <1>8 DEF FailThread
  <2> QED
    BY <1>8, <2>1, <2>2, <2>3, <2>4, <2>5 DEF FailThread, TypeOK
<1> QED
  BY <1>1, <1>2, <1>3, <1>4, <1>5, <1>6, <1>7, <1>8 DEF DrainSteps

(* Step 4. *)
LEMMA DeathTypes == ASSUME IInv, DeathSteps PROVE TypeOK'
<1> USE Kept, FaultType DEF IInv
<1>1. ASSUME NEW t \in Threads, EngineDeath(t) PROVE TypeOK'
  <2>1. turn[t] \in Jobs /\ turnAcc[t] \in BOOLEAN
    BY <1>1 DEF EngineDeath, TodoInv, TypeOK, InFlightOK
  <2>2. StoreOK' /\ TickOK'
    BY <1>1, <2>1, FailTurnType DEF EngineDeath, TypeOK, TickOK
  <2> QED
    BY <1>1, <2>1, <2>2 DEF EngineDeath, TypeOK
<1>2. ASSUME NEW t \in Threads, TurnTimeout(t) PROVE TypeOK'
  <2>1. StoreOK'
    BY <1>2, ThreadType DEF TurnTimeout, ThreadState, store
  <2>2. InFlightOK'
    BY <1>2, DropType DEF TurnTimeout
  <2>3. TickOK'
    BY <1>2, EndTickType DEF TurnTimeout, TypeOK, TickOK, InFlightOK, SchedulerPc
  <2> QED
    BY <1>2, <2>1, <2>2, <2>3 DEF TurnTimeout, TypeOK
<1>3. ASSUME NEW t \in Threads, TurnHealthy(t) PROVE TypeOK'
  BY <1>3, AfterDeathType DEF TurnHealthy, TypeOK, TickOK
<1>4. CASE TimeoutJob
  <2>1. StoreOK'
    BY <1>4, FinishType DEF TimeoutJob, TypeOK, StoreOK
  <2>2. TickOK'
    BY <1>4, EndTickType, AfterDeathType DEF TimeoutJob, TypeOK, TickOK
  <2>3. faults' \in FaultRecord
    BY <1>4 DEF TimeoutJob
  <2> QED
    BY <1>4, <2>1, <2>2, <2>3 DEF TimeoutJob, TypeOK
<1> QED
  BY <1>1, <1>2, <1>3, <1>4 DEF DeathSteps

(* Step 5. *)
LEMMA StartTypes == ASSUME IInv, StartSteps PROVE TypeOK'
<1> USE Kept, FaultType DEF IInv
<1>1. ASSUME NEW c \in Cells, SkipCell(c) PROVE TypeOK'
  <2>1. TickOK'
    BY <1>1, AfterStartType DEF SkipCell, InFlightThreads, TypeOK, TickOK
  <2> QED
    BY <1>1, <2>1 DEF SkipCell, TypeOK
<1>2. ASSUME NEW c \in Cells, NEW j \in Jobs, Lease(c, j) PROVE TypeOK'
  <2>1. StoreOK'
    BY <1>2 DEF Lease, TypeOK, StoreOK, JobState
  <2>2. TickOK'
    BY <1>2 DEF Lease, TypeOK, TickOK, SchedulerPc
  <2> QED
    BY <1>2, <2>1, <2>2 DEF Lease, TypeOK
<1>3. CASE CheckThread
  <2>1. TickOK'
    BY <1>3, AfterStartType DEF CheckThread, InFlightThreads, TypeOK, TickOK,
       SchedulerPc, locals
  <2> QED
    BY <1>3, <2>1 DEF CheckThread, TypeOK
<1>4. CASE MarkStarted
  <2>1. StoreOK'
    BY <1>4 DEF MarkStarted, TypeOK, StoreOK, JobState
  <2>2. TickOK'
    BY <1>4 DEF MarkStarted, TypeOK, TickOK, SchedulerPc, locals
  <2> QED
    BY <1>4, <2>1, <2>2 DEF MarkStarted, TypeOK
<1>5. CASE RunThread
  <2>1. StoreOK'
    BY <1>5, ThreadType DEF RunThread, ThreadState, store
  <2>2. TickOK'
    BY <1>5, EndTickType DEF RunThread, TypeOK, TickOK, SchedulerPc, locals
  <2> QED
    BY <1>5, <2>1, <2>2 DEF RunThread, TypeOK
<1>6. CASE Launch
  <2>1. cur \in Jobs /\ CurThread \in Threads /\ CurCell \in Cells
    BY <1>6, FabricAssumption DEF Launch, CurInv, Working, CurThread, CurCell, JobCell
  <2>2. InFlightOK'
    BY <1>6, <2>1 DEF Launch, TypeOK, InFlightOK
  <2>3. TickOK'
    BY <1>6, <2>1, AfterStartType DEF Launch, InFlightThreads, TypeOK, TickOK
  <2>4. Append(work[CurCell], Heard(cur)) \in Seq(Task)
    <3>1. Heard(cur) \in Task BY <2>1 DEF Heard, Task
    <3> QED BY <2>1, <3>1 DEF TypeOK, EnginesOK
  <2>5. EnginesOK'
    BY <1>6, <2>4 DEF Launch, TypeOK, EnginesOK
  <2> QED
    BY <1>6, <2>1, <2>2, <2>3, <2>4, <2>5 DEF Launch, TypeOK
<1>7. CASE LaunchAuditFails
  BY <1>7, EndTickType DEF LaunchAuditFails, TypeOK
<1>8. CASE SpawnFails
  <2>1. cur \in Jobs
    BY <1>8 DEF SpawnFails, CurInv, Working
  <2>2. StoreOK' /\ TickOK'
    BY <1>8, <2>1, FailTurnType DEF SpawnFails, TypeOK, TickOK
  <2> QED
    BY <1>8, <2>1, <2>2 DEF SpawnFails, TypeOK
<1>9. CASE StartFails
  <2>1. cur \in Jobs
    BY <1>9 DEF StartFails, CurInv, Working
  <2>2. StoreOK' /\ TickOK'
    BY <1>9, <2>1, FailTurnType DEF StartFails, TypeOK, TickOK
  <2>3. EnginesOK'
    <3>1. CASE UNCHANGED work
      BY <1>9, <3>1 DEF StartFails, TypeOK, EnginesOK
    <3>2. CASE StartUnheard
      <4>1. Unheard(cur) \in Task BY <2>1 DEF Unheard, Task
      <4>2. CurCell \in Cells BY <2>1, FabricAssumption DEF CurCell, JobCell
      <4>3. Append(work[CurCell], Unheard(cur)) \in Seq(Task)
        BY <4>1, <4>2 DEF TypeOK, EnginesOK
      <4>4. work' \in [Cells -> Seq(Task)]
        BY <3>2, <4>3 DEF StartUnheard, TypeOK, EnginesOK
      <4> QED BY <1>9, <4>4 DEF StartFails, TypeOK, EnginesOK
    <3> QED BY <1>9, <3>1, <3>2 DEF StartFails
  <2>4. faults' \in FaultRecord
    BY <1>9 DEF StartFails, StartUnheard
  <2> QED
    BY <1>9, <2>1, <2>2, <2>3, <2>4 DEF StartFails, TypeOK
<1> QED
  BY <1>1, <1>2, <1>3, <1>4, <1>5, <1>6, <1>7, <1>8, <1>9 DEF StartSteps

(* The engine processes. *)
LEMMA EngineTypes == ASSUME IInv, Engines PROVE TypeOK'
<1> USE Kept, FaultType DEF IInv
<1>1. ASSUME NEW c \in Cells, EngineAccept(c) PROVE TypeOK'
  <2>1. Head(work[c]).job \in Jobs /\ outbox' \in [Cells -> Seq(EngineEvent)]
    BY <1>1, AnswerType DEF EngineAccept
  <2>2. ran' \in [Jobs -> 0..2]
    BY <1>1, <2>1, RanType DEF EngineAccept
  <2>3. busy' \in [Cells -> BOOLEAN]
    BY <1>1 DEF EngineAccept, TypeOK, EnginesOK
  <2>4. EnginesOK'
    BY <1>1, <2>1, <2>2, <2>3 DEF EngineAccept, TypeOK, EnginesOK
  <2> QED
    BY <1>1, <2>1, <2>2, <2>3, <2>4 DEF EngineAccept, TypeOK
<1>2. ASSUME NEW c \in Cells, EngineFinal(c) PROVE TypeOK'
  BY <1>2, EndTurnType DEF EngineFinal, TypeOK
<1>3. ASSUME NEW c \in Cells, EngineFails(c) PROVE TypeOK'
  BY <1>3, EndTurnType DEF EngineFails, TypeOK
<1>4. ASSUME NEW c \in Cells, EngineRejects(c) PROVE TypeOK'
  BY <1>4, EndTurnType DEF EngineRejects, TypeOK
<1>5. ASSUME NEW c \in Cells, EngineDies(c) PROVE TypeOK'
  <2>1. <<>> \in Seq(Task)
    BY <1>5
  <2>2. EnginesOK'
    BY <1>5, <2>1 DEF EngineDies, TypeOK, EnginesOK
  <2> QED
    BY <1>5, <2>1, <2>2 DEF EngineDies, TypeOK
<1> QED
  BY <1>1, <1>2, <1>3, <1>4, <1>5 DEF Engines

(* The daemon is killed: everything but the tables starts afresh. *)
LEMMA KilledType ==
  ASSUME TypeOK, Killed PROVE InFlightOK' /\ TickOK' /\ SignalsOK' /\ EnginesOK'
<1>1. InFlightOK'
  BY DropType DEF Killed, TypeOK
<1>2. TickOK'
  BY GotoType DEF Killed, SchedulerPc
<1>3. SignalsOK'
  BY DEF Killed, SignalsOK
<1>4. EnginesOK'
  BY StopType DEF Killed, TypeOK
<1> QED
  BY <1>1, <1>2, <1>3, <1>4

(* Time, crash and restart. *)
LEMMA TimeTypes == ASSUME IInv, TimeSteps PROVE TypeOK'
<1> USE Kept, FaultType DEF IInv
<1>1. ASSUME NEW j \in Jobs, LeaseExpires(j) PROVE TypeOK'
  <2>1. StoreOK'
    BY <1>1 DEF LeaseExpires, TypeOK, StoreOK
  <2>2. faults' \in FaultRecord
    BY <1>1 DEF LeaseExpires
  <2> QED
    BY <1>1, <2>1, <2>2 DEF LeaseExpires, TypeOK
<1>2. CASE Crash
  BY <1>2, KilledType DEF Crash, TypeOK
<1>3. ASSUME NEW t \in Threads, CancelTorn(t) PROVE TypeOK'
  <2>1. StoreOK'
    BY <1>3 DEF CancelTorn, TypeOK, StoreOK, JobState
  <2> QED
    BY <1>3, <2>1, KilledType, DisturbType DEF CancelTorn, TypeOK
<1>4. CASE Boot
  <2>1. StoreOK'
    BY <1>4 DEF Boot, TypeOK, StoreOK, ThreadState
  <2>2. TickOK'
    BY <1>4 DEF Boot, TypeOK, TickOK, SchedulerPc, locals
  <2> QED
    BY <1>4, <2>1, <2>2 DEF Boot, TypeOK
<1> QED
  BY <1>1, <1>2, <1>3, <1>4 DEF TimeSteps

(* Every step of the specification keeps every type. *)
LEMMA TypeStep == ASSUME IInv, [Next]_vars PROVE TypeOK'
<1>1. CASE UNCHANGED vars
  BY <1>1, Kept DEF IInv, TypeOK, vars
<1> QED
  BY <1>1, HandlerTypes, DrainTypes, DeathTypes, StartTypes, EngineTypes, TimeTypes
     DEF Next, Tick

-----------------------------------------------------------------------------
(***************************************************************************)
(* What a step can do to a job, to a turn and to an acceptance.            *)
(***************************************************************************)

(* A row is never deleted, a finished job stays finished, an accepted one  *)
(* is not queued again.                                                    *)
JobMoves ==
    \A j \in Jobs :
        /\ jstate[j] # "none" => jstate'[j] # "none"
        /\ jstate[j] = "finished" => jstate'[j] = "finished"
        /\ acc[j] /\ jstate[j] # "queued" => jstate'[j] # "queued"

NoneStarted == \A j \in Jobs : jstate'[j] = "started" => jstate[j] = "started"

NoTurnAdded == \A t \in Threads : turn'[t] \in {turn[t], NoJob}

(* Only job_mark_started starts a job, only a launch adds a turn, only     *)
(* EngineEvent::Accepted records an acceptance.                            *)
Moves ==
    /\ JobMoves
    /\ NoneStarted \/ MarkStarted
    /\ NoTurnAdded \/ Launch
    /\ UNCHANGED acc \/ OnAccepted

(* What leaves table and in_flight alone. *)
LEMMA StillMoves ==
  ASSUME IInv, UNCHANGED <<jstate, acc>>, UNCHANGED turn PROVE Moves
  BY DEF IInv, TypeOK, InFlightOK, Moves, JobMoves, NoneStarted, NoTurnAdded

(* in_flight.remove. *)
LEMMA DropMoves == ASSUME NEW S, DropTurns(S) PROVE NoTurnAdded
  BY DEF DropTurns, NoTurnAdded

(* job_finish and job_requeue. *)
LEMMA FinishMoves ==
  ASSUME IInv, NEW j, FinishJob(j) \/ RequeueJob(j) PROVE JobMoves /\ NoneStarted
<1>1. CASE FinishJob(j)
  BY <1>1 DEF FinishJob, IInv, TypeOK, StoreOK, JobMoves, NoneStarted
<1>2. CASE RequeueJob(j)
  BY <1>2 DEF RequeueJob, IInv, TypeOK, StoreOK, JobMoves, NoneStarted
<1> QED
  BY <1>1, <1>2

(* Every step makes only such moves. *)
LEMMA MovesStep == ASSUME IInv, [Next]_vars PROVE Moves
<1>1. ASSUME NEW j \in Jobs, Spawn(j) PROVE Moves
  BY <1>1 DEF Spawn, Enqueue, IInv, TypeOK, StoreOK, InFlightOK, AccInv, inflight,
     Moves, JobMoves, NoneStarted, NoTurnAdded
<1>2. ASSUME NEW j \in Jobs, SendTask(j) PROVE Moves
  BY <1>2 DEF SendTask, Enqueue, IInv, TypeOK, StoreOK, InFlightOK, AccInv, inflight,
     Moves, JobMoves, NoneStarted, NoTurnAdded
<1>3. ASSUME NEW t \in Threads, CancelStore(t) PROVE Moves
  BY <1>3 DEF CancelStore, ActiveJob, IInv, TypeOK, StoreOK, InFlightOK, inflight,
     Moves, JobMoves, NoneStarted, NoTurnAdded
<1>4. ASSUME NEW t \in Threads, CancelSignal(t) PROVE Moves
  BY <1>4, StillMoves DEF CancelSignal, store, inflight
<1>5. ASSUME NEW t \in Threads, CancelAuditFails(t) PROVE Moves
  BY <1>5, StillMoves DEF CancelAuditFails, store, inflight
<1>6. CASE BeginTick
  BY <1>6, DropMoves DEF BeginTick, Lapsed, IInv, TypeOK, StoreOK, Moves, JobMoves,
     NoneStarted
<1>7. ASSUME NEW t \in Threads, Poll(t) PROVE Moves
  BY <1>7, StillMoves DEF Poll, store, inflight
<1>8. CASE EventsDone
  BY <1>8, StillMoves DEF EventsDone, store, inflight
<1>9. CASE OnAccepted
  BY <1>9 DEF OnAccepted, IInv, TypeOK, InFlightOK, Moves, JobMoves, NoneStarted,
     NoTurnAdded
<1>10. CASE OnFinal
  BY <1>10, FinishMoves DEF OnFinal, IInv, TypeOK, InFlightOK, inflight, Moves,
     NoTurnAdded
<1>11. CASE FinalIdle
  BY <1>11, DropMoves DEF FinalIdle, IInv, TypeOK, InFlightOK, inflight, Moves,
     JobMoves, NoneStarted, NoTurnAdded
<1>12. CASE OnFailed
  BY <1>12, FinishMoves DEF OnFailed, FailTurn, IInv, TypeOK, InFlightOK, inflight,
     Moves, NoTurnAdded
<1>13. CASE FailThread
  BY <1>13, DropMoves DEF FailThread, IInv, TypeOK, InFlightOK, inflight, Moves,
     JobMoves, NoneStarted, NoTurnAdded
<1>14. ASSUME NEW t \in Threads, EngineDeath(t) PROVE Moves
  BY <1>14, FinishMoves DEF EngineDeath, FailTurn, IInv, TypeOK, InFlightOK,
     inflight, Moves, NoTurnAdded
<1>15. ASSUME NEW t \in Threads, TurnTimeout(t) PROVE Moves
  BY <1>15, DropMoves DEF TurnTimeout, Moves, JobMoves, NoneStarted
<1>16. ASSUME NEW t \in Threads, TurnHealthy(t) PROVE Moves
  BY <1>16, StillMoves DEF TurnHealthy, store, inflight
<1>17. CASE TimeoutJob
  BY <1>17, FinishMoves DEF TimeoutJob, IInv, TypeOK, InFlightOK, inflight, Moves,
     NoTurnAdded
<1>18. ASSUME NEW c \in Cells, SkipCell(c) PROVE Moves
  BY <1>18, StillMoves DEF SkipCell, store, inflight
<1>19. ASSUME NEW c \in Cells, NEW j \in Jobs, Lease(c, j) PROVE Moves
  BY <1>19 DEF Lease, Leasable, IInv, TypeOK, StoreOK, InFlightOK, inflight, Moves,
     JobMoves, NoneStarted, NoTurnAdded
<1>20. CASE CheckThread
  BY <1>20, StillMoves DEF CheckThread, store, inflight
<1>21. CASE MarkStarted
  BY <1>21 DEF MarkStarted, StartInv, IInv, TypeOK, StoreOK, InFlightOK, inflight,
     Moves, JobMoves, NoneStarted, NoTurnAdded
<1>22. CASE RunThread
  BY <1>22, StillMoves DEF RunThread, store, inflight
<1>23. CASE Launch
  BY <1>23 DEF Launch, store, Moves, JobMoves, NoneStarted
<1>24. CASE LaunchAuditFails
  BY <1>24, StillMoves DEF LaunchAuditFails, store, inflight
<1>25. CASE SpawnFails
  BY <1>25, FinishMoves DEF SpawnFails, FailTurn, IInv, TypeOK, InFlightOK, inflight,
     Moves, NoTurnAdded
<1>26. CASE StartFails
  BY <1>26, FinishMoves DEF StartFails, FailTurn, IInv, TypeOK, InFlightOK, inflight,
     Moves, NoTurnAdded
<1>27. ASSUME NEW c \in Cells, EngineAccept(c) PROVE Moves
  BY <1>27, StillMoves DEF EngineAccept, store, inflight
<1>28. ASSUME NEW c \in Cells, EngineFinal(c) PROVE Moves
  BY <1>28, StillMoves DEF EngineFinal, store, inflight
<1>29. ASSUME NEW c \in Cells, EngineFails(c) PROVE Moves
  BY <1>29, StillMoves DEF EngineFails, store, inflight
<1>30. ASSUME NEW c \in Cells, EngineRejects(c) PROVE Moves
  BY <1>30, StillMoves DEF EngineRejects, store, inflight
<1>31. ASSUME NEW c \in Cells, EngineDies(c) PROVE Moves
  BY <1>31, StillMoves DEF EngineDies, store, inflight
<1>32. ASSUME NEW j \in Jobs, LeaseExpires(j) PROVE Moves
  BY <1>32, StillMoves DEF LeaseExpires, store, inflight
<1>33. CASE Crash
  BY <1>33, DropMoves DEF Crash, Killed, store, Moves, JobMoves, NoneStarted
<1>34. CASE Boot
  BY <1>34, StillMoves DEF Boot, store, inflight
<1>35. ASSUME NEW t \in Threads, CancelTorn(t) PROVE Moves
  BY <1>35, DropMoves DEF CancelTorn, Killed, ActiveJob, IInv, TypeOK, StoreOK, Moves,
     JobMoves, NoneStarted
<1>36. CASE UNCHANGED vars
  BY <1>36, StillMoves DEF vars, store, inflight
<1> QED
  BY <1>1, <1>2, <1>3, <1>4, <1>5, <1>6, <1>7, <1>8, <1>9, <1>10, <1>11, <1>12,
     <1>13, <1>14, <1>15, <1>16, <1>17, <1>18, <1>19, <1>20, <1>21, <1>22, <1>23,
     <1>24, <1>25, <1>26, <1>27, <1>28, <1>29, <1>30, <1>31, <1>32, <1>33, <1>34,
     <1>35, <1>36
     DEF Next, Tick, Handlers, Engines, TimeSteps, DrainSteps, DeathSteps, StartSteps

-----------------------------------------------------------------------------
(***************************************************************************)
(* The parts of the invariant that follow from the moves.                  *)
(***************************************************************************)

(* No step breaks the link between a turn and its thread's own job. *)
LEMMA TurnStep == ASSUME IInv, TypeOK', Moves PROVE TurnInv'
<1> USE DEF IInv, TypeOK, InFlightOK, TurnInv
<1>1. CASE NoTurnAdded
  BY <1>1 DEF Moves, JobMoves, NoTurnAdded
<1>2. CASE Launch
  BY <1>2, FabricAssumption DEF Launch, CurThread, CurInv, Working, store
<1> QED
  BY <1>1, <1>2 DEF Moves

(* No step accepts a job without a row. *)
LEMMA AccStep == ASSUME IInv, TypeOK', Moves PROVE AccInv'
<1> USE DEF IInv, TypeOK, StoreOK, AccInv
<1>1. CASE UNCHANGED acc
  BY <1>1 DEF Moves, JobMoves
<1>2. CASE OnAccepted
  BY <1>2 DEF OnAccepted, CurInv, Working
<1> QED
  BY <1>1, <1>2 DEF Moves

(* No step gives a cell a second started job. *)
LEMMA StartedStep == ASSUME IInv, TypeOK', Moves PROVE OneStartedPerCell'
<1>1. CASE NoneStarted
  BY <1>1 DEF IInv, OneStartedPerCell, NoneStarted
<1>2. CASE MarkStarted
  BY <1>2 DEF MarkStarted, IInv, TypeOK, StoreOK, StartInv, OneStartedPerCell, JobCell
<1> QED
  BY <1>1, <1>2 DEF Moves

(* No step gives a cell a second turn. *)
LEMMA OneTurnStep == ASSUME IInv, TypeOK', Moves, TurnInv' PROVE OneTurnPerCell'
<1> USE DEF OneTurnPerCell, InFlightThreads
<1>1. CASE NoTurnAdded
  BY <1>1 DEF IInv, NoTurnAdded, TurnInv
<1>2. CASE Launch
  BY <1>2 DEF Launch, CurThread, IInv, TypeOK, InFlightOK, StartInv, Starting, TurnInv
<1> QED
  BY <1>1, <1>2 DEF Moves

-----------------------------------------------------------------------------
(***************************************************************************)
(* The scheduler's own place in its tick.                                  *)
(***************************************************************************)
Place == CurInv /\ TodoInv /\ StartInv

(* What leaves the scheduler where it is. *)
LEMMA StillPlace ==
  ASSUME IInv, Moves, UNCHANGED <<pc, cur, todo, turn>>,
         NoneStarted, \A j \in Jobs : jstate[j] \in {"leased", "cancelled"}
                                     => jstate'[j] \in {"leased", "cancelled"}
  PROVE  Place'
  BY DEF IInv, TypeOK, TickOK, Moves, JobMoves, NoneStarted, Place, CurInv, Working,
         TodoInv, StartInv, Starting

(* What takes it back to a loop, with threads in flight to visit. *)
LEMMA GotoPlace ==
  ASSUME NEW place \in {"boot", "begin", "drain", "death", "start"}, NEW n,
         NEW threads \in SUBSET Threads, NEW names, NEW old,
         Goto(place, n, threads, names, old), \A t \in threads : turn'[t] # NoJob,
         place = "start" => threads = {}
  PROVE  Place'
  BY FabricAssumption DEF Goto, Place, CurInv, Working, TodoInv, StartInv, Starting

(* The end of a tick leaves the scheduler at a legal place. *)
LEMMA EndTickPlace == ASSUME EndTick PROVE Place'
  BY GotoPlace DEF EndTick

(* So does the rest of step 5, when it visits threads in flight. *)
LEMMA AfterStartPlace ==
  ASSUME NEW flight \in SUBSET Threads, NEW names, AfterStart(flight, names),
         \A t \in flight : turn'[t] # NoJob
  PROVE  Place'
<1>1. CASE names # {}
  BY <1>1, GotoPlace DEF AfterStart
<1>2. CASE names = {} /\ flight \ existing # {}
  BY <1>2, GotoPlace DEF AfterStart
<1>3. CASE names = {} /\ flight \ existing = {}
  BY <1>3, EndTickPlace DEF AfterStart
<1> QED
  BY <1>1, <1>2, <1>3

(* So does the rest of step 4. *)
LEMMA AfterDeathPlace ==
  ASSUME NEW threads \in SUBSET Threads, AfterDeath(threads),
         \A t \in threads : turn'[t] # NoJob
  PROVE  Place'
  BY GotoPlace DEF AfterDeath

(* So does the rest of steps 3 and 6. *)
LEMMA AfterDrainPlace ==
  ASSUME NEW flight \in SUBSET Threads, NEW threads \in SUBSET Threads,
         AfterDrain(flight, threads),
         \A t \in flight : turn'[t] # NoJob, \A t \in threads : turn'[t] # NoJob
  PROVE  Place'
<1>1. CASE threads # {}
  BY <1>1, GotoPlace DEF AfterDrain
<1>2. CASE threads = {} /\ pass = 2
  BY <1>2, EndTickPlace DEF AfterDrain
<1>3. CASE threads = {} /\ pass # 2
  BY <1>3, AfterDeathPlace DEF AfterDrain
<1> QED
  BY <1>1, <1>2, <1>3

(* fail_turn, first statement: the scheduler holds the failed job. *)
LEMMA FailTurnPlace ==
  ASSUME IInv, Moves, NEW j \in Jobs, NEW isAccepted, NEW why,
         FailTurn(j, isAccepted, why), jstate[j] # "none",
         todo' \subseteq todo, ThreadOf[j] \notin todo', UNCHANGED turn
  PROVE  Place'
  BY DEF IInv, Moves, JobMoves, FailTurn, Place, CurInv, Working, TodoInv, StartInv,
     Starting

(* The handlers leave the scheduler where it is. *)
LEMMA HandlerPlace == ASSUME IInv, TypeOK', Moves, Handlers PROVE Place'
<1> USE StillPlace DEF IInv, TypeOK, StoreOK, InFlightOK, inflight, locals, NoneStarted
<1>1. ASSUME NEW j \in Jobs, Spawn(j) PROVE Place'
  BY <1>1 DEF Spawn, Enqueue
<1>2. ASSUME NEW j \in Jobs, SendTask(j) PROVE Place'
  BY <1>2 DEF SendTask, Enqueue
<1>3. ASSUME NEW t \in Threads, CancelStore(t) PROVE Place'
  BY <1>3 DEF CancelStore, ActiveJob
<1>4. ASSUME NEW t \in Threads, CancelSignal(t) PROVE Place'
  BY <1>4 DEF CancelSignal, store
<1>5. ASSUME NEW t \in Threads, CancelAuditFails(t) PROVE Place'
  BY <1>5 DEF CancelAuditFails, store
<1> QED
  BY <1>1, <1>2, <1>3, <1>4, <1>5 DEF Handlers

(* Steps 1 to 3 and 6. *)
LEMMA DrainPlace == ASSUME IInv, TypeOK', Moves, DrainSteps PROVE Place'
<1>1. CASE BeginTick
  BY <1>1, GotoPlace DEF BeginTick, DropTurns, InFlightThreads
<1>2. ASSUME NEW t \in Threads, Poll(t) PROVE Place'
  BY <1>2 DEF IInv, TypeOK, TickOK, InFlightOK, Poll, store, inflight, Place, CurInv,
     Working, TurnInv, TodoInv, StartInv, Starting
<1>3. CASE EventsDone
  BY <1>3, AfterDrainPlace DEF IInv, TypeOK, TickOK, EventsDone, InFlightThreads,
     inflight, TodoInv
<1>4. CASE OnAccepted
  BY <1>4 DEF IInv, TypeOK, TickOK, OnAccepted, Place, CurInv, Working, TodoInv,
     StartInv, Starting
<1>5. CASE OnFinal
  BY <1>5 DEF IInv, TypeOK, TickOK, StoreOK, OnFinal, FinishJob, locals, inflight,
     Place, CurInv, Working, TodoInv, StartInv, Starting
<1>6. CASE FinalIdle
  BY <1>6, EndTickPlace, AfterDrainPlace DEF IInv, TypeOK, TickOK, FinalIdle,
     DropTurns, CurThread, InFlightThreads, CurInv, Working, TodoInv
<1>7. CASE OnFailed
  BY <1>7, FailTurnPlace DEF IInv, TypeOK, TickOK, OnFailed, inflight, CurInv, Working
<1>8. CASE FailThread
  BY <1>8, EndTickPlace, AfterDrainPlace, AfterDeathPlace, AfterStartPlace DEF IInv,
     TypeOK, TickOK, FailThread, DropTurns, CurThread, InFlightThreads, inflight,
     CurInv, Working, TodoInv
<1> QED
  BY <1>1, <1>2, <1>3, <1>4, <1>5, <1>6, <1>7, <1>8 DEF DrainSteps

(* Step 4. *)
LEMMA DeathPlace == ASSUME IInv, TypeOK', Moves, DeathSteps PROVE Place'
<1>1. ASSUME NEW t \in Threads, EngineDeath(t) PROVE Place'
  BY <1>1, FailTurnPlace DEF IInv, TypeOK, TickOK, EngineDeath, inflight, TurnInv,
     TodoInv
<1>2. ASSUME NEW t \in Threads, TurnTimeout(t) PROVE Place'
  <2>1. CASE EndTick
    BY <2>1, EndTickPlace
  <2>2. CASE /\ todo' = todo \ {t} /\ cur' = turn[t] /\ pc' = "timedout"
             /\ DropTurns({t})
    <3>1. turn[t] \in Jobs /\ ThreadOf[turn[t]] = t /\ jstate[turn[t]] # "none"
      BY <1>2 DEF IInv, TurnTimeout, TurnInv, TodoInv
    <3>2. CurInv'
      BY <1>2, <2>2, <3>1 DEF TurnTimeout, CurInv
    <3>3. TodoInv'
      BY <2>2 DEF IInv, TypeOK, TickOK, DropTurns, TodoInv
    <3> QED
      BY <2>2, <3>2, <3>3 DEF Place, StartInv, Starting
  <2> QED
    BY <1>2, <2>1, <2>2 DEF TurnTimeout
<1>3. ASSUME NEW t \in Threads, TurnHealthy(t) PROVE Place'
  BY <1>3, AfterDeathPlace DEF IInv, TypeOK, TickOK, TurnHealthy, inflight, TodoInv
<1>4. CASE TimeoutJob
  BY <1>4, EndTickPlace, AfterDeathPlace DEF IInv, TypeOK, TickOK, TimeoutJob,
     inflight, TodoInv
<1> QED
  BY <1>1, <1>2, <1>3, <1>4 DEF DeathSteps

(* Step 5. *)
LEMMA StartPlace == ASSUME IInv, TypeOK', Moves, StartSteps PROVE Place'
<1>1. ASSUME NEW c \in Cells, SkipCell(c) PROVE Place'
  BY <1>1, AfterStartPlace DEF SkipCell, InFlightThreads, inflight
<1>2. ASSUME NEW c \in Cells, NEW j \in Jobs, Lease(c, j) PROVE Place'
  <2>1. jstate[j] = "queued" /\ CellOf[ThreadOf[j]] = c
    BY <1>2 DEF Lease, Leasable, JobsOf, JobCell
  <2>2. CurInv'
    BY <1>2, <2>1 DEF IInv, TypeOK, StoreOK, Lease, CurInv, TodoInv
  <2>3. TodoInv'
    BY <1>2 DEF IInv, Lease, inflight, TodoInv
  <2>4. /\ jstate'[j] = "leased"
        /\ \A k \in Jobs : CellOf[ThreadOf[k]] = c => jstate'[k] # "started"
    BY <1>2, <2>1 DEF IInv, TypeOK, StoreOK, Lease, Leasable, JobsOf, JobCell
  <2>5. \A t \in Threads : CellOf[t] = c => turn'[t] = NoJob
    BY <1>2 DEF Lease, InFlight, inflight
  <2> QED
    BY <1>2, <2>1, <2>2, <2>3, <2>4, <2>5 DEF Lease, Place, StartInv
<1>3. CASE CheckThread
  <2>1. CASE AfterStart(InFlightThreads, cells)
    BY <1>3, <2>1, AfterStartPlace DEF CheckThread, InFlightThreads, inflight
  <2>2. CASE pc' = "checked" /\ UNCHANGED locals
    BY <1>3, <2>2 DEF CheckThread, store, inflight, locals, IInv, Place, CurInv,
       Working,
       TodoInv, StartInv, Starting
  <2> QED
    BY <1>3, <2>1, <2>2 DEF CheckThread
<1>4. CASE MarkStarted
  BY <1>4 DEF IInv, TypeOK, TickOK, StoreOK, MarkStarted, inflight, locals, Place,
     CurInv, Working, TodoInv, StartInv, Starting
<1>5. CASE RunThread
  BY <1>5, EndTickPlace DEF IInv, TypeOK, TickOK, RunThread, inflight, locals, Place,
     CurInv, Working, TodoInv, StartInv, Starting
<1>6. CASE Launch
  BY <1>6, AfterStartPlace, FabricAssumption DEF IInv, TypeOK, TickOK, InFlightOK,
     Launch, InFlightThreads, CurThread, CurInv, Working
<1>7. CASE LaunchAuditFails
  BY <1>7, EndTickPlace DEF LaunchAuditFails
<1>8. CASE SpawnFails
  BY <1>8, FailTurnPlace DEF IInv, TypeOK, TickOK, SpawnFails, inflight, CurInv,
     Working
<1>9. CASE StartFails
  BY <1>9, FailTurnPlace DEF IInv, TypeOK, TickOK, StartFails, inflight, CurInv,
     Working
<1> QED
  BY <1>1, <1>2, <1>3, <1>4, <1>5, <1>6, <1>7, <1>8, <1>9 DEF StartSteps

(* Every step leaves the scheduler at a legal place. *)
LEMMA PlaceStep == ASSUME IInv, TypeOK', Moves, [Next]_vars PROVE Place'
<1>1. CASE Engines
  BY <1>1, StillPlace DEF Engines, EngineAccept, EngineFinal, EngineFails,
     EngineRejects,
     EngineDies, store, inflight, locals, NoneStarted
<1>2. ASSUME NEW j \in Jobs, LeaseExpires(j) PROVE Place'
  BY <1>2, StillPlace DEF LeaseExpires, inflight, locals, NoneStarted
<1>3. CASE Killed
  BY <1>3, GotoPlace DEF Killed
<1>4. CASE Boot
  BY <1>4 DEF Boot, inflight, locals, IInv, Place, CurInv, Working, TodoInv,
     StartInv, Starting
<1>5. CASE UNCHANGED vars
  BY <1>5, StillPlace DEF vars, store, inflight, locals, NoneStarted
<1> QED
  BY <1>1, <1>2, <1>3, <1>4, <1>5, HandlerPlace, DrainPlace, DeathPlace, StartPlace
     DEF Next, Tick, TimeSteps, Crash, CancelTorn

-----------------------------------------------------------------------------
(***************************************************************************)
(* The theorems.                                                           *)
(***************************************************************************)

(* The initial states satisfy the invariant. *)
LEMMA InitInv == ASSUME Init PROVE IInv
<1> USE FabricAssumption DEF Init
<1>1. TypeOK
  <2>1. <<>> \in Seq(Jobs) /\ <<>> \in Seq(EngineEvent)
    OBVIOUS
  <2>2. StoreOK
    BY <2>1 DEF StoreOK
  <2>3. 0 \in 0..2 /\ faults \in FaultRecord
    BY DEF FaultRecord
  <2>4. EnginesOK
    BY <2>1, <2>3 DEF EnginesOK
  <2> QED
    BY <2>1, <2>2, <2>3, <2>4
       DEF TypeOK, InFlightOK, TickOK, SignalsOK, SchedulerPc
<1>2. CurInv /\ TurnInv /\ TodoInv /\ StartInv /\ AccInv
  BY DEF CurInv, Working, TurnInv, TodoInv, StartInv, Starting, AccInv
<1>3. OneStartedPerCell /\ OneTurnPerCell
  BY DEF OneStartedPerCell, OneTurnPerCell, InFlightThreads
<1> QED
  BY <1>1, <1>2, <1>3 DEF IInv

(* Every step keeps it. *)
LEMMA NextInv == ASSUME IInv, [Next]_vars PROVE IInv'
  BY TypeStep, MovesStep, TurnStep, AccStep, StartedStep, OneTurnStep, PlaceStep
     DEF IInv, Place

(* The inductive invariant holds of every reachable state. *)
THEOREM Invariance == Spec => []IInv
  BY InitInv, NextInv, PTL DEF Spec

(* The tables and the scheduler's records stay well typed, whatever the    *)
(* handlers, engines, crashes and failures do.                             *)
THEOREM Typing == Spec => []TypeOK
  BY Invariance, PTL DEF IInv

(* Head-of-line blocking holds although job_lease_next and                 *)
(* job_mark_started are separate critical sections and the second updates  *)
(* the row unconditionally: the one scheduler thread carries the absence   *)
(* of a started job from one to the other.                                 *)
THEOREM HeadOfLine == Spec => []OneStartedPerCell
  BY Invariance, PTL DEF IInv

(* in_flight, keyed by thread id, has at most one turn per cell, because   *)
(* the cell is checked before the lease and only launch adds a turn.       *)
THEOREM SingleTurn == Spec => []OneTurnPerCell
  BY Invariance, PTL DEF IInv

(* No later step takes a finished job back. *)
THEOREM Finality == Spec => FinishedIsFinal
<1>1. IInv /\ [Next]_vars
      => [\A j \in Jobs : jstate[j] = "finished" => jstate'[j] = "finished"]_vars
  BY MovesStep DEF Moves, JobMoves
<1> QED
  BY <1>1, Invariance, PTL DEF Spec, FinishedIsFinal

(* The redelivery boundary: no step puts an accepted job back in the       *)
(* queue, neither job_requeue nor job_requeue_expired_leases nor an        *)
(* enqueue.                                                                *)
THEOREM RedeliveryBoundary == Spec => AcceptedNeverRequeued
<1>1. IInv /\ [Next]_vars
      => [\A j \in Jobs : acc[j] /\ jstate[j] # "queued" => jstate'[j] # "queued"]_vars
  BY MovesStep DEF Moves, JobMoves
<1> QED
  BY <1>1, Invariance, PTL DEF Spec, AcceptedNeverRequeued

-----------------------------------------------------------------------------
(***************************************************************************)
(* The fabric implements the job ledger.                                   *)
(***************************************************************************)

(* A step that leaves states and acceptances alone is none of the ledger's. *)
LEMMA LedgerStutters == ASSUME UNCHANGED <<jstate, acc>> PROVE UNCHANGED Ledger!ledger
  BY DEF Ledger!ledger

(* job_enqueue_inner submits. *)
LEMMA LedgerSubmits ==
  ASSUME IInv, NEW j \in Jobs, Enqueue(j), UNCHANGED acc PROVE Ledger!Submit(j)
  BY DEF IInv, TypeOK, StoreOK, Enqueue, Phase, Ledger!Submit, Ledger!Move

(* job_finish finishes, and job_requeue gives back a started job that was  *)
(* not accepted, or does nothing the ledger sees.                          *)
LEMMA LedgerEnds ==
  ASSUME IInv, NEW j \in Jobs, jstate[j] # "none", FinishJob(j) \/ RequeueJob(j),
         UNCHANGED acc
  PROVE  [Ledger!Next]_(Ledger!ledger)
<1> USE DEF IInv, TypeOK, StoreOK, Phase, JobState
<1>1. CASE FinishJob(j)
  <2>1. Ledger!Finish(j)
    BY <1>1 DEF FinishJob, Ledger!Finish, Ledger!Move
  <2> QED
    BY <2>1 DEF Ledger!Next
<1>2. CASE RequeueJob(j) /\ jstate[j] = "started" /\ ~ acc[j]
  <2>1. Ledger!GiveBack({j})
    BY <1>2 DEF RequeueJob, Ledger!GiveBack, Ledger!Move
  <2> QED
    BY <2>1 DEF Ledger!Next
<1>3. CASE RequeueJob(j) /\ (jstate[j] # "started" \/ acc[j])
  BY <1>3 DEF RequeueJob, Ledger!ledger
<1> QED
  BY <1>1, <1>2, <1>3

(* cell_cancel: every active job of the thread, at once. *)
LEMMA LedgerCancels ==
  ASSUME IInv, NEW t \in Threads, CancelStore(t) PROVE Ledger!Next
<1> DEFINE S == {j \in Jobs : ThreadOf[j] = t /\ jstate[j] \in ActiveJob}
<1>1. Ledger!Cancel(S)
  BY DEF IInv, TypeOK, StoreOK, Phase, CancelStore, ActiveJob, Ledger!Cancel,
         Ledger!Move
<1> QED
  BY <1>1 DEF Ledger!Next

(* The same cut off by a crash: some of them. *)
LEMMA LedgerTorn ==
  ASSUME IInv, NEW t \in Threads, CancelTorn(t) PROVE Ledger!Next
<1>1. PICK n \in DOMAIN rows[CellOf[t]] :
        jstate' = [j \in Jobs |->
                     IF /\ j \in {rows[CellOf[t]][i] : i \in 1..n}
                        /\ ThreadOf[j] = t /\ jstate[j] \in ActiveJob
                     THEN "cancelled" ELSE jstate[j]]
  BY DEF CancelTorn
<1> DEFINE S == {j \in Jobs : /\ j \in {rows[CellOf[t]][i] : i \in 1..n}
                              /\ ThreadOf[j] = t /\ jstate[j] \in ActiveJob}
<1>2. \A j \in Jobs : jstate'[j] = IF j \in S THEN "cancelled" ELSE jstate[j]
  BY <1>1
<1>3. \A j \in S : jstate[j] \in ActiveJob
  OBVIOUS
<1>4. S \subseteq Jobs /\ UNCHANGED acc
  BY DEF CancelTorn
<1> HIDE DEF S
<1>5. Ledger!Cancel(S)
  BY <1>2, <1>3, <1>4 DEF Phase, ActiveJob, Ledger!Cancel, Ledger!Move
<1> QED
  BY <1>4, <1>5 DEF Ledger!Next

(* job_requeue_expired_leases: the started ones among the lapsed. *)
LEMMA LedgerLapses == ASSUME IInv, BeginTick PROVE Ledger!Next
<1> DEFINE S == {j \in Jobs : Lapsed(j) /\ jstate[j] = "started"}
<1>1. Ledger!GiveBack(S)
  BY DEF IInv, TypeOK, StoreOK, Phase, BeginTick, Lapsed, Ledger!GiveBack, Ledger!Move
<1> QED
  BY <1>1 DEF Ledger!Next

(* job_mark_started: StartInv is why no other job of the cell is started.  *)
LEMMA LedgerStarts == ASSUME IInv, MarkStarted PROVE Ledger!Start(cur)
<1>1. cur \in Jobs /\ jstate[cur] \in {"leased", "cancelled"}
  BY DEF MarkStarted, IInv, CurInv, Working, StartInv
<1>2. \A k \in Jobs : JobCell(k) = JobCell(cur) => jstate[k] # "started"
  BY DEF MarkStarted, IInv, StartInv, JobCell
<1> QED
  BY <1>1, <1>2 DEF IInv, TypeOK, StoreOK, MarkStarted, Phase, Ledger!Start,
     Ledger!Move

(* EngineEvent::Accepted. *)
LEMMA LedgerAccepts == ASSUME IInv, OnAccepted PROVE Ledger!Next
<1>1. PICK j \in Jobs : j = cur /\ jstate[j] # "none"
  BY DEF OnAccepted, IInv, CurInv, Working
<1>2. Ledger!Accept(j)
  BY <1>1 DEF IInv, TypeOK, StoreOK, OnAccepted, Phase, Ledger!Accept
<1> QED
  BY <1>2 DEF Ledger!Next

(* Every step of the fabric is a step of the ledger or none. *)
LedgerMove == [Ledger!Next]_(Ledger!ledger)

LEMMA LedgerStep == ASSUME IInv, [Next]_vars PROVE LedgerMove
<1>1. ASSUME NEW j \in Jobs, Spawn(j) \/ SendTask(j) PROVE LedgerMove
  BY <1>1, LedgerSubmits DEF LedgerMove, Spawn, SendTask, Ledger!Next
<1>2. ASSUME NEW t \in Threads, CancelStore(t) PROVE LedgerMove
  BY <1>2, LedgerCancels DEF LedgerMove
<1>3. ASSUME NEW t \in Threads, CancelSignal(t) \/ CancelAuditFails(t) PROVE LedgerMove
  BY <1>3, LedgerStutters DEF LedgerMove, CancelSignal, CancelAuditFails, store
<1>4. CASE BeginTick
  BY <1>4, LedgerLapses DEF LedgerMove
<1>5. CASE OnAccepted
  BY <1>5, LedgerAccepts DEF LedgerMove
<1>6. CASE OnFinal \/ OnFailed \/ SpawnFails \/ StartFails \/ TimeoutJob
  <2>1. cur \in Jobs /\ jstate[cur] # "none" /\ UNCHANGED acc
    BY <1>6 DEF OnFinal, OnFailed, SpawnFails, StartFails, TimeoutJob, IInv, CurInv,
       Working
  <2>2. FinishJob(cur) \/ RequeueJob(cur)
    BY <1>6 DEF OnFinal, OnFailed, SpawnFails, StartFails, TimeoutJob, FailTurn
  <2> QED
    BY <2>1, <2>2, LedgerEnds DEF LedgerMove
<1>7. ASSUME NEW t \in Threads, EngineDeath(t) PROVE LedgerMove
  <2>1. turn[t] \in Jobs /\ jstate[turn[t]] # "none" /\ UNCHANGED acc
    BY <1>7 DEF EngineDeath, IInv, TodoInv, TurnInv
  <2>2. FinishJob(turn[t]) \/ RequeueJob(turn[t])
    BY <1>7 DEF EngineDeath, FailTurn
  <2> QED
    BY <2>1, <2>2, LedgerEnds DEF LedgerMove
<1>8. ASSUME NEW t \in Threads, Poll(t) \/ TurnTimeout(t) \/ TurnHealthy(t) PROVE LedgerMove
  BY <1>8, LedgerStutters DEF LedgerMove, Poll, TurnTimeout, TurnHealthy, store
<1>9. CASE EventsDone \/ FinalIdle \/ FailThread \/ CheckThread \/ RunThread
  BY <1>9, LedgerStutters DEF LedgerMove, EventsDone, FinalIdle, FailThread, CheckThread, RunThread,
     store
<1>10. ASSUME NEW c \in Cells, NEW j \in Jobs, Lease(c, j) PROVE LedgerMove
  BY <1>10 DEF LedgerMove, Lease, Leasable, IInv, TypeOK, StoreOK, Phase, Ledger!ledger
<1>11. CASE MarkStarted
  BY <1>11, LedgerStarts DEF LedgerMove, MarkStarted, IInv, CurInv, Working, Ledger!Next
<1>12. CASE Launch \/ LaunchAuditFails \/ (\E c \in Cells : SkipCell(c))
  BY <1>12, LedgerStutters DEF LedgerMove, Launch, LaunchAuditFails, SkipCell, store
<1>13. CASE Engines
  BY <1>13, LedgerStutters DEF LedgerMove, Engines, EngineAccept, EngineFinal, EngineFails,
     EngineRejects, EngineDies, store
<1>14. CASE TimeSteps
  BY <1>14, LedgerStutters, LedgerTorn
     DEF LedgerMove, TimeSteps, LeaseExpires, Crash, Boot, store
<1>15. CASE UNCHANGED vars
  BY <1>15, LedgerStutters DEF LedgerMove, vars, store
<1> QED
  BY <1>1, <1>2, <1>3, <1>4, <1>5, <1>6, <1>7, <1>8, <1>9, <1>10, <1>11, <1>12,
     <1>13, <1>14, <1>15
     DEF Next, Tick, Handlers, DrainSteps, DeathSteps, StartSteps

(* Handlers, scheduler, engines, leases, crashes and boot recovery         *)
(* together implement the job ledger, for any cells, threads and jobs.     *)
THEOREM Refinement == Spec => KeepsLedger
<1>1. Init => Ledger!Init
  BY DEF Init, Phase, Ledger!Init
<1> QED
  BY <1>1, LedgerStep, Invariance, PTL DEF Spec, LedgerMove, KeepsLedger, Ledger!Spec

-----------------------------------------------------------------------------
(***************************************************************************)
(* A cancel reaches the engine.                                            *)
(***************************************************************************)

Signalled(t) == t \in cancelling \/ CellOf[t] \in cancels

(* A cancelled job that has a turn, or is about to get one, has a handler  *)
(* that will signal or a signal on its way.  Between job_mark_started and  *)
(* the launch no handler runs, so a job that was cancelled since it was    *)
(* leased is started all the same, and only one cancelled at the launch    *)
(* counts.                                                                 *)
SignalInv ==
    /\ pc = "marking" => jstate[cur] = "started"
    /\ Without({"auditfail"}) =>
          /\ \A t \in Threads : turn[t] # NoJob /\ jstate[turn[t]] = "cancelled"
                                => Signalled(t)
          /\ pc = "launch" /\ jstate[cur] = "cancelled" => Signalled(ThreadOf[cur])

(* What happened has happened. *)
LEMMA SeenGrows == ASSUME [Next]_vars PROVE faults.seen \subseteq faults'.seen
<1>1. ASSUME NEW kinds, Disturb(kinds) PROVE faults.seen \subseteq faults'.seen
  BY <1>1 DEF Disturb
<1>2. CASE UNCHANGED faults BY <1>2
<1>3. Handlers => UNCHANGED faults \/ \E kinds : Disturb(kinds)
  BY DEF Handlers, Spawn, SendTask, CancelStore, CancelSignal, CancelAuditFails, Fault
<1>4. DrainSteps => UNCHANGED faults \/ \E kinds : Disturb(kinds)
  BY DEF DrainSteps, BeginTick, Poll, EventsDone, OnAccepted, OnFinal, FinalIdle, OnFailed,
     FailThread, Fault
<1>5. DeathSteps => UNCHANGED faults \/ \E kinds : Disturb(kinds)
  BY DEF DeathSteps, EngineDeath, TurnTimeout, TurnHealthy, TimeoutJob, Fault
<1>6. StartSteps => UNCHANGED faults \/ \E kinds : Disturb(kinds)
  BY DEF StartSteps, SkipCell, Lease, CheckThread, MarkStarted, RunThread, Launch,
     LaunchAuditFails, SpawnFails, StartFails, StartUnheard, Fault
<1>7. Engines => UNCHANGED faults \/ \E kinds : Disturb(kinds)
  BY DEF Engines, EngineAccept, EngineFinal, EngineFails, EngineRejects, EngineDies, Fault
<1>8. TimeSteps => UNCHANGED faults \/ \E kinds : Disturb(kinds)
  BY DEF TimeSteps, LeaseExpires, Crash, CancelTorn, Boot, Fault
<1>9. UNCHANGED vars => UNCHANGED faults BY DEF vars
<1> QED BY <1>1, <1>2, <1>3, <1>4, <1>5, <1>6, <1>7, <1>8, <1>9 DEF Next, Tick

LEMMA WithoutBefore ==
  ASSUME [Next]_vars, NEW kinds, Without(kinds)' PROVE Without(kinds)
  BY SeenGrows DEF Without

(* A fault that happens is in the record. *)
LEMMA FaultSeen == ASSUME NEW kind, Fault(kind) PROVE kind \in faults'.seen
  BY DEF Fault, Disturb

(* job_finish and job_requeue cancel nothing. *)
LEMMA EndsKeep ==
  ASSUME IInv, NEW k, FinishJob(k) \/ RequeueJob(k)
  PROVE  \A j \in Jobs : jstate'[j] = "cancelled" => jstate[j] = "cancelled"
  BY DEF FinishJob, RequeueJob, IInv, TypeOK, StoreOK

(* What cancels nothing, forgets no signal and launches nothing. *)
LEMMA SignalKept ==
  ASSUME IInv, SignalInv, [Next]_vars, UNCHANGED signals, NoTurnAdded,
         \A j \in Jobs : jstate'[j] = "cancelled" => jstate[j] = "cancelled",
         pc' # "marking", pc' = "launch" => pc = "launch" /\ cur' = cur
  PROVE  SignalInv'
<1>1. ASSUME Without({"auditfail"})', NEW t \in Threads, turn'[t] # NoJob,
             jstate'[turn'[t]] = "cancelled"
      PROVE  Signalled(t)'
  <2>1. turn'[t] = turn[t] /\ turn[t] \in Jobs
    BY <1>1 DEF NoTurnAdded, IInv, TypeOK, InFlightOK
  <2> QED BY <1>1, <2>1, WithoutBefore DEF SignalInv, Signalled, signals
<1>2. ASSUME Without({"auditfail"})', pc' = "launch", jstate'[cur'] = "cancelled"
      PROVE  Signalled(ThreadOf[cur])'
  BY <1>2, WithoutBefore DEF SignalInv, Signalled, signals, IInv, CurInv, Working
<1> QED BY <1>1, <1>2 DEF SignalInv

LEMMA SignalStep == ASSUME IInv, SignalInv, [Next]_vars PROVE SignalInv'
<1> USE DEF IInv, TypeOK
<1>1. ASSUME NEW j \in Jobs, Spawn(j) \/ SendTask(j) PROVE SignalInv'
  <2>1. \A k \in Jobs : jstate'[k] = "cancelled" => jstate[k] = "cancelled"
    BY <1>1 DEF Spawn, SendTask, Enqueue, StoreOK
  <2>2. UNCHANGED <<pc, locals, signals, inflight>> /\ pc # "marking"
    BY <1>1 DEF Spawn, SendTask, Serving, StoreLocked
  <2> QED BY <2>1, <2>2, SignalKept DEF locals, inflight, NoTurnAdded, InFlightOK
(* The section that cancels leaves its handler on the way to the signal. *)
<1>2. ASSUME NEW t \in Threads, CancelStore(t) PROVE SignalInv'
  <2>1. /\ UNCHANGED <<pc, cur, turn, cancels>> /\ cancelling' = cancelling \cup {t}
        /\ pc # "marking"
        /\ \A j \in Jobs : jstate'[j] = "cancelled" => jstate[j] = "cancelled" \/ ThreadOf[j] = t
    BY <1>2 DEF CancelStore, Serving, StoreLocked, locals, inflight
  <2>2. ASSUME Without({"auditfail"})', NEW u \in Threads, turn'[u] # NoJob,
               jstate'[turn'[u]] = "cancelled"
        PROVE  Signalled(u)'
    <3>1. turn[u] \in Jobs /\ ThreadOf[turn[u]] = u BY <2>1, <2>2 DEF TurnInv
    <3> QED BY <2>1, <2>2, <3>1, WithoutBefore DEF SignalInv, Signalled
  <2>3. ASSUME Without({"auditfail"})', pc' = "launch", jstate'[cur'] = "cancelled"
        PROVE  Signalled(ThreadOf[cur])'
    <3>1. cur \in Jobs BY <2>1, <2>3 DEF CurInv, Working
    <3> QED BY <2>1, <2>3, <3>1, WithoutBefore DEF SignalInv, Signalled
  <2> QED BY <2>1, <2>2, <2>3 DEF SignalInv
<1>3. ASSUME NEW t \in Threads, CancelSignal(t) PROVE SignalInv'
  <2>1. UNCHANGED <<pc, cur, turn, jstate>> /\ \A u : Signalled(u) => Signalled(u)'
    BY <1>3 DEF CancelSignal, store, locals, inflight, Signalled
  <2> QED BY <2>1, WithoutBefore DEF SignalInv
<1>4. ASSUME NEW t \in Threads, CancelAuditFails(t) PROVE SignalInv'
  <2>1. ~Without({"auditfail"})' BY <1>4, FaultSeen DEF CancelAuditFails, Without
  <2> QED BY <1>4, <2>1 DEF SignalInv, CancelAuditFails, store, locals
(* Every signalled cell loses its turns with its signal. *)
<1>5. CASE BeginTick
  <2>1. /\ cancels' = {} /\ UNCHANGED cancelling /\ pc' \in {"start", "drain"}
        /\ \A t \in Threads : turn'[t] = IF CellOf[t] \in cancels THEN NoJob ELSE turn[t]
        /\ \A j \in Jobs : jstate'[j] = "cancelled" => jstate[j] = "cancelled"
    BY <1>5 DEF BeginTick, DropTurns, Goto
  <2>2. ASSUME Without({"auditfail"})', NEW t \in Threads, turn'[t] # NoJob,
               jstate'[turn'[t]] = "cancelled"
        PROVE  Signalled(t)'
    <3>1. turn'[t] = turn[t] /\ turn[t] \in Jobs /\ CellOf[t] \notin cancels
      BY <2>1, <2>2 DEF InFlightOK
    <3> QED BY <2>1, <2>2, <3>1, WithoutBefore DEF SignalInv, Signalled
  <2> QED BY <2>1, <2>2 DEF SignalInv
<1>6. CASE \/ \E t \in Threads : Poll(t)
           \/ EventsDone \/ OnAccepted \/ OnFinal \/ FinalIdle \/ OnFailed \/ FailThread
  <2>1. UNCHANGED signals
    BY <1>6 DEF Poll, EventsDone, OnAccepted, OnFinal, FinalIdle, OnFailed, FailThread
  <2>2. \A j \in Jobs : jstate'[j] = "cancelled" => jstate[j] = "cancelled"
    BY <1>6, EndsKeep DEF Poll, EventsDone, OnAccepted, OnFinal, FinalIdle, OnFailed, FailThread,
       FailTurn, store
  <2>3. pc' \notin {"marking", "launch"}
    BY <1>6 DEF Poll, EventsDone, OnAccepted, OnFinal, FinalIdle, OnFailed, FailThread,
       FailTurn, AfterDrain, AfterDeath, AfterStart, EndTick, Goto
  <2>4. NoTurnAdded
    BY <1>6, MovesStep DEF Moves, Launch, Poll, EventsDone, OnAccepted, OnFinal, FinalIdle,
       OnFailed, FailThread
  <2> QED BY <2>1, <2>2, <2>3, <2>4, SignalKept
<1>7. CASE DeathSteps
  <2>1. UNCHANGED signals BY <1>7 DEF DeathSteps, EngineDeath, TurnTimeout, TurnHealthy, TimeoutJob
  <2>2. \A j \in Jobs : jstate'[j] = "cancelled" => jstate[j] = "cancelled"
    BY <1>7, EndsKeep DEF DeathSteps, EngineDeath, TurnTimeout, TurnHealthy, TimeoutJob,
       FailTurn, store
  <2>3. pc' \notin {"marking", "launch"}
    BY <1>7 DEF DeathSteps, EngineDeath, TurnTimeout, TurnHealthy, TimeoutJob,
       FailTurn, AfterDeath, EndTick, Goto
  <2>4. NoTurnAdded
    BY <1>7, MovesStep DEF Moves, Launch, DeathSteps, EngineDeath, TurnTimeout, TurnHealthy,
       TimeoutJob
  <2> QED BY <2>1, <2>2, <2>3, <2>4, SignalKept
<1>8. CASE \/ \E c \in Cells : SkipCell(c)
           \/ \E c \in Cells, j \in Jobs : Lease(c, j)
           \/ CheckThread \/ LaunchAuditFails \/ SpawnFails \/ StartFails
  <2>1. UNCHANGED signals
    BY <1>8 DEF SkipCell, Lease, CheckThread, LaunchAuditFails, SpawnFails, StartFails
  <2>2. \A j \in Jobs : jstate'[j] = "cancelled" => jstate[j] = "cancelled"
    BY <1>8, EndsKeep DEF SkipCell, Lease, CheckThread, LaunchAuditFails, SpawnFails, StartFails,
       FailTurn, store, StoreOK
  <2>3. pc' \notin {"marking", "launch"}
    BY <1>8 DEF SkipCell, Lease, CheckThread, LaunchAuditFails, SpawnFails, StartFails,
       FailTurn, AfterStart, EndTick, Goto
  <2>4. NoTurnAdded
    BY <1>8 DEF SkipCell, Lease, CheckThread, LaunchAuditFails, SpawnFails, StartFails,
       inflight, NoTurnAdded, InFlightOK
  <2> QED BY <2>1, <2>2, <2>3, <2>4, SignalKept
(* The row is updated whatever its state: a cancel before this is lost to  *)
(* the row, and with it the obligation.                                    *)
<1>9. CASE MarkStarted
  <2>1. /\ cur \in Jobs /\ jstate' = [jstate EXCEPT ![cur] = "started"] /\ pc' = "marking"
        /\ UNCHANGED <<cur, turn, cancelling, cancels>>
    BY <1>9 DEF MarkStarted, CurInv, Working, locals, inflight, signals
  <2>2. /\ jstate'[cur'] = "started"
        /\ \A j \in Jobs : jstate'[j] = "cancelled" => jstate[j] = "cancelled"
    BY <2>1 DEF StoreOK
  <2>3. ASSUME Without({"auditfail"})', NEW t \in Threads, turn'[t] # NoJob,
               jstate'[turn'[t]] = "cancelled"
        PROVE  Signalled(t)'
    <3>1. turn[t] \in Jobs BY <2>1, <2>3 DEF InFlightOK
    <3> QED BY <2>1, <2>2, <2>3, <3>1, WithoutBefore DEF SignalInv, Signalled
  <2> QED BY <2>1, <2>2, <2>3 DEF SignalInv
<1>10. CASE RunThread
  <2>1. UNCHANGED <<jstate, turn, cancelling, cancels>> /\ pc' \in {"launch", "begin"}
        /\ (pc' = "launch" => cur' = cur) /\ jstate[cur] = "started"
    BY <1>10 DEF RunThread, EndTick, Goto, SignalInv, locals, inflight, signals
  <2> QED BY <2>1, WithoutBefore DEF SignalInv, Signalled
<1>11. CASE Launch
  <2>1. /\ UNCHANGED <<jstate, cancelling, cancels>> /\ pc' \notin {"marking", "launch"}
        /\ turn' = [turn EXCEPT ![ThreadOf[cur]] = cur] /\ pc = "launch"
    BY <1>11 DEF Launch, AfterStart, EndTick, Goto, store, signals, CurThread
  <2> QED BY <2>1, WithoutBefore DEF SignalInv, Signalled, InFlightOK
<1>12. CASE Engines \/ (\E j \in Jobs : LeaseExpires(j)) \/ Boot \/ UNCHANGED vars
  <2>1. UNCHANGED <<signals, jstate, turn, cur>>
    BY <1>12 DEF Engines, EngineAccept, EngineFinal, EngineFails, EngineRejects, EngineDies,
       LeaseExpires, Boot, vars, store, inflight, locals
  <2>2. UNCHANGED pc \/ pc' = "begin"
    BY <1>12 DEF Engines, EngineAccept, EngineFinal, EngineFails, EngineRejects, EngineDies,
       LeaseExpires, Boot, vars
  <2> QED BY <2>1, <2>2, WithoutBefore DEF SignalInv, Signalled, signals
<1>13. CASE Killed
  BY <1>13 DEF Killed, DropTurns, Goto, SignalInv
<1> QED
  BY <1>1, <1>2, <1>3, <1>4, <1>5, <1>6, <1>7, <1>8, <1>9, <1>10, <1>11, <1>12, <1>13
     DEF Next, Tick, Handlers, DrainSteps, StartSteps, TimeSteps, Crash, CancelTorn

(* A cancel reaches the engine of a turn in flight wherever in its tick    *)
(* the scheduler was when the handler cancelled the job.                   *)
THEOREM CancelArrives == Spec => []CancelReachesEngine
<1>1. Init => SignalInv BY FabricAssumption DEF Init, SignalInv
<1>2. IInv /\ SignalInv /\ [Next]_vars => SignalInv' BY SignalStep
<1>3. SignalInv => CancelReachesEngine
  BY DEF SignalInv, Signalled, CancelReachesEngine, InFlightThreads
<1> QED BY <1>1, <1>2, <1>3, Invariance, PTL DEF Spec

-----------------------------------------------------------------------------
(***************************************************************************)
(* A thread in spawning has work.                                          *)
(***************************************************************************)

Fresh == {"none", "spawning"}

(* A thread whose turn was launched ran, and a thread that ran is never    *)
(* spawning again: the jobs the scheduler finishes are not those of a      *)
(* spawning thread.                                                        *)
SpawnInv ==
    /\ \A t \in Threads : turn[t] # NoJob => tstate[t] \notin Fresh
    /\ pc \in {"event", "finishing", "timedout", "failed", "launch"}
          => tstate[ThreadOf[cur]] \notin Fresh
    /\ SpawningHasWork

(* A thread does not become fresh, but by a spawn, and only the jobs of    *)
(* threads that ran are finished.                                          *)
FreshMoves ==
    /\ \A t \in Threads : tstate[t] \notin Fresh => tstate'[t] \notin Fresh
    /\ \A t \in Threads : tstate'[t] = "spawning" => tstate[t] = "spawning"
    /\ \A j \in Jobs : jstate[j] \in ActiveJob /\ tstate[ThreadOf[j]] \in Fresh
                       => jstate'[j] \in ActiveJob

LEMMA SpawnKept ==
  ASSUME IInv, SpawnInv, [Next]_vars, FreshMoves, NoTurnAdded,
         pc' \in {"event", "finishing", "timedout", "failed", "launch"} =>
            tstate'[ThreadOf[cur']] \notin Fresh,
         pc = "boot" => pc' = "boot" \/ \A t \in Threads : tstate'[t] # "spawning"
  PROVE  SpawnInv'
<1>1. ASSUME NEW t \in Threads, turn'[t] # NoJob PROVE tstate'[t] \notin Fresh
  BY <1>1 DEF NoTurnAdded, SpawnInv, FreshMoves
<1>2. ASSUME Without({"cancel"})', NEW t \in Threads, tstate'[t] = "spawning", pc' # "boot"
      PROVE  \E j \in Jobs : ThreadOf[j] = t /\ jstate'[j] \in ActiveJob
  BY <1>2, WithoutBefore DEF SpawnInv, SpawningHasWork, FreshMoves, Fresh
<1> QED BY <1>1, <1>2 DEF SpawnInv, SpawningHasWork

(* job_finish of a job whose thread ran, job_requeue of any. *)
LEMMA EndsFresh ==
  ASSUME IInv, NEW k \in Jobs,
         (FinishJob(k) /\ tstate[ThreadOf[k]] \notin Fresh) \/ RequeueJob(k)
  PROVE  \A j \in Jobs : jstate[j] \in ActiveJob /\ tstate[ThreadOf[j]] \in Fresh
                         => jstate'[j] \in ActiveJob
  BY DEF FinishJob, RequeueJob, ActiveJob, IInv, TypeOK, StoreOK

LEMMA SpawnStep == ASSUME IInv, SpawnInv, [Next]_vars PROVE SpawnInv'
<1> USE DEF IInv, TypeOK
(* The thread and its first job come together. *)
<1>1. ASSUME NEW j \in Jobs, Spawn(j) PROVE SpawnInv'
  <2> DEFINE t == ThreadOf[j]
  <2>1. /\ tstate[t] = "none" /\ tstate' = [tstate EXCEPT ![t] = "spawning"] /\ t \in Threads
        /\ jstate' = [jstate EXCEPT ![j] = "queued"] /\ UNCHANGED <<pc, cur, turn>>
    BY <1>1, FabricAssumption DEF Spawn, Enqueue, locals, inflight
  <2>2. \A k \in Jobs : jstate'[k] = IF k = j THEN "queued" ELSE jstate[k] BY <2>1 DEF StoreOK
  <2>3. \A u \in Threads : tstate'[u] = IF u = t THEN "spawning" ELSE tstate[u]
    BY <2>1 DEF StoreOK
  <2> HIDE DEF t
  <2>4. pc \in {"event", "finishing", "timedout", "failed", "launch"} => ThreadOf[cur] \in Threads
    BY FabricAssumption DEF CurInv, Working
  <2>5. ASSUME Without({"cancel"})', NEW u \in Threads, tstate'[u] = "spawning", pc' # "boot"
        PROVE  \E k \in Jobs : ThreadOf[k] = u /\ jstate'[k] \in ActiveJob
    <3>1. CASE u = t BY <2>2, <3>1 DEF ActiveJob, t
    <3>2. CASE u # t
      BY <2>1, <2>2, <2>3, <2>5, <3>2, WithoutBefore DEF SpawnInv, SpawningHasWork, ActiveJob
    <3> QED BY <3>1, <3>2
  <2> QED BY <2>1, <2>3, <2>4, <2>5 DEF SpawnInv, SpawningHasWork, Fresh
<1>2. ASSUME NEW j \in Jobs, SendTask(j) PROVE SpawnInv'
  <2>1. /\ jstate' = [jstate EXCEPT ![j] = "queued"] /\ UNCHANGED <<tstate, pc, cur, turn>>
    BY <1>2 DEF SendTask, Enqueue, locals, inflight
  <2>2. FreshMoves /\ NoTurnAdded
    BY <2>1 DEF FreshMoves, NoTurnAdded, ActiveJob, StoreOK, InFlightOK
  <2> QED BY <2>1, <2>2, SpawnKept DEF SpawnInv
<1>3. ASSUME NEW t \in Threads, CancelStore(t) PROVE SpawnInv'
  <2>1. /\ UNCHANGED <<pc, cur, turn>> /\ ~Without({"cancel"})'
        /\ \A u \in Threads : tstate[u] \notin Fresh => tstate'[u] \notin Fresh
    BY <1>3, FaultSeen DEF CancelStore, locals, inflight, Without, StoreOK, Fresh
  <2>2. pc \in {"event", "finishing", "timedout", "failed", "launch"} => ThreadOf[cur] \in Threads
    BY FabricAssumption DEF CurInv, Working
  <2> QED BY <2>1, <2>2 DEF SpawnInv, SpawningHasWork
<1>4. CASE \/ \E t \in Threads : CancelSignal(t) \/ CancelAuditFails(t)
           \/ Engines \/ (\E j \in Jobs : LeaseExpires(j)) \/ UNCHANGED vars
  <2>1. UNCHANGED <<tstate, jstate, turn, pc, cur>>
    BY <1>4 DEF CancelSignal, CancelAuditFails, Engines, EngineAccept, EngineFinal, EngineFails,
       EngineRejects, EngineDies, LeaseExpires, vars, store, inflight, locals
  <2>2. FreshMoves /\ NoTurnAdded BY <2>1 DEF FreshMoves, NoTurnAdded, InFlightOK
  <2> QED BY <2>1, <2>2, SpawnKept DEF SpawnInv
<1>5. CASE BeginTick
  <2>1. /\ pc' \in {"start", "drain"} /\ UNCHANGED tstate /\ NoTurnAdded /\ pc = "begin"
        /\ \A j \in Jobs : jstate'[j] = IF Lapsed(j) THEN "queued" ELSE jstate[j]
    BY <1>5, DropMoves DEF BeginTick, Goto
  <2>2. FreshMoves BY <2>1 DEF FreshMoves, ActiveJob
  <2> QED BY <2>1, <2>2, SpawnKept
<1>6. ASSUME NEW t \in Threads, Poll(t) PROVE SpawnInv'
  <2>1. UNCHANGED <<tstate, jstate, turn>> /\ pc = "drain" /\ cur' = turn[t] /\ turn[t] # NoJob
    BY <1>6 DEF Poll, TodoInv, store, inflight
  <2>2. tstate'[ThreadOf[cur']] \notin Fresh BY <2>1 DEF TurnInv, SpawnInv
  <2>3. FreshMoves /\ NoTurnAdded BY <2>1 DEF FreshMoves, NoTurnAdded, InFlightOK
  <2> QED BY <2>1, <2>2, <2>3, SpawnKept
<1>7. CASE \/ EventsDone \/ (\E t \in Threads : TurnHealthy(t)) \/ (\E c \in Cells : SkipCell(c))
           \/ CheckThread \/ LaunchAuditFails
  <2>1. UNCHANGED <<tstate, jstate, turn>> /\ pc # "boot"
    BY <1>7 DEF EventsDone, TurnHealthy, SkipCell, CheckThread, LaunchAuditFails, store, inflight
  <2>2. pc' \notin {"event", "finishing", "timedout", "failed", "launch"}
    BY <1>7 DEF EventsDone, TurnHealthy, SkipCell, CheckThread, LaunchAuditFails,
       AfterDrain, AfterDeath, AfterStart, EndTick, Goto
  <2>3. FreshMoves /\ NoTurnAdded BY <2>1 DEF FreshMoves, NoTurnAdded, InFlightOK
  <2> QED BY <2>1, <2>2, <2>3, SpawnKept
<1>8. CASE OnAccepted
  <2>1. UNCHANGED <<tstate, jstate, turn, pc, cur>> BY <1>8 DEF OnAccepted
  <2>2. FreshMoves /\ NoTurnAdded BY <2>1 DEF FreshMoves, NoTurnAdded, InFlightOK
  <2> QED BY <2>1, <2>2, SpawnKept DEF SpawnInv
<1>9. CASE OnFinal \/ OnFailed \/ SpawnFails \/ StartFails
  <2>1. /\ cur \in Jobs /\ tstate[ThreadOf[cur]] \notin Fresh /\ pc # "boot"
        /\ UNCHANGED <<tstate, turn, cur>> /\ (FinishJob(cur) \/ RequeueJob(cur))
    BY <1>9 DEF OnFinal, OnFailed, SpawnFails, StartFails, FailTurn, CurInv, Working, SpawnInv,
       inflight, locals
  <2>2. FreshMoves BY <2>1, EndsFresh DEF FreshMoves
  <2>3. NoTurnAdded BY <2>1 DEF NoTurnAdded, InFlightOK
  <2> QED BY <2>1, <2>2, <2>3, SpawnKept
<1>10. CASE FinalIdle \/ FailThread
  <2>1. /\ cur \in Jobs /\ tstate[ThreadOf[cur]] \notin Fresh /\ pc # "boot" /\ UNCHANGED jstate
        /\ \/ UNCHANGED tstate
           \/ tstate' = [tstate EXCEPT ![ThreadOf[cur]] = "idle"]
           \/ tstate' = [tstate EXCEPT ![ThreadOf[cur]] = "failed_unknown"]
    BY <1>10 DEF FinalIdle, FailThread, CurInv, Working, SpawnInv, CurThread
  <2>2. FreshMoves BY <2>1 DEF FreshMoves, Fresh, StoreOK
  <2>3. NoTurnAdded BY <1>10, MovesStep DEF Moves, Launch, FinalIdle, FailThread
  <2>4. pc' \notin {"event", "finishing", "timedout", "failed", "launch"}
    BY <1>10 DEF FinalIdle, FailThread, AfterDrain, AfterDeath, AfterStart, EndTick, Goto
  <2> QED BY <2>1, <2>2, <2>3, <2>4, SpawnKept
<1>11. ASSUME NEW t \in Threads, EngineDeath(t) PROVE SpawnInv'
  <2>1. /\ turn[t] \in Jobs /\ tstate[ThreadOf[turn[t]]] \notin Fresh /\ pc = "death"
        /\ cur' = turn[t] /\ UNCHANGED <<tstate, turn>>
        /\ (FinishJob(turn[t]) \/ RequeueJob(turn[t]))
    BY <1>11 DEF EngineDeath, FailTurn, TodoInv, TurnInv, SpawnInv, inflight
  <2>2. FreshMoves BY <2>1, EndsFresh DEF FreshMoves
  <2>3. NoTurnAdded BY <2>1 DEF NoTurnAdded, InFlightOK
  <2> QED BY <2>1, <2>2, <2>3, SpawnKept
<1>12. ASSUME NEW t \in Threads, TurnTimeout(t) PROVE SpawnInv'
  <2>1. /\ pc = "death" /\ UNCHANGED jstate /\ NoTurnAdded
        /\ turn[t] \in Jobs /\ ThreadOf[turn[t]] = t /\ tstate[t] \notin Fresh
    BY <1>12, DropMoves DEF TurnTimeout, TodoInv, TurnInv, SpawnInv
  <2>2. UNCHANGED tstate \/ tstate' = [tstate EXCEPT ![t] = "timeout"] BY <1>12 DEF TurnTimeout
  <2>3. pc' = "begin" \/ (pc' = "timedout" /\ cur' = turn[t])
    BY <1>12 DEF TurnTimeout, EndTick, Goto
  <2>4. FreshMoves BY <2>1, <2>2 DEF FreshMoves, Fresh, StoreOK
  <2>5. tstate'[t] \notin Fresh BY <2>1, <2>4 DEF FreshMoves
  <2> QED BY <2>1, <2>3, <2>4, <2>5, SpawnKept
<1>13. CASE TimeoutJob
  <2>1. /\ cur \in Jobs /\ tstate[ThreadOf[cur]] \notin Fresh /\ pc = "timedout"
        /\ UNCHANGED <<tstate, turn>> /\ (FinishJob(cur) \/ RequeueJob(cur))
        /\ pc' \notin {"event", "finishing", "timedout", "failed", "launch"}
    BY <1>13 DEF TimeoutJob, CurInv, Working, SpawnInv, inflight, AfterDeath, EndTick, Goto
  <2>2. FreshMoves BY <2>1, EndsFresh DEF FreshMoves
  <2>3. NoTurnAdded BY <2>1 DEF NoTurnAdded, InFlightOK
  <2> QED BY <2>1, <2>2, <2>3, SpawnKept
<1>14. CASE (\E c \in Cells, j \in Jobs : Lease(c, j)) \/ MarkStarted
  <2>1. /\ pc # "boot" /\ pc' \in {"leased", "marking"} /\ UNCHANGED <<tstate, turn>>
        /\ \A j \in Jobs : jstate'[j] = jstate[j] \/ jstate'[j] \in ActiveJob
    BY <1>14 DEF Lease, MarkStarted, StoreOK, ActiveJob, inflight
  <2>2. FreshMoves BY <2>1 DEF FreshMoves
  <2>3. NoTurnAdded BY <2>1 DEF NoTurnAdded, InFlightOK
  <2> QED BY <2>1, <2>2, <2>3, SpawnKept
<1>15. CASE RunThread
  <2>1. /\ pc = "marking" /\ UNCHANGED <<jstate, turn>> /\ cur \in Jobs /\ ThreadOf[cur] \in Threads
        /\ \/ UNCHANGED tstate /\ pc' = "begin"
           \/ /\ tstate' = [tstate EXCEPT ![ThreadOf[cur]] = "running"]
              /\ pc' = "launch" /\ cur' = cur
    BY <1>15, FabricAssumption DEF RunThread, EndTick, Goto, CurThread, CurInv, Working, inflight,
       locals
  <2>2. FreshMoves BY <2>1 DEF FreshMoves, Fresh, StoreOK
  <2>3. NoTurnAdded BY <2>1 DEF NoTurnAdded, InFlightOK
  <2> QED BY <2>1, <2>2, <2>3, SpawnKept DEF Fresh, StoreOK
<1>16. CASE Launch
  <2>1. /\ pc = "launch" /\ UNCHANGED <<tstate, jstate>> /\ cur \in Jobs
        /\ turn' = [turn EXCEPT ![ThreadOf[cur]] = cur]
        /\ pc' \notin {"event", "finishing", "timedout", "failed", "launch", "boot"}
    BY <1>16 DEF Launch, CurThread, CurInv, Working, store, AfterStart, EndTick, Goto
  <2>2. \A t \in Threads : turn'[t] # NoJob => tstate'[t] \notin Fresh
    BY <2>1 DEF SpawnInv, InFlightOK
  <2>3. SpawningHasWork' BY <2>1, WithoutBefore DEF SpawnInv, SpawningHasWork
  <2> QED BY <2>1, <2>2, <2>3 DEF SpawnInv
<1>17. ASSUME Killed, UNCHANGED tstate PROVE SpawnInv'
  <2>1. pc' = "boot" /\ \A t \in Threads : turn'[t] = NoJob BY <1>17 DEF Killed, Goto, DropTurns
  <2> QED BY <2>1 DEF SpawnInv, SpawningHasWork
(* boot_recovery leaves no thread in spawning. *)
<1>18. CASE Boot
  <2>1. /\ pc = "boot" /\ pc' = "begin" /\ UNCHANGED <<jstate, turn>>
        /\ \A t \in Threads : /\ tstate'[t] # "spawning"
                              /\ tstate[t] \notin Fresh => tstate'[t] \notin Fresh
    BY <1>18 DEF Boot, inflight, Fresh
  <2>2. FreshMoves BY <2>1 DEF FreshMoves
  <2>3. NoTurnAdded BY <2>1 DEF NoTurnAdded, InFlightOK
  <2> QED BY <2>1, <2>2, <2>3, SpawnKept
<1> QED
  BY <1>1, <1>2, <1>3, <1>4, <1>5, <1>6, <1>7, <1>8, <1>9, <1>10, <1>11, <1>12, <1>13, <1>14,
     <1>15, <1>16, <1>17, <1>18
     DEF Next, Tick, Handlers, DrainSteps, DeathSteps, StartSteps, TimeSteps, Crash, CancelTorn,
         store

(* A thread in spawning has an active job, which will take it out of       *)
(* spawning: without a cancel no cell is busy for nothing.                 *)
THEOREM SpawnedWork == Spec => []SpawningHasWork
<1>1. Init => SpawnInv BY DEF Init, SpawnInv, SpawningHasWork
<1>2. IInv /\ SpawnInv /\ [Next]_vars => SpawnInv' BY SpawnStep
<1>3. SpawnInv => SpawningHasWork BY DEF SpawnInv
<1> QED BY <1>1, <1>2, <1>3, Invariance, PTL DEF Spec

-----------------------------------------------------------------------------
(***************************************************************************)
(* Events are about the turn that is drained.                              *)
(***************************************************************************)

TurnsOf(c) == {turn[t] : t \in {u \in Threads : CellOf[u] = c /\ turn[u] # NoJob}}

Over(s) == \E i \in 1..Len(s) : s[i].kind # "accepted"

(* The engine of a cell works on nothing but the cell's turn, and what it  *)
(* said and was not polled is about that turn; when it has said how the    *)
(* turn ended, it has nothing more to say.                                 *)
Channel(c) ==
    /\ work[c] = <<>> \/ \E j \in TurnsOf(c) : work[c] = <<Heard(j)>>
    /\ \A i \in 1..Len(outbox[c]) : outbox[c][i].job \in TurnsOf(c)
    /\ Over(outbox[c]) => work[c] = <<>>

Silent(c) == work[c] = <<>> /\ outbox[c] = <<>>

(* ... and neither does it when the end of the turn was polled.  Only a   *)
(* timeout takes a turn and leaves the engine at work on it, and only a    *)
(* codex call given up leaves it at work on what never was a turn.         *)
ChannelInv ==
    Without({"timeout", "lostack"}) =>
      /\ \A c \in Cells : Channel(c)
      /\ pc = "event" =>
           /\ \A i \in 1..Len(events) : events[i].job = cur
           /\ Over(events) => Silent(JobCell(cur))
      /\ pc = "finishing" \/ (pc = "failed" /\ reason = "engine_failed") => Silent(JobCell(cur))

LEMMA ChannelKept ==
  ASSUME NEW c \in Cells, Channel(c), work'[c] = work[c], outbox'[c] = outbox[c],
         \A t \in Threads : CellOf[t] = c => turn'[t] = turn[t]
  PROVE  Channel(c)'
<1>1. TurnsOf(c)' = TurnsOf(c) BY DEF TurnsOf
<1> QED BY <1>1 DEF Channel, Over

LEMMA ChannelEmpty ==
  ASSUME NEW c \in Cells, work'[c] = <<>>, outbox'[c] = <<>> PROVE Channel(c)'
  BY DEF Channel, Over

LEMMA WorkingCell ==
  ASSUME IInv, pc \in Working
  PROVE  cur \in Jobs /\ ThreadOf[cur] \in Threads /\ JobCell(cur) \in Cells
         /\ JobCell(cur) = CellOf[ThreadOf[cur]]
  BY FabricAssumption DEF IInv, CurInv, JobCell

(* What leaves the engines and the turns alone. *)
LEMMA StillChannel ==
  ASSUME IInv, ChannelInv, [Next]_vars, UNCHANGED <<work, outbox, turn>>,
         pc' = "event" => pc = "event" /\ UNCHANGED <<cur, events>>,
         pc' = "finishing" \/ (pc' = "failed" /\ reason' = "engine_failed") =>
            pc' = pc /\ UNCHANGED <<cur, reason>>
  PROVE  ChannelInv'
<1>1. ASSUME Without({"timeout", "lostack"})', NEW c \in Cells PROVE Channel(c)'
  BY <1>1, WithoutBefore, ChannelKept DEF ChannelInv
<1> QED BY <1>1, WithoutBefore DEF ChannelInv, Silent, Over

(* What drops a turn drops it where the engine has nothing left to say of  *)
(* it, and goes back to a loop.                                            *)
LEMMA DroppedChannel ==
  ASSUME IInv, ChannelInv, [Next]_vars, NEW c \in Cells, work'[c] = <<>>, outbox'[c] = <<>>,
         \A d \in Cells \ {c} : work'[d] = work[d] /\ outbox'[d] = outbox[d],
         \A t \in Threads : CellOf[t] # c => turn'[t] = turn[t],
         pc' \notin {"event", "finishing", "failed"}
  PROVE  ChannelInv'
<1>1. ASSUME Without({"timeout", "lostack"})', NEW d \in Cells PROVE Channel(d)'
  BY <1>1, WithoutBefore, ChannelKept, ChannelEmpty DEF ChannelInv
<1> QED BY <1>1 DEF ChannelInv

(* An engine says something about the turn it is at. *)
LEMMA EmitChannel ==
  ASSUME IInv, ChannelInv, [Next]_vars, NEW c \in Cells, NEW kind, work[c] # <<>>, Emit(c, kind),
         (kind = "accepted" /\ UNCHANGED work) \/ work' = [work EXCEPT ![c] = Tail(@)],
         UNCHANGED <<turn, pc, cur, events, reason>>
  PROVE  ChannelInv'
<1> SUFFICES ASSUME Without({"timeout", "lostack"})' PROVE ChannelInv' BY DEF ChannelInv
<1>1. Channel(c) /\ Without({"timeout", "lostack"}) BY WithoutBefore DEF ChannelInv
<1>2. PICK j \in TurnsOf(c) : work[c] = <<Heard(j)>> BY <1>1 DEF Channel
<1> DEFINE e == [kind |-> kind, job |-> j]
<1>3. outbox' = [outbox EXCEPT ![c] = Append(outbox[c], e)]
  <2>1. Head(work[c]).job = j BY <1>2 DEF Heard
  <2> QED BY <2>1 DEF Emit
<1>4. outbox[c] \in Seq(EngineEvent) /\ outbox \in [Cells -> Seq(EngineEvent)]
      /\ work \in [Cells -> Seq(Task)]
  BY DEF IInv, TypeOK, EnginesOK
<1>5. /\ \A d \in Cells \ {c} : outbox'[d] = outbox[d] /\ work'[d] = work[d]
      /\ outbox'[c] = Append(outbox[c], e)
      /\ work'[c] = work[c] \/ work'[c] = <<>>
      /\ kind # "accepted" => work'[c] = <<>>
  BY <1>2, <1>3, <1>4
<1>6. TurnsOf(c)' = TurnsOf(c) BY DEF TurnsOf
<1>7. e.job = j /\ e.kind = kind OBVIOUS
<1> HIDE DEF e
<1>8. Len(outbox[c]) \in Nat /\ Len(outbox'[c]) = Len(outbox[c]) + 1
      /\ \A i \in 1..Len(outbox'[c]) : outbox'[c][i] = IF i <= Len(outbox[c]) THEN outbox[c][i] ELSE e
  BY <1>4, <1>5
<1>9. \A i \in 1..Len(outbox'[c]) : outbox'[c][i] = e \/ (i \in 1..Len(outbox[c]) /\ outbox'[c][i] = outbox[c][i])
  BY <1>8
<1>10. Channel(c)'
  <2>1. \A i \in 1..Len(outbox'[c]) : outbox'[c][i].job \in TurnsOf(c)
    BY <1>1, <1>7, <1>9 DEF Channel
  <2>2. work'[c] = <<>> \/ work'[c] = <<Heard(j)>> BY <1>2, <1>5
  <2>3. Over(outbox[c])' => work'[c] = <<>>
    <3>1. ~Over(outbox[c]) BY <1>1 DEF Channel
    <3>2. \A i \in 1..Len(outbox[c]) : outbox[c][i].kind = "accepted" BY <3>1 DEF Over
    <3> QED BY <1>5, <1>7, <1>9, <3>2 DEF Over
  <2> QED BY <1>6, <2>1, <2>2, <2>3 DEF Channel
<1>11. ASSUME NEW d \in Cells PROVE Channel(d)'
  <2>1. CASE d = c BY <1>10, <2>1
  <2>2. CASE d # c BY <1>1, <1>5, <2>2, ChannelKept DEF ChannelInv
  <2> QED BY <2>1, <2>2
<1>12. ASSUME pc \in {"event", "finishing", "failed"}, Silent(JobCell(cur)) PROVE Silent(JobCell(cur))'
  <2>1. JobCell(cur) \in Cells /\ JobCell(cur) # c
    BY <1>12, WorkingCell DEF Silent, Working
  <2> QED BY <1>5, <1>12, <2>1 DEF Silent, JobCell
<1> QED BY <1>1, <1>11, <1>12 DEF ChannelInv, Over

(* What it answers to the call that started the turn is read. *)
LEMMA AnswerEmitted ==
  ASSUME ChannelInv, [Next]_vars, Without({"timeout", "lostack"})', NEW c \in Cells, work[c] # <<>>,
         NEW kind, EmitAnswer(c, kind)
  PROVE  Emit(c, kind)
<1>1. Channel(c) BY WithoutBefore DEF ChannelInv
<1>2. PICK j \in TurnsOf(c) : work[c] = <<Heard(j)>> BY <1>1 DEF Channel
<1> QED BY <1>2 DEF EmitAnswer, Heard

LEMMA ChannelStep == ASSUME IInv, ChannelInv, [Next]_vars PROVE ChannelInv'
<1> USE DEF IInv, TypeOK
<1>1. CASE Handlers \/ (\E j \in Jobs : LeaseExpires(j)) \/ UNCHANGED vars
  BY <1>1, StillChannel DEF Handlers, Spawn, SendTask, CancelStore, CancelSignal, CancelAuditFails,
     LeaseExpires, vars, inflight, locals, engines
<1>2. CASE BeginTick
  <2>1. /\ \A t \in Threads : CellOf[t] \notin cancels => turn'[t] = turn[t]
        /\ \A c \in Cells : IF c \in cancels THEN work'[c] = <<>> /\ outbox'[c] = <<>>
                            ELSE work'[c] = work[c] /\ outbox'[c] = outbox[c]
        /\ pc' \in {"start", "drain"}
    BY <1>2 DEF BeginTick, DropTurns, StopEngines, Goto
  <2>2. ASSUME Without({"timeout", "lostack"})', NEW c \in Cells PROVE Channel(c)'
    BY <2>1, <2>2, WithoutBefore, ChannelKept, ChannelEmpty DEF ChannelInv
  <2> QED BY <2>1, <2>2 DEF ChannelInv
(* All that was said is polled, and it is about the one turn of the cell.  *)
<1>3. ASSUME NEW t \in Threads, Poll(t) PROVE ChannelInv'
  <2> DEFINE c == CellOf[t]
  <2>1. /\ turn[t] # NoJob /\ turn[t] \in Jobs /\ ThreadOf[turn[t]] = t /\ c \in Cells
        /\ pc' = "event" /\ cur' = turn[t] /\ events' = outbox[c]
        /\ outbox' = [outbox EXCEPT ![c] = <<>>] /\ UNCHANGED <<work, turn>>
    BY <1>3, FabricAssumption DEF Poll, TodoInv, TurnInv, inflight
  <2>2. outbox'[c] = <<>> /\ (\A d \in Cells \ {c} : outbox'[d] = outbox[d]) /\ JobCell(cur') = c
    BY <2>1 DEF EnginesOK, JobCell
  <2>3. TurnsOf(c) \subseteq {turn[t]} BY <2>1 DEF TurnsOf, OneTurnPerCell, InFlightThreads
  <2> HIDE DEF c
  <2>4. ASSUME Without({"timeout", "lostack"})' PROVE ChannelInv'
    <3>1. \A d \in Cells : Channel(d) BY <2>4, WithoutBefore DEF ChannelInv
    <3>2. Channel(c)'
      <4>1. TurnsOf(c)' = TurnsOf(c) BY <2>1 DEF TurnsOf
      <4> QED BY <2>1, <2>2, <3>1, <4>1 DEF Channel, Over
    <3>3. ASSUME NEW d \in Cells PROVE Channel(d)' BY <2>1, <2>2, <3>1, <3>2, ChannelKept
    <3>4. \A i \in 1..Len(events') : events'[i].job = cur' BY <2>1, <2>3, <3>1 DEF Channel
    <3>5. Over(events)' => Silent(JobCell(cur))'
      <4>1. Over(events)' => work'[c] = <<>> BY <2>1, <3>1 DEF Channel, Over
      <4> QED BY <2>2, <4>1 DEF Silent, JobCell
    <3> QED BY <2>1, <3>3, <3>4, <3>5 DEF ChannelInv
  <2> QED BY <2>4 DEF ChannelInv
<1>4. CASE \/ EventsDone \/ (\E t \in Threads : TurnHealthy(t)) \/ TimeoutJob
           \/ (\E c \in Cells : SkipCell(c)) \/ (\E c \in Cells, j \in Jobs : Lease(c, j))
           \/ CheckThread \/ MarkStarted \/ RunThread \/ LaunchAuditFails
  <2>1. UNCHANGED <<work, outbox, turn>>
    BY <1>4 DEF EventsDone, TurnHealthy, TimeoutJob, SkipCell, Lease, CheckThread, MarkStarted,
       RunThread, LaunchAuditFails, inflight, engines
  <2>2. pc' \notin {"event", "finishing", "failed"}
    BY <1>4 DEF EventsDone, TurnHealthy, TimeoutJob, SkipCell, Lease, CheckThread, MarkStarted,
       RunThread, LaunchAuditFails, AfterDrain, AfterDeath, AfterStart, EndTick, Goto
  <2> QED BY <2>1, <2>2, StillChannel
<1>5. CASE OnAccepted
  <2>1. UNCHANGED <<work, outbox, turn, pc, cur>> /\ pc = "event" /\ events' = Tail(events)
        /\ events # <<>> /\ events \in Seq(EngineEvent)
    BY <1>5 DEF OnAccepted, engines, TickOK
  <2>2. \A i \in 1..Len(events') : i + 1 \in 1..Len(events) /\ events'[i] = events[i + 1]
    BY <2>1
  <2>3. ASSUME Without({"timeout", "lostack"})' PROVE ChannelInv'
    <3>1. \A c \in Cells : Channel(c)' BY <2>1, <2>3, WithoutBefore, ChannelKept DEF ChannelInv
    <3>2. \A i \in 1..Len(events') : events'[i].job = cur'
      BY <2>1, <2>2, <2>3, WithoutBefore DEF ChannelInv
    <3>3. Over(events)' => Over(events) BY <2>2 DEF Over
    <3>4. Over(events)' => Silent(JobCell(cur))'
      BY <2>1, <2>3, <3>3, WithoutBefore DEF ChannelInv, Silent
    <3> QED BY <2>1, <3>1, <3>2, <3>4 DEF ChannelInv
  <2> QED BY <2>3 DEF ChannelInv
(* The event that is processed is the end of the turn. *)
<1>6. CASE OnFinal \/ OnFailed
  <2>1. /\ UNCHANGED <<work, outbox, turn, cur>> /\ pc = "event" /\ pc' \in {"finishing", "failed"}
        /\ events # <<>> /\ events \in Seq(EngineEvent) /\ Head(events).kind # "accepted"
    BY <1>6 DEF OnFinal, OnFailed, FailTurn, TickOK, inflight, locals, engines
  <2>2. Over(events)
    <3>1. 1 \in 1..Len(events) /\ Head(events) = events[1] BY <2>1
    <3> QED BY <2>1, <3>1 DEF Over
  <2>3. ASSUME Without({"timeout", "lostack"})' PROVE ChannelInv'
    <3>1. \A c \in Cells : Channel(c)' BY <2>1, <2>3, WithoutBefore, ChannelKept DEF ChannelInv
    <3>2. Silent(JobCell(cur))' BY <2>1, <2>2, <2>3, WithoutBefore DEF ChannelInv, Silent
    <3> QED BY <2>1, <3>1, <3>2 DEF ChannelInv
  <2> QED BY <2>3 DEF ChannelInv
<1>7. CASE FinalIdle \/ FailThread
  <2>1. pc \in Working /\ pc' \notin {"event", "finishing", "failed"}
    BY <1>7 DEF FinalIdle, FailThread, Working, AfterDrain, AfterDeath, AfterStart, EndTick, Goto
  <2>2. CASE UNCHANGED <<work, outbox, turn>> BY <2>1, <2>2, StillChannel
  <2>3. CASE UNCHANGED <<work, outbox>> /\ DropTurns({CurThread})
             /\ (pc = "finishing" \/ (pc = "failed" /\ reason = "engine_failed"))
    <3> DEFINE c == JobCell(cur)
    <3>1. \A t \in Threads : CellOf[t] # c => turn'[t] = turn[t]
      BY <2>3 DEF DropTurns, CurThread, JobCell
    <3>2. c \in Cells BY <2>1, WorkingCell
    <3>3. Without({"timeout", "lostack"})' => Silent(c) BY <2>3, WithoutBefore DEF ChannelInv
    <3> HIDE DEF c
    <3>4. CASE Silent(c) BY <2>1, <2>3, <3>1, <3>2, <3>4, DroppedChannel DEF Silent
    <3> QED BY <3>3, <3>4 DEF ChannelInv
  <2>4. CASE StopEngines({CurCell}) /\ DropTurns({CurThread})
    <3> DEFINE c == JobCell(cur)
    <3>1. /\ \A t \in Threads : CellOf[t] # c => turn'[t] = turn[t]
      BY <2>4 DEF DropTurns, CurThread, JobCell
    <3>2. c \in Cells BY <2>1, WorkingCell
    <3>3. work'[c] = <<>> /\ outbox'[c] = <<>>
          /\ \A d \in Cells \ {c} : work'[d] = work[d] /\ outbox'[d] = outbox[d]
      BY <2>4, <3>2 DEF StopEngines, CurCell
    <3> HIDE DEF c
    <3> QED BY <2>1, <3>1, <3>2, <3>3, DroppedChannel
  <2> QED BY <1>7, <2>2, <2>3, <2>4 DEF FinalIdle, FailThread, inflight, engines
<1>8. ASSUME NEW t \in Threads, EngineDeath(t) PROVE ChannelInv'
  BY <1>8, StillChannel DEF EngineDeath, FailTurn, inflight, engines
<1>9. ASSUME NEW t \in Threads, TurnTimeout(t) PROVE ChannelInv'
  BY <1>9, FaultSeen DEF TurnTimeout, Without, ChannelInv
(* The cell has no turn, so its engine is silent. *)
<1>10. CASE Launch
  <2>0. PICK c \in Cells : c = JobCell(cur) BY <1>10, WorkingCell DEF Launch, Working
  <2>1. /\ cur \in Jobs /\ ThreadOf[cur] \in Threads /\ c = CellOf[ThreadOf[cur]]
        /\ pc' \notin {"event", "finishing", "failed"}
    BY <1>10, <2>0, WorkingCell DEF Launch, Working, AfterStart, EndTick, Goto
  <2>2. /\ work' = [work EXCEPT ![c] = Append(work[c], Heard(cur))] /\ UNCHANGED outbox
        /\ turn' = [turn EXCEPT ![ThreadOf[cur]] = cur]
    BY <1>10, <2>0 DEF Launch, CurThread, CurCell
  <2>3. \A t \in Threads : CellOf[t] = c => turn[t] = NoJob
    BY <1>10, <2>1 DEF Launch, StartInv, Starting
  <2>4. TurnsOf(c) = {} BY <2>3 DEF TurnsOf
  <2>5. cur \in TurnsOf(c)'
    <3>1. turn'[ThreadOf[cur]] = cur /\ cur # NoJob
      BY <2>1, <2>2, FabricAssumption DEF InFlightOK
    <3> QED BY <2>1, <3>1 DEF TurnsOf
  <2>6. /\ \A d \in Cells \ {c} : work'[d] = work[d]
        /\ \A t \in Threads : CellOf[t] # c => turn'[t] = turn[t]
        /\ work'[c] = Append(work[c], Heard(cur)) /\ outbox[c] \in Seq(EngineEvent)
    BY <2>1, <2>2 DEF EnginesOK, InFlightOK
  <2>7. ASSUME Without({"timeout", "lostack"})', NEW d \in Cells PROVE Channel(d)'
    <3>1. \A b \in Cells : Channel(b) BY <2>7, WithoutBefore DEF ChannelInv
    <3>2. CASE d = c
      <4>1. work[c] = <<>> /\ Len(outbox[c]) = 0
        <5>1. work[c] = <<>> BY <2>1, <2>4, <3>1 DEF Channel
        <5>2. \A i \in 1..Len(outbox[c]) : FALSE BY <2>1, <2>4, <3>1 DEF Channel
        <5> QED BY <2>6, <5>1, <5>2
      <4>2. work'[c] = <<Heard(cur)>> BY <2>6, <4>1
      <4>3. \A i \in 1..Len(outbox'[c]) : FALSE BY <2>2, <4>1
      <4>4. ~Over(outbox[c])' BY <4>3 DEF Over
      <4>5. \E j \in TurnsOf(c)' : work'[c] = <<Heard(j)>> BY <2>5, <4>2
      <4>6. Channel(c)' BY <4>3, <4>4, <4>5 DEF Channel
      <4> QED BY <3>2, <4>6
    <3>3. CASE d # c BY <2>2, <2>6, <3>1, <3>3, ChannelKept
    <3> QED BY <3>2, <3>3
  <2> QED BY <2>1, <2>7 DEF ChannelInv
<1>11. CASE SpawnFails \/ StartFails
  <2>1. UNCHANGED <<outbox, turn>> /\ pc' = "failed" /\ reason' # "engine_failed"
    BY <1>11 DEF SpawnFails, StartFails, FailTurn, inflight, engines
  <2>2. CASE UNCHANGED work BY <2>1, <2>2, StillChannel
  <2>3. CASE StartUnheard BY <2>3, FaultSeen DEF StartUnheard, Without, ChannelInv
  <2> QED BY <1>11, <2>2, <2>3 DEF SpawnFails, StartFails, engines
(* Somebody reads what the engine answers of the turn.                     *)
<1>12. ASSUME NEW c \in Cells, EngineAccept(c) PROVE ChannelInv'
  <2>1. ASSUME Without({"timeout", "lostack"})' PROVE Emit(c, "accepted")
    BY <1>12, <2>1, AnswerEmitted DEF EngineAccept
  <2>2. ASSUME Emit(c, "accepted") PROVE ChannelInv'
    BY <1>12, <2>2, EmitChannel DEF EngineAccept, inflight, locals
  <2> QED BY <2>1, <2>2 DEF ChannelInv
<1>13. ASSUME NEW c \in Cells, EngineFinal(c) \/ EngineFails(c) \/ EngineRejects(c) PROVE ChannelInv'
  <2>1. ASSUME Without({"timeout", "lostack"})' PROVE \E kind \in {"final", "failed"} : Emit(c, kind)
    BY <1>13, <2>1, AnswerEmitted DEF EngineFinal, EngineFails, EngineRejects
  <2>2. /\ work[c] # <<>> /\ work' = [work EXCEPT ![c] = Tail(@)]
        /\ UNCHANGED <<turn, pc, cur, events, reason>>
    BY <1>13 DEF EngineFinal, EngineFails, EngineRejects, EndTurn, inflight, locals
  <2>3. ASSUME NEW kind \in {"final", "failed"}, Emit(c, kind) PROVE ChannelInv'
    BY <2>2, <2>3, EmitChannel
  <2> QED BY <2>1, <2>3 DEF ChannelInv
(* What a dead process wrote stays to be polled. *)
<1>14. ASSUME NEW c \in Cells, EngineDies(c) PROVE ChannelInv'
  <2>1. /\ UNCHANGED <<turn, pc, cur, events, reason, outbox>>
        /\ work'[c] = <<>> /\ \A d \in Cells \ {c} : work'[d] = work[d]
    BY <1>14 DEF EngineDies, inflight, locals, EnginesOK
  <2>2. ASSUME Without({"timeout", "lostack"})' PROVE ChannelInv'
    <3>1. \A d \in Cells : Channel(d) BY <2>2, WithoutBefore DEF ChannelInv
    <3>2. ASSUME NEW d \in Cells PROVE Channel(d)'
      <4>1. TurnsOf(d)' = TurnsOf(d) BY <2>1 DEF TurnsOf
      <4> QED BY <2>1, <3>1, <4>1 DEF Channel, Over
    <3>3. pc \in Working /\ Silent(JobCell(cur)) => Silent(JobCell(cur))'
      BY <2>1, WorkingCell DEF Silent, JobCell
    <3> QED BY <2>1, <2>2, <3>2, <3>3, WithoutBefore DEF ChannelInv, Over, Working
  <2> QED BY <2>2 DEF ChannelInv
<1>15. CASE Killed
  <2>1. pc' = "boot" /\ \A c \in Cells : work'[c] = <<>> /\ outbox'[c] = <<>>
    BY <1>15 DEF Killed, Goto, StopEngines
  <2> QED BY <2>1, ChannelEmpty DEF ChannelInv
<1>16. CASE Boot
  BY <1>16, StillChannel DEF Boot, inflight, locals, engines
<1> QED
  BY <1>1, <1>2, <1>3, <1>4, <1>5, <1>6, <1>7, <1>8, <1>9, <1>10, <1>11, <1>12, <1>13, <1>14,
     <1>15, <1>16
     DEF Next, Tick, DrainSteps, DeathSteps, StartSteps, Engines, TimeSteps, Crash, CancelTorn

(* drain_turn attributes no event to a thread whose turn it is not about,  *)
(* whatever is cancelled, fails, dies or is killed, unless a turn timed    *)
(* out or a codex call was given up after turn/start was written.          *)
THEOREM Attribution == Spec => []EventsAttributed
<1>1. Init => ChannelInv BY DEF Init, ChannelInv, Channel, Over
<1>2. IInv /\ ChannelInv /\ [Next]_vars => ChannelInv' BY ChannelStep
<1>3. IInv /\ ChannelInv => EventsAttributed
  <2> SUFFICES ASSUME IInv, ChannelInv, pc = "event", Without({"timeout", "lostack"})
               PROVE  \A i \in DOMAIN events : events[i].job = cur
    BY DEF EventsAttributed
  <2>1. DOMAIN events = 1..Len(events) BY DEF IInv, TypeOK, TickOK
  <2> QED BY <2>1 DEF ChannelInv
<1> QED BY <1>1, <1>2, <1>3, Invariance, PTL DEF Spec

-----------------------------------------------------------------------------
(***************************************************************************)
(* The three records of a turn agree, and turns start in order.            *)
(***************************************************************************)

Quiet == Without({"cancel", "crash", "slow", "auditfail"})

(* Where the thread being worked on is between two of its records. *)
Unsettled == {"finishing", "timedout", "failed", "marking", "launch"}

Agree(t) ==
    /\ tstate[t] = "running" <=> turn[t] # NoJob
    /\ turn[t] # NoJob => jstate[turn[t]] = "started" /\ (acc[turn[t]] <=> turnAcc[t])

(* A started job has its turn or is the one being worked on, a leased one  *)
(* is being started, a queued one was never accepted, no lease passed.     *)
Tidy(j) ==
    /\ lease[j] # "expired"
    /\ jstate[j] # "none" => tstate[ThreadOf[j]] # "none"
    /\ acc[j] => jstate[j] \in {"started", "finished"}
    /\ jstate[j] = "leased" => pc \in {"leased", "checked"} /\ cur = j
    /\ jstate[j] = "started" => turn[ThreadOf[j]] = j \/ (pc \in Unsettled /\ cur = j)

(* What the thread being worked on has at each of those places. *)
Current ==
    LET t == ThreadOf[cur] IN
    /\ pc = "event" => turn[t] = cur
    /\ pc \in {"leased", "checked"} => jstate[cur] = "leased"
    /\ pc \in {"marking", "launch"} =>
          /\ jstate[cur] = "started" /\ ~acc[cur] /\ turn[t] = NoJob
          /\ tstate[t] = "running" <=> pc = "launch"
    /\ pc = "finishing" => tstate[t] = "running" /\ turn[t] = cur /\ jstate[cur] = "finished"
    /\ pc = "failed" =>
          /\ tstate[t] = "running" /\ jstate[cur] \in {"queued", "finished"}
          /\ turn[t] = IF reason \in {"engine_failed", "engine_death"} THEN cur ELSE NoJob
    /\ pc = "timedout" =>
          /\ tstate[t] = "timeout" /\ turn[t] = NoJob
          /\ jstate[cur] = "started" /\ (acc[cur] <=> accepted)

Calm ==
    /\ pc # "boot" /\ cancelling = {} /\ cancels = {}
    /\ \A j \in Jobs : Tidy(j)
    /\ \A t \in Threads : Agree(t) \/ (pc \in Unsettled /\ t = ThreadOf[cur])
    /\ Current

(* The scheduler goes back to a loop and leaves every thread settled. *)
LEMMA CalmLoop ==
  ASSUME pc' \notin Working, pc' # "boot", UNCHANGED signals, Calm,
         \A j \in Jobs : Tidy(j)', \A t \in Threads : Agree(t)'
  PROVE  Calm'
  BY DEF Calm, Current, Working, signals

(* It goes there from a settled place. *)
LEMMA CalmPasses ==
  ASSUME IInv, Calm, pc \notin Unsettled \cup {"leased", "checked"}, pc' \notin Working,
         pc' # "boot", UNCHANGED <<signals, tstate, jstate, acc, lease, inflight>>
  PROVE  Calm'
<1>1. \A j \in Jobs : Tidy(j)' BY DEF Calm, Tidy, inflight
<1>2. \A t \in Threads : Agree(t)' BY DEF Calm, Agree, inflight
<1> QED BY <1>1, <1>2, CalmLoop

(* What leaves the records alone, and the scheduler where it is. *)
LEMMA CalmKept ==
  ASSUME IInv, Calm,
         UNCHANGED <<signals, tstate, jstate, acc, lease, inflight, pc, cur, accepted, reason>>
  PROVE  Calm'
  BY DEF Calm, Tidy, Agree, Current, signals, inflight

LEMMA Submitted ==
  ASSUME IInv, Calm, NEW j \in Jobs, jstate[j] = "none",
         jstate' = [jstate EXCEPT ![j] = "queued"],
         \/ tstate[ThreadOf[j]] = "none" /\ tstate' = [tstate EXCEPT ![ThreadOf[j]] = "spawning"]
         \/ tstate[ThreadOf[j]] # "none" /\ UNCHANGED tstate,
         UNCHANGED <<signals, acc, lease, inflight, pc, cur, accepted, reason>>
  PROVE  Calm'
<1> USE DEF IInv, TypeOK
<1>1. \A k \in Jobs : jstate'[k] = IF k = j THEN "queued" ELSE jstate[k] BY DEF StoreOK
<1>2. \A t \in Threads : /\ tstate'[t] = "running" <=> tstate[t] = "running"
                         /\ tstate[t] # "none" => tstate'[t] = tstate[t]
  BY DEF StoreOK
<1>3. tstate'[ThreadOf[j]] # "none" /\ ~acc[j] BY FabricAssumption DEF StoreOK, AccInv
<1>4. ASSUME NEW k \in Jobs PROVE Tidy(k)'
  <2>1. Tidy(k) /\ ThreadOf[k] \in Threads BY FabricAssumption DEF Calm
  <2> QED BY <1>1, <1>2, <1>3, <2>1 DEF Tidy, inflight
<1>5. ASSUME NEW t \in Threads PROVE Agree(t)' \/ (pc' \in Unsettled /\ t = ThreadOf[cur'])
  <2>1. turn[t] # NoJob => turn[t] # j BY DEF TurnInv
  <2>2. turn[t] # NoJob => turn[t] \in Jobs BY DEF TurnInv
  <2>3. Agree(t) \/ (pc \in Unsettled /\ t = ThreadOf[cur]) BY DEF Calm
  <2>4. Agree(t) => Agree(t)' BY <1>1, <1>2, <2>1, <2>2 DEF Agree, inflight
  <2> QED BY <2>3, <2>4
<1>6. Current'
  <2>1. CASE pc \in Working
    <3>1. cur \in Jobs /\ ThreadOf[cur] \in Threads /\ cur # j
      BY <2>1, FabricAssumption DEF CurInv
    <3>2. jstate'[cur] = jstate[cur] /\ (tstate[ThreadOf[cur]] # "none" => tstate'[ThreadOf[cur]] = tstate[ThreadOf[cur]])
          /\ (tstate'[ThreadOf[cur]] = "running" <=> tstate[ThreadOf[cur]] = "running")
      BY <1>1, <1>2, <3>1
    <3> QED BY <3>2 DEF Calm, Current, inflight
  <2>2. CASE pc \notin Working BY <2>2 DEF Current, Working
  <2> QED BY <2>1, <2>2
<1> QED BY <1>4, <1>5, <1>6 DEF Calm, signals

(* fail_turn, first statement, of a started job. *)
LEMMA CalmFails ==
  ASSUME IInv, Calm, NEW j \in Jobs, NEW isAccepted \in BOOLEAN, NEW why,
         FailTurn(j, isAccepted, why), jstate[j] = "started", acc[j] <=> isAccepted,
         tstate[ThreadOf[j]] = "running",
         turn[ThreadOf[j]] = IF why \in {"engine_failed", "engine_death"} THEN j ELSE NoJob,
         pc \in Unsettled => cur = j,
         pc \notin {"leased", "checked"},
         UNCHANGED <<signals, tstate, acc, inflight>>
  PROVE  Calm'
<1> USE DEF IInv, TypeOK
<1>1. /\ jstate'[j] \in {"queued", "finished"} /\ (acc[j] => jstate'[j] = "finished")
      /\ \A k \in Jobs \ {j} : jstate'[k] = jstate[k]
      /\ \A k \in Jobs : lease'[k] = lease[k] \/ lease'[k] = "null"
      /\ pc' = "failed" /\ cur' = j /\ reason' = why
  BY DEF FailTurn, FinishJob, RequeueJob, StoreOK
<1>2. ASSUME NEW k \in Jobs PROVE Tidy(k)'
  <2>1. Tidy(k) BY DEF Calm
  <2> QED BY <1>1, <2>1 DEF Tidy, Unsettled, inflight
<1>3. ASSUME NEW t \in Threads, t # ThreadOf[j] PROVE Agree(t)'
  <2>1. turn[t] # NoJob => turn[t] \in Jobs /\ turn[t] # j BY <1>3 DEF TurnInv
  <2>2. Agree(t) BY <1>3 DEF Calm
  <2> QED BY <1>1, <2>1, <2>2 DEF Agree, inflight
<1>4. Current' BY <1>1 DEF Current, inflight
<1> QED BY <1>1, <1>2, <1>3, <1>4 DEF Calm, signals, Unsettled

(* The rest of fail_turn, and of the other ends of a turn: the thread has  *)
(* no turn and no started job, and does not run. *)
LEMMA CalmEnds ==
  ASSUME IInv, Calm, NEW to \in ThreadState \ {"running"}, pc \in Unsettled,
         tstate' = [tstate EXCEPT ![ThreadOf[cur]] = to],
         \A t \in Threads : t # ThreadOf[cur] => turn'[t] = turn[t] /\ turnAcc'[t] = turnAcc[t],
         turn'[ThreadOf[cur]] = NoJob, jstate'[cur] \in {"queued", "finished"},
         acc[cur] => jstate'[cur] = "finished",
         \A k \in Jobs \ {cur} : jstate'[k] = jstate[k],
         \A k \in Jobs : lease'[k] = lease[k] \/ lease'[k] = "null",
         pc' \notin Working, pc' # "boot", UNCHANGED <<signals, acc>>
  PROVE  Calm'
<1> USE DEF IInv, TypeOK
<1>1. cur \in Jobs /\ ThreadOf[cur] \in Threads BY FabricAssumption DEF CurInv, Working, Unsettled
<1>2. \A t \in Threads : tstate'[t] = IF t = ThreadOf[cur] THEN to ELSE tstate[t] BY DEF StoreOK
<1>3. to # "none" /\ to # "running" BY DEF ThreadState
<1>4. ASSUME NEW k \in Jobs PROVE Tidy(k)'
  <2>1. Tidy(k) /\ ThreadOf[k] \in Threads BY FabricAssumption DEF Calm
  <2>2. pc \notin {"leased", "checked"} BY DEF Unsettled
  <2>3. k # cur /\ jstate[k] = "started" => turn[ThreadOf[k]] = k BY <2>1 DEF Tidy
  <2>4. k # cur /\ ThreadOf[k] = ThreadOf[cur] => jstate[k] # "started"
    BY <1>1, <2>3, FabricAssumption DEF Calm, Current, Unsettled
  <2>5. CASE k = cur BY <1>1, <1>2, <1>3, <2>1, <2>5 DEF Tidy
  <2>6. CASE k # cur BY <1>1, <1>2, <1>3, <2>1, <2>2, <2>3, <2>4, <2>6 DEF Tidy
  <2> QED BY <2>5, <2>6
<1>5. ASSUME NEW t \in Threads PROVE Agree(t)'
  <2>1. CASE t = ThreadOf[cur] BY <1>2, <1>3, <2>1 DEF Agree
  <2>2. CASE t # ThreadOf[cur]
    <3>1. turn[t] # NoJob => turn[t] \in Jobs /\ turn[t] # cur BY <2>2 DEF TurnInv
    <3>2. Agree(t) BY <2>2 DEF Calm
    <3> QED BY <1>2, <2>2, <3>1, <3>2 DEF Agree
  <2> QED BY <2>1, <2>2
<1> QED BY <1>4, <1>5, CalmLoop

LEMMA QuietBefore == ASSUME [Next]_vars, Quiet' PROVE Quiet
  BY WithoutBefore DEF Quiet

LEMMA NotQuiet ==
  ASSUME NEW kind \in {"cancel", "crash", "slow", "auditfail"}, Fault(kind) PROVE ~Quiet'
  BY FaultSeen DEF Quiet, Without

LEMMA CalmStep == ASSUME IInv, Calm, [Next]_vars, Quiet' PROVE Calm'
<1> USE DEF IInv, TypeOK
<1>1. ASSUME NEW j \in Jobs, Spawn(j) \/ SendTask(j) PROVE Calm'
  BY <1>1, Submitted DEF Spawn, SendTask, Enqueue, locals
<1>2. ASSUME NEW t \in Threads, CancelStore(t) \/ CancelSignal(t) \/ CancelAuditFails(t)
      PROVE  Calm'
  BY <1>2, NotQuiet DEF CancelStore, CancelSignal, CancelAuditFails, Calm
<1>3. CASE Engines \/ UNCHANGED vars
  BY <1>3, CalmKept DEF Engines, EngineAccept, EngineFinal, EngineFails, EngineRejects, EngineDies,
     vars, store, locals
(* No signal is pending and no lease has passed. *)
<1>4. CASE BeginTick
  <2>1. /\ UNCHANGED <<tstate, acc, cancelling>> /\ cancels' = {}
        /\ pc = "begin" /\ pc' \in {"start", "drain"}
        /\ \A t \in Threads : turn'[t] = turn[t] /\ turnAcc'[t] = turnAcc[t]
        /\ \A j \in Jobs : ~Lapsed(j) => jstate'[j] = jstate[j] /\ lease'[j] = lease[j]
    BY <1>4 DEF BeginTick, DropTurns, Goto, Calm, InFlightOK
  <2>2. \A j \in Jobs : ~Lapsed(j) BY DEF Calm, Tidy, Lapsed
  <2>3. \A j \in Jobs : Tidy(j)'
    BY <2>1, <2>2, FabricAssumption DEF Calm, Tidy, Unsettled
  <2>4. \A t \in Threads : Agree(t)'
    BY <2>1, <2>2 DEF Calm, Agree, Unsettled, TurnInv
  <2> QED BY <2>1, <2>3, <2>4, CalmLoop DEF Calm, Working, signals
<1>5. ASSUME NEW t \in Threads, Poll(t) PROVE Calm'
  <2>1. /\ UNCHANGED <<tstate, jstate, acc, lease, turn, turnAcc, signals>> /\ pc = "drain"
        /\ pc' = "event" /\ cur' = turn[t] /\ turn[t] # NoJob
    BY <1>5 DEF Poll, TodoInv, store, inflight
  <2>2. \A j \in Jobs : Tidy(j)' BY <2>1 DEF Calm, Tidy, Unsettled
  <2>3. \A u \in Threads : Agree(u)' BY <2>1 DEF Calm, Agree, Unsettled
  <2>4. Current' BY <2>1 DEF Current, TurnInv
  <2> QED BY <2>1, <2>2, <2>3, <2>4 DEF Calm, signals
<1>6. CASE EventsDone \/ (\E t \in Threads : TurnHealthy(t)) \/ (\E c \in Cells : SkipCell(c))
  <2>1. /\ UNCHANGED <<tstate, jstate, acc, lease, signals, inflight>>
        /\ pc \notin Unsettled \cup {"leased", "checked"}
    BY <1>6 DEF EventsDone, TurnHealthy, SkipCell, store, Unsettled
  <2>2. pc' \notin Working /\ pc' # "boot"
    BY <1>6 DEF EventsDone, TurnHealthy, SkipCell, AfterDrain, AfterDeath, AfterStart, EndTick,
       Goto, Working
  <2> QED BY <2>1, <2>2, CalmPasses
(* Only a started job is accepted, and it is accepted in both records. *)
<1>7. CASE OnAccepted
  <2> DEFINE u == ThreadOf[cur]
  <2>1. /\ cur \in Jobs /\ u \in Threads /\ turn[u] = cur /\ pc = "event"
        /\ jstate[cur] = "started"
    BY <1>7, FabricAssumption DEF OnAccepted, CurInv, Working, Calm, Current, Agree, Unsettled
  <2>2. /\ acc' = [acc EXCEPT ![cur] = TRUE] /\ turnAcc' = [turnAcc EXCEPT ![u] = TRUE]
        /\ UNCHANGED <<tstate, jstate, lease, turn, pc, cur, signals>>
    BY <1>7 DEF OnAccepted, CurThread
  <2>3. /\ \A j \in Jobs : acc'[j] = (acc[j] \/ j = cur)
        /\ \A t \in Threads : turnAcc'[t] = (turnAcc[t] \/ t = u)
    BY <2>1, <2>2 DEF StoreOK, InFlightOK
  <2>4. \A j \in Jobs : Tidy(j)' BY <2>1, <2>2, <2>3 DEF Calm, Tidy
  <2>5. ASSUME NEW t \in Threads PROVE Agree(t)'
    <3>1. Agree(t) BY <2>1 DEF Calm, Unsettled
    <3>2. turn[t] # NoJob => turn[t] \in Jobs /\ ThreadOf[turn[t]] = t BY DEF TurnInv
    <3> QED BY <2>1, <2>2, <2>3, <3>1, <3>2 DEF Agree
  <2>6. Current' BY <2>1, <2>2 DEF Current
  <2> QED BY <2>2, <2>4, <2>5, <2>6 DEF Calm, signals
<1>8. CASE OnFinal
  <2> DEFINE u == ThreadOf[cur]
  <2>1. /\ cur \in Jobs /\ u \in Threads /\ turn[u] = cur /\ pc = "event"
        /\ jstate[cur] = "started" /\ tstate[u] = "running"
    BY <1>8, FabricAssumption DEF OnFinal, CurInv, Working, Calm, Current, Agree, Unsettled
  <2>2. /\ \A j \in Jobs : jstate'[j] = IF j = cur THEN "finished" ELSE jstate[j]
        /\ pc' = "finishing" /\ UNCHANGED <<tstate, acc, lease, turn, turnAcc, cur, signals>>
    BY <1>8 DEF OnFinal, FinishJob, StoreOK, inflight, locals
  <2>3. \A j \in Jobs : Tidy(j)' BY <2>1, <2>2 DEF Calm, Tidy, Unsettled
  <2>4. ASSUME NEW t \in Threads, t # u PROVE Agree(t)'
    <3>1. Agree(t) BY <2>1 DEF Calm, Unsettled
    <3>2. turn[t] # NoJob => turn[t] \in Jobs /\ turn[t] # cur BY <2>4 DEF TurnInv
    <3> QED BY <2>2, <3>1, <3>2 DEF Agree
  <2>5. Current' BY <2>1, <2>2 DEF Current
  <2> QED BY <2>2, <2>3, <2>4, <2>5 DEF Calm, signals, Unsettled
<1>9. CASE OnFailed
  <2>1. /\ cur \in Jobs /\ ThreadOf[cur] \in Threads /\ turn[ThreadOf[cur]] = cur /\ pc = "event"
        /\ Agree(ThreadOf[cur]) /\ turnAcc[ThreadOf[cur]] \in BOOLEAN
    BY <1>9, FabricAssumption DEF OnFailed, CurInv, Working, Calm, Current, Unsettled, InFlightOK
  <2>2. FailTurn(cur, turnAcc[ThreadOf[cur]], "engine_failed")
    BY <1>9 DEF OnFailed, CurThread
  <2> QED BY <1>9, <2>1, <2>2, CalmFails, FabricAssumption DEF OnFailed, Agree, Unsettled
<1>10. CASE FinalIdle \/ FailThread
  <2>1. /\ pc \in {"finishing", "failed"} /\ tstate[ThreadOf[cur]] = "running" /\ cur \in Jobs
        /\ jstate[cur] \in {"queued", "finished"}
    BY <1>10 DEF FinalIdle, FailThread, Calm, Current, CurInv, Working
  <2>2. PICK to \in {"idle", "failed_unknown"} : tstate' = [tstate EXCEPT ![ThreadOf[cur]] = to]
    BY <1>10, <2>1 DEF FinalIdle, FailThread, CurThread, TransitionAllowed
  <2>3. UNCHANGED <<jstate, acc, lease, signals>> /\ (acc[cur] => jstate[cur] = "finished")
    BY <1>10, <2>1 DEF FinalIdle, FailThread, Calm, Tidy
  <2>4. \/ DropTurns({ThreadOf[cur]})
        \/ UNCHANGED inflight /\ turn[ThreadOf[cur]] = NoJob
    BY <1>10, <2>1, NotQuiet DEF FinalIdle, FailThread, CurThread, TransitionAllowed, Calm, Current
  <2>5. /\ \A t \in Threads : t # ThreadOf[cur] => turn'[t] = turn[t] /\ turnAcc'[t] = turnAcc[t]
        /\ turn'[ThreadOf[cur]] = NoJob
    BY <2>1, <2>4, FabricAssumption DEF DropTurns, inflight, InFlightOK
  <2>6. pc' \notin Working /\ pc' # "boot"
    BY <1>10 DEF FinalIdle, FailThread, AfterDrain, AfterDeath, AfterStart, EndTick, Goto, Working
  <2>7. to \in ThreadState \ {"running"} BY DEF ThreadState
  <2> QED BY <2>1, <2>2, <2>3, <2>5, <2>6, <2>7, CalmEnds DEF Unsettled
<1>11. ASSUME NEW t \in Threads, EngineDeath(t) PROVE Calm'
  <2>1. /\ turn[t] \in Jobs /\ ThreadOf[turn[t]] = t /\ Agree(t) /\ turnAcc[t] \in BOOLEAN
        /\ turn[t] # NoJob /\ pc = "death"
    BY <1>11 DEF EngineDeath, TodoInv, TurnInv, Calm, Unsettled, InFlightOK
  <2>2. FailTurn(turn[t], turnAcc[t], "engine_death") BY <1>11 DEF EngineDeath
  <2> QED BY <1>11, <2>1, <2>2, CalmFails DEF EngineDeath, Agree, Unsettled
<1>12. ASSUME NEW t \in Threads, TurnTimeout(t) PROVE Calm'
  <2>1. /\ turn[t] \in Jobs /\ ThreadOf[turn[t]] = t /\ Agree(t) /\ turn[t] # NoJob /\ pc = "death"
        /\ tstate[t] = "running" /\ jstate[turn[t]] = "started"
    BY <1>12 DEF TurnTimeout, TodoInv, TurnInv, Calm, Unsettled, Agree
  <2>2. /\ tstate' = [tstate EXCEPT ![t] = "timeout"] /\ cur' = turn[t]
        /\ accepted' = turnAcc[t] /\ pc' = "timedout" /\ UNCHANGED <<jstate, acc, lease, signals>>
        /\ \A u \in Threads : turn'[u] = IF u = t THEN NoJob ELSE turn[u]
        /\ \A u \in Threads : u # t => turnAcc'[u] = turnAcc[u]
    BY <1>12, <2>1 DEF TurnTimeout, TransitionAllowed, DropTurns, InFlightOK
  <2>3. \A u \in Threads : tstate'[u] = IF u = t THEN "timeout" ELSE tstate[u]
    BY <2>2 DEF StoreOK
  <2>4. ASSUME NEW j \in Jobs PROVE Tidy(j)'
    <3>1. Tidy(j) /\ ThreadOf[j] \in Threads BY FabricAssumption DEF Calm
    <3> QED BY <2>1, <2>2, <2>3, <3>1 DEF Tidy, Unsettled
  <2>5. ASSUME NEW u \in Threads, u # t PROVE Agree(u)'
    <3>1. Agree(u) BY <2>1 DEF Calm, Unsettled
    <3> QED BY <2>2, <2>3, <2>5, <3>1 DEF Agree
  <2>6. Current' BY <2>1, <2>2, <2>3 DEF Current, Agree
  <2> QED BY <2>1, <2>2, <2>4, <2>5, <2>6 DEF Calm, signals, Unsettled
<1>13. CASE TimeoutJob
  <2>1. /\ pc = "timedout" /\ cur \in Jobs /\ ThreadOf[cur] \in Threads
        /\ tstate[ThreadOf[cur]] = "timeout" /\ turn[ThreadOf[cur]] = NoJob
        /\ jstate[cur] = "started" /\ (acc[cur] <=> accepted)
    BY <1>13, FabricAssumption DEF TimeoutJob, Calm, Current, CurInv, Working
  <2>2. UNCHANGED <<tstate, acc, inflight, signals>>
        /\ (IF accepted THEN FinishJob(cur) ELSE RequeueJob(cur))
    BY <1>13 DEF TimeoutJob
  <2>3. tstate' = [tstate EXCEPT ![ThreadOf[cur]] = "timeout"] BY <2>1, <2>2 DEF StoreOK
  <2>4. /\ jstate'[cur] \in {"queued", "finished"} /\ (acc[cur] => jstate'[cur] = "finished")
        /\ \A k \in Jobs \ {cur} : jstate'[k] = jstate[k]
        /\ \A k \in Jobs : lease'[k] = lease[k] \/ lease'[k] = "null"
    BY <2>1, <2>2 DEF FinishJob, RequeueJob, StoreOK
  <2>5. pc' \notin Working /\ pc' # "boot" BY <1>13 DEF TimeoutJob, AfterDeath, EndTick, Goto, Working
  <2>6. "timeout" \in ThreadState \ {"running"} BY DEF ThreadState
  <2> QED BY <2>1, <2>2, <2>3, <2>4, <2>5, <2>6, CalmEnds DEF Unsettled, inflight
<1>14. ASSUME NEW c \in Cells, NEW j \in Jobs, Lease(c, j) PROVE Calm'
  <2>1. /\ pc = "start" /\ jstate[j] = "queued" /\ pc' = "leased" /\ cur' = j
        /\ UNCHANGED <<tstate, acc, turn, turnAcc, signals>>
        /\ \A k \in Jobs : jstate'[k] = IF k = j THEN "leased" ELSE jstate[k]
        /\ \A k \in Jobs : lease'[k] = IF k = j THEN "live" ELSE lease[k]
    BY <1>14 DEF Lease, Leasable, StoreOK, inflight
  <2>2. ASSUME NEW k \in Jobs PROVE Tidy(k)'
    <3>1. Tidy(k) BY DEF Calm
    <3> QED BY <2>1, <3>1 DEF Tidy, Unsettled
  <2>3. ASSUME NEW t \in Threads PROVE Agree(t)'
    <3>1. Agree(t) BY <2>1 DEF Calm, Unsettled
    <3>2. turn[t] # NoJob => turn[t] \in Jobs /\ turn[t] # j BY <2>1, <3>1 DEF TurnInv, Agree
    <3> QED BY <2>1, <3>1, <3>2 DEF Agree
  <2>4. Current' BY <2>1 DEF Current
  <2> QED BY <2>1, <2>2, <2>3, <2>4 DEF Calm, signals
(* The cell has no turn, so the thread does not run and may. *)
<1>15. CASE CheckThread
  <2>1. /\ pc = "leased" /\ cur \in Jobs /\ ThreadOf[cur] \in Threads /\ jstate[cur] = "leased"
        /\ tstate[ThreadOf[cur]] # "none" /\ turn[ThreadOf[cur]] = NoJob /\ Agree(ThreadOf[cur])
    BY <1>15, FabricAssumption DEF CheckThread, CurInv, Working, Calm, Current, Tidy, StartInv,
       Starting, Unsettled
  <2>2. TransitionAllowed(tstate[ThreadOf[cur]], "running")
    BY <2>1 DEF Agree, TransitionAllowed, StoreOK, ThreadState
  <2>3. pc' = "checked" /\ UNCHANGED <<cur, store, inflight, signals>>
    BY <1>15, <2>2 DEF CheckThread, CurThread, locals
  <2>4. \A j \in Jobs : Tidy(j)' BY <2>1, <2>3 DEF Calm, Tidy, store, inflight, Unsettled
  <2>5. \A t \in Threads : Agree(t)' BY <2>1, <2>3 DEF Calm, Agree, store, inflight, Unsettled
  <2>6. Current' BY <2>1, <2>3 DEF Current, store
  <2> QED BY <2>3, <2>4, <2>5, <2>6 DEF Calm, signals
<1>16. CASE MarkStarted
  <2>1. /\ pc = "checked" /\ cur \in Jobs /\ ThreadOf[cur] \in Threads /\ jstate[cur] = "leased"
        /\ turn[ThreadOf[cur]] = NoJob /\ Agree(ThreadOf[cur]) /\ ~acc[cur]
    BY <1>16, FabricAssumption DEF MarkStarted, CurInv, Working, Calm, Current, Tidy, StartInv,
       Starting, Unsettled
  <2>2. /\ \A j \in Jobs : jstate'[j] = IF j = cur THEN "started" ELSE jstate[j]
        /\ pc' = "marking" /\ UNCHANGED <<tstate, acc, lease, turn, turnAcc, cur, signals>>
    BY <1>16 DEF MarkStarted, StoreOK, inflight, locals
  <2>3. ASSUME NEW j \in Jobs PROVE Tidy(j)'
    <3>1. Tidy(j) BY DEF Calm
    <3> QED BY <2>1, <2>2, <3>1 DEF Tidy, Unsettled
  <2>4. ASSUME NEW t \in Threads, t # ThreadOf[cur] PROVE Agree(t)'
    <3>1. Agree(t) BY <2>1 DEF Calm, Unsettled
    <3>2. turn[t] # NoJob => turn[t] \in Jobs /\ turn[t] # cur BY <2>4 DEF TurnInv
    <3> QED BY <2>2, <3>1, <3>2 DEF Agree
  <2>5. Current' BY <2>1, <2>2 DEF Current, Agree
  <2> QED BY <2>2, <2>3, <2>4, <2>5 DEF Calm, signals, Unsettled
<1>17. CASE RunThread
  <2>1. /\ pc = "marking" /\ cur \in Jobs /\ ThreadOf[cur] \in Threads /\ jstate[cur] = "started"
        /\ turn[ThreadOf[cur]] = NoJob /\ ~acc[cur] /\ tstate[ThreadOf[cur]] # "running"
        /\ tstate[ThreadOf[cur]] # "none"
    BY <1>17, FabricAssumption DEF RunThread, CurInv, Working, Calm, Current, Tidy
  <2>2. TransitionAllowed(tstate[ThreadOf[cur]], "running")
    BY <2>1 DEF TransitionAllowed, StoreOK, ThreadState
  <2>3. /\ \A t \in Threads : tstate'[t] = IF t = ThreadOf[cur] THEN "running" ELSE tstate[t]
        /\ pc' = "launch" /\ UNCHANGED <<jstate, acc, lease, turn, turnAcc, cur, signals>>
    BY <1>17, <2>2 DEF RunThread, CurThread, StoreOK, inflight, locals
  <2>4. ASSUME NEW j \in Jobs PROVE Tidy(j)'
    <3>1. Tidy(j) /\ ThreadOf[j] \in Threads BY FabricAssumption DEF Calm
    <3> QED BY <2>1, <2>3, <3>1 DEF Tidy, Unsettled
  <2>5. ASSUME NEW t \in Threads, t # ThreadOf[cur] PROVE Agree(t)'
    <3>1. Agree(t) BY <2>5 DEF Calm
    <3> QED BY <2>3, <2>5, <3>1 DEF Agree
  <2>6. Current' BY <2>1, <2>3 DEF Current
  <2> QED BY <2>3, <2>4, <2>5, <2>6 DEF Calm, signals, Unsettled
<1>18. CASE Launch
  <2>1. /\ pc = "launch" /\ cur \in Jobs /\ ThreadOf[cur] \in Threads /\ jstate[cur] = "started"
        /\ turn[ThreadOf[cur]] = NoJob /\ ~acc[cur] /\ tstate[ThreadOf[cur]] = "running"
    BY <1>18, FabricAssumption DEF Launch, CurInv, Working, Calm, Current
  <2>2. /\ \A t \in Threads : turn'[t] = IF t = ThreadOf[cur] THEN cur ELSE turn[t]
        /\ \A t \in Threads : turnAcc'[t] = IF t = ThreadOf[cur] THEN FALSE ELSE turnAcc[t]
        /\ UNCHANGED <<tstate, jstate, acc, lease, signals>>
    BY <1>18 DEF Launch, CurThread, store, InFlightOK
  <2>3. pc' \notin Working /\ pc' # "boot"
    BY <1>18 DEF Launch, AfterStart, EndTick, Goto, Working
  <2>4. ASSUME NEW j \in Jobs PROVE Tidy(j)'
    <3>1. Tidy(j) /\ ThreadOf[j] \in Threads BY FabricAssumption DEF Calm
    <3>2. ThreadOf[j] = ThreadOf[cur] /\ jstate[j] = "started" => j = cur
      BY <2>1, <3>1, FabricAssumption DEF Tidy
    <3> QED BY <2>1, <2>2, <3>1, <3>2 DEF Tidy
  <2>5. ASSUME NEW t \in Threads PROVE Agree(t)'
    <3>1. t # ThreadOf[cur] => Agree(t) BY DEF Calm
    <3>2. cur # NoJob BY <2>1, FabricAssumption
    <3> QED BY <2>1, <2>2, <3>1, <3>2 DEF Agree
  <2> QED BY <2>2, <2>3, <2>4, <2>5, CalmLoop
<1>19. CASE LaunchAuditFails BY <1>19, NotQuiet DEF LaunchAuditFails
<1>20. CASE SpawnFails \/ StartFails
  <2>1. /\ pc = "launch" /\ cur \in Jobs /\ jstate[cur] = "started"
        /\ turn[ThreadOf[cur]] = NoJob /\ ~acc[cur] /\ tstate[ThreadOf[cur]] = "running"
        /\ UNCHANGED <<signals, tstate, acc, inflight>>
    BY <1>20 DEF SpawnFails, StartFails, CurInv, Working, Calm, Current
  <2>2. PICK why \in {"engine_spawn", "start_turn"} : FailTurn(cur, FALSE, why)
    BY <1>20 DEF SpawnFails, StartFails
  <2> QED BY <2>1, <2>2, CalmFails
(* Every lease that could pass is of a job the scheduler is handling. *)
<1>21. ASSUME NEW j \in Jobs, LeaseExpires(j) PROVE Calm'
  <2>1. jstate[j] \in {"leased", "started"} /\ Tidy(j) BY <1>21 DEF LeaseExpires, Calm
  <2>2. Handling(j) BY <2>1 DEF Tidy, Handling
  <2> QED BY <1>21, <2>2, NotQuiet DEF LeaseExpires
<1>22. CASE Crash BY <1>22, NotQuiet DEF Crash
<1>23. ASSUME NEW t \in Threads, CancelTorn(t) PROVE Calm'
  BY <1>23 DEF CancelTorn, Disturb, Quiet, Without
<1>24. CASE Boot BY <1>24 DEF Boot, Calm
<1> QED
  BY <1>1, <1>2, <1>3, <1>4, <1>5, <1>6, <1>7, <1>8, <1>9, <1>10, <1>11, <1>12, <1>13, <1>14,
     <1>15, <1>16, <1>17, <1>18, <1>19, <1>20, <1>21, <1>22, <1>23, <1>24
     DEF Next, Tick, Handlers, DrainSteps, DeathSteps, StartSteps, TimeSteps

CalmInv == Quiet => Calm

LEMMA InitCalm == ASSUME Init PROVE CalmInv
  BY DEF Init, CalmInv, Calm, Tidy, Agree, Current

LEMMA CalmNext == ASSUME IInv, CalmInv, [Next]_vars PROVE CalmInv'
  BY CalmStep, QuietBefore DEF CalmInv

(* Between ticks a thread runs iff it has a turn, a turn is of a started   *)
(* job and a started job has its turn: no failed, refused, unstartable or  *)
(* timed out turn leaves a trace that occupies its cell.                   *)
THEOREM RecordsAgree == Spec => []TurnCoherence
<1>1. CalmInv => TurnCoherence
  BY DEF CalmInv, Quiet, Calm, Tidy, Agree, Unsettled, TurnCoherence, InFlightThreads
<1> QED BY <1>1, InitCalm, CalmNext, Invariance, PTL DEF Spec

-----------------------------------------------------------------------------
(***************************************************************************)
(* Turns start in the order of enqueue_seq.                                *)
(***************************************************************************)

(* A cell's rows are its own jobs, each once. *)
RowsInv ==
    \A c \in Cells : \A i \in 1..Len(rows[c]) :
        /\ JobCell(rows[c][i]) = c /\ jstate[rows[c][i]] # "none"
        /\ \A h \in 1..Len(rows[c]) : rows[c][h] = rows[c][i] => h = i

Held == {"leased", "started"}

(* What is before a leased or started job is over. *)
OrderInv ==
    \A c \in Cells : \A i \in 1..Len(rows[c]) : \A h \in 1..(i - 1) :
        jstate[rows[c][i]] \in Held => jstate[rows[c][h]] \notin ActiveJob

(* What leaves the rows alone, activates no job and gets hold of none. *)
LEMMA OrderKept ==
  ASSUME IInv, RowsInv, OrderInv, UNCHANGED rows,
         \A j \in Jobs : jstate'[j] \in Held => jstate[j] \in Held,
         \A j \in Jobs : jstate'[j] \in ActiveJob => jstate[j] \in ActiveJob
  PROVE  OrderInv'
<1>1. ASSUME NEW c \in Cells, NEW i \in 1..Len(rows[c]), NEW h \in 1..(i - 1),
             jstate'[rows[c][i]] \in Held
      PROVE  jstate'[rows[c][h]] \notin ActiveJob
  <2>1. rows[c] \in Seq(Jobs) BY DEF IInv, TypeOK, StoreOK
  <2>2. rows[c][i] \in Jobs /\ rows[c][h] \in Jobs BY <2>1
  <2> QED BY <1>1, <2>2 DEF OrderInv
<1> QED BY <1>1 DEF OrderInv

LEMMA RowsKept ==
  ASSUME IInv, RowsInv, UNCHANGED rows, \A j \in Jobs : jstate[j] # "none" => jstate'[j] # "none"
  PROVE  RowsInv'
<1>1. ASSUME NEW c \in Cells, NEW i \in 1..Len(rows[c]) PROVE jstate'[rows[c][i]] # "none"
  <2>1. rows[c] \in Seq(Jobs) BY DEF IInv, TypeOK, StoreOK
  <2>2. rows[c][i] \in Jobs BY <2>1
  <2> QED BY <2>2 DEF RowsInv
<1> QED BY <1>1 DEF RowsInv, JobCell

(* A row is added at the end, and its job is new. *)
LEMMA RowAdded ==
  ASSUME IInv, RowsInv, NEW j \in Jobs, Enqueue(j) PROVE RowsInv' /\ (OrderInv => OrderInv')
<1> DEFINE c == JobCell(j)
<1>1. c \in Cells BY FabricAssumption DEF JobCell
<1>2. /\ jstate[j] = "none" /\ \A k \in Jobs : jstate'[k] = IF k = j THEN "queued" ELSE jstate[k]
      /\ rows[c] \in Seq(Jobs) /\ rows'[c] = Append(rows[c], j)
      /\ \A d \in Cells \ {c} : rows'[d] = rows[d]
  BY <1>1 DEF Enqueue, IInv, TypeOK, StoreOK
<1> HIDE DEF c
<1>3. /\ Len(rows[c]) \in Nat /\ Len(rows'[c]) = Len(rows[c]) + 1
      /\ rows'[c][Len(rows[c]) + 1] = j
      /\ \A i \in 1..Len(rows[c]) : rows'[c][i] = rows[c][i] /\ rows[c][i] \in Jobs
  BY <1>2
<1>4. \A i \in 1..Len(rows[c]) : rows[c][i] # j BY <1>1, <1>2 DEF RowsInv
<1>5. ASSUME NEW d \in Cells, NEW i \in 1..Len(rows'[d])
      PROVE  /\ JobCell(rows'[d][i]) = d /\ jstate'[rows'[d][i]] # "none"
             /\ \A h \in 1..Len(rows'[d]) : rows'[d][h] = rows'[d][i] => h = i
  <2>1. CASE d # c
    <3>1. rows'[d] = rows[d] /\ rows[d] \in Seq(Jobs) BY <1>2, <2>1 DEF IInv, TypeOK, StoreOK
    <3>2. rows[d][i] \in Jobs BY <3>1
    <3> QED BY <1>2, <3>1, <3>2 DEF RowsInv
  <2>2. CASE d = c /\ i \in 1..Len(rows[c])
    <3>1. \A h \in 1..Len(rows'[c]) : h \in 1..Len(rows[c]) \/ h = Len(rows[c]) + 1 BY <1>3
    <3>2. JobCell(rows[c][i]) = c /\ jstate[rows[c][i]] # "none" BY <1>1, <2>2 DEF RowsInv
    <3>3. \A h \in 1..Len(rows[c]) : rows[c][h] = rows[c][i] => h = i BY <1>1, <2>2 DEF RowsInv
    <3> QED BY <1>2, <1>3, <1>4, <2>2, <3>1, <3>2, <3>3
  <2>3. CASE d = c /\ i = Len(rows[c]) + 1
    <3>1. \A h \in 1..Len(rows'[c]) : h \in 1..Len(rows[c]) \/ h = Len(rows[c]) + 1 BY <1>3
    <3> QED BY <1>2, <1>3, <1>4, <2>3, <3>1 DEF c
  <2>4. d = c => i \in 1..Len(rows[c]) \/ i = Len(rows[c]) + 1 BY <1>3
  <2> QED BY <2>1, <2>2, <2>3, <2>4
<1>6. RowsInv' BY <1>5 DEF RowsInv, JobCell
<1>7. ASSUME OrderInv, NEW d \in Cells, NEW i \in 1..Len(rows'[d]), NEW h \in 1..(i - 1),
             jstate'[rows'[d][i]] \in Held
      PROVE  jstate'[rows'[d][h]] \notin ActiveJob
  <2>1. CASE d # c
    <3>1. rows'[d] = rows[d] /\ rows[d] \in Seq(Jobs) BY <1>2, <2>1 DEF IInv, TypeOK, StoreOK
    <3>2. rows[d][i] \in Jobs /\ rows[d][h] \in Jobs /\ h \in 1..Len(rows[d]) BY <3>1
    <3>3. rows[d][h] # j BY <1>2, <3>2 DEF RowsInv
    <3> QED BY <1>2, <1>7, <3>1, <3>2, <3>3 DEF OrderInv, Held
  <2>2. CASE d = c
    <3>1. i \in 1..Len(rows[c]) /\ h \in 1..Len(rows[c])
      <4>1. i \in 1..Len(rows[c]) \/ i = Len(rows[c]) + 1 BY <1>3, <2>2
      <4>2. i # Len(rows[c]) + 1 BY <1>2, <1>3, <1>7, <2>2 DEF Held
      <4> QED BY <1>3, <4>1, <4>2
    <3>2. /\ rows'[d][i] = rows[c][i] /\ rows[c][i] \in Jobs \ {j}
          /\ rows'[d][h] = rows[c][h] /\ rows[c][h] \in Jobs \ {j}
      BY <1>3, <1>4, <2>2, <3>1
    <3>3. jstate[rows[c][i]] \in Held BY <1>2, <1>7, <3>2
    <3>4. jstate[rows[c][h]] \notin ActiveJob BY <1>1, <1>7, <3>1, <3>3 DEF OrderInv
    <3> QED BY <1>2, <3>2, <3>4
  <2> QED BY <2>1, <2>2
<1>8. OrderInv => OrderInv' BY <1>7 DEF OrderInv
<1> QED BY <1>6, <1>8

(* What is leased is the first queued job of its cell, and none is held.   *)
LEMMA OrderLease ==
  ASSUME IInv, Calm, RowsInv, OrderInv, NEW c \in Cells, NEW j \in Jobs, Lease(c, j)
  PROVE  OrderInv'
<1>1. /\ JobCell(j) = c /\ pc = "start" /\ jstate[j] = "queued" /\ UNCHANGED rows
      /\ \A k \in Jobs : jstate'[k] = IF k = j THEN "leased" ELSE jstate[k]
      /\ \A k \in Jobs : JobCell(k) = c => jstate[k] # "started"
  BY DEF Lease, Leasable, JobsOf, IInv, TypeOK, StoreOK
<1>2. \A k \in Jobs : jstate[k] # "leased" BY <1>1 DEF Calm, Tidy
<1>3. PICK m \in 1..Len(rows[c]) : /\ rows[c][m] = j
                                   /\ \A h \in 1..(m - 1) : jstate[rows[c][h]] # "queued"
  <2>1. rows[c] \in Seq(Jobs) BY DEF IInv, TypeOK, StoreOK
  <2> QED BY <2>1 DEF Lease, Leasable
<1>4. ASSUME NEW d \in Cells, NEW i \in 1..Len(rows[d]), NEW h \in 1..(i - 1),
             jstate'[rows[d][i]] \in Held
      PROVE  jstate'[rows[d][h]] \notin ActiveJob
  <2>1. rows[d] \in Seq(Jobs) BY DEF IInv, TypeOK, StoreOK
  <2>2. rows[d][i] \in Jobs /\ rows[d][h] \in Jobs /\ h \in 1..Len(rows[d]) /\ h # i BY <2>1
  <2>3. JobCell(rows[d][i]) = d /\ JobCell(rows[d][h]) = d BY <2>2 DEF RowsInv
  <2>4. CASE d = c
    <3>1. rows[c][i] = j BY <1>1, <1>2, <1>4, <2>2, <2>3, <2>4 DEF Held
    <3>2. i = m BY <1>3, <2>4, <3>1 DEF RowsInv
    <3>3. rows[c][h] # j BY <1>3, <2>2, <2>4, <3>2 DEF RowsInv
    <3>4. jstate[rows[c][h]] \notin ActiveJob
      BY <1>1, <1>2, <1>3, <2>2, <2>3, <2>4, <3>2 DEF ActiveJob
    <3> QED BY <1>1, <2>2, <2>4, <3>3, <3>4
  <2>5. CASE d # c
    <3>1. rows[d][i] # j /\ rows[d][h] # j BY <1>1, <2>3, <2>5
    <3> QED BY <1>1, <1>4, <2>2, <3>1 DEF OrderInv
  <2> QED BY <2>4, <2>5
<1> QED BY <1>1, <1>4 DEF OrderInv

LEMMA EndsOrder ==
  ASSUME IInv, NEW k \in Jobs, FinishJob(k) \/ (RequeueJob(k) /\ jstate[k] \in ActiveJob)
  PROVE  \A j \in Jobs : /\ jstate'[j] \in Held => jstate[j] \in Held
                         /\ jstate'[j] \in ActiveJob => jstate[j] \in ActiveJob
  BY DEF FinishJob, RequeueJob, Held, ActiveJob, IInv, TypeOK, StoreOK

LEMMA RowsStep == ASSUME IInv, RowsInv, [Next]_vars PROVE RowsInv'
<1>1. ASSUME NEW j \in Jobs, Spawn(j) \/ SendTask(j) PROVE RowsInv'
  BY <1>1, RowAdded DEF Spawn, SendTask
<1>2. CASE UNCHANGED rows
  BY <1>2, MovesStep, RowsKept DEF Moves, JobMoves
<1>3. (Tick \/ Engines \/ TimeSteps \/ UNCHANGED vars) => UNCHANGED rows
  <2>1. DrainSteps => UNCHANGED rows
    BY DEF DrainSteps, BeginTick, Poll, EventsDone, OnAccepted, OnFinal, FinalIdle, OnFailed,
       FailThread, store
  <2>2. DeathSteps => UNCHANGED rows
    BY DEF DeathSteps, EngineDeath, TurnTimeout, TurnHealthy, TimeoutJob, store
  <2>3. StartSteps => UNCHANGED rows
    BY DEF StartSteps, SkipCell, Lease, CheckThread, MarkStarted, RunThread, Launch,
       LaunchAuditFails, SpawnFails, StartFails, store
  <2>4. Engines \/ TimeSteps \/ UNCHANGED vars => UNCHANGED rows
    BY DEF Engines, EngineAccept, EngineFinal, EngineFails, EngineRejects, EngineDies,
       TimeSteps, LeaseExpires, Crash, CancelTorn, Boot, vars, store
  <2> QED BY <2>1, <2>2, <2>3, <2>4 DEF Tick
<1>4. (\E t \in Threads : CancelStore(t) \/ CancelSignal(t) \/ CancelAuditFails(t))
      => UNCHANGED rows
  BY DEF CancelStore, CancelSignal, CancelAuditFails, store
<1> QED BY <1>1, <1>2, <1>3, <1>4 DEF Next, Handlers

LEMMA OrderStep ==
  ASSUME IInv, Calm, RowsInv, OrderInv, [Next]_vars, Quiet' PROVE OrderInv'
<1> USE DEF IInv, TypeOK
<1>1. ASSUME NEW j \in Jobs, Spawn(j) \/ SendTask(j) PROVE OrderInv'
  BY <1>1, RowAdded DEF Spawn, SendTask
<1>2. ASSUME NEW t \in Threads, CancelStore(t) PROVE OrderInv'
  BY <1>2, NotQuiet DEF CancelStore
<1>3. CASE UNCHANGED store
  BY <1>3, OrderKept DEF store
<1>4. CASE BeginTick
  <2>1. UNCHANGED rows /\ \A j \in Jobs : ~Lapsed(j) => jstate'[j] = jstate[j]
    BY <1>4 DEF BeginTick
  <2>2. \A j \in Jobs : ~Lapsed(j) BY DEF Calm, Tidy, Lapsed
  <2> QED BY <2>1, <2>2, OrderKept
<1>5. CASE OnAccepted \/ FinalIdle \/ FailThread \/ (\E t \in Threads : TurnTimeout(t)) \/ RunThread
           \/ (\E j \in Jobs : LeaseExpires(j)) \/ Boot
  <2>1. UNCHANGED <<rows, jstate>>
    BY <1>5 DEF OnAccepted, FinalIdle, FailThread, TurnTimeout, RunThread, LeaseExpires, Boot
  <2> QED BY <2>1, OrderKept
<1>6. CASE OnFinal
  BY <1>6, EndsOrder, OrderKept DEF OnFinal, CurInv, Working
<1>7. CASE OnFailed \/ SpawnFails \/ StartFails \/ TimeoutJob
  <2>1. /\ cur \in Jobs /\ jstate[cur] \in ActiveJob /\ UNCHANGED rows
        /\ (FinishJob(cur) \/ RequeueJob(cur))
    BY <1>7, FabricAssumption DEF OnFailed, SpawnFails, StartFails, TimeoutJob, FailTurn, CurInv,
       Working, Calm, Current, Agree, Unsettled, ActiveJob
  <2> QED BY <2>1, EndsOrder, OrderKept
<1>8. ASSUME NEW t \in Threads, EngineDeath(t) PROVE OrderInv'
  <2>1. /\ turn[t] \in Jobs /\ jstate[turn[t]] \in ActiveJob /\ UNCHANGED rows
        /\ (FinishJob(turn[t]) \/ RequeueJob(turn[t]))
    BY <1>8 DEF EngineDeath, FailTurn, TodoInv, TurnInv, Calm, Agree, Unsettled, ActiveJob
  <2> QED BY <2>1, EndsOrder, OrderKept
<1>9. ASSUME NEW c \in Cells, NEW j \in Jobs, Lease(c, j) PROVE OrderInv'
  BY <1>9, OrderLease
<1>10. CASE MarkStarted
  <2>1. cur \in Jobs /\ jstate[cur] = "leased" BY <1>10 DEF MarkStarted, CurInv, Working, Calm, Current
  <2>2. UNCHANGED rows /\ \A j \in Jobs : jstate'[j] = IF j = cur THEN "started" ELSE jstate[j]
    BY <1>10 DEF MarkStarted, StoreOK
  <2> QED BY <2>1, <2>2, OrderKept DEF Held, ActiveJob
<1>11. CASE Crash BY <1>11, NotQuiet DEF Crash
<1>12. ASSUME NEW t \in Threads, CancelTorn(t) PROVE OrderInv'
  BY <1>12 DEF CancelTorn, Disturb, Quiet, Without
<1>13. CASE Engines \/ UNCHANGED vars
  BY <1>3, <1>13 DEF Engines, EngineAccept, EngineFinal, EngineFails, EngineRejects, EngineDies, vars
<1>14. CASE \/ \E t \in Threads : CancelSignal(t) \/ CancelAuditFails(t) \/ Poll(t) \/ TurnHealthy(t)
            \/ EventsDone \/ (\E c \in Cells : SkipCell(c)) \/ CheckThread \/ Launch
            \/ LaunchAuditFails
  BY <1>3, <1>14 DEF CancelSignal, CancelAuditFails, Poll, TurnHealthy, EventsDone, SkipCell,
     CheckThread, Launch, LaunchAuditFails
<1> QED
  BY <1>1, <1>2, <1>4, <1>5, <1>6, <1>7, <1>8, <1>9, <1>10, <1>11, <1>12, <1>13, <1>14
     DEF Next, Tick, Handlers, DrainSteps, DeathSteps, StartSteps, TimeSteps

FifoInv == RowsInv /\ (Quiet => OrderInv)

(* A started job has only jobs before it that are over, although each job  *)
(* is leased, marked, failed and requeued on its own.                      *)
THEOREM StartsInOrder == Spec => []FifoStart
<1>1. Init => FifoInv BY DEF Init, FifoInv, RowsInv, OrderInv
<1>2. IInv /\ CalmInv /\ FifoInv /\ [Next]_vars => FifoInv'
  BY RowsStep, OrderStep, QuietBefore DEF FifoInv, CalmInv
<1>3. IInv /\ FifoInv => FifoStart
  <2> SUFFICES ASSUME IInv, FifoInv, Quiet, NEW c \in Cells, NEW i \in DOMAIN rows[c],
                      NEW h \in 1..(i - 1), jstate[rows[c][i]] = "started"
               PROVE  jstate[rows[c][h]] \notin ActiveJob
    BY DEF FifoStart, Quiet
  <2>1. rows[c] \in Seq(Jobs) BY DEF IInv, TypeOK, StoreOK
  <2>2. i \in 1..Len(rows[c]) BY <2>1
  <2> QED BY <2>2 DEF FifoInv, OrderInv, Held
<1> QED BY <1>1, <1>2, <1>3, InitCalm, CalmNext, Invariance, PTL DEF Spec

-----------------------------------------------------------------------------
(***************************************************************************)
(* No turn runs twice, but for a cancel, a death, a timeout or a crash.    *)
(***************************************************************************)

Undisturbed == Without({"cancel", "crash", "die", "timeout", "lostack"})

AckFirst(s) == s # <<>> /\ Head(s).kind = "accepted"

(* The scheduler knows that the turn was accepted, or will read that       *)
(* before it reads anything else of the turn.                              *)
Known(j) ==
    \/ turnAcc[ThreadOf[j]]
    \/ AckFirst(outbox[JobCell(j)])
    \/ pc = "event" /\ cur = j /\ AckFirst(events)

Ends == pc = "finishing" \/ (pc = "failed" /\ reason = "engine_failed")

(* Turns are given up only by their own end, and an end that was polled    *)
(* finishes the job, unless the engine refused it.                         *)
Steady ==
    /\ cancels = {} /\ cancelling = {}
    /\ \A c \in Cells : engine[c] # "down"
    /\ pc # "boot"
    /\ pc = "failed" => reason # "engine_death"
    /\ pc = "event" \/ Ends => turn[ThreadOf[cur]] = cur
    /\ Ends => jstate[cur] = "finished" \/ ran[cur] = 0
    /\ pc = "finishing" => jstate[cur] = "finished"
    /\ pc \in {"marking", "launch"} => jstate[cur] = "started"

(* A job that an engine accepted is finished, or has its turn. *)
Once(j) ==
    /\ ran[j] <= 1
    /\ ran[j] # 0 => jstate[j] = "finished" \/ (turn[ThreadOf[j]] = j /\ Known(j))

(* What waits for the engine was not accepted, and nothing was said of it. *)
Untaken(c) == work[c] # <<>> /\ ~busy[c] => ran[Head(work[c]).job] = 0 /\ outbox[c] = <<>>

Singly == Steady /\ (\A j \in Jobs : Once(j)) /\ (\A c \in Cells : Untaken(c))

OnceInv == Undisturbed => Singly

LEMMA UndisturbedBefore == ASSUME [Next]_vars, Undisturbed' PROVE Undisturbed
  BY WithoutBefore DEF Undisturbed

LEMMA Disturbs ==
  ASSUME NEW kind \in {"cancel", "crash", "die", "timeout", "lostack"}, Fault(kind) PROVE ~Undisturbed'
  BY FaultSeen DEF Undisturbed, Without

LEMMA FinishedStays ==
  ASSUME IInv, [Next]_vars
  PROVE  \A j \in Jobs : jstate[j] = "finished" => jstate'[j] = "finished"
<1>1. CASE Next BY MovesStep DEF Moves, JobMoves
<1>2. CASE UNCHANGED vars BY <1>2 DEF vars, store
<1> QED BY <1>1, <1>2

(* A job stays single if its turn and what is known of it stay. *)
LEMMA OnceKept ==
  ASSUME IInv, [Next]_vars, NEW j \in Jobs, Once(j), ran'[j] = ran[j],
         turn[ThreadOf[j]] = j /\ Known(j) /\ jstate[j] # "finished" =>
            jstate'[j] = "finished" \/ (turn'[ThreadOf[j]] = j /\ Known(j)')
  PROVE  Once(j)'
  BY FinishedStays DEF Once

(* What leaves the engines, the turns and the event being read alone. *)
LEMMA StillOnce ==
  ASSUME IInv, Singly, [Next]_vars, UNCHANGED <<engines, inflight>>, Steady',
         pc = "event" /\ events # <<>> => pc' = "event" /\ UNCHANGED <<cur, events>>
  PROVE  Singly'
<1>1. ASSUME NEW j \in Jobs PROVE Once(j)'
  <2>1. Known(j) => Known(j)' BY DEF Known, AckFirst, engines, inflight
  <2> QED BY <1>1, <2>1, OnceKept DEF Singly, engines, inflight
<1>2. ASSUME NEW c \in Cells PROVE Untaken(c)'
  BY DEF Singly, Untaken, engines
<1> QED BY <1>1, <1>2 DEF Singly

LEMMA OnceStep == ASSUME IInv, ChannelInv, Singly, [Next]_vars, Undisturbed' PROVE Singly'
<1> USE DEF IInv, TypeOK
<1>00. Without({"timeout", "lostack"})' BY DEF Undisturbed, Without
<1>0. /\ \A c \in Cells : Channel(c)
      /\ pc = "event" /\ Over(events) => Silent(JobCell(cur))
      /\ Ends => Silent(JobCell(cur))
  BY UndisturbedBefore DEF ChannelInv, Undisturbed, Without, Ends
<1>1. CASE Handlers \/ (\E j \in Jobs : LeaseExpires(j)) \/ UNCHANGED vars
  <2>1. ASSUME NEW t \in Threads, CancelStore(t) \/ CancelSignal(t) \/ CancelAuditFails(t) PROVE FALSE
    BY <2>1, Disturbs DEF CancelStore, CancelSignal, CancelAuditFails, Singly, Steady
  <2>2. UNCHANGED <<engines, inflight, pc, locals, signals>>
    BY <1>1, <2>1 DEF Handlers, Spawn, SendTask, LeaseExpires, vars
  <2>3. cur \in Jobs /\ jstate[cur] = "started" => jstate'[cur] = "started"
    BY <1>1, <2>1 DEF Handlers, Spawn, SendTask, Enqueue, LeaseExpires, vars, store, StoreOK
  <2>4. Steady'
    BY <2>2, <2>3, FinishedStays DEF Singly, Steady, Ends, CurInv, Working, engines, inflight, locals, signals
  <2> QED BY <2>2, <2>4, StillOnce DEF locals
<1>2. CASE BeginTick
  <2>1. UNCHANGED <<engines, inflight>>
    <3>1. cancels = {} BY DEF Singly, Steady
    <3>2. UNCHANGED inflight
      BY <1>2, <3>1 DEF BeginTick, DropTurns, InFlightOK, inflight
    <3>3. UNCHANGED engines
      BY <1>2, <3>1 DEF BeginTick, StopEngines, EnginesOK, engines
    <3> QED BY <3>2, <3>3
  <2>2. Steady'
    BY <1>2, <2>1 DEF BeginTick, Goto, Singly, Steady, Ends, engines
  <2> QED BY <1>2, <2>1, <2>2, StillOnce DEF BeginTick
<1>3. ASSUME NEW t \in Threads, Poll(t) PROVE Singly'
  <2>1. /\ turn[t] # NoJob /\ turn[t] \in Jobs /\ ThreadOf[turn[t]] = t /\ CellOf[t] \in Cells
        /\ pc = "drain" /\ pc' = "event" /\ cur' = turn[t] /\ events' = outbox[CellOf[t]]
        /\ outbox' = [outbox EXCEPT ![CellOf[t]] = <<>>]
        /\ UNCHANGED <<store, inflight, signals, engine, work, busy, ran>>
    BY <1>3, FabricAssumption DEF Poll, TodoInv, TurnInv
  <2>2. JobCell(turn[t]) = CellOf[t] BY <2>1 DEF JobCell
  <2>3. Steady' BY <2>1 DEF Singly, Steady, Ends, signals, inflight
  <2>4. ASSUME NEW j \in Jobs PROVE Once(j)'
    <3>1. Once(j) /\ ran'[j] = ran[j] BY <2>1 DEF Singly
    <3>2. ASSUME turn[ThreadOf[j]] = j, Known(j) PROVE Known(j)'
      <4>1. ThreadOf[j] \in Threads /\ JobCell(j) = CellOf[ThreadOf[j]] /\ JobCell(j) \in Cells
            /\ j # NoJob
        BY FabricAssumption DEF JobCell
      <4>2. CASE JobCell(j) = CellOf[t]
        <5>1. ThreadOf[j] = t BY <2>1, <3>2, <4>1, <4>2 DEF OneTurnPerCell, InFlightThreads
        <5> QED BY <2>1, <2>2, <3>2, <5>1 DEF Known, inflight
      <4>3. CASE JobCell(j) # CellOf[t]
        <5>1. outbox'[JobCell(j)] = outbox[JobCell(j)] BY <2>1, <4>1, <4>3 DEF EnginesOK
        <5> QED BY <2>1, <3>2, <5>1 DEF Known, inflight
      <4> QED BY <4>2, <4>3
    <3> QED BY <2>1, <3>1, <3>2, OnceKept DEF inflight
  <2>5. ASSUME NEW c \in Cells PROVE Untaken(c)'
    <3>1. outbox'[c] \in {outbox[c], <<>>} BY <2>1 DEF EnginesOK
    <3> QED BY <2>1, <3>1 DEF Singly, Untaken
  <2> QED BY <2>3, <2>4, <2>5 DEF Singly
<1>4. CASE \/ EventsDone \/ (\E t \in Threads : TurnHealthy(t)) \/ TimeoutJob
           \/ (\E c \in Cells : SkipCell(c)) \/ LaunchAuditFails
  <2>1. UNCHANGED <<engines, inflight, signals>>
    BY <1>4 DEF EventsDone, TurnHealthy, TimeoutJob, SkipCell, LaunchAuditFails
  <2>2. pc' \in {"drain", "begin", "death", "start"} /\ (pc = "event" => events = <<>>)
    BY <1>4 DEF EventsDone, TurnHealthy, TimeoutJob, SkipCell, LaunchAuditFails,
       AfterDrain, AfterDeath, AfterStart, EndTick, Goto
  <2>3. Steady' BY <2>1, <2>2 DEF Singly, Steady, Ends, engines, signals
  <2> QED BY <2>1, <2>2, <2>3, StillOnce
<1>5. CASE (\E c \in Cells, j \in Jobs : Lease(c, j)) \/ CheckThread \/ MarkStarted
  <2>1. UNCHANGED <<engines, inflight, signals>>
    BY <1>5 DEF Lease, CheckThread, MarkStarted
  <2>2. pc' \in {"leased", "checked", "marking", "drain", "begin", "start"} /\ pc # "event"
    BY <1>5 DEF Lease, CheckThread, MarkStarted, AfterStart, EndTick, Goto
  <2>3. pc' = "marking" => jstate'[cur'] = "started"
    BY <1>5 DEF Lease, CheckThread, MarkStarted, AfterStart, EndTick, Goto, CurInv, Working,
       StoreOK, locals
  <2>4. Steady' BY <2>1, <2>2, <2>3 DEF Singly, Steady, Ends, engines, signals
  <2> QED BY <2>1, <2>2, <2>4, StillOnce
<1>6. CASE RunThread
  <2>1. UNCHANGED <<engines, inflight, signals, jstate>> /\ pc = "marking"
    BY <1>6 DEF RunThread
  <2>2. pc' = "begin" \/ (pc' = "launch" /\ cur' = cur)
    BY <1>6 DEF RunThread, EndTick, Goto, locals
  <2>3. Steady' BY <2>1, <2>2 DEF Singly, Steady, Ends, engines, signals
  <2> QED BY <2>1, <2>2, <2>3, StillOnce
<1>7. CASE OnAccepted
  <2>1. /\ pc = "event" /\ pc' = "event" /\ cur \in Jobs /\ ThreadOf[cur] \in Threads
        /\ UNCHANGED <<cur, turn, jstate, signals, engines, reason>>
        /\ turnAcc' = [turnAcc EXCEPT ![ThreadOf[cur]] = TRUE]
    BY <1>7, FabricAssumption DEF OnAccepted, CurThread, CurInv, Working
  <2>2. Steady' BY <2>1 DEF Singly, Steady, Ends, signals, engines
  <2>3. ASSUME NEW j \in Jobs PROVE Once(j)'
    <3>1. Once(j) /\ ran'[j] = ran[j] BY <2>1 DEF Singly, engines
    <3>2. ThreadOf[j] \in Threads BY FabricAssumption
    <3>3. Known(j) => Known(j)' BY <2>1, <3>2 DEF Known, engines, InFlightOK
    <3> QED BY <2>1, <3>1, <3>3, OnceKept
  <2>4. \A c \in Cells : Untaken(c)' BY <2>1 DEF Singly, Untaken, engines
  <2> QED BY <2>2, <2>3, <2>4 DEF Singly
<1>8. CASE OnFinal \/ OnFailed
  <2>1. /\ pc = "event" /\ pc' \in {"finishing", "failed"} /\ cur \in Jobs
        /\ cur' = cur /\ UNCHANGED <<inflight, signals, engines>>
        /\ events # <<>> /\ events \in Seq(EngineEvent) /\ Head(events).kind # "accepted"
        /\ pc' = "failed" => reason' = "engine_failed"
        /\ turnAcc[ThreadOf[cur]] \/ pc' = "finishing" => jstate'[cur] = "finished"
    BY <1>8 DEF OnFinal, OnFailed, FailTurn, FinishJob, CurThread, CurInv, Working, StoreOK,
       TickOK, locals
  <2>2. Silent(JobCell(cur))
    <3>1. 1 \in 1..Len(events) /\ Head(events) = events[1] BY <2>1
    <3> QED BY <1>0, <2>1, <3>1 DEF Over
  <2>3. Once(cur) BY <2>1 DEF Singly
  <2>4. jstate'[cur] = "finished" \/ ran'[cur] = 0
    BY <2>1, <2>2, <2>3, FinishedStays DEF Once, Known, AckFirst, Silent, engines
  <2>5. Steady' BY <2>1, <2>4 DEF Singly, Steady, Ends, signals, engines, inflight
  <2>6. ASSUME NEW j \in Jobs PROVE Once(j)'
    <3>1. Once(j) /\ ran'[j] = ran[j] BY <2>1 DEF Singly, engines
    <3>2. CASE j = cur BY <2>4, <3>1, <3>2 DEF Once
    <3>3. CASE j # cur
      <4>1. Known(j) => Known(j)' BY <2>1, <3>3 DEF Known, engines, inflight
      <4> QED BY <2>1, <3>1, <4>1, OnceKept DEF inflight
    <3> QED BY <3>2, <3>3
  <2>7. \A c \in Cells : Untaken(c)' BY <2>1 DEF Singly, Untaken, engines
  <2> QED BY <2>5, <2>6, <2>7 DEF Singly
<1>9. CASE FinalIdle \/ FailThread
  <2>1. /\ pc \in {"finishing", "failed"} /\ UNCHANGED <<engines, signals>> /\ cur \in Jobs
        /\ pc' \in {"drain", "begin", "death", "start"}
        /\ UNCHANGED inflight \/ (Ends /\ DropTurns({ThreadOf[cur]}))
    BY <1>9 DEF FinalIdle, FailThread, Singly, Steady, Ends, CurThread, CurInv, Working,
       AfterDrain, AfterDeath, AfterStart, EndTick, Goto, TickOK
  <2>2. Steady' BY <2>1 DEF Singly, Steady, Ends, signals, engines
  <2>3. ASSUME NEW j \in Jobs PROVE Once(j)'
    <3>1. Once(j) /\ ran'[j] = ran[j] BY <2>1 DEF Singly, engines
    <3>2. CASE UNCHANGED inflight
      <4>1. Known(j) => Known(j)' BY <2>1, <3>2 DEF Known, engines, inflight
      <4> QED BY <3>1, <3>2, <4>1, OnceKept DEF inflight
    <3>3. CASE j = cur /\ Ends
      BY <3>1, <3>3, OnceKept DEF Singly, Steady, Once
    <3>4. CASE j # cur /\ Ends /\ DropTurns({ThreadOf[cur]})
      <4>1. turn[ThreadOf[cur]] = cur BY <3>4 DEF Singly, Steady
      <4>2. ASSUME turn[ThreadOf[j]] = j
            PROVE  turn'[ThreadOf[j]] = j /\ turnAcc'[ThreadOf[j]] = turnAcc[ThreadOf[j]]
        BY <3>4, <4>1, <4>2, FabricAssumption DEF DropTurns, InFlightOK
      <4> QED BY <2>1, <3>1, <4>2, OnceKept DEF Known, engines
    <3> QED BY <2>1, <3>2, <3>3, <3>4
  <2>4. \A c \in Cells : Untaken(c)' BY <2>1 DEF Singly, Untaken, engines
  <2> QED BY <2>2, <2>3, <2>4 DEF Singly
<1>10. ASSUME NEW t \in Threads, EngineDeath(t) PROVE Singly'
  BY <1>10, FabricAssumption DEF EngineDeath, Singly, Steady
<1>11. ASSUME NEW t \in Threads, TurnTimeout(t) PROVE Singly'
  BY <1>11, Disturbs DEF TurnTimeout
(* The job is started and has no turn, so it was never accepted. *)
<1>12. CASE Launch
  <2>1. /\ pc = "launch" /\ cur \in Jobs /\ ThreadOf[cur] \in Threads
        /\ JobCell(cur) = CellOf[ThreadOf[cur]] /\ JobCell(cur) \in Cells
    BY <1>12, WorkingCell DEF Launch, Working
  <2>2. /\ pc' \in {"drain", "begin", "start"} /\ UNCHANGED <<signals, jstate, busy, outbox, ran>>
        /\ engine' = [engine EXCEPT ![JobCell(cur)] = "up"]
        /\ work' = [work EXCEPT ![JobCell(cur)] = Append(work[JobCell(cur)], Heard(cur))]
        /\ turn' = [turn EXCEPT ![ThreadOf[cur]] = cur]
        /\ turnAcc' = [turnAcc EXCEPT ![ThreadOf[cur]] = FALSE]
    BY <1>12 DEF Launch, CurThread, CurCell, store, AfterStart, EndTick, Goto
  <2>3. \A t \in Threads : CellOf[t] = JobCell(cur) => turn[t] = NoJob
    BY <2>1 DEF StartInv, Starting
  <2>4. TurnsOf(JobCell(cur)) = {} BY <2>3 DEF TurnsOf
  <2>5. work[JobCell(cur)] = <<>> /\ outbox[JobCell(cur)] = <<>>
    <3>1. work[JobCell(cur)] = <<>> BY <1>0, <2>1, <2>4 DEF Channel
    <3>2. \A i \in 1..Len(outbox[JobCell(cur)]) : FALSE BY <1>0, <2>1, <2>4 DEF Channel
    <3>3. outbox[JobCell(cur)] \in Seq(EngineEvent) BY <2>1 DEF EnginesOK
    <3> QED BY <3>1, <3>2, <3>3
  <2>6. ran[cur] = 0
    <3>1. turn[ThreadOf[cur]] = NoJob /\ cur # NoJob BY <2>1, <2>3, FabricAssumption
    <3> QED BY <2>1, <3>1 DEF Singly, Steady, Once
  <2>7. Steady' BY <2>1, <2>2 DEF Singly, Steady, Ends, signals, EnginesOK
  <2>8. ASSUME NEW j \in Jobs PROVE Once(j)'
    <3>1. Once(j) /\ ran'[j] = ran[j] BY <2>2 DEF Singly
    <3>2. CASE j = cur BY <2>6, <3>1, <3>2 DEF Once
    <3>3. CASE j # cur
      <4>1. turn[ThreadOf[j]] = j => ThreadOf[j] # ThreadOf[cur] BY <2>1, <2>3, FabricAssumption
      <4>2. turn[ThreadOf[j]] = j =>
              turn'[ThreadOf[j]] = j /\ turnAcc'[ThreadOf[j]] = turnAcc[ThreadOf[j]]
        BY <2>2, <4>1, FabricAssumption DEF InFlightOK
      <4> QED BY <2>1, <2>2, <3>1, <4>2, OnceKept DEF Known
    <3> QED BY <3>2, <3>3
  <2>9. ASSUME NEW c \in Cells PROVE Untaken(c)'
    <3>1. CASE c = JobCell(cur)
      <4>1. work'[c] = <<Heard(cur)>> BY <2>1, <2>2, <2>5, <3>1 DEF EnginesOK
      <4> QED BY <2>2, <2>5, <2>6, <3>1, <4>1 DEF Untaken, Heard
    <3>2. CASE c # JobCell(cur) BY <2>1, <2>2, <3>2 DEF Singly, Untaken, EnginesOK
    <3> QED BY <3>1, <3>2
  <2> QED BY <2>7, <2>8, <2>9 DEF Singly
<1>13. CASE SpawnFails \/ StartFails
  <2>1. /\ pc = "launch" /\ pc' = "failed" /\ reason' \in {"engine_spawn", "start_turn"}
        /\ UNCHANGED <<inflight, signals, work, busy, outbox, ran>>
        /\ \A c \in Cells : engine'[c] # "down"
    <3>1. ~StartUnheard BY Disturbs DEF StartUnheard
    <3> QED BY <1>13, <3>1 DEF SpawnFails, StartFails, FailTurn, Singly, Steady, engines, EnginesOK
  <2>2. Steady' BY <2>1 DEF Singly, Steady, Ends, signals
  <2>3. ASSUME NEW j \in Jobs PROVE Once(j)'
    <3>1. Known(j) => Known(j)' BY <2>1 DEF Known, inflight
    <3> QED BY <2>1, <3>1, OnceKept DEF Singly, inflight
  <2>4. \A c \in Cells : Untaken(c)' BY <2>1 DEF Singly, Untaken
  <2> QED BY <2>2, <2>3, <2>4 DEF Singly
(* The turn at the head was never accepted, and the acceptance is the      *)
(* first thing the engine says of it.                                      *)
<1>14. ASSUME NEW c \in Cells, EngineAccept(c) PROVE Singly'
  <2>1. /\ work[c] # <<>> /\ ~busy[c] /\ UNCHANGED <<store, inflight, pc, locals, signals, engine, work>>
        /\ busy' = [busy EXCEPT ![c] = TRUE] /\ Emit(c, "accepted")
        /\ ran' = [ran EXCEPT ![Head(work[c]).job] = IF @ = 2 THEN 2 ELSE @ + 1]
    BY <1>00, <1>14, AnswerEmitted DEF EngineAccept
  <2>2. PICK k \in TurnsOf(c) : work[c] = <<Heard(k)>> BY <1>0, <2>1 DEF Channel
  <2>3. /\ k \in Jobs /\ turn[ThreadOf[k]] = k /\ JobCell(k) = c /\ Head(work[c]).job = k
    BY <2>2 DEF TurnsOf, TurnInv, JobCell, Heard
  <2>4. ran[k] = 0 /\ outbox[c] = <<>> BY <2>1, <2>3 DEF Singly, Untaken
  <2>5. ran'[k] = 1 /\ (\A j \in Jobs \ {k} : ran'[j] = ran[j])
    BY <2>1, <2>3, <2>4 DEF EnginesOK
  <2>6. AckFirst(outbox'[c])
    <3>1. outbox'[c] = Append(<<>>, [kind |-> "accepted", job |-> k])
      BY <2>1, <2>3, <2>4 DEF Emit, EnginesOK
    <3> QED BY <3>1 DEF AckFirst
  <2>7. \A d \in Cells \ {c} : outbox'[d] = outbox[d] BY <2>1 DEF Emit, EnginesOK
  <2>8. Steady'
    <3>1. Ends => ran'[cur] = ran[cur]
      <4>1. Ends => cur \in Jobs /\ cur # k
        BY <1>0, <2>1, <2>3 DEF Ends, CurInv, Working, Silent
      <4> QED BY <2>5, <4>1
    <3> QED BY <2>1, <3>1 DEF Singly, Steady, Ends, signals, store, inflight, locals
  <2>9. ASSUME NEW j \in Jobs PROVE Once(j)'
    <3>1. CASE j = k
      <4>1. Known(k)' BY <2>3, <2>6 DEF Known, JobCell
      <4> QED BY <2>1, <2>3, <2>5, <3>1, <4>1 DEF Once, inflight
    <3>2. CASE j # k
      <4>1. JobCell(j) \in Cells BY FabricAssumption DEF JobCell
      <4>2. Known(j) => Known(j)'
        BY <2>1, <2>6, <2>7, <4>1 DEF Known, JobCell, inflight, locals
      <4> QED BY <2>1, <2>5, <3>2, <4>2, OnceKept DEF Singly, inflight
    <3> QED BY <3>1, <3>2
  <2>10. ASSUME NEW d \in Cells PROVE Untaken(d)'
    <3>1. CASE d = c BY <2>1, <3>1 DEF Untaken, EnginesOK
    <3>2. CASE d # c
      <4>1. work[d] # <<>> => Head(work[d]).job \in Jobs /\ Head(work[d]).job # k
        <5>1. ASSUME work[d] # <<>>
              PROVE  Head(work[d]).job \in Jobs /\ JobCell(Head(work[d]).job) = d
          <6>1. PICK h \in TurnsOf(d) : work[d] = <<Heard(h)>> BY <1>0, <5>1 DEF Channel
          <6> QED BY <6>1 DEF TurnsOf, TurnInv, JobCell, Heard
        <5> QED BY <2>3, <3>2, <5>1
      <4> QED BY <2>1, <2>5, <2>7, <3>2, <4>1 DEF Singly, Untaken, EnginesOK
    <3> QED BY <3>1, <3>2
  <2> QED BY <2>8, <2>9, <2>10 DEF Singly
<1>15. ASSUME NEW c \in Cells, EngineFinal(c) \/ EngineFails(c) \/ EngineRejects(c) PROVE Singly'
  <2>1. /\ work[c] # <<>> /\ UNCHANGED <<store, inflight, pc, locals, signals, engine, ran>>
        /\ work' = [work EXCEPT ![c] = Tail(@)] /\ busy' = [busy EXCEPT ![c] = FALSE]
        /\ \E kind \in {"final", "failed"} : Emit(c, kind)
    BY <1>00, <1>15, AnswerEmitted DEF EngineFinal, EngineFails, EngineRejects, EndTurn
  <2>2. PICK k \in TurnsOf(c) : work[c] = <<Heard(k)>> BY <1>0, <2>1 DEF Channel
  <2>3. work'[c] = <<>> /\ (\A d \in Cells \ {c} : work'[d] = work[d] /\ busy'[d] = busy[d]
                                                   /\ outbox'[d] = outbox[d])
    BY <2>1, <2>2 DEF EnginesOK, Emit
  <2>4. ASSUME NEW d \in Cells, AckFirst(outbox[d]) PROVE AckFirst(outbox'[d])
    <3>1. CASE d # c BY <2>3, <2>4, <3>1
    <3>2. CASE d = c
      <4>1. PICK e \in EngineEvent : outbox'[c] = Append(outbox[c], e)
        <5>1. PICK kind \in {"final", "failed"} : Emit(c, kind) BY <2>1
        <5>2. Head(work[c]).job \in Jobs BY <2>2 DEF TurnsOf, TurnInv, Heard
        <5>3. [kind |-> kind, job |-> Head(work[c]).job] \in EngineEvent BY <5>2 DEF EngineEvent
        <5> QED BY <5>1, <5>3 DEF Emit, EnginesOK
      <4>2. outbox[c] \in Seq(EngineEvent) /\ outbox[c] # <<>> BY <2>4, <3>2 DEF AckFirst, EnginesOK
      <4>3. outbox'[c] # <<>> /\ Head(outbox'[c]) = Head(outbox[c]) BY <4>1, <4>2
      <4> QED BY <2>4, <3>2, <4>3 DEF AckFirst
    <3> QED BY <3>1, <3>2
  <2>5. Steady' BY <2>1 DEF Singly, Steady, Ends, signals, store, inflight, locals
  <2>6. ASSUME NEW j \in Jobs PROVE Once(j)'
    <3>1. JobCell(j) \in Cells BY FabricAssumption DEF JobCell
    <3>2. Known(j) => Known(j)' BY <2>1, <2>4, <3>1 DEF Known, JobCell, inflight, locals
    <3> QED BY <2>1, <3>2, OnceKept DEF Singly, inflight
  <2>7. ASSUME NEW d \in Cells PROVE Untaken(d)'
    BY <2>1, <2>3 DEF Singly, Untaken
  <2> QED BY <2>5, <2>6, <2>7 DEF Singly
<1>16. ASSUME NEW c \in Cells, EngineDies(c) PROVE Singly'
  BY <1>16, Disturbs DEF EngineDies
<1>17. CASE Crash BY <1>17, Disturbs DEF Crash
<1>18. ASSUME NEW t \in Threads, CancelTorn(t) PROVE Singly'
  BY <1>18 DEF CancelTorn, Disturb, Undisturbed, Without
<1>19. CASE Boot BY <1>19 DEF Boot, Singly, Steady
<1> QED
  BY <1>1, <1>2, <1>3, <1>4, <1>5, <1>6, <1>7, <1>8, <1>9, <1>10, <1>11, <1>12, <1>13, <1>14,
     <1>15, <1>16, <1>17, <1>18, <1>19
     DEF Next, Tick, DrainSteps, DeathSteps, StartSteps, Engines, TimeSteps

(* An agentic turn is never run twice as long as no cancel, death, timeout *)
(* or crash takes a turn from under its engine and no codex call is given  *)
(* up after turn/start was written (NoDoubleTurn claims nothing then):     *)
(* leases that pass early, refused, failing and unstartable turns and      *)
(* failed appends do not make an engine accept a job again.                *)
THEOREM TurnsRunOnce ==
    Spec => [](Without({"cancel", "crash", "die", "timeout"}) => NoDoubleTurn)
<1>1. Init => ChannelInv BY DEF Init, ChannelInv, Channel, Over
<1>2. IInv /\ ChannelInv /\ [Next]_vars => ChannelInv' BY ChannelStep
<1>3. Init => OnceInv
  BY FabricAssumption DEF Init, OnceInv, Singly, Steady, Ends, Once, Untaken
<1>4. IInv /\ ChannelInv /\ OnceInv /\ [Next]_vars => OnceInv'
  BY OnceStep, UndisturbedBefore DEF OnceInv
<1>5. OnceInv => (Without({"cancel", "crash", "die", "timeout"}) => NoDoubleTurn)
  <2>1. Without({"cancel", "crash", "die", "timeout"}) /\ Without({"lostack"}) => Undisturbed
    BY DEF Without, Undisturbed
  <2> QED BY <2>1 DEF OnceInv, Singly, Once, NoDoubleTurn
<1> QED BY <1>1, <1>2, <1>3, <1>4, <1>5, Invariance, PTL DEF Spec
=============================================================================
