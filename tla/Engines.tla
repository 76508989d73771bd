------------------------------ MODULE Engines -------------------------------
(***************************************************************************)
(* Engine processes and the conversations they keep: what the supervisor   *)
(* creates and reuses, what a turn is asked to continue, which ids are     *)
(* remembered for the next turn of the thread, and the dialects of codex   *)
(* (JSON-RPC: the scheduler blocks on a response with its id), claude and  *)
(* pi (lines, read by a thread of their own).                              *)
(*                                                                         *)
(* The scheduler is one thread, so its steps on a cell interleave only     *)
(* with engines and handlers; its job table is reduced to the queue of     *)
(* Registry and the started job of a cell (Fabric has the table, cancels   *)
(* and leases in full).  A conversation is the sequence of turns the       *)
(* engine has in its history; it outlives the process.                     *)
(***************************************************************************)
EXTENDS Registry

CONSTANT MaxTurns   \* bound: turns started

(* A started job: its thread, the number of its turn, engine_turn_id.      *)
Job == [thread : Requests, n : Nat, eturn : Nat \cup {None}]

Conversation == Nat \cup {None}

(* What is written to an engine: codex's requests have an id.              *)
Message ==
    [id : Nat, what : {"resume", "turn", "interrupt"}, n : Nat, conv : Conversation]
    \cup [what : {"turn", "interrupt"}, n : Nat, conv : Conversation]

Run == [n : Nat, conv : Conversation]

(* An adapter of EngineSupervisor.engines, with its process.               *)
AdapterRow ==
    [kind : EngineKind, up : BOOLEAN,
     conv : Conversation,     \* codex: engine_thread_id; pi: the process's own
     resume : Conversation,   \* claude: pending_resume
     session : Conversation,  \* claude: session id of the last final line read
     id : Nat,                \* codex: next_id
     inq : Seq(Message),      \* requests written to stdin
     resp : Seq([id : Nat, ok : BOOLEAN, n : Nat, conv : Conversation]),  \* codex: resp_rx
     out : Seq([what : {"accepted", "final", "failed"}, n : Nat]),        \* events to poll
     run : Run \cup {None},   \* the turn the process works on
     aborted : BOOLEAN]       \* it was told to give that turn up

(* Where try_start_turn is, and on which cell.                             *)
Place == [cell : Cells, at : {"ensure", "resume", "resuming", "turn", "starting"}]

ASSUME EnginesAssumption ==
    /\ MaxTurns \in Nat
    /\ None \notin Nat \cup Job \cup AdapterRow \cup Place

VARIABLES
    engine,  \* EngineSupervisor.engines: adapter and process of each cell
    job,     \* the started job of a cell: thread, turn number, engine_turn_id
    flight,  \* cells with an entry in Scheduler.in_flight
    sched,   \* the Place of try_start_turn, or None
    owner,   \* the thread of each turn started so far
    convs,   \* the engines' conversations: kind and turns, oldest first
    finals   \* history: turns whose final answer was recorded

engines == <<engine, job, flight, sched, owner, convs, finals>>
vars == <<registry, faults, engines>>

EnginesInit ==
    /\ engine = [c \in Cells |-> None]
    /\ job = [c \in Cells |-> None]
    /\ flight = {} /\ sched = None
    /\ owner = <<>> /\ convs = <<>> /\ finals = {}

Init == RegistryInit /\ EnginesInit

(* cell_list_defs, ephemeral_startable_defs                                *)
Def(c) == IF c = Named THEN cells ELSE thread[c].kind

At(c, step) == sched # None /\ sched.cell = c /\ sched.at = step
Goto(c, step) == sched' = [cell |-> c, at |-> step]

SetState(r, s) == thread' = [thread EXCEPT ![r].state = s]

Adapter(kind, conv) ==
    [kind |-> kind, up |-> TRUE, conv |-> conv, resume |-> None, session |-> None,
     id |-> 0, inq |-> <<>>, resp |-> <<>>, out |-> <<>>, run |-> None, aborted |-> FALSE]

-----------------------------------------------------------------------------
(***************************************************************************)
(* How a turn ends in the tables.                                          *)
(***************************************************************************)

(* job_finish                                                              *)
Finish(c) == job' = [job EXCEPT ![c] = None] /\ UNCHANGED queue

(* job_finish if the engine had accepted, job_requeue if not: it is the    *)
(* oldest job of its cell again                                            *)
FinishOrRequeue(c) ==
    /\ job' = [job EXCEPT ![c] = None]
    /\ queue' = IF job[c].eturn = None
                THEN [queue EXCEPT ![c] = <<job[c].thread>> \o @] ELSE queue

fail_turn(c) == FinishOrRequeue(c) /\ SetState(job[c].thread, "failed_unknown")

-----------------------------------------------------------------------------
(***************************************************************************)
(* try_start_turn.                                                         *)
(***************************************************************************)
Lease(c) ==
    /\ op = None /\ sched = None /\ c \notin flight
    /\ c = Named => cells # None
    /\ job[c] = None /\ queue[c] # <<>> /\ Len(owner) < MaxTurns
    /\ LET r == Head(queue[c]) IN
       /\ thread[r].state # "running"
       /\ job' = [job EXCEPT ![c] = [thread |-> r, n |-> Len(owner) + 1, eturn |-> None]]
       /\ owner' = Append(owner, r)
       /\ SetState(r, "running")
    /\ queue' = [queue EXCEPT ![c] = Tail(@)]
    /\ Goto(c, "ensure")
    /\ UNCHANGED <<cells, bound, worktree, call, op, audit, tasks, faults,
                   engine, flight, convs, finals>>

(* ensure: an adapter in the map is reused, of whatever kind and state;    *)
(* a new codex adapter starts an engine thread, a new pi process is one    *)
ensure(c) ==
    /\ At(c, "ensure")
    /\ \/ engine[c] # None /\ UNCHANGED <<engine, convs>>
       \/ /\ engine[c] = None /\ Def(c) = "claude"
          /\ engine' = [engine EXCEPT ![c] = Adapter("claude", None)]
          /\ UNCHANGED convs
       \/ /\ engine[c] = None /\ Def(c) # "claude"
          /\ engine' = [engine EXCEPT ![c] = Adapter(Def(c), Len(convs) + 1)]
          /\ convs' = Append(convs, [kind |-> Def(c), turns |-> <<>>])
    /\ Goto(c, "resume")
    /\ UNCHANGED <<registry, faults, job, flight, owner, finals>>

(* make_adapter fails: no retry                                            *)
SpawnFails(c) ==
    /\ At(c, "ensure") /\ engine[c] = None /\ op = None /\ Fault("spawnfail")
    /\ Finish(c) /\ SetState(job[c].thread, "failed_unknown")
    /\ sched' = None
    /\ UNCHANGED <<cells, bound, worktree, call, op, audit, tasks,
                   engine, flight, owner, convs, finals>>

(* CodexAdapter::call: the request goes out under the next id              *)
Request(c, what, n, conv) ==
    engine' = [engine EXCEPT
        ![c].id = @ + 1,
        ![c].inq = Append(@, [id |-> engine[c].id + 1, what |-> what, n |-> n, conv |-> conv])]

(* Wrong variant: only an adapter without a history is asked to resume.    *)
maybe_resumeFresh(c) ==
    /\ At(c, "resume")
    /\ LET e == engine[c]
           t == thread[job[c].thread]
       IN  \/ /\ Def(c) = "codex" /\ e.kind = "codex" /\ e.up /\ t.ethread # None
              /\ Request(c, "resume", 0, t.ethread)
              /\ Goto(c, "resuming")
           \/ /\ ~ (Def(c) = "codex" /\ e.kind = "codex" /\ e.up /\ t.ethread # None)
              /\ engine' = IF Def(c) # "codex" /\ e.kind = "claude" /\ e.session = None
                           THEN [engine EXCEPT ![c].resume = t.esession] ELSE engine
              /\ Goto(c, "turn")
    /\ UNCHANGED <<registry, faults, job, flight, owner, convs, finals>>

(* maybe_resume: the definition chooses the id, the adapter whether it can.*)
(* codex asks the engine; claude notes the session for its next turn; what *)
(* an adapter cannot do is an error that is dropped.                       *)
maybe_resume(c) ==
    /\ At(c, "resume")
    /\ LET e == engine[c]
           t == thread[job[c].thread]
       IN  \/ /\ Def(c) = "codex" /\ e.kind = "codex" /\ e.up /\ t.ethread # None
              /\ Request(c, "resume", 0, t.ethread)
              /\ Goto(c, "resuming")
           \/ /\ ~ (Def(c) = "codex" /\ e.kind = "codex" /\ e.up /\ t.ethread # None)
              /\ engine' = IF Def(c) # "codex" /\ e.kind = "claude" /\ t.esession # None
                           THEN [engine EXCEPT ![c].resume = t.esession] ELSE engine
              /\ Goto(c, "turn")
    /\ UNCHANGED <<registry, faults, job, flight, owner, convs, finals>>

(* Wrong variant: the response that comes first is the answer.             *)
MineFirst(e) == TRUE

(* call skips the responses of calls it has given up on                    *)
Mine(e) == Head(e.resp).id = e.id

SkipResponse(c) ==
    /\ At(c, "resuming") \/ At(c, "starting")
    /\ engine[c].resp # <<>> /\ ~ Mine(engine[c])
    /\ engine' = [engine EXCEPT ![c].resp = Tail(@)]
    /\ UNCHANGED <<registry, faults, job, flight, sched, owner, convs, finals>>

(* resume_thread: the adapter's thread changes only on a good answer       *)
resume_thread(c) ==
    /\ At(c, "resuming") /\ engine[c].resp # <<>> /\ Mine(engine[c])
    /\ engine' = [engine EXCEPT
         ![c].conv = IF Head(engine[c].resp).ok THEN Head(engine[c].resp).conv ELSE @,
         ![c].resp = Tail(@)]
    /\ Goto(c, "turn")
    /\ UNCHANGED <<registry, faults, job, flight, owner, convs, finals>>

(* RPC_TIMEOUT passes, or the reader is gone                               *)
CallFails(c) == engine[c].resp = <<>> /\ IF engine[c].up THEN Fault("rpctimeout")
                                         ELSE UNCHANGED faults

ResumeFails(c) ==
    /\ At(c, "resuming") /\ CallFails(c)
    /\ Goto(c, "turn")
    /\ UNCHANGED <<registry, engine, job, flight, owner, convs, finals>>

(* Wrong variant: the session stays set for whatever turn comes next.      *)
WritePromptKeepsResume(c) ==
    engine' = [engine EXCEPT
        ![c].inq = Append(@, [what |-> "turn", n |-> job[c].n, conv |-> engine[c].resume])]

(* claude's start_turn takes pending_resume; pi has none                   *)
WritePrompt(c) ==
    engine' = [engine EXCEPT
        ![c].inq = Append(@, [what |-> "turn", n |-> job[c].n, conv |-> engine[c].resume]),
        ![c].resume = None]

start_turn(c) ==
    /\ At(c, "turn") /\ engine[c].up
    /\ \/ /\ engine[c].kind = "codex"
          /\ Request(c, "turn", job[c].n, engine[c].conv)
          /\ Goto(c, "starting")
          /\ UNCHANGED flight
       \/ /\ engine[c].kind # "codex"
          /\ WritePrompt(c)
          /\ flight' = flight \cup {c} /\ sched' = None
    /\ UNCHANGED <<registry, faults, job, owner, convs, finals>>

(* The ack of turn/start: Accepted is polled before any notification       *)
StartAcked(c) ==
    /\ At(c, "starting") /\ engine[c].resp # <<>> /\ Mine(engine[c])
    /\ Head(engine[c].resp).ok
    /\ engine' = [engine EXCEPT
         ![c].out = <<[what |-> "accepted", n |-> Head(engine[c].resp).n]>> \o @,
         ![c].resp = Tail(@)]
    /\ flight' = flight \cup {c} /\ sched' = None
    /\ UNCHANGED <<registry, faults, job, owner, convs, finals>>

(* start_turn returns an error: the write failed, the engine refused, no   *)
(* answer came, or a good one states another policy than YOLO, while the   *)
(* engine works on the turn; the adapter stays in the map, whatever its    *)
(* state                                                                   *)
StartFails(c) ==
    /\ op = None
    /\ \/ At(c, "turn") /\ ~ engine[c].up /\ UNCHANGED <<faults, engine>>
       \/ At(c, "starting") /\ CallFails(c) /\ UNCHANGED engine
       \/ /\ At(c, "starting") /\ engine[c].resp # <<>> /\ Mine(engine[c])
          /\ IF Head(engine[c].resp).ok THEN Fault("policy") ELSE UNCHANGED faults
          /\ engine' = [engine EXCEPT ![c].resp = Tail(@)]
    /\ fail_turn(c)
    /\ sched' = None
    /\ UNCHANGED <<cells, bound, worktree, call, op, audit, tasks,
                   flight, owner, convs, finals>>

-----------------------------------------------------------------------------
(***************************************************************************)
(* The engine process and the reader of its output (external, but for the  *)
(* mapping of lines to events).                                            *)
(***************************************************************************)
Extend(conv, n) == [convs EXCEPT ![conv].turns = Append(@, n)]

Respond(c, q, ok) ==
    engine' = [engine EXCEPT
        ![c].inq = Tail(@),
        ![c].resp = Append(@, [id |-> q.id, ok |-> ok, n |-> q.n, conv |-> q.conv]),
        ![c].run = IF ok /\ q.what = "turn" THEN [n |-> q.n, conv |-> q.conv] ELSE @]

(* The process has no turn under way and reads the next request            *)
Ready(c) ==
    /\ engine[c].up /\ engine[c].run = None
    /\ engine[c].inq # <<>> /\ Head(engine[c].inq).what # "interrupt"

(* An interrupt is read while the turn runs; codex answers it              *)
Interrupted(c) ==
    /\ engine[c] # None /\ engine[c].up
    /\ engine[c].inq # <<>> /\ Head(engine[c].inq).what = "interrupt"
    /\ LET q == Head(engine[c].inq) IN
       engine' = [engine EXCEPT
         ![c].inq = Tail(@),
         ![c].resp = IF engine[c].kind = "codex"
                     THEN Append(@, [id |-> q.id, ok |-> TRUE, n |-> q.n, conv |-> q.conv])
                     ELSE @,
         ![c].aborted = engine[c].run # None]
    /\ UNCHANGED <<registry, faults, job, flight, sched, owner, convs, finals>>

(* codex answers every request, and begins the turn it acknowledges        *)
CodexTakes(c) ==
    /\ engine[c] # None /\ engine[c].kind = "codex"
    /\ Ready(c)
    /\ LET q == Head(engine[c].inq) IN
       \/ /\ Respond(c, q, TRUE) /\ UNCHANGED faults
          /\ convs' = IF q.what = "turn" THEN Extend(q.conv, q.n) ELSE convs
       \/ Fault("reject") /\ Respond(c, q, FALSE) /\ UNCHANGED convs
    /\ UNCHANGED <<registry, job, flight, sched, owner, finals>>

(* claude continues the session it is given or opens one; pi goes on with  *)
(* the one of its process                                                  *)
PromptTaken(c) ==
    /\ engine[c] # None /\ engine[c].kind # "codex"
    /\ Ready(c)
    /\ LET q == Head(engine[c].inq)
           given == IF engine[c].kind = "pi" THEN engine[c].conv ELSE q.conv
           conv == IF given = None THEN Len(convs) + 1 ELSE given
       IN  /\ convs' = IF given = None
                       THEN Append(convs, [kind |-> "claude", turns |-> <<q.n>>])
                       ELSE Extend(conv, q.n)
           /\ engine' = [engine EXCEPT
                ![c].inq = Tail(@), ![c].run = [n |-> q.n, conv |-> conv],
                ![c].out = Append(@, [what |-> "accepted", n |-> q.n])]
    /\ UNCHANGED <<registry, faults, job, flight, sched, owner, finals>>

(* pi's preflight refuses the prompt: an answer without acceptance         *)
PromptRefused(c) ==
    /\ engine[c] # None /\ engine[c].kind = "pi"
    /\ Ready(c)
    /\ Fault("reject")
    /\ engine' = [engine EXCEPT
         ![c].inq = Tail(@),
         ![c].out = Append(@, [what |-> "failed", n |-> Head(engine[c].inq).n])]
    /\ UNCHANGED <<registry, job, flight, sched, owner, convs, finals>>

(* The lines an engine may end a turn with, and the event each becomes:    *)
(* pi's agent_end with willRetry becomes none and the turn goes on         *)
LastLines(kind) ==
    CASE kind = "codex"  -> {"turn/completed", "turn/failed"}
      [] kind = "claude" -> {"final", "error"}
      [] kind = "pi"     -> {"willRetry", "stop", "aborted"}

map_event(line) ==
    CASE line \in {"turn/completed", "final", "stop"} -> "final"
      [] line \in {"turn/failed", "error", "aborted"} -> "failed"
      [] OTHER -> "none"

Ended(c, ev, session) ==
    engine' = [engine EXCEPT
        ![c].run = None, ![c].aborted = FALSE, ![c].session = session,
        ![c].out = Append(@, [what |-> ev, n |-> engine[c].run.n])]

(* The reader has the session of a claude final before the event is there; *)
(* a stream that ended without a result names none, and the adapter keeps  *)
(* the one it had, of whatever thread                                      *)
EngineEnds(c) ==
    /\ engine[c] # None /\ engine[c].up /\ engine[c].run # None
    /\ \E line \in LastLines(engine[c].kind) :
         LET ev == map_event(line)
             e == engine[c]
         IN  \/ /\ ev = "failed"
                /\ IF e.aborted THEN UNCHANGED faults ELSE Fault("fail")
                /\ Ended(c, ev, e.session)
             \/ /\ ev = "final" /\ UNCHANGED faults
                /\ Ended(c, ev, IF e.kind = "claude" THEN e.run.conv ELSE e.session)
             \/ /\ ev = "final" /\ e.kind = "claude" /\ Fault("nosession")
                /\ Ended(c, ev, e.session)
    /\ UNCHANGED <<registry, job, flight, sched, owner, convs, finals>>

Dies(c) ==
    /\ engine[c] # None /\ engine[c].up /\ Fault("die")
    /\ engine' = [engine EXCEPT ![c].up = FALSE, ![c].run = None, ![c].inq = <<>>,
                                ![c].aborted = FALSE]
    /\ UNCHANGED <<registry, job, flight, sched, owner, convs, finals>>

-----------------------------------------------------------------------------
(***************************************************************************)
(* drain_turn, check_death_and_timeout.                                    *)
(***************************************************************************)
Event(c, what) ==
    /\ sched = None /\ op = None /\ c \in flight /\ engine[c] # None
    /\ engine[c].out # <<>> /\ Head(engine[c].out).what = what

OnAccepted(c) ==
    /\ Event(c, "accepted")
    /\ job' = [job EXCEPT ![c].eturn = Head(engine[c].out).n]
    /\ engine' = [engine EXCEPT ![c].out = Tail(@)]
    /\ UNCHANGED <<registry, faults, flight, sched, owner, convs, finals>>

(* persist_engine_ids: what the adapter knows, each id in its own column   *)
Persisted(t, e) ==
    [t EXCEPT !.ethread = IF e.kind = "codex" THEN e.conv ELSE @,
              !.esession = IF e.kind = "claude" /\ e.session # None THEN e.session ELSE @,
              !.state = "idle"]

(* The rest of the batch is dropped                                        *)
OnFinal(c) ==
    /\ Event(c, "final")
    /\ thread' = [thread EXCEPT ![job[c].thread] = Persisted(@, engine[c])]
    /\ finals' = finals \cup {job[c].n}
    /\ Finish(c)
    /\ engine' = [engine EXCEPT ![c].out = <<>>]
    /\ flight' = flight \ {c}
    /\ UNCHANGED <<cells, bound, worktree, call, op, audit, tasks, faults,
                   sched, owner, convs>>

OnFailed(c) ==
    /\ Event(c, "failed")
    /\ fail_turn(c)
    /\ engine' = [engine EXCEPT ![c].out = <<>>]
    /\ flight' = flight \ {c}
    /\ UNCHANGED <<cells, bound, worktree, call, op, audit, tasks, faults,
                   sched, owner, convs, finals>>

(* The process is down: the turn fails and the adapter goes                *)
Death(c) ==
    /\ sched = None /\ op = None /\ c \in flight /\ ~ engine[c].up
    /\ fail_turn(c)
    /\ engine' = [engine EXCEPT ![c] = None]
    /\ flight' = flight \ {c}
    /\ UNCHANGED <<cells, bound, worktree, call, op, audit, tasks, faults,
                   sched, owner, convs, finals>>

(* interrupt: written and not waited for; adapter and process stay         *)
interrupt(c) ==
    IF engine[c].kind = "codex" THEN Request(c, "interrupt", 0, None)
    ELSE engine' = [engine EXCEPT
           ![c].inq = Append(@, [what |-> "interrupt", n |-> 0, conv |-> None])]

(* The turn is given up and interrupted.  The tick has drained before it   *)
(* looks at the clock, so a codex turn's Accepted, there since start_turn, *)
(* has been polled.                                                        *)
Timeout(c) ==
    /\ sched = None /\ op = None /\ c \in flight /\ engine[c].up /\ Fault("timeout")
    /\ engine[c].kind = "codex" => job[c].eturn # None
    /\ FinishOrRequeue(c) /\ SetState(job[c].thread, "timeout")
    /\ interrupt(c)
    /\ flight' = flight \ {c}
    /\ UNCHANGED <<cells, bound, worktree, call, op, audit, tasks,
                   sched, owner, convs, finals>>

(* A started job no turn is in flight for, after a restart: its lease ends *)
LeaseExpires(c) ==
    /\ sched = None /\ op = None /\ c \notin flight
    /\ job[c] # None /\ job[c].eturn = None
    /\ FinishOrRequeue(c)
    /\ UNCHANGED <<cells, thread, bound, worktree, call, op, audit, tasks, faults,
                   engine, flight, sched, owner, convs, finals>>

(* Engines go with the daemon, started jobs stay                           *)
Restart ==
    /\ RegistryRestart
    /\ engine' = [c \in Cells |-> None]
    /\ flight' = {} /\ sched' = None
    /\ UNCHANGED <<job, owner, convs, finals>>

Next ==
    \/ RegistryNext /\ UNCHANGED engines
    \/ Restart
    \/ \E c \in Cells :
         \/ Lease(c) \/ ensure(c) \/ SpawnFails(c) \/ maybe_resume(c) \/ SkipResponse(c)
         \/ resume_thread(c) \/ ResumeFails(c) \/ start_turn(c) \/ StartAcked(c) \/ StartFails(c)
         \/ CodexTakes(c) \/ PromptTaken(c) \/ PromptRefused(c) \/ Interrupted(c) \/ EngineEnds(c) \/ Dies(c)
         \/ OnAccepted(c) \/ OnFinal(c) \/ OnFailed(c) \/ Death(c) \/ Timeout(c) \/ LeaseExpires(c)

Spec == Init /\ [][Next]_vars

-----------------------------------------------------------------------------
(***************************************************************************)
(* Properties.                                                             *)
(***************************************************************************)

(* An engine_turn_id recorded for a turn is the one the engine gave that   *)
(* turn: for codex always, a call that was given up included, since call   *)
(* compares ids; for the line protocols, whose events name no turn, as     *)
(* long as none was given up.                                              *)
AckMatched ==
    \A c \in flight : engine[c].kind = "codex" \/ Without({"timeout"}) =>
        job[c].eturn \in {None, job[c].n}

(* A conversation has turns of one thread only, but for those of codex and *)
(* pi, where the threads of a cell share what the process holds: no claude *)
(* session is continued by another thread, through resumes, deaths,        *)
(* restarts and redefinitions.  (After a time-out the events of the turn   *)
(* that was given up are taken for the next one's, its session too; a      *)
(* final without a session leaves the one of another thread to be          *)
(* recorded.)                                                              *)
OwnHistory ==
    Without({"timeout", "nosession"}) => \A i \in DOMAIN convs :
        LET turns == convs[i].turns IN
        \A m, n \in DOMAIN turns :
            LET s == owner[turns[m]] t == owner[turns[n]] IN
            s = t \/ (convs[i].kind # "claude" /\ thread[s].cell = thread[t].cell)

(* Honest resume: a turn of a codex or claude thread is run on a           *)
(* conversation that has every turn of the thread whose answer was         *)
(* recorded before, whether or not process and daemon lived on in between. *)
(* (A resume that is refused or not answered is ignored, and the turn is   *)
(* run elsewhere; a final without a session leaves the row without it.)    *)
Continuity ==
    Without({"timeout", "rpctimeout", "reject", "update", "nosession"}) => \A i \in DOMAIN convs :
        LET turns == convs[i].turns IN
        convs[i].kind # "pi" => \A k \in DOMAIN turns : \A m \in finals :
            m < turns[k] /\ owner[m] = owner[turns[k]] => \E h \in 1..k : turns[h] = m
=============================================================================
