# A TLA+ model of crewd

crewd is a daemon that connects *cells* (named or ephemeral agents). It has two
halves. The **bus** carries messages and questions between cells: `cell_send`,
`cell_broadcast`, `cell_inbox`, `cell_ask`, `cell_await`, `cell_reply`. The
**fabric** runs work on cells through engine processes (claude, codex, pi):
`cell_spawn`, `cell_send_task`, `cell_cancel`, and a scheduler thread. Both keep
their state in one SQLite database behind one mutex, and log to one
hash-chained audit file.

This directory holds TLA+ modules for both halves, TLC configurations that check
them on small instances, and proofs that TLAPS checks for every instance.
`PROJECT.json` maps each definition to the lines it models and lists runs,
hazards, findings and theorems.

## 1. Inventory

| part | state | operations | hard because |
|---|---|---|---|
| scheduler (`crewd/src/scheduler.rs`) | `in_flight`: thread -> turn, with its accepted flag | `tick` (drain cancels, requeue lapsed leases, drain events, check death and time-out, start turns, drain again), `boot_recovery` | the store mutex is released between statements; an error ends a tick anywhere; a crash falls between any two commits |
| jobs (`crewd-core/src/jobs.rs`) | `cell_jobs`: state, lease, acceptance, order | enqueue with depth cap, lease, start, accept, finish, cancel, requeue | updates are unconditional: the callers' order is what keeps the table right |
| threads (`crewd-core/src/threads.rs`) | `cell_threads.state` | guarded transitions | the state of a thread and of its job are two commits |
| fabric handlers (`handlers.rs`, `spawn.rs`) | none of their own | spawn, send_task, cancel (store section, audit, signal) | run concurrently with the scheduler |
| supervisor and engines (`supervisor.rs`, `engines/`, `shim/`) | adapter per cell, child process, event channel | ensure, start_turn, poll, stop | events arrive late, the process dies at any time |
| asks (`handlers.rs`, `store.rs`, `delivery.rs`) | `asks`, `dedupe`, `deliveries` rows; wakers | ask, await, reply, expiry | replies, expiries, time-outs and notifications race |
| wait-for graph (`tickets.rs`) | counted edges between cells | closes_cycle, try_activate_await, release | must reject exactly the circular waits, on every exit path |
| mail (`handlers.rs`, `store.rs`, `delivery.rs`, `adapter.rs`) | `deliveries`: state, attempts, lease, retry time | send, broadcast, inbox pull, delivery loop | an outcome is applied after the mutex was released |
| audit chain (`audit.rs`) | log file, head hash | open, append, verify | a write, a sync or the process stops half way |
| quota and ACL (`quota.rs`, `acl.rs`) | sliding windows; capabilities and grants | note-and-check, authorize | every limit is read under a lock that is released before the next one |
| sessions (`auth.rs`, `server.rs`) | token records, revoked sets, byte carry of a connection | issue, rotate, revoke, verify; handshake, framing, dispatch | no lock around the record; revocation during a call; frames split and joined by reads |
| registry (`cells.rs`, `spawn.rs`) | definitions, spawn keys, threads, worktree owners | register, update, spawn, record and clean up worktrees | audit and write are two steps; a retry meets a busy cell |
| engine protocols (`engines/*.rs`) | per adapter: request ids, engine thread, pending and last session | call, resume, start, interrupt, poll | answers come late; ids outlive processes; the scheduler gives up and goes on |
| types, wire, validators, config, CLI | none | load, parse, validate | sequential |

How they interact: handlers and the delivery loop are tokio tasks on a
multi-threaded runtime, the scheduler is a thread. They share the store mutex,
an unbounded channel carries cancel signals (cell names) from `cell_cancel` to
the scheduler, `ask_wakers` carries notifications from replies and expiries to
awaits. Every SQL statement commits on its own except where `spawn_idempotent`
opens a transaction.

What makes each part correct, in one line each:

- fabric: one started job and one turn per cell; FIFO; no turn run twice; a
  finished job stays finished; a cancelled turn is stopped; every job ends;
- asks: one outcome per ask; one ticket per key; nothing visible before it is
  audited; no circular wait; every wait ends, with the answer if there is one;
- mail: audited before it can be seen; one message per key; delivered means
  handed over; heard failures within the budget; every row settles;
- audit: what was acknowledged is in every log that verifies; admission: the
  rate ceiling holds of every window, and the caps up to the calls under way;
- sessions: a retired token opens nothing, revocation cuts, answers in order;
- registry: no definition, spawned thread or worktree without its event, a key
  gives one thread; engines: an
  acknowledgement, a conversation and a resumed history belong to the turn and
  the thread they are used for.

## 2. Modules

| module | contents |
|---|---|
| `JobLedger` | abstract specification: what the fabric promises of a job |
| `Fabric`, `MCFabric`, `FabricProofs` | scheduler, jobs, threads, fabric handlers, supervisor, engines as far as the scheduler sees them, crash and boot; implements `JobLedger` |
| `Registry` | definitions, spawn keys, threads, worktrees: the rows behind spawn and follow-ups |
| `Engines`, `MCEngines`, `EnginesProofs` | `Registry` composed with the supervisor, the three engine dialects and the conversations they keep |
| `WaitGraph` | closed sets, reachability, acyclicity: the reference definitions |
| `CycleSearch`, `MCCycleSearch`, `CycleSearchProofs` | the breadth-first search of `closes_cycle`, against `WaitGraph` |
| `Asks`, `MCAsks`, `AsksProofs` | ask, await, reply, expiry, crash, over `WaitGraph` |
| `Mail`, `MCMail`, `MailProofs` | send, broadcast, inbox, tool correlation, delivery loop, crash |
| `AuditChain`, `MCAuditChain`, `AuditChainProofs` | the log file and its failures |
| `Admission`, `MCAdmission`, `AdmissionProofs` | ACL, queue depth, rate windows, pending-ask cap |
| `Sessions`, `MCSessions`, `SessionsProofs` | token records, handshake, framing, dispatch, revocation |

The modules meet at tables and calls. `Registry` has the rows that `cell_spawn`
writes, and `Engines` extends it with what the scheduler does to them; `Fabric`
is the same scheduler with the job table, cancels and leases in full and the
engine dialects reduced to accepted, final and failed. `Asks` writes delivery
rows that `Mail` would deliver, `Admission` decides whether `Mail` and `Asks`
are reached, `AuditChain` is what each "audited" set or failing append of the
other modules stands for, and `Sessions` is what dispatches the calls.

In each module a definition marked "Wrong variant" is the definition after it
with one plausible bug. It is used by nothing; putting it in place of the right
one must make TLC report the property `PROJECT.json` names under `mutants`.

### Fabric

State. `tstate`, `jstate`, `rows`, `acc`, `lease` are the two tables. `turn`
and `turnAcc` are `in_flight`. `pc`, `pass`, `todo`, `cells`, `existing`,
`cur`, `accepted`, `events`, `reason` are the program counter and the locals of
`tick` and the functions it calls. `cancelling` and `cancels` are the cancel
handlers past their store section and the signals in the channel. `engine`,
`work`, `busy`, `outbox` are the supervisor's map and, per cell, what the child
process was given (and whether the adapter will hear that it was accepted),
whether it accepted the head of it, and what it has written that was not polled. `ran` counts acceptances by engines (history).

Steps. One action is one critical section of the store mutex. Where a section
has two statements that commit separately it is two actions, with the store
locked in between (`StoreLocked`), so that a crash can fall there and nothing
else can. A tick is: `BeginTick` (drain cancels, requeue lapsed leases);
`Poll`, `OnAccepted`, `OnFinal`, `FinalIdle`, `OnFailed`, `FailThread`,
`EventsDone` for each turn; `EngineDeath`, `TurnTimeout`, `TimeoutJob`,
`TurnHealthy` for each turn; `SkipCell`, `Lease`, `CheckThread`, `MarkStarted`,
`RunThread`, `Launch` and the failures `LaunchAuditFails`, `SpawnFails`,
`StartFails` for each cell; a second drain. `StartFails` gives a live engine
nothing when the engine refuses, and leaves it with the turn (`StartUnheard`)
when codex has taken `turn/start` and the call errs all the same: its answer
does not come within `RPC_TIMEOUT`, or states another policy than YOLO. The job
goes back either way; a turn nobody heard accepted still reports its end. An error returned with `?` ends the
tick in the model as in the code. Handlers: `Spawn`, `SendTask`, and the three
parts of a cancel, `CancelStore`, `CancelSignal`, `CancelAuditFails`. Engines:
`EngineAccept`, `EngineFinal`, `EngineFails`, `EngineRejects`, `EngineDies`.
Time and restart: `LeaseExpires`, `Crash`, `CancelTorn`, `Boot`.

`JobLedger` has none of this: a job is none, waiting, started, finished or
cancelled; it is started only where no other job of its cell is, goes back only
while no acceptance is recorded, and is finished for good. `Fabric` implements
it (`KeepsLedger`) with the job table as refinement mapping: queued and leased
rows are waiting (`Phase`), the accepted set is `accepted_by_engine_at`. The one
latitude the ledger had to be given is that a cancelled job may be started: see
section 4, cancel_final.

Abstractions.

- Every cell is visited in step 5 of every tick; the code visits the registered
  cells and the ephemeral ones with work, and a cell without work does nothing.
- Leases are null, live or expired and turns may time out at any check. The
  turn time-out (30 min) is far above the lease (30 s), so a lease may expire
  under any unaccepted turn.
- `drain_cancels` and the requeue of lapsed leases are one step: nothing that
  another process does in between is seen by either.
- Boot recovery is one step; it is idempotent and nothing else runs.
- The several commits of one cancel are one step (`CancelStore`) unless the
  daemon is killed among them (`CancelTorn`: a prefix of the rows is cancelled,
  the thread is not, no signal is sent). The mutex is held, so nobody else sees
  the prefix.
- Payloads, notes and the journal are left out, and so are ownership checks,
  which only refuse. Engine ids and resume are in `Engines`, spawn keys in
  `Registry`.
- The respawn backoff is computed by the supervisor and never waited for.
- An engine runs one turn after the other. The claude shim's handling of a
  third overlapping turn is not modelled.

### Asks

State: `ticket`, `reply`, `sent`, `bound`, `audited` are the `asks`,
`deliveries` and `dedupe` rows and the audit log; `lock` is the store mutex
while a handler is between two commits; `edges` are the counters of
`WaitForGraph`; `wakers` and `permit` are `ask_wakers` and the permits of its
`Notify` objects; `expiring` are the ids the delivery loop has expired and not
yet notified; `call` says where each call is. A call of `cell_ask` makes one
ticket at most, so the call stands for the `ask_id`; a retry is a second call
with the same key. `NotifyOne` is tokio's `notify_one` as the code relies on
it: one sleeper is woken, or a permit is kept, or, without an entry in
`ask_wakers`, nothing happens. Which sleeper is woken is left open.

`ask`: `AskAdmit` (cap, in a section of its own), then in one section
`AskDuplicate`, or `AskAudit`, `AskDeliver`, `AskTicket`, `AskBind`, or
`AskAuditFails`. `reply`: `ReplyLookup`, then in one section `ReplyRefused`, or
`ReplyAudit`, `ReplyCommit`, `ReplyDeliver`, or `ReplyAuditFails`; then
`ReplyNotify`. `await`: `AwaitLookup`, `AwaitActivate` or `AwaitRefused`,
`AwaitRegister`, `AwaitPoll`, `AwaitRead` or `AwaitTimeout`, `AwaitRelease`.
The delivery loop: `ExpireAsks`, `ExpireNotify`.

Abstractions: the time at which an ask expires is left open (`ExpireAsks` takes
any pending asks); a repeated reply with the same body and a conflicting one
both change nothing; capability and reach checks, rate windows and the
recipient's queue depth, which only refuse, are the subject of `Admission`, and
what becomes of a delivery row that of `Mail`.

### CycleSearch

`closes_cycle` statement by statement: the pop, the scan of one node's edges in
any order (they come from a hash map), the hit, the walk along `parent`. The
graph is any acyclic one; `AsksProofs` shows that no other occurs.

### Mail

State: the `envelopes`, `deliveries`, `dedupe` and `seq_counters` rows; the call
that holds the mutex (`lock`) and where each call is; the delivery loop's place,
its claimed batch and the outcome it holds; adapter calls that outlived their
time-out (`strays`). A delivery is a message and a recipient. History: what was
`received`, what was `lost`, and the `failures` an adapter was heard to report.

`Admit` (depth, in a section of its own; not for a broadcast), then in one
section `Replay`, or `Store`, `Audit`, `InsertDelivery` per recipient, `Bind`,
each a commit of its own. `Inbox` and `Report` are the recipient's. A pull
commits its rows and leaves a response in memory (`responses`), which is written
(`Respond`), or goes down with the connection (`RespondFails`) or the process
(`Crash`). A tick of
the loop is `ExpireDue`, `ClaimDue`, then for each claimed row `Push`, the
adapter without the mutex (`AdapterAnswers`, `AdapterTimeout`, and later
`StrayEnds`), and `ApplyGuarded`, `ApplyTransient` or `ApplyNotReady`: the first
goes through the transition table and ignores its refusal, the second does not
look at the state. `LeaseLapses`, `BackoffEnds`, `TtlElapses` are time,
`Crash` the process. Bodies, file references and the length of a backoff are
left out. The code applies outcomes in the loop that also expires rows; the
mutant of `TerminalIsFinal` shows that this is what makes the unguarded write
safe.

### AuditChain

Lines have an event, the event they are linked to, and a form: whole, complete
but for the newline, torn, or a fragment with a line behind it. `Begin`,
`WritePart`, `WriteAll`, `Sync` are `append`; `WriteFails` and `SyncFails` its
errors, which neither remove what was written nor remember it; `Kill` keeps what
the kernel has, `PowerLoss` what was synced and any part of the rest; `Open`
resumes from the last line or refuses to start. SHA-256 and canonical JSON are
the identity of the event: its id is fresh, and no collision is modelled.

### Admission

One sender with several connections. A call passes `Submit` (ACL), `CheckDepth`,
`ReadClock`, `note_and_check_sender`, `note_and_check_capability`,
`CheckPending`, `Insert`; each takes its own lock, so other connections come in
between. `prune` drops a prefix of the window, as the code does. `Drain`,
`Settle`, `Tick` and `Restart` are the rest of the daemon. Stamps are compared
as they are: `saturating_sub` in the code makes a stamp ahead of the reader's
clock fresh, and so does the comparison here.

### Sessions

One cell's token record, which `rotate` and `revoke` rewrite without a lock
(truncate, then write, so a reader may find nothing), the two revoked sets that
a restart forgets, and per connection the place of `handle_connection`, the
bytes read and taken from the carry, and the frames answered. `ReadChunk` reads
any amount, so frames arrive split and joined. Revocation has no caller in the
daemon but the test kit, whose order (record, issuer, registry) is modelled.
Permissions, peer credentials and the bytes of a proof are left out.

### Registry and Engines

`Registry`: every writer appends its event (`Audit`) and writes then, with both
mutexes held; `op` is what was announced and not yet written, and a restart
drops it. `resolve_spawn_target`, `SpawnReplay`, `SpawnAudit`, `SpawnWrite` are
`cell_spawn`, in the code's order: replay before busy, audit before the busy
check; a spawn or a follow-up is refused by a full queue as well.
`cell_register`, `cell_update` and the worktree functions are called by no
handler yet; they are modelled as the core offers them, the update as a
disturbance. A thread records one worktree, before its first turn, and the
threads that record belong to one cell (bounds: who calls, and when, is open).

`Engines`: `Lease`, `ensure`, `maybe_resume`, `resume_thread`, `start_turn` and
their failures are `try_start_turn` as far as engines see it; `OnAccepted`,
`OnFinal`, `OnFailed`, `Death`, `Timeout`, `LeaseExpires` the rest of the tick.
codex: requests carry ids, `call` waits for its own and skips others
(`SkipResponse`), a call that is not answered in time fails, and the answer
comes later; a good answer that states another policy fails the start too, while
the engine works on. claude: the session to resume is noted and used by the next
turn, the reader keeps the session of the last final line that named one: a
stream that ends without a result names none, and the adapter keeps what it had,
of whatever thread. pi: no resume, a preflight that may refuse, endings mapped
by `map_event`. A conversation is the sequence of turns an engine has in its
history, and outlives the process. `Timeout` interrupts and leaves adapter and
process. External, from how the code uses
them: what an engine does with a request (`CodexTakes`, `PromptTaken`,
`PromptRefused`, `Interrupted`, `EngineEnds`, `Dies`). An engine works on one
turn at a time; an interrupt that waits behind a second overlapping claude
turn, which takes two time-outs, is not exact. Cancels, leases under way and
failing audits of the tick are in `Fabric`.

## 3. Runs

| run | checks | instance |
|---|---|---|
| `disturbed` | `OneStartedPerCell`, `OneTurnPerCell`, `CancelReachesEngine`, `SpawningHasWork`, `KeepsLedger` | two threads of one codex cell, three jobs, cap two; cancels (torn ones too), crashes, deaths, time-outs, starts the engine takes although the call errs, slow leases, failing audits, any two of them |
| `recovery` | `TurnCoherence`, `FifoStart`, `EventsAttributed` | the same jobs; deaths, time-outs, turns that are refused, fail, do not start, or start although the call errs, any two of them |
| `live` | `NoDoubleTurn`, `JobsFinish` | three jobs on a cell whose engine speaks lines (no codex) and cannot resume; slow leases, refused, failing and unstartable turns, any two of them |
| `cycle_search` | `VerdictCorrect`, `CycleReported`, `Terminates` | all acyclic graphs of four cells, all new edges |
| `asks` | `NoWaitCycle`, `EdgesExact`, `AuditedFirst`, `WokenSeesOutcome`, `OneTicketPerKey`, `SingleReply` | two cells asking each other, a retried key, three awaits (two on one ask), two competing replies, one crash or failed audit |
| `asks_live` | `AwaitsReturn`, `AsksSettle` | the same without the retry and the second reply |
| `mail` | `EnqueuedAudited`, `OneMessagePerKey`, `DeliveredWasHandedOver`, `AttemptBudget`, `TerminalIsFinal`, `MailSettles` | a send to `c` and a broadcast to `b` and `c` under one key; `b` has an adapter, `c` only pulls; two attempts, one crash, failed audit, late adapter or lost connection |
| `audit` | `NoSilentLoss`, `IntactUnlessDamaged` | four appends, three faults |
| `sessions` | `RetiredNeverOpens`, `RevocationCuts`, `AnsweredInOrder`, `FramesAnswered` | two tokens, two connections: one pipelines two calls around a frame that does not parse, one sends a frame that is too large; a crash or an expiry |
| `admission` | `RateBound`, `CapsUpToRaces` | two connections, two calls each, a protected and an unknown recipient, caps of one, ceilings of two and three, a window of two ticks in four, a restart |
| `engines` | `RowsAudited`, `AckMatched`, `OwnHistory`, `Continuity`, `BoundKeyReplays` | two spawns (two threads of a cell, a call and its retry, or two cells), a follow-up, three turns, codex, claude and pi, one disturbance of eleven kinds, a final without a session and an answer with another policy among them |
| `double_turn` | `NoDoubleTurn`, **violated** | see section 4 |

Bounds. `QueueCap` is 2 so that three jobs meet the cap. `Faults` bounds the
disturbances of one behaviour: two meet each other (a crash after a death, a
time-out after a cancel), and each property is broken by its mutant within
them; three faults on the log file give damage on top of damage, and one is
what the larger modules allow. Two threads of one cell are what the per-cell
rules are about. `ran` saturates at 2, enough to see a second acceptance. Four
cells give the search paths of length three and diamonds. `PendingCap` 2 lets
two asks of a cell be open. In `mail` the claim and inbox limits are 1, so a
batch leaves rows behind. In `admission` the clock passes a whole window while
a stamp read before it is still to be counted. Three turns are a turn, one of
another thread or engine in between, and a resume.

Symmetry: awaits on the same ask, and replies to it (`asks`), events (`audit`),
connections (`admission`), spawn calls (`engines`); none of these runs checks
liveness. `CHECK_DEADLOCK` is off where the calls or events of an instance run
out and nothing more need happen; in `Fabric` the scheduler ticks for ever and
deadlock is checked.

Which disturbances a property survives is part of what it says. A property that
starts with `Without(kinds)` is claimed of behaviours in which none of these
happened so far, and section 4 has what happens otherwise: `TurnCoherence` and
`FifoStart` are not claimed after a cancel, a crash, a slow lease or a failed
append, `SpawningHasWork` after a cancel, `EventsAttributed` after a turn was
given up under a live engine (its time-out, or a codex call that errs after
`turn/start` was taken), `CancelReachesEngine` after a failed append,
`OwnHistory` and (for claude and pi) `AckMatched` after a time-out, `OwnHistory`
also after a claude final without a session, `Continuity` after either, after a
failed resume or a redefinition. `NoDoubleTurn` is not claimed after a codex call
that erred too late; it and `JobsFinish` are checked on the `live` instance,
without death, crash and cancel, and without codex.

Fairness. In `Fabric`: the scheduler's step (an endless loop on its own
thread), boot (the daemon is restarted), a handler past its store section (it
has no more waits), lease expiry (time passes), and that an engine accepts and
ends what it was given, which is an assumption about engines. Nothing obliges
clients to call or disturbances to happen. In `Asks`: started calls run on
(tokio polls ready tasks, critical sections are short), timers fire, asks
expire. `AwaitsReturn` rests on the timer, since notifications can be lost. In
`Mail`: the loop ticks, a handler that holds the mutex goes on, an adapter that
was called answers (in time or not: `AdapterTimeout` needs no fairness beside
it), every TTL elapses; no lease need lapse, no backoff end, no recipient pull
and no adapter accept. In `Sessions`: a connection's task does what it can. In `CycleSearch`:
the loop runs.

## 4. Where code and documents disagree

One disagreement is kept as a run that must fail:

- **double_turn.** An engine accepts a turn after step 3 of a tick polled and
  before step 4 looks at the process, and dies. The scheduler holds the stale
  flag "not accepted", requeues the job and drops the channel with the
  acceptance in it. SPEC.md:1447 excludes a second run.

Six more are stated as properties that no run lists, because they do not hold:

- **restart_blocks** (`QueueServed`, under `FairSpec` with crashes). After a
  crash with an accepted turn in flight the job stays `started`; nothing
  requeues or ends it, and no other job of the cell is ever leased. SPEC.md:1444
  promises a queue that survives a restart.
- **cancel_final** (`CancelledIsFinal`). A cancel between `job_lease_next` and
  `job_mark_started` is overwritten: the cancelled job is started.
- **lost_wakeup** (`AnswerSeen`). A reply between an await's look at the ticket
  and its entry in `ask_wakers` wakes nobody; the await sleeps until its
  time-out and returns `pending` for an answered ask. SPEC.md:354 says
  `answered` as soon as the reply is recorded.
- **pull_is_terminal** (`PullIsTerminal`, in `Mail`). A row that was pulled
  while its adapter was at work is put back to `queued`, or to `failed`, by a
  transient failure: `record_attempt_failure` does not look at the state
  (`delivery.rs:83`).
- **at_least_once** (`AtLeastOnce`, in `Mail`). `inbox` commits its rows as
  delivered (`store.rs:580`) before `handle_connection` writes the response
  (`server.rs:261`): a crash or a lost connection in between leaves rows that
  are delivered, were received by nobody and are not offered again. SPEC.md:616
  (7.3) promises at-least-once. `DeliveredWasHandedOver` says that nothing else
  loses a response.
- **lapse_counts** (`LapseCounts`, in `Mail`). SPEC.md:604-607 counts a lapsed
  lease as a retryable failure, with backoff and within ten attempts, and
  SPEC.md:715-718 requeues `NotReady` with backoff. The code leaves a `NotReady`
  row claimed, `claim_due` takes a lapsed claim back without counting it or
  waiting (`delivery.rs:155`, `store.rs:435`), and an answer that comes after the
  time-out is dropped. Such attempts are bounded by the TTL alone;
  `AttemptBudget` is about the failures the loop hears.

Further disagreements and weak spots, met while modelling.

Fabric and engines:

- A follow-up to an idle thread makes a second thread of the cell active
  (SPEC.md:1411: one active thread per cell); only one of them has a turn.
- A turn refused before acceptance restarts its `failed_unknown` thread without
  a follow-up (`threads.rs:80`).
- After a crash a job left `leased` is overtaken by a younger one
  (`fabric_chaos.rs:8`, FIFO across a restart).
- Cancelling a thread that has not run leaves it `spawning` without a job, and
  its cell busy until a restart (`handlers.rs:942`).
- The cancel signal names a cell: cancelling an idle thread kills the turn of
  its sibling (`scheduler.rs:215`).
- Events of a timed-out turn that arrive late are applied to the next turn of
  the cell (`scheduler.rs:345`); with them a claude session is recorded for the
  wrong thread.
- An engine that dies between turns is reused for ever: `ensure` looks at the
  map, and death is looked for only where a turn is in flight
  (`supervisor.rs:51`). An adapter also keeps its kind when the definition of
  its cell changes.
- A follow-up queued on a running pi thread starts after that thread failed,
  although pi cannot resume (`handlers.rs:813`); the gate looks at the engine of
  the spawn, not at the definition.
- A failed append of `cell_turn_completed` followed by the engine's death makes
  every later tick fail at step 4, for all cells (`scheduler.rs:312`).
- A codex `turn/start` that is not answered within the RPC time-out
  (`codex.rs:161`), or is answered with another policy than YOLO
  (`codex.rs:235`), requeues a job the engine is running: it runs twice
  (SPEC.md:1447), its `turn/completed` is taken for the next turn's, which then
  ends without having run, and the turn that follows in the engine belongs to
  nobody. `NoDoubleTurn`, `EventsAttributed` and `JobsFinish` are not claimed
  from then on. A resume that fails is ignored and the turn runs on whatever
  thread the adapter has.
- The shim writes `"session_id":null` when the stream of a turn ends without a
  result message (`claude-shim.mjs:77`, `:97`), although its protocol and the
  adapter's give a final a session (`claude-shim.mjs:15`, `claude.rs:11`). The
  adapter then keeps the session of the turn before, of whatever thread of the
  cell (`claude.rs:118`), `persist_engine_ids` records it for this thread, and its
  follow-up resumes the other thread's conversation; on a fresh adapter nothing
  is recorded and the follow-up starts without its history. `OwnHistory` and
  `Continuity` are not claimed from then on.
- The threads of a codex cell share the engine thread the process holds until
  one of them is resumed. Engine ids are persisted by a final answer only.
- `CodexAdapter::new` that fails after the spawn leaves the child running.

Registry:

- A spawn refused with `E_CELL_BUSY` or `E_QUEUE_FULL` has an "ok" event in the
  log, and so has a worktree whose path was taken: all are found out after the
  append. A job that `cell_send_task` queues has no event: `RowsAudited` is about
  definitions, spawned threads and worktrees.
- A retried ephemeral spawn mints a fresh cell name, so its key is never found.
  A name that is not registered, given with an engine, becomes ephemeral.

Asks and mail:

- The pending-ask cap is read in one section and used in another: concurrent
  asks of one cell exceed it; a retry at the cap is refused before its key is
  looked up (`handlers.rs:385`, SPEC.md:536). `CapsUpToRaces` says by how much.
- A crash between the rows and their dedupe row lets a retry make them again
  (`handlers.rs:364`, `handlers.rs:460`, SPEC.md:536). `OneTicketPerKey` and
  `OneMessagePerKey` say exactly that much.
- `notify_one` wakes one of several awaits on an ask (`handlers.rs:669`).
- The comment at `handlers.rs:467` speaks of an await cancelled by a
  disconnect; `server.rs` awaits the handler before it reads the socket again,
  so a disconnected client's await keeps its edge until the time-out.
- `closes_cycle` lists the cells after `from -> to` in reverse order, joined
  with `->`; the `deadlock_prevented` event is written without them
  (SPEC.md:551).
- A reply to an expired ask is answered `E_REPLY_EXISTS` (SPEC.md:536:
  `E_ASK_NOT_FOUND`).
- An adapter's `Acked` on a claimed row is refused by the transition table: the
  row stays claimed and is pushed again.
- A broadcast has seq 0 for every recipient (SPEC.md, section 9: a number per
  ordered pair) and does not look at the queue depth (section 14: "MUST
  reject").

Admission, sessions, log:

- A stamp is read before the tracker's lock is taken, so the ceiling holds of
  stamps and not of the instants at which calls were admitted. Windows are
  forgotten by a restart. Units of the sender axis stay counted when the other
  axis refuses (`quota.rs:101`). The `attach_files` ceiling is never applied.
- `revoke(cell)` marks whatever record is there when it reads it a second time.
  Sessions of a rotated or an expired token go on. A crash inside the rewrite of
  a record locks the cell out. A blank line ends a session. A second daemon
  unlinks the socket of the first.
- An append that failed half way leaves a fragment that the next line is
  written behind: the chain is broken from there on, and a restart refuses to
  open the log only if the fragment is its last line.

## 5. Proofs

All theorems hold for arbitrary sets of cells, threads, jobs, calls and events,
any cap and any number of disturbances. They assume only the named assumptions of the
modules: the type of the constants, that the sets of calls are disjoint, that
sets the code counts (`Awaits`, `Conns`, `Registered`) are finite, and that a
model value that stands for SQL's NULL or Rust's `None` is none of the values it
stands beside (`RegistryAssumption`, `EnginesAssumption`). TLC evaluates these
assumptions on every run. Each invariant was checked by TLC on the instances of
section 3 before it was proved.

**FabricProofs.** `Typing`, `HeadOfLine` (`OneStartedPerCell`), `SingleTurn`
(`OneTurnPerCell`), `Finality` (`FinishedIsFinal`), `RedeliveryBoundary`
(`AcceptedNeverRequeued`) and `Refinement` (`KeepsLedger`), all from
`Invariance`. The properties are not inductive. `job_mark_started` updates its
row unconditionally, so the invariant has to say what the scheduler knows while
the mutex is free: from the lease to the start the cell has no other started job
and no turn, and the leased job can only have been cancelled (`StartInv`); the
current job is a row and its thread is not among those to visit (`CurInv`); a
turn is a job of its own thread (`TurnInv`); threads to visit are in flight
(`TodoInv`); only rows carry an acceptance (`AccInv`). The proof first
summarises what every action may do to a row (`Moves`) and to the place of the
scheduler (`Place`), and derives the conjuncts from the summaries. `Refinement`
maps each step: a handler's row is submitted, `MarkStarted` is `Start` (its side
condition is `StartInv`), a recorded acceptance is `Accept`, the requeues are
`GiveBack` of sets, a cancel and a torn cancel are `Cancel` of sets, and all
else leaves the ledger alone.

Six more theorems rest on invariants of their own, on top of `IInv`.
`CancelArrives` (`CancelReachesEngine`): a cancelled job that has a turn, or is
about to get one, has a handler that will signal or a signal on its way; the
interesting step is the launch of a job that was cancelled since it was leased,
which is harmless because no handler runs between `job_mark_started` and the
launch and the mark overwrites the cancel (`SignalInv`). `SpawnedWork`
(`SpawningHasWork`): a thread whose turn was launched never is spawning again, so
what the scheduler finishes is never the job of a spawning thread (`SpawnInv`).
`Attribution` (`EventsAttributed`): the engine of a cell works on nothing but the
cell's turn, and is silent once the end of the turn was polled (`ChannelInv`);
a time-out, and a codex call that errs after `turn/start` was taken, are the two
steps that leave an engine at work on a turn nobody follows, and both are
excluded.
`RecordsAgree` (`TurnCoherence`): in quiet behaviours the records agree at
every step up to what the scheduler is in the middle of (`Calm`), of which the
property is the case between ticks. `StartsInOrder` (`FifoStart`): the rows of a
cell are in queue order and what is before a leased or started job is over
(`FifoInv`), which a requeue keeps because only the job in hand is requeued.
`TurnsRunOnce` (`NoDoubleTurn`) is stated of behaviours without cancels, deaths,
time-outs, crashes and, by the property itself, codex calls that err too late,
because each of these takes a turn from its engine or leaves it there unrecorded
(run `double_turn` shows it for deaths): if turns are given up only by their own
end (`Steady`), a job that was accepted is over or has a turn that knows of it or
will read it first (`Once`), and what waits for an engine was never accepted
(`Untaken`).

**CycleSearchProofs.** `SearchCorrect`: the verdict is reachability. What is
visited is reachable from `to` and is not `from`, and an edge that leaves the
visited nodes starts at a queued node or is still to be scanned. So an
exhausted search leaves a set closed under the edges that has `to` and not
`from`. Reachability is defined by closed sets, which is why no induction along
paths is needed. `ReportIsACycle` (`CycleReported`): every visited cell but `to`
was met on an edge of its parent (`ParentInv`), so each cell the walk back adds to
the list has an edge to the one before it, and the walk stands at a cell with an
edge to the last of the list (`WalkInv`); at `to` the list is closed.

**AsksProofs.** `DeadlockFree` (`NoWaitCycle`), `NoLeak` (`EdgesExact`),
`SettledOnce` (`SingleReply`), `FailClosedAudit` (`AuditedFirst`),
`NotifiedAfterCommit` (`WokenSeesOutcome`), `Deduplicated` (`OneTicketPerKey`).
The store half of the invariant says who holds the lock (`LockInv`), that a
reply about to be committed finds its ask pending (`FreshInv`), that permits,
expiring ids and notifying calls belong to settled asks (`NoticeInv`), what has
been audited (`AuditInv`) and that a ticket is bound, about to be, or cut off
(`KeyInv`). The graph half needs two lemmas: an edge whose target does not
reach its source closes no cycle (`NewEdge`), and exact counters give the edges
of the blocked awaits (`ActiveIsBlocked`). The check reads the counters, the
theorem is about the awaits: `NoLeak` is what joins them.

**AuditChainProofs.** `Durability` (`NoSilentLoss`) and `OnlyDamageBreaks`
(`IntactUnlessDamaged`). The invariant of the first says what a sync gives: the
synced lines are where the file, and the file as the writer found it, begin;
they end in a newline, so that no later line is joined to them (`DurableInv`);
an acknowledged event is among them (`AckedInv`); and the file is the writer's
base, or that with its line (`LineInv`). Without the newline the lemma that
`Put` keeps a prefix (`PutKeeps`) is false: a fragment swallows the line behind
it. The second adds that without damage the base is a chain and the head its
last hash (`ChainInv`); what a kill or a power loss leaves is then a chain
whenever it ends in a newline (`RestVerifies`).

**MailProofs.** `NoRowUnaudited` (`EnqueuedAudited`), `RetriesCollapse`
(`OneMessagePerKey`), `DeliveryIsHandOver` (`DeliveredWasHandedOver`),
`BudgetKept` (`AttemptBudget`) and `OverIsFinal` (`TerminalIsFinal`). A call
between its statements holds the store (`LockInv`), so no other call with its key
is on its way and the key is bound before the lock is free (`KeyInv`). What the
loop claimed and has not settled is still claimed or was pulled meanwhile, never
over, and is visited once (`BatchInv`): this is what makes the unguarded writes of
`record_attempt_failure` safe and `TerminalIsFinal` true, and why whoever is
pushed has an attempt left (`BudgetInv`). Heard failures are the attempts counted,
one that is heard and still to be counted, and those a restart forgot
(`HeardInv`). An answer that will mark a row delivered was a hand-over, and what
was handed over stays so: only a disturbance loses a response (`AnswerInv`).

**SessionsProofs.** `RetiredStaysOut` (`RetiredNeverOpens`), `RevocationIsACut`
(`RevocationCuts`) and `FramesInOrder` (`AnsweredInOrder`). For the first the
invariant follows one record through disk, the copy `revoke` holds and the copy
an authenticating connection holds: the number a rotation is about to write is
nowhere yet (`FreshInv`), the record on disk opens nothing for a retired token or
for one that a revoke is past writing back (`DiskInv`), and a connection that
came too late has nothing in hand that verifies (`LateInv`). For the second, the
registry knows every banned token that has a live connection, and one that was
answered after the ban is not answered again (`CutInv`). For the third, answers
are the frames taken out of the carry, but for the call that is running
(`FrameInv`); `NextFrame` is the arithmetic of a carry that splits and joins.

**AdmissionProofs.** `RateKept` (`RateBound`) and `CapsKept` (`CapsUpToRaces`).
The deque of the tracker is what was counted but for a prefix that is out of the
window for good (`WindowInv`). It has to be a prefix and not all old stamps: calls
read the clock before they wait for the lock, so stamps are not in order and
`prune` stops at the first that is fresh. Every stamp still young is then in the
deque, which is no longer than the ceiling. The second counts rows there and
calls between check and row together (`CapInv`); a call past its check is one of
the other connections.

**EnginesProofs.** About `Engines` and the `Registry` it extends. `AuditBeforeMutation`
(`RowsAudited`) and `KeysReplay` (`BoundKeyReplays`) need that what is about to be
written was appended and is still what the rows allow (`OpInv`). `AcksMatch`
(`AckMatched`) has two arguments. For codex the ids of requests only grow, what
bears the id of the call under way is about its turn, and an acceptance is polled
first (`CodexInv`), time-outs and late responses included. For the line protocols,
which name no turn, the process holds nothing of a turn that is not in flight
(`LineInv`), which only a time-out breaks. `HistoriesKeptApart` (`OwnHistory`)
is about behaviours in which every claude final named its session and no turn
timed out (`Honest`). It
adds where conversations may be named: every claude session is one thread's, and
the adapter, its prompt, its run and its last final name it on behalf of that
thread (`SessionInv`, with `LineInv` for the session the reader keeps); a codex or
pi conversation is held by one cell (`HomeInv`). The second half is about holders,
not about the threads that share one: two threads of a codex cell may follow each
other on one conversation, which is what the property allows. A `pending_resume`
on a process that died is exempt: it is replaced with the adapter before it can be
used. `HonestResume` (`Continuity`) follows a recorded final from the row of its
thread to the next turn of that thread. It needs that the job of a cell is the last
turn started for one of its threads (`LatestInv`), so that a newly recorded answer is
never older than a turn of its thread that a conversation lacks; that without
redefinitions the adapter is of the kind its cell is defined as (`KindInv`); and
`RecallInv`: every place that names a conversation for a thread names one that has
the answered turns of that thread. These places are the thread's row
(`RowRecalls`), what codex is asked, answers and goes on with (`CodexRecalls`), and
claude's pending resume, prompt, run and last session (`ClaudeRecalls`). The
conversations of pi, which promises nothing of the kind, are kept apart from them
(`PiApart`), and a turn that runs finds in its conversation what it should
(`Recalled`).

Only model-checked: the liveness properties (`JobsFinish`, `AwaitsReturn`,
`AsksSettle`, `Terminates`, `MailSettles`, `FramesAnswered`), because liveness under
fairness and `ENABLED` are outside what the installed provers do. Every other
property that a passing run checks has a theorem.

## 6. Not modelled, and the plan

Next is to use what is proved: the theorems of `Fabric` and `Engines` hold for
each side on its own, and the interface they share (launch, acceptance, final,
death) is stated twice. A lemma that what the engines report satisfies what
`Fabric` assumes of an engine would join the two.

Left out for good: loading of ACL tables and configuration, wire format,
validators and the CLI (pure functions or single reads and writes),
`cell_status` and `cell_result`, which only read, the journal and the notes of
turns, file and socket permissions, test doubles, and the JSON texts of the
engine dialects.
