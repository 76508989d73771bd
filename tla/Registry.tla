------------------------------ MODULE Registry ------------------------------
(***************************************************************************)
(* The rows behind cell_spawn and cell_send_task: definitions of named     *)
(* cells, threads, the bindings of idempotency keys, queued jobs and       *)
(* worktree ownership.  Writers audit first and write then, with the store *)
(* and audit mutexes held; only a crash comes in between, and the action   *)
(* in progress is op.  cell_send_task alone writes its row without an      *)
(* event.  The cap on queued jobs is left open: a cell with a job queued   *)
(* may be at it (Fabric has the cap).  handle_spawn reads the definition   *)
(* in a section of its own.                                                *)
(*                                                                         *)
(* One named cell.  A request r names a spawn call, the ephemeral cell the *)
(* daemon mints for it if it needs one, and the thread it creates.  What a *)
(* scheduler does with the rows is added by Engines.                       *)
(***************************************************************************)
EXTENDS Naturals, Sequences, FiniteSets

CONSTANTS
    Kinds,      \* engines the named cell may be defined with
    Requests,   \* calls of cell_spawn
    Params,     \* what a call may say: caller, key, whether it names the cell, engine
    Named,      \* the named cell
    None,       \* absence
    Paths,      \* canonical worktree paths
    MaxTasks,   \* bound: calls of cell_send_task
    Env, Faults \* disturbances and how many of them

Cells == {Named} \cup Requests
EngineKind == {"codex", "claude", "pi"}

Active == {"spawning", "running"}
Terminal == {"done", "interrupted", "timeout", "failed_unknown"}

(* A row of cell_threads; what it keeps of the engine's ids are            *)
(* conversations.                                                          *)
ThreadRow ==
    [cell : Cells, kind : EngineKind, state : Active \cup Terminal \cup {"idle"},
     ethread : Nat \cup {None}, esession : Nat \cup {None}]

ASSUME RegistryAssumption ==
    /\ Kinds \subseteq EngineKind
    /\ Params \subseteq [caller : STRING, key : Nat, named : BOOLEAN,
                         engine : EngineKind \cup {None}]
    /\ Named \notin Requests
    /\ None \notin EngineKind \cup Cells \cup ThreadRow
    /\ MaxTasks \in Nat /\ Faults \in Nat

VARIABLES
    cells,     \* cells: the engine of the named cell, or None
    thread,    \* cell_threads
    bound,     \* spawn_requests: caller, cell and key of each thread
    worktree,  \* worktrees
    queue,     \* cell_jobs in state queued, per cell in order: their threads
    call,      \* handle_spawn: its target, then its answer
    op,        \* what has been audited and is about to be written
    audit,     \* history: the events appended
    tasks,     \* calls of cell_send_task so far
    faults

rows == <<cells, thread, bound, worktree, queue>>
registry == <<rows, call, op, audit, tasks>>

Fault(kind) ==
    /\ kind \in Env /\ faults.left > 0
    /\ faults' = [left |-> faults.left - 1, seen |-> faults.seen \cup {kind}]

Without(kinds) == faults.seen \cap kinds = {}

RegistryInit ==
    /\ cells = None
    /\ thread = [r \in Requests |-> None]
    /\ bound = {}
    /\ worktree = [p \in Paths |-> None]
    /\ queue = [c \in Cells |-> <<>>]
    /\ call = [r \in Requests |-> [at |-> "new"]]
    /\ op = None /\ audit = {} /\ tasks = 0
    /\ faults = [left |-> Faults, seen |-> {}]

Threads == {r \in Requests : thread[r] # None}

-----------------------------------------------------------------------------
(***************************************************************************)
(* Audit, then write.                                                      *)
(***************************************************************************)

(* Wrong variant: the event is appended after the write.                   *)
AuditLate(o) == op = None /\ op' = o /\ UNCHANGED <<audit, faults>>

(* The append that precedes the write o.                                   *)
Audit(o) == op = None /\ op' = o /\ audit' = audit \cup {o} /\ UNCHANGED faults

(* The append fails: the caller gets an error and nothing is written.      *)
AuditFails == op = None /\ Fault("auditfail") /\ UNCHANGED <<op, audit>>

cell_register(k) ==
    /\ cells = None
    /\ Audit([name |-> "register", kind |-> k])
    /\ UNCHANGED <<rows, call, tasks>>

(* A disturbance: no handler of the daemon calls it yet.                   *)
cell_update(k) ==
    /\ cells # None /\ cells # k
    /\ op = None /\ Fault("update")
    /\ op' = [name |-> "update", kind |-> k]
    /\ audit' = audit \cup {op'}
    /\ UNCHANGED <<rows, call, tasks>>

worktree_record(p, r) ==
    /\ r \in Threads /\ op = None
    /\ \A e \in audit : e.name = "worktree" =>                    \* bound: one each, for
          e.owner # r /\ thread[e.owner].cell = thread[r].cell    \* its first turn, and
    /\ thread[r].state = "spawning"                               \* of one cell
    /\ Audit([name |-> "worktree", path |-> p, owner |-> r])
    /\ UNCHANGED <<rows, call, tasks>>

worktree_mark_cleanup(p) ==
    /\ worktree[p] # None /\ worktree[p].state = "created"
    /\ thread[worktree[p].owner].state \in Terminal               \* bound: once, at the end
    /\ Audit([name |-> "cleanup", path |-> p])
    /\ UNCHANGED <<rows, call, tasks>>

(* INSERT or UPDATE of a definition                                        *)
WriteDef ==
    /\ op # None /\ op.name \in {"register", "update"}
    /\ cells' = op.kind /\ op' = None
    /\ UNCHANGED <<thread, bound, worktree, queue, call, audit, tasks, faults>>

(* The path is the primary key: the INSERT of a second owner fails.        *)
WriteWorktree ==
    /\ op # None /\ op.name \in {"worktree", "cleanup"}
    /\ \/ /\ op.name = "worktree" /\ worktree[op.path] = None
          /\ worktree' = [worktree EXCEPT ![op.path] =
                            [owner |-> op.owner, state |-> "created"]]
       \/ /\ op.name = "worktree" /\ worktree[op.path] # None
          /\ UNCHANGED worktree
       \/ /\ op.name = "cleanup"
          /\ worktree' = [worktree EXCEPT ![op.path].state = "cleanup_requested"]
    /\ op' = None
    /\ UNCHANGED <<cells, thread, bound, queue, call, audit, tasks, faults>>

-----------------------------------------------------------------------------
(***************************************************************************)
(* cell_spawn.                                                             *)
(***************************************************************************)
Answer(r, a) == call' = [call EXCEPT ![r] = [at |-> "done", answer |-> a]]

(* resolve_spawn_target: a named cell takes no override, and a name that   *)
(* is not registered is spawned as an ephemeral cell if an engine is given.*)
resolve_spawn_target(r, p) ==
    /\ call[r].at = "new" /\ op = None
    /\ LET named == p.named /\ cells # None
           Target(c, k) == call' = [call EXCEPT ![r] =
               [at |-> "target", cell |-> c, kind |-> k, caller |-> p.caller, key |-> p.key]]
       IN  \/ named /\ p.engine = None /\ Target(Named, cells)
           \/ ~ named /\ p.engine # None /\ Target(r, p.engine)
           \/ named = (p.engine # None) /\ Answer(r, "denied")
    /\ UNCHANGED <<rows, op, audit, tasks, faults>>

Binding(r) == [caller |-> call[r].caller, cell |-> call[r].cell, key |-> call[r].key]
lookup_spawn_request(r) == {s \in Threads : \E b \in bound : b.of = Binding(r) /\ b.thread = s}

Busy(c) == \E s \in Threads : thread[s].cell = c /\ thread[s].state \in Active

(* Wrong variant: the busy check comes before the lookup.                  *)
SpawnReplayBusyFirst(r) ==
    /\ call[r].at = "target" /\ op = None
    /\ \E s \in lookup_spawn_request(r) : Answer(r, IF Busy(call[r].cell) THEN "busy" ELSE s)
    /\ UNCHANGED <<rows, op, audit, tasks, faults>>

(* spawn_idempotent, up to the audit: a bound key is replayed, busy or not *)
SpawnReplay(r) ==
    /\ call[r].at = "target" /\ op = None
    /\ \E s \in lookup_spawn_request(r) : Answer(r, s)
    /\ UNCHANGED <<rows, op, audit, tasks, faults>>

SpawnAudit(r) ==
    /\ call[r].at = "target" /\ lookup_spawn_request(r) = {}
    /\ Audit([name |-> "spawn", thread |-> r])
    /\ UNCHANGED <<rows, call, tasks>>

SpawnAuditFails(r) ==
    /\ call[r].at = "target" /\ lookup_spawn_request(r) = {}
    /\ AuditFails
    /\ Answer(r, "error")
    /\ UNCHANGED <<rows, tasks>>

(* The busy check is made after the audit; binding, thread and first job   *)
(* are one transaction, rolled back if the cell's queue is full.           *)
SpawnWrite(r) ==
    /\ op # None /\ op.name = "spawn" /\ op.thread = r
    /\ op' = None
    /\ LET t == call[r] IN
       \/ Busy(t.cell) /\ Answer(r, "busy") /\ UNCHANGED <<thread, bound, queue>>
       \/ /\ ~ Busy(t.cell) /\ queue[t.cell] # <<>>
          /\ Answer(r, "full") /\ UNCHANGED <<thread, bound, queue>>
       \/ /\ ~ Busy(t.cell)
          /\ bound' = bound \cup {[of |-> Binding(r), thread |-> r]}
          /\ thread' = [thread EXCEPT ![r] =
               [cell |-> t.cell, kind |-> t.kind, state |-> "spawning",
                ethread |-> None, esession |-> None]]
          /\ queue' = [queue EXCEPT ![t.cell] = Append(@, r)]
          /\ Answer(r, r)
    /\ UNCHANGED <<cells, worktree, audit, tasks, faults>>

(* cell_send_task: a terminal thread of an engine without resume refuses;  *)
(* the engine is the one of the spawn, whatever the definition says now.   *)
(* A full queue refuses too.                                               *)
handle_send_task(r) ==
    /\ r \in Threads /\ op = None /\ tasks < MaxTasks
    /\ tasks' = tasks + 1
    /\ \/ /\ thread[r].state \in Terminal /\ thread[r].kind = "pi"
          /\ UNCHANGED queue
       \/ /\ ~ (thread[r].state \in Terminal /\ thread[r].kind = "pi")
          /\ \/ queue' = [queue EXCEPT ![thread[r].cell] = Append(@, r)]
             \/ queue[thread[r].cell] # <<>> /\ UNCHANGED queue
    /\ UNCHANGED <<cells, thread, bound, worktree, call, op, audit, faults>>

RegistryNext ==
    \/ \E k \in Kinds : cell_register(k) \/ cell_update(k)
    \/ \E p \in Paths : worktree_mark_cleanup(p) \/ \E r \in Requests : worktree_record(p, r)
    \/ WriteDef \/ WriteWorktree
    \/ \E r \in Requests :
         \/ \E p \in Params : resolve_spawn_target(r, p)
         \/ SpawnReplay(r) \/ SpawnAudit(r) \/ SpawnAuditFails(r)
         \/ SpawnWrite(r) \/ handle_send_task(r)

(* What boot_recovery makes of a thread the daemon left behind.            *)
Recovered(t) ==
    IF t = None THEN None
    ELSE [t EXCEPT !.state = CASE t.state = "running" -> "interrupted"
                               [] t.state = "spawning" -> "failed_unknown"
                               [] OTHER -> t.state]

(* The daemon dies and is started again: rows and log stay, calls end.     *)
RegistryRestart ==
    /\ Fault("crash")
    /\ op' = None
    /\ call' = [r \in Requests |-> IF call[r].at = "target"
                                   THEN [at |-> "done", answer |-> "error"] ELSE call[r]]
    /\ thread' = [r \in Requests |-> Recovered(thread[r])]
    /\ UNCHANGED <<cells, bound, worktree, queue, audit, tasks>>

-----------------------------------------------------------------------------
(* Audit before mutation: at every instant, a crash between append and     *)
(* write included, each definition, each spawned thread and each worktree  *)
(* has its event in the log.                                               *)
RowsAudited ==
    /\ \A r \in Threads : [name |-> "spawn", thread |-> r] \in audit
    /\ cells # None => \E n \in {"register", "update"} : [name |-> n, kind |-> cells] \in audit
    /\ \A p \in Paths : worktree[p] # None =>
         /\ worktree[p].owner \in Threads
         /\ [name |-> "worktree", path |-> p, owner |-> worktree[p].owner] \in audit

(* A retried spawn of a named cell is answered with the thread its key is  *)
(* bound to, whatever has become of that thread or of the cell.            *)
BoundKeyReplays ==
    [][\A r \in Requests :
         call[r].at = "target" /\ lookup_spawn_request(r) # {}
         /\ call'[r].at = "done" /\ call'[r].answer # "error"
         => call'[r].answer \in lookup_spawn_request(r)]_registry
=============================================================================
