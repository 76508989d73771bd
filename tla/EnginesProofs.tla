---------------------------- MODULE EnginesProofs ----------------------------
(***************************************************************************)
(* Proofs about Registry and Engines, for any cells, requests, parameters, *)
(* worktrees, bounds and disturbances.                                     *)
(***************************************************************************)
EXTENDS Engines, Functions, TLAPS

-----------------------------------------------------------------------------
(***************************************************************************)
(* Types.                                                                  *)
(***************************************************************************)
Maybe(S) == S \cup {None}

Rows == {r \in Requests : thread[r] \in ThreadRow}

(* A call is about the named cell, once there is one, or a cell of its own. *)
TargetOK(x, r) == x.cell \in {r, Named} /\ (x.cell = Named => cells # None)

CallsOK ==
    /\ call = [r \in Requests |-> call[r]]
    /\ \A r \in Requests :
         /\ call[r].at = "target" => TargetOK(call[r], r) /\ call[r].kind \in EngineKind
         /\ thread[r] # None => call[r].at = "done" /\ TargetOK(thread[r], r)

RegistryOK ==
    /\ cells \in Maybe(Kinds)
    /\ thread \in [Requests -> Maybe(ThreadRow)]
    /\ worktree \in [Paths -> Maybe([owner : Requests,
                                     state : {"created", "cleanup_requested"}])]
    /\ queue \in [Cells -> Seq(Requests)]
    /\ CallsOK
    /\ faults \in [left : Nat, seen : SUBSET Env]

EnginesOK ==
    /\ engine \in [Cells -> Maybe(AdapterRow)]
    /\ job \in [Cells -> Maybe(Job)]
    /\ flight \subseteq Cells
    /\ owner \in Seq(Requests)
    /\ convs \in Seq([kind : EngineKind, turns : Seq(Nat)])
    /\ finals \subseteq Nat
    /\ \A c \in Cells : engine[c] # None /\ engine[c].kind = "codex" =>
         \A i \in 1..Len(engine[c].inq) : engine[c].inq[i].id \in Nat

(* Queued and started jobs are those of threads, and each belongs to its   *)
(* cell; the scheduler works on a started job.                             *)
JobsInv ==
    /\ \A c \in Cells : \A i \in 1..Len(queue[c]) :
         queue[c][i] \in Rows /\ thread[queue[c][i]].cell = c
    /\ \A n \in 1..Len(owner) : owner[n] \in Rows
    /\ \A c \in Cells : job[c] # None =>
         /\ job[c].n \in 1..Len(owner) /\ owner[job[c].n] = job[c].thread
         /\ thread[job[c].thread].cell = c
    /\ \A c \in flight : job[c] \in Job /\ engine[c] \in AdapterRow
    /\ sched # None =>
         LET c == sched.cell IN
         /\ c \in Cells /\ c \notin flight
         /\ job[c] \in Job /\ job[c].eturn = None
         /\ sched.at # "ensure" => engine[c] \in AdapterRow
         /\ sched.at \in {"resuming", "starting"} => engine[c].kind = "codex"

-----------------------------------------------------------------------------
(***************************************************************************)
(* Audit before mutation.                                                  *)
(***************************************************************************)

(* What is about to be written has been appended, and is still what the    *)
(* rows allow.                                                             *)
OpInv ==
    op # None =>
        /\ op \in audit
        /\ \/ \E n \in {"register", "update"}, k \in Kinds : op = [name |-> n, kind |-> k]
           \/ \E p \in Paths, r \in Rows : op = [name |-> "worktree", path |-> p, owner |-> r]
           \/ \E p \in Paths : op = [name |-> "cleanup", path |-> p] /\ worktree[p] # None
           \/ \E r \in Requests :
                /\ op = [name |-> "spawn", thread |-> r]
                /\ call[r].at = "target" /\ lookup_spawn_request(r) = {}

-----------------------------------------------------------------------------
(***************************************************************************)
(* Answers and events are those of the turn.                               *)
(***************************************************************************)

(* codex: ids only grow; what bears the id of the scheduler's turn/start   *)
(* is about its turn; an acceptance is polled first, and belongs to the    *)
(* turn in flight.                                                         *)
CodexOK(c) ==
    engine[c] # None /\ engine[c].kind = "codex" =>
        LET e == engine[c] IN
        /\ \A m \in Range(e.inq) \cup Range(e.resp) :
             m.id <= e.id /\ (At(c, "starting") /\ m.id = e.id => m.n = job[c].n)
        /\ \A i \in 1..Len(e.out) : e.out[i].what = "accepted" =>
             i = 1 /\ c \in flight /\ e.out[i].n = job[c].n /\ job[c].eturn = None
        /\ c \in flight => job[c].eturn \in {None, job[c].n}

CodexInv == \A c \in Cells : CodexOK(c)

(* claude and pi, as long as no turn was given up: the process holds       *)
(* nothing of a turn that is not in flight, and of that one a prompt, a    *)
(* run or an ending.                                                       *)
LineOK(c) ==
    engine[c] # None /\ engine[c].kind # "codex" =>
        LET e == engine[c] IN
        /\ c \notin flight => e.inq = <<>> /\ e.run = None /\ e.out = <<>>
        /\ Len(e.inq) <= 1
        /\ \A m \in Range(e.inq) : /\ m.what = "turn" /\ m.n = job[c].n
                                   /\ e.run = None /\ e.out = <<>>
        /\ e.run # None => e.run.n = job[c].n
        /\ \A i \in 1..Len(e.out) :
             /\ e.out[i].n = job[c].n
             /\ e.out[i].what # "accepted" => i = Len(e.out) /\ e.inq = <<>> /\ e.run = None
        /\ c \in flight => job[c].eturn \in {None, job[c].n}

LineInv == Without({"timeout"}) => \A c \in Cells : LineOK(c)

-----------------------------------------------------------------------------
(***************************************************************************)
(* Conversations.                                                          *)
(***************************************************************************)
Conv == 1..Len(convs)

(* Turn n has been started, for a thread of cell c.                        *)
StartedOn(n, c) == n \in 1..Len(owner) /\ thread[owner[n]].cell = c

(* What an engine is asked for.                                            *)
AskedOK(c) ==
    engine[c] # None =>
        /\ \A m \in Range(engine[c].inq) :
             /\ m.what = "turn" => StartedOn(m.n, c)
             /\ m.what = "resume" => engine[c].kind = "codex"
        /\ engine[c].kind = "pi" => engine[c].conv # None

(* The turns of a conversation have been started, and so have those an     *)
(* engine is asked for, on its cell.                                       *)
TurnsInv ==
    /\ \A i \in Conv : \A k \in 1..Len(convs[i].turns) : convs[i].turns[k] \in 1..Len(owner)
    /\ \A c \in Cells : AskedOK(c)

(* A claude session is one thread's.                                       *)
Own(i, r) ==
    /\ i \in Conv /\ convs[i].kind = "claude" /\ convs[i].turns # <<>>
    /\ \A k \in 1..Len(convs[i].turns) : owner[convs[i].turns[k]] = r

(* What claude is to resume.                                               *)
ResumeOK(c) ==
    engine[c] # None /\ engine[c].resume # None =>
        /\ engine[c].kind = "claude"
        /\ engine[c].up => At(c, "turn") /\ Own(engine[c].resume, job[c].thread)

(* What names a claude session is on behalf of the thread it is of.        *)
ClaudeOK(c) ==
    engine[c] # None /\ engine[c].kind = "claude" =>
        LET e == engine[c] r == job[c].thread IN
        /\ \A m \in Range(e.inq) : m.conv # None => Own(m.conv, r)
        /\ e.run # None => Own(e.run.conv, r)
        /\ \A m \in Range(e.out) : m.what = "final" => Own(e.session, r)

(* Every turn's session is the one its engine says it is of: the           *)
(* disturbances of which OwnHistory is claimed.                            *)
Honest == Without({"timeout", "nosession"})

SessionInv ==
    Honest =>
        /\ \A i \in Conv : convs[i].kind = "claude" => \E r \in Requests : Own(i, r)
        /\ \A r \in Rows : thread[r].esession # None => Own(thread[r].esession, r)
        /\ \A c \in Cells : ResumeOK(c) /\ ClaudeOK(c)

(* What a cell's codex or pi process may go on with.                       *)
Holds(c, i) ==
    \/ \E r \in Rows : thread[r].cell = c /\ thread[r].ethread = i
    \/ /\ engine[c] # None
       /\ \/ engine[c].kind # "claude" /\ engine[c].conv = i
          \/ /\ engine[c].kind = "codex"
             /\ \E m \in Range(engine[c].inq) \cup Range(engine[c].resp) : m.conv = i

(* A conversation of codex or pi is held by one cell, and its turns are of *)
(* that cell's threads.                                                    *)
Home(i, c) ==
    /\ \A d \in Cells : Holds(d, i) => d = c
    /\ \A k \in 1..Len(convs[i].turns) : StartedOn(convs[i].turns[k], c)

HomeInv ==
    Honest =>
        /\ \A c \in Cells, i \in Nat : Holds(c, i) => i \in Conv /\ convs[i].kind # "claude"
        /\ \A i \in Conv : convs[i].kind # "claude" => \E c \in Cells : Home(i, c)

IInv ==
    /\ RegistryOK /\ EnginesOK /\ JobsInv /\ OpInv
    /\ CodexInv /\ LineInv /\ TurnsInv /\ SessionInv /\ HomeInv

Typed == RegistryOK /\ EnginesOK /\ JobsInv /\ OpInv

LEMMA InitTyped == Init => Typed
  BY RegistryAssumption
  DEF Init, RegistryInit, EnginesInit, Typed, RegistryOK, EnginesOK, JobsInv, OpInv,
      CallsOK, Maybe

-----------------------------------------------------------------------------
(***************************************************************************)
(* Rows and adapters after a step.                                         *)
(***************************************************************************)

(* A thread's state is set. *)
LEMMA StateSet ==
  ASSUME Typed, NEW r \in Rows, NEW s \in Active \cup Terminal \cup {"idle"}, SetState(r, s)
  PROVE  /\ thread' \in [Requests -> Maybe(ThreadRow)]
         /\ Rows' = Rows
         /\ \A q \in Requests : (thread'[q] = None) = (thread[q] = None)
         /\ \A q \in Rows : /\ thread'[q].cell = thread[q].cell
                            /\ thread'[q].kind = thread[q].kind
                            /\ thread'[q].ethread = thread[q].ethread
                            /\ thread'[q].esession = thread[q].esession
<1>1. /\ r \in Requests /\ thread[r] \in ThreadRow /\ thread \in [Requests -> Maybe(ThreadRow)]
      /\ thread' = [thread EXCEPT ![r] = [thread[r] EXCEPT !.state = s]]
  BY DEF Typed, RegistryOK, Rows, SetState
<1>2. PICK x : x = [thread[r] EXCEPT !.state = s] OBVIOUS
<1>3. /\ x \in ThreadRow /\ x.cell = thread[r].cell /\ x.kind = thread[r].kind
      /\ x.ethread = thread[r].ethread /\ x.esession = thread[r].esession
  BY <1>1, <1>2 DEF ThreadRow
<1>4. x # None /\ thread[r] # None BY <1>1, <1>3, RegistryAssumption
<1>5. /\ thread' \in [Requests -> Maybe(ThreadRow)] /\ thread'[r] = x
      /\ \A q \in Requests \ {r} : thread'[q] = thread[q]
  BY <1>1, <1>2, <1>3 DEF Maybe
<1>6. \A q \in Requests : thread'[q] \in ThreadRow <=> thread[q] \in ThreadRow
  BY <1>1, <1>3, <1>5
<1> QED BY <1>1, <1>3, <1>4, <1>5, <1>6 DEF Rows

-----------------------------------------------------------------------------
(***************************************************************************)
(* Types, step by step: the registry.                                      *)
(***************************************************************************)

(* What leaves threads and jobs alone. *)
LEMMA JobsKept ==
  ASSUME JobsInv, UNCHANGED <<thread, queue, engines>> PROVE JobsInv'
  BY DEF JobsInv, Rows, engines

LEMMA EnginesKept == ASSUME EnginesOK, UNCHANGED engines PROVE EnginesOK'
  BY DEF EnginesOK, engines

(* An appended event; nothing is written. *)
LEMMA AuditTyped ==
  ASSUME Typed, UNCHANGED <<rows, call>>, op' \in audit', audit \subseteq audit',
         \/ \E n \in {"register", "update"}, k \in Kinds : op' = [name |-> n, kind |-> k]
         \/ \E p \in Paths, r \in Rows : op' = [name |-> "worktree", path |-> p, owner |-> r]
         \/ \E p \in Paths : op' = [name |-> "cleanup", path |-> p] /\ worktree[p] # None
         \/ \E r \in Requests : /\ op' = [name |-> "spawn", thread |-> r]
                                /\ call[r].at = "target" /\ lookup_spawn_request(r) = {}
  PROVE  OpInv'
  BY DEF OpInv, rows, Rows, lookup_spawn_request, Threads, Binding

LEMMA FaultTyped ==
  ASSUME Typed, (\E kind \in Env : Fault(kind)) \/ UNCHANGED faults
  PROVE  /\ faults' \in [left : Nat, seen : SUBSET Env]
         /\ faults.seen \subseteq faults'.seen
<1>1. faults \in [left : Nat, seen : SUBSET Env] BY DEF Typed, RegistryOK
<1>2. ASSUME NEW kind \in Env, Fault(kind)
      PROVE  faults'.left = faults.left - 1 /\ faults'.seen = faults.seen \cup {kind}
                /\ faults' = [left |-> faults.left - 1, seen |-> faults.seen \cup {kind}]
                /\ faults.left > 0
  BY <1>2 DEF Fault
<1> QED BY <1>1, <1>2

LEMMA RegisterTyped ==
  ASSUME Typed, UNCHANGED engines, NEW k \in Kinds, cell_register(k) \/ cell_update(k)
  PROVE  Typed'
<1>1. /\ UNCHANGED <<rows, call, engines>> /\ op' \in audit' /\ audit \subseteq audit'
      /\ \E n \in {"register", "update"} : op' = [name |-> n, kind |-> k]
      /\ (\E kind \in Env : Fault(kind)) \/ UNCHANGED faults
  BY DEF cell_register, cell_update, Audit, Fault
<1>2. OpInv' BY <1>1, AuditTyped
<1>3. RegistryOK' BY <1>1, FaultTyped DEF Typed, RegistryOK, CallsOK, TargetOK, rows
<1> QED BY <1>1, <1>2, <1>3, JobsKept, EnginesKept DEF Typed, rows

LEMMA WorktreeTyped ==
  ASSUME Typed, UNCHANGED engines, NEW p \in Paths,
         worktree_mark_cleanup(p) \/ \E r \in Requests : worktree_record(p, r)
  PROVE  Typed'
<1>1. /\ UNCHANGED <<rows, call, engines, faults>> /\ op' \in audit' /\ audit \subseteq audit'
  BY DEF worktree_mark_cleanup, worktree_record, Audit
<1>2. ASSUME worktree_mark_cleanup(p) PROVE OpInv'
  BY <1>1, <1>2, AuditTyped DEF worktree_mark_cleanup, Audit
<1>3. ASSUME NEW r \in Requests, worktree_record(p, r) PROVE OpInv'
  <2>1. r \in Rows BY <1>3 DEF worktree_record, Threads, Rows, Typed, RegistryOK, Maybe
  <2>2. op' = [name |-> "worktree", path |-> p, owner |-> r] BY <1>3 DEF worktree_record, Audit
  <2> QED BY <1>1, <2>1, <2>2, AuditTyped
<1>4. OpInv' BY <1>2, <1>3
<1>5. RegistryOK' BY <1>1 DEF Typed, RegistryOK, CallsOK, TargetOK, rows
<1> QED BY <1>1, <1>4, <1>5, JobsKept, EnginesKept DEF Typed, rows

LEMMA WriteDefTyped ==
  ASSUME Typed, UNCHANGED engines, WriteDef PROVE Typed'
<1>1. cells' \in Kinds /\ cells' # None BY RegistryAssumption DEF WriteDef, Typed, OpInv
<1>2. RegistryOK' BY <1>1 DEF Typed, RegistryOK, CallsOK, TargetOK, Maybe, WriteDef
<1>3. OpInv' BY DEF WriteDef, OpInv
<1>4. UNCHANGED <<thread, queue>> BY DEF WriteDef
<1> QED BY <1>2, <1>3, <1>4, JobsKept, EnginesKept DEF Typed

LEMMA WriteWorktreeTyped ==
  ASSUME Typed, UNCHANGED engines, WriteWorktree PROVE Typed'
<1>1. worktree' \in [Paths -> Maybe([owner : Requests, state : {"created", "cleanup_requested"}])]
  <2>1. worktree \in [Paths -> Maybe([owner : Requests, state : {"created", "cleanup_requested"}])]
    BY DEF Typed, RegistryOK
  <2>2. CASE op.name = "worktree"
    <3>1. PICK p \in Paths, r \in Rows : op = [name |-> "worktree", path |-> p, owner |-> r]
      BY <2>2 DEF WriteWorktree, Typed, OpInv
    <3> QED BY <2>1, <2>2, <3>1 DEF WriteWorktree, Rows, Maybe
  <2>3. CASE op.name = "cleanup"
    <3>1. PICK p \in Paths : op = [name |-> "cleanup", path |-> p] /\ worktree[p] # None
      BY <2>3 DEF WriteWorktree, Typed, OpInv
    <3>2. worktree[p] \in [owner : Requests, state : {"created", "cleanup_requested"}]
      BY <2>1, <3>1 DEF Maybe
    <3> QED BY <2>1, <2>3, <3>1, <3>2 DEF WriteWorktree, Maybe
  <2> QED BY <2>2, <2>3 DEF WriteWorktree
<1>2. RegistryOK' BY <1>1 DEF Typed, RegistryOK, CallsOK, TargetOK, WriteWorktree
<1>3. OpInv' BY DEF WriteWorktree, OpInv
<1>4. UNCHANGED <<thread, queue>> BY DEF WriteWorktree
<1> QED BY <1>2, <1>3, <1>4, JobsKept, EnginesKept DEF Typed

LEMMA ResolveTyped ==
  ASSUME Typed, UNCHANGED engines, NEW r \in Requests, NEW p \in Params,
         resolve_spawn_target(r, p)
  PROVE  Typed'
<1>1. /\ call[r].at = "new" /\ op = None /\ UNCHANGED <<rows, op, audit, tasks, faults>>
      /\ thread[r] = None
  BY DEF resolve_spawn_target, Typed, RegistryOK, CallsOK, TargetOK
<1>2. \E x : /\ call' = [call EXCEPT ![r] = x]
             /\ x.at = "target" => TargetOK(x, r) /\ x.kind \in EngineKind
  <2>1. p.named \in BOOLEAN /\ p.engine \in EngineKind \cup {None} BY RegistryAssumption
  <2>2. cells \in Maybe(Kinds) /\ Kinds \subseteq EngineKind
    BY RegistryAssumption DEF Typed, RegistryOK
  <2>3. r # Named BY RegistryAssumption
  <2>4. CASE p.named /\ cells # None /\ p.engine = None
    <3>1. PICK x : x = [at |-> "target", cell |-> Named, kind |-> cells,
                        caller |-> p.caller, key |-> p.key] OBVIOUS
    <3>2. x.at = "target" /\ x.cell = Named /\ x.kind = cells BY <3>1
    <3>3. \/ call' = [call EXCEPT ![r] = x]
          \/ call' = [call EXCEPT ![r] = [at |-> "done", answer |-> "denied"]]
      BY <2>1, <2>4, <3>1 DEF resolve_spawn_target, Answer
    <3> QED BY <2>2, <2>4, <3>2, <3>3 DEF Maybe, TargetOK
  <2>5. CASE ~(p.named /\ cells # None) /\ p.engine # None
    <3>1. PICK x : x = [at |-> "target", cell |-> r, kind |-> p.engine,
                        caller |-> p.caller, key |-> p.key] OBVIOUS
    <3>2. x.at = "target" /\ x.cell = r /\ x.kind = p.engine BY <3>1
    <3>3. \/ call' = [call EXCEPT ![r] = x]
          \/ call' = [call EXCEPT ![r] = [at |-> "done", answer |-> "denied"]]
      BY <2>1, <2>5, <3>1 DEF resolve_spawn_target, Answer
    <3> QED BY <2>1, <2>3, <2>5, <3>2, <3>3 DEF TargetOK
  <2>6. CASE ~(p.named /\ cells # None /\ p.engine = None)
             /\ ~(~(p.named /\ cells # None) /\ p.engine # None)
    <3>1. call' = [call EXCEPT ![r] = [at |-> "done", answer |-> "denied"]]
      BY <2>6 DEF resolve_spawn_target, Answer
    <3>2. [at |-> "done", answer |-> "denied"].at = "done" OBVIOUS
    <3> QED BY <3>1, <3>2
  <2> QED BY <2>4, <2>5, <2>6
<1>3. CallsOK' BY <1>1, <1>2 DEF Typed, RegistryOK, CallsOK, TargetOK, rows
<1>4. RegistryOK' BY <1>1, <1>3 DEF Typed, RegistryOK, rows
<1>5. OpInv' BY <1>1 DEF OpInv
<1> QED BY <1>1, <1>4, <1>5, JobsKept, EnginesKept DEF Typed, rows

LEMMA ReplayTyped ==
  ASSUME Typed, UNCHANGED engines, NEW r \in Requests, SpawnReplay(r) \/ SpawnAuditFails(r)
  PROVE  Typed'
<1>1. /\ UNCHANGED rows /\ op = None /\ op' = None /\ \E a : Answer(r, a)
      /\ (\E kind \in Env : Fault(kind)) \/ UNCHANGED faults
  BY DEF SpawnReplay, SpawnAuditFails, AuditFails, Fault
<1>2. PICK a : Answer(r, a) BY <1>1
<1>3. CallsOK'
  <2>1. PICK x : x = [at |-> "done", answer |-> a] OBVIOUS
  <2>2. x.at = "done" BY <2>1
  <2>3. call' = [call EXCEPT ![r] = x] BY <1>2, <2>1 DEF Answer
  <2> QED BY <1>1, <2>2, <2>3 DEF Typed, RegistryOK, CallsOK, TargetOK, rows
<1>4. RegistryOK' BY <1>1, <1>3, FaultTyped DEF Typed, RegistryOK, rows
<1>5. OpInv' BY <1>1 DEF OpInv
<1> QED BY <1>1, <1>4, <1>5, JobsKept, EnginesKept DEF Typed, rows

LEMMA SpawnAuditTyped ==
  ASSUME Typed, UNCHANGED engines, NEW r \in Requests, SpawnAudit(r)
  PROVE  Typed'
<1>1. /\ UNCHANGED <<rows, call, engines, faults>> /\ op' \in audit' /\ audit \subseteq audit'
      /\ op' = [name |-> "spawn", thread |-> r]
      /\ call[r].at = "target" /\ lookup_spawn_request(r) = {}
  BY DEF SpawnAudit, Audit
<1>2. OpInv' BY <1>1, AuditTyped
<1>3. RegistryOK' BY <1>1 DEF Typed, RegistryOK, CallsOK, TargetOK, rows
<1> QED BY <1>1, <1>2, <1>3, JobsKept, EnginesKept DEF Typed, rows

(* A thread, if it is added, is new. *)
LEMMA SpawnRows ==
  ASSUME Typed, NEW r \in Requests, SpawnWrite(r)
  PROVE  /\ thread[r] = None /\ r \notin Rows /\ call[r].at = "target" /\ call[r].cell \in Cells
         /\ TargetOK(call[r], r) /\ thread' \in [Requests -> Maybe(ThreadRow)]
         /\ Rows \subseteq Rows' /\ Rows' \subseteq Rows \cup {r}
         /\ \A q \in Requests \ {r} : thread'[q] = thread[q]
         /\ \/ thread'[r] = None /\ UNCHANGED <<thread, queue>>
            \/ /\ r \in Rows' /\ thread'[r].cell = call[r].cell
               /\ thread'[r].ethread = None /\ thread'[r].esession = None
               /\ queue' = [queue EXCEPT ![call[r].cell] = Append(@, r)]
<1>1. /\ thread[r] = None /\ call[r].at = "target"
      /\ call[r].cell \in Cells /\ call[r].kind \in EngineKind /\ TargetOK(call[r], r)
  <2>1. op # None /\ op.name = "spawn" /\ op.thread = r BY DEF SpawnWrite
  <2>2. PICK q \in Requests : /\ op = [name |-> "spawn", thread |-> q]
                              /\ call[q].at = "target"
    BY <2>1 DEF Typed, OpInv
  <2>3. q = r BY <2>1, <2>2
  <2> QED BY <2>2, <2>3 DEF Typed, RegistryOK, CallsOK, TargetOK, Cells
<1>2. r \notin Rows BY <1>1, RegistryAssumption DEF Rows
<1>3. thread \in [Requests -> Maybe(ThreadRow)] BY DEF Typed, RegistryOK
<1>4. CASE UNCHANGED <<thread, queue>> BY <1>1, <1>2, <1>3, <1>4 DEF Rows
<1>5. CASE ~ UNCHANGED <<thread, queue>>
  <2>1. PICK x : x = [cell |-> call[r].cell, kind |-> call[r].kind, state |-> "spawning",
                      ethread |-> None, esession |-> None] OBVIOUS
  <2>2. /\ x \in ThreadRow /\ x.cell = call[r].cell /\ x.ethread = None /\ x.esession = None
    BY <1>1, <2>1 DEF ThreadRow, Active
  <2>3. /\ thread' = [thread EXCEPT ![r] = x]
        /\ queue' = [queue EXCEPT ![call[r].cell] = Append(@, r)]
    BY <1>5, <2>1 DEF SpawnWrite
  <2>4. /\ thread' \in [Requests -> Maybe(ThreadRow)] /\ thread'[r] = x
        /\ \A q \in Requests \ {r} : thread'[q] = thread[q]
    BY <1>3, <2>2, <2>3 DEF Maybe
  <2> QED BY <1>1, <1>2, <2>2, <2>3, <2>4 DEF Rows
<1> QED BY <1>4, <1>5 DEF SpawnWrite

LEMMA SpawnWriteTyped ==
  ASSUME Typed, UNCHANGED engines, NEW r \in Requests, SpawnWrite(r)
  PROVE  Typed'
<1>1. op' = None /\ UNCHANGED <<cells, worktree, faults>> /\ \E a : Answer(r, a)
  BY DEF SpawnWrite
<1>2. PICK a : Answer(r, a) BY <1>1
<1>3. CallsOK'
  <2>1. PICK x : x = [at |-> "done", answer |-> a] OBVIOUS
  <2>2. x.at = "done" BY <2>1
  <2>3. call' = [call EXCEPT ![r] = x] BY <1>2, <2>1 DEF Answer
  <2>4. \A q \in Requests \ {r} : thread'[q] = thread[q] BY SpawnRows
  <2>5. call'[r].at = "done" /\ \A q \in Requests \ {r} : call'[q] = call[q]
    BY <2>2, <2>3 DEF Typed, RegistryOK, CallsOK, TargetOK
  <2>7. /\ UNCHANGED cells /\ TargetOK(call[r], r)
        /\ thread'[r] # None => thread'[r].cell = call[r].cell
    BY SpawnRows DEF SpawnWrite
  <2>6. call' = [q \in Requests |-> call'[q]] BY <2>3 DEF Typed, RegistryOK, CallsOK, TargetOK
  <2> QED BY <2>4, <2>5, <2>6, <2>7 DEF Typed, RegistryOK, CallsOK, TargetOK
<1>4. /\ queue' \in [Cells -> Seq(Requests)]
      /\ \A c \in Cells : \A i \in 1..Len(queue'[c]) :
           queue'[c][i] \in Rows' /\ thread'[queue'[c][i]].cell = c
  <2>1. queue \in [Cells -> Seq(Requests)] BY DEF Typed, RegistryOK
  <2>2. \A c \in Cells : \A i \in 1..Len(queue[c]) :
           queue[c][i] \in Rows' /\ queue[c][i] # r /\ thread'[queue[c][i]].cell = c
    BY <2>1, SpawnRows DEF Typed, JobsInv, Rows
  <2>3. CASE queue' = queue BY <2>1, <2>2, <2>3
  <2>4. CASE r \in Rows' /\ queue' = [queue EXCEPT ![call[r].cell] = Append(@, r)]
    <3>1. call[r].cell \in Cells /\ thread'[r].cell = call[r].cell
      BY <2>4, SpawnRows, RegistryAssumption DEF Rows
    <3> QED BY <2>1, <2>2, <2>4, <3>1
  <2> QED BY <2>3, <2>4, SpawnRows
<1>5. RegistryOK' BY <1>1, <1>3, <1>4, SpawnRows DEF Typed, RegistryOK
<1>6. OpInv' BY <1>1 DEF OpInv
<1>7. JobsInv'
  <2>1. \A c \in Cells : job[c] # None => job[c].thread \in Rows
    BY DEF Typed, JobsInv, EnginesOK
  <2>2. r \notin Rows /\ Rows \subseteq Rows' /\ \A q \in Requests \ {r} : thread'[q] = thread[q]
    BY SpawnRows
  <2>3. \A q \in Rows : q \in Rows' /\ thread'[q] = thread[q] BY <2>2 DEF Rows
  <2>4. UNCHANGED engines OBVIOUS
  <2>5. /\ \A n \in 1..Len(owner') : owner'[n] \in Rows'
        /\ \A c \in Cells : job'[c] # None =>
             /\ job'[c].n \in 1..Len(owner') /\ owner'[job'[c].n] = job'[c].thread
             /\ thread'[job'[c].thread].cell = c
    BY <2>1, <2>3, <2>4 DEF Typed, JobsInv, engines
  <2> QED BY <1>4, <2>4, <2>5 DEF Typed, JobsInv, engines
<1> QED BY <1>5, <1>6, <1>7, EnginesKept DEF Typed

LEMMA SendTaskTyped ==
  ASSUME Typed, UNCHANGED engines, NEW r \in Requests, handle_send_task(r)
  PROVE  Typed'
<1>1. r \in Rows BY DEF handle_send_task, Threads, Rows, Typed, RegistryOK, Maybe
<1>2. thread[r].cell \in Cells BY <1>1 DEF Rows, ThreadRow
<1>3. /\ queue' \in [Cells -> Seq(Requests)]
      /\ \A c \in Cells : \A i \in 1..Len(queue'[c]) :
           queue'[c][i] \in Rows /\ thread[queue'[c][i]].cell = c
  <2>1. queue \in [Cells -> Seq(Requests)] BY DEF Typed, RegistryOK
  <2>2. \A c \in Cells : \A i \in 1..Len(queue[c]) :
           queue[c][i] \in Rows /\ thread[queue[c][i]].cell = c
    BY DEF Typed, JobsInv
  <2>3. queue' = queue \/ queue' = [queue EXCEPT ![thread[r].cell] = Append(@, r)]
    BY DEF handle_send_task
  <2>4. CASE queue' = [queue EXCEPT ![thread[r].cell] = Append(@, r)]
    <3>1. PICK d \in Cells : d = thread[r].cell BY <1>2
    <3>2. queue[d] \in Seq(Requests) /\ r \in Requests BY <1>1, <2>1 DEF Rows
    <3>3. /\ queue' \in [Cells -> Seq(Requests)] /\ queue'[d] = Append(queue[d], r)
          /\ \A c \in Cells \ {d} : queue'[c] = queue[c]
      BY <2>1, <2>4, <3>1, <3>2
    <3>4. \A i \in 1..Len(queue'[d]) :
            queue'[d][i] = r \/ (i \in 1..Len(queue[d]) /\ queue'[d][i] = queue[d][i])
      BY <3>2, <3>3
    <3>5. ASSUME NEW i \in 1..Len(queue'[d])
          PROVE  queue'[d][i] \in Rows /\ thread[queue'[d][i]].cell = d
      <4>1. CASE queue'[d][i] = r BY <1>1, <3>1, <4>1
      <4>2. CASE i \in 1..Len(queue[d]) /\ queue'[d][i] = queue[d][i] BY <2>2, <3>1, <4>2
      <4> QED BY <3>4, <4>1, <4>2
    <3>6. ASSUME NEW c \in Cells \ {d}, NEW i \in 1..Len(queue'[c])
          PROVE  queue'[c][i] \in Rows /\ thread[queue'[c][i]].cell = c
      BY <2>2, <3>3
    <3> QED BY <3>3, <3>5, <3>6
  <2> QED BY <2>1, <2>2, <2>3, <2>4
<1>4. UNCHANGED <<cells, thread, bound, worktree, call, op, audit, faults>>
  BY DEF handle_send_task
<1>5. RegistryOK' BY <1>3, <1>4 DEF Typed, RegistryOK, CallsOK, TargetOK
<1>6. OpInv' BY <1>4 DEF Typed, OpInv, Rows, lookup_spawn_request, Threads, Binding
<1>7. JobsInv' BY <1>3, <1>4 DEF Typed, JobsInv, Rows, engines
<1> QED BY <1>5, <1>6, <1>7, EnginesKept DEF Typed

LEMMA RegistryTyped ==
  ASSUME Typed, RegistryNext, UNCHANGED engines PROVE Typed'
  BY RegisterTyped, WorktreeTyped, WriteDefTyped, WriteWorktreeTyped, ResolveTyped,
     ReplayTyped, SpawnAuditTyped, SpawnWriteTyped, SendTaskTyped DEF RegistryNext

-----------------------------------------------------------------------------
(***************************************************************************)
(* Types, step by step: a job is leased, fails, is requeued.               *)
(***************************************************************************)
TableOK ==
    /\ thread' \in [Requests -> Maybe(ThreadRow)] /\ Rows' = Rows
    /\ \A q \in Requests : (thread'[q] = None) = (thread[q] = None)
    /\ \A q \in Rows : thread'[q].cell = thread[q].cell /\ thread'[q].kind = thread[q].kind

LEMMA RegistryKept ==
  ASSUME Typed, TableOK, UNCHANGED <<cells, worktree, bound, call, op, audit>>,
         queue' \in [Cells -> Seq(Requests)],
         (\E kind \in Env : Fault(kind)) \/ UNCHANGED faults
  PROVE  RegistryOK' /\ OpInv'
<1>1. CallsOK'
  <2>1. \A q \in Requests : thread[q] # None => q \in Rows
    BY DEF Typed, RegistryOK, Maybe, Rows
  <2> QED BY <2>1 DEF Typed, RegistryOK, CallsOK, TargetOK, TableOK
<1>2. Threads' = Threads BY DEF Threads, TableOK
<1>3. OpInv'
  BY <1>2 DEF Typed, OpInv, TableOK, lookup_spawn_request, Binding
<1>4. RegistryOK' BY <1>1, FaultTyped DEF Typed, RegistryOK, TableOK
<1> QED BY <1>3, <1>4

LEMMA TableSame == ASSUME Typed, UNCHANGED thread PROVE TableOK
  BY DEF Typed, RegistryOK, TableOK, Rows

LEMMA TableSet ==
  ASSUME Typed, NEW r \in Rows, NEW s \in Active \cup Terminal \cup {"idle"}, SetState(r, s)
  PROVE  TableOK
  BY StateSet DEF TableOK

(* The started job of a cell. *)
LEMMA JobRow ==
  ASSUME Typed, NEW c \in Cells, job[c] # None
  PROVE  /\ job[c] \in Job /\ job[c].thread \in Rows /\ thread[job[c].thread].cell = c
         /\ job[c].n \in 1..Len(owner) /\ owner[job[c].n] = job[c].thread
  BY DEF Typed, EnginesOK, JobsInv, Maybe, Job

(* A thread of cell c waits again, before the others. *)
LEMMA QueueFront ==
  ASSUME Typed, NEW c \in Cells, NEW r \in Rows, thread[r].cell = c, TableOK,
         UNCHANGED queue \/ queue' = [queue EXCEPT ![c] = <<r>> \o @]
  PROVE  /\ queue' \in [Cells -> Seq(Requests)]
         /\ \A d \in Cells : \A i \in 1..Len(queue'[d]) :
              queue'[d][i] \in Rows' /\ thread'[queue'[d][i]].cell = d
<1>1. queue \in [Cells -> Seq(Requests)] BY DEF Typed, RegistryOK
<1>2. \A d \in Cells : \A i \in 1..Len(queue[d]) :
        queue[d][i] \in Rows /\ thread[queue[d][i]].cell = d
  BY DEF Typed, JobsInv
<1>3. CASE UNCHANGED queue BY <1>1, <1>2, <1>3 DEF TableOK
<1>4. CASE queue' = [queue EXCEPT ![c] = <<r>> \o @]
  <2>1. queue[c] \in Seq(Requests) /\ r \in Requests BY <1>1 DEF Rows
  <2>2. /\ queue' \in [Cells -> Seq(Requests)] /\ queue'[c] = <<r>> \o queue[c]
        /\ \A d \in Cells \ {c} : queue'[d] = queue[d]
    BY <1>1, <1>4, <2>1
  <2>3. /\ Len(queue'[c]) = Len(queue[c]) + 1 /\ queue'[c][1] = r
        /\ \A i \in 2..Len(queue'[c]) : queue'[c][i] = queue[c][i - 1]
    BY <2>1, <2>2
  <2>4. ASSUME NEW i \in 1..Len(queue'[c])
        PROVE  queue'[c][i] \in Rows /\ thread[queue'[c][i]].cell = c
    <3>1. CASE i = 1 BY <2>3, <3>1
    <3>2. CASE i # 1
      <4>1. i \in 2..Len(queue'[c]) /\ i - 1 \in 1..Len(queue[c]) BY <2>1, <2>3, <3>2
      <4> QED BY <1>2, <2>3, <4>1
    <3> QED BY <3>1, <3>2
  <2>5. \A d \in Cells \ {c} : \A i \in 1..Len(queue'[d]) :
          queue'[d][i] \in Rows /\ thread[queue'[d][i]].cell = d
    BY <1>2, <2>2
  <2>6. \A q \in Rows : q \in Rows' /\ thread'[q].cell = thread[q].cell BY DEF TableOK
  <2>7. ASSUME NEW d \in Cells, NEW i \in 1..Len(queue'[d])
        PROVE  queue'[d][i] \in Rows /\ thread[queue'[d][i]].cell = d
    BY <2>4, <2>5
  <2> QED BY <2>2, <2>6, <2>7
<1> QED BY <1>3, <1>4

LEMMA QueueSame ==
  ASSUME Typed, TableOK, UNCHANGED queue
  PROVE  /\ queue' \in [Cells -> Seq(Requests)]
         /\ \A d \in Cells : \A i \in 1..Len(queue'[d]) :
              queue'[d][i] \in Rows' /\ thread'[queue'[d][i]].cell = d
  BY DEF Typed, RegistryOK, JobsInv, TableOK

(* The turn is over in the tables. *)
LEMMA TurnEnds ==
  ASSUME Typed, NEW c \in Cells, job[c] # None, Finish(c) \/ FinishOrRequeue(c),
         \/ UNCHANGED thread
         \/ \E s \in Active \cup Terminal \cup {"idle"} : SetState(job[c].thread, s)
  PROVE  /\ TableOK
         /\ job' = [job EXCEPT ![c] = None] /\ job' \in [Cells -> Maybe(Job)]
         /\ queue' \in [Cells -> Seq(Requests)]
         /\ \A d \in Cells : \A i \in 1..Len(queue'[d]) :
              queue'[d][i] \in Rows' /\ thread'[queue'[d][i]].cell = d
<1>1. job[c].thread \in Rows /\ thread[job[c].thread].cell = c BY JobRow
<1>2. TableOK BY <1>1, TableSame, TableSet
<1>3. /\ job' = [job EXCEPT ![c] = None]
      /\ UNCHANGED queue \/ queue' = [queue EXCEPT ![c] = <<job[c].thread>> \o @]
  BY DEF Finish, FinishOrRequeue
<1>4. job' \in [Cells -> Maybe(Job)] BY <1>3 DEF Typed, EnginesOK, Maybe
<1>5. CASE UNCHANGED queue BY <1>2, <1>3, <1>4, <1>5, QueueSame
<1>6. CASE queue' = [queue EXCEPT ![c] = <<job[c].thread>> \o @]
  BY <1>1, <1>2, <1>3, <1>4, <1>6, QueueFront
<1> QED BY <1>3, <1>5, <1>6

(* What a step of the scheduler or an engine on cell c leaves in place.    *)
LEMMA JobsStep ==
  ASSUME Typed, EnginesOK', TableOK, NEW c \in Cells,
         \A d \in Cells : \A i \in 1..Len(queue'[d]) :
              queue'[d][i] \in Rows' /\ thread'[queue'[d][i]].cell = d,
         UNCHANGED owner,
         \A d \in Cells \ {c} : job'[d] = job[d] /\ engine'[d] = engine[d],
         \/ job'[c] = None
         \/ /\ job[c] # None /\ job'[c].thread = job[c].thread /\ job'[c].n = job[c].n
      , flight' \in {flight, flight \cup {c}, flight \ {c}},
         c \in flight' => job'[c] \in Job /\ engine'[c] \in AdapterRow,
         \/ /\ UNCHANGED sched
            /\ sched # None /\ sched.cell = c =>
                 /\ c \notin flight' /\ job'[c] \in Job /\ job'[c].eturn = None
                 /\ sched.at # "ensure" => engine'[c] \in AdapterRow
                 /\ sched.at \in {"resuming", "starting"} => engine'[c].kind = "codex"
         \/ sched' = None
         \/ /\ sched # None /\ sched.cell = c /\ UNCHANGED <<job, flight>>
            /\ \E at : sched' = [cell |-> c, at |-> at]
            /\ sched'.at # "ensure" => engine'[c] \in AdapterRow
            /\ sched'.at \in {"resuming", "starting"} => engine'[c].kind = "codex"
  PROVE  JobsInv'
<1>1. \A n \in 1..Len(owner') : owner'[n] \in Rows'
  BY DEF Typed, JobsInv, TableOK
<1>2. ASSUME NEW d \in Cells, job'[d] # None
      PROVE  /\ job'[d].n \in 1..Len(owner') /\ owner'[job'[d].n] = job'[d].thread
             /\ thread'[job'[d].thread].cell = d
  <2>1. job[d] # None /\ job'[d].thread = job[d].thread /\ job'[d].n = job[d].n BY <1>2
  <2> QED BY <2>1, JobRow DEF TableOK
<1>3. \A d \in flight' : job'[d] \in Job /\ engine'[d] \in AdapterRow
  BY DEF Typed, JobsInv, EnginesOK
<1>4. ASSUME sched' # None
      PROVE  LET d == sched'.cell IN
             /\ d \in Cells /\ d \notin flight'
             /\ job'[d] \in Job /\ job'[d].eturn = None
             /\ sched'.at # "ensure" => engine'[d] \in AdapterRow
             /\ sched'.at \in {"resuming", "starting"} => engine'[d].kind = "codex"
  <2>1. CASE /\ UNCHANGED sched /\ sched.cell = c
             /\ c \notin flight' /\ job'[c] \in Job /\ job'[c].eturn = None
             /\ sched.at # "ensure" => engine'[c] \in AdapterRow
             /\ sched.at \in {"resuming", "starting"} => engine'[c].kind = "codex"
    BY <2>1
  <2>2. CASE UNCHANGED sched /\ sched.cell # c BY <1>4, <2>2 DEF Typed, JobsInv
  <2>3. CASE /\ sched # None /\ sched.cell = c /\ UNCHANGED <<job, flight>>
             /\ \E at : sched' = [cell |-> c, at |-> at]
             /\ sched'.at # "ensure" => engine'[c] \in AdapterRow
             /\ sched'.at \in {"resuming", "starting"} => engine'[c].kind = "codex"
    <3>1. sched'.cell = c BY <2>3
    <3> QED BY <2>3, <3>1 DEF Typed, JobsInv
  <2> QED BY <1>4, <2>1, <2>2, <2>3
<1> QED BY <1>1, <1>2, <1>3, <1>4 DEF JobsInv

-----------------------------------------------------------------------------
(***************************************************************************)
(* Adapters, step by step: what each action makes of the one it is about.  *)
(***************************************************************************)

(* One adapter changes. *)
Only(c) ==
    /\ engine' \in [Cells -> Maybe(AdapterRow)] /\ engine'[c] \in AdapterRow
    /\ \A d \in Cells \ {c} : engine'[d] = engine[d]

LEMMA Put ==
  ASSUME Typed, NEW c \in Cells, NEW x \in AdapterRow, engine' = [engine EXCEPT ![c] = x]
  PROVE  Only(c) /\ engine'[c] = x
  BY DEF Typed, EnginesOK, Only, Maybe

LEMMA RequestShape ==
  ASSUME Typed, NEW c \in Cells, engine[c] \in AdapterRow,
         NEW what \in {"resume", "turn", "interrupt"}, NEW n \in Nat, NEW conv \in Conversation,
         Request(c, what, n, conv)
  PROVE  /\ Only(c)
         /\ engine'[c].id = engine[c].id + 1
         /\ engine'[c].inq = Append(engine[c].inq,
              [id |-> engine[c].id + 1, what |-> what, n |-> n, conv |-> conv])
         /\ engine'[c].kind = engine[c].kind /\ engine'[c].up = engine[c].up
         /\ engine'[c].conv = engine[c].conv /\ engine'[c].resume = engine[c].resume
         /\ engine'[c].session = engine[c].session /\ engine'[c].resp = engine[c].resp
         /\ engine'[c].out = engine[c].out /\ engine'[c].run = engine[c].run
<1>1. PICK e : e = engine[c] OBVIOUS
<1>2. PICK m : m = [id |-> e.id + 1, what |-> what, n |-> n, conv |-> conv] OBVIOUS
<1>3. PICK x : x = [e EXCEPT !.id = e.id + 1, !.inq = Append(e.inq, m)] OBVIOUS
<1>4. m \in Message
  <2>1. e.id + 1 \in Nat BY <1>1 DEF AdapterRow
  <2> QED BY <1>2, <2>1 DEF Message
<1>5. e \in AdapterRow BY <1>1
<1>7. Append(e.inq, m) \in Seq(Message) /\ e.id + 1 \in Nat
  <2>1. e.inq \in Seq(Message) /\ e.id \in Nat BY <1>5 DEF AdapterRow
  <2> QED BY <1>4, <2>1
<1>8. engine' = [engine EXCEPT ![c] = x]
  BY <1>1, <1>2, <1>3 DEF Request
<1>9. x \in AdapterRow
  BY <1>3, <1>5, <1>7 DEF AdapterRow
<1>6. Only(c) /\ engine'[c] = x BY <1>8, <1>9, Put
<1> QED BY <1>1, <1>2, <1>3, <1>5, <1>6 DEF AdapterRow

(* A response is taken, and the thread it is about may become the           *)
(* adapter's.                                                              *)
LEMMA RespTaken ==
  ASSUME Typed, NEW c \in Cells, engine[c] \in AdapterRow,
         engine[c].resp # <<>>, NEW v \in Conversation,
         engine' = [engine EXCEPT ![c].conv = v, ![c].resp = Tail(engine[c].resp)]
  PROVE  /\ Only(c)
         /\ engine'[c].resp = Tail(engine[c].resp) /\ engine'[c].conv = v
         /\ engine'[c].kind = engine[c].kind /\ engine'[c].up = engine[c].up
         /\ engine'[c].resume = engine[c].resume /\ engine'[c].session = engine[c].session
         /\ engine'[c].id = engine[c].id /\ engine'[c].inq = engine[c].inq
         /\ engine'[c].out = engine[c].out /\ engine'[c].run = engine[c].run
<1>1. PICK e : e = engine[c] OBVIOUS
<1>2. e \in AdapterRow BY <1>1
<1>3. PICK x : x = [e EXCEPT !.conv = v, !.resp = Tail(e.resp)] OBVIOUS
<1>4. Tail(e.resp) \in Seq([id : Nat, ok : BOOLEAN, n : Nat, conv : Conversation])
  BY <1>1, <1>2 DEF AdapterRow
<1>5. engine' = [engine EXCEPT ![c] = x] BY <1>1, <1>3
<1>6. x \in AdapterRow BY <1>2, <1>3, <1>4 DEF AdapterRow
<1>7. Only(c) /\ engine'[c] = x BY <1>5, <1>6, Put
<1>8. e = engine[c] /\ engine'[c] = [e EXCEPT !.conv = v, !.resp = Tail(e.resp)]
  BY <1>1, <1>3, <1>7
<1>9. PICK y : y = engine'[c] OBVIOUS
<1>10. /\ y.kind = e.kind /\ y.up = e.up /\ y.resume = e.resume /\ y.session = e.session
      /\ y.id = e.id /\ y.inq = e.inq /\ y.out = e.out /\ y.run = e.run
  BY <1>2, <1>8, <1>9 DEF AdapterRow
<1>11. /\ y.conv = v
       /\ y.resp = Tail(e.resp)
  BY <1>2, <1>8, <1>9 DEF AdapterRow
<1> QED BY <1>7, <1>8, <1>9, <1>10, <1>11

LEMMA RespSkipped ==
  ASSUME Typed, NEW c \in Cells, engine[c] \in AdapterRow,
         engine[c].resp # <<>>, engine' = [engine EXCEPT ![c].resp = Tail(engine[c].resp)]
  PROVE  /\ Only(c)
         /\ engine'[c].resp = Tail(engine[c].resp)
         /\ engine'[c].kind = engine[c].kind /\ engine'[c].up = engine[c].up
         /\ engine'[c].conv = engine[c].conv /\ engine'[c].resume = engine[c].resume
         /\ engine'[c].session = engine[c].session /\ engine'[c].id = engine[c].id
         /\ engine'[c].inq = engine[c].inq /\ engine'[c].out = engine[c].out
         /\ engine'[c].run = engine[c].run
<1>1. PICK e : e = engine[c] OBVIOUS
<1>2. e \in AdapterRow BY <1>1
<1>3. PICK x : x = [e EXCEPT !.resp = Tail(e.resp)] OBVIOUS
<1>4. Tail(e.resp) \in Seq([id : Nat, ok : BOOLEAN, n : Nat, conv : Conversation])
  BY <1>1, <1>2 DEF AdapterRow
<1>5. engine' = [engine EXCEPT ![c] = x] BY <1>1, <1>3
<1>6. x \in AdapterRow BY <1>2, <1>3, <1>4 DEF AdapterRow
<1>7. Only(c) /\ engine'[c] = x BY <1>5, <1>6, Put
<1>8. e = engine[c] /\ engine'[c] = [e EXCEPT !.resp = Tail(e.resp)] BY <1>1, <1>3, <1>7
<1> QED BY <1>2, <1>4, <1>7, <1>8 DEF AdapterRow

(* claude notes the session it is to continue. *)
LEMMA ResumeNoted ==
  ASSUME Typed, NEW c \in Cells, engine[c] \in AdapterRow,
         NEW v \in Conversation, engine' = [engine EXCEPT ![c].resume = v]
  PROVE  /\ Only(c)
         /\ engine'[c].resume = v
         /\ engine'[c].kind = engine[c].kind /\ engine'[c].up = engine[c].up
         /\ engine'[c].conv = engine[c].conv /\ engine'[c].session = engine[c].session
         /\ engine'[c].id = engine[c].id /\ engine'[c].inq = engine[c].inq
         /\ engine'[c].resp = engine[c].resp /\ engine'[c].out = engine[c].out
         /\ engine'[c].run = engine[c].run
<1>1. PICK e : e = engine[c] OBVIOUS
<1>2. e \in AdapterRow BY <1>1
<1>3. PICK x : x = [e EXCEPT !.resume = v] OBVIOUS
<1>4. v \in Conversation OBVIOUS
<1>5. engine' = [engine EXCEPT ![c] = x] BY <1>1, <1>3
<1>6. x \in AdapterRow BY <1>2, <1>3, <1>4 DEF AdapterRow
<1>7. Only(c) /\ engine'[c] = x BY <1>5, <1>6, Put
<1>8. e = engine[c] /\ engine'[c] = [e EXCEPT !.resume = v] BY <1>1, <1>3, <1>7
<1> QED BY <1>2, <1>4, <1>7, <1>8 DEF AdapterRow

(* A prompt is written for the started job. *)
LEMMA PromptShape ==
  ASSUME Typed, NEW c \in Cells, engine[c] \in AdapterRow,
         job[c] \in Job, WritePrompt(c)
  PROVE  /\ Only(c)
         /\ engine'[c].resume = None
         /\ engine'[c].inq = Append(engine[c].inq,
              [what |-> "turn", n |-> job[c].n, conv |-> engine[c].resume])
         /\ engine'[c].kind = engine[c].kind /\ engine'[c].up = engine[c].up
         /\ engine'[c].conv = engine[c].conv /\ engine'[c].session = engine[c].session
         /\ engine'[c].id = engine[c].id /\ engine'[c].resp = engine[c].resp
         /\ engine'[c].out = engine[c].out /\ engine'[c].run = engine[c].run
<1>1. PICK e : e = engine[c] OBVIOUS
<1>2. e \in AdapterRow BY <1>1
<1>0. PICK m : m = [what |-> "turn", n |-> job[c].n, conv |-> e.resume] OBVIOUS
<1>3. PICK x : x = [e EXCEPT !.inq = Append(e.inq, m), !.resume = None] OBVIOUS
<1>4. Append(e.inq, m) \in Seq(Message) /\ None \in Conversation
  <2>1. job[c].n \in Nat /\ e.resume \in Conversation /\ e.inq \in Seq(Message)
    BY <1>2 DEF Job, AdapterRow
  <2>2. m \in Message BY <1>0, <2>1 DEF Message
  <2> QED BY <2>1, <2>2 DEF Conversation
<1>5. engine' = [engine EXCEPT ![c] = x] BY <1>1, <1>3, <1>0 DEF WritePrompt
<1>6. x \in AdapterRow BY <1>2, <1>3, <1>4 DEF AdapterRow
<1>7. Only(c) /\ engine'[c] = x BY <1>5, <1>6, Put
<1>8. e = engine[c] /\ engine'[c] = [e EXCEPT !.inq = Append(e.inq, m), !.resume = None]
  BY <1>1, <1>3, <1>7
<1> QED BY <1>0, <1>2, <1>4, <1>7, <1>8 DEF AdapterRow

(* The ack of turn/start becomes the first event. *)
LEMMA AckShape ==
  ASSUME Typed, NEW c \in Cells, engine[c] \in AdapterRow,
         engine[c].resp # <<>>, NEW n \in Nat,
         engine' = [engine EXCEPT
            ![c].out = <<[what |-> "accepted", n |-> n]>> \o engine[c].out,
            ![c].resp = Tail(engine[c].resp)]
  PROVE  /\ Only(c)
         /\ engine'[c].resp = Tail(engine[c].resp)
         /\ engine'[c].out = <<[what |-> "accepted", n |-> n]>> \o engine[c].out
         /\ engine'[c].kind = engine[c].kind /\ engine'[c].up = engine[c].up
         /\ engine'[c].conv = engine[c].conv /\ engine'[c].resume = engine[c].resume
         /\ engine'[c].session = engine[c].session /\ engine'[c].id = engine[c].id
         /\ engine'[c].inq = engine[c].inq /\ engine'[c].run = engine[c].run
<1>1. PICK e : e = engine[c] OBVIOUS
<1>2. e \in AdapterRow BY <1>1
<1>3. PICK x : x = [e EXCEPT !.out = <<[what |-> "accepted", n |-> n]>> \o e.out,
                            !.resp = Tail(e.resp)]
  OBVIOUS
<1>4. /\ Tail(e.resp) \in Seq([id : Nat, ok : BOOLEAN, n : Nat, conv : Conversation])
      /\ <<[what |-> "accepted", n |-> n]>> \o e.out
          
           \in Seq([what : {"accepted", "final", "failed"}, n : Nat])
  BY <1>1, <1>2 DEF AdapterRow
<1>5. engine' = [engine EXCEPT ![c] = x] BY <1>1, <1>3
<1>6. x \in AdapterRow BY <1>2, <1>3, <1>4 DEF AdapterRow
<1>7. Only(c) /\ engine'[c] = x BY <1>5, <1>6, Put
<1>8. e = engine[c] /\ engine'[c] = [e EXCEPT !.out = <<[what |-> "accepted", n |-> n]>> \o e.out,
                            !.resp = Tail(e.resp)]
  BY <1>1, <1>3, <1>7
<1>9. PICK y : y = engine'[c] OBVIOUS
<1>10. /\ y.kind = e.kind /\ y.up = e.up /\ y.conv = e.conv /\ y.resume = e.resume
      /\ y.session = e.session /\ y.id = e.id /\ y.inq = e.inq /\ y.run = e.run
  BY <1>2, <1>8, <1>9 DEF AdapterRow
<1>11. /\ y.out = <<[what |-> "accepted", n |-> n]>> \o e.out
       /\ y.resp = Tail(e.resp)
  BY <1>2, <1>8, <1>9 DEF AdapterRow
<1> QED BY <1>7, <1>8, <1>9, <1>10, <1>11

(* An event is polled. *)
LEMMA EventTaken ==
  ASSUME Typed, NEW c \in Cells, engine[c] \in AdapterRow,
         engine[c].out # <<>>, engine' = [engine EXCEPT ![c].out = Tail(engine[c].out)]
  PROVE  /\ Only(c)
         /\ engine'[c].out = Tail(engine[c].out)
         /\ engine'[c].kind = engine[c].kind /\ engine'[c].up = engine[c].up
         /\ engine'[c].conv = engine[c].conv /\ engine'[c].resume = engine[c].resume
         /\ engine'[c].session = engine[c].session /\ engine'[c].id = engine[c].id
         /\ engine'[c].inq = engine[c].inq /\ engine'[c].resp = engine[c].resp
         /\ engine'[c].run = engine[c].run
<1>1. PICK e : e = engine[c] OBVIOUS
<1>2. e \in AdapterRow BY <1>1
<1>3. PICK x : x = [e EXCEPT !.out = Tail(e.out)] OBVIOUS
<1>4. Tail(e.out)
           \in Seq([what : {"accepted", "final", "failed"}, n : Nat])
  BY <1>1, <1>2 DEF AdapterRow
<1>5. engine' = [engine EXCEPT ![c] = x] BY <1>1, <1>3
<1>6. x \in AdapterRow BY <1>2, <1>3, <1>4 DEF AdapterRow
<1>7. Only(c) /\ engine'[c] = x BY <1>5, <1>6, Put
<1>8. e = engine[c] /\ engine'[c] = [e EXCEPT !.out = Tail(e.out)] BY <1>1, <1>3, <1>7
<1> QED BY <1>2, <1>4, <1>7, <1>8 DEF AdapterRow

LEMMA EventsDropped ==
  ASSUME Typed, NEW c \in Cells, engine[c] \in AdapterRow,
         engine' = [engine EXCEPT ![c].out = <<>>]
  PROVE  /\ Only(c)
         /\ engine'[c].out = <<>>
         /\ engine'[c].kind = engine[c].kind /\ engine'[c].up = engine[c].up
         /\ engine'[c].conv = engine[c].conv /\ engine'[c].resume = engine[c].resume
         /\ engine'[c].session = engine[c].session /\ engine'[c].id = engine[c].id
         /\ engine'[c].inq = engine[c].inq /\ engine'[c].resp = engine[c].resp
         /\ engine'[c].run = engine[c].run
<1>1. PICK e : e = engine[c] OBVIOUS
<1>2. e \in AdapterRow BY <1>1
<1>3. PICK x : x = [e EXCEPT !.out = <<>>] OBVIOUS
<1>4. <<>> \in Seq([what : {"accepted", "final", "failed"}, n : Nat]) OBVIOUS
<1>5. engine' = [engine EXCEPT ![c] = x] BY <1>1, <1>3
<1>6. x \in AdapterRow BY <1>2, <1>3, <1>4 DEF AdapterRow
<1>7. Only(c) /\ engine'[c] = x BY <1>5, <1>6, Put
<1>8. e = engine[c] /\ engine'[c] = [e EXCEPT !.out = <<>>] BY <1>1, <1>3, <1>7
<1> QED BY <1>2, <1>4, <1>7, <1>8 DEF AdapterRow

(* codex answers a request. *)
LEMMA RespondShape ==
  ASSUME Typed, NEW c \in Cells, engine[c] \in AdapterRow,
         engine[c].inq # <<>>, NEW ok \in BOOLEAN, Head(engine[c].inq).id \in Nat,
         Respond(c, Head(engine[c].inq), ok)
  PROVE  /\ Only(c)
         /\ LET q == Head(engine[c].inq) IN
            /\ engine'[c].resp = Append(engine[c].resp,
                 [id |-> q.id, ok |-> ok, n |-> q.n, conv |-> q.conv])
            /\ \/ engine'[c].run = [n |-> q.n, conv |-> q.conv]
               \/ engine'[c].run = engine[c].run
         /\ engine'[c].inq = Tail(engine[c].inq)
         /\ engine'[c].kind = engine[c].kind /\ engine'[c].up = engine[c].up
         /\ engine'[c].conv = engine[c].conv /\ engine'[c].resume = engine[c].resume
         /\ engine'[c].session = engine[c].session /\ engine'[c].id = engine[c].id
         /\ engine'[c].out = engine[c].out
<1>1. PICK e : e = engine[c] OBVIOUS
<1>2. e \in AdapterRow BY <1>1
<1>0. PICK q : q = Head(engine[c].inq) OBVIOUS
<1>9. PICK m : m = [id |-> q.id, ok |-> ok, n |-> q.n, conv |-> q.conv] OBVIOUS
<1>10. PICK u : u = IF ok /\ q.what = "turn" THEN [n |-> q.n, conv |-> q.conv] ELSE e.run OBVIOUS
<1>3. PICK x : x = [e EXCEPT !.inq = Tail(e.inq),
                            !.resp = Append(e.resp, m), !.run = u] OBVIOUS
<1>4. Tail(e.inq) \in Seq(Message) /\ u \in Run \cup {None}
      /\ Append(e.resp, m) \in Seq([id : Nat, ok : BOOLEAN, n : Nat, conv : Conversation])
  <2>1. q \in Message /\ e.inq \in Seq(Message) /\ q.id \in Nat
    BY <1>1, <1>2, <1>0 DEF AdapterRow
  <2>2. q.n \in Nat /\ q.conv \in Conversation BY <2>1 DEF Message
  <2>3. m \in [id : Nat, ok : BOOLEAN, n : Nat, conv : Conversation]
    BY <1>9, <2>1, <2>2
  <2>4. u \in Run \cup {None} BY <1>2, <1>10, <2>2 DEF AdapterRow, Maybe, Run
  <2>5. e.resp \in Seq([id : Nat, ok : BOOLEAN, n : Nat, conv : Conversation])
    BY <1>2 DEF AdapterRow
  <2> QED BY <1>1, <2>1, <2>3, <2>4, <2>5
<1>5. engine' = [engine EXCEPT ![c] = x] BY <1>1, <1>3, <1>0, <1>9, <1>10 DEF Respond
<1>6. x \in AdapterRow BY <1>2, <1>3, <1>4 DEF AdapterRow
<1>7. Only(c) /\ engine'[c] = x BY <1>5, <1>6, Put
<1>8. e = engine[c] /\ engine'[c] = [e EXCEPT !.inq = Tail(e.inq),
                            !.resp = Append(e.resp, m), !.run = u]
  BY <1>1, <1>3, <1>7
<1> QED BY <1>0, <1>9, <1>10, <1>2, <1>4, <1>7, <1>8 DEF AdapterRow

(* An interrupt is read. *)
LEMMA InterruptShape ==
  ASSUME Typed, NEW c \in Cells, engine[c] \in AdapterRow,
         engine[c].inq # <<>>, engine[c].kind = "codex" => Head(engine[c].inq).id \in Nat,
         Interrupted(c)
  PROVE  /\ Only(c)
         /\ engine'[c].inq = Tail(engine[c].inq)
         /\ \/ engine'[c].resp = engine[c].resp
            \/ LET q == Head(engine[c].inq) IN
               engine'[c].resp = Append(engine[c].resp,
                 [id |-> q.id, ok |-> TRUE, n |-> q.n, conv |-> q.conv])
         /\ engine'[c].kind = engine[c].kind /\ engine'[c].up = engine[c].up
         /\ engine'[c].conv = engine[c].conv /\ engine'[c].resume = engine[c].resume
         /\ engine'[c].session = engine[c].session /\ engine'[c].id = engine[c].id
         /\ engine'[c].out = engine[c].out /\ engine'[c].run = engine[c].run
<1>1. PICK e : e = engine[c] OBVIOUS
<1>2. e \in AdapterRow BY <1>1
<1>9. PICK q : q = Head(engine[c].inq) OBVIOUS
<1>10. PICK m : m = [id |-> q.id, ok |-> TRUE, n |-> q.n, conv |-> q.conv] OBVIOUS
<1>11. PICK p : p = IF e.kind = "codex" THEN Append(e.resp, m) ELSE e.resp OBVIOUS
<1>3. PICK x : x = [e EXCEPT !.inq = Tail(e.inq),
                            !.resp = p, !.aborted = (e.run # None)] OBVIOUS
<1>4. /\ Tail(e.inq) \in Seq(Message)
      /\ p \in Seq([id : Nat, ok : BOOLEAN, n : Nat, conv : Conversation])
  <2>1. q \in Message /\ e.inq \in Seq(Message)
    BY <1>1, <1>2, <1>9 DEF AdapterRow
  <2>2. q.n \in Nat /\ q.conv \in Conversation BY <2>1 DEF Message
  <2>3. e.kind = "codex" => m \in [id : Nat, ok : BOOLEAN, n : Nat, conv : Conversation]
    BY <1>1, <1>9, <1>10, <2>2
  <2>4. e.resp \in Seq([id : Nat, ok : BOOLEAN, n : Nat, conv : Conversation])
    BY <1>2 DEF AdapterRow
  <2>5. p \in Seq([id : Nat, ok : BOOLEAN, n : Nat, conv : Conversation])
    <3>1. CASE e.kind = "codex" BY <1>11, <2>3, <2>4, <3>1
    <3>2. CASE e.kind # "codex" BY <1>11, <2>4, <3>2
    <3> QED BY <3>1, <3>2
  <2> QED BY <1>1, <2>1, <2>5
<1>5. engine' = [engine EXCEPT ![c] = x] BY <1>1, <1>3, <1>9, <1>10, <1>11 DEF Interrupted
<1>6. x \in AdapterRow BY <1>2, <1>3, <1>4 DEF AdapterRow
<1>7. Only(c) /\ engine'[c] = x BY <1>5, <1>6, Put
<1>8. e = engine[c] /\ engine'[c] = [e EXCEPT !.inq = Tail(e.inq),
                            !.resp = p, !.aborted = (e.run # None)]
  BY <1>1, <1>3, <1>7
<1> QED BY <1>2, <1>9, <1>10, <1>11, <1>4, <1>7, <1>8 DEF AdapterRow

(* A prompt is taken. *)
LEMMA PromptTakenShape ==
  ASSUME Typed, NEW c \in Cells, engine[c] \in AdapterRow, engine[c].inq # <<>>,
         NEW u \in Run, NEW m \in [what : {"accepted", "final", "failed"}, n : Nat],
         engine' = [engine EXCEPT
            ![c].inq = Tail(@), ![c].run = u, ![c].out = Append(@, m)]
  PROVE  /\ Only(c)
         /\ engine'[c].inq = Tail(engine[c].inq) /\ engine'[c].run = u
         /\ engine'[c].out = Append(engine[c].out, m)
         /\ engine'[c].kind = engine[c].kind /\ engine'[c].up = engine[c].up
         /\ engine'[c].conv = engine[c].conv /\ engine'[c].resume = engine[c].resume
         /\ engine'[c].session = engine[c].session /\ engine'[c].id = engine[c].id
         /\ engine'[c].resp = engine[c].resp
<1>1. PICK e : e = engine[c] OBVIOUS
<1>2. e \in AdapterRow BY <1>1
<1>3. PICK x : x = [e EXCEPT !.inq = Tail(e.inq), !.run = u, !.out = Append(e.out, m)] OBVIOUS
<1>4. /\ Tail(e.inq) \in Seq(Message)
      /\ Append(e.out, m)
           \in Seq([what : {"accepted", "final", "failed"}, n : Nat])
  BY <1>1, <1>2 DEF AdapterRow
<1>5. engine' = [engine EXCEPT ![c] = x] BY <1>1, <1>3
<1>6. x \in AdapterRow BY <1>2, <1>3, <1>4 DEF AdapterRow
<1>7. Only(c) /\ engine'[c] = x BY <1>5, <1>6, Put
<1>8. e = engine[c] /\ engine'[c] = [e EXCEPT !.inq = Tail(e.inq), !.run = u,
                                             !.out = Append(e.out, m)]
  BY <1>1, <1>3, <1>7
<1>9. PICK y : y = engine'[c] OBVIOUS
<1>10. /\ y.kind = e.kind /\ y.up = e.up /\ y.conv = e.conv /\ y.resume = e.resume
       /\ y.session = e.session /\ y.id = e.id /\ y.resp = e.resp
  BY <1>2, <1>8, <1>9 DEF AdapterRow
<1>11. y.inq = Tail(e.inq) /\ y.run = u /\ y.out = Append(e.out, m)
  BY <1>2, <1>8, <1>9 DEF AdapterRow
<1> QED BY <1>7, <1>8, <1>9, <1>10, <1>11

(* ... or refused. *)
LEMMA RefuseShape ==
  ASSUME Typed, NEW c \in Cells, engine[c] \in AdapterRow,
         engine[c].inq # <<>>, NEW n \in Nat,
         engine' = [engine EXCEPT
            ![c].inq = Tail(@), ![c].out = Append(@, [what |-> "failed", n |-> n])]
  PROVE  /\ Only(c)
         /\ engine'[c].inq = Tail(engine[c].inq)
         /\ engine'[c].out = Append(engine[c].out, [what |-> "failed", n |-> n])
         /\ engine'[c].kind = engine[c].kind /\ engine'[c].up = engine[c].up
         /\ engine'[c].conv = engine[c].conv /\ engine'[c].resume = engine[c].resume
         /\ engine'[c].session = engine[c].session /\ engine'[c].id = engine[c].id
         /\ engine'[c].resp = engine[c].resp /\ engine'[c].run = engine[c].run
<1>1. PICK e : e = engine[c] OBVIOUS
<1>2. e \in AdapterRow BY <1>1
<1>3. PICK x : x = [e EXCEPT !.inq = Tail(e.inq),
                            !.out = Append(e.out, [what |-> "failed", n |-> n])]
  OBVIOUS
<1>4. /\ Tail(e.inq) \in Seq(Message)
      /\ Append(e.out, [what |-> "failed", n |-> n])
           \in Seq([what : {"accepted", "final", "failed"}, n : Nat])
  <2>1. e.inq \in Seq(Message) /\ e.out
           \in Seq([what : {"accepted", "final", "failed"}, n : Nat])
    BY <1>2 DEF AdapterRow
  <2> QED BY <1>1, <2>1
<1>5. engine' = [engine EXCEPT ![c] = x] BY <1>1, <1>3
<1>6. x \in AdapterRow BY <1>2, <1>3, <1>4 DEF AdapterRow
<1>7. Only(c) /\ engine'[c] = x BY <1>5, <1>6, Put
<1>8. e = engine[c] /\ engine'[c] = [e EXCEPT !.inq = Tail(e.inq),
                            !.out = Append(e.out, [what |-> "failed", n |-> n])]
  BY <1>1, <1>3, <1>7
<1>9. PICK y : y = engine'[c] OBVIOUS
<1>10. /\ y.kind = e.kind /\ y.up = e.up /\ y.conv = e.conv /\ y.resume = e.resume
      /\ y.session = e.session /\ y.id = e.id /\ y.resp = e.resp /\ y.run = e.run
  BY <1>2, <1>8, <1>9 DEF AdapterRow
<1>11. /\ y.inq = Tail(e.inq)
       /\ y.out = Append(e.out, [what |-> "failed", n |-> n])
  BY <1>2, <1>8, <1>9 DEF AdapterRow
<1> QED BY <1>7, <1>8, <1>9, <1>10, <1>11

(* A turn ends with a line that becomes an event. *)
LEMMA EndShape ==
  ASSUME Typed, NEW c \in Cells, engine[c] \in AdapterRow,
         engine[c].run # None, NEW ev \in {"final", "failed"}, NEW s \in Conversation,
         engine' = [engine EXCEPT
            ![c].run = None, ![c].aborted = FALSE, ![c].session = s,
            ![c].out = Append(@, [what |-> ev, n |-> engine[c].run.n])]
  PROVE  /\ Only(c)
         /\ engine'[c].run = None /\ engine'[c].session = s
         /\ engine'[c].out = Append(engine[c].out, [what |-> ev, n |-> engine[c].run.n])
         /\ engine'[c].kind = engine[c].kind /\ engine'[c].up = engine[c].up
         /\ engine'[c].conv = engine[c].conv /\ engine'[c].resume = engine[c].resume
         /\ engine'[c].id = engine[c].id /\ engine'[c].inq = engine[c].inq
         /\ engine'[c].resp = engine[c].resp
<1>1. PICK e : e = engine[c] OBVIOUS
<1>2. e \in AdapterRow BY <1>1
<1>3. PICK x : x = [e EXCEPT !.run = None, !.aborted = FALSE, !.session = s,
                          !.out = Append(e.out, [what |-> ev, n |-> e.run.n])] OBVIOUS
<1>4. None \in Run \cup {None} /\ Append(e.out, [what |-> ev, n |-> e.run.n])
           \in Seq([what : {"accepted", "final", "failed"}, n : Nat])
  <2>1. e.run \in Run /\ e.out
           \in Seq([what : {"accepted", "final", "failed"}, n : Nat])
    BY <1>1, <1>2 DEF AdapterRow, Maybe
  <2>2. e.run.n \in Nat BY <2>1 DEF Run
  <2> QED BY <2>1, <2>2 DEF Maybe
<1>5. engine' = [engine EXCEPT ![c] = x] BY <1>1, <1>3
<1>6. x \in AdapterRow BY <1>2, <1>3, <1>4 DEF AdapterRow
<1>7. Only(c) /\ engine'[c] = x BY <1>5, <1>6, Put
<1>8. e = engine[c] /\ engine'[c] = [e EXCEPT !.run = None, !.aborted = FALSE, !.session = s,
                          !.out = Append(e.out, [what |-> ev, n |-> e.run.n])] BY <1>1, <1>3, <1>7
<1>9. PICK y : y = engine'[c] OBVIOUS
<1>10. /\ y.kind = e.kind /\ y.up = e.up /\ y.conv = e.conv /\ y.resume = e.resume
       /\ y.id = e.id /\ y.inq = e.inq /\ y.resp = e.resp
  BY <1>2, <1>8, <1>9 DEF AdapterRow
<1>11. /\ y.run = None /\ y.session = s
       /\ y.out = Append(e.out, [what |-> ev, n |-> e.run.n])
  BY <1>2, <1>8, <1>9 DEF AdapterRow
<1>12. y \in AdapterRow BY <1>7, <1>9 DEF Only
<1> QED BY <1>7, <1>8, <1>9, <1>10, <1>11

(* A process dies; what it has said can still be polled. *)
LEMMA DiesShape ==
  ASSUME Typed, NEW c \in Cells, engine[c] \in AdapterRow,
         Dies(c)
  PROVE  /\ Only(c)
         /\ engine'[c].up = FALSE /\ engine'[c].run = None /\ engine'[c].inq = <<>>
         /\ engine'[c].kind = engine[c].kind /\ engine'[c].conv = engine[c].conv
         /\ engine'[c].resume = engine[c].resume /\ engine'[c].session = engine[c].session
         /\ engine'[c].id = engine[c].id /\ engine'[c].resp = engine[c].resp
         /\ engine'[c].out = engine[c].out
<1>1. PICK e : e = engine[c] OBVIOUS
<1>2. e \in AdapterRow BY <1>1
<1>3. PICK x : x = [e EXCEPT !.up = FALSE, !.run = None,
                            !.inq = <<>>, !.aborted = FALSE] OBVIOUS
<1>4. None \in Run \cup {None} /\ <<>> \in Seq(Message) BY DEF Maybe
<1>5. engine' = [engine EXCEPT ![c] = x] BY <1>1, <1>3 DEF Dies
<1>6. x \in AdapterRow BY <1>2, <1>3, <1>4 DEF AdapterRow
<1>7. Only(c) /\ engine'[c] = x BY <1>5, <1>6, Put
<1>8. e = engine[c] /\ engine'[c] = [e EXCEPT !.up = FALSE, !.run = None,
                            !.inq = <<>>, !.aborted = FALSE]
  BY <1>1, <1>3, <1>7
<1> QED BY <1>2, <1>4, <1>7, <1>8 DEF AdapterRow

(* An interrupt is written. *)
LEMMA LineInterruptShape ==
  ASSUME Typed, NEW c \in Cells, engine[c] \in AdapterRow,
         engine[c].kind # "codex", interrupt(c)
  PROVE  /\ Only(c)
         /\ engine'[c].inq = Append(engine[c].inq, [what |-> "interrupt", n |-> 0, conv |-> None])
         /\ engine'[c].kind = engine[c].kind /\ engine'[c].up = engine[c].up
         /\ engine'[c].conv = engine[c].conv /\ engine'[c].resume = engine[c].resume
         /\ engine'[c].session = engine[c].session /\ engine'[c].id = engine[c].id
         /\ engine'[c].resp = engine[c].resp /\ engine'[c].out = engine[c].out
         /\ engine'[c].run = engine[c].run
<1>1. PICK e : e = engine[c] OBVIOUS
<1>2. e \in AdapterRow BY <1>1
<1>0. PICK m : m = [what |-> "interrupt", n |-> 0, conv |-> None] OBVIOUS
<1>3. PICK x : x = [e EXCEPT !.inq = Append(e.inq, m)] OBVIOUS
<1>4. Append(e.inq, m) \in Seq(Message)
  <2>1. e.inq \in Seq(Message) BY <1>2 DEF AdapterRow
  <2>2. m \in Message BY <1>0 DEF Message, Conversation
  <2> QED BY <2>1, <2>2
<1>5. engine' = [engine EXCEPT ![c] = x] BY <1>1, <1>3, <1>0 DEF interrupt
<1>6. x \in AdapterRow BY <1>2, <1>3, <1>4 DEF AdapterRow
<1>7. Only(c) /\ engine'[c] = x BY <1>5, <1>6, Put
<1>8. e = engine[c] /\ engine'[c] = [e EXCEPT !.inq = Append(e.inq, m)] BY <1>1, <1>3, <1>7
<1> QED BY <1>0, <1>2, <1>4, <1>7, <1>8 DEF AdapterRow

(* A new adapter. *)
LEMMA FreshShape ==
  ASSUME Typed, NEW c \in Cells, NEW k \in EngineKind, NEW v \in Conversation,
         engine' = [engine EXCEPT ![c] = Adapter(k, v)]
  PROVE  /\ Only(c)
         /\ engine'[c].kind = k /\ engine'[c].up = TRUE /\ engine'[c].conv = v
         /\ engine'[c].resume = None /\ engine'[c].session = None /\ engine'[c].id = 0
         /\ engine'[c].inq = <<>> /\ engine'[c].resp = <<>> /\ engine'[c].out = <<>>
         /\ engine'[c].run = None
<1>1. PICK x : x = Adapter(k, v) OBVIOUS
<1>2. x \in AdapterRow BY <1>1 DEF Adapter, AdapterRow, Conversation
<1>3. Only(c) /\ engine'[c] = x BY <1>1, <1>2, Put
<1> QED BY <1>1, <1>3 DEF Adapter

-----------------------------------------------------------------------------
(***************************************************************************)
(* Types, step by step: adapters, the scheduler, the whole of Next.        *)
(***************************************************************************)
ConvRow == [kind : EngineKind, turns : Seq(Nat)]

LEMMA HasAdapter ==
  ASSUME Typed, NEW c \in Cells
  PROVE  /\ engine[c] # None => engine[c] \in AdapterRow
         /\ c \in flight => engine[c] \in AdapterRow /\ job[c] \in Job
  BY DEF Typed, EnginesOK, JobsInv, Maybe

LEMMA CallIds ==
  ASSUME Typed, NEW c \in Cells, Only(c), engine'[c].kind = engine[c].kind,
         engine[c].kind = "codex" =>
           \A i \in 1..Len(engine'[c].inq) : engine'[c].inq[i].id \in Nat
  PROVE  /\ engine' \in [Cells -> Maybe(AdapterRow)]
         /\ \A d \in Cells : engine'[d] # None /\ engine'[d].kind = "codex" =>
              \A i \in 1..Len(engine'[d].inq) : engine'[d].inq[i].id \in Nat
  BY DEF Typed, EnginesOK, Only

(* Something happens to an adapter, and the scheduler may go on to the     *)
(* next step of starting a turn.                                           *)
LEMMA AdapterTyped ==
  ASSUME Typed, NEW c \in Cells, Only(c), engine'[c].kind = engine[c].kind,
         engine[c].kind = "codex" =>
           \A i \in 1..Len(engine'[c].inq) : engine'[c].inq[i].id \in Nat,
         UNCHANGED <<registry, job, owner, finals>>, convs' \in Seq(ConvRow),
         (\E kind \in Env : Fault(kind)) \/ UNCHANGED faults,
         \/ UNCHANGED <<sched, flight>>
         \/ sched # None /\ sched.cell = c /\ flight' = flight \cup {c} /\ sched' = None
         \/ /\ sched # None /\ sched.cell = c /\ UNCHANGED flight
            /\ \E at : /\ sched' = [cell |-> c, at |-> at]
                       /\ at \in {"resuming", "starting"} => engine[c].kind = "codex"
  PROVE  Typed'
<1>1. /\ UNCHANGED <<cells, thread, bound, worktree, queue, call, op, audit>>
      /\ UNCHANGED <<job, owner, finals>>
  BY DEF registry, rows
<1>2. flight' \subseteq Cells BY DEF Typed, EnginesOK
<1>3. EnginesOK' BY <1>1, <1>2, CallIds DEF Typed, EnginesOK, ConvRow
<1>4. TableOK BY <1>1, TableSame
<1>5. /\ queue' \in [Cells -> Seq(Requests)]
      /\ \A d \in Cells : \A i \in 1..Len(queue'[d]) :
              queue'[d][i] \in Rows' /\ thread'[queue'[d][i]].cell = d
  BY <1>1, <1>4, QueueSame
<1>6. RegistryOK' /\ OpInv' BY <1>1, <1>4, <1>5, RegistryKept
<1>7. sched # None /\ sched.cell = c => c \notin flight /\ job[c] \in Job /\ job[c].eturn = None
  BY DEF Typed, JobsInv
<1>8. engine'[c] \in AdapterRow BY DEF Only
<1>9. \A d \in Cells \ {c} : job'[d] = job[d] /\ engine'[d] = engine[d] BY <1>1 DEF Only
<1>10. job'[c] = None \/ (job[c] # None /\ job'[c].thread = job[c].thread /\ job'[c].n = job[c].n)
  BY <1>1
<1>11. CASE UNCHANGED <<sched, flight>>
  <2>1. c \in flight' => job'[c] \in Job BY <1>1, <1>11 DEF Typed, JobsInv
  <2>2. sched # None /\ sched.cell = c /\ sched.at \in {"resuming", "starting"} =>
          engine'[c].kind = "codex"
    BY DEF Typed, JobsInv
  <2>3. JobsInv'
    BY <1>1, <1>3, <1>4, <1>5, <1>7, <1>8, <1>9, <1>10, <1>11, <2>1, <2>2, JobsStep
  <2> QED BY <1>3, <1>6, <2>3 DEF Typed
<1>12. CASE sched # None /\ sched.cell = c /\ flight' = flight \cup {c} /\ sched' = None
  <2>1. job'[c] \in Job BY <1>1, <1>7, <1>12
  <2>2. JobsInv' BY <1>1, <1>3, <1>4, <1>5, <1>8, <1>9, <1>10, <1>12, <2>1, JobsStep
  <2> QED BY <1>3, <1>6, <2>2 DEF Typed
<1>13. CASE /\ sched # None /\ sched.cell = c /\ UNCHANGED flight
            /\ \E at : /\ sched' = [cell |-> c, at |-> at]
                       /\ at \in {"resuming", "starting"} => engine[c].kind = "codex"
  <2>1. c \notin flight' BY <1>7, <1>13
  <2>2. sched'.at \in {"resuming", "starting"} => engine'[c].kind = "codex" BY <1>13
  <2>3. \E at : sched' = [cell |-> c, at |-> at] BY <1>13
  <2>4. JobsInv'
    BY <1>1, <1>3, <1>4, <1>5, <1>8, <1>9, <1>10, <1>13, <2>1, <2>2, <2>3, JobsStep
  <2> QED BY <1>3, <1>6, <2>4 DEF Typed
<1> QED BY <1>11, <1>12, <1>13

(* The turn of cell c is over, and the scheduler starts none there.        *)
LEMMA EndedTyped ==
  ASSUME Typed, NEW c \in Cells, job[c] # None, Finish(c) \/ FinishOrRequeue(c),
         \/ UNCHANGED thread
         \/ \E s \in Active \cup Terminal \cup {"idle"} : SetState(job[c].thread, s),
         UNCHANGED <<cells, bound, worktree, call, op, audit, owner, convs>>,
         finals' \subseteq Nat,
         (\E kind \in Env : Fault(kind)) \/ UNCHANGED faults,
         \/ UNCHANGED engine
         \/ engine' = [engine EXCEPT ![c] = None]
         \/ /\ Only(c) /\ engine'[c].kind = engine[c].kind
            /\ engine[c].kind = "codex" =>
                 \A i \in 1..Len(engine'[c].inq) : engine'[c].inq[i].id \in Nat,
         flight' = flight \ {c},
         sched' = None
  PROVE  Typed'
<1>1. /\ TableOK
      /\ job' = [job EXCEPT ![c] = None] /\ job' \in [Cells -> Maybe(Job)]
      /\ queue' \in [Cells -> Seq(Requests)]
      /\ \A d \in Cells : \A i \in 1..Len(queue'[d]) :
              queue'[d][i] \in Rows' /\ thread'[queue'[d][i]].cell = d
  BY TurnEnds
<1>2. RegistryOK' /\ OpInv' BY <1>1, RegistryKept
<1>3. /\ engine' \in [Cells -> Maybe(AdapterRow)]
      /\ \A d \in Cells : engine'[d] # None /\ engine'[d].kind = "codex" =>
              \A i \in 1..Len(engine'[d].inq) : engine'[d].inq[i].id \in Nat
      /\ \A d \in Cells \ {c} : engine'[d] = engine[d]
  <2>1. CASE UNCHANGED engine BY <2>1 DEF Typed, EnginesOK
  <2>2. CASE engine' = [engine EXCEPT ![c] = None] BY <2>2 DEF Typed, EnginesOK, Maybe
  <2>3. CASE /\ Only(c) /\ engine'[c].kind = engine[c].kind
             /\ engine[c].kind = "codex" =>
                 \A i \in 1..Len(engine'[c].inq) : engine'[c].inq[i].id \in Nat
    BY <2>3, CallIds DEF Only
  <2> QED BY <2>1, <2>2, <2>3
<1>4. EnginesOK' BY <1>1, <1>3 DEF Typed, EnginesOK
<1>5. /\ c \notin flight' /\ flight' \in {flight, flight \cup {c}, flight \ {c}}
      /\ job'[c] = None /\ \A d \in Cells \ {c} : job'[d] = job[d]
  BY <1>1 DEF Typed, EnginesOK
<1>6. JobsInv' BY <1>1, <1>3, <1>4, <1>5, JobsStep
<1> QED BY <1>2, <1>4, <1>6 DEF Typed

(* What each step on a cell makes of its adapter, whatever the step is.    *)
LEMMA SameOnly == ASSUME Typed, NEW c \in Cells, engine[c] # None, UNCHANGED engine
                  PROVE  Only(c) /\ engine[c] \in AdapterRow
  BY DEF Typed, EnginesOK, Only, Maybe

LEMMA LeaseTyped == ASSUME Typed, NEW c \in Cells, Lease(c) PROVE Typed'
<1>1. PICK r : r = Head(queue[c]) OBVIOUS
<1>2. r \in Rows /\ thread[r].cell = c /\ queue[c] # <<>> /\ queue[c] \in Seq(Requests)
      /\ r = queue[c][1]
  BY <1>1 DEF Lease, Typed, RegistryOK, JobsInv
<1>3. SetState(r, "running") /\ owner' = Append(owner, r) BY <1>1 DEF Lease
<1>4. TableOK BY <1>2, <1>3, TableSet DEF Active
<1>5. /\ queue' \in [Cells -> Seq(Requests)]
      /\ \A d \in Cells : \A i \in 1..Len(queue'[d]) :
              queue'[d][i] \in Rows' /\ thread'[queue'[d][i]].cell = d
  <2>1. queue \in [Cells -> Seq(Requests)] /\ queue' = [queue EXCEPT ![c] = Tail(@)]
    BY DEF Lease, Typed, RegistryOK
  <2>2. /\ queue'[c] = Tail(queue[c]) /\ \A d \in Cells \ {c} : queue'[d] = queue[d]
        /\ queue' \in [Cells -> Seq(Requests)]
    BY <1>2, <2>1
  <2>3. \A i \in 1..Len(queue'[c]) : i + 1 \in 1..Len(queue[c]) /\ queue'[c][i] = queue[c][i + 1]
    BY <1>2, <2>2
  <2>4. \A d \in Cells : \A i \in 1..Len(queue[d]) :
          queue[d][i] \in Rows /\ thread[queue[d][i]].cell = d
    BY DEF Typed, JobsInv
  <2>5. ASSUME NEW d \in Cells, NEW i \in 1..Len(queue'[d])
        PROVE  queue'[d][i] \in Rows /\ thread[queue'[d][i]].cell = d
    <3>1. CASE d = c BY <2>3, <2>4, <3>1
    <3>2. CASE d # c BY <2>2, <2>4, <3>2
    <3> QED BY <3>1, <3>2
  <2>6. \A q \in Rows : q \in Rows' /\ thread'[q].cell = thread[q].cell BY <1>4 DEF TableOK
  <2> QED BY <2>2, <2>5, <2>6
<1>6. UNCHANGED <<cells, worktree, bound, call, op, audit, faults, engine, flight, convs, finals>>
  BY DEF Lease
<1>7. RegistryOK' /\ OpInv' BY <1>4, <1>5, <1>6, RegistryKept
<1>8. PICK x : x = [thread |-> r, n |-> Len(owner) + 1, eturn |-> None] OBVIOUS
<1>9. owner \in Seq(Requests) /\ r \in Requests BY <1>2 DEF Typed, EnginesOK, Rows
<1>10. /\ x \in Job /\ x.thread = r /\ x.n = Len(owner) + 1 /\ x.eturn = None
       /\ job' = [job EXCEPT ![c] = x]
  BY <1>1, <1>8, <1>9 DEF Lease, Job, Maybe
<1>11. /\ job' \in [Cells -> Maybe(Job)] /\ job'[c] = x /\ \A d \in Cells \ {c} : job'[d] = job[d]
  BY <1>10 DEF Typed, EnginesOK, Maybe
<1>12. owner' \in Seq(Requests) BY <1>3, <1>9
<1>13. EnginesOK' BY <1>6, <1>11, <1>12 DEF Typed, EnginesOK
<1>14. /\ Len(owner') = Len(owner) + 1 /\ owner'[Len(owner) + 1] = r
       /\ \A n \in 1..Len(owner) : owner'[n] = owner[n]
  BY <1>3, <1>9
<1>15. \A q \in Rows : q \in Rows' /\ thread'[q].cell = thread[q].cell BY <1>4 DEF TableOK
<1>16. ASSUME NEW n \in 1..Len(owner') PROVE owner'[n] \in Rows'
  BY <1>2, <1>9, <1>14, <1>15 DEF Typed, JobsInv
<1>17. ASSUME NEW d \in Cells, job'[d] # None
       PROVE  /\ job'[d].n \in 1..Len(owner') /\ owner'[job'[d].n] = job'[d].thread
              /\ thread'[job'[d].thread].cell = d
  <2>1. CASE d = c BY <1>2, <1>9, <1>10, <1>11, <1>14, <1>15, <2>1
  <2>2. CASE d # c
    <3>1. job'[d] = job[d] /\ job[d] # None BY <1>11, <1>17, <2>2
    <3>2. /\ job[d].thread \in Rows /\ thread[job[d].thread].cell = d
          /\ job[d].n \in 1..Len(owner) /\ owner[job[d].n] = job[d].thread
      BY <3>1, JobRow
    <3> QED BY <1>9, <1>14, <1>15, <3>1, <3>2
  <2> QED BY <2>1, <2>2
<1>18. c \notin flight BY DEF Lease
<1>19. \A d \in flight' : job'[d] \in Job /\ engine'[d] \in AdapterRow
  BY <1>6, <1>11, <1>18 DEF Typed, JobsInv, EnginesOK
<1>20. PICK y : y = [cell |-> c, at |-> "ensure"] OBVIOUS
<1>21. sched' = y /\ y.cell = c /\ y.at = "ensure" BY <1>20 DEF Lease, Goto
<1>22. JobsInv'
  BY <1>5, <1>6, <1>10, <1>11, <1>16, <1>17, <1>18, <1>19, <1>21 DEF JobsInv
<1> QED BY <1>7, <1>13, <1>22 DEF Typed

(* The definition the scheduler starts from.                               *)
LEMMA DefKind == ASSUME Typed, NEW c \in Cells, job[c] # None PROVE Def(c) \in EngineKind
<1>1. PICK r \in Rows : r = job[c].thread /\ thread[r].cell = c BY JobRow
<1>2. thread[r] # None /\ thread[r] \in ThreadRow BY <1>1, RegistryAssumption DEF Rows
<1>3. TargetOK(thread[r], r) BY <1>1, <1>2 DEF Typed, RegistryOK, CallsOK, Rows
<1>4. CASE c = Named
  BY <1>1, <1>3, <1>4, RegistryAssumption DEF TargetOK, Def, Typed, RegistryOK, Maybe
<1>5. CASE c # Named BY <1>1, <1>2, <1>3, <1>5 DEF TargetOK, Def, ThreadRow
<1> QED BY <1>4, <1>5

LEMMA AtJob ==
  ASSUME Typed, NEW c \in Cells, NEW step, At(c, step)
  PROVE  /\ sched # None /\ sched.cell = c /\ c \notin flight /\ job[c] # None
         /\ job[c] \in Job /\ job[c].eturn = None
         /\ step # "ensure" => engine[c] \in AdapterRow /\ engine[c] # None
         /\ step \in {"resuming", "starting"} => engine[c].kind = "codex"
<1>1. job[c] \in Job /\ sched # None /\ sched.cell = c BY DEF At, Typed, JobsInv
<1>2. job[c] # None BY <1>1, EnginesAssumption
<1>3. step # "ensure" => engine[c] \in AdapterRow BY DEF At, Typed, JobsInv
<1>4. engine[c] \in AdapterRow => engine[c] # None BY EnginesAssumption
<1> QED BY <1>1, <1>2, <1>3, <1>4 DEF At, Typed, JobsInv

LEMMA FlightAdapter ==
  ASSUME Typed, NEW c \in Cells, c \in flight
  PROVE  /\ engine[c] \in AdapterRow /\ engine[c] # None /\ job[c] \in Job /\ job[c] # None
         /\ sched # None => sched.cell # c
  BY EnginesAssumption DEF Typed, JobsInv

(* The first response is one. *)
LEMMA Responses ==
  ASSUME Typed, NEW c \in Cells, engine[c] \in AdapterRow, engine[c].resp # <<>>
  PROVE  /\ Head(engine[c].resp) = engine[c].resp[1] /\ 1 \in 1..Len(engine[c].resp)
         /\ Head(engine[c].resp) \in [id : Nat, ok : BOOLEAN, n : Nat, conv : Conversation]
<1>1. engine[c].resp \in Seq([id : Nat, ok : BOOLEAN, n : Nat, conv : Conversation])
  BY DEF AdapterRow
<1>2. PICK p, S : p = engine[c].resp /\ S = [id : Nat, ok : BOOLEAN, n : Nat, conv : Conversation]
  OBVIOUS
<1>3. p \in Seq(S) /\ p # <<>> BY <1>1, <1>2
<1>4. Head(p) = p[1] /\ 1 \in 1..Len(p) /\ Head(p) \in S BY <1>3
<1> QED BY <1>2, <1>4

LEMMA EnsureTyped == ASSUME Typed, NEW c \in Cells, ensure(c) PROVE Typed'
<1>1. At(c, "ensure") BY DEF ensure
<1>2. sched # None /\ sched.cell = c /\ c \notin flight /\ job[c] \in Job /\ job[c] # None
      /\ job[c].eturn = None
  BY <1>1, AtJob
<1>3. UNCHANGED <<registry, faults, job, flight, owner, finals>> BY DEF ensure
<1>4. sched' = [cell |-> c, at |-> "resume"] BY DEF ensure, Goto
<1>5. CASE engine[c] # None /\ UNCHANGED <<engine, convs>>
  <2>1. convs' \in Seq(ConvRow) BY <1>5 DEF Typed, EnginesOK, ConvRow
  <2>2. Only(c) /\ engine[c] \in AdapterRow BY <1>5, SameOnly
  <2>3. engine[c].kind = "codex" => \A i \in 1..Len(engine'[c].inq) : engine'[c].inq[i].id \in Nat
    BY <1>5 DEF Typed, EnginesOK
  <2> QED BY <1>2, <1>3, <1>4, <1>5, <2>1, <2>2, <2>3, AdapterTyped
<1>6. ASSUME NEW k \in EngineKind, NEW v \in Conversation,
             engine' = [engine EXCEPT ![c] = Adapter(k, v)], convs' \in Seq(ConvRow)
      PROVE  Typed'
  <2>1. Only(c) /\ engine'[c].inq = <<>> BY <1>6, FreshShape
  <2>2. EnginesOK' BY <1>3, <1>6, <2>1 DEF Typed, EnginesOK, ConvRow, Only
  <2>3. /\ UNCHANGED <<cells, thread, bound, worktree, queue, call, op, audit, job, owner>>
    BY <1>3 DEF registry, rows
  <2>4. TableOK BY <2>3, TableSame
  <2>5. /\ queue' \in [Cells -> Seq(Requests)]
        /\ \A d \in Cells : \A i \in 1..Len(queue'[d]) :
              queue'[d][i] \in Rows' /\ thread'[queue'[d][i]].cell = d
    BY <2>3, <2>4, QueueSame
  <2>6. RegistryOK' /\ OpInv' BY <1>3, <2>3, <2>4, <2>5, RegistryKept
  <2>7. /\ engine'[c] \in AdapterRow
        /\ \A d \in Cells \ {c} : job'[d] = job[d] /\ engine'[d] = engine[d]
    BY <2>1, <2>3 DEF Only
  <2>8. sched'.at = "resume" /\ \E at : sched' = [cell |-> c, at |-> at] BY <1>4
  <2>9. JobsInv' BY <1>2, <1>3, <2>2, <2>3, <2>4, <2>5, <2>7, <2>8, JobsStep
  <2> QED BY <2>2, <2>6, <2>9 DEF Typed
<1>7. CASE engine[c] = None /\ Def(c) = "claude"
  <2>1. engine' = [engine EXCEPT ![c] = Adapter("claude", None)] /\ UNCHANGED convs
    BY <1>7 DEF ensure
  <2>2. convs' \in Seq(ConvRow) BY <2>1 DEF Typed, EnginesOK, ConvRow
  <2> QED BY <1>6, <2>1, <2>2 DEF EngineKind, Conversation
<1>8. CASE engine[c] = None /\ Def(c) # "claude"
  <2>1. /\ engine' = [engine EXCEPT ![c] = Adapter(Def(c), Len(convs) + 1)]
        /\ convs' = Append(convs, [kind |-> Def(c), turns |-> <<>>])
    BY <1>8 DEF ensure
  <2>2. Def(c) \in EngineKind BY <1>2, DefKind
  <2>3. convs \in Seq(ConvRow) BY DEF Typed, EnginesOK, ConvRow
  <2>4. [kind |-> Def(c), turns |-> <<>>] \in ConvRow BY <2>2 DEF ConvRow
  <2>5. convs' \in Seq(ConvRow) /\ Len(convs) + 1 \in Nat BY <2>1, <2>3, <2>4
  <2> QED BY <1>6, <2>1, <2>2, <2>5 DEF Conversation
<1> QED BY <1>5, <1>7, <1>8 DEF ensure

LEMMA ResumeTyped == ASSUME Typed, NEW c \in Cells, maybe_resume(c) PROVE Typed'
<1>1. At(c, "resume") BY DEF maybe_resume
<1>2. sched # None /\ sched.cell = c /\ c \notin flight /\ job[c] # None /\ job[c] \in Job
      /\ engine[c] \in AdapterRow /\ engine[c] # None
  BY <1>1, AtJob
<1>3. UNCHANGED <<registry, faults, job, flight, owner, convs, finals>> BY DEF maybe_resume
<1>4. convs' \in Seq(ConvRow) BY <1>3 DEF Typed, EnginesOK, ConvRow
<1>5. PICK t : t = thread[job[c].thread] OBVIOUS
<1>6. t.ethread \in Conversation /\ t.esession \in Conversation
  BY <1>2, <1>5, JobRow DEF Rows, ThreadRow, Conversation
<1>7. engine[c].kind = "codex" => \A i \in 1..Len(engine[c].inq) : engine[c].inq[i].id \in Nat
  BY <1>2 DEF Typed, EnginesOK
<1>8. CASE Request(c, "resume", 0, t.ethread) /\ Goto(c, "resuming") /\ engine[c].kind = "codex"
  <2>1. /\ Only(c) /\ engine'[c].kind = engine[c].kind
        /\ engine'[c].inq = Append(engine[c].inq,
             [id |-> engine[c].id + 1, what |-> "resume", n |-> 0, conv |-> t.ethread])
    BY <1>2, <1>6, <1>8, RequestShape DEF Only
  <2>2. engine[c].inq \in Seq(Message) /\ engine[c].id \in Nat BY <1>2 DEF AdapterRow
  <2>3. \A i \in 1..Len(engine'[c].inq) : engine'[c].inq[i].id \in Nat
    BY <1>7, <1>8, <2>1, <2>2
  <2>4. \E at : /\ sched' = [cell |-> c, at |-> at]
                /\ at \in {"resuming", "starting"} => engine[c].kind = "codex"
    BY <1>8 DEF Goto
  <2> QED BY <1>2, <1>3, <1>4, <2>1, <2>3, <2>4, AdapterTyped
<1>9. CASE engine' \in {engine, [engine EXCEPT ![c].resume = t.esession]} /\ Goto(c, "turn")
  <2>1. Only(c) /\ engine'[c].kind = engine[c].kind /\ engine'[c].inq = engine[c].inq
    <3>1. CASE UNCHANGED engine BY <1>2, <3>1 DEF Typed, EnginesOK, Only
    <3>2. CASE engine' = [engine EXCEPT ![c].resume = t.esession]
      BY <1>2, <1>6, <3>2, ResumeNoted DEF Only
    <3> QED BY <1>9, <3>1, <3>2
  <2>2. engine[c].kind = "codex" => \A i \in 1..Len(engine'[c].inq) : engine'[c].inq[i].id \in Nat
    BY <1>7, <2>1
  <2>3. \E at : /\ sched' = [cell |-> c, at |-> at]
                /\ at \in {"resuming", "starting"} => engine[c].kind = "codex"
    BY <1>9 DEF Goto
  <2> QED BY <1>2, <1>3, <1>4, <2>1, <2>2, <2>3, AdapterTyped
<1> QED BY <1>5, <1>8, <1>9 DEF maybe_resume

(* Responses: skipped, taken, not there.                                   *)
LEMMA AnswersTyped ==
  ASSUME Typed, NEW c \in Cells,
         SkipResponse(c) \/ resume_thread(c) \/ ResumeFails(c) \/ StartAcked(c)
  PROVE  Typed'
<1>1. At(c, "resuming") \/ At(c, "starting")
  BY DEF SkipResponse, resume_thread, ResumeFails, StartAcked
<1>2. sched # None /\ sched.cell = c /\ c \notin flight /\ engine[c] \in AdapterRow
      /\ engine[c].kind = "codex" /\ engine[c] # None
  BY <1>1, AtJob
<1>3. UNCHANGED <<registry, job, owner, convs, finals>>
  BY DEF SkipResponse, resume_thread, ResumeFails, StartAcked
<1>4. convs' \in Seq(ConvRow) BY <1>3 DEF Typed, EnginesOK, ConvRow
<1>5. \A i \in 1..Len(engine[c].inq) : engine[c].inq[i].id \in Nat
  BY <1>2 DEF Typed, EnginesOK
<1>6. (\E kind \in Env : Fault(kind)) \/ UNCHANGED faults
  BY DEF SkipResponse, resume_thread, ResumeFails, StartAcked, CallFails, Fault
<1>7. CASE SkipResponse(c)
  <2>1. Only(c) /\ engine'[c].kind = engine[c].kind /\ engine'[c].inq = engine[c].inq
    BY <1>2, <1>7, RespSkipped DEF SkipResponse, Only
  <2>2. UNCHANGED <<sched, flight>> BY <1>7 DEF SkipResponse
  <2> QED BY <1>2, <1>3, <1>4, <1>5, <1>6, <2>1, <2>2, AdapterTyped
<1>8. CASE resume_thread(c)
  <2>1. PICK v \in Conversation :
          engine' = [engine EXCEPT ![c].conv = v, ![c].resp = Tail(engine[c].resp)]
    <3>1. engine[c].conv \in Conversation /\ Head(engine[c].resp).conv \in Conversation
      BY <1>2, <1>8, Responses DEF AdapterRow, resume_thread
    <3> QED BY <1>8, <3>1 DEF resume_thread
  <2>2. Only(c) /\ engine'[c].kind = engine[c].kind /\ engine'[c].inq = engine[c].inq
    <3>1. engine[c].resp # <<>> BY <1>8 DEF resume_thread
    <3> QED BY <1>2, <2>1, <3>1, RespTaken DEF Only
  <2>3. UNCHANGED flight /\ \E at : /\ sched' = [cell |-> c, at |-> at]
                                    /\ at \in {"resuming", "starting"} => engine[c].kind = "codex"
    BY <1>2, <1>8 DEF resume_thread, Goto
  <2> QED BY <1>2, <1>3, <1>4, <1>5, <1>6, <2>2, <2>3, AdapterTyped
<1>9. CASE ResumeFails(c)
  <2>1. Only(c) /\ engine' = engine BY <1>2, <1>9 DEF ResumeFails, Typed, EnginesOK, Only
  <2>2. UNCHANGED flight /\ \E at : /\ sched' = [cell |-> c, at |-> at]
                                    /\ at \in {"resuming", "starting"} => engine[c].kind = "codex"
    BY <1>2, <1>9 DEF ResumeFails, Goto
  <2> QED BY <1>2, <1>3, <1>4, <1>5, <1>6, <2>1, <2>2, AdapterTyped
<1>10. CASE StartAcked(c)
  <2>1. Head(engine[c].resp).n \in Nat BY <1>2, <1>10, Responses DEF StartAcked
  <2>2. Only(c) /\ engine'[c].kind = engine[c].kind /\ engine'[c].inq = engine[c].inq
    BY <1>2, <1>10, <2>1, AckShape DEF StartAcked, Only
  <2>3. flight' = flight \cup {c} /\ sched' = None BY <1>10 DEF StartAcked
  <2> QED BY <1>2, <1>3, <1>4, <1>5, <1>6, <2>2, <2>3, AdapterTyped
<1> QED BY <1>7, <1>8, <1>9, <1>10

LEMMA StartTyped == ASSUME Typed, NEW c \in Cells, start_turn(c) PROVE Typed'
<1>1. At(c, "turn") BY DEF start_turn
<1>2. sched # None /\ sched.cell = c /\ c \notin flight /\ job[c] \in Job
      /\ engine[c] \in AdapterRow /\ engine[c] # None
  BY <1>1, AtJob
<1>3. UNCHANGED <<registry, faults, job, owner, convs, finals>> BY DEF start_turn
<1>4. convs' \in Seq(ConvRow) BY <1>3 DEF Typed, EnginesOK, ConvRow
<1>5. engine[c].kind = "codex" => \A i \in 1..Len(engine[c].inq) : engine[c].inq[i].id \in Nat
  BY <1>2 DEF Typed, EnginesOK
<1>6. CASE engine[c].kind = "codex"
  <2>1. Request(c, "turn", job[c].n, engine[c].conv) BY <1>6 DEF start_turn
  <2>2. job[c].n \in Nat /\ engine[c].conv \in Conversation BY <1>2 DEF Job, AdapterRow
  <2>3. /\ Only(c) /\ engine'[c].kind = engine[c].kind
        /\ engine'[c].inq = Append(engine[c].inq,
             [id |-> engine[c].id + 1, what |-> "turn", n |-> job[c].n, conv |-> engine[c].conv])
    BY <1>2, <2>1, <2>2, RequestShape DEF Only
  <2>4. engine[c].inq \in Seq(Message) /\ engine[c].id \in Nat BY <1>2 DEF AdapterRow
  <2>5. \A i \in 1..Len(engine'[c].inq) : engine'[c].inq[i].id \in Nat
    BY <1>5, <1>6, <2>3, <2>4
  <2>6. \E at : /\ sched' = [cell |-> c, at |-> at]
                /\ at \in {"resuming", "starting"} => engine[c].kind = "codex"
    BY <1>6 DEF Goto, start_turn
  <2>7. UNCHANGED <<flight, faults>> BY <1>6 DEF start_turn
  <2>8. engine[c].kind = "codex" => \A i \in 1..Len(engine'[c].inq) : engine'[c].inq[i].id \in Nat
    BY <2>5
  <2>9. Only(c) /\ engine'[c].kind = engine[c].kind BY <2>3
  <2> QED BY <1>2, <1>3, <1>4, <2>6, <2>7, <2>8, <2>9, AdapterTyped
<1>7. CASE engine[c].kind # "codex"
  <2>1. Only(c) /\ engine'[c].kind = engine[c].kind
    BY <1>2, <1>7, PromptShape DEF start_turn, Only
  <2>2. flight' = flight \cup {c} /\ sched' = None BY <1>7 DEF start_turn
  <2> QED BY <1>2, <1>3, <1>4, <1>7, <2>1, <2>2, AdapterTyped
<1> QED BY <1>6, <1>7

(* The first message is one, and what follows it are messages as before.   *)
LEMMA Messages ==
  ASSUME Typed, NEW c \in Cells, engine[c] \in AdapterRow, engine[c].inq # <<>>
  PROVE  /\ Head(engine[c].inq) = engine[c].inq[1] /\ 1 \in 1..Len(engine[c].inq)
         /\ Head(engine[c].inq) \in Message
         /\ Head(engine[c].inq).n \in Nat /\ Head(engine[c].inq).conv \in Conversation
         /\ engine[c].kind = "codex" => Head(engine[c].inq).id \in Nat
         /\ \A i \in 1..Len(Tail(engine[c].inq)) :
              i + 1 \in 1..Len(engine[c].inq) /\ Tail(engine[c].inq)[i] = engine[c].inq[i + 1]
         /\ Len(Tail(engine[c].inq)) = Len(engine[c].inq) - 1
<1>1. engine[c].inq \in Seq(Message) BY DEF AdapterRow
<1>2. PICK p : p = engine[c].inq OBVIOUS
<1>3. p \in Seq(Message) /\ p # <<>> BY <1>1, <1>2
<1>4. Head(p) = p[1] /\ 1 \in 1..Len(p) /\ Head(p) \in Message BY <1>3
<1>5. /\ \A i \in 1..Len(Tail(p)) : i + 1 \in 1..Len(p) /\ Tail(p)[i] = p[i + 1]
      /\ Len(Tail(p)) = Len(p) - 1
  BY <1>3
<1>6. Head(p).n \in Nat /\ Head(p).conv \in Conversation BY <1>4 DEF Message
<1>7. engine[c] # None BY EnginesAssumption
<1>8. engine[c].kind = "codex" => engine[c].inq[1].id \in Nat
  BY <1>2, <1>4, <1>7 DEF Typed, EnginesOK
<1> QED BY <1>2, <1>4, <1>5, <1>6, <1>8

LEMMA TailIds ==
  ASSUME Typed, NEW c \in Cells, engine[c] \in AdapterRow, engine[c].inq # <<>>,
         engine'[c].inq = Tail(engine[c].inq)
  PROVE  engine[c].kind = "codex" =>
           \A i \in 1..Len(engine'[c].inq) : engine'[c].inq[i].id \in Nat
  BY Messages, EnginesAssumption DEF Typed, EnginesOK

LEMMA SameIds ==
  ASSUME Typed, NEW c \in Cells, engine[c] \in AdapterRow, engine'[c].inq = engine[c].inq
  PROVE  engine[c].kind = "codex" =>
           \A i \in 1..Len(engine'[c].inq) : engine'[c].inq[i].id \in Nat
  BY EnginesAssumption DEF Typed, EnginesOK

(* A conversation grows. *)
LEMMA Extended ==
  ASSUME Typed, NEW v, NEW n \in Nat
  PROVE  /\ Extend(v, n) \in Seq(ConvRow) /\ Len(Extend(v, n)) = Len(convs)
         /\ \A i \in 1..Len(convs) : Extend(v, n)[i].kind = convs[i].kind
         /\ \A i \in 1..Len(convs) : i # v => Extend(v, n)[i] = convs[i]
         /\ v \in 1..Len(convs) => Extend(v, n)[v].turns = Append(convs[v].turns, n)
<1>1. convs \in Seq(ConvRow) BY DEF Typed, EnginesOK, ConvRow
<1>2. CASE v \in 1..Len(convs)
  <2>1. convs[v] \in ConvRow BY <1>1, <1>2
  <2>2. PICK x : x = [convs[v] EXCEPT !.turns = Append(@, n)] OBVIOUS
  <2>3. x \in ConvRow /\ x.kind = convs[v].kind /\ x.turns = Append(convs[v].turns, n)
    <3>1. convs[v].turns \in Seq(Nat) BY <2>1 DEF ConvRow
    <3>2. Append(convs[v].turns, n) \in Seq(Nat) BY <3>1
    <3> QED BY <2>1, <2>2, <3>2 DEF ConvRow
  <2>4. Extend(v, n) = [convs EXCEPT ![v] = x] BY <2>2 DEF Extend
  <2> QED BY <1>1, <1>2, <2>3, <2>4
<1>3. CASE v \notin 1..Len(convs)
  <2>1. Extend(v, n) = convs BY <1>1, <1>3 DEF Extend
  <2> QED BY <1>1, <1>3, <2>1
<1> QED BY <1>2, <1>3

(* Steps of an engine process.                                             *)
LEMMA ProcessTyped ==
  ASSUME Typed, NEW c \in Cells,
         \/ CodexTakes(c) \/ PromptTaken(c) \/ PromptRefused(c) \/ Interrupted(c)
         \/ EngineEnds(c) \/ Dies(c)
  PROVE  Typed'
<1>1. engine[c] # None /\ engine[c] \in AdapterRow
  BY HasAdapter DEF CodexTakes, PromptTaken, PromptRefused, Interrupted, EngineEnds, Dies
<1>2. UNCHANGED <<registry, job, owner, finals, flight, sched>>
  BY DEF CodexTakes, PromptTaken, PromptRefused, Interrupted, EngineEnds, Dies
<1>3. convs \in Seq(ConvRow) BY DEF Typed, EnginesOK, ConvRow
<1>4. (\E kind \in Env : Fault(kind)) \/ UNCHANGED faults
  BY DEF CodexTakes, PromptTaken, PromptRefused, Interrupted, EngineEnds, Dies, Fault
<1>5. CASE CodexTakes(c)
  <2>1. PICK q : q = Head(engine[c].inq) OBVIOUS
  <2>2. /\ engine[c].inq # <<>> /\ engine[c].kind = "codex"
        /\ \E ok \in BOOLEAN : Respond(c, Head(engine[c].inq), ok)
        /\ convs' \in {convs, Extend(q.conv, q.n)}
    BY <1>5, <2>1 DEF CodexTakes, Ready
  <2>3. q.id \in Nat /\ q.n \in Nat BY <1>1, <2>1, <2>2, Messages
  <2>4. Only(c) /\ engine'[c].kind = engine[c].kind /\ engine'[c].inq = Tail(engine[c].inq)
    BY <1>1, <2>1, <2>2, <2>3, RespondShape
  <2>5. convs' \in Seq(ConvRow) BY <1>3, <2>2, <2>3, Extended
  <2> QED BY <1>1, <1>2, <1>4, <2>2, <2>4, <2>5, TailIds, AdapterTyped
<1>6. CASE PromptTaken(c)
  <2>1. PICK q : q = Head(engine[c].inq) OBVIOUS
  <2>2. engine[c].inq # <<>> BY <1>6 DEF PromptTaken, Ready
  <2>3. q.n \in Nat /\ q.conv \in Conversation BY <1>1, <2>1, <2>2, Messages
  <2>4. PICK g : g = IF engine[c].kind = "pi" THEN engine[c].conv ELSE q.conv OBVIOUS
  <2>5. PICK v : v = IF g = None THEN Len(convs) + 1 ELSE g OBVIOUS
  <2>6. v \in Nat BY <1>1, <1>3, <2>3, <2>4, <2>5 DEF AdapterRow, Conversation
  <2>7. /\ engine' = [engine EXCEPT
                ![c].inq = Tail(@), ![c].run = [n |-> q.n, conv |-> v],
                ![c].out = Append(@, [what |-> "accepted", n |-> q.n])]
        /\ convs' = IF g = None THEN Append(convs, [kind |-> "claude", turns |-> <<q.n>>])
                    ELSE Extend(v, q.n)
    BY <1>6, <2>1, <2>4, <2>5 DEF PromptTaken
  <2>8. Only(c) /\ engine'[c].kind = engine[c].kind /\ engine'[c].inq = Tail(engine[c].inq)
    <3>1. PICK u, m : u = [n |-> q.n, conv |-> v] /\ m = [what |-> "accepted", n |-> q.n] OBVIOUS
    <3>2. u \in Run /\ m \in [what : {"accepted", "final", "failed"}, n : Nat]
      BY <2>3, <2>6, <3>1 DEF Run, Conversation
    <3>3. engine' = [engine EXCEPT ![c].inq = Tail(@), ![c].run = u, ![c].out = Append(@, m)]
      BY <2>7, <3>1
    <3> QED BY <1>1, <2>2, <3>2, <3>3, PromptTakenShape
  <2>9. convs' \in Seq(ConvRow)
    <3>1. PICK x : x = [kind |-> "claude", turns |-> <<q.n>>] OBVIOUS
    <3>2. x \in ConvRow BY <2>3, <3>1 DEF ConvRow, EngineKind
    <3>3. Append(convs, x) \in Seq(ConvRow) BY <1>3, <3>2
    <3> QED BY <2>3, <2>7, <3>1, <3>3, Extended
  <2> QED BY <1>1, <1>2, <1>4, <2>2, <2>8, <2>9, TailIds, AdapterTyped
<1>7. CASE PromptRefused(c)
  <2>1. engine[c].inq # <<>> /\ UNCHANGED convs BY <1>7 DEF PromptRefused, Ready
  <2>2. Only(c) /\ engine'[c].kind = engine[c].kind /\ engine'[c].inq = Tail(engine[c].inq)
    BY <1>1, <1>7, <2>1, Messages, RefuseShape DEF PromptRefused
  <2> QED BY <1>1, <1>2, <1>3, <1>4, <2>1, <2>2, TailIds, AdapterTyped
<1>8. CASE Interrupted(c)
  <2>1. engine[c].inq # <<>> /\ UNCHANGED convs BY <1>8 DEF Interrupted
  <2>2. Only(c) /\ engine'[c].kind = engine[c].kind /\ engine'[c].inq = Tail(engine[c].inq)
    BY <1>1, <1>8, <2>1, Messages, InterruptShape
  <2> QED BY <1>1, <1>2, <1>3, <1>4, <2>1, <2>2, TailIds, AdapterTyped
<1>9. CASE EngineEnds(c)
  <2>1. PICK ev \in {"final", "failed"}, s \in Conversation :
          engine' = [engine EXCEPT
            ![c].run = None, ![c].aborted = FALSE, ![c].session = s,
            ![c].out = Append(@, [what |-> ev, n |-> engine[c].run.n])]
    <3>1. engine[c].run \in Run /\ engine[c].session \in Conversation
      BY <1>1, <1>9 DEF EngineEnds, AdapterRow
    <3>2. engine[c].run.conv \in Conversation BY <3>1 DEF Run
    <3> QED BY <1>9, <3>1, <3>2 DEF EngineEnds, Ended
  <2>2. engine[c].run # None /\ UNCHANGED convs BY <1>9 DEF EngineEnds
  <2>3. Only(c) /\ engine'[c].kind = engine[c].kind /\ engine'[c].inq = engine[c].inq
    BY <1>1, <2>1, <2>2, EndShape
  <2> QED BY <1>1, <1>2, <1>3, <1>4, <2>2, <2>3, SameIds, AdapterTyped
<1>10. CASE Dies(c)
  <2>1. Only(c) /\ engine'[c].kind = engine[c].kind /\ engine'[c].inq = <<>>
    BY <1>1, <1>10, DiesShape
  <2>2. \A i \in 1..Len(engine'[c].inq) : engine'[c].inq[i].id \in Nat BY <2>1
  <2>3. convs' \in Seq(ConvRow) BY <1>3, <1>10 DEF Dies
  <2> QED BY <1>1, <1>2, <1>4, <2>1, <2>2, <2>3, AdapterTyped
<1> QED BY <1>5, <1>6, <1>7, <1>8, <1>9, <1>10

LEMMA SpawnFailsTyped == ASSUME Typed, NEW c \in Cells, SpawnFails(c) PROVE Typed'
<1>1. At(c, "ensure") BY DEF SpawnFails
<1>2. job[c] # None /\ c \notin flight BY <1>1, AtJob
<1>3. /\ Finish(c) /\ SetState(job[c].thread, "failed_unknown")
      /\ UNCHANGED <<cells, bound, worktree, call, op, audit, owner, convs, engine, finals, flight>>
      /\ sched' = None /\ Fault("spawnfail") /\ "spawnfail" \in Env
  BY DEF SpawnFails, Fault
<1>4. flight' = flight \ {c} /\ finals' \subseteq Nat BY <1>2, <1>3 DEF Typed, EnginesOK
<1> QED BY <1>2, <1>3, <1>4, EndedTyped DEF Terminal

LEMMA StartFailsTyped == ASSUME Typed, NEW c \in Cells, StartFails(c) PROVE Typed'
<1>1. At(c, "turn") \/ At(c, "starting") BY DEF StartFails
<1>2. job[c] # None /\ c \notin flight /\ engine[c] \in AdapterRow BY <1>1, AtJob
<1>3. /\ FinishOrRequeue(c) /\ SetState(job[c].thread, "failed_unknown")
      /\ UNCHANGED <<cells, bound, worktree, call, op, audit, owner, convs, finals, flight>>
      /\ sched' = None
  BY DEF StartFails, fail_turn
<1>8. (\E kind \in Env : Fault(kind)) \/ UNCHANGED faults
  BY DEF StartFails, CallFails, Fault
<1>9. UNCHANGED engine \/ (/\ engine[c].resp # <<>>
                           /\ engine' = [engine EXCEPT ![c].resp = Tail(engine[c].resp)])
  BY DEF StartFails
<1>4. flight' = flight \ {c} /\ finals' \subseteq Nat BY <1>2, <1>3 DEF Typed, EnginesOK
<1>7. ASSUME \/ UNCHANGED engine
             \/ /\ Only(c) /\ engine'[c].kind = engine[c].kind
                /\ engine[c].kind = "codex" =>
                     \A i \in 1..Len(engine'[c].inq) : engine'[c].inq[i].id \in Nat
      PROVE  Typed'
  <2>1. \E s \in Active \cup Terminal \cup {"idle"} : SetState(job[c].thread, s)
    BY <1>3 DEF Terminal
  <2> QED BY <1>2, <1>3, <1>4, <1>7, <1>8, <2>1, EndedTyped
<1>5. CASE UNCHANGED engine BY <1>5, <1>7
<1>6. CASE engine[c].resp # <<>> /\ engine' = [engine EXCEPT ![c].resp = Tail(engine[c].resp)]
  <2>1. Only(c) /\ engine'[c].kind = engine[c].kind /\ engine'[c].inq = engine[c].inq
    BY <1>2, <1>6, RespSkipped
  <2> QED BY <1>2, <1>7, <2>1, SameIds
<1> QED BY <1>5, <1>6, <1>9

(* The first event is one. *)
LEMMA Events ==
  ASSUME Typed, NEW c \in Cells, engine[c] \in AdapterRow, engine[c].out # <<>>
  PROVE  /\ Head(engine[c].out) = engine[c].out[1] /\ 1 \in 1..Len(engine[c].out)
         /\ Head(engine[c].out).n \in Nat
         /\ \A i \in 1..Len(Tail(engine[c].out)) :
              i + 1 \in 1..Len(engine[c].out) /\ Tail(engine[c].out)[i] = engine[c].out[i + 1]
         /\ Len(Tail(engine[c].out)) = Len(engine[c].out) - 1
<1>1. PICK p, S : p = engine[c].out /\ S = [what : {"accepted", "final", "failed"}, n : Nat]
  OBVIOUS
<1>2. p \in Seq(S) /\ p # <<>> BY <1>1 DEF AdapterRow
<1>3. Head(p) = p[1] /\ 1 \in 1..Len(p) /\ Head(p) \in S BY <1>2
<1>4. /\ \A i \in 1..Len(Tail(p)) : i + 1 \in 1..Len(p) /\ Tail(p)[i] = p[i + 1]
      /\ Len(Tail(p)) = Len(p) - 1
  BY <1>2
<1>5. Head(p).n \in Nat BY <1>1, <1>3
<1> QED BY <1>1, <1>3, <1>4, <1>5

LEMMA AcceptedTyped == ASSUME Typed, NEW c \in Cells, OnAccepted(c) PROVE Typed'
<1>1. /\ c \in flight /\ engine[c].out # <<>> /\ sched = None
      /\ UNCHANGED <<registry, faults, flight, sched, owner, convs, finals>>
      /\ job' = [job EXCEPT ![c].eturn = Head(engine[c].out).n]
      /\ engine' = [engine EXCEPT ![c].out = Tail(engine[c].out)]
  BY DEF OnAccepted, Event
<1>2. engine[c] \in AdapterRow /\ job[c] \in Job /\ job[c] # None BY <1>1, FlightAdapter
<1>3. Only(c) /\ engine'[c].kind = engine[c].kind /\ engine'[c].inq = engine[c].inq
  BY <1>1, <1>2, EventTaken
<1>4. PICK n : n = Head(engine[c].out).n OBVIOUS
<1>5. n \in Nat BY <1>1, <1>2, <1>4, Events
<1>6. PICK x : x = [job[c] EXCEPT !.eturn = n] OBVIOUS
<1>7. x \in Job /\ x.thread = job[c].thread /\ x.n = job[c].n BY <1>2, <1>5, <1>6 DEF Job
<1>8. /\ job' \in [Cells -> Maybe(Job)] /\ job'[c] = x /\ \A d \in Cells \ {c} : job'[d] = job[d]
  BY <1>1, <1>4, <1>6, <1>7 DEF Typed, EnginesOK, Maybe
<1>9. EnginesOK' BY <1>1, <1>2, <1>3, <1>8, SameIds, CallIds DEF Typed, EnginesOK
<1>10. /\ UNCHANGED <<cells, thread, bound, worktree, queue, call, op, audit>>
  BY <1>1 DEF registry, rows
<1>11. TableOK BY <1>10, TableSame
<1>12. /\ queue' \in [Cells -> Seq(Requests)]
       /\ \A d \in Cells : \A i \in 1..Len(queue'[d]) :
              queue'[d][i] \in Rows' /\ thread'[queue'[d][i]].cell = d
  BY <1>10, <1>11, QueueSame
<1>13. RegistryOK' /\ OpInv' BY <1>1, <1>10, <1>11, <1>12, RegistryKept
<1>14. \A d \in Cells \ {c} : job'[d] = job[d] /\ engine'[d] = engine[d] BY <1>3, <1>8 DEF Only
<1>15. engine'[c] \in AdapterRow BY <1>3 DEF Only
<1>16. JobsInv'
  BY <1>1, <1>2, <1>7, <1>8, <1>9, <1>11, <1>12, <1>14, <1>15, JobsStep
<1> QED BY <1>9, <1>13, <1>16 DEF Typed

LEMMA FinalRow ==
  ASSUME NEW t \in ThreadRow, NEW e \in AdapterRow
  PROVE  /\ Persisted(t, e) \in ThreadRow
         /\ Persisted(t, e).cell = t.cell /\ Persisted(t, e).kind = t.kind
         /\ Persisted(t, e).ethread = IF e.kind = "codex" THEN e.conv ELSE t.ethread
         /\ Persisted(t, e).esession =
              IF e.kind = "claude" /\ e.session # None THEN e.session ELSE t.esession
<1>1. PICK a : a = IF e.kind = "codex" THEN e.conv ELSE t.ethread OBVIOUS
<1>2. PICK b : b = IF e.kind = "claude" /\ e.session # None THEN e.session ELSE t.esession OBVIOUS
<1>3. a \in Conversation /\ b \in Conversation
  BY <1>1, <1>2 DEF ThreadRow, AdapterRow, Conversation
<1>4. PICK x : x = [t EXCEPT !.ethread = a, !.esession = b, !.state = "idle"] OBVIOUS
<1>5. Persisted(t, e) = x BY <1>1, <1>2, <1>4 DEF Persisted
<1>6. x \in ThreadRow /\ x.cell = t.cell /\ x.kind = t.kind /\ x.ethread = a /\ x.esession = b
  BY <1>3, <1>4 DEF ThreadRow, Conversation
<1> QED BY <1>1, <1>2, <1>5, <1>6

(* The threads after a final answer. *)
LEMMA FinalRows ==
  ASSUME Typed, NEW c \in Cells, OnFinal(c)
  PROVE  /\ TableOK /\ c \in flight /\ engine[c] \in AdapterRow /\ job[c].thread \in Rows
         /\ \A q \in Rows \ {job[c].thread} : thread'[q] = thread[q]
         /\ thread'[job[c].thread] = Persisted(thread[job[c].thread], engine[c])
<1>1. c \in flight BY DEF OnFinal, Event
<1>2. engine[c] \in AdapterRow /\ job[c] # None BY <1>1, FlightAdapter
<1>3. PICK r \in Rows : r = job[c].thread BY <1>2, JobRow
<1>4. PICK x : x = Persisted(thread[r], engine[c]) OBVIOUS
<1>5. /\ thread[r] \in ThreadRow /\ r \in Requests /\ thread \in [Requests -> Maybe(ThreadRow)]
      /\ thread' = [thread EXCEPT ![r] = x]
  BY <1>3, <1>4 DEF OnFinal, Rows, Typed, RegistryOK
<1>6. x \in ThreadRow /\ x.cell = thread[r].cell /\ x.kind = thread[r].kind
  BY <1>2, <1>4, <1>5, FinalRow
<1>7. x # None /\ thread[r] # None BY <1>5, <1>6, RegistryAssumption
<1>8. /\ thread' \in [Requests -> Maybe(ThreadRow)] /\ thread'[r] = x
      /\ \A q \in Requests \ {r} : thread'[q] = thread[q]
  BY <1>5, <1>6 DEF Maybe
<1>9. TableOK BY <1>5, <1>6, <1>7, <1>8 DEF TableOK, Rows
<1> QED BY <1>1, <1>2, <1>3, <1>4, <1>8, <1>9 DEF Rows

LEMMA FinalTyped == ASSUME Typed, NEW c \in Cells, OnFinal(c) PROVE Typed'
<1>1. /\ UNCHANGED <<cells, bound, worktree, call, op, audit, tasks, faults, sched, owner, convs>>
      /\ finals' = finals \cup {job[c].n} /\ job' = [job EXCEPT ![c] = None] /\ UNCHANGED queue
      /\ engine' = [engine EXCEPT ![c].out = <<>>] /\ flight' = flight \ {c} /\ sched = None
  BY DEF OnFinal, Finish, Event
<1>2. TableOK /\ engine[c] \in AdapterRow /\ c \in flight BY FinalRows
<1>3. job[c] \in Job BY <1>2, FlightAdapter
<1>4. /\ queue' \in [Cells -> Seq(Requests)]
      /\ \A d \in Cells : \A i \in 1..Len(queue'[d]) :
              queue'[d][i] \in Rows' /\ thread'[queue'[d][i]].cell = d
  BY <1>1, <1>2, QueueSame
<1>5. RegistryOK' /\ OpInv' BY <1>1, <1>2, <1>4, RegistryKept
<1>6. Only(c) /\ engine'[c].kind = engine[c].kind /\ engine'[c].inq = engine[c].inq
  BY <1>1, <1>2, EventsDropped
<1>7. finals' \subseteq Nat BY <1>1, <1>3 DEF Typed, EnginesOK, Job
<1>8. job' \in [Cells -> Maybe(Job)] BY <1>1 DEF Typed, EnginesOK, Maybe
<1>9. EnginesOK' BY <1>1, <1>2, <1>6, <1>7, <1>8, SameIds, CallIds DEF Typed, EnginesOK
<1>10. /\ \A d \in Cells \ {c} : job'[d] = job[d] /\ engine'[d] = engine[d]
       /\ job'[c] = None /\ c \notin flight'
  BY <1>1, <1>6 DEF Only, Typed, EnginesOK
<1>11. JobsInv' BY <1>1, <1>2, <1>4, <1>9, <1>10, JobsStep
<1> QED BY <1>5, <1>9, <1>11 DEF Typed

LEMMA FailedTyped ==
  ASSUME Typed, NEW c \in Cells, OnFailed(c) \/ Death(c) \/ Timeout(c) \/ LeaseExpires(c)
  PROVE  Typed'
<1>1. /\ UNCHANGED <<cells, bound, worktree, call, op, audit, owner, convs, finals>>
      /\ FinishOrRequeue(c) /\ sched' = None /\ flight' = flight \ {c}
      /\ (\E kind \in Env : Fault(kind)) \/ UNCHANGED faults
      /\ UNCHANGED thread \/ SetState(job[c].thread, "failed_unknown")
         \/ SetState(job[c].thread, "timeout")
  BY DEF OnFailed, Death, Timeout, LeaseExpires, Event, fail_turn, Fault
<1>2. job[c] # None BY FlightAdapter DEF OnFailed, Death, Timeout, LeaseExpires, Event
<1>3. finals' \subseteq Nat BY <1>1 DEF Typed, EnginesOK
<1>4. \/ UNCHANGED thread
      \/ \E s \in Active \cup Terminal \cup {"idle"} : SetState(job[c].thread, s)
  BY <1>1 DEF Terminal
<1>5. ASSUME \/ UNCHANGED engine
             \/ engine' = [engine EXCEPT ![c] = None]
             \/ /\ Only(c) /\ engine'[c].kind = engine[c].kind
                /\ engine[c].kind = "codex" =>
                     \A i \in 1..Len(engine'[c].inq) : engine'[c].inq[i].id \in Nat
      PROVE  Typed'
  BY <1>1, <1>2, <1>3, <1>4, <1>5, EndedTyped
<1>6. CASE OnFailed(c)
  <2>1. engine' = [engine EXCEPT ![c].out = <<>>] /\ c \in flight BY <1>6 DEF OnFailed, Event
  <2>2. engine[c] \in AdapterRow BY <2>1, FlightAdapter
  <2>3. Only(c) /\ engine'[c].kind = engine[c].kind /\ engine'[c].inq = engine[c].inq
    BY <2>1, <2>2, EventsDropped
  <2> QED BY <1>5, <2>2, <2>3, SameIds
<1>7. CASE Death(c) BY <1>5, <1>7 DEF Death
<1>8. CASE Timeout(c)
  <2>1. c \in flight /\ interrupt(c) BY <1>8 DEF Timeout
  <2>2. engine[c] \in AdapterRow /\ engine[c] # None BY <2>1, FlightAdapter
  <2>3. CASE engine[c].kind = "codex"
    <3>1. /\ Only(c) /\ engine'[c].kind = engine[c].kind
          /\ engine'[c].inq = Append(engine[c].inq,
               [id |-> engine[c].id + 1, what |-> "interrupt", n |-> 0, conv |-> None])
      BY <2>1, <2>2, <2>3, RequestShape DEF interrupt, Conversation
    <3>2. engine[c].inq \in Seq(Message) /\ engine[c].id \in Nat BY <2>2 DEF AdapterRow
    <3>3. \A i \in 1..Len(engine[c].inq) : engine[c].inq[i].id \in Nat
      BY <2>2, <2>3 DEF Typed, EnginesOK
    <3>4. \A i \in 1..Len(engine'[c].inq) : engine'[c].inq[i].id \in Nat
      BY <3>1, <3>2, <3>3
    <3> QED BY <1>5, <3>1, <3>4
  <2>4. CASE engine[c].kind # "codex"
    BY <1>5, <2>1, <2>2, <2>4, LineInterruptShape
  <2> QED BY <2>3, <2>4
<1>9. CASE LeaseExpires(c) BY <1>5, <1>9 DEF LeaseExpires
<1> QED BY <1>6, <1>7, <1>8, <1>9

LEMMA RecoveredRow ==
  ASSUME NEW t \in ThreadRow
  PROVE  /\ Recovered(t) \in ThreadRow /\ Recovered(t) # None
         /\ Recovered(t).cell = t.cell /\ Recovered(t).kind = t.kind
         /\ Recovered(t).ethread = t.ethread /\ Recovered(t).esession = t.esession
<1>1. t # None BY RegistryAssumption
<1>2. PICK s \in Active \cup Terminal \cup {"idle"} : Recovered(t) = [t EXCEPT !.state = s]
  BY <1>1 DEF Recovered, ThreadRow, Active, Terminal
<1>3. PICK x : x = [t EXCEPT !.state = s] OBVIOUS
<1>4. /\ x \in ThreadRow /\ x.cell = t.cell /\ x.kind = t.kind
      /\ x.ethread = t.ethread /\ x.esession = t.esession
  BY <1>3 DEF ThreadRow
<1> QED BY <1>2, <1>3, <1>4, RegistryAssumption

LEMMA RestartRows ==
  ASSUME Typed, Restart
  PROVE  /\ TableOK
         /\ \A q \in Rows : /\ thread'[q].ethread = thread[q].ethread
                            /\ thread'[q].esession = thread[q].esession
<1>1. thread' = [r \in Requests |-> Recovered(thread[r])] BY DEF Restart, RegistryRestart
<1>2. \A r \in Requests : thread[r] = None \/ thread[r] \in ThreadRow
  BY DEF Typed, RegistryOK, Maybe
<1>3. Recovered(None) = None BY DEF Recovered
<1>4. ASSUME NEW r \in Requests
      PROVE  \/ thread[r] = None /\ thread'[r] = None
             \/ /\ thread[r] \in ThreadRow /\ thread'[r] \in ThreadRow /\ thread'[r] # None
                /\ thread'[r].cell = thread[r].cell /\ thread'[r].kind = thread[r].kind
                /\ thread'[r].ethread = thread[r].ethread
                /\ thread'[r].esession = thread[r].esession
  BY <1>1, <1>2, <1>3, RecoveredRow
<1>5. None \notin ThreadRow BY RegistryAssumption
<1>6. TableOK BY <1>1, <1>4, <1>5 DEF TableOK, Rows, Maybe
<1> QED BY <1>4, <1>5, <1>6 DEF Rows

LEMMA RestartTyped == ASSUME Typed, Restart PROVE Typed'
<1>1. /\ UNCHANGED <<cells, bound, worktree, queue, audit, tasks, job, owner, convs, finals>>
      /\ op' = None /\ Fault("crash") /\ "crash" \in Env
      /\ engine' = [c \in Cells |-> None] /\ flight' = {} /\ sched' = None
  BY DEF Restart, RegistryRestart, Fault
<1>2. TableOK BY RestartRows
<1>3. CallsOK'
  <2>1. call' = [r \in Requests |-> IF call[r].at = "target"
                                   THEN [at |-> "done", answer |-> "error"] ELSE call[r]]
    BY DEF Restart, RegistryRestart
  <2>2. \A r \in Requests : call'[r] = IF call[r].at = "target"
                                   THEN [at |-> "done", answer |-> "error"] ELSE call[r]
    BY <2>1
  <2>3. [at |-> "done", answer |-> "error"].at = "done" OBVIOUS
  <2>4. \A r \in Requests : call'[r].at # "target" /\ (call[r].at = "done" => call'[r].at = "done")
    BY <2>2, <2>3
  <2>5. call' = [r \in Requests |-> call'[r]] BY <2>1
  <2>6. \A q \in Requests : thread[q] # None => q \in Rows
    BY DEF Typed, RegistryOK, Maybe, Rows
  <2> QED BY <1>1, <1>2, <2>4, <2>5, <2>6 DEF Typed, RegistryOK, CallsOK, TargetOK, TableOK
<1>4. RegistryOK' BY <1>1, <1>2, <1>3, FaultTyped DEF Typed, RegistryOK, TableOK
<1>5. OpInv' BY <1>1 DEF OpInv
<1>6. EnginesOK' BY <1>1 DEF Typed, EnginesOK, Maybe
<1>7. JobsInv'
  <2>1. /\ \A d \in Cells : \A i \in 1..Len(queue'[d]) :
              queue'[d][i] \in Rows' /\ thread'[queue'[d][i]].cell = d
    BY <1>1, <1>2, QueueSame
  <2>2. \A n \in 1..Len(owner') : owner'[n] \in Rows' BY <1>1, <1>2 DEF Typed, JobsInv, TableOK
  <2>3. \A d \in Cells : job[d] # None => thread'[job[d].thread].cell = d
    BY <1>2, JobRow DEF TableOK
  <2> QED BY <1>1, <2>1, <2>2, <2>3 DEF Typed, JobsInv
<1> QED BY <1>4, <1>5, <1>6, <1>7 DEF Typed

LEMMA TypedStep == ASSUME Typed, [Next]_vars PROVE Typed'
<1>1. CASE RegistryNext /\ UNCHANGED engines BY <1>1, RegistryTyped
<1>2. CASE Restart BY <1>2, RestartTyped
<1>3. CASE UNCHANGED vars
  <2>1. UNCHANGED <<cells, thread, bound, worktree, queue, call, op, audit, tasks, faults>>
    BY <1>3 DEF vars, registry, rows
  <2>2. UNCHANGED engines BY <1>3 DEF vars
  <2>3. RegistryOK' BY <2>1 DEF Typed, RegistryOK, CallsOK, TargetOK
  <2>4. OpInv' BY <2>1 DEF Typed, OpInv, Rows, lookup_spawn_request, Threads, Binding
  <2> QED BY <2>1, <2>2, <2>3, <2>4, JobsKept, EnginesKept DEF Typed
<1> QED
  BY <1>1, <1>2, <1>3, LeaseTyped, EnsureTyped, SpawnFailsTyped, ResumeTyped, AnswersTyped,
     StartTyped, StartFailsTyped, ProcessTyped, AcceptedTyped, FinalTyped, FailedTyped
  DEF Next

-----------------------------------------------------------------------------
(***************************************************************************)
(* What the scheduler and the engines leave of the registry.               *)
(***************************************************************************)
CellStep(c) ==
    \/ Lease(c) \/ ensure(c) \/ SpawnFails(c) \/ maybe_resume(c) \/ SkipResponse(c)
    \/ resume_thread(c) \/ ResumeFails(c) \/ start_turn(c) \/ StartAcked(c) \/ StartFails(c)
    \/ CodexTakes(c) \/ PromptTaken(c) \/ PromptRefused(c) \/ Interrupted(c)
    \/ EngineEnds(c) \/ Dies(c) \/ OnAccepted(c) \/ OnFinal(c) \/ OnFailed(c)
    \/ Death(c) \/ Timeout(c) \/ LeaseExpires(c)

IdsSame ==
    \A q \in Rows : /\ thread'[q].ethread = thread[q].ethread
                    /\ thread'[q].esession = thread[q].esession

LEMMA CellFrame ==
  ASSUME Typed, NEW c \in Cells, CellStep(c)
  PROVE  /\ TableOK /\ (IdsSame \/ OnFinal(c))
         /\ UNCHANGED <<cells, worktree, bound, call, op, audit, tasks>>
         /\ (\E kind \in Env : Fault(kind)) \/ UNCHANGED faults
<1>1. ASSUME NEW r \in Rows, NEW s \in Active \cup Terminal \cup {"idle"}, SetState(r, s)
      PROVE  TableOK /\ IdsSame
  BY <1>1, StateSet DEF TableOK, IdsSame
<1>2. UNCHANGED thread => TableOK /\ IdsSame BY TableSame DEF IdsSame
<1>3. CASE Lease(c)
  <2>1. SetState(Head(queue[c]), "running") /\ queue[c] # <<>> /\ UNCHANGED faults
    BY <1>3 DEF Lease
  <2>2. queue[c] \in Seq(Requests) BY DEF Typed, RegistryOK
  <2>3. Head(queue[c]) = queue[c][1] /\ 1 \in 1..Len(queue[c]) BY <2>1, <2>2
  <2>4. Head(queue[c]) \in Rows BY <2>3 DEF Typed, JobsInv
  <2>5. UNCHANGED <<cells, worktree, bound, call, op, audit, tasks>> BY <1>3 DEF Lease
  <2> QED BY <1>1, <2>1, <2>4, <2>5 DEF Active
<1>4. ASSUME SpawnFails(c) \/ StartFails(c) \/ OnFailed(c) \/ Death(c) \/ Timeout(c)
      PROVE  /\ TableOK /\ IdsSame
             /\ UNCHANGED <<cells, worktree, bound, call, op, audit, tasks>>
             /\ (\E kind \in Env : Fault(kind)) \/ UNCHANGED faults
  <2>1. /\ SetState(job[c].thread, "failed_unknown") \/ SetState(job[c].thread, "timeout")
        /\ UNCHANGED <<cells, worktree, bound, call, op, audit, tasks>>
    BY <1>4 DEF SpawnFails, StartFails, OnFailed, Death, Timeout, fail_turn
  <2>2. job[c] # None
    BY <1>4, AtJob, FlightAdapter DEF SpawnFails, StartFails, OnFailed, Death, Timeout, Event
  <2>3. job[c].thread \in Rows BY <2>2, JobRow
  <2>4. (\E kind \in Env : Fault(kind)) \/ UNCHANGED faults
    BY <1>4 DEF SpawnFails, StartFails, OnFailed, Death, Timeout, CallFails, Fault
  <2> QED BY <1>1, <2>1, <2>3, <2>4 DEF Terminal
<1>5. CASE OnFinal(c)
  <2>1. UNCHANGED <<cells, worktree, bound, call, op, audit, tasks, faults>> BY <1>5 DEF OnFinal
  <2> QED BY <1>5, <2>1, FinalRows
<1>6. ASSUME \/ ensure(c) \/ maybe_resume(c) \/ SkipResponse(c) \/ resume_thread(c)
             \/ ResumeFails(c) \/ start_turn(c) \/ StartAcked(c)
      PROVE  /\ UNCHANGED thread
             /\ UNCHANGED <<cells, worktree, bound, call, op, audit, tasks>>
             /\ (\E kind \in Env : Fault(kind)) \/ UNCHANGED faults
  BY <1>6 DEF ensure, maybe_resume, SkipResponse, resume_thread, ResumeFails, start_turn,
              StartAcked, CallFails, Fault, registry, rows
<1>7. ASSUME \/ CodexTakes(c) \/ PromptTaken(c) \/ PromptRefused(c) \/ Interrupted(c)
             \/ EngineEnds(c) \/ Dies(c) \/ OnAccepted(c) \/ LeaseExpires(c)
      PROVE  /\ UNCHANGED thread
             /\ UNCHANGED <<cells, worktree, bound, call, op, audit, tasks>>
             /\ (\E kind \in Env : Fault(kind)) \/ UNCHANGED faults
  BY <1>7 DEF CodexTakes, PromptTaken, PromptRefused, Interrupted, EngineEnds, Dies, OnAccepted,
              LeaseExpires, Fault, registry, rows
<1> QED BY <1>2, <1>3, <1>4, <1>5, <1>6, <1>7 DEF CellStep

-----------------------------------------------------------------------------
(***************************************************************************)
(* Audit before mutation.                                                  *)
(***************************************************************************)
LEMMA AuditedKept ==
  ASSUME RowsAudited, audit \subseteq audit', UNCHANGED <<cells, worktree>>, Threads' = Threads
  PROVE  RowsAudited'
  BY DEF RowsAudited

LEMMA SameThreads ==
  ASSUME Typed, TableOK PROVE Threads' = Threads
  BY DEF Threads, TableOK

LEMMA AuditedStep == ASSUME Typed, RowsAudited, [Next]_vars PROVE RowsAudited'
<1>1. ASSUME NEW c \in Cells, CellStep(c) PROVE RowsAudited'
  BY <1>1, CellFrame, SameThreads, AuditedKept
<1>2. CASE Restart
  BY <1>2, RestartRows, SameThreads, AuditedKept DEF Restart, RegistryRestart
<1>3. CASE UNCHANGED vars BY <1>3, AuditedKept DEF vars, registry, rows, Threads
<1>4. ASSUME NEW k \in Kinds, cell_register(k) \/ cell_update(k) PROVE RowsAudited'
  BY <1>4, AuditedKept DEF cell_register, cell_update, Audit, rows, Threads
<1>5. ASSUME NEW p \in Paths, worktree_mark_cleanup(p) \/ \E r \in Requests : worktree_record(p, r)
      PROVE  RowsAudited'
  BY <1>5, AuditedKept DEF worktree_mark_cleanup, worktree_record, Audit, rows, Threads
<1>6. CASE WriteDef
  <2>1. /\ op # None /\ op.name \in {"register", "update"} /\ cells' = op.kind
        /\ UNCHANGED <<thread, worktree, audit>>
    BY <1>6 DEF WriteDef
  <2>2. \E n \in {"register", "update"} : [name |-> n, kind |-> cells'] \in audit
    <3>1. PICK n \in {"register", "update"}, k \in Kinds : op = [name |-> n, kind |-> k]
      BY <2>1 DEF Typed, OpInv
    <3>2. op \in audit BY <2>1 DEF Typed, OpInv
    <3> QED BY <2>1, <3>1, <3>2
  <2> QED BY <2>1, <2>2 DEF RowsAudited, Threads
<1>7. CASE WriteWorktree
  <2>1. op # None /\ op.name \in {"worktree", "cleanup"} /\ UNCHANGED <<thread, cells, audit>>
    BY <1>7 DEF WriteWorktree
  <2>2. worktree \in [Paths -> Maybe([owner : Requests, state : {"created", "cleanup_requested"}])]
    BY DEF Typed, RegistryOK
  <2>3. ASSUME NEW p \in Paths, worktree'[p] # None
        PROVE  /\ worktree'[p].owner \in Threads
               /\ [name |-> "worktree", path |-> p, owner |-> worktree'[p].owner] \in audit
    <3>1. CASE op.name = "worktree"
      <4>1. PICK q \in Paths, r \in Rows : op = [name |-> "worktree", path |-> q, owner |-> r]
        BY <2>1, <3>1 DEF Typed, OpInv
      <4>2. op \in audit BY <2>1 DEF Typed, OpInv
      <4>3. r \in Threads BY RegistryAssumption DEF Threads, Rows
      <4>4. CASE worktree' = [worktree EXCEPT ![q] = [owner |-> r, state |-> "created"]]
        BY <2>2, <2>3, <4>1, <4>2, <4>3, <4>4 DEF RowsAudited
      <4>5. CASE worktree' = worktree BY <2>3, <4>5 DEF RowsAudited
      <4> QED BY <1>7, <3>1, <4>1, <4>4, <4>5 DEF WriteWorktree
    <3>2. CASE op.name = "cleanup"
      <4>1. PICK q \in Paths : op = [name |-> "cleanup", path |-> q] /\ worktree[q] # None
        BY <2>1, <3>2 DEF Typed, OpInv
      <4>2. worktree' = [worktree EXCEPT ![q].state = "cleanup_requested"]
        BY <1>7, <3>2, <4>1 DEF WriteWorktree
      <4>3. worktree[q] \in [owner : Requests, state : {"created", "cleanup_requested"}]
        BY <2>2, <4>1 DEF Maybe
      <4>4. worktree[p] # None /\ worktree'[p].owner = worktree[p].owner
        BY <2>2, <2>3, <4>1, <4>2, <4>3
      <4> QED BY <4>4 DEF RowsAudited
    <3> QED BY <2>1, <3>1, <3>2
  <2> QED BY <2>1, <2>3 DEF RowsAudited, Threads
<1>8. ASSUME NEW r \in Requests,
             \/ \E p \in Params : resolve_spawn_target(r, p)
             \/ SpawnReplay(r) \/ SpawnAuditFails(r) \/ SpawnAudit(r) \/ handle_send_task(r)
      PROVE  RowsAudited'
  BY <1>8, AuditedKept
  DEF resolve_spawn_target, SpawnReplay, SpawnAuditFails, SpawnAudit, handle_send_task, Audit,
      AuditFails, rows, Threads
<1>9. ASSUME NEW r \in Requests, SpawnWrite(r) PROVE RowsAudited'
  <2>1. UNCHANGED <<cells, worktree, audit>> BY <1>9 DEF SpawnWrite
  <2>2. \A q \in Threads' : q \in Threads \/ q = r BY <1>9, SpawnRows DEF Threads
  <2>3. Threads \subseteq Threads' BY <1>9, SpawnRows DEF Threads
  <2>4. [name |-> "spawn", thread |-> r] \in audit
    <3>1. op # None /\ op.name = "spawn" /\ op.thread = r BY <1>9 DEF SpawnWrite
    <3>2. PICK q \in Requests : op = [name |-> "spawn", thread |-> q] BY <3>1 DEF Typed, OpInv
    <3>3. q = r BY <3>1, <3>2
    <3> QED BY <3>1, <3>2, <3>3 DEF Typed, OpInv
  <2> QED BY <2>1, <2>2, <2>3, <2>4 DEF RowsAudited
<1> QED
  BY <1>1, <1>2, <1>3, <1>4, <1>5, <1>6, <1>7, <1>8, <1>9 DEF Next, RegistryNext, CellStep

(* Each definition, each spawned thread and each worktree the registry     *)
(* holds has its event in the log, whenever the daemon is killed.  (A      *)
(* follow-up that cell_send_task queues has none in the code.)             *)
THEOREM AuditBeforeMutation == Spec => []RowsAudited
<1>1. Init => Typed /\ RowsAudited
  <2>1. Init => RowsAudited
    BY DEF Init, RegistryInit, RowsAudited, Threads
  <2> QED BY <2>1, InitTyped
<1>2. Typed /\ RowsAudited /\ [Next]_vars => (Typed /\ RowsAudited)' BY TypedStep, AuditedStep
<1> QED BY <1>1, <1>2, PTL DEF Spec

(* A bound key is replayed.                                                *)
THEOREM KeysReplay == Spec => BoundKeyReplays
<1>1. ASSUME Typed, [Next]_vars, NEW r \in Requests, call[r].at = "target",
             lookup_spawn_request(r) # {}, call'[r].at = "done", call'[r].answer # "error"
      PROVE  call'[r].answer \in lookup_spawn_request(r)
  <2>1. call' # call BY <1>1
  <2>2. ASSUME NEW q \in Requests, NEW x, call' = [call EXCEPT ![q] = x], q # r PROVE FALSE
    BY <1>1, <2>2 DEF Typed, RegistryOK, CallsOK
  <2>3. ASSUME NEW x, call' = [call EXCEPT ![r] = x] PROVE call'[r] = x
    <3>1. r \in DOMAIN call BY <1>1 DEF Typed, RegistryOK, CallsOK
    <3> QED BY <2>3, <3>1
  <2>4. ASSUME NEW c \in Cells, CellStep(c) PROVE FALSE
    <3>1. call' = call BY <1>1, <2>4, CellFrame
    <3> QED BY <2>1, <3>1
  <2>5. ASSUME Restart PROVE FALSE
    <3>1. call'[r] = [at |-> "done", answer |-> "error"]
      BY <1>1, <2>5 DEF Restart, RegistryRestart
    <3> QED BY <1>1, <3>1
  <2>6. ASSUME NEW q \in Requests, NEW p \in Params, resolve_spawn_target(q, p) PROVE FALSE
    <3>1. call[q].at = "new" BY <2>6 DEF resolve_spawn_target
    <3>2. \E x : call' = [call EXCEPT ![q] = x] BY <2>6 DEF resolve_spawn_target, Answer
    <3> QED BY <1>1, <2>2, <3>1, <3>2
  <2>7. ASSUME NEW q \in Requests, SpawnReplay(q)
        PROVE  call'[r].answer \in lookup_spawn_request(r)
    <3>1. PICK s \in lookup_spawn_request(q) : call' = [call EXCEPT ![q] = [at |-> "done", answer |-> s]]
      BY <2>7 DEF SpawnReplay, Answer
    <3>2. q = r BY <2>2, <3>1
    <3>3. call'[r] = [at |-> "done", answer |-> s] BY <2>3, <3>1, <3>2
    <3> QED BY <3>1, <3>2, <3>3
  <2>8. ASSUME NEW q \in Requests, SpawnAuditFails(q) PROVE FALSE
    <3>1. call' = [call EXCEPT ![q] = [at |-> "done", answer |-> "error"]]
      BY <2>8 DEF SpawnAuditFails, Answer
    <3>2. q = r BY <2>2, <3>1
    <3> QED BY <1>1, <2>3, <3>1, <3>2
  <2>9. ASSUME NEW q \in Requests, SpawnWrite(q) PROVE FALSE
    <3>1. \E x : call' = [call EXCEPT ![q] = x] BY <2>9 DEF SpawnWrite, Answer
    <3>2. q = r BY <2>2, <3>1
    <3>3. op # None /\ op.name = "spawn" /\ op.thread = q BY <2>9 DEF SpawnWrite
    <3>4. ASSUME NEW s \in Requests, op = [name |-> "spawn", thread |-> s],
                 lookup_spawn_request(s) = {}
          PROVE  FALSE
      <4>1. s = r BY <3>2, <3>3, <3>4
      <4> QED BY <1>1, <3>4, <4>1
    <3>5. \E s \in Requests : op = [name |-> "spawn", thread |-> s] /\ lookup_spawn_request(s) = {}
      BY <1>1, <3>3 DEF Typed, OpInv
    <3> QED BY <3>4, <3>5
  <2>10. ASSUME \/ \E k \in Kinds : cell_register(k) \/ cell_update(k)
                \/ \E p \in Paths : worktree_mark_cleanup(p) \/ \E q \in Requests : worktree_record(p, q)
                \/ WriteDef \/ WriteWorktree
                \/ \E q \in Requests : SpawnAudit(q) \/ handle_send_task(q)
                \/ UNCHANGED vars
         PROVE  FALSE
   
      BY <2>1, <2>10 DEF cell_register, cell_update, worktree_mark_cleanup, worktree_record, WriteDef,
       WriteWorktree, SpawnAudit, handle_send_task, vars, registry
  <2> QED
    BY <1>1, <2>4, <2>5, <2>6, <2>7, <2>8, <2>9, <2>10 DEF Next, RegistryNext, CellStep
<1>2. Typed /\ [Next]_vars =>
        [\A r \in Requests :
           call[r].at = "target" /\ lookup_spawn_request(r) # {}
           /\ call'[r].at = "done" /\ call'[r].answer # "error"
           => call'[r].answer \in lookup_spawn_request(r)]_registry
  BY <1>1
<1> QED BY <1>2, InitTyped, TypedStep, PTL DEF Spec, BoundKeyReplays

-----------------------------------------------------------------------------
(***************************************************************************)
(* What is in a sequence that grows or is read.                            *)
(***************************************************************************)
LEMMA Added ==
  ASSUME NEW S, NEW s \in Seq(S), NEW x \in S
  PROVE  /\ Range(Append(s, x)) = Range(s) \cup {x} /\ Len(Append(s, x)) = Len(s) + 1
         /\ \A i \in 1..Len(s) : Append(s, x)[i] = s[i]
         /\ Append(s, x)[Len(s) + 1] = x
<1>1. /\ Append(s, x) \in Seq(S) /\ Len(Append(s, x)) = Len(s) + 1
      /\ \A i \in 1..Len(s) : Append(s, x)[i] = s[i]
      /\ Append(s, x)[Len(s) + 1] = x
  OBVIOUS
<1>2. DOMAIN s = 1..Len(s) /\ DOMAIN Append(s, x) = 1..Len(s) + 1 /\ Len(s) \in Nat
  BY <1>1
<1>3. \A i \in 1..Len(s) + 1 : i \in 1..Len(s) \/ i = Len(s) + 1 BY <1>2
<1>4. \A i \in 1..Len(s) : i \in 1..Len(s) + 1 BY <1>2
<1>5. Len(s) + 1 \in 1..Len(s) + 1 BY <1>2
<1>6. Range(Append(s, x)) \subseteq Range(s) \cup {x} BY <1>1, <1>2, <1>3 DEF Range
<1>7. Range(s) \cup {x} \subseteq Range(Append(s, x)) BY <1>1, <1>2, <1>4, <1>5 DEF Range
<1> QED BY <1>1, <1>6, <1>7

LEMMA InFront ==
  ASSUME NEW S, NEW s \in Seq(S), NEW x \in S, NEW i \in 1..Len(<<x>> \o s)
  PROVE  \/ i = 1 /\ (<<x>> \o s)[i] = x
         \/ i - 1 \in 1..Len(s) /\ (<<x>> \o s)[i] = s[i - 1]
<1>1. /\ Len(<<x>> \o s) = Len(s) + 1 /\ Len(s) \in Nat
      /\ (<<x>> \o s)[i] = IF i <= 1 THEN <<x>>[i] ELSE s[i - 1]
  OBVIOUS
<1>2. CASE i = 1 BY <1>1, <1>2
<1>3. CASE i # 1
  <2>1. i - 1 \in 1..Len(s) BY <1>1, <1>3
  <2>2. ~ (i <= 1) BY <1>1, <1>3
  <2> QED BY <1>1, <2>1, <2>2
<1> QED BY <1>2, <1>3

LEMMA Read ==
  ASSUME NEW S, NEW s \in Seq(S), s # <<>>
  PROVE  /\ Range(Tail(s)) \subseteq Range(s) /\ Head(s) \in Range(s) /\ Head(s) = s[1]
         /\ Len(Tail(s)) = Len(s) - 1 /\ 1 \in 1..Len(s)
         /\ \A i \in 1..Len(Tail(s)) : i + 1 \in 1..Len(s) /\ Tail(s)[i] = s[i + 1]
<1>1. /\ Len(Tail(s)) = Len(s) - 1 /\ Head(s) = s[1] /\ 1 \in 1..Len(s)
      /\ \A i \in 1..Len(Tail(s)) : i + 1 \in 1..Len(s) /\ Tail(s)[i] = s[i + 1]
      /\ Tail(s) \in Seq(S)
  OBVIOUS
<1>2. DOMAIN s = 1..Len(s) /\ DOMAIN Tail(s) = 1..Len(Tail(s)) BY <1>1
<1>3. Range(Tail(s)) \subseteq Range(s) BY <1>1, <1>2 DEF Range
<1> QED BY <1>1, <1>2, <1>3 DEF Range

LEMMA InRange ==
  ASSUME NEW S, NEW s \in Seq(S)

  PROVE  Range(s) = {s[i] : i \in 1..Len(s)} /\ Range(s) \subseteq S /\ (Range(s) = {} <=> s = <<>>)
<1>1. DOMAIN s = 1..Len(s) OBVIOUS
<1>2. s # <<>> => 1 \in 1..Len(s) OBVIOUS
<1>3. Range(s) = {s[i] : i \in 1..Len(s)} BY <1>1 DEF Range
<1>4. \A i \in 1..Len(s) : s[i] \in S OBVIOUS
<1>5. s = <<>> => 1..Len(s) = {} OBVIOUS
<1>6. Range(s) \subseteq S BY <1>3, <1>4
<1>7. s = <<>> => Range(s) = {} BY <1>3, <1>5
<1>8. s # <<>> => Range(s) # {} BY <1>2, <1>3
<1> QED BY <1>3, <1>6, <1>7, <1>8

LEMMA Nothing == Range(<<>>) = {} /\ 1..Len(<<>>) = {}
<1>1. DOMAIN <<>> = {} /\ 1..Len(<<>>) = {} OBVIOUS
<1> QED BY <1>1 DEF Range

LEMMA Single ==
  ASSUME NEW S, NEW x \in S
  PROVE  /\ Range(Append(<<>>, x)) = {x} /\ Len(Append(<<>>, x)) = 1 /\ Append(<<>>, x)[1] = x
<1>1. \A s \in Seq(S) :
        /\ Range(Append(s, x)) = Range(s) \cup {x} /\ Len(Append(s, x)) = Len(s) + 1
        /\ Append(s, x)[Len(s) + 1] = x
  BY Added
<1>2. <<>> \in Seq(S) /\ Len(<<>>) = 0 OBVIOUS
<1>3. /\ Range(Append(<<>>, x)) = Range(<<>>) \cup {x} /\ Len(Append(<<>>, x)) = Len(<<>>) + 1
      /\ Append(<<>>, x)[Len(<<>>) + 1] = x
  BY <1>1, <1>2, Zenon
<1> QED BY <1>2, <1>3, Nothing

(* The sequences of an adapter. *)
Response == [id : Nat, ok : BOOLEAN, n : Nat, conv : Conversation]
EventLine == [what : {"accepted", "final", "failed"}, n : Nat]

LEMMA AdapterSeqs ==
  ASSUME NEW e \in AdapterRow
  PROVE  /\ e.inq \in Seq(Message) /\ e.resp \in Seq(Response) /\ e.out \in Seq(EventLine)
         /\ e.id \in Nat /\ e.conv \in Conversation /\ e.resume \in Conversation
         /\ e.session \in Conversation /\ e.run \in Run \cup {None}
  BY DEF AdapterRow, Response, EventLine

-----------------------------------------------------------------------------
(***************************************************************************)
(* The other cells.                                                        *)
(***************************************************************************)
LEMMA Elsewhere ==
  ASSUME Typed, NEW c \in Cells, CellStep(c), NEW d \in Cells \ {c}
  PROVE  /\ engine'[d] = engine[d] /\ job'[d] = job[d] /\ (d \in flight' <=> d \in flight)
         /\ \A step : At(d, step)' => At(d, step)
<1>1. engine \in [Cells -> Maybe(AdapterRow)] /\ job \in [Cells -> Maybe(Job)]
  BY DEF Typed, EnginesOK
<1>2. engine'[d] = engine[d]
  BY <1>1 DEF CellStep, Lease, ensure, SpawnFails, maybe_resume, SkipResponse, resume_thread,
     ResumeFails, start_turn, StartAcked, StartFails, CodexTakes, PromptTaken, PromptRefused,
     Interrupted, EngineEnds, Dies, OnAccepted, OnFinal, OnFailed, Death, Timeout, LeaseExpires,
     Request, WritePrompt, Respond, interrupt, Ended
<1>3. job'[d] = job[d]
  BY <1>1 DEF CellStep, Lease, ensure, SpawnFails, maybe_resume, SkipResponse, resume_thread,
     ResumeFails, start_turn, StartAcked, StartFails, CodexTakes, PromptTaken, PromptRefused,
     Interrupted, EngineEnds, Dies, OnAccepted, OnFinal, OnFailed, Death, Timeout, LeaseExpires,
     Finish, FinishOrRequeue, fail_turn
<1>4. d \in flight' <=> d \in flight
  BY DEF CellStep, Lease, ensure, SpawnFails, maybe_resume, SkipResponse, resume_thread,
     ResumeFails, start_turn, StartAcked, StartFails, CodexTakes, PromptTaken, PromptRefused,
     Interrupted, EngineEnds, Dies, OnAccepted, OnFinal, OnFailed, Death, Timeout, LeaseExpires
<1>5. UNCHANGED sched \/ sched' = None \/ \E step : sched' = [cell |-> c, at |-> step]
  BY DEF CellStep, Lease, ensure, SpawnFails, maybe_resume, SkipResponse, resume_thread,
     ResumeFails, start_turn, StartAcked, StartFails, CodexTakes, PromptTaken, PromptRefused,
     Interrupted, EngineEnds, Dies, OnAccepted, OnFinal, OnFailed, Death, Timeout, LeaseExpires,
     Goto
<1>6. \A step : At(d, step)' => At(d, step) BY <1>5 DEF At
<1> QED BY <1>2, <1>3, <1>4, <1>6

-----------------------------------------------------------------------------
(***************************************************************************)
(* codex: ids.                                                             *)
(***************************************************************************)

(* Nothing is asked, and no turn is in flight. *)
LEMMA CodexIdle ==
  ASSUME Typed, NEW c \in Cells, CodexOK(c), engine[c] # None, engine'[c].kind = engine[c].kind,
         c \notin flight, c \notin flight', ~ At(c, "starting")',
         Range(engine'[c].inq) \subseteq Range(engine[c].inq),
         Range(engine'[c].resp) \subseteq Range(engine[c].resp),
         engine'[c].id = engine[c].id, engine'[c].out = engine[c].out
  PROVE  CodexOK(c)'
  BY DEF CodexOK

(* A request is written, and no acceptance is waiting. *)
LEMMA CodexAsks ==
  ASSUME Typed, NEW c \in Cells, CodexOK(c), engine[c] \in AdapterRow, engine[c].kind = "codex",
         NEW what \in {"resume", "turn", "interrupt"}, NEW n \in Nat, NEW conv \in Conversation,
         Request(c, what, n, conv),
         c \notin flight \/ job[c].eturn # None, c \notin flight',
         At(c, "starting")' => n = job'[c].n
  PROVE  CodexOK(c)'
<1>1. PICK m : m = [id |-> engine[c].id + 1, what |-> what, n |-> n, conv |-> conv] OBVIOUS
<1>2. /\ engine'[c].id = engine[c].id + 1 /\ engine'[c].inq = Append(engine[c].inq, m)
      /\ engine'[c].resp = engine[c].resp /\ engine'[c].out = engine[c].out
      /\ engine'[c].kind = "codex"
  BY <1>1, RequestShape
<1>3. engine[c].inq \in Seq(Message) /\ engine[c].id \in Nat /\ engine[c].resp \in Seq(Response)
  BY AdapterSeqs
<1>4. m \in Message /\ m.id = engine[c].id + 1 /\ m.n = n BY <1>1, <1>3 DEF Message
<1>5. Range(engine'[c].inq) = Range(engine[c].inq) \cup {m} BY <1>2, <1>3, <1>4, Added
<1>6. engine[c] # None BY EnginesAssumption
<1>7. \A x \in Range(engine[c].inq) \cup Range(engine[c].resp) : x.id <= engine[c].id /\ x.id \in Nat
  <2>1. \A x \in Range(engine[c].inq) : x.id \in Nat
    <3>1. \A i \in 1..Len(engine[c].inq) : engine[c].inq[i].id \in Nat
      BY <1>6 DEF Typed, EnginesOK
    <3>2. Range(engine[c].inq) = {engine[c].inq[i] : i \in 1..Len(engine[c].inq)}
      BY <1>3, InRange
    <3> QED BY <3>1, <3>2
  <2>2. \A x \in Range(engine[c].resp) : x.id \in Nat
    <3>1. Range(engine[c].resp) \subseteq Response BY <1>3, InRange
    <3> QED BY <3>1 DEF Response
  <2> QED BY <1>6, <2>1, <2>2 DEF CodexOK
<1>8. \A x \in Range(engine'[c].inq) \cup Range(engine'[c].resp) :
        x.id <= engine'[c].id /\ (x.id = engine'[c].id => x = m)
  BY <1>2, <1>3, <1>4, <1>5, <1>7
<1>9. \A i \in 1..Len(engine'[c].out) : engine'[c].out[i].what # "accepted"
  BY <1>2, <1>6 DEF CodexOK
<1> QED BY <1>4, <1>8, <1>9 DEF CodexOK

(* The process reads a request and may answer it. *)
LEMMA CodexReads ==
  ASSUME Typed, NEW c \in Cells, CodexOK(c), engine[c] \in AdapterRow, engine[c].kind = "codex",
         CodexTakes(c) \/ Interrupted(c)
  PROVE  CodexOK(c)'
<1>1. PICK q : q = Head(engine[c].inq) OBVIOUS
<1>2. engine[c].inq # <<>> BY DEF CodexTakes, Ready, Interrupted
<1>3. engine[c].inq \in Seq(Message) /\ engine[c].resp \in Seq(Response) BY AdapterSeqs
<1>4. q \in Range(engine[c].inq) /\ Range(Tail(engine[c].inq)) \subseteq Range(engine[c].inq)
  BY <1>1, <1>2, <1>3, Read
<1>5. q.id \in Nat /\ q.n \in Nat /\ q.conv \in Conversation BY <1>1, <1>2, Messages
<1>6. /\ engine'[c].inq = Tail(engine[c].inq) /\ engine'[c].id = engine[c].id
      /\ engine'[c].out = engine[c].out /\ engine'[c].kind = "codex"
      /\ \/ engine'[c].resp = engine[c].resp
         \/ \E ok \in BOOLEAN : engine'[c].resp =
              Append(engine[c].resp, [id |-> q.id, ok |-> ok, n |-> q.n, conv |-> q.conv])
  <2>1. CASE Interrupted(c) BY <1>1, <1>2, <1>5, <2>1, InterruptShape
  <2>2. CASE CodexTakes(c)
    <3>1. PICK ok \in BOOLEAN : Respond(c, Head(engine[c].inq), ok) BY <2>2 DEF CodexTakes
    <3> QED BY <1>1, <1>2, <1>5, <3>1, RespondShape
  <2> QED BY <2>1, <2>2
<1>7. \A x \in Range(engine'[c].resp) :
        x \in Range(engine[c].resp) \/ (x.id = q.id /\ x.n = q.n)
  <2>1. CASE engine'[c].resp = engine[c].resp BY <2>1
  <2>2. ASSUME NEW ok \in BOOLEAN, NEW m, m = [id |-> q.id, ok |-> ok, n |-> q.n, conv |-> q.conv],
               engine'[c].resp = Append(engine[c].resp, m)
        PROVE  \A x \in Range(engine'[c].resp) :
                 x \in Range(engine[c].resp) \/ (x.id = q.id /\ x.n = q.n)
    <3>1. m \in Response /\ m.id = q.id /\ m.n = q.n BY <1>5, <2>2 DEF Response
    <3>2. Range(engine'[c].resp) = Range(engine[c].resp) \cup {m} BY <1>3, <2>2, <3>1, Added
    <3> QED BY <3>1, <3>2
  <2> QED BY <1>6, <2>1, <2>2
<1>8. UNCHANGED <<job, flight, sched>> BY DEF CodexTakes, Interrupted
<1>9. engine[c] # None BY EnginesAssumption
<1>10. ASSUME NEW m \in Range(engine'[c].inq) \cup Range(engine'[c].resp)

       PROVE  m.id <= engine'[c].id /\ (At(c, "starting")' /\ m.id = engine'[c].id => m.n = job'[c].n)
  <2>1. \E x \in Range(engine[c].inq) \cup Range(engine[c].resp) : m.id = x.id /\ m.n = x.n
    BY <1>4, <1>6, <1>7
  <2> QED BY <1>6, <1>8, <1>9, <2>1 DEF CodexOK, At
<1> QED BY <1>6, <1>8, <1>9, <1>10 DEF CodexOK

(* The process says that a turn has ended. *)
LEMMA EndEffect ==
  ASSUME Typed, NEW c \in Cells, EngineEnds(c)
  PROVE  /\ engine[c] \in AdapterRow /\ engine[c].up /\ engine[c].run \in Run
         /\ UNCHANGED <<registry, job, flight, sched, owner, convs, finals>>
         /\ \E ev \in {"final", "failed"} :
              /\ engine'[c].out = Append(engine[c].out, [what |-> ev, n |-> engine[c].run.n])
              /\ \/ engine'[c].session = IF engine[c].kind = "claude" /\ ev = "final"
                                         THEN engine[c].run.conv ELSE engine[c].session
                 \/ engine'[c].session = engine[c].session /\ Fault("nosession")
         /\ engine'[c].run = None
         /\ engine'[c].kind = engine[c].kind /\ engine'[c].up = engine[c].up
         /\ engine'[c].conv = engine[c].conv /\ engine'[c].resume = engine[c].resume
         /\ engine'[c].id = engine[c].id /\ engine'[c].inq = engine[c].inq
         /\ engine'[c].resp = engine[c].resp
<1>1. engine[c] \in AdapterRow /\ engine[c].run # None BY HasAdapter DEF EngineEnds
<1>2. engine[c].run \in Run /\ engine[c].session \in Conversation BY <1>1, AdapterSeqs
<1>3. engine[c].run.conv \in Conversation BY <1>2 DEF Run
<1>4. PICK ev \in {"final", "failed"}, s \in Conversation :
        /\ engine' = [engine EXCEPT
             ![c].run = None, ![c].aborted = FALSE, ![c].session = s,
             ![c].out = Append(@, [what |-> ev, n |-> engine[c].run.n])]
        /\ \/ s = IF engine[c].kind = "claude" /\ ev = "final" THEN engine[c].run.conv
                  ELSE engine[c].session
           \/ s = engine[c].session /\ Fault("nosession")
  BY <1>2, <1>3 DEF EngineEnds, Ended
<1>5. UNCHANGED <<registry, job, flight, sched, owner, convs, finals>> /\ engine[c].up
  BY DEF EngineEnds
<1>6. /\ engine'[c].session = s /\ engine'[c].run = None
      /\ engine'[c].out = Append(engine[c].out, [what |-> ev, n |-> engine[c].run.n])
      /\ engine'[c].kind = engine[c].kind /\ engine'[c].up = engine[c].up
      /\ engine'[c].conv = engine[c].conv /\ engine'[c].resume = engine[c].resume
      /\ engine'[c].id = engine[c].id /\ engine'[c].inq = engine[c].inq
      /\ engine'[c].resp = engine[c].resp
  BY <1>1, <1>4, EndShape
<1> QED BY <1>1, <1>2, <1>4, <1>5, <1>6

(* The acknowledgement is polled. *)
LEMMA AcceptedEffect ==
  ASSUME Typed, NEW c \in Cells, OnAccepted(c)
  PROVE  /\ c \in flight /\ engine[c] \in AdapterRow /\ sched = None
         /\ engine[c].out # <<>> /\ engine[c].out[1].what = "accepted"
         /\ UNCHANGED <<registry, faults, flight, sched, owner, convs, finals>>
         /\ job'[c].eturn = engine[c].out[1].n
         /\ job'[c].n = job[c].n /\ job'[c].thread = job[c].thread
         /\ engine'[c].out = Tail(engine[c].out)
         /\ engine'[c].kind = engine[c].kind /\ engine'[c].up = engine[c].up
         /\ engine'[c].conv = engine[c].conv /\ engine'[c].resume = engine[c].resume
         /\ engine'[c].session = engine[c].session /\ engine'[c].id = engine[c].id
         /\ engine'[c].inq = engine[c].inq /\ engine'[c].resp = engine[c].resp
         /\ engine'[c].run = engine[c].run
<1>1. /\ c \in flight /\ engine[c].out # <<>> /\ sched = None /\ Head(engine[c].out).what = "accepted"
      /\ UNCHANGED <<registry, faults, flight, sched, owner, convs, finals>>
      /\ job' = [job EXCEPT ![c].eturn = Head(engine[c].out).n]
      /\ engine' = [engine EXCEPT ![c].out = Tail(engine[c].out)]
  BY DEF OnAccepted, Event
<1>2. engine[c] \in AdapterRow /\ job[c] \in Job BY <1>1, FlightAdapter
<1>3. Head(engine[c].out) = engine[c].out[1] BY <1>1, <1>2, Events
<1>4. PICK n : n = Head(engine[c].out).n OBVIOUS
<1>5. PICK x : x = [job[c] EXCEPT !.eturn = n] OBVIOUS
<1>6. x.eturn = n /\ x.thread = job[c].thread /\ x.n = job[c].n BY <1>2, <1>5 DEF Job
<1>7. job \in [Cells -> Maybe(Job)] /\ job' = [job EXCEPT ![c] = x]
  BY <1>1, <1>4, <1>5 DEF Typed, EnginesOK
<1>8. job'[c] = x BY <1>7
<1> QED BY <1>1, <1>2, <1>3, <1>4, <1>6, <1>8, EventTaken

LEMMA CodexCell ==
  ASSUME Typed, NEW c \in Cells, CodexOK(c), CellStep(c) PROVE CodexOK(c)'
<1> SUFFICES ASSUME engine'[c] # None, engine'[c].kind = "codex" PROVE CodexOK(c)'
  BY DEF CodexOK
<1>0. engine[c] # None => engine[c] \in AdapterRow BY HasAdapter
<1>1. ASSUME engine[c] # None, engine' = engine, c \notin flight, UNCHANGED flight,
             ~ At(c, "starting")'
      PROVE  CodexOK(c)'
  BY <1>1, CodexIdle
<1>2. ASSUME engine[c] # None, engine[c].resp # <<>>, c \notin flight, UNCHANGED flight,
             ~ At(c, "starting")', engine'[c].inq = engine[c].inq, engine'[c].kind = engine[c].kind,
             engine'[c].resp = Tail(engine[c].resp), engine'[c].id = engine[c].id,
             engine'[c].out = engine[c].out
      PROVE  CodexOK(c)'
  <2>1. engine[c].resp \in Seq(Response) BY <1>0, <1>2, AdapterSeqs
  <2>2. Range(engine'[c].resp) \subseteq Range(engine[c].resp) BY <1>2, <2>1, Read
  <2> QED BY <1>2, <2>2, CodexIdle
<1>3. CASE Lease(c)
  <2>1. c \notin flight /\ UNCHANGED <<engine, flight>> /\ ~ At(c, "starting")'
    BY <1>3 DEF Lease, Goto, At
  <2> QED BY <1>1, <2>1
<1>4. CASE ensure(c)
  <2>1. c \notin flight /\ UNCHANGED flight /\ ~ At(c, "starting")'
    BY <1>4, AtJob DEF ensure, Goto, At
  <2>2. CASE engine[c] # None /\ UNCHANGED engine BY <1>1, <2>1, <2>2
  <2>3. CASE \E k \in EngineKind, v \in Conversation : engine' = [engine EXCEPT ![c] = Adapter(k, v)]
    <3>1. PICK k \in EngineKind, v \in Conversation : engine' = [engine EXCEPT ![c] = Adapter(k, v)]
      BY <2>3
    <3>2. engine'[c].inq = <<>> /\ engine'[c].resp = <<>> /\ engine'[c].out = <<>>
      BY <3>1, FreshShape
    <3>3. Range(engine'[c].inq) = {} /\ Range(engine'[c].resp) = {} /\ 1..Len(engine'[c].out) = {}
      BY <3>2, Nothing
    <3> QED BY <2>1, <3>3 DEF CodexOK
  <2>4. Def(c) \in EngineKind /\ "claude" \in EngineKind /\ None \in Conversation
    BY <1>4, AtJob, DefKind DEF ensure, EngineKind, Conversation
  <2>5. Len(convs) + 1 \in Conversation BY DEF Typed, EnginesOK, Conversation
  <2> QED BY <1>4, <2>2, <2>3, <2>4, <2>5 DEF ensure
<1>5. CASE SpawnFails(c) BY <1>5 DEF SpawnFails
<1>6. CASE maybe_resume(c)
  <2>1. /\ At(c, "resume") /\ c \notin flight /\ UNCHANGED <<flight, job>> /\ engine[c] \in AdapterRow
        /\ engine[c] # None /\ ~ At(c, "starting")' /\ job[c] # None
    BY <1>6, AtJob DEF maybe_resume, Goto, At
  <2>2. PICK t : t = thread[job[c].thread] OBVIOUS
  <2>3. t.ethread \in Conversation /\ t.esession \in Conversation
    BY <2>1, <2>2, JobRow DEF Rows, ThreadRow, Conversation
  <2>4. CASE Request(c, "resume", 0, t.ethread) /\ engine[c].kind = "codex"
    BY <2>1, <2>3, <2>4, CodexAsks
  <2>5. CASE engine' = [engine EXCEPT ![c].resume = t.esession] /\ engine[c].kind = "claude"
    BY <2>1, <2>3, <2>5, ResumeNoted
  <2>6. CASE UNCHANGED engine BY <1>1, <2>1, <2>6
  <2> QED BY <1>6, <2>2, <2>4, <2>5, <2>6 DEF maybe_resume
<1>7. CASE SkipResponse(c)
  <2>1. /\ engine[c] \in AdapterRow /\ engine[c] # None /\ engine[c].resp # <<>>
        /\ UNCHANGED <<job, flight, sched>>
        /\ engine' = [engine EXCEPT ![c].resp = Tail(engine[c].resp)]
    BY <1>7, AtJob DEF SkipResponse
  <2>2. /\ engine'[c].resp = Tail(engine[c].resp) /\ engine'[c].inq = engine[c].inq
        /\ engine'[c].id = engine[c].id /\ engine'[c].out = engine[c].out
        /\ engine'[c].kind = engine[c].kind
    BY <2>1, RespSkipped
  <2>3. engine[c].resp \in Seq(Response) BY <2>1, AdapterSeqs
  <2>4. Range(engine'[c].resp) \subseteq Range(engine[c].resp) BY <2>1, <2>2, <2>3, Read
  <2> QED BY <2>1, <2>2, <2>4 DEF CodexOK, At
<1>8. CASE resume_thread(c)
  <2>1. /\ engine[c] \in AdapterRow /\ engine[c] # None /\ engine[c].resp # <<>> /\ c \notin flight
        /\ UNCHANGED flight /\ ~ At(c, "starting")'
    BY <1>8, AtJob DEF resume_thread, Goto, At
  <2>2. PICK v \in Conversation :
          engine' = [engine EXCEPT ![c].conv = v, ![c].resp = Tail(engine[c].resp)]
    <3>1. engine[c].conv \in Conversation /\ Head(engine[c].resp).conv \in Conversation
      BY <2>1, Responses, AdapterSeqs
    <3> QED BY <1>8, <3>1 DEF resume_thread
  <2> QED BY <1>2, <2>1, <2>2, RespTaken
<1>9. CASE ResumeFails(c)
  <2>1. engine[c] # None /\ c \notin flight /\ UNCHANGED <<engine, flight>> /\ ~ At(c, "starting")'
    BY <1>9, AtJob DEF ResumeFails, Goto, At
  <2> QED BY <1>1, <2>1
<1>10. CASE start_turn(c)
  <2>1. /\ engine[c] \in AdapterRow /\ c \notin flight /\ job[c] \in Job /\ UNCHANGED job
    BY <1>10, AtJob DEF start_turn
  <2>2. CASE engine[c].kind = "codex"
    <3>1. Request(c, "turn", job[c].n, engine[c].conv) /\ UNCHANGED flight
      BY <1>10, <2>2 DEF start_turn
    <3>2. job[c].n \in Nat /\ engine[c].conv \in Conversation BY <2>1, AdapterSeqs DEF Job
    <3> QED BY <2>1, <2>2, <3>1, <3>2, CodexAsks
  <2>3. CASE engine[c].kind # "codex" BY <1>10, <2>1, <2>3, PromptShape DEF start_turn
  <2> QED BY <2>2, <2>3
<1>11. CASE StartAcked(c)
  <2>1. /\ engine[c] \in AdapterRow /\ engine[c] # None /\ engine[c].kind = "codex"
        /\ engine[c].resp # <<>> /\ c \notin flight /\ job[c].eturn = None
        /\ Mine(engine[c]) /\ At(c, "starting")
        /\ flight' = flight \cup {c} /\ sched' = None /\ UNCHANGED job
        /\ engine' = [engine EXCEPT
              ![c].out = <<[what |-> "accepted", n |-> Head(engine[c].resp).n]>> \o @,
              ![c].resp = Tail(@)]
    BY <1>11, AtJob DEF StartAcked
  <2>2. PICK n : n = Head(engine[c].resp).n OBVIOUS
  <2>3. /\ engine[c].resp \in Seq(Response) /\ engine[c].out \in Seq(EventLine)
    BY <2>1, AdapterSeqs
  <2>4. /\ Range(Tail(engine[c].resp)) \subseteq Range(engine[c].resp)
        /\ Head(engine[c].resp) \in Range(engine[c].resp)
    BY <2>1, <2>3, Read
  <2>5. n \in Nat BY <2>1, <2>2, Responses
  <2>6. /\ engine'[c].resp = Tail(engine[c].resp) /\ engine'[c].inq = engine[c].inq
        /\ engine'[c].id = engine[c].id
        /\ engine'[c].out = <<[what |-> "accepted", n |-> n]>> \o engine[c].out
    BY <2>1, <2>2, <2>5, AckShape
  <2>7. n = job[c].n BY <2>1, <2>2, <2>4 DEF CodexOK, Mine
  <2>8. \A i \in 1..Len(engine[c].out) : engine[c].out[i].what # "accepted"
    BY <2>1 DEF CodexOK
  <2>9. PICK x : x = [what |-> "accepted", n |-> n] OBVIOUS
  <2>10. \A i \in 1..Len(engine'[c].out) : engine'[c].out[i].what = "accepted" =>
           i = 1 /\ engine'[c].out[i].n = n
    <3>1. x \in EventLine /\ x.n = n BY <2>5, <2>9 DEF EventLine
    <3>2. engine'[c].out = <<x>> \o engine[c].out BY <2>6, <2>9
    <3> QED BY <2>3, <2>8, <3>1, <3>2, InFront
  <2>11. ~ At(c, "starting")' BY <2>1 DEF At
  <2> QED BY <2>1, <2>4, <2>6, <2>7, <2>10, <2>11 DEF CodexOK
<1>12. CASE StartFails(c)
  <2>1. /\ engine[c] \in AdapterRow /\ engine[c] # None /\ c \notin flight
        /\ UNCHANGED flight /\ ~ At(c, "starting")'
        /\ \/ UNCHANGED engine
           \/ /\ engine[c].resp # <<>>
              /\ engine' = [engine EXCEPT ![c].resp = Tail(engine[c].resp)]
    BY <1>12, AtJob DEF StartFails, At
  <2>2. CASE UNCHANGED engine BY <1>1, <2>1, <2>2
  <2>3. CASE engine[c].resp # <<>> /\ engine' = [engine EXCEPT ![c].resp = Tail(engine[c].resp)]
    BY <1>2, <2>1, <2>3, RespSkipped
  <2> QED BY <2>1, <2>2, <2>3
<1>13. CASE CodexTakes(c)
  BY <1>0, <1>13, CodexReads DEF CodexTakes
<1>14. CASE Interrupted(c)
  <2>1. engine[c] \in AdapterRow /\ engine[c].inq # <<>> BY <1>0, <1>14 DEF Interrupted
  <2>2. engine'[c].kind = engine[c].kind BY <1>14, <2>1, Messages, InterruptShape
  <2> QED BY <1>14, <2>1, <2>2, CodexReads
<1>15. CASE PromptTaken(c)
  <2>1. engine[c] \in AdapterRow /\ engine[c].kind # "codex" /\ engine[c] # None
    BY <1>0, <1>15 DEF PromptTaken
  <2>2. engine'[c].kind = engine[c].kind
    <3>1. engine \in [Cells -> Maybe(AdapterRow)] BY DEF Typed, EnginesOK
    <3>2. PICK i, r, o : engine' = [engine EXCEPT ![c].inq = i, ![c].run = r, ![c].out = o]
      BY <1>15 DEF PromptTaken
    <3>3. engine'[c] = [engine[c] EXCEPT !.inq = i, !.run = r, !.out = o] BY <3>1, <3>2
    <3> QED BY <2>1, <3>3 DEF AdapterRow
  <2> QED BY <2>1, <2>2
<1>16. CASE PromptRefused(c)
  <2>1. engine[c] \in AdapterRow /\ engine[c].kind = "pi" /\ engine[c].inq # <<>>
    BY <1>0, <1>16 DEF PromptRefused, Ready
  <2>2. engine'[c].kind = engine[c].kind BY <1>16, <2>1, Messages, RefuseShape DEF PromptRefused
  <2> QED BY <2>1, <2>2
<1>17. CASE EngineEnds(c)
  <2>1. /\ engine[c] \in AdapterRow /\ engine'[c].kind = engine[c].kind
        /\ engine'[c].id = engine[c].id /\ engine'[c].inq = engine[c].inq
        /\ engine'[c].resp = engine[c].resp /\ engine[c].run \in Run
        /\ UNCHANGED <<job, flight, sched>>
    BY <1>17, EndEffect
  <2>2. PICK m : /\ engine'[c].out = Append(engine[c].out, m)
                 /\ \E ev \in {"final", "failed"} : m = [what |-> ev, n |-> engine[c].run.n]
    BY <1>17, EndEffect
  <2>3. m \in EventLine /\ m.what # "accepted" BY <2>1, <2>2 DEF EventLine, Run
  <2>4. engine[c].out \in Seq(EventLine) /\ engine[c] # None
    BY <2>1, AdapterSeqs, EnginesAssumption
  <2>5. ASSUME NEW i \in 1..Len(engine'[c].out), engine'[c].out[i].what = "accepted"
        PROVE  i \in 1..Len(engine[c].out) /\ engine'[c].out[i] = engine[c].out[i]
    <3>1. \/ i \in 1..Len(engine[c].out) /\ engine'[c].out[i] = engine[c].out[i]
          \/ engine'[c].out[i] = m
      <4>1. PICK p : p = engine[c].out OBVIOUS
      <4>2. p \in Seq(EventLine) /\ i \in 1..Len(Append(p, m)) BY <2>2, <2>4, <2>5, <4>1
      <4>3. (i \in 1..Len(p) /\ Append(p, m)[i] = p[i]) \/ Append(p, m)[i] = m BY <4>2
      <4> QED BY <2>2, <4>1, <4>3
    <3> QED BY <2>3, <2>5, <3>1
  <2>6. At(c, "starting")' <=> At(c, "starting") BY <2>1 DEF At
  <2> QED BY <2>1, <2>4, <2>5, <2>6 DEF CodexOK
<1>18. CASE Dies(c)
  <2>1. engine[c] # None /\ engine[c] \in AdapterRow /\ UNCHANGED <<job, flight, sched>>
    BY <1>0, <1>18 DEF Dies
  <2>2. /\ engine'[c].inq = <<>> /\ engine'[c].kind = engine[c].kind
        /\ engine'[c].id = engine[c].id /\ engine'[c].resp = engine[c].resp
        /\ engine'[c].out = engine[c].out
    BY <1>18, <2>1, DiesShape
  <2>3. Range(engine'[c].inq) = {}
    BY <2>2, Nothing
  <2> QED BY <2>1, <2>2, <2>3 DEF CodexOK, At
<1>19. CASE OnAccepted(c)
  <2>1. /\ c \in flight /\ engine[c] \in AdapterRow /\ engine[c].out # <<>>
        /\ engine[c].out[1].what = "accepted" /\ UNCHANGED <<flight, sched>> /\ sched = None
        /\ job'[c].eturn = engine[c].out[1].n /\ job'[c].n = job[c].n
        /\ engine'[c].out = Tail(engine[c].out) /\ engine'[c].kind = engine[c].kind
        /\ engine'[c].id = engine[c].id /\ engine'[c].inq = engine[c].inq
        /\ engine'[c].resp = engine[c].resp
    BY <1>19, AcceptedEffect
  <2>2. engine[c] # None BY <2>1, EnginesAssumption
  <2>3. /\ 1 \in 1..Len(engine[c].out)
        /\ \A i \in 1..Len(engine'[c].out) :
             i + 1 \in 1..Len(engine[c].out) /\ engine'[c].out[i] = engine[c].out[i + 1] /\ i + 1 # 1
    BY <2>1, Events
  <2>4. job'[c].eturn = job[c].n BY <2>1, <2>2, <2>3 DEF CodexOK
  <2>5. \A i \in 1..Len(engine'[c].out) : engine'[c].out[i].what # "accepted"
    BY <2>1, <2>2, <2>3 DEF CodexOK
  <2>6. ~ At(c, "starting")' BY <2>1 DEF At
  <2> QED BY <2>1, <2>2, <2>4, <2>5, <2>6 DEF CodexOK
<1>20. CASE OnFinal(c) \/ OnFailed(c)
  <2>1. /\ c \in flight /\ sched' = None /\ engine' = [engine EXCEPT ![c].out = <<>>]
        /\ flight' = flight \ {c}
    BY <1>20 DEF OnFinal, OnFailed, Event
  <2>2. engine[c] \in AdapterRow /\ engine[c] # None BY <2>1, FlightAdapter
  <2>3. /\ engine'[c].out = <<>> /\ engine'[c].kind = engine[c].kind
        /\ engine'[c].id = engine[c].id /\ engine'[c].inq = engine[c].inq
        /\ engine'[c].resp = engine[c].resp
    BY <2>1, <2>2, EventsDropped
  <2>4. ~ At(c, "starting")' /\ c \notin flight' /\ 1..Len(engine'[c].out) = {}
    BY <2>1, <2>3 DEF At
  <2> QED BY <2>2, <2>3, <2>4 DEF CodexOK
<1>21. CASE Death(c)
  <2>1. engine'[c] = None BY <1>21 DEF Death, Typed, EnginesOK
  <2> QED BY <2>1
<1>22. CASE Timeout(c)
  <2>1. /\ c \in flight /\ sched' = None /\ interrupt(c) /\ flight' = flight \ {c}
        /\ engine[c].kind = "codex" => job[c].eturn # None
    BY <1>22 DEF Timeout
  <2>2. engine[c] \in AdapterRow BY <2>1, FlightAdapter
  <2>3. CASE engine[c].kind = "codex"
    <3>1. Request(c, "interrupt", 0, None) /\ ~ At(c, "starting")' /\ c \notin flight'
      BY <2>1, <2>3 DEF interrupt, At
    <3>2. None \in Conversation /\ 0 \in Nat BY DEF Conversation
    <3> QED BY <2>1, <2>2, <2>3, <3>1, <3>2, CodexAsks
  <2>4. CASE engine[c].kind # "codex" BY <2>1, <2>2, <2>4, LineInterruptShape
  <2> QED BY <2>3, <2>4
<1>23. CASE LeaseExpires(c)
  <2>1. engine[c] # None /\ c \notin flight /\ UNCHANGED <<engine, flight>> /\ ~ At(c, "starting")'
    BY <1>23 DEF LeaseExpires, At
  <2> QED BY <1>1, <2>1
<1> QED
  BY <1>3, <1>4, <1>5, <1>6, <1>7, <1>8, <1>9, <1>10, <1>11, <1>12, <1>13, <1>14, <1>15, <1>16,
     <1>17, <1>18, <1>19, <1>20, <1>21, <1>22, <1>23 DEF CellStep

LEMMA CodexStep == ASSUME Typed, CodexInv, [Next]_vars PROVE CodexInv'
<1>1. ASSUME NEW c \in Cells, CellStep(c) PROVE CodexInv'
  <2>1. ASSUME NEW d \in Cells \ {c} PROVE CodexOK(d)'
    BY <1>1, <2>1, Elsewhere DEF CodexInv, CodexOK
  <2>2. CodexOK(c)' BY <1>1, CodexCell DEF CodexInv
  <2> QED BY <2>1, <2>2 DEF CodexInv
<1>2. CASE UNCHANGED engines BY <1>2 DEF engines, CodexInv, CodexOK, At
<1>3. CASE Restart BY <1>3 DEF Restart, CodexInv, CodexOK
<1> QED BY <1>1, <1>2, <1>3 DEF Next, CellStep, vars

-----------------------------------------------------------------------------
(***************************************************************************)
(* claude and pi: lines.                                                   *)
(***************************************************************************)

(* What has happened stays happened. *)
LEMMA Seen ==
  ASSUME Typed, [Next]_vars
  PROVE  /\ faults.seen \subseteq faults'.seen
         /\ \A kinds : Without(kinds)' => Without(kinds)
         /\ Honest => Without({"timeout"})
         /\ Honest' => Honest /\ Without({"timeout"})' /\ ~ Fault("nosession")
         /\ \A c \in Cells : Timeout(c) => ~ Without({"timeout"})'
<1>1. (\E kind \in Env : Fault(kind)) \/ UNCHANGED faults
  <2>1. ASSUME RegistryNext PROVE (\E kind \in Env : Fault(kind)) \/ UNCHANGED faults
    BY <2>1 DEF RegistryNext, cell_register, cell_update, worktree_mark_cleanup, worktree_record,
       WriteDef, WriteWorktree, resolve_spawn_target, SpawnReplay, SpawnAudit, SpawnAuditFails,
       SpawnWrite, handle_send_task, Audit, AuditFails, Fault
  <2>2. ASSUME Restart PROVE \E kind \in Env : Fault(kind)
    BY <2>2 DEF Restart, RegistryRestart, Fault
  <2>3. ASSUME NEW c \in Cells, CellStep(c)
        PROVE  (\E kind \in Env : Fault(kind)) \/ UNCHANGED faults
    BY <2>3, CellFrame
  <2> QED BY <2>1, <2>2, <2>3 DEF Next, CellStep, vars
<1>2. faults.seen \subseteq faults'.seen BY <1>1, FaultTyped
<1>3. ASSUME NEW c \in Cells, Timeout(c) PROVE "timeout" \in faults'.seen
  <2>1. faults' = [left |-> faults.left - 1, seen |-> faults.seen \cup {"timeout"}]
    BY <1>3 DEF Timeout, Fault
  <2> QED BY <2>1
<1>4. ASSUME Fault("nosession") PROVE "nosession" \in faults'.seen
  <2>1. faults' = [left |-> faults.left - 1, seen |-> faults.seen \cup {"nosession"}]
    BY <1>4 DEF Fault
  <2> QED BY <2>1
<1> QED BY <1>2, <1>3, <1>4 DEF Without, Honest

(* No turn is in flight before or after. *)
LEMMA LineIdle ==
  ASSUME NEW c \in Cells, LineOK(c), engine[c] # None, engine'[c].kind = engine[c].kind,
         c \notin flight, c \notin flight',
         engine'[c].inq = engine[c].inq, engine'[c].run = engine[c].run,
         engine'[c].out = engine[c].out
  PROVE  LineOK(c)'
<1> SUFFICES ASSUME engine'[c].kind # "codex" PROVE LineOK(c)'
  BY DEF LineOK
<1>1. engine'[c].inq = <<>> /\ engine'[c].run = None /\ engine'[c].out = <<>> BY DEF LineOK
<1>2. Range(engine'[c].inq) = {} /\ 1..Len(engine'[c].out) = {} BY <1>1, Nothing
<1> QED BY <1>1, <1>2 DEF LineOK

(* A prompt is taken or refused. *)
LEMMA PromptEffect ==
  ASSUME Typed, NEW c \in Cells, PromptTaken(c) \/ PromptRefused(c)
  PROVE  /\ engine[c] \in AdapterRow /\ engine[c].kind # "codex" /\ engine[c].run = None
         /\ engine[c].up /\ engine[c].inq # <<>> /\ Head(engine[c].inq) \in Range(engine[c].inq)
         /\ Head(engine[c].inq).n \in Nat /\ Head(engine[c].inq).what # "interrupt"
         /\ Head(engine[c].inq).conv \in Conversation
         /\ UNCHANGED <<registry, job, flight, sched, owner, finals>>
         /\ engine'[c].inq = Tail(engine[c].inq)
         /\ LET q == Head(engine[c].inq)
                given == IF engine[c].kind = "pi" THEN engine[c].conv ELSE q.conv
            IN  \/ /\ engine'[c].out = Append(engine[c].out, [what |-> "accepted", n |-> q.n])
                   /\ \/ /\ given = None
                         /\ engine'[c].run = [n |-> q.n, conv |-> Len(convs) + 1]
                         /\ convs' = Append(convs, [kind |-> "claude", turns |-> <<q.n>>])
                      \/ /\ given # None
                         /\ engine'[c].run = [n |-> q.n, conv |-> given]
                         /\ convs' = Extend(given, q.n)
                \/ /\ engine'[c].out = Append(engine[c].out, [what |-> "failed", n |-> q.n])
                   /\ engine'[c].run = engine[c].run /\ UNCHANGED convs
         /\ engine'[c].kind = engine[c].kind /\ engine'[c].up = engine[c].up
         /\ engine'[c].conv = engine[c].conv /\ engine'[c].resume = engine[c].resume
         /\ engine'[c].session = engine[c].session /\ engine'[c].id = engine[c].id
         /\ engine'[c].resp = engine[c].resp
<1>1. /\ engine[c] \in AdapterRow /\ engine[c].kind # "codex" /\ engine[c].run = None
      /\ engine[c].up /\ engine[c].inq # <<>> /\ Head(engine[c].inq).what # "interrupt"
      /\ UNCHANGED <<registry, job, flight, sched, owner, finals>>
  BY HasAdapter DEF PromptTaken, PromptRefused, Ready
<1>2. PICK q : q = Head(engine[c].inq) OBVIOUS
<1>3. q.n \in Nat /\ q.conv \in Conversation BY <1>1, <1>2, Messages
<1>4. q \in Range(engine[c].inq)
  <2>1. engine[c].inq \in Seq(Message) BY <1>1, AdapterSeqs
  <2> QED BY <1>1, <1>2, <2>1, Read
<1>5. CASE PromptTaken(c)
  <2>1. PICK g : g = IF engine[c].kind = "pi" THEN engine[c].conv ELSE q.conv OBVIOUS
  <2>2. PICK v : v = IF g = None THEN Len(convs) + 1 ELSE g OBVIOUS
  <2>3. v \in Nat
    <3>1. g \in Conversation BY <1>1, <1>3, <2>1, AdapterSeqs
    <3>2. Len(convs) + 1 \in Nat BY DEF Typed, EnginesOK
    <3> QED BY <2>2, <3>1, <3>2 DEF Conversation
  <2>4. /\ engine' = [engine EXCEPT
                ![c].inq = Tail(@), ![c].run = [n |-> q.n, conv |-> v],
                ![c].out = Append(@, [what |-> "accepted", n |-> q.n])]
        /\ convs' = IF g = None THEN Append(convs, [kind |-> "claude", turns |-> <<q.n>>])
                    ELSE Extend(v, q.n)
    BY <1>2, <1>5, <2>1, <2>2 DEF PromptTaken
  <2>5. /\ engine'[c].inq = Tail(engine[c].inq) /\ engine'[c].run = [n |-> q.n, conv |-> v]
        /\ engine'[c].out = Append(engine[c].out, [what |-> "accepted", n |-> q.n])
        /\ engine'[c].kind = engine[c].kind /\ engine'[c].up = engine[c].up
        /\ engine'[c].conv = engine[c].conv /\ engine'[c].resume = engine[c].resume
        /\ engine'[c].session = engine[c].session /\ engine'[c].id = engine[c].id
        /\ engine'[c].resp = engine[c].resp
    <3>1. PICK u, m : u = [n |-> q.n, conv |-> v] /\ m = [what |-> "accepted", n |-> q.n] OBVIOUS
    <3>2. u \in Run /\ m \in [what : {"accepted", "final", "failed"}, n : Nat]
      BY <1>3, <2>3, <3>1 DEF Run, Conversation
    <3>3. engine' = [engine EXCEPT ![c].inq = Tail(@), ![c].run = u, ![c].out = Append(@, m)]
      BY <2>4, <3>1
    <3>4. engine'[c].inq = Tail(engine[c].inq)
      BY <1>1, <3>2, <3>3, PromptTakenShape
    <3>6. engine'[c].run = u
      BY <1>1, <3>2, <3>3, PromptTakenShape
    <3>7. engine'[c].out = Append(engine[c].out, m)
      BY <1>1, <3>2, <3>3, PromptTakenShape, ZenonT(60)
    <3>5. /\ engine'[c].kind = engine[c].kind /\ engine'[c].up = engine[c].up
          /\ engine'[c].conv = engine[c].conv /\ engine'[c].resume = engine[c].resume
          /\ engine'[c].session = engine[c].session /\ engine'[c].id = engine[c].id
          /\ engine'[c].resp = engine[c].resp
      BY <1>1, <3>2, <3>3, PromptTakenShape
    <3> QED BY <3>1, <3>4, <3>5, <3>6, <3>7
  <2>6. \/ /\ g = None
           /\ engine'[c].run = [n |-> q.n, conv |-> Len(convs) + 1]
           /\ convs' = Append(convs, [kind |-> "claude", turns |-> <<q.n>>])
        \/ /\ g # None
           /\ engine'[c].run = [n |-> q.n, conv |-> g]
           /\ convs' = Extend(g, q.n)
    BY <2>2, <2>4, <2>5
  <2> QED BY <1>1, <1>2, <1>3, <1>4, <2>1, <2>5, <2>6
<1>6. CASE PromptRefused(c)
  <2>1. engine' = [engine EXCEPT
         ![c].inq = Tail(@), ![c].out = Append(@, [what |-> "failed", n |-> q.n])]
        /\ UNCHANGED convs
    BY <1>2, <1>6 DEF PromptRefused
  <2>2. /\ engine'[c].inq = Tail(engine[c].inq)
        /\ engine'[c].out = Append(engine[c].out, [what |-> "failed", n |-> q.n])
        /\ engine'[c].kind = engine[c].kind /\ engine'[c].up = engine[c].up
        /\ engine'[c].conv = engine[c].conv /\ engine'[c].resume = engine[c].resume
        /\ engine'[c].session = engine[c].session /\ engine'[c].id = engine[c].id
        /\ engine'[c].resp = engine[c].resp /\ engine'[c].run = engine[c].run
    BY <1>1, <1>3, <2>1, RefuseShape
  <2> QED BY <1>1, <1>2, <1>3, <1>4, <2>1, <2>2
<1> QED BY <1>5, <1>6

(* What LineOK says of a process with a prompt, a run or an ending.        *)
LEMMA LineHas ==
  ASSUME Typed, NEW c \in Cells, LineOK(c), engine[c] \in AdapterRow, engine[c].kind # "codex"
  PROVE  /\ engine[c].inq # <<>> \/ engine[c].run # None \/ engine[c].out # <<>> => c \in flight
         /\ \A m \in Range(engine[c].inq) :
              m.what = "turn" /\ m.n = job[c].n /\ engine[c].run = None /\ engine[c].out = <<>>
         /\ engine[c].inq # <<>> => Tail(engine[c].inq) = <<>>
         /\ engine[c].run # None \/ engine[c].out # <<>> => engine[c].inq = <<>>
         /\ engine[c].run # None => engine[c].run.n = job[c].n
         /\ \A i \in 1..Len(engine[c].out) :
              /\ engine[c].out[i].n = job[c].n
              /\ engine[c].out[i].what # "accepted" =>
                   i = Len(engine[c].out) /\ engine[c].inq = <<>> /\ engine[c].run = None
         /\ c \in flight => job[c].eturn \in {None, job[c].n}
<1>1. engine[c] # None BY EnginesAssumption
<1>2. engine[c].inq \in Seq(Message) BY AdapterSeqs
<1>3. engine[c].inq # <<>> => Range(engine[c].inq) # {} BY <1>2, InRange
<1>4. engine[c].inq # <<>> => Tail(engine[c].inq) = <<>>
  <2>1. Len(engine[c].inq) <= 1 BY <1>1 DEF LineOK
  <2>2. PICK p : p = engine[c].inq OBVIOUS
  <2>3. p \in Seq(Message) /\ Len(p) <= 1 BY <1>2, <2>1, <2>2
  <2>4. p # <<>> => Tail(p) = <<>> BY <2>3
  <2> QED BY <2>2, <2>4
<1> QED BY <1>1, <1>3, <1>4 DEF LineOK

LEMMA LineCell ==
  ASSUME Typed, NEW c \in Cells, LineOK(c), CellStep(c), ~ Timeout(c) PROVE LineOK(c)'
<1> SUFFICES ASSUME engine'[c] # None, engine'[c].kind # "codex" PROVE LineOK(c)'
  BY DEF LineOK
<1>0. engine[c] # None => engine[c] \in AdapterRow BY HasAdapter
<1>1. ASSUME engine[c] # None, engine' = engine, c \notin flight, UNCHANGED flight
      PROVE  LineOK(c)'
  BY <1>1, LineIdle
<1>3. CASE Lease(c) BY <1>1, <1>3 DEF Lease
<1>4. CASE ensure(c)
  <2>1. c \notin flight /\ UNCHANGED flight BY <1>4, AtJob DEF ensure
  <2>2. CASE engine[c] # None /\ UNCHANGED engine BY <1>1, <2>1, <2>2
  <2>3. CASE \E k \in EngineKind, v \in Conversation : engine' = [engine EXCEPT ![c] = Adapter(k, v)]
    <3>1. PICK k \in EngineKind, v \in Conversation : engine' = [engine EXCEPT ![c] = Adapter(k, v)]
      BY <2>3
    <3>2. engine'[c].inq = <<>> /\ engine'[c].run = None /\ engine'[c].out = <<>>
      BY <3>1, FreshShape
    <3>3. Range(engine'[c].inq) = {} /\ 1..Len(engine'[c].out) = {} BY <3>2, Nothing
    <3> QED BY <2>1, <3>2, <3>3 DEF LineOK
  <2>4. Def(c) \in EngineKind /\ "claude" \in EngineKind /\ None \in Conversation
    BY <1>4, AtJob, DefKind DEF ensure, EngineKind, Conversation
  <2>5. Len(convs) + 1 \in Conversation BY DEF Typed, EnginesOK, Conversation
  <2> QED BY <1>4, <2>2, <2>3, <2>4, <2>5 DEF ensure
<1>5. CASE SpawnFails(c) BY <1>5 DEF SpawnFails
<1>6. CASE maybe_resume(c)
  <2>1. /\ At(c, "resume") /\ c \notin flight /\ UNCHANGED <<flight, job>> /\ engine[c] \in AdapterRow
        /\ engine[c] # None /\ job[c] # None
    BY <1>6, AtJob DEF maybe_resume
  <2>2. PICK t : t = thread[job[c].thread] OBVIOUS
  <2>3. t.ethread \in Conversation /\ t.esession \in Conversation
    BY <2>1, <2>2, JobRow DEF Rows, ThreadRow, Conversation
  <2>4. CASE Request(c, "resume", 0, t.ethread) /\ engine[c].kind = "codex"
    BY <2>1, <2>3, <2>4, RequestShape
  <2>5. CASE engine' = [engine EXCEPT ![c].resume = t.esession]
    BY <2>1, <2>3, <2>5, ResumeNoted, LineIdle
  <2>6. CASE UNCHANGED engine BY <1>1, <2>1, <2>6
  <2> QED BY <1>6, <2>2, <2>4, <2>5, <2>6 DEF maybe_resume
<1>7. CASE SkipResponse(c) \/ resume_thread(c) \/ StartAcked(c)
  <2>1. /\ engine[c] \in AdapterRow /\ engine[c].kind = "codex" /\ engine[c].resp # <<>>
    BY <1>7, AtJob DEF SkipResponse, resume_thread, StartAcked
  <2>2. CASE SkipResponse(c)
    <3>1. engine' = [engine EXCEPT ![c].resp = Tail(engine[c].resp)] BY <2>2 DEF SkipResponse
    <3> QED BY <2>1, <3>1, RespSkipped
  <2>3. CASE resume_thread(c)
    <3>1. PICK v \in Conversation :
            engine' = [engine EXCEPT ![c].conv = v, ![c].resp = Tail(engine[c].resp)]
      <4>1. engine[c].conv \in Conversation /\ Head(engine[c].resp).conv \in Conversation
        BY <2>1, Responses, AdapterSeqs
      <4> QED BY <2>3, <4>1 DEF resume_thread
    <3> QED BY <2>1, <3>1, RespTaken
  <2>4. CASE StartAcked(c)
    <3>1. Head(engine[c].resp).n \in Nat BY <2>1, Responses
    <3>2. engine' = [engine EXCEPT
              ![c].out = <<[what |-> "accepted", n |-> Head(engine[c].resp).n]>> \o engine[c].out,
              ![c].resp = Tail(engine[c].resp)]
      BY <2>4 DEF StartAcked
    <3> QED BY <2>1, <3>1, <3>2, AckShape
  <2> QED BY <1>7, <2>2, <2>3, <2>4
<1>9. CASE ResumeFails(c)
  <2>1. engine[c] # None /\ c \notin flight /\ UNCHANGED <<engine, flight>>
    BY <1>9, AtJob DEF ResumeFails
  <2> QED BY <1>1, <2>1
<1>10. CASE start_turn(c)
  <2>1. /\ engine[c] \in AdapterRow /\ engine[c] # None /\ c \notin flight /\ job[c] \in Job
        /\ job[c].eturn = None /\ UNCHANGED job
    BY <1>10, AtJob DEF start_turn
  <2>2. CASE engine[c].kind = "codex"
    <3>1. Request(c, "turn", job[c].n, engine[c].conv) BY <1>10, <2>2 DEF start_turn
    <3>2. job[c].n \in Nat /\ engine[c].conv \in Conversation BY <2>1, AdapterSeqs DEF Job
    <3> QED BY <2>1, <2>2, <3>1, <3>2, RequestShape
  <2>3. CASE engine[c].kind # "codex"
    <3>1. PICK m : m = [what |-> "turn", n |-> job[c].n, conv |-> engine[c].resume] OBVIOUS
    <3>2. /\ engine'[c].inq = Append(engine[c].inq, m) /\ engine'[c].run = engine[c].run
          /\ engine'[c].out = engine[c].out
      BY <1>10, <2>1, <2>3, <3>1, PromptShape DEF start_turn
    <3>3. engine[c].inq = <<>> /\ engine[c].run = None /\ engine[c].out = <<>>
      BY <2>1, <2>3 DEF LineOK
    <3>4. m \in Message /\ m.what = "turn" /\ m.n = job[c].n
      <4>1. job[c].n \in Nat /\ engine[c].resume \in Conversation BY <2>1, AdapterSeqs DEF Job
      <4> QED BY <3>1, <4>1 DEF Message
    <3>5. Range(engine'[c].inq) = {m} /\ Len(engine'[c].inq) = 1 /\ 1..Len(engine'[c].out) = {}
      BY <3>2, <3>3, <3>4, Single, Nothing
    <3>6. c \in flight' BY <1>10, <2>3 DEF start_turn
    <3> QED BY <2>1, <3>2, <3>3, <3>4, <3>5, <3>6 DEF LineOK
  <2> QED BY <2>2, <2>3
<1>12. CASE StartFails(c)
  <2>1. /\ engine[c] \in AdapterRow /\ engine[c] # None /\ c \notin flight
        /\ UNCHANGED flight
        /\ \/ UNCHANGED engine
           \/ /\ engine[c].resp # <<>>
              /\ engine' = [engine EXCEPT ![c].resp = Tail(engine[c].resp)]
    BY <1>12, AtJob DEF StartFails
  <2>2. CASE UNCHANGED engine BY <1>1, <2>1, <2>2
  <2>3. CASE engine[c].resp # <<>> /\ engine' = [engine EXCEPT ![c].resp = Tail(engine[c].resp)]
    BY <2>1, <2>3, RespSkipped, LineIdle
  <2> QED BY <2>1, <2>2, <2>3
<1>13. CASE CodexTakes(c)
  <2>1. engine[c] \in AdapterRow /\ engine[c].kind = "codex" /\ engine[c].inq # <<>>
    BY <1>0, <1>13 DEF CodexTakes, Ready
  <2>2. PICK ok \in BOOLEAN : Respond(c, Head(engine[c].inq), ok) BY <1>13 DEF CodexTakes
  <2> QED BY <2>1, <2>2, Messages, RespondShape
<1>14. CASE Interrupted(c)
  <2>1. engine[c] \in AdapterRow /\ engine[c].inq # <<>> /\ Head(engine[c].inq).what = "interrupt"
    BY <1>0, <1>14 DEF Interrupted
  <2>2. engine[c].kind # "codex" BY <1>14, <2>1, Messages, InterruptShape
  <2>3. Head(engine[c].inq) \in Range(engine[c].inq)
    <3>1. engine[c].inq \in Seq(Message) BY <2>1, AdapterSeqs
    <3> QED BY <2>1, <3>1, Read
  <2> QED BY <2>1, <2>2, <2>3, LineHas
<1>15. CASE PromptTaken(c) \/ PromptRefused(c)
  <2>1. PICK q : q = Head(engine[c].inq) OBVIOUS
  <2>2. PICK ev : /\ engine'[c].out = Append(engine[c].out, [what |-> ev, n |-> q.n])
                  /\ \/ ev = "accepted" /\ \E v : engine'[c].run = [n |-> q.n, conv |-> v]
                     \/ ev = "failed" /\ engine'[c].run = engine[c].run
    BY <1>15, <2>1, PromptEffect
  <2>3. /\ engine[c] \in AdapterRow /\ engine[c].kind # "codex" /\ engine[c].run = None
        /\ engine[c].inq # <<>> /\ q \in Range(engine[c].inq) /\ q.n \in Nat
        /\ UNCHANGED <<job, flight>> /\ engine'[c].inq = Tail(engine[c].inq)
    BY <1>15, <2>1, PromptEffect
  <2>4. /\ q.n = job[c].n /\ c \in flight /\ engine[c].out = <<>> /\ engine'[c].inq = <<>>
        /\ job[c].eturn \in {None, job[c].n}
    BY <2>3, LineHas
  <2>5. PICK m : m = [what |-> ev, n |-> q.n] OBVIOUS
  <2>6. m \in EventLine /\ m.what = ev /\ m.n = q.n BY <2>2, <2>3, <2>5 DEF EventLine
  <2>7. /\ Len(engine'[c].out) = 1 /\ engine'[c].out[1] = m
    BY <2>2, <2>4, <2>5, <2>6, Single
  <2>8. Range(engine'[c].inq) = {} /\ Len(engine'[c].inq) = 0 BY <2>4, Nothing
  <2>9. engine'[c].run # None => engine'[c].run.n = q.n
    <3>1. ASSUME NEW v, engine'[c].run = [n |-> q.n, conv |-> v] PROVE engine'[c].run.n = q.n
      BY <3>1
    <3> QED BY <2>2, <2>3, <3>1
  <2>10. \A i \in 1..Len(engine'[c].out) :
           /\ i = Len(engine'[c].out) /\ engine'[c].out[i].n = job[c].n
           /\ engine'[c].out[i].what # "accepted" => engine'[c].run = None
    <3>1. ev # "accepted" => engine'[c].run = None BY <2>2, <2>3
    <3>2. \A i \in 1..Len(engine'[c].out) : i = 1 BY <2>7
    <3> QED BY <2>4, <2>6, <2>7, <3>1, <3>2
  <2>11. engine'[c].inq = <<>> /\ c \in flight' /\ job'[c] = job[c] BY <2>3, <2>4
  <2>12. Len(engine'[c].inq) <= 1 BY <2>8
  <2> QED BY <2>4, <2>8, <2>9, <2>10, <2>11, <2>12 DEF LineOK
<1>17. CASE EngineEnds(c)
  <2>1. /\ engine[c] \in AdapterRow /\ engine'[c].kind = engine[c].kind
        /\ engine'[c].inq = engine[c].inq /\ engine'[c].run = None
        /\ engine[c].run \in Run /\ UNCHANGED <<job, flight>>
    BY <1>17, EndEffect
  <2>2. PICK m : /\ engine'[c].out = Append(engine[c].out, m)
                 /\ \E ev \in {"final", "failed"} : m = [what |-> ev, n |-> engine[c].run.n]
    BY <1>17, EndEffect
  <2>3. m \in EventLine /\ m.n = engine[c].run.n BY <2>1, <2>2 DEF EventLine, Run
  <2>4. engine[c].out \in Seq(EventLine) BY <2>1, AdapterSeqs
  <2>5. engine[c].run # None BY <1>17 DEF EngineEnds
  <2>6. /\ c \in flight /\ engine[c].inq = <<>> /\ m.n = job[c].n
        /\ \A i \in 1..Len(engine[c].out) :
             engine[c].out[i].what = "accepted" /\ engine[c].out[i].n = job[c].n
        /\ job[c].eturn \in {None, job[c].n}
    BY <2>1, <2>3, <2>5, LineHas
  <2>7. ASSUME NEW i \in 1..Len(engine'[c].out)
        PROVE  /\ engine'[c].out[i].n = job[c].n
               /\ engine'[c].out[i].what # "accepted" => i = Len(engine'[c].out)
    <3>1. \/ i \in 1..Len(engine[c].out) /\ engine'[c].out[i] = engine[c].out[i]
          \/ i = Len(engine'[c].out) /\ engine'[c].out[i] = m
      <4>1. PICK p : p = engine[c].out OBVIOUS
      <4>2. p \in Seq(EventLine) /\ i \in 1..Len(Append(p, m)) BY <2>2, <2>4, <2>7, <4>1
      <4>3. \/ i \in 1..Len(p) /\ Append(p, m)[i] = p[i]
            \/ i = Len(Append(p, m)) /\ Append(p, m)[i] = m
        BY <4>2
      <4> QED BY <2>2, <4>1, <4>3
    <3> QED BY <2>6, <3>1
  <2>8. Range(engine'[c].inq) = {} /\ Len(engine'[c].inq) = 0 BY <2>1, <2>6, Nothing
  <2> QED BY <2>1, <2>6, <2>7, <2>8 DEF LineOK
<1>18. CASE Dies(c)
  <2>1. engine[c] # None /\ engine[c] \in AdapterRow /\ UNCHANGED <<job, flight>>
    BY <1>0, <1>18 DEF Dies
  <2>2. /\ engine'[c].inq = <<>> /\ engine'[c].kind = engine[c].kind /\ engine'[c].run = None
        /\ engine'[c].out = engine[c].out
    BY <1>18, <2>1, DiesShape
  <2>3. Range(engine'[c].inq) = {} /\ Len(engine'[c].inq) = 0 BY <2>2, Nothing
  <2> QED BY <2>1, <2>2, <2>3 DEF LineOK
<1>19. CASE OnAccepted(c)
  <2>1. /\ c \in flight /\ engine[c] \in AdapterRow /\ engine[c].out # <<>>
        /\ UNCHANGED flight
        /\ job'[c].eturn = engine[c].out[1].n /\ job'[c].n = job[c].n
        /\ engine'[c].out = Tail(engine[c].out) /\ engine'[c].kind = engine[c].kind
        /\ engine'[c].inq = engine[c].inq /\ engine'[c].run = engine[c].run
    BY <1>19, AcceptedEffect
  <2>2. engine[c] # None /\ Len(engine[c].out) \in Nat BY <2>1, EnginesAssumption, AdapterSeqs
  <2>3. /\ 1 \in 1..Len(engine[c].out) /\ Len(engine'[c].out) = Len(engine[c].out) - 1
        /\ \A i \in 1..Len(engine'[c].out) :
             i + 1 \in 1..Len(engine[c].out) /\ engine'[c].out[i] = engine[c].out[i + 1]
    BY <2>1, Events
  <2>4. job'[c].eturn = job[c].n BY <2>1, <2>2, <2>3 DEF LineOK
  <2>5. engine[c].inq = <<>> BY <2>1, LineHas
  <2>6. Range(engine'[c].inq) = {} /\ Len(engine'[c].inq) = 0 BY <2>1, <2>5, Nothing
  <2>7. ASSUME NEW i \in 1..Len(engine'[c].out)
        PROVE  /\ engine'[c].out[i].n = job[c].n
               /\ engine'[c].out[i].what # "accepted" =>
                    i = Len(engine'[c].out) /\ engine[c].run = None
    <3>1. /\ engine[c].out[i + 1].n = job[c].n
          /\ engine[c].out[i + 1].what # "accepted" =>
                    i + 1 = Len(engine[c].out) /\ engine[c].run = None
      BY <2>1, <2>3, LineHas
    <3>2. i + 1 = Len(engine[c].out) => i = Len(engine'[c].out) BY <2>2, <2>3
    <3>3. engine'[c].out[i] = engine[c].out[i + 1] BY <2>3
    <3> QED BY <3>1, <3>2, <3>3
  <2>8. engine[c].run # None => engine[c].run.n = job[c].n BY <2>1, LineHas
  <2> QED BY <2>1, <2>4, <2>5, <2>6, <2>7, <2>8 DEF LineOK
<1>20. CASE OnFinal(c) \/ OnFailed(c)
  <2>1. /\ c \in flight /\ engine' = [engine EXCEPT ![c].out = <<>>]
        /\ flight' = flight \ {c} /\ engine[c].out # <<>>
        /\ Head(engine[c].out).what # "accepted"
    BY <1>20 DEF OnFinal, OnFailed, Event
  <2>2. engine[c] \in AdapterRow /\ engine[c] # None BY <2>1, FlightAdapter
  <2>3. /\ engine'[c].out = <<>> /\ engine'[c].kind = engine[c].kind
        /\ engine'[c].inq = engine[c].inq /\ engine'[c].run = engine[c].run
    BY <2>1, <2>2, EventsDropped
  <2>4. engine[c].out[1].what # "accepted" /\ 1 \in 1..Len(engine[c].out) BY <2>1, <2>2, Events
  <2>5. engine[c].inq = <<>> /\ engine[c].run = None BY <2>2, <2>3, <2>4, LineHas
  <2>6. /\ Range(engine'[c].inq) = {} /\ Len(engine'[c].inq) = 0 /\ 1..Len(engine'[c].out) = {}
    BY <2>3, <2>5, Nothing
  <2> QED BY <2>1, <2>3, <2>5, <2>6 DEF LineOK
<1>21. CASE Death(c)
  <2>1. engine'[c] = None BY <1>21 DEF Death, Typed, EnginesOK
  <2> QED BY <2>1
<1>23. CASE LeaseExpires(c) BY <1>1, <1>23 DEF LeaseExpires
<1> QED
  BY <1>3, <1>4, <1>5, <1>6, <1>7, <1>9, <1>10, <1>12, <1>13, <1>14, <1>15,
     <1>17, <1>18, <1>19, <1>20, <1>21, <1>23 DEF CellStep

LEMMA LineStep == ASSUME Typed, LineInv, [Next]_vars PROVE LineInv'
<1> SUFFICES ASSUME Without({"timeout"})' PROVE \A d \in Cells : LineOK(d)'
  BY DEF LineInv
<1>0. \A d \in Cells : LineOK(d) BY Seen DEF LineInv
<1>1. ASSUME NEW c \in Cells, CellStep(c) PROVE \A d \in Cells : LineOK(d)'
  <2>1. ASSUME NEW d \in Cells \ {c} PROVE LineOK(d)'
    BY <1>0, <1>1, <2>1, Elsewhere DEF LineOK
  <2>2. LineOK(c)' BY <1>0, <1>1, Seen, LineCell
  <2> QED BY <2>1, <2>2
<1>2. CASE UNCHANGED engines BY <1>0, <1>2 DEF engines, LineOK
<1>3. CASE Restart BY <1>3 DEF Restart, LineOK
<1> QED BY <1>1, <1>2, <1>3 DEF Next, CellStep, vars

-----------------------------------------------------------------------------
(***************************************************************************)
(* The engine_turn_id recorded for a turn is that turn's.                  *)
(***************************************************************************)
Dialects == Typed /\ CodexInv /\ LineInv

LEMMA InitDialects == Init => Dialects
<1>1. Init => CodexInv /\ LineInv BY DEF Init, EnginesInit, CodexInv, CodexOK, LineInv, LineOK
<1> QED BY <1>1, InitTyped DEF Dialects

(* What AckMatched says of the turn in flight. *)
THEOREM AcksMatch == Spec => []AckMatched
<1>1. Dialects /\ [Next]_vars => Dialects' BY TypedStep, CodexStep, LineStep DEF Dialects
<1>2. ASSUME Dialects PROVE AckMatched
  <2>1. ASSUME NEW c \in flight, engine[c].kind = "codex" \/ Without({"timeout"})
        PROVE  job[c].eturn \in {None, job[c].n}
    <3>1. c \in Cells /\ Typed BY <1>2 DEF Dialects, Typed, EnginesOK
    <3>2. engine[c] # None BY <3>1, FlightAdapter
    <3> QED BY <1>2, <2>1, <3>1, <3>2 DEF Dialects, CodexInv, CodexOK, LineInv, LineOK
  <2> QED BY <2>1 DEF AckMatched
<1> QED BY InitDialects, <1>1, <1>2, PTL DEF Spec

-----------------------------------------------------------------------------
(***************************************************************************)
(* Conversations grow.                                                     *)
(***************************************************************************)
LEMMA RowsLive ==
  ASSUME Typed, [Next]_vars, NEW q \in Rows
  PROVE  q \in Rows' /\ thread'[q].cell = thread[q].cell
<1>1. TableOK => q \in Rows' /\ thread'[q].cell = thread[q].cell BY DEF TableOK
<1>2. UNCHANGED thread => TableOK BY TableSame
<1>3. CASE RegistryNext
  <2>1. UNCHANGED thread \/ \E r \in Requests : SpawnWrite(r)
    BY <1>3 DEF RegistryNext, cell_register, cell_update, worktree_mark_cleanup, worktree_record,
       WriteDef, WriteWorktree, resolve_spawn_target, SpawnReplay, SpawnAudit, SpawnAuditFails,
       handle_send_task, rows
  <2>2. ASSUME NEW r \in Requests, SpawnWrite(r)
        PROVE  q \in Rows' /\ thread'[q].cell = thread[q].cell
    <3>1. r \notin Rows /\ Rows \subseteq Rows' /\ \A s \in Requests \ {r} : thread'[s] = thread[s]
      BY <2>2, SpawnRows
    <3> QED BY <3>1 DEF Rows
  <2> QED BY <1>1, <1>2, <2>1, <2>2
<1>4. CASE Restart BY <1>1, <1>4, RestartRows
<1>5. ASSUME NEW c \in Cells, CellStep(c) PROVE q \in Rows' /\ thread'[q].cell = thread[q].cell
  BY <1>1, <1>5, CellFrame
<1>6. CASE UNCHANGED vars BY <1>1, <1>2, <1>6 DEF vars, registry, rows
<1> QED BY <1>3, <1>4, <1>5, <1>6 DEF Next, CellStep

(* Turns are added to those started. *)
LEMMA OwnersGrow ==
  ASSUME Typed, [Next]_vars, NEW n \in 1..Len(owner)
  PROVE  n \in 1..Len(owner') /\ owner'[n] = owner[n] /\ owner[n] \in Rows
<1>1. owner \in Seq(Requests) /\ owner[n] \in Rows BY DEF Typed, EnginesOK, JobsInv
<1>2. ASSUME NEW c \in Cells, CellStep(c), ~ Lease(c) PROVE UNCHANGED owner
  BY <1>2 DEF CellStep, ensure, SpawnFails, maybe_resume, SkipResponse,
     resume_thread, ResumeFails, start_turn, StartAcked, StartFails, CodexTakes, PromptTaken,
     PromptRefused, Interrupted, EngineEnds, Dies, OnAccepted, OnFinal, OnFailed, Death, Timeout,
     LeaseExpires
<1>3. ASSUME NEW c \in Cells, Lease(c) PROVE n \in 1..Len(owner') /\ owner'[n] = owner[n]
  <2>1. queue[c] \in Seq(Requests) /\ queue[c] # <<>> BY <1>3 DEF Lease, Typed, RegistryOK
  <2>2. Head(queue[c]) \in Requests BY <2>1
  <2>3. owner' = Append(owner, Head(queue[c])) BY <1>3 DEF Lease
  <2> QED BY <1>1, <2>2, <2>3
<1>4. CASE UNCHANGED owner BY <1>1, <1>4
<1>5. CASE UNCHANGED engines BY <1>4, <1>5 DEF engines
<1>6. CASE Restart BY <1>4, <1>6 DEF Restart
<1>7. ASSUME NEW c \in Cells, CellStep(c) PROVE n \in 1..Len(owner') /\ owner'[n] = owner[n]
  BY <1>2, <1>3, <1>4, <1>7
<1> QED BY <1>1, <1>5, <1>6, <1>7 DEF Next, CellStep, vars

LEMMA StartedKept ==
  ASSUME Typed, [Next]_vars, NEW n, NEW c, StartedOn(n, c) PROVE StartedOn(n, c)'
  BY OwnersGrow, RowsLive DEF StartedOn

(* The message a process takes, and the conversation it goes on with.      *)
Taken(c) == Head(engine[c].inq)
Fed(c) == IF engine[c].kind = "pi" THEN engine[c].conv ELSE Taken(c).conv

LEMMA ConvStep ==
  ASSUME Typed, TurnsInv, NEW c \in Cells, CellStep(c)
  PROVE  \/ UNCHANGED convs
         \/ /\ ensure(c) /\ engine[c] = None
            /\ Def(c) \in EngineKind \ {"claude"}
            /\ engine' = [engine EXCEPT ![c] = Adapter(Def(c), Len(convs) + 1)]
            /\ convs' = Append(convs, [kind |-> Def(c), turns |-> <<>>])
         \/ /\ CodexTakes(c) \/ PromptTaken(c)
            /\ engine[c] \in AdapterRow /\ Taken(c) \in Range(engine[c].inq)
            /\ StartedOn(Taken(c).n, c) /\ Taken(c).n \in Nat
            /\ \/ convs' = Extend(Fed(c), Taken(c).n) /\ Fed(c) \in Conversation
               \/ /\ engine[c].kind = "claude" /\ Fed(c) = None
                  /\ engine'[c].run = [n |-> Taken(c).n, conv |-> Len(convs) + 1]
                  /\ convs' = Append(convs, [kind |-> "claude", turns |-> <<Taken(c).n>>])
<1>1. UNCHANGED convs \/ ensure(c) \/ CodexTakes(c) \/ PromptTaken(c)
  BY DEF CellStep, Lease, SpawnFails, maybe_resume, SkipResponse,
     resume_thread, ResumeFails, start_turn, StartAcked, StartFails,
     PromptRefused, Interrupted, EngineEnds, Dies, OnAccepted, OnFinal, OnFailed, Death, Timeout,
     LeaseExpires
<1>2. CASE ensure(c)
  <2>1. Def(c) \in EngineKind BY <1>2, AtJob, DefKind DEF ensure
  <2> QED BY <1>2, <2>1 DEF ensure
<1>3. CASE CodexTakes(c)
  <2>1. /\ engine[c] \in AdapterRow /\ engine[c] # None /\ engine[c].kind = "codex"
        /\ engine[c].inq # <<>>
    BY <1>3, HasAdapter DEF CodexTakes, Ready
  <2>2. engine[c].inq \in Seq(Message) BY <2>1, AdapterSeqs
  <2>3. Taken(c) \in Range(engine[c].inq) BY <2>1, <2>2, Read DEF Taken
  <2>4. Taken(c).n \in Nat /\ Taken(c).conv \in Conversation BY <2>1, Messages DEF Taken
  <2>5. UNCHANGED convs \/ (Taken(c).what = "turn" /\ convs' = Extend(Taken(c).conv, Taken(c).n))
    BY <1>3 DEF CodexTakes, Taken
  <2>6. Fed(c) = Taken(c).conv BY <2>1 DEF Fed
  <2> QED BY <1>3, <2>1, <2>3, <2>4, <2>5, <2>6 DEF TurnsInv, AskedOK
<1>4. CASE PromptTaken(c)
  <2>1. /\ engine[c] \in AdapterRow /\ engine[c].kind # "codex" /\ engine[c].inq # <<>>
        /\ Taken(c) \in Range(engine[c].inq) /\ Taken(c).n \in Nat /\ Taken(c).what # "interrupt"
        /\ Taken(c).conv \in Conversation
    BY <1>4, PromptEffect DEF Taken
  <2>2. engine[c] # None /\ engine[c].inq \in Seq(Message) /\ engine[c].conv \in Conversation
    BY <2>1, AdapterSeqs, EnginesAssumption
  <2>3. Taken(c).what = "turn"
    <3>1. Taken(c) \in Message BY <2>1, Messages DEF Taken
    <3> QED BY <2>1, <2>2, <3>1 DEF Message, TurnsInv, AskedOK
  <2>4. StartedOn(Taken(c).n, c) BY <2>1, <2>2, <2>3 DEF TurnsInv, AskedOK
  <2>5. /\ Fed(c) \in Conversation
        /\ \/ UNCHANGED convs
           \/ convs' = Extend(Fed(c), Taken(c).n)
           \/ /\ Fed(c) = None
              /\ engine'[c].run = [n |-> Taken(c).n, conv |-> Len(convs) + 1]
              /\ convs' = Append(convs, [kind |-> "claude", turns |-> <<Taken(c).n>>])
    BY <1>4, <2>1, <2>2, PromptEffect DEF Fed, Taken
  <2>6. Fed(c) = None => engine[c].kind = "claude"
    BY <2>1, <2>2 DEF Fed, TurnsInv, AskedOK, AdapterRow, EngineKind
  <2> QED BY <1>4, <2>1, <2>4, <2>5, <2>6
<1> QED BY <1>1, <1>2, <1>3, <1>4

(* A turn is added to a conversation, or a conversation to the others.     *)
LEMMA ConvGrown ==
  ASSUME Typed, TurnsInv, NEW c \in Cells, CellStep(c)
  PROVE  /\ \A i \in Conv : i \in Conv' /\ convs'[i].kind = convs[i].kind
         /\ \A i \in Conv : convs[i].turns # <<>> => convs'[i].turns # <<>>
         /\ \A i \in Conv : \A k \in 1..Len(convs'[i].turns) :
              \/ k \in 1..Len(convs[i].turns) /\ convs'[i].turns[k] = convs[i].turns[k]
              \/ /\ CodexTakes(c) \/ PromptTaken(c)
                 /\ engine[c] \in AdapterRow /\ Taken(c) \in Range(engine[c].inq)
                 /\ StartedOn(Taken(c).n, c)
                 /\ i = Fed(c) /\ convs'[i].turns[k] = Taken(c).n
         /\ \A i \in Conv' \ Conv :
              /\ i = Len(convs) + 1
              /\ \/ /\ ensure(c) /\ convs'[i].kind \in EngineKind \ {"claude"}
                    /\ convs'[i].turns = <<>>
                    /\ engine' = [engine EXCEPT ![c] = Adapter(convs'[i].kind, i)]
                 \/ /\ PromptTaken(c) /\ convs'[i].kind = "claude" /\ engine[c].kind = "claude"
                    /\ convs'[i].turns = <<Taken(c).n>> /\ StartedOn(Taken(c).n, c)
                    /\ engine[c] \in AdapterRow /\ Taken(c) \in Range(engine[c].inq)
                    /\ engine'[c].run = [n |-> Taken(c).n, conv |-> i]
<1>0. convs \in Seq(ConvRow) BY DEF Typed, EnginesOK, ConvRow
<1>1. CASE UNCHANGED convs BY <1>1 DEF Conv
<1>2. ASSUME NEW x \in ConvRow, convs' = Append(convs, x)
      PROVE  /\ \A i \in Conv : i \in Conv' /\ convs'[i] = convs[i]
             /\ \A i \in Conv' \ Conv : i = Len(convs) + 1 /\ convs'[i] = x
  BY <1>0, <1>2 DEF Conv
<1>3. CASE /\ ensure(c) /\ engine[c] = None
           /\ Def(c) \in EngineKind \ {"claude"}
           /\ engine' = [engine EXCEPT ![c] = Adapter(Def(c), Len(convs) + 1)]
           /\ convs' = Append(convs, [kind |-> Def(c), turns |-> <<>>])
  <2>1. PICK x : x = [kind |-> Def(c), turns |-> <<>>] OBVIOUS
  <2>2. x \in ConvRow /\ x.kind = Def(c) /\ x.turns = <<>> BY <1>3, <2>1 DEF ConvRow
  <2>3. /\ \A i \in Conv : i \in Conv' /\ convs'[i] = convs[i]
        /\ \A i \in Conv' \ Conv : i = Len(convs) + 1 /\ convs'[i] = x
    BY <1>2, <1>3, <2>1, <2>2
  <2> QED BY <1>3, <2>2, <2>3
<1>4. CASE /\ CodexTakes(c) \/ PromptTaken(c)
           /\ engine[c] \in AdapterRow /\ Taken(c) \in Range(engine[c].inq)
           /\ StartedOn(Taken(c).n, c) /\ Taken(c).n \in Nat
           /\ convs' = Extend(Fed(c), Taken(c).n) /\ Fed(c) \in Conversation
  <2>1. PICK n, v : n = Taken(c).n /\ v = Fed(c) OBVIOUS
  <2>2. /\ Len(convs') = Len(convs)
        /\ \A i \in 1..Len(convs) : convs'[i].kind = convs[i].kind
        /\ \A i \in 1..Len(convs) : i # v => convs'[i] = convs[i]
        /\ v \in 1..Len(convs) => convs'[v].turns = Append(convs[v].turns, n)
    BY <1>4, <2>1, Extended
  <2>3. ASSUME v \in 1..Len(convs)
        PROVE  /\ convs'[v].turns # <<>>
               /\ \A k \in 1..Len(convs'[v].turns) :
                    \/ k \in 1..Len(convs[v].turns) /\ convs'[v].turns[k] = convs[v].turns[k]
                    \/ convs'[v].turns[k] = n
    <3>1. PICK p : p = convs[v].turns OBVIOUS
    <3>2. p \in Seq(Nat) /\ n \in Nat
      <4>1. convs[v] \in ConvRow BY <1>0, <2>3
      <4> QED BY <1>4, <2>1, <3>1, <4>1 DEF ConvRow
    <3>3. /\ Append(p, n) # <<>>
          /\ \A k \in 1..Len(Append(p, n)) :
               (k \in 1..Len(p) /\ Append(p, n)[k] = p[k]) \/ Append(p, n)[k] = n
      BY <3>2
    <3> QED BY <2>2, <2>3, <3>1, <3>3
  <2> QED BY <1>4, <2>1, <2>2, <2>3 DEF Conv
<1>5. CASE /\ PromptTaken(c)
           /\ engine[c] \in AdapterRow /\ Taken(c) \in Range(engine[c].inq)
           /\ StartedOn(Taken(c).n, c) /\ Taken(c).n \in Nat
           /\ engine[c].kind = "claude" /\ Fed(c) = None
           /\ engine'[c].run = [n |-> Taken(c).n, conv |-> Len(convs) + 1]
           /\ convs' = Append(convs, [kind |-> "claude", turns |-> <<Taken(c).n>>])
  <2>1. PICK x : x = [kind |-> "claude", turns |-> <<Taken(c).n>>] OBVIOUS
  <2>2. x \in ConvRow /\ x.kind = "claude" /\ x.turns = <<Taken(c).n>>
    BY <1>5, <2>1 DEF ConvRow, EngineKind
  <2>3. /\ \A i \in Conv : i \in Conv' /\ convs'[i] = convs[i]
        /\ \A i \in Conv' \ Conv : i = Len(convs) + 1 /\ convs'[i] = x
    BY <1>2, <1>5, <2>1, <2>2
  <2> QED BY <1>5, <2>2, <2>3
<1>6. CodexTakes(c) => engine[c].kind = "codex" BY DEF CodexTakes
<1> QED BY <1>1, <1>3, <1>4, <1>5, <1>6, ConvStep

-----------------------------------------------------------------------------
(***************************************************************************)
(* What an engine is asked and what it answers.                            *)
(***************************************************************************)

(* A message the scheduler may write to the engine of c.                   *)
Asked(c, m) ==
    \/ m.what = "interrupt" /\ m.conv = None
    \/ /\ m.what = "resume" /\ engine[c].kind = "codex" /\ job[c] # None
       /\ m.conv = thread[job[c].thread].ethread
    \/ /\ m.what = "turn" /\ job[c] # None /\ m.n = job[c].n
       /\ engine[c].kind = "codex" => m.conv = engine[c].conv

Answered(c, m) ==
    /\ engine[c].kind = "codex" /\ Taken(c) \in Range(engine[c].inq) /\ m.conv = Taken(c).conv

Fresh(c) ==
    /\ ensure(c) /\ engine[c] = None /\ engine'[c].kind = Def(c) /\ engine'[c].conv \in Conversation
    /\ engine'[c].inq = <<>> /\ engine'[c].resp = <<>> /\ engine'[c].out = <<>>
    /\ engine'[c].run = None /\ engine'[c].resume = None /\ engine'[c].session = None
    /\ \/ Def(c) = "claude" /\ UNCHANGED convs
       \/ /\ Def(c) # "claude" /\ engine'[c].conv = Len(convs) + 1
          /\ convs' = Append(convs, [kind |-> Def(c), turns |-> <<>>])

Worked(c) ==
    /\ engine[c] \in AdapterRow /\ engine[c] # None /\ engine'[c].kind = engine[c].kind
    /\ \A m \in Range(engine'[c].inq) : m \in Range(engine[c].inq) \/ Asked(c, m)
    /\ \A m \in Range(engine'[c].resp) : m \in Range(engine[c].resp) \/ Answered(c, m)
    /\ \/ engine'[c].conv = engine[c].conv
       \/ /\ engine[c].kind = "codex"
          /\ \E m \in Range(engine[c].resp) : engine'[c].conv = m.conv

LEMMA FreshAdapter ==
  ASSUME Typed, NEW c \in Cells, ensure(c), engine[c] = None PROVE Fresh(c)
<1>1. Def(c) \in EngineKind /\ "claude" \in EngineKind BY AtJob, DefKind DEF ensure, EngineKind
<1>2. Len(convs) + 1 \in Conversation /\ None \in Conversation
  BY DEF Typed, EnginesOK, Conversation
<1>3. ASSUME NEW k \in EngineKind, NEW v \in Conversation,
             engine' = [engine EXCEPT ![c] = Adapter(k, v)]
      PROVE  /\ engine'[c].kind = k /\ engine'[c].conv = v
             /\ engine'[c].inq = <<>> /\ engine'[c].resp = <<>> /\ engine'[c].out = <<>>
             /\ engine'[c].run = None /\ engine'[c].resume = None /\ engine'[c].session = None
  BY <1>3, FreshShape
<1>4. CASE /\ engine' = [engine EXCEPT ![c] = Adapter("claude", None)] /\ Def(c) = "claude"
           /\ UNCHANGED convs
  <2>1. /\ engine'[c].kind = "claude" /\ engine'[c].conv = None
        /\ engine'[c].inq = <<>> /\ engine'[c].resp = <<>> /\ engine'[c].out = <<>>
        /\ engine'[c].run = None /\ engine'[c].resume = None /\ engine'[c].session = None
    BY <1>1, <1>2, <1>3, <1>4
  <2> QED BY <1>2, <1>4, <2>1 DEF Fresh
<1>5. CASE /\ engine' = [engine EXCEPT ![c] = Adapter(Def(c), Len(convs) + 1)] /\ Def(c) # "claude"
           /\ convs' = Append(convs, [kind |-> Def(c), turns |-> <<>>])
  <2>1. /\ engine'[c].kind = Def(c) /\ engine'[c].conv = Len(convs) + 1
        /\ engine'[c].inq = <<>> /\ engine'[c].resp = <<>> /\ engine'[c].out = <<>>
        /\ engine'[c].run = None /\ engine'[c].resume = None /\ engine'[c].session = None
    BY <1>1, <1>2, <1>3, <1>5
  <2> QED BY <1>2, <1>5, <2>1 DEF Fresh
<1> QED BY <1>4, <1>5 DEF ensure

LEMMA Working ==
  ASSUME Typed, NEW c \in Cells, CellStep(c), engine'[c] # None, engine[c] # None
  PROVE  Worked(c)
<1>0. engine[c] \in AdapterRow BY HasAdapter
<1>1. /\ engine[c].inq \in Seq(Message) /\ engine[c].resp \in Seq(Response)
      /\ engine[c].id \in Nat /\ engine[c].conv \in Conversation /\ engine[c].resume \in Conversation
  BY <1>0, AdapterSeqs
<1>2. CASE UNCHANGED engine BY <1>0, <1>2 DEF Worked
<1>3. ASSUME NEW m \in Message, Asked(c, m), engine'[c].inq = Append(engine[c].inq, m),
             engine'[c].kind = engine[c].kind, engine'[c].conv = engine[c].conv,
             engine'[c].resp = engine[c].resp
      PROVE  Worked(c)
  <2>1. Range(engine'[c].inq) = Range(engine[c].inq) \cup {m} BY <1>1, <1>3, Added
  <2> QED BY <1>0, <1>3, <2>1 DEF Worked
<1>4. ASSUME engine'[c].inq = engine[c].inq,
             engine'[c].kind = engine[c].kind, engine'[c].conv = engine[c].conv,
             engine'[c].resp = engine[c].resp
      PROVE  Worked(c)
  BY <1>0, <1>4 DEF Worked
<1>5. ASSUME NEW what \in {"resume", "turn", "interrupt"}, NEW n \in Nat, NEW conv \in Conversation,
             Request(c, what, n, conv), engine[c].kind = "codex",
             \A m : m.what = what /\ m.n = n /\ m.conv = conv => Asked(c, m)
      PROVE  Worked(c)
  <2>1. PICK m : m = [id |-> engine[c].id + 1, what |-> what, n |-> n, conv |-> conv] OBVIOUS
  <2>2. m \in Message /\ m.what = what /\ m.n = n /\ m.conv = conv BY <1>1, <2>1 DEF Message
  <2> QED BY <1>0, <1>3, <1>5, <2>1, <2>2, RequestShape
<1>6. CASE ensure(c) BY <1>2, <1>6 DEF ensure
<1>7. CASE maybe_resume(c)
  <2>1. job[c] # None BY <1>7, AtJob DEF maybe_resume
  <2>2. PICK t : t = thread[job[c].thread] OBVIOUS
  <2>3. t.ethread \in Conversation /\ t.esession \in Conversation
    BY <2>1, <2>2, JobRow DEF Rows, ThreadRow, Conversation
  <2>4. CASE Request(c, "resume", 0, t.ethread) /\ engine[c].kind = "codex"
    BY <1>5, <2>1, <2>2, <2>3, <2>4 DEF Asked
  <2>5. CASE engine' = [engine EXCEPT ![c].resume = t.esession]
    BY <1>0, <1>4, <2>3, <2>5, ResumeNoted
  <2> QED BY <1>2, <1>7, <2>2, <2>4, <2>5 DEF maybe_resume
<1>8. CASE SkipResponse(c) \/ resume_thread(c) \/ StartAcked(c) \/ StartFails(c)
  <2>1. engine[c].resp # <<>> => /\ Range(Tail(engine[c].resp)) \subseteq Range(engine[c].resp)
                                 /\ Head(engine[c].resp) \in Range(engine[c].resp)
    BY <1>1, Read
  <2>2. CASE engine[c].resp # <<>> /\ engine' = [engine EXCEPT ![c].resp = Tail(engine[c].resp)]
    BY <1>0, <2>1, <2>2, RespSkipped DEF Worked
  <2>3. CASE resume_thread(c)
    <3>1. PICK q : q = Head(engine[c].resp) OBVIOUS
    <3>2. q \in Response /\ q.conv \in Conversation
      BY <1>0, <2>3, <3>1, Responses DEF resume_thread, Response
    <3>3. engine[c].kind = "codex" /\ engine[c].resp # <<>> BY <2>3, AtJob DEF resume_thread
    <3>4. PICK v \in Conversation :
            /\ engine' = [engine EXCEPT ![c].conv = v, ![c].resp = Tail(engine[c].resp)]
            /\ v = q.conv \/ v = engine[c].conv
      BY <1>1, <2>3, <3>1, <3>2 DEF resume_thread
    <3>5. /\ engine'[c].resp = Tail(engine[c].resp) /\ engine'[c].conv = v
          /\ engine'[c].kind = engine[c].kind /\ engine'[c].inq = engine[c].inq
      BY <1>0, <3>3, <3>4, RespTaken
    <3> QED BY <1>0, <2>1, <3>1, <3>3, <3>4, <3>5 DEF Worked
  <2>4. CASE StartAcked(c)
    <3>1. Head(engine[c].resp).n \in Nat /\ engine[c].resp # <<>>
      BY <1>0, <2>4, Responses DEF StartAcked
    <3>2. engine' = [engine EXCEPT
              ![c].out = <<[what |-> "accepted", n |-> Head(engine[c].resp).n]>> \o engine[c].out,
              ![c].resp = Tail(engine[c].resp)]
      BY <2>4 DEF StartAcked
    <3> QED BY <1>0, <2>1, <3>1, <3>2, AckShape DEF Worked
  <2>5. SkipResponse(c) \/ StartFails(c) =>
          \/ UNCHANGED engine
          \/ engine[c].resp # <<>> /\ engine' = [engine EXCEPT ![c].resp = Tail(engine[c].resp)]
    BY DEF SkipResponse, StartFails
  <2> QED BY <1>2, <1>8, <2>2, <2>3, <2>4, <2>5
<1>9. CASE start_turn(c)
  <2>1. job[c] \in Job /\ job[c] # None BY <1>9, AtJob DEF start_turn
  <2>2. job[c].n \in Nat BY <2>1 DEF Job
  <2>3. CASE engine[c].kind = "codex"
    <3>1. Request(c, "turn", job[c].n, engine[c].conv) BY <1>9, <2>3 DEF start_turn
    <3> QED BY <1>1, <1>5, <2>1, <2>2, <2>3, <3>1 DEF Asked
  <2>4. CASE engine[c].kind # "codex"
    <3>1. PICK m : m = [what |-> "turn", n |-> job[c].n, conv |-> engine[c].resume] OBVIOUS
    <3>2. /\ engine'[c].inq = Append(engine[c].inq, m) /\ engine'[c].kind = engine[c].kind
          /\ engine'[c].conv = engine[c].conv /\ engine'[c].resp = engine[c].resp
      BY <1>0, <1>9, <2>1, <2>4, <3>1, PromptShape DEF start_turn
    <3>3. m \in Message /\ m.what = "turn" /\ m.n = job[c].n BY <1>1, <2>2, <3>1 DEF Message
    <3>4. Asked(c, m) BY <2>1, <2>4, <3>3 DEF Asked
    <3> QED BY <1>3, <3>2, <3>3, <3>4
  <2> QED BY <2>3, <2>4
<1>10. CASE CodexTakes(c) \/ Interrupted(c)
  <2>1. engine[c].inq # <<>> BY <1>10 DEF CodexTakes, Interrupted, Ready
  <2>2. PICK q : q = Head(engine[c].inq) OBVIOUS
  <2>3. /\ q \in Range(engine[c].inq) /\ Range(Tail(engine[c].inq)) \subseteq Range(engine[c].inq)
        /\ q = Taken(c)
    BY <1>1, <2>1, <2>2, Read DEF Taken
  <2>4. q.n \in Nat /\ q.conv \in Conversation /\ (engine[c].kind = "codex" => q.id \in Nat)
    BY <1>0, <2>1, <2>2, Messages
  <2>5. \/ engine'[c].resp = engine[c].resp
        \/ /\ engine[c].kind = "codex"
           /\ \E ok \in BOOLEAN : engine'[c].resp =
                Append(engine[c].resp, [id |-> q.id, ok |-> ok, n |-> q.n, conv |-> q.conv])
    <3>1. CASE CodexTakes(c)
      <4>1. PICK ok \in BOOLEAN : Respond(c, Head(engine[c].inq), ok) BY <3>1 DEF CodexTakes
      <4>2. engine[c].kind = "codex" BY <3>1 DEF CodexTakes
      <4> QED BY <1>0, <2>1, <2>2, <2>4, <4>1, <4>2, RespondShape
    <3>2. CASE Interrupted(c) /\ engine[c].kind = "codex"
      BY <1>0, <2>1, <2>2, <2>4, <3>2, InterruptShape
    <3>3. CASE Interrupted(c) /\ engine[c].kind # "codex"
      BY <1>0, <1>1, <3>3 DEF Interrupted, Typed, EnginesOK
    <3> QED BY <1>10, <3>1, <3>2, <3>3
  <2>6. /\ engine'[c].inq = Tail(engine[c].inq) /\ engine'[c].kind = engine[c].kind
        /\ engine'[c].conv = engine[c].conv
    <3>1. CASE CodexTakes(c)
      <4>1. PICK ok \in BOOLEAN : Respond(c, Head(engine[c].inq), ok) BY <3>1 DEF CodexTakes
      <4>2. engine[c].kind = "codex" BY <3>1 DEF CodexTakes
      <4> QED BY <1>0, <2>1, <2>2, <2>4, <4>1, <4>2, RespondShape
    <3>2. CASE Interrupted(c) BY <1>0, <2>1, <2>2, <2>4, <3>2, InterruptShape
    <3> QED BY <1>10, <3>1, <3>2
  <2>7. ASSUME NEW m \in Range(engine'[c].resp)
        PROVE  m \in Range(engine[c].resp) \/ Answered(c, m)
    <3>1. CASE engine'[c].resp = engine[c].resp BY <2>7, <3>1
    <3>2. ASSUME engine[c].kind = "codex", NEW ok \in BOOLEAN, engine'[c].resp =
                Append(engine[c].resp, [id |-> q.id, ok |-> ok, n |-> q.n, conv |-> q.conv])
          PROVE  m \in Range(engine[c].resp) \/ Answered(c, m)
      <4>1. PICK x : x = [id |-> q.id, ok |-> ok, n |-> q.n, conv |-> q.conv] OBVIOUS
      <4>2. x \in Response /\ x.conv = q.conv BY <2>4, <3>2, <4>1 DEF Response
      <4>3. Range(engine'[c].resp) = Range(engine[c].resp) \cup {x}
        BY <1>1, <3>2, <4>1, <4>2, Added
      <4> QED BY <2>3, <2>7, <3>2, <4>2, <4>3 DEF Answered
    <3> QED BY <2>5, <3>1, <3>2
  <2> QED BY <1>0, <2>3, <2>6, <2>7 DEF Worked
<1>11. CASE PromptTaken(c) \/ PromptRefused(c)
  <2>1. engine[c].inq # <<>> /\ engine'[c].inq = Tail(engine[c].inq)
        /\ engine'[c].kind = engine[c].kind /\ engine'[c].conv = engine[c].conv
        /\ engine'[c].resp = engine[c].resp
    BY <1>11, PromptEffect
  <2>2. Range(Tail(engine[c].inq)) \subseteq Range(engine[c].inq) BY <1>1, <2>1, Read
  <2> QED BY <1>0, <2>1, <2>2 DEF Worked
<1>12. CASE EngineEnds(c) BY <1>4, <1>12, EndEffect
<1>13. CASE Dies(c)
  <2>1. /\ engine'[c].inq = <<>> /\ engine'[c].kind = engine[c].kind
        /\ engine'[c].conv = engine[c].conv /\ engine'[c].resp = engine[c].resp
    BY <1>0, <1>13, DiesShape
  <2>2. Range(engine'[c].inq) = {} BY <2>1, Nothing
  <2> QED BY <1>0, <2>1, <2>2 DEF Worked
<1>14. CASE OnAccepted(c) BY <1>4, <1>14, AcceptedEffect
<1>15. CASE OnFinal(c) \/ OnFailed(c)
  <2>1. engine' = [engine EXCEPT ![c].out = <<>>] BY <1>15 DEF OnFinal, OnFailed
  <2> QED BY <1>0, <1>4, <2>1, EventsDropped
<1>16. CASE Death(c)
  <2>1. engine'[c] = None BY <1>16 DEF Death, Typed, EnginesOK
  <2> QED BY <2>1
<1>17. CASE Timeout(c)
  <2>1. CASE engine[c].kind = "codex"
    <3>1. Request(c, "interrupt", 0, None) BY <1>17, <2>1 DEF Timeout, interrupt
    <3>2. None \in Conversation BY DEF Conversation
    <3> QED BY <1>5, <2>1, <3>1, <3>2 DEF Asked
  <2>2. CASE engine[c].kind # "codex"
    <3>1. PICK m : m = [what |-> "interrupt", n |-> 0, conv |-> None] OBVIOUS
    <3>2. /\ engine'[c].inq = Append(engine[c].inq, m) /\ engine'[c].kind = engine[c].kind
          /\ engine'[c].conv = engine[c].conv /\ engine'[c].resp = engine[c].resp
      BY <1>0, <1>17, <2>2, <3>1, LineInterruptShape DEF Timeout
    <3>3. m \in Message /\ Asked(c, m) BY <3>1 DEF Message, Conversation, Asked
    <3> QED BY <1>3, <3>2, <3>3
  <2> QED BY <2>1, <2>2
<1>18. CASE Lease(c) \/ SpawnFails(c) \/ ResumeFails(c) \/ LeaseExpires(c)
  BY <1>2, <1>18 DEF Lease, SpawnFails, ResumeFails, LeaseExpires
<1> QED
  BY <1>6, <1>7, <1>8, <1>9, <1>10, <1>11, <1>12, <1>13, <1>14, <1>15, <1>16, <1>17, <1>18
  DEF CellStep

LEMMA Engaged ==
  ASSUME Typed, NEW c \in Cells, CellStep(c), engine'[c] # None
  PROVE  (engine[c] = None /\ Fresh(c)) \/ Worked(c)
<1> SUFFICES ASSUME engine[c] = None PROVE Fresh(c) BY Working
<1>1. ~ UNCHANGED engine BY DEF Cells
<1>2. ensure(c) => Fresh(c) BY FreshAdapter
<1>3. c \notin flight BY FlightAdapter
<1>4. \A step : At(c, step) => step = "ensure" BY AtJob
<1>5. ~ (Lease(c) \/ SpawnFails(c) \/ maybe_resume(c) \/ SkipResponse(c) \/ resume_thread(c)
         \/ ResumeFails(c) \/ start_turn(c) \/ StartAcked(c) \/ StartFails(c))
  BY <1>1, <1>4
  DEF Lease, SpawnFails, maybe_resume, SkipResponse, resume_thread, ResumeFails, start_turn,
      StartAcked, StartFails
<1>6. ~ (CodexTakes(c) \/ PromptTaken(c) \/ PromptRefused(c) \/ Interrupted(c)
         \/ EngineEnds(c) \/ Dies(c) \/ OnAccepted(c) \/ OnFinal(c) \/ OnFailed(c)
         \/ Death(c) \/ Timeout(c) \/ LeaseExpires(c))
  BY <1>1, <1>3
  DEF CodexTakes, PromptTaken, PromptRefused, Interrupted, EngineEnds, Dies, Event, OnAccepted,
      OnFinal, OnFailed, Death, Timeout, LeaseExpires
<1> QED BY <1>2, <1>5, <1>6 DEF CellStep

LEMMA AskedCell ==
  ASSUME Typed, TurnsInv, [Next]_vars, NEW c \in Cells, CellStep(c) PROVE AskedOK(c)'
<1> SUFFICES ASSUME engine'[c] # None PROVE AskedOK(c)' BY DEF AskedOK
<1>1. CASE Fresh(c)
  <2>1. Range(engine'[c].inq) = {} BY <1>1, Nothing DEF Fresh
  <2>2. Def(c) = "pi" => engine'[c].conv # None
    BY <1>1, EnginesAssumption DEF Fresh, Typed, EnginesOK
  <2>3. engine'[c].kind = Def(c) BY <1>1 DEF Fresh
  <2> QED BY <2>1, <2>2, <2>3 DEF AskedOK
<1>2. CASE Worked(c)
  <2>1. /\ engine[c] # None /\ engine'[c].kind = engine[c].kind
        /\ engine[c].kind = "pi" => engine'[c].conv = engine[c].conv
        /\ AskedOK(c)
    BY <1>2 DEF Worked, TurnsInv
  <2>2. ASSUME NEW m \in Range(engine'[c].inq)
        PROVE  /\ m.what = "turn" => StartedOn(m.n, c)'
               /\ m.what = "resume" => engine'[c].kind = "codex"
    <3>1. CASE m \in Range(engine[c].inq) BY <2>1, <3>1, StartedKept DEF AskedOK
    <3>2. CASE Asked(c, m)
      <4>1. job[c] # None => StartedOn(job[c].n, c) BY JobRow DEF StartedOn
      <4> QED BY <2>1, <3>2, <4>1, StartedKept DEF Asked
    <3> QED BY <1>2, <3>1, <3>2 DEF Worked
  <2> QED BY <2>1, <2>2 DEF AskedOK
<1> QED BY <1>1, <1>2, Engaged

LEMMA TurnsStep == ASSUME Typed, TurnsInv, [Next]_vars PROVE TurnsInv'
<1>1. ASSUME UNCHANGED convs, \A d \in Cells : engine'[d] = engine[d] \/ engine'[d] = None
      PROVE  TurnsInv'
  <2>1. ASSUME NEW d \in Cells PROVE AskedOK(d)'
    <3>1. CASE engine'[d] = engine[d] BY <3>1, StartedKept DEF AskedOK, TurnsInv
    <3>2. CASE engine'[d] = None BY <3>2 DEF AskedOK
    <3> QED BY <1>1, <3>1, <3>2
  <2> QED BY <1>1, <2>1, OwnersGrow DEF TurnsInv, Conv
<1>2. ASSUME NEW c \in Cells, CellStep(c) PROVE TurnsInv'
  <2>1. ASSUME NEW d \in Cells PROVE AskedOK(d)'
    <3>1. CASE d = c BY <1>2, <3>1, AskedCell
    <3>2. CASE d # c BY <1>2, <3>2, Elsewhere, StartedKept DEF AskedOK, TurnsInv
    <3> QED BY <3>1, <3>2
  <2>2. ASSUME NEW i \in Conv', NEW k \in 1..Len(convs'[i].turns)
        PROVE  convs'[i].turns[k] \in 1..Len(owner')
    <3>1. CASE i \in Conv /\ k \in 1..Len(convs[i].turns) /\ convs'[i].turns[k] = convs[i].turns[k]
      BY <3>1, OwnersGrow DEF TurnsInv
    <3>2. CASE StartedOn(Taken(c).n, c) /\ convs'[i].turns[k] = Taken(c).n
      BY <3>2, OwnersGrow DEF StartedOn
    <3>3. CASE i \notin Conv
      <4>1. convs'[i].turns = <<>> \/ (convs'[i].turns = <<Taken(c).n>> /\ StartedOn(Taken(c).n, c))
        BY <1>2, <3>3, ConvGrown
      <4>2. PICK p : p = convs'[i].turns OBVIOUS
      <4>3. p # <<>> => p[k] = Taken(c).n BY <2>2, <4>1, <4>2
      <4>4. p # <<>> BY <2>2, <4>2
      <4> QED BY <3>2, <4>1, <4>2, <4>3, <4>4
    <3> QED BY <1>2, <3>1, <3>2, <3>3, ConvGrown
  <2> QED BY <2>1, <2>2 DEF TurnsInv
<1>3. CASE UNCHANGED engines BY <1>1, <1>3 DEF engines
<1>4. CASE Restart BY <1>1, <1>4 DEF Restart
<1> QED BY <1>2, <1>3, <1>4 DEF Next, CellStep, vars

-----------------------------------------------------------------------------
(***************************************************************************)
(* A conversation of codex or pi has one home.                             *)
(***************************************************************************)

(* The engine ids of a thread change when a turn of it ends with an answer. *)
LEMMA RowIds ==
  ASSUME Typed, NEW c \in Cells, CellStep(c), NEW r \in Rows'
  PROVE  /\ r \in Rows /\ thread'[r].cell = thread[r].cell
         /\ \/ thread'[r].ethread = thread[r].ethread /\ thread'[r].esession = thread[r].esession
            \/ /\ OnFinal(c) /\ r = job[c].thread /\ thread[r].cell = c
               /\ c \in flight /\ engine[c] \in AdapterRow
               /\ thread'[r].ethread =
                    IF engine[c].kind = "codex" THEN engine[c].conv ELSE thread[r].ethread
               /\ thread'[r].esession =
                    IF engine[c].kind = "claude" /\ engine[c].session # None
                    THEN engine[c].session ELSE thread[r].esession
<1>1. r \in Rows /\ thread'[r].cell = thread[r].cell BY CellFrame DEF TableOK
<1>2. CASE IdsSame BY <1>1, <1>2 DEF IdsSame
<1>3. CASE OnFinal(c) /\ r # job[c].thread BY <1>1, <1>3, FinalRows
<1>4. CASE OnFinal(c) /\ r = job[c].thread
  <2>1. /\ c \in flight /\ engine[c] \in AdapterRow /\ r \in Rows
        /\ thread'[r] = Persisted(thread[r], engine[c])
    BY <1>4, FinalRows
  <2>2. job[c] # None BY <2>1, FlightAdapter
  <2>3. thread[r].cell = c BY <1>4, <2>2, JobRow
  <2>4. PICK t : t = thread[r] OBVIOUS
  <2>5. t \in ThreadRow BY <2>1, <2>4 DEF Rows
  <2>6. /\ Persisted(t, engine[c]).ethread =
                    IF engine[c].kind = "codex" THEN engine[c].conv ELSE t.ethread
        /\ Persisted(t, engine[c]).esession =
               IF engine[c].kind = "claude" /\ engine[c].session # None
               THEN engine[c].session ELSE t.esession
    BY <2>1, <2>5, FinalRow
  <2> QED BY <1>1, <1>4, <2>1, <2>3, <2>4, <2>6
<1> QED BY <1>2, <1>3, <1>4, CellFrame

(* What a cell holds it held, or it is its new process's. *)
LEMMA HeldCell ==
  ASSUME Typed, NEW c \in Cells, CellStep(c), NEW d \in Cells, NEW i \in Nat, Holds(d, i)'
  PROVE  Holds(d, i) \/ (d = c /\ Fresh(c) /\ Def(c) # "claude" /\ i = Len(convs) + 1)
<1>1. ASSUME NEW r \in Rows', thread'[r].cell = d, thread'[r].ethread = i PROVE Holds(d, i)
  <2>1. r \in Rows /\ thread'[r].cell = thread[r].cell BY RowIds
  <2>2. CASE thread'[r].ethread = thread[r].ethread BY <1>1, <2>1, <2>2 DEF Holds
  <2>3. CASE /\ thread[r].cell = c /\ engine[c] \in AdapterRow
             /\ engine[c].kind = "codex" /\ thread'[r].ethread = engine[c].conv
    BY <1>1, <2>1, <2>3, EnginesAssumption DEF Holds
  <2> QED BY <2>2, <2>3, RowIds
<1>2. ASSUME engine'[d] # None, d # c,
             \/ engine'[d].kind # "claude" /\ engine'[d].conv = i
             \/ /\ engine'[d].kind = "codex"
                /\ \E m \in Range(engine'[d].inq) \cup Range(engine'[d].resp) : m.conv = i
      PROVE  Holds(d, i)
  <2>1. engine'[d] = engine[d] BY <1>2, Elsewhere
  <2> QED BY <1>2, <2>1 DEF Holds
<1>3. ASSUME engine'[c] # None, engine'[c].kind # "claude", engine'[c].conv = i
      PROVE  Holds(c, i) \/ (Fresh(c) /\ Def(c) # "claude" /\ i = Len(convs) + 1)
  <2>1. CASE Fresh(c) BY <1>3, <2>1 DEF Fresh
  <2>2. CASE Worked(c) BY <1>3, <2>2 DEF Worked, Holds
  <2> QED BY <1>3, <2>1, <2>2, Engaged
<1>4. ASSUME engine'[c] # None, engine'[c].kind = "codex",
             NEW m \in Range(engine'[c].inq) \cup Range(engine'[c].resp), m.conv = i
      PROVE  Holds(c, i)
  <2>1. CASE Fresh(c)
    <3>1. Range(engine'[c].inq) = {} /\ Range(engine'[c].resp) = {} BY <2>1, Nothing DEF Fresh
    <3> QED BY <1>4, <3>1
  <2>2. CASE Worked(c)
    <3>1. engine[c] # None /\ engine[c].kind = "codex" BY <1>4, <2>2 DEF Worked
    <3>2. CASE m \in Range(engine[c].inq) \cup Range(engine[c].resp)
      BY <1>4, <3>1, <3>2 DEF Holds
    <3>3. CASE Asked(c, m)
      <4>1. job[c] # None => job[c].thread \in Rows /\ thread[job[c].thread].cell = c BY JobRow
      <4>2. CASE m.conv = None BY <1>4, <4>2, EnginesAssumption
      <4>3. CASE m.conv = engine[c].conv BY <1>4, <3>1, <4>3 DEF Holds
      <4>4. CASE job[c] # None /\ m.conv = thread[job[c].thread].ethread
        BY <1>4, <4>1, <4>4 DEF Holds
      <4> QED BY <3>1, <3>3, <4>2, <4>3, <4>4 DEF Asked
    <3>4. CASE Answered(c, m) BY <1>4, <3>1, <3>4 DEF Answered, Holds
    <3> QED BY <1>4, <2>2, <3>2, <3>3, <3>4 DEF Worked
  <2> QED BY <1>4, <2>1, <2>2, Engaged
<1> QED BY <1>1, <1>2, <1>3, <1>4 DEF Holds

LEMMA HomeCell ==
  ASSUME Typed, TurnsInv, SessionInv, HomeInv, Honest, [Next]_vars,
         NEW c \in Cells, CellStep(c)
  PROVE  HomeInv'
<1>0. /\ \A d \in Cells, i \in Nat : Holds(d, i) => i \in Conv /\ convs[i].kind # "claude"
      /\ \A i \in Conv : convs[i].kind # "claude" => \E d \in Cells : Home(i, d)
      /\ ClaudeOK(c)
  BY DEF HomeInv, SessionInv
<1>1. Conv \subseteq Nat /\ Len(convs) + 1 \notin Conv /\ Conv' \subseteq Nat /\ convs \in Seq(ConvRow)
  <2>1. convs \in Seq(ConvRow) /\ convs' \in Seq(ConvRow)
    BY TypedStep DEF Typed, EnginesOK, ConvRow
  <2> QED BY <2>1 DEF Conv
<1>2. /\ \A i \in Conv : i \in Conv' /\ convs'[i].kind = convs[i].kind
      /\ \A i \in Conv' \ Conv : i = Len(convs) + 1
  BY ConvGrown
<1>3. ASSUME Fresh(c), Def(c) # "claude"
      PROVE  Len(convs) + 1 \in Conv' /\ convs'[Len(convs) + 1].kind = Def(c)
             /\ convs'[Len(convs) + 1].turns = <<>>
  <2>1. PICK x : x = [kind |-> Def(c), turns |-> <<>>] OBVIOUS
  <2>2. convs' = Append(convs, x) BY <1>3, <2>1 DEF Fresh
  <2>3. job[c] # None BY <1>3, AtJob DEF Fresh, ensure
  <2>4. x \in ConvRow /\ x.kind = Def(c) /\ x.turns = <<>> BY <2>1, <2>3, DefKind DEF ConvRow
  <2>5. Len(convs) + 1 \in 1..Len(convs') /\ convs'[Len(convs) + 1] = x BY <1>1, <2>2, <2>4
  <2> QED BY <2>4, <2>5 DEF Conv
<1>4. ASSUME NEW d \in Cells, NEW i \in Nat, Holds(d, i)'
      PROVE  i \in Conv' /\ convs'[i].kind # "claude"
  BY <1>0, <1>2, <1>3, <1>4, HeldCell
<1>5. ASSUME NEW i \in Conv, convs[i].kind # "claude", NEW h \in Cells, Home(i, h)
      PROVE  Home(i, h)'
  <2>1. \A d \in Cells : Holds(d, i)' => d = h BY <1>1, <1>5, HeldCell DEF Home
  <2>2. ASSUME NEW k \in 1..Len(convs'[i].turns) PROVE StartedOn(convs[i].turns[k], h)'
    <3>0. ASSUME NEW n, n = convs'[i].turns[k], StartedOn(n, h)
          PROVE  StartedOn(convs[i].turns[k], h)'
      BY <3>0, StartedKept DEF StartedOn
    <3>1. CASE k \in 1..Len(convs[i].turns) /\ convs'[i].turns[k] = convs[i].turns[k]
      BY <1>5, <3>0, <3>1 DEF Home
    <3>2. CASE /\ engine[c] \in AdapterRow /\ Taken(c) \in Range(engine[c].inq)
               /\ StartedOn(Taken(c).n, c)
               /\ i = Fed(c) /\ convs'[i].turns[k] = Taken(c).n
      <4>1. engine[c] # None /\ i # None BY <1>1, <3>2, EnginesAssumption
      <4>2. engine[c].kind # "claude"
        <5> SUFFICES ASSUME engine[c].kind = "claude" PROVE FALSE OBVIOUS
        <5>1. Taken(c).conv = i BY <3>2 DEF Fed
        <5>2. Own(i, job[c].thread) BY <1>0, <3>2, <4>1, <5>1 DEF ClaudeOK
        <5> QED BY <1>5, <5>2 DEF Own
      <4>3. engine[c].kind \in {"codex", "pi"} BY <3>2, <4>2 DEF AdapterRow, EngineKind
      <4>4. Holds(c, i) BY <3>2, <4>1, <4>3 DEF Holds, Fed
      <4>5. c = h BY <1>5, <4>4 DEF Home
      <4> QED BY <3>0, <3>2, <4>5
    <3> QED BY <3>1, <3>2, ConvGrown
  <2> QED BY <2>1, <2>2 DEF Home
<1>6. ASSUME NEW i \in Conv', i \notin Conv, convs'[i].kind # "claude" PROVE Home(i, c)'
  <2>1. i = Len(convs) + 1 /\ convs'[i].turns = <<>> BY <1>6, ConvGrown
  <2>2. ASSUME NEW d \in Cells, Holds(d, i)' PROVE d = c
    BY <1>0, <1>1, <1>6, <2>2, HeldCell
  <2>3. 1..Len(convs'[i].turns) = {} BY <2>1, Nothing
  <2> QED BY <2>2, <2>3 DEF Home
<1>7. ASSUME NEW i \in Conv', convs'[i].kind # "claude" PROVE \E h \in Cells : Home(i, h)'
  <2>1. CASE i \in Conv
    <3>1. convs[i].kind # "claude" BY <1>2, <1>7, <2>1
    <3>2. PICK h \in Cells : Home(i, h) BY <1>0, <2>1, <3>1
    <3> QED BY <1>5, <2>1, <3>1, <3>2
  <2>2. CASE i \notin Conv BY <1>6, <1>7, <2>2
  <2> QED BY <2>1, <2>2
<1> QED BY <1>4, <1>7 DEF HomeInv

LEMMA HomeStep ==
  ASSUME Typed, TurnsInv, SessionInv, HomeInv, [Next]_vars PROVE HomeInv'
<1> SUFFICES ASSUME Honest' PROVE HomeInv' BY DEF HomeInv
<1>0. Honest BY Seen
<1>1. ASSUME UNCHANGED convs, \A d \in Cells, i \in Nat : Holds(d, i)' => Holds(d, i)
      PROVE  HomeInv'
  <2>1. ASSUME NEW i \in Conv, convs[i].kind # "claude" PROVE \E h \in Cells : Home(i, h)'
    <3>1. PICK h \in Cells : Home(i, h) BY <1>0, <2>1 DEF HomeInv
    <3>2. i \in Nat BY DEF Conv, Typed, EnginesOK
    <3> QED BY <1>1, <3>1, <3>2, StartedKept DEF Home
  <2> QED BY <1>0, <1>1, <2>1 DEF HomeInv, Conv
<1>2. ASSUME UNCHANGED engines, NEW d \in Cells, NEW i \in Nat, Holds(d, i)',
             \A r \in Rows' : thread'[r].ethread \in Nat =>
               r \in Rows /\ thread'[r].cell = thread[r].cell /\ thread'[r].ethread = thread[r].ethread
      PROVE  Holds(d, i)
  BY <1>2 DEF engines, Holds
<1>3. CASE RegistryNext /\ UNCHANGED engines
  <2>1. UNCHANGED thread \/ \E r \in Requests : SpawnWrite(r)
    BY <1>3 DEF RegistryNext, cell_register, cell_update, worktree_mark_cleanup, worktree_record,
       WriteDef, WriteWorktree, resolve_spawn_target, SpawnReplay, SpawnAudit, SpawnAuditFails,
       handle_send_task, rows
  <2>2. ASSUME NEW r \in Rows', thread'[r].ethread \in Nat

        PROVE  r \in Rows /\ thread'[r].cell = thread[r].cell /\ thread'[r].ethread = thread[r].ethread
    <3>1. CASE UNCHANGED thread BY <2>2, <3>1 DEF Rows
    <3>2. ASSUME NEW q \in Requests, SpawnWrite(q)

          PROVE  r \in Rows /\ thread'[r].cell = thread[r].cell /\ thread'[r].ethread = thread[r].ethread
      <4>1. r \in Requests /\ thread'[r] \in ThreadRow BY <2>2 DEF Rows
      <4>2. CASE r # q BY <3>2, <4>1, <4>2, SpawnRows DEF Rows
      <4>3. CASE r = q
        BY <2>2, <3>2, <4>1, <4>3, SpawnRows, RegistryAssumption, EnginesAssumption
      <4> QED BY <4>2, <4>3
    <3> QED BY <2>1, <3>1, <3>2
  <2> QED BY <1>1, <1>2, <1>3, <2>2 DEF engines
<1>4. CASE Restart
  <2>1. UNCHANGED convs /\ \A d \in Cells : engine'[d] = None BY <1>4 DEF Restart
  <2>2. ASSUME NEW d \in Cells, NEW i \in Nat, Holds(d, i)' PROVE Holds(d, i)
    <3>1. PICK r \in Rows' : thread'[r].cell = d /\ thread'[r].ethread = i
      BY <2>1, <2>2 DEF Holds
    <3>2. r \in Rows /\ thread[r].cell = d /\ thread[r].ethread = i
      BY <1>4, <3>1, RestartRows DEF TableOK
    <3> QED BY <3>2 DEF Holds
  <2> QED BY <1>1, <2>1, <2>2
<1>5. CASE UNCHANGED vars
  <2>1. UNCHANGED <<engines, thread>> BY <1>5 DEF vars, registry, rows
  <2> QED BY <1>1, <1>2, <2>1 DEF Rows, engines
<1>6. ASSUME NEW c \in Cells, CellStep(c) PROVE HomeInv' BY <1>0, <1>6, HomeCell
<1> QED BY <1>3, <1>4, <1>5, <1>6 DEF Next, CellStep

-----------------------------------------------------------------------------
(***************************************************************************)
(* A claude session is one thread's.                                       *)
(***************************************************************************)
Good ==
    /\ Typed /\ LineInv /\ TurnsInv /\ SessionInv /\ HomeInv
    /\ Honest /\ Without({"timeout"})

(* The prompt a claude process takes is the turn in flight.                *)
LEMMA TakenTurn ==
  ASSUME Good, NEW c \in Cells, engine[c] \in AdapterRow, engine[c].kind = "claude",
         Taken(c) \in Range(engine[c].inq)
  PROVE  /\ job[c] # None /\ Taken(c).n = job[c].n /\ owner[job[c].n] = job[c].thread
         /\ job[c].n \in 1..Len(owner) /\ job[c].thread \in Requests /\ c \in flight
         /\ Taken(c).conv # None => Own(Taken(c).conv, job[c].thread)
<1>1. engine[c] # None BY EnginesAssumption
<1>2. Typed /\ LineOK(c) /\ ClaudeOK(c) BY DEF Good, LineInv, SessionInv
<1>3. engine[c].inq # <<>>
  <2>1. engine[c].inq \in Seq(Message) BY AdapterSeqs
  <2> QED BY <2>1, InRange
<1>4. c \in flight /\ Taken(c).n = job[c].n BY <1>2, <1>3, LineHas
<1>5. job[c] # None BY <1>2, <1>4, FlightAdapter
<1> QED BY <1>1, <1>2, <1>4, <1>5, JobRow DEF ClaudeOK, Rows

LEMMA OwnKept ==
  ASSUME Good, [Next]_vars, NEW c \in Cells, CellStep(c), NEW i, NEW r, Own(i, r)
  PROVE  Own(i, r)'
<1>0. Typed /\ TurnsInv /\ HomeInv /\ Honest BY DEF Good
<1>1. i \in Conv /\ convs[i].kind = "claude" /\ convs[i].turns # <<>> BY DEF Own
<1>2. i \in Conv' /\ convs'[i].kind = "claude" /\ convs'[i].turns # <<>>
  BY <1>0, <1>1, ConvGrown
<1>3. ASSUME NEW k \in 1..Len(convs'[i].turns) PROVE owner'[convs'[i].turns[k]] = r
  <2>1. ASSUME NEW n \in 1..Len(owner), n = convs'[i].turns[k], owner[n] = r
        PROVE  owner'[convs'[i].turns[k]] = r
    BY <1>0, <2>1, OwnersGrow
  <2>2. CASE k \in 1..Len(convs[i].turns) /\ convs'[i].turns[k] = convs[i].turns[k]
    BY <1>0, <1>1, <2>1, <2>2 DEF Own, TurnsInv
  <2>3. CASE /\ engine[c] \in AdapterRow /\ Taken(c) \in Range(engine[c].inq)
             /\ i = Fed(c) /\ convs'[i].turns[k] = Taken(c).n
    <3>1. engine[c] # None BY <2>3, EnginesAssumption
    <3>2. i \in Nat /\ i # None BY <1>0, <1>1, EnginesAssumption DEF Conv, Typed, EnginesOK
    <3>3. engine[c].kind = "claude"
      <4> SUFFICES ASSUME engine[c].kind # "claude" PROVE FALSE OBVIOUS
      <4>1. engine[c].kind \in {"codex", "pi"} BY <2>3 DEF AdapterRow, EngineKind
      <4>2. Holds(c, i) BY <2>3, <3>1, <4>1 DEF Holds, Fed
      <4> QED BY <1>0, <1>1, <3>2, <4>2 DEF HomeInv
    <3>4. /\ Taken(c).n = job[c].n /\ owner[job[c].n] = job[c].thread
          /\ job[c].n \in 1..Len(owner) /\ Own(i, job[c].thread)
      BY <2>3, <3>2, <3>3, TakenTurn DEF Fed
    <3>5. job[c].thread = r
      <4>1. PICK p : p = convs[i].turns OBVIOUS
      <4>2. p \in Seq(Nat)
        <5>1. convs \in Seq(ConvRow) BY <1>0 DEF Typed, EnginesOK, ConvRow
        <5>2. convs[i] \in ConvRow BY <1>1, <5>1 DEF Conv
        <5> QED BY <4>1, <5>2 DEF ConvRow
      <4>3. 1 \in 1..Len(p) BY <1>1, <4>1, <4>2
      <4> QED BY <3>4, <4>1, <4>3 DEF Own
    <3> QED BY <2>1, <2>3, <3>4, <3>5
  <2> QED BY <1>0, <1>1, <2>2, <2>3, ConvGrown
<1> QED BY <1>2, <1>3 DEF Own

(* A session that is opened is the thread's whose turn opens it.           *)
LEMMA OwnOpened ==
  ASSUME Good, [Next]_vars, NEW c \in Cells, CellStep(c), NEW i \in Conv' \ Conv,
         convs'[i].kind = "claude"
  PROVE  /\ i = Len(convs) + 1 /\ job[c].thread \in Requests
         /\ \A r : r = job[c].thread => Own(i, r)'
<1>0. Typed /\ TurnsInv BY DEF Good
<1>1. CASE /\ PromptTaken(c) /\ engine[c].kind = "claude"
           /\ convs'[i].turns = <<Taken(c).n>>
           /\ engine[c] \in AdapterRow /\ Taken(c) \in Range(engine[c].inq)
  <2>1. /\ Taken(c).n = job[c].n /\ owner[job[c].n] = job[c].thread
        /\ job[c].n \in 1..Len(owner) /\ job[c].thread \in Requests
    BY <1>1, TakenTurn
  <2>2. owner'[job[c].n] = job[c].thread BY <1>0, <2>1, OwnersGrow
  <2>3. PICK n : n = job[c].n OBVIOUS
  <2>4. convs'[i].turns = <<n>> BY <1>1, <2>1, <2>3
  <2>5. convs'[i].turns # <<>> /\ \A k \in 1..Len(convs'[i].turns) : convs'[i].turns[k] = n
    BY <2>4
  <2>6. i = Len(convs) + 1 BY <1>0, ConvGrown
  <2> QED BY <2>1, <2>2, <2>3, <2>5, <2>6 DEF Own
<1> QED BY <1>0, <1>1, ConvGrown

LEMMA AtKept ==
  ASSUME Typed, NEW c \in Cells, CellStep(c), NEW d \in Cells \ {c}, NEW step, At(d, step)
  PROVE  At(d, step)'
<1>1. sched # None /\ sched.cell # c BY DEF At
<1>2. CASE UNCHANGED sched BY <1>2 DEF At
<1> QED BY <1>1, <1>2
  DEF CellStep, At, Event, Lease, ensure, SpawnFails, maybe_resume, SkipResponse, resume_thread,
      ResumeFails, start_turn, StartAcked, StartFails, CodexTakes, PromptTaken, PromptRefused,
      Interrupted, EngineEnds, Dies, OnAccepted, OnFinal, OnFailed, Death, Timeout, LeaseExpires

LEMMA ResumeCell ==
  ASSUME Good, [Next]_vars, NEW c \in Cells, CellStep(c) PROVE ResumeOK(c)'
<1> SUFFICES ASSUME engine'[c] # None, engine'[c].resume # None PROVE ResumeOK(c)' BY DEF ResumeOK
<1>0. /\ Typed /\ (engine[c] # None => engine[c] \in AdapterRow)
      /\ ResumeOK(c)
  <2>1. Typed /\ ResumeOK(c) BY DEF Good, SessionInv
  <2> QED BY <2>1, HasAdapter
<1>1. CASE Fresh(c) BY <1>1 DEF Fresh
<1>2. ASSUME engine[c] # None, engine'[c].resume = engine[c].resume,
             engine'[c].kind = engine[c].kind, engine'[c].up => engine[c].up,
             \/ UNCHANGED <<sched, job>>
             \/ engine[c].up => ~ At(c, "turn")
             \/ engine[c].kind # "claude"
      PROVE  ResumeOK(c)'
  <2>1. engine[c].kind = "claude" BY <1>0, <1>2 DEF ResumeOK
  <2>2. ASSUME engine'[c].up PROVE (At(c, "turn") /\ Own(engine[c].resume, job[c].thread))'
    <3>1. At(c, "turn") /\ Own(engine[c].resume, job[c].thread)
      BY <1>0, <1>2, <2>2 DEF ResumeOK
    <3>2. UNCHANGED <<sched, job>> BY <1>2, <2>1, <2>2, <3>1
    <3>3. \A i, r : Own(i, r) => Own(i, r)' BY OwnKept
    <3>4. PICK i, r : i = engine[c].resume /\ r = job[c].thread OBVIOUS
    <3>5. Own(i, r)' BY <3>1, <3>3, <3>4
    <3>6. i = engine'[c].resume /\ r = job'[c].thread BY <1>2, <3>2, <3>4
    <3>7. At(c, "turn")' BY <3>1, <3>2 DEF At
    <3> QED BY <3>5, <3>6, <3>7 DEF Own
  <2> QED BY <1>2, <2>1, <2>2 DEF ResumeOK
<1>3. \A step : At(c, step) /\ step # "turn" => ~ At(c, "turn") BY DEF At
<1>4. sched = None => ~ At(c, "turn") BY DEF At
<1>5. CASE engine[c] = None BY <1>0, <1>1, <1>5, Engaged DEF Worked
<1>6. CASE engine[c] # None /\ UNCHANGED engine
           /\ (UNCHANGED <<sched, job>> \/ ~ At(c, "turn") \/ ~ engine[c].up)
  BY <1>2, <1>6
<1>7. CASE Lease(c) \/ SpawnFails(c) \/ ResumeFails(c) \/ LeaseExpires(c)
  <2>1. UNCHANGED engine /\ ~ At(c, "turn")
    BY <1>3, <1>4, <1>7 DEF Lease, SpawnFails, ResumeFails, LeaseExpires
  <2> QED BY <1>5, <1>6, <2>1
<1>8. CASE ensure(c)
  <2>1. engine[c] = None \/ UNCHANGED engine BY <1>8 DEF ensure
  <2>2. ~ At(c, "turn") BY <1>3, <1>8 DEF ensure
  <2> QED BY <1>5, <1>6, <2>1, <2>2
<1>9. CASE maybe_resume(c)
  <2>1. /\ engine[c] \in AdapterRow /\ engine[c] # None /\ job[c] # None /\ ~ At(c, "turn")
        /\ UNCHANGED job
    BY <1>0, <1>3, <1>9, AtJob DEF maybe_resume
  <2>2. PICK t : t = thread[job[c].thread] OBVIOUS
  <2>3. /\ t.ethread \in Conversation /\ t.esession \in Conversation
        /\ job[c].thread \in Rows
    BY <1>0, <2>1, <2>2, JobRow DEF Rows, ThreadRow, Conversation
  <2>4. CASE Request(c, "resume", 0, t.ethread)
    BY <1>0, <1>2, <2>1, <2>3, <2>4, RequestShape
  <2>5. CASE /\ engine' = [engine EXCEPT ![c].resume = t.esession] /\ engine[c].kind = "claude"
             /\ t.esession # None /\ Goto(c, "turn")
    <3>1. engine'[c].resume = t.esession /\ engine'[c].kind = "claude"
      BY <1>0, <2>1, <2>3, <2>5, ResumeNoted
    <3>2. PICK r : r = job[c].thread OBVIOUS
    <3>3. Own(t.esession, r) BY <2>2, <2>3, <2>5, <3>2 DEF Good, SessionInv
    <3>4. PICK i : i = t.esession OBVIOUS
    <3>5. Own(i, r)' BY <3>3, <3>4, OwnKept
    <3>6. i = engine'[c].resume /\ r = job'[c].thread BY <2>1, <3>1, <3>2, <3>4
    <3>7. At(c, "turn")'
      <4>1. sched' # None /\ sched' = [cell |-> c, at |-> "turn"]
        <5>1. [cell |-> c, at |-> "turn"] \in Place BY DEF Place
        <5> QED BY <2>5, <5>1, EnginesAssumption DEF Goto
      <4> QED BY <4>1 DEF At
    <3> QED BY <3>1, <3>5, <3>6, <3>7 DEF ResumeOK, Own
  <2>6. CASE UNCHANGED engine BY <1>6, <2>1, <2>6
  <2> QED BY <1>9, <2>2, <2>4, <2>5, <2>6 DEF maybe_resume
<1>10. CASE SkipResponse(c) \/ resume_thread(c) \/ StartAcked(c)
  <2>1. /\ engine[c] # None /\ engine[c].kind = "codex" /\ ~ At(c, "turn")
        /\ engine[c] \in AdapterRow /\ engine[c].resp # <<>>
    BY <1>0, <1>3, <1>10, AtJob DEF SkipResponse, resume_thread, StartAcked
  <2>2. CASE SkipResponse(c)
    <3>1. engine' = [engine EXCEPT ![c].resp = Tail(engine[c].resp)] BY <2>2 DEF SkipResponse
    <3> QED BY <1>0, <1>2, <2>1, <3>1, RespSkipped
  <2>3. CASE resume_thread(c)
    <3>1. PICK v \in Conversation :
            engine' = [engine EXCEPT ![c].conv = v, ![c].resp = Tail(engine[c].resp)]
      <4>1. engine[c].conv \in Conversation /\ Head(engine[c].resp).conv \in Conversation
        BY <1>0, <2>1, Responses, AdapterSeqs
      <4> QED BY <2>3, <4>1 DEF resume_thread
    <3> QED BY <1>0, <1>2, <2>1, <3>1, RespTaken
  <2>4. CASE StartAcked(c)
    <3>1. Head(engine[c].resp).n \in Nat BY <1>0, <2>1, Responses
    <3>2. engine' = [engine EXCEPT
              ![c].out = <<[what |-> "accepted", n |-> Head(engine[c].resp).n]>> \o engine[c].out,
              ![c].resp = Tail(engine[c].resp)]
      BY <2>4 DEF StartAcked
    <3> QED BY <1>0, <1>2, <2>1, <3>1, <3>2, AckShape
  <2> QED BY <1>10, <2>2, <2>3, <2>4
<1>11. CASE start_turn(c)
  <2>1. /\ engine[c] \in AdapterRow /\ engine[c] # None /\ job[c] \in Job
    BY <1>0, <1>11, AtJob DEF start_turn
  <2>2. CASE engine[c].kind = "codex"
    <3>1. Request(c, "turn", job[c].n, engine[c].conv) BY <1>11, <2>2 DEF start_turn
    <3>2. job[c].n \in Nat /\ engine[c].conv \in Conversation BY <2>1, AdapterSeqs DEF Job
    <3> QED BY <1>0, <1>2, <2>1, <2>2, <3>1, <3>2, RequestShape
  <2>3. CASE engine[c].kind # "codex"
    BY <1>0, <1>11, <2>1, <2>3, PromptShape DEF start_turn
  <2> QED BY <2>2, <2>3
<1>12. CASE StartFails(c)
  <2>1. CASE At(c, "turn") /\ ~ engine[c].up /\ UNCHANGED engine BY <1>5, <1>6, <2>1
  <2>2. CASE At(c, "starting") /\ UNCHANGED engine BY <1>3, <1>5, <1>6, <2>2
  <2>3. CASE /\ At(c, "starting") /\ engine[c].resp # <<>>
             /\ engine' = [engine EXCEPT ![c].resp = Tail(engine[c].resp)]
    <3>1. engine[c] # None /\ engine[c] \in AdapterRow BY <1>0, <2>3, AtJob
    <3> QED BY <1>0, <1>2, <1>3, <2>3, <3>1, RespSkipped
  <2> QED BY <1>12, <2>1, <2>2, <2>3 DEF StartFails
<1>13. CASE CodexTakes(c)
  <2>1. engine[c] # None /\ engine[c].kind = "codex" /\ engine[c].inq # <<>>
    BY <1>13 DEF CodexTakes, Ready
  <2>2. PICK ok \in BOOLEAN : Respond(c, Head(engine[c].inq), ok) BY <1>13 DEF CodexTakes
  <2> QED BY <1>0, <1>2, <2>1, <2>2, Messages, RespondShape
<1>14. CASE Interrupted(c)
  <2>1. engine[c] # None /\ engine[c].inq # <<>> /\ UNCHANGED <<sched, job>>
    BY <1>14 DEF Interrupted
  <2> QED BY <1>0, <1>2, <1>14, <2>1, Messages, InterruptShape
<1>15. CASE PromptTaken(c) \/ PromptRefused(c)
  <2>1. engine[c] # None BY <1>15 DEF PromptTaken, PromptRefused
  <2> QED BY <1>0, <1>2, <1>15, <2>1, PromptEffect
<1>16. CASE EngineEnds(c)
  <2>1. engine[c] # None BY <1>16 DEF EngineEnds
  <2> QED BY <1>0, <1>2, <1>16, <2>1, EndEffect
<1>17. CASE Dies(c)
  <2>1. engine[c] # None /\ UNCHANGED <<sched, job>> BY <1>17 DEF Dies
  <2> QED BY <1>0, <1>2, <1>17, <2>1, DiesShape
<1>18. CASE OnAccepted(c)
  <2>1. /\ engine[c] # None /\ engine'[c].resume = engine[c].resume
        /\ engine'[c].kind = engine[c].kind /\ engine'[c].up = engine[c].up /\ sched = None
    BY <1>0, <1>18, AcceptedEffect, EnginesAssumption
  <2> QED BY <1>2, <1>4, <2>1
<1>19. CASE OnFinal(c) \/ OnFailed(c)
  <2>1. engine' = [engine EXCEPT ![c].out = <<>>] /\ sched = None /\ engine[c] # None
    BY <1>19 DEF OnFinal, OnFailed, Event
  <2> QED BY <1>0, <1>2, <1>4, <2>1, EventsDropped
<1>20. CASE Death(c)
  <2>1. engine'[c] = None BY <1>0, <1>20 DEF Death, Typed, EnginesOK
  <2> QED BY <2>1
<1>21. CASE Timeout(c)
  <2>1. sched = None /\ c \in flight /\ interrupt(c) BY <1>21 DEF Timeout
  <2>2. engine[c] # None /\ engine[c] \in AdapterRow BY <1>0, <2>1, FlightAdapter
  <2>3. CASE engine[c].kind = "codex"
    <3>1. Request(c, "interrupt", 0, None) BY <2>1, <2>3 DEF interrupt
    <3>2. None \in Conversation BY DEF Conversation
    <3> QED BY <1>0, <1>2, <2>2, <2>3, <3>1, <3>2, RequestShape
  <2>4. CASE engine[c].kind # "codex"
    BY <1>0, <1>2, <1>4, <2>1, <2>2, <2>4, LineInterruptShape
  <2> QED BY <2>3, <2>4
<1> QED
  BY <1>7, <1>8, <1>9, <1>10, <1>11, <1>12, <1>13, <1>14, <1>15, <1>16, <1>17, <1>18, <1>19,
     <1>20, <1>21
  DEF CellStep

LEMMA ClaudeCell ==
  ASSUME Good, [Next]_vars, Honest', NEW c \in Cells, CellStep(c)
  PROVE  ClaudeOK(c)'
<1> SUFFICES ASSUME engine'[c] # None, engine'[c].kind = "claude" PROVE ClaudeOK(c)'
  BY DEF ClaudeOK
<1>0. Typed /\ Typed' /\ LineOK(c) /\ LineOK(c)' /\ ClaudeOK(c) /\ ResumeOK(c) /\ ~ Timeout(c)
  BY TypedStep, LineStep, Seen DEF Good, LineInv, SessionInv
<1>1. CASE c \notin flight'
  <2>1. engine'[c].inq = <<>> /\ engine'[c].run = None /\ engine'[c].out = <<>>
    BY <1>0, <1>1 DEF LineOK
  <2>2. Range(engine'[c].inq) = {} /\ Range(engine'[c].out) = {} BY <2>1, Nothing
  <2> QED BY <2>1, <2>2 DEF ClaudeOK
<1>2. CASE Fresh(c)
  <2>1. c \notin flight' BY <1>0, <1>2, AtJob DEF Fresh, ensure
  <2> QED BY <1>1, <2>1
<1>3. CASE engine[c] # None /\ engine[c].kind = "claude" /\ c \in flight'
  <2>0. engine[c] \in AdapterRow BY <1>0, <1>3, HasAdapter
  <2>1. PICK r : r = job[c].thread OBVIOUS
  <2>2. \A i : Own(i, r) => Own(i, r)' BY OwnKept
  <2>3. /\ \A m \in Range(engine[c].inq) : m.conv # None => Own(m.conv, r)
        /\ engine[c].run # None => Own(engine[c].run.conv, r)
        /\ \A m \in Range(engine[c].out) : m.what = "final" => Own(engine[c].session, r)
    BY <1>0, <1>3, <2>1 DEF ClaudeOK
  <2>4. /\ engine[c].inq \in Seq(Message) /\ engine[c].out \in Seq(EventLine)
        /\ engine[c].resume \in Conversation /\ engine[c].run \in Run \cup {None}
    BY <2>0, AdapterSeqs
  <2>5. ASSUME job'[c].thread = r,
               \A m \in Range(engine'[c].inq) : \A i : i = m.conv /\ i # None => Own(i, r)',
               engine'[c].run # None => \A i : i = engine'[c].run.conv => Own(i, r)',
               \A m \in Range(engine'[c].out) : m.what = "final" =>
                 \A i : i = engine'[c].session => Own(i, r)'
        PROVE  ClaudeOK(c)'
    BY <2>5 DEF ClaudeOK, Own
  <2>6. CASE start_turn(c)
    <3>1. /\ At(c, "turn") /\ job[c] \in Job /\ engine[c].up /\ UNCHANGED job /\ c \notin flight
      BY <1>0, <2>6, AtJob DEF start_turn
    <3>2. PICK i : i = engine[c].resume OBVIOUS
    <3>3. i # None => Own(i, r)' BY <1>0, <1>3, <2>1, <2>2, <3>1, <3>2 DEF ResumeOK
    <3>4. PICK m : m = [what |-> "turn", n |-> job[c].n, conv |-> engine[c].resume] OBVIOUS
    <3>5. /\ engine'[c].inq = Append(engine[c].inq, m) /\ engine'[c].run = engine[c].run
          /\ engine'[c].out = engine[c].out
      BY <1>0, <1>3, <2>0, <2>6, <3>1, <3>4, PromptShape DEF start_turn
    <3>6. engine[c].inq = <<>> /\ engine[c].run = None /\ engine[c].out = <<>>
      BY <1>0, <1>3, <3>1 DEF LineOK
    <3>7. m \in Message /\ m.conv = i
      <4>1. job[c].n \in Nat BY <3>1 DEF Job
      <4> QED BY <2>4, <3>2, <3>4, <4>1 DEF Message
    <3>8. Range(engine'[c].inq) = {m} BY <3>5, <3>6, <3>7, Single
    <3>9. Range(engine'[c].out) = {} BY <3>5, <3>6, Nothing
    <3>10. job'[c].thread = r BY <2>1, <3>1
    <3> QED BY <2>5, <3>3, <3>5, <3>6, <3>7, <3>8, <3>9, <3>10
  <2>7. CASE c \in flight /\ PromptTaken(c)
    <3>1. PICK q : q = Taken(c) OBVIOUS
    <3>2. /\ engine[c].inq # <<>> /\ q \in Range(engine[c].inq) /\ q.n \in Nat
          /\ engine'[c].inq = Tail(engine[c].inq)
          /\ UNCHANGED job
      BY <1>0, <2>7, <3>1, PromptEffect DEF Taken
    <3>3. engine[c].out = <<>> /\ Tail(engine[c].inq) = <<>>
      BY <1>0, <1>3, <2>0, <3>2, LineHas
    <3>4. PICK ev \in {"accepted", "failed"} :
            /\ engine'[c].out = Append(engine[c].out, [what |-> ev, n |-> q.n])
            /\ \/ /\ engine'[c].run = [n |-> q.n, conv |-> Len(convs) + 1]
                  /\ convs' = Append(convs, [kind |-> "claude", turns |-> <<q.n>>])
               \/ q.conv # None /\ engine'[c].run = [n |-> q.n, conv |-> q.conv]
               \/ engine'[c].run = engine[c].run
      BY <1>0, <1>3, <2>7, <3>1, PromptEffect DEF Taken
    <3>5. PICK m : m = [what |-> ev, n |-> q.n] OBVIOUS
    <3>6. m \in EventLine /\ m.what # "final" BY <3>2, <3>5 DEF EventLine
    <3>7. Range(engine'[c].out) = {m} /\ Range(engine'[c].inq) = {}
      <4>1. engine'[c].inq = <<>> /\ engine'[c].out = Append(<<>>, m)
        BY <3>2, <3>3, <3>4, <3>5
      <4> QED BY <3>6, <4>1, Single, Nothing
    <3>8. ASSUME NEW i, i = engine'[c].run.conv, engine'[c].run # None PROVE Own(i, r)'
      <4>1. CASE q.conv # None /\ engine'[c].run = [n |-> q.n, conv |-> q.conv]
        BY <2>2, <2>3, <3>2, <3>8, <4>1
      <4>2. CASE /\ engine'[c].run = [n |-> q.n, conv |-> Len(convs) + 1]
                 /\ convs' = Append(convs, [kind |-> "claude", turns |-> <<q.n>>])
        <5>1. PICK x : x = [kind |-> "claude", turns |-> <<q.n>>] OBVIOUS
        <5>2. x \in ConvRow /\ x.kind = "claude" BY <3>2, <5>1 DEF ConvRow, EngineKind
        <5>3. convs \in Seq(ConvRow) BY <1>0 DEF Typed, EnginesOK, ConvRow
        <5>4. convs' = Append(convs, x) BY <4>2, <5>1
        <5>5. i = Len(convs) + 1 BY <3>8, <4>2
        <5>6. i \in Conv' \ Conv /\ convs'[i] = x BY <5>2, <5>3, <5>4, <5>5 DEF Conv
        <5> QED BY <2>1, <5>2, <5>6, OwnOpened
      <4>3. CASE engine'[c].run = engine[c].run BY <2>2, <2>3, <3>8, <4>3
      <4> QED BY <3>4, <4>1, <4>2, <4>3
    <3>9. job'[c].thread = r BY <2>1, <3>2
    <3> QED BY <2>5, <3>6, <3>7, <3>8, <3>9
  <2>8. CASE c \in flight /\ EngineEnds(c)
    <3>1. /\ engine'[c].inq = engine[c].inq /\ engine'[c].run = None /\ UNCHANGED job
          /\ engine[c].run \in Run /\ engine[c].run # None
      BY <1>0, <2>8, EndEffect DEF EngineEnds
    <3>2. PICK ev \in {"final", "failed"} :
               /\ engine'[c].out = Append(engine[c].out, [what |-> ev, n |-> engine[c].run.n])
               /\ engine'[c].session = IF engine[c].kind = "claude" /\ ev = "final"
                                       THEN engine[c].run.conv ELSE engine[c].session
      BY <1>0, <2>8, EndEffect, Seen
    <3>3. PICK x : x = [what |-> ev, n |-> engine[c].run.n] OBVIOUS
    <3>4. x \in EventLine /\ x.what = ev BY <3>1, <3>3 DEF EventLine, Run
    <3>5. Range(engine'[c].out) = Range(engine[c].out) \cup {x}
      BY <2>4, <3>2, <3>3, <3>4, Added
    <3>6. /\ engine[c].inq = <<>>
          /\ \A i \in 1..Len(engine[c].out) : engine[c].out[i].what = "accepted"
      BY <1>0, <1>3, <2>0, <3>1, LineHas
    <3>7. \A m \in Range(engine[c].out) : m.what = "accepted" BY <2>4, <3>6, InRange
    <3>8. Range(engine'[c].inq) = {} BY <3>1, <3>6, Nothing
    <3>9. ASSUME NEW i, i = engine'[c].session, ev = "final" PROVE Own(i, r)'
      BY <1>3, <2>2, <2>3, <3>1, <3>2, <3>9
    <3>10. job'[c].thread = r BY <2>1, <3>1
    <3> QED BY <2>5, <3>1, <3>4, <3>5, <3>7, <3>8, <3>9, <3>10
  <2>9. ASSUME job'[c].thread = r, engine'[c].session = engine[c].session,
               Range(engine'[c].inq) \subseteq Range(engine[c].inq),
               Range(engine'[c].out) \subseteq Range(engine[c].out),
               engine'[c].run \in {None, engine[c].run}
        PROVE  ClaudeOK(c)'
    BY <2>2, <2>3, <2>5, <2>9
  <2>10. CASE c \in flight /\ Dies(c)
    <3>1. engine'[c].run = None /\ engine'[c].inq = <<>> /\ UNCHANGED job
          /\ engine'[c].session = engine[c].session /\ engine'[c].out = engine[c].out
      BY <1>0, <2>0, <2>10, DiesShape DEF Dies
    <3>2. Range(engine'[c].inq) = {} /\ job'[c].thread = r BY <2>1, <3>1, Nothing
    <3> QED BY <2>9, <3>1, <3>2
  <2>11. CASE OnAccepted(c)
    <3>1. /\ job'[c].thread = r /\ engine'[c].session = engine[c].session
          /\ engine'[c].inq = engine[c].inq /\ engine'[c].out = Tail(engine[c].out)
          /\ engine'[c].run = engine[c].run /\ engine[c].out # <<>>
      BY <1>0, <2>1, <2>11, AcceptedEffect
    <3>2. Range(engine'[c].out) \subseteq Range(engine[c].out) BY <2>4, <3>1, Read
    <3> QED BY <2>9, <3>1, <3>2
  <2>12. ~ (c \in flight /\ Interrupted(c))
    <3> SUFFICES ASSUME Interrupted(c) PROVE FALSE OBVIOUS
    <3>1. engine[c].inq # <<>> /\ Head(engine[c].inq).what = "interrupt" BY DEF Interrupted
    <3>2. Head(engine[c].inq) \in Range(engine[c].inq) BY <2>4, <3>1, Read
    <3> QED BY <1>0, <1>3, <2>0, <3>1, <3>2, LineHas
  <2>13. /\ \A step : At(c, step) => c \notin flight
         /\ ~ At(c, "starting")
    BY <1>0, <1>3, AtJob
  <2>14. c \notin flight => start_turn(c)
    BY <1>0, <1>3, <2>13
    DEF CellStep, Lease, SpawnFails, ensure, maybe_resume, SkipResponse, resume_thread, ResumeFails,
        start_turn, StartAcked, StartFails, CodexTakes, PromptTaken, PromptRefused, Interrupted,
        EngineEnds, Dies, Event, OnAccepted, OnFinal, OnFailed, Death, LeaseExpires
  <2>15. c \in flight => PromptTaken(c) \/ Interrupted(c) \/ EngineEnds(c) \/ Dies(c) \/ OnAccepted(c)
    BY <1>0, <1>3, <2>13
    DEF CellStep, Lease, SpawnFails, ensure, maybe_resume, SkipResponse, resume_thread, ResumeFails,
        start_turn, StartAcked, StartFails, CodexTakes, PromptRefused, OnFinal, OnFailed, Death,
        LeaseExpires
  <2> QED BY <2>6, <2>7, <2>8, <2>10, <2>11, <2>12, <2>14, <2>15
<1> QED BY <1>0, <1>1, <1>2, <1>3, Engaged DEF Worked

LEMMA SessionCell ==
  ASSUME Good, [Next]_vars, Honest', NEW c \in Cells, CellStep(c)
  PROVE  SessionInv'
<1>0. /\ Typed /\ TurnsInv
      /\ \A i \in Conv : convs[i].kind = "claude" => \E r \in Requests : Own(i, r)
      /\ \A r \in Rows : thread[r].esession # None => Own(thread[r].esession, r)
      /\ \A d \in Cells : ResumeOK(d) /\ ClaudeOK(d)
  BY DEF Good, SessionInv
<1>1. ASSUME NEW i \in Conv', convs'[i].kind = "claude" PROVE \E r \in Requests : Own(i, r)'
  <2>1. CASE i \in Conv
    <3>1. convs[i].kind = "claude" BY <1>0, <1>1, <2>1, ConvGrown
    <3>2. PICK r \in Requests : Own(i, r) BY <1>0, <2>1, <3>1
    <3> QED BY <3>2, OwnKept
  <2>2. CASE i \notin Conv
    <3>1. PICK r : r = job[c].thread OBVIOUS
    <3>2. r \in Requests /\ Own(i, r)' BY <1>1, <2>2, <3>1, OwnOpened
    <3> QED BY <3>2
  <2> QED BY <2>1, <2>2
<1>2. ASSUME NEW r \in Rows', NEW i, i = thread'[r].esession, i # None PROVE Own(i, r)'
  <2>1. CASE r \in Rows /\ thread'[r].esession = thread[r].esession
    BY <1>0, <1>2, <2>1, OwnKept
  <2>2. CASE /\ OnFinal(c) /\ r = job[c].thread /\ engine[c] \in AdapterRow
             /\ engine[c].kind = "claude" /\ thread'[r].esession = engine[c].session
    <3>1. engine[c].out # <<>> /\ Head(engine[c].out).what = "final" /\ engine[c] # None
      BY <2>2 DEF OnFinal, Event
    <3>2. engine[c].out \in Seq(EventLine) BY <2>2, AdapterSeqs
    <3>3. Head(engine[c].out) \in Range(engine[c].out) BY <3>1, <3>2, Read
    <3>4. Own(engine[c].session, job[c].thread) BY <1>0, <2>2, <3>1, <3>3 DEF ClaudeOK
    <3> QED BY <1>2, <2>2, <3>4, OwnKept
  <2> QED BY <1>0, <2>1, <2>2, RowIds
<1>3. ASSUME NEW d \in Cells PROVE ResumeOK(d)' /\ ClaudeOK(d)'
  <2>1. CASE d = c BY <2>1, ResumeCell, ClaudeCell
  <2>2. CASE d # c
    <3>1. engine'[d] = engine[d] /\ job'[d] = job[d] BY <1>0, <2>2, Elsewhere
    <3>2. \A i, r : Own(i, r) => Own(i, r)' BY OwnKept
    <3>3. PICK e, r : e = engine[d] /\ r = job[d].thread OBVIOUS
    <3>4. e = engine'[d] /\ r = job'[d].thread BY <3>1, <3>3
    <3>5. \A step : At(d, step) => At(d, step)' BY <1>0, <2>2, AtKept
    <3>6. e # None /\ e.resume # None =>
            /\ e.kind = "claude" /\ (e.up => At(d, "turn")' /\ Own(e.resume, r)')
      BY <1>0, <3>2, <3>3, <3>5 DEF ResumeOK
    <3>7. e # None /\ e.kind = "claude" =>
            /\ \A m \in Range(e.inq) : m.conv # None => Own(m.conv, r)'
            /\ e.run # None => Own(e.run.conv, r)'
            /\ \A m \in Range(e.out) : m.what = "final" => Own(e.session, r)'
      BY <1>0, <3>2, <3>3 DEF ClaudeOK
    <3>8. ResumeOK(d)' BY <3>4, <3>6 DEF ResumeOK
    <3>9. ClaudeOK(d)' BY <3>4, <3>7 DEF ClaudeOK
    <3> QED BY <3>8, <3>9
  <2> QED BY <2>1, <2>2
<1> QED BY <1>1, <1>2, <1>3 DEF SessionInv

LEMMA SessionStep ==
  ASSUME Typed, LineInv, TurnsInv, SessionInv, HomeInv, [Next]_vars PROVE SessionInv'
<1> SUFFICES ASSUME Honest' PROVE SessionInv' BY DEF SessionInv
<1>0. Honest /\ Without({"timeout"}) BY Seen
<1>1. /\ \A i \in Conv : convs[i].kind = "claude" => \E r \in Requests : Own(i, r)
      /\ \A r \in Rows : thread[r].esession # None => Own(thread[r].esession, r)
      /\ \A d \in Cells : ResumeOK(d) /\ ClaudeOK(d)
  BY <1>0 DEF SessionInv
<1>2. ASSUME UNCHANGED <<convs, owner>>,
             \A d \in Cells : ResumeOK(d)' /\ ClaudeOK(d)',
             \A r \in Rows' : thread'[r].esession # None =>
               r \in Rows /\ thread'[r].esession = thread[r].esession
      PROVE  SessionInv'
  BY <1>1, <1>2 DEF SessionInv, Own, Conv
<1>3. UNCHANGED engines => \A d \in Cells : ResumeOK(d)' /\ ClaudeOK(d)'
  BY <1>1 DEF engines, ResumeOK, ClaudeOK, Own, Conv, At
<1>4. CASE RegistryNext /\ UNCHANGED engines
  <2>1. UNCHANGED thread \/ \E r \in Requests : SpawnWrite(r)
    BY <1>4 DEF RegistryNext, cell_register, cell_update, worktree_mark_cleanup, worktree_record,
       WriteDef, WriteWorktree, resolve_spawn_target, SpawnReplay, SpawnAudit, SpawnAuditFails,
       handle_send_task, rows
  <2>2. ASSUME NEW r \in Rows', thread'[r].esession # None
        PROVE  r \in Rows /\ thread'[r].esession = thread[r].esession
    <3>1. CASE UNCHANGED thread BY <2>2, <3>1 DEF Rows
    <3>2. ASSUME NEW q \in Requests, SpawnWrite(q)
          PROVE  r \in Rows /\ thread'[r].esession = thread[r].esession
      <4>1. r \in Requests /\ thread'[r] \in ThreadRow BY <2>2 DEF Rows
      <4>2. CASE r # q BY <3>2, <4>1, <4>2, SpawnRows DEF Rows
      <4>3. CASE r = q BY <2>2, <3>2, <4>1, <4>3, SpawnRows, RegistryAssumption
      <4> QED BY <4>2, <4>3
    <3> QED BY <2>1, <3>1, <3>2
  <2> QED BY <1>2, <1>3, <1>4, <2>2 DEF engines
<1>5. CASE Restart
  <2>1. UNCHANGED <<convs, owner>> /\ \A d \in Cells : engine'[d] = None BY <1>5 DEF Restart
  <2> QED BY <1>2, <1>5, <2>1, RestartRows DEF TableOK, ResumeOK, ClaudeOK
<1>6. CASE UNCHANGED vars
  <2>1. UNCHANGED <<engines, thread>> BY <1>6 DEF vars, registry, rows
  <2> QED BY <1>2, <1>3, <2>1 DEF Rows, engines
<1>7. ASSUME NEW c \in Cells, CellStep(c) PROVE SessionInv'
  BY <1>0, <1>7, SessionCell DEF Good
<1> QED BY <1>4, <1>5, <1>6, <1>7 DEF Next, CellStep

-----------------------------------------------------------------------------
(***************************************************************************)
(* No conversation is shared but by the threads of one cell.               *)
(***************************************************************************)
LEMMA InitConversations == Init => TurnsInv /\ SessionInv /\ HomeInv
<1> SUFFICES ASSUME Init PROVE TurnsInv /\ SessionInv /\ HomeInv OBVIOUS
<1>1. /\ convs = <<>> /\ \A c \in Cells : engine[c] = None
      /\ Rows = {} /\ Conv = {}
  BY RegistryAssumption DEF Init, EnginesInit, RegistryInit, Rows, Conv
<1> QED BY <1>1
  DEF TurnsInv, AskedOK, SessionInv, ResumeOK, ClaudeOK, HomeInv, Holds

LEMMA InvStep == ASSUME IInv, [Next]_vars PROVE IInv'
  BY TypedStep, CodexStep, LineStep, TurnsStep, SessionStep, HomeStep DEF IInv, Typed

(* A conversation has turns of one thread only, but for those of codex and *)
(* pi, where the threads of a cell share what the process holds: no claude *)
(* session is continued by another thread, through resumes, deaths,        *)
(* restarts and redefinitions, as long as no turn has timed out and every  *)
(* final of a claude turn has named its session.                           *)
THEOREM HistoriesKeptApart == Spec => []OwnHistory
<1>1. Init => IInv BY InitTyped, InitDialects, InitConversations DEF IInv, Typed, Dialects
<1>2. IInv /\ [Next]_vars => IInv' BY InvStep
<1>3. ASSUME IInv PROVE OwnHistory
  <2> SUFFICES ASSUME Honest, NEW i \in DOMAIN convs,
                      NEW m \in DOMAIN convs[i].turns, NEW n \in DOMAIN convs[i].turns
               PROVE  LET s == owner[convs[i].turns[m]] t == owner[convs[i].turns[n]] IN
                      s = t \/ (convs[i].kind # "claude" /\ thread[s].cell = thread[t].cell)
    BY DEF OwnHistory, Honest
  <2>0. SessionInv /\ HomeInv BY <1>3 DEF IInv
  <2>1. convs \in Seq(ConvRow) BY <1>3 DEF IInv, EnginesOK, ConvRow
  <2>2. i \in Conv BY <2>1 DEF Conv
  <2>3. convs[i].turns \in Seq(Nat)
    <3>1. convs[i] \in ConvRow BY <2>1, <2>2 DEF Conv
    <3> QED BY <3>1 DEF ConvRow
  <2>4. m \in 1..Len(convs[i].turns) /\ n \in 1..Len(convs[i].turns) BY <2>3
  <2>5. CASE convs[i].kind = "claude" BY <2>0, <2>2, <2>4, <2>5 DEF SessionInv, Own
  <2>6. CASE convs[i].kind # "claude"
    BY <2>0, <2>2, <2>4, <2>6 DEF HomeInv, Home, StartedOn
  <2> QED BY <2>5, <2>6
<1> QED BY <1>1, <1>2, <1>3, PTL DEF Spec

-----------------------------------------------------------------------------
(***************************************************************************)
(* What is remembered.                                                     *)
(***************************************************************************)

(* The job of a cell is the last turn started for one of its threads.      *)
LatestInv ==
    /\ finals \subseteq 1..Len(owner)
    /\ \A c \in Cells : job[c] # None => \A n \in 1..Len(owner) : StartedOn(n, c) => n <= job[c].n

(* Without redefinitions an adapter is of the kind its cell is defined as. *)
Live(c) == (c = Named /\ cells # None) \/ c \in Rows

KindInv ==
    Without({"update"}) =>
        /\ op # None /\ op.name \in {"register", "update"} => op.name = "register" /\ cells = None
        /\ \A c \in Cells : engine[c] # None => Live(c) /\ engine[c].kind = Def(c)

(* The disturbances of which Continuity is claimed.                        *)
Disturbing == {"timeout", "rpctimeout", "reject", "update", "nosession"}

Undisturbed == Without(Disturbing)

(* Turn n is in the history of conversation i, and so are all turns of     *)
(* thread r that were answered.                                            *)
InHistory(n, i) == i \in Conv /\ \E h \in 1..Len(convs[i].turns) : convs[i].turns[h] = n
Unanswered(r) == \A m \in finals : owner[m] # r
Recalls(i, r) == i \in Conv /\ \A m \in finals : owner[m] = r => InHistory(m, i)
Kept(i, r) == IF i = None THEN Unanswered(r) ELSE Recalls(i, r)

RowRecalls(r) ==
    /\ Def(thread[r].cell) = "codex" => Kept(thread[r].ethread, r)
    /\ Def(thread[r].cell) = "claude" => Kept(thread[r].esession, r)

(* codex is asked one thing at a time, and answers it: to resume what the  *)
(* row names, or to run the turn on a conversation that has the thread's.  *)
CodexRecalls(c) ==
    engine[c] # None /\ engine[c].kind = "codex" =>
        LET e == engine[c] r == job[c].thread n == job[c].n IN
        /\ e.conv \in Conv
        /\ ~ e.up => e.inq = <<>>
        /\ Len(e.inq) <= 1 /\ Len(e.resp) <= 1 /\ (e.inq = <<>> \/ e.resp = <<>>)
        /\ ~ At(c, "resuming") /\ ~ At(c, "starting") => e.inq = <<>> /\ e.resp = <<>>
        /\ At(c, "resuming") =>
             /\ thread[r].ethread # None
             /\ \A m \in Range(e.inq) : m.what = "resume" /\ m.conv = thread[r].ethread
             /\ \A m \in Range(e.resp) : m.ok /\ m.conv = thread[r].ethread
        /\ At(c, "starting") =>
             /\ \A m \in Range(e.inq) : m.what = "turn" /\ m.n = n /\ m.conv = e.conv
             /\ \A m \in Range(e.resp) : m.ok /\ InHistory(n, e.conv)
        /\ (At(c, "turn") /\ e.up) \/ At(c, "starting") \/ c \in flight => Recalls(e.conv, r)
        /\ c \in flight => InHistory(n, e.conv)

(* claude is given the session of the row, and what it opens or continues  *)
(* has the turns of the thread.                                            *)
ClaudeRecalls(c) ==
    engine[c] # None /\ engine[c].kind = "claude" =>
        LET e == engine[c] r == job[c].thread n == job[c].n IN
        /\ At(c, "turn") /\ e.up => e.resume = thread[r].esession
        /\ \A m \in Range(e.inq) : m.conv = thread[r].esession
        /\ e.run # None => Recalls(e.run.conv, r) /\ InHistory(n, e.run.conv)
        /\ \A m \in Range(e.out) : m.what = "final" =>
             Recalls(e.session, r) /\ InHistory(n, e.session)

PiApart(c) ==
    engine[c] # None /\ engine[c].kind = "pi" =>
        engine[c].conv \in Conv /\ convs[engine[c].conv].kind = "pi"

(* A turn of a conversation finds the answered turns of its thread there. *)
Recalled(i) ==
    convs[i].kind # "pi" =>
        \A k \in 1..Len(convs[i].turns) : \A m \in finals :
            m < convs[i].turns[k] /\ owner[m] = owner[convs[i].turns[k]]
            => \E h \in 1..k : convs[i].turns[h] = m

RecallInv ==
    Undisturbed =>
        /\ \A r \in Rows : RowRecalls(r)
        /\ \A c \in Cells : CodexRecalls(c) /\ ClaudeRecalls(c) /\ PiApart(c)
        /\ \A i \in Conv : Recalled(i)

LEMMA Disturbs ==
  ASSUME Typed, [Next]_vars, Undisturbed'
  PROVE  /\ Undisturbed /\ Honest /\ Honest' /\ Without({"timeout"}) /\ Without({"timeout"})'
         /\ Without({"update"})
         /\ \A kind \in Disturbing : ~ Fault(kind)
<1>1. Undisturbed BY Seen DEF Undisturbed
<1>2. ASSUME NEW kind \in Disturbing, Fault(kind) PROVE FALSE
  <2>1. faults' = [left |-> faults.left - 1, seen |-> faults.seen \cup {kind}] BY <1>2 DEF Fault
  <2>2. kind \in faults'.seen BY <2>1
  <2> QED BY <2>2 DEF Undisturbed, Without
<1> QED BY <1>1, <1>2 DEF Undisturbed, Disturbing, Without, Honest

(* Turns are taken out of no conversation. *)
LEMMA ConvKept ==
  ASSUME Typed, TurnsInv, [Next]_vars, NEW i \in Conv, NEW k \in 1..Len(convs[i].turns)
  PROVE  i \in Conv' /\ k \in 1..Len(convs'[i].turns) /\ convs'[i].turns[k] = convs[i].turns[k]
<1>0. convs \in Seq(ConvRow) BY DEF Typed, EnginesOK, ConvRow
<1>1. CASE UNCHANGED convs BY <1>1 DEF Conv
<1>2. ASSUME NEW x \in ConvRow, convs' = Append(convs, x)
      PROVE  i \in Conv' /\ convs'[i] = convs[i]
  BY <1>0, <1>2 DEF Conv
<1>3. ASSUME NEW v, NEW n \in Nat, convs' = Extend(v, n)
      PROVE  i \in Conv' /\ k \in 1..Len(convs'[i].turns) /\ convs'[i].turns[k] = convs[i].turns[k]
  <2>1. Len(convs') = Len(convs) BY <1>3, Extended
  <2>2. CASE i # v
    <3>1. convs'[i] = convs[i] BY <1>3, <2>2, Extended DEF Conv
    <3> QED BY <2>1, <3>1 DEF Conv
  <2>3. CASE i = v
    <3>1. PICK p : p = convs[v].turns OBVIOUS
    <3>2. p \in Seq(Nat)
      <4>1. convs[v] \in ConvRow BY <1>0, <2>3 DEF Conv
      <4> QED BY <3>1, <4>1 DEF ConvRow
    <3>3. k \in 1..Len(Append(p, n)) /\ Append(p, n)[k] = p[k] BY <2>3, <3>1, <3>2
    <3>4. convs'[v].turns = Append(p, n) BY <1>3, <2>3, <3>1, Extended DEF Conv
    <3> QED BY <2>1, <2>3, <3>1, <3>3, <3>4 DEF Conv
  <2> QED BY <2>2, <2>3
<1>4. ASSUME NEW c \in Cells, CellStep(c)
      PROVE  i \in Conv' /\ k \in 1..Len(convs'[i].turns) /\ convs'[i].turns[k] = convs[i].turns[k]
  <2>1. CASE \E kind \in EngineKind : convs' = Append(convs, [kind |-> kind, turns |-> <<>>])
    <3>1. PICK kind \in EngineKind : convs' = Append(convs, [kind |-> kind, turns |-> <<>>]) BY <2>1
    <3>2. [kind |-> kind, turns |-> <<>>] \in ConvRow BY DEF ConvRow
    <3> QED BY <1>2, <3>1, <3>2
  <2>2. CASE \E n \in Nat : convs' = Append(convs, [kind |-> "claude", turns |-> <<n>>])
    <3>1. PICK n \in Nat : convs' = Append(convs, [kind |-> "claude", turns |-> <<n>>]) BY <2>2
    <3>2. [kind |-> "claude", turns |-> <<n>>] \in ConvRow BY DEF ConvRow, EngineKind
    <3> QED BY <1>2, <3>1, <3>2
  <2>3. CASE \E v, n : n \in Nat /\ convs' = Extend(v, n) BY <1>3, <2>3
  <2> QED BY <1>1, <1>4, <2>1, <2>2, <2>3, ConvStep
<1>5. UNCHANGED engines \/ Restart => UNCHANGED convs BY DEF engines, Restart
<1> QED BY <1>1, <1>4, <1>5 DEF Next, CellStep, vars

LEMMA LatestStep == ASSUME Typed, LatestInv, [Next]_vars PROVE LatestInv'
<1>0. owner \in Seq(Requests) /\ finals \subseteq 1..Len(owner) BY DEF Typed, EnginesOK, LatestInv
<1>1. /\ Typed' /\ \A n \in 1..Len(owner) : n \in 1..Len(owner') /\ owner'[n] = owner[n] /\ owner[n] \in Rows
      /\ \A q \in Rows : thread'[q].cell = thread[q].cell
  BY TypedStep, OwnersGrow, RowsLive
<1>2. ASSUME UNCHANGED owner, finals' \subseteq 1..Len(owner),
             \A d \in Cells : job'[d] # None => job[d] # None /\ job'[d].n = job[d].n
      PROVE  LatestInv'
  BY <1>1, <1>2 DEF LatestInv, StartedOn
<1>3. UNCHANGED engines \/ Restart => LatestInv' BY <1>0, <1>2 DEF engines, Restart
<1>4. ASSUME NEW c \in Cells, Lease(c) PROVE LatestInv'
  <2>1. PICK r : r = Head(queue[c]) OBVIOUS
  <2>2. /\ owner' = Append(owner, r) /\ UNCHANGED finals /\ queue[c] # <<>>
        /\ job' = [job EXCEPT ![c] = [thread |-> r, n |-> Len(owner) + 1, eturn |-> None]]
    BY <1>4, <2>1 DEF Lease
  <2>3. queue[c] \in Seq(Requests) /\ job \in [Cells -> Maybe(Job)] BY DEF Typed, RegistryOK, EnginesOK
  <2>4. r = queue[c][1] /\ 1 \in 1..Len(queue[c]) BY <2>1, <2>2, <2>3
  <2>5. r \in Rows /\ thread[r].cell = c BY <2>4 DEF Typed, JobsInv
  <2>6. Len(owner') = Len(owner) + 1 /\ owner'[Len(owner) + 1] = r
    BY <1>0, <2>2, <2>5 DEF Rows
  <2>7. ASSUME NEW n \in 1..Len(owner')
        PROVE  n <= Len(owner) + 1 /\ n \in Nat /\ (n \in 1..Len(owner) \/ n = Len(owner) + 1)
    BY <1>0, <2>6
  <2>8. job'[c].n = Len(owner) + 1 BY <2>2, <2>3
  <2>9. ASSUME NEW d \in Cells, job'[d] # None, NEW n \in 1..Len(owner'), StartedOn(n, d)'
        PROVE  n <= job'[d].n
    <3>1. CASE d = c BY <2>7, <2>8, <3>1
    <3>2. CASE d # c
      <4>1. job'[d] = job[d] BY <2>2, <2>3, <3>2
      <4>2. n # Len(owner) + 1 BY <1>1, <2>5, <2>6, <2>9, <3>2 DEF StartedOn
      <4>3. StartedOn(n, d) BY <1>1, <2>7, <2>9, <4>2 DEF StartedOn
      <4> QED BY <2>7, <2>9, <4>1, <4>2, <4>3 DEF LatestInv
    <3> QED BY <3>1, <3>2
  <2>10. finals' \subseteq 1..Len(owner') BY <1>0, <2>2, <2>6
  <2> QED BY <2>9, <2>10 DEF LatestInv
<1>5. ASSUME NEW c \in Cells, CellStep(c), ~ Lease(c) PROVE LatestInv'
  <2>1. UNCHANGED owner /\ finals' \subseteq 1..Len(owner)
    <3>1. CASE OnFinal(c)
      <4>1. c \in flight /\ finals' = finals \cup {job[c].n} /\ UNCHANGED owner
        BY <3>1 DEF OnFinal, Event
      <4>2. job[c].n \in 1..Len(owner) BY <4>1, FlightAdapter, JobRow
      <4> QED BY <1>0, <4>1, <4>2
    <3>2. CASE ~ OnFinal(c)
      <4>1. UNCHANGED <<owner, finals>>
        BY <1>5, <3>2 DEF CellStep, ensure, SpawnFails, maybe_resume, SkipResponse,
           resume_thread, ResumeFails, start_turn, StartAcked, StartFails, CodexTakes, PromptTaken,
           PromptRefused, Interrupted, EngineEnds, Dies, OnAccepted, OnFailed, Death, Timeout,
           LeaseExpires
      <4> QED BY <1>0, <4>1
    <3> QED BY <3>1, <3>2
  <2>2. ASSUME NEW d \in Cells, job'[d] # None PROVE job[d] # None /\ job'[d].n = job[d].n
    <3>1. CASE d # c BY <1>5, <2>2, <3>1, Elsewhere
    <3>2. CASE d = c /\ OnAccepted(c)
      <4>1. c \in flight /\ job'[c].n = job[c].n BY <3>2, AcceptedEffect
      <4> QED BY <3>2, <4>1, FlightAdapter
    <3>3. CASE d = c /\ ~ OnAccepted(c)
      <4>1. UNCHANGED job \/ job' = [job EXCEPT ![c] = None]
        BY <1>5, <3>3 DEF CellStep, ensure, SpawnFails, maybe_resume, SkipResponse,
           resume_thread, ResumeFails, start_turn, StartAcked, StartFails, CodexTakes, PromptTaken,
           PromptRefused, Interrupted, EngineEnds, Dies, OnFinal, OnFailed, Death, Timeout,
           LeaseExpires, Finish, FinishOrRequeue, fail_turn
      <4>2. job \in [Cells -> Maybe(Job)] BY DEF Typed, EnginesOK
      <4> QED BY <2>2, <3>3, <4>1, <4>2
    <3> QED BY <3>1, <3>2, <3>3
  <2> QED BY <1>2, <2>1, <2>2
<1> QED BY <1>3, <1>4, <1>5 DEF Next, CellStep, vars

(* Definitions stay, and so do the rows of threads. *)
LEMMA DefKept ==
  ASSUME Typed, KindInv, [Next]_vars, Without({"update"})', NEW c \in Cells, Live(c)
  PROVE  Live(c)' /\ Def(c)' = Def(c)
<1>0. Without({"update"}) BY Seen
<1>1. c \in Rows => c \in Rows' BY RowsLive
<1>2. cells # None => UNCHANGED cells
  <2>1. ASSUME NEW d \in Cells, CellStep(d) PROVE UNCHANGED cells BY <2>1, CellFrame
  <2>2. ASSUME WriteDef, cells # None PROVE FALSE BY <1>0, <2>2 DEF WriteDef, KindInv
  <2>3. RegistryNext /\ ~ WriteDef => UNCHANGED cells
    BY DEF RegistryNext, cell_register, cell_update, worktree_mark_cleanup, worktree_record,
       WriteWorktree, resolve_spawn_target, SpawnReplay, SpawnAudit, SpawnAuditFails,
       SpawnWrite, handle_send_task, rows
  <2>4. Restart \/ UNCHANGED vars => UNCHANGED cells BY DEF Restart, RegistryRestart, vars, registry, rows
  <2> QED BY <2>1, <2>2, <2>3, <2>4 DEF Next, CellStep
<1>3. c \in Rows => thread'[c].kind = thread[c].kind
  <2>0. SUFFICES ASSUME c \in Rows PROVE thread'[c].kind = thread[c].kind OBVIOUS
  <2>1. TableOK => thread'[c].kind = thread[c].kind BY <2>0 DEF TableOK
  <2>2. ASSUME NEW d \in Cells, CellStep(d) PROVE TableOK BY <2>2, CellFrame
  <2>3. ASSUME NEW r \in Requests, SpawnWrite(r) PROVE thread'[c].kind = thread[c].kind
    BY <2>0, <2>3, SpawnRows DEF Rows
  <2>4. RegistryNext => UNCHANGED thread \/ \E r \in Requests : SpawnWrite(r)
    BY DEF RegistryNext, cell_register, cell_update, worktree_mark_cleanup, worktree_record,
       WriteDef, WriteWorktree, resolve_spawn_target, SpawnReplay, SpawnAudit, SpawnAuditFails,
       handle_send_task, rows
  <2>5. UNCHANGED vars => UNCHANGED thread BY DEF vars, registry, rows
  <2> QED BY <2>1, <2>2, <2>3, <2>4, <2>5, TableSame, RestartRows DEF Next, CellStep
<1>4. c \in Rows => c # Named BY RegistryAssumption DEF Rows
<1> QED BY <1>1, <1>2, <1>3, <1>4 DEF Live, Def

(* The cell of a job is defined. *)
LEMMA JobLive == ASSUME Typed, NEW r \in Rows PROVE Live(thread[r].cell)
<1>1. thread[r] # None BY RegistryAssumption DEF Rows
<1>2. TargetOK(thread[r], r) BY <1>1 DEF Typed, RegistryOK, CallsOK, Rows
<1> QED BY <1>2 DEF TargetOK, Live

LEMMA KindStep == ASSUME Typed, KindInv, [Next]_vars PROVE KindInv'
<1> SUFFICES ASSUME Without({"update"})' PROVE KindInv' BY DEF KindInv
<1>0. /\ Without({"update"})
      /\ op # None /\ op.name \in {"register", "update"} => op.name = "register" /\ cells = None
      /\ \A c \in Cells : engine[c] # None => Live(c) /\ engine[c].kind = Def(c)
  BY Seen DEF KindInv
<1>1. ASSUME NEW c \in Cells, engine'[c] # None PROVE Live(c)' /\ engine'[c].kind = Def(c)'
  <2>1. CASE engine'[c] = engine[c] BY <1>0, <1>1, <2>1, DefKept
  <2>2. CASE CellStep(c)
    <3>1. CASE Fresh(c)
      <4>1. job[c] # None /\ engine'[c].kind = Def(c) BY <3>1, AtJob DEF Fresh, ensure
      <4>2. Live(c)
        <5>1. PICK r \in Rows : r = job[c].thread /\ thread[r].cell = c BY <4>1, JobRow
        <5> QED BY <5>1, JobLive
      <4> QED BY <4>1, <4>2, DefKept
    <3>2. CASE Worked(c) BY <1>0, <3>2, DefKept DEF Worked
    <3> QED BY <1>1, <2>2, <3>1, <3>2, Engaged
  <2>3. CASE UNCHANGED engines BY <2>1, <2>3 DEF engines
  <2>4. CASE Restart BY <1>1, <2>4 DEF Restart
  <2>5. ASSUME NEW d \in Cells, CellStep(d), d # c PROVE engine'[c] = engine[c] BY <2>5, Elsewhere
  <2> QED BY <2>1, <2>2, <2>3, <2>4, <2>5 DEF Next, CellStep, vars
<1>2. ASSUME op' # None, op'.name \in {"register", "update"} PROVE op'.name = "register" /\ cells' = None
  <2>1. CASE UNCHANGED <<op, cells>> BY <1>0, <1>2, <2>1
  <2>2. ASSUME NEW d \in Cells, CellStep(d) PROVE UNCHANGED <<op, cells>> BY <2>2, CellFrame
  <2>3. ASSUME NEW k \in Kinds, cell_register(k) PROVE op'.name = "register" /\ cells' = None
    BY <2>3 DEF cell_register, Audit, rows
  <2>4. ASSUME NEW k \in Kinds, cell_update(k) PROVE FALSE
    <3>1. faults' = [left |-> faults.left - 1, seen |-> faults.seen \cup {"update"}]
      BY <2>4 DEF cell_update, Fault
    <3> QED BY <3>1 DEF Without
  <2>5. ASSUME NEW p \in Paths, worktree_mark_cleanup(p) PROVE op'.name = "cleanup"
    BY <2>5 DEF worktree_mark_cleanup, Audit
  <2>6. ASSUME NEW p \in Paths, NEW r \in Requests, worktree_record(p, r) PROVE op'.name = "worktree"
    BY <2>6 DEF worktree_record, Audit
  <2>7. WriteDef \/ WriteWorktree \/ Restart => op' = None
    BY DEF WriteDef, WriteWorktree, Restart, RegistryRestart
  <2>8. ASSUME NEW r \in Requests, SpawnAudit(r) PROVE op'.name = "spawn"
    BY <2>8 DEF SpawnAudit, Audit
  <2>9. ASSUME NEW r \in Requests, SpawnWrite(r) PROVE op' = None BY <2>9 DEF SpawnWrite
  <2>10. ASSUME NEW r \in Requests,
                \/ \E p \in Params : resolve_spawn_target(r, p)
                \/ SpawnReplay(r) \/ SpawnAuditFails(r) \/ handle_send_task(r)
         PROVE  UNCHANGED <<op, cells>>
    BY <2>10 DEF resolve_spawn_target, SpawnReplay, SpawnAuditFails, AuditFails, handle_send_task, rows
  <2>11. UNCHANGED vars => UNCHANGED <<op, cells>> BY DEF vars, registry, rows
  <2>12. RegistryNext => (op'.name = "register" /\ cells' = None) \/ UNCHANGED <<op, cells>>
    BY <1>2, <2>3, <2>4, <2>5, <2>6, <2>7, <2>8, <2>9, <2>10 DEF RegistryNext
  <2> QED BY <1>2, <2>1, <2>2, <2>7, <2>11, <2>12 DEF Next, CellStep
<1> QED BY <1>1, <1>2 DEF KindInv

(* What is recalled stays recalled, until the thread has another answer. *)
LEMMA HistoryKept ==
  ASSUME Typed, TurnsInv, [Next]_vars, NEW n, NEW i, InHistory(n, i) PROVE InHistory(n, i)'
<1>1. PICK k \in 1..Len(convs[i].turns) : i \in Conv /\ convs[i].turns[k] = n BY DEF InHistory
<1>2. i \in Conv' /\ k \in 1..Len(convs'[i].turns) /\ convs'[i].turns[k] = n BY <1>1, ConvKept
<1> QED BY <1>2 DEF InHistory

LEMMA RecallsKept ==
  ASSUME Typed, TurnsInv, LatestInv, [Next]_vars, NEW i, NEW r,
         \A m \in finals' \ finals : owner'[m] # r
  PROVE  /\ Recalls(i, r) => Recalls(i, r)'
         /\ Unanswered(r) => Unanswered(r)'
         /\ Kept(i, r) => Kept(i, r)'
<1>1. \A m \in finals : owner'[m] = owner[m] BY OwnersGrow DEF LatestInv
<1>2. ASSUME Recalls(i, r) PROVE Recalls(i, r)'
  <2>1. i \in Conv'
    <3>1. i \in Conv BY <1>2 DEF Recalls
    <3>2. CASE UNCHANGED engines \/ Restart BY <3>1, <3>2 DEF engines, Restart, Conv
    <3>3. ASSUME NEW c \in Cells, CellStep(c) PROVE i \in Conv' BY <3>1, <3>3, ConvGrown
    <3> QED BY <3>2, <3>3 DEF Next, CellStep, vars
  <2>2. ASSUME NEW m \in finals', owner'[m] = r PROVE InHistory(m, i)'
    <3>1. m \in finals /\ owner[m] = r BY <1>1, <2>2
    <3>2. InHistory(m, i) BY <1>2, <3>1 DEF Recalls
    <3> QED BY <3>2, HistoryKept
  <2> QED BY <2>1, <2>2 DEF Recalls
<1>3. Unanswered(r) => Unanswered(r)' BY <1>1 DEF Unanswered
<1> QED BY <1>2, <1>3 DEF Kept

(* An answer is recorded for the turn in flight. *)
LEMMA Answers ==
  ASSUME Typed, [Next]_vars, NEW c \in Cells, CellStep(c)
  PROVE  /\ ~ OnFinal(c) => UNCHANGED finals
         /\ \A m \in finals' \ finals :
              OnFinal(c) /\ m = job[c].n /\ owner'[m] = job[c].thread
<1>1. ~ OnFinal(c) => UNCHANGED finals
  BY DEF CellStep, Lease, ensure, SpawnFails, maybe_resume, SkipResponse,
     resume_thread, ResumeFails, start_turn, StartAcked, StartFails, CodexTakes, PromptTaken,
     PromptRefused, Interrupted, EngineEnds, Dies, OnAccepted, OnFailed, Death, Timeout,
     LeaseExpires
<1>2. ASSUME OnFinal(c)
      PROVE  \A m \in finals' \ finals : m = job[c].n /\ owner'[m] = job[c].thread
  <2>1. c \in flight /\ finals' = finals \cup {job[c].n} /\ UNCHANGED owner
    BY <1>2 DEF OnFinal, Event
  <2> QED BY <2>1, FlightAdapter, JobRow
<1> QED BY <1>1, <1>2

LEMMA FinalRecalled ==
  ASSUME Typed, TurnsInv, LatestInv, [Next]_vars, NEW c \in Cells, OnFinal(c), NEW i, NEW r,
         Recalls(i, r), InHistory(job[c].n, i)
  PROVE  Recalls(i, r)'
<1>1. /\ finals' = finals \cup {job[c].n} /\ UNCHANGED <<owner, convs>> BY DEF OnFinal
<1> QED BY <1>1 DEF Recalls, InHistory, Conv

(* A message is the only one. *)
LEMMA OnlyOne ==
  ASSUME NEW S, NEW s \in Seq(S), Len(s) <= 1, s # <<>>
  PROVE  Tail(s) = <<>> /\ Head(s) \in Range(s)
<1>1. Tail(s) = <<>> /\ Head(s) = s[1] /\ 1 \in DOMAIN s OBVIOUS
<1> QED BY <1>1 DEF Range

LEMMA PlaceAt ==
  ASSUME NEW c \in Cells, NEW step \in {"ensure", "resume", "resuming", "turn", "starting"},
         Goto(c, step)
  PROVE  At(c, step)' /\ \A other : At(c, other)' => other = step
<1>1. [cell |-> c, at |-> step] \in Place BY DEF Place
<1> QED BY <1>1, EnginesAssumption DEF Goto, At

(* Everything the proof may use of the state. *)
Recalling ==
    /\ Good /\ LatestInv /\ KindInv /\ RecallInv /\ Undisturbed

LEMMA RecallCodex ==
  ASSUME Recalling, [Next]_vars, Undisturbed', NEW c \in Cells, CellStep(c)
  PROVE  CodexRecalls(c)'
<1> SUFFICES ASSUME engine'[c] # None, engine'[c].kind = "codex" PROVE CodexRecalls(c)'
  BY DEF CodexRecalls
<1>0. /\ Typed /\ TurnsInv /\ LatestInv /\ KindInv /\ Without({"update"})
      /\ \A kind \in Disturbing : ~ Fault(kind)
      /\ CodexRecalls(c) /\ \A r \in Rows : RowRecalls(r)
      /\ engine[c] # None => Def(c) = engine[c].kind
  <2>1. Typed /\ TurnsInv /\ LatestInv /\ KindInv /\ RecallInv /\ Undisturbed
    BY DEF Recalling, Good
  <2> QED BY <2>1, Disturbs DEF RecallInv, KindInv
<1>1. ~ Timeout(c) BY <1>0 DEF Timeout, Disturbing
<1>2. CASE Fresh(c)
  <2>1. /\ At(c, "ensure") /\ Goto(c, "resume") /\ UNCHANGED flight BY <1>2 DEF Fresh, ensure
  <2>2. c \notin flight BY <1>0, <2>1, AtJob
  <2>3. engine'[c].conv = Len(convs) + 1 /\ Len(convs) + 1 \in Conv'
    <3>1. Def(c) # "claude" BY <1>2 DEF Fresh
    <3>2. PICK x : x = [kind |-> Def(c), turns |-> <<>>] OBVIOUS
    <3>3. convs' = Append(convs, x) /\ engine'[c].conv = Len(convs) + 1
      BY <1>2, <3>1, <3>2 DEF Fresh
    <3>4. x \in ConvRow BY <1>0, <2>1, <3>2, AtJob, DefKind DEF ConvRow
    <3>5. convs \in Seq(ConvRow) BY <1>0 DEF Typed, EnginesOK, ConvRow
    <3>6. Len(convs) + 1 \in 1..Len(convs') BY <3>3, <3>4, <3>5
    <3> QED BY <3>3, <3>6 DEF Conv
  <2>4. /\ engine'[c].inq = <<>> /\ engine'[c].resp = <<>> BY <1>2 DEF Fresh
  <2>5. ~ At(c, "resuming")' /\ ~ At(c, "starting")' /\ ~ At(c, "turn")' BY <2>1, PlaceAt
  <2>6. Len(<<>>) <= 1 OBVIOUS
  <2> QED BY <2>1, <2>2, <2>3, <2>4, <2>5, <2>6 DEF CodexRecalls
<1> SUFFICES ASSUME Worked(c) PROVE CodexRecalls(c)' BY <1>0, <1>2, Engaged
<1>3. /\ engine[c] \in AdapterRow /\ engine[c] # None /\ engine[c].kind = "codex"
      /\ Def(c) = "codex"
  BY <1>0 DEF Worked
<1>4. /\ engine[c].inq \in Seq(Message) /\ engine[c].resp \in Seq(Response)
      /\ engine[c].conv \in Conv /\ Len(engine[c].inq) <= 1 /\ Len(engine[c].resp) <= 1
      /\ engine[c].inq = <<>> \/ engine[c].resp = <<>>
      /\ ~ engine[c].up => engine[c].inq = <<>>
      /\ ~ At(c, "resuming") /\ ~ At(c, "starting") => engine[c].inq = <<>> /\ engine[c].resp = <<>>
  BY <1>0, <1>3, AdapterSeqs DEF CodexRecalls
<1>5. /\ \A i \in Conv : i \in Conv'
      /\ \A i, n : InHistory(n, i) => InHistory(n, i)'
      /\ ~ OnFinal(c) => \A i, r : Recalls(i, r) => Recalls(i, r)'
  <2>1. ~ OnFinal(c) => UNCHANGED finals BY <1>0, Answers
  <2> QED BY <1>0, <2>1, ConvGrown, HistoryKept, RecallsKept
<1>6. job[c] # None => job[c].thread \in Rows /\ job[c].thread \in Requests BY <1>0, JobRow DEF Rows
<1>7. Range(<<>>) = {} /\ Len(<<>>) <= 1 BY Nothing
<1>8. \A step, other : At(c, step) /\ At(c, other) => step = other BY DEF At
<1>9. \A step : sched = None => ~ At(c, step) BY DEF At

(* Nothing is asked. *)
<1>10. ASSUME engine'[c].conv = engine[c].conv, engine'[c].up = engine[c].up,
              engine'[c].inq = <<>>, engine'[c].resp = <<>>, c \notin flight',
              ~ At(c, "starting")', ~ At(c, "resuming")', At(c, "turn")' => ~ engine[c].up
       PROVE  CodexRecalls(c)'
  BY <1>4, <1>5, <1>7, <1>10 DEF CodexRecalls

(* The scheduler does not move. *)
<1>11. ASSUME engine'[c].conv = engine[c].conv, engine'[c].up => engine[c].up,
              ~ engine'[c].up => engine'[c].inq = <<>>,
              engine'[c].inq \in {<<>>, engine[c].inq}, engine'[c].resp \in {<<>>, engine[c].resp},
              UNCHANGED <<sched, flight, thread>>, ~ OnFinal(c),
              job'[c].thread = job[c].thread, job'[c].n = job[c].n
       PROVE  CodexRecalls(c)'
  <2>1. PICK i, r, n : i = engine[c].conv /\ r = job[c].thread /\ n = job[c].n OBVIOUS
  <2>2. i = engine'[c].conv /\ r = job'[c].thread /\ n = job'[c].n BY <1>11, <2>1
  <2>3. \A step : At(c, step)' <=> At(c, step) BY <1>11 DEF At
  <2>4. /\ Range(engine'[c].inq) \subseteq Range(engine[c].inq)
        /\ Range(engine'[c].resp) \subseteq Range(engine[c].resp)
        /\ Len(engine'[c].inq) <= 1 /\ Len(engine'[c].resp) <= 1
    BY <1>4, <1>7, <1>11
  <2>5. /\ (At(c, "turn") /\ engine[c].up) \/ At(c, "starting") \/ c \in flight => Recalls(i, r)'
        /\ c \in flight => InHistory(n, i)'
        /\ At(c, "starting") => \A m \in Range(engine[c].resp) : InHistory(n, i)'
    BY <1>0, <1>3, <1>5, <1>11, <2>1 DEF CodexRecalls
  <2>6. /\ At(c, "resuming") =>
             /\ thread[r].ethread # None
             /\ \A m \in Range(engine[c].inq) : m.what = "resume" /\ m.conv = thread[r].ethread
             /\ \A m \in Range(engine[c].resp) : m.ok /\ m.conv = thread[r].ethread
        /\ At(c, "starting") =>
             /\ \A m \in Range(engine[c].inq) : m.what = "turn" /\ m.n = n /\ m.conv = i
             /\ \A m \in Range(engine[c].resp) : m.ok
    BY <1>0, <1>3, <2>1 DEF CodexRecalls
  <2>7. /\ i \in Conv' /\ (engine'[c].inq = <<>> \/ engine'[c].resp = <<>>)
        /\ ~ At(c, "resuming") /\ ~ At(c, "starting") =>
             engine'[c].inq = <<>> /\ engine'[c].resp = <<>>
    BY <1>4, <1>5, <1>11, <2>1
  <2>8. thread' = thread /\ flight' = flight BY <1>11
  <2> QED BY <1>11, <2>2, <2>3, <2>4, <2>5, <2>6, <2>7, <2>8 DEF CodexRecalls, Recalls, InHistory

<1>12. CASE Lease(c)
  <2>1. UNCHANGED <<engine, flight>> /\ c \notin flight /\ Goto(c, "ensure") /\ sched = None
    BY <1>12 DEF Lease
  <2>2. ~ At(c, "starting")' /\ ~ At(c, "resuming")' /\ ~ At(c, "turn")' BY <2>1, PlaceAt
  <2> QED BY <1>4, <1>9, <1>10, <2>1, <2>2
<1>13. CASE ensure(c)
  <2>1. UNCHANGED <<engine, flight>> /\ At(c, "ensure") /\ Goto(c, "resume")
    BY <1>3, <1>13 DEF ensure
  <2>2. ~ At(c, "starting")' /\ ~ At(c, "resuming")' /\ ~ At(c, "turn")' BY <2>1, PlaceAt
  <2> QED BY <1>0, <1>4, <1>8, <1>10, <2>1, <2>2, AtJob
<1>14. CASE maybe_resume(c)
  <2>1. /\ At(c, "resume") /\ c \notin flight /\ UNCHANGED <<flight, job, thread>> /\ job[c] # None
    BY <1>0, <1>14, AtJob DEF maybe_resume, registry, rows
  <2>2. PICK r, t : r = job[c].thread /\ t = thread[r] OBVIOUS
  <2>3. engine[c].inq = <<>> /\ engine[c].resp = <<>> BY <1>4, <1>8, <2>1
  <2>4. r \in Rows /\ t.ethread \in Conversation /\ thread[r].cell = c
    BY <1>0, <2>1, <2>2, JobRow DEF Rows, ThreadRow, Conversation
  <2>5. CASE Request(c, "resume", 0, t.ethread) /\ Goto(c, "resuming") /\ t.ethread # None
             /\ engine[c].up
    <3>1. PICK m : m = [id |-> engine[c].id + 1, what |-> "resume", n |-> 0, conv |-> t.ethread] OBVIOUS
    <3>2. /\ engine'[c].inq = Append(engine[c].inq, m) /\ engine'[c].conv = engine[c].conv
          /\ engine'[c].up = engine[c].up /\ engine'[c].resp = engine[c].resp
      BY <1>0, <1>3, <2>4, <2>5, <3>1, RequestShape
    <3>3. m \in Message /\ m.what = "resume" /\ m.conv = t.ethread
      BY <1>3, <2>4, <3>1, AdapterSeqs DEF Message
    <3>4. Range(engine'[c].inq) = {m} /\ Len(engine'[c].inq) = 1 BY <2>3, <3>2, <3>3, Single
    <3>5. At(c, "resuming")' /\ ~ At(c, "starting")' /\ ~ At(c, "turn")' BY <2>5, PlaceAt
    <3>6. job'[c].thread = r /\ thread'[r].ethread = t.ethread BY <2>1, <2>2
    <3> QED BY <1>4, <1>5, <1>7, <2>1, <2>3, <2>5, <3>2, <3>3, <3>4, <3>5, <3>6 DEF CodexRecalls
  <2>6. CASE UNCHANGED engine /\ Goto(c, "turn") /\ (~ engine[c].up \/ t.ethread = None)
    <3>1. At(c, "turn")' /\ ~ At(c, "starting")' /\ ~ At(c, "resuming")' BY <2>6, PlaceAt
    <3>2. CASE ~ engine[c].up BY <1>10, <2>1, <2>3, <2>6, <3>1, <3>2
    <3>3. CASE t.ethread = None
      <4>1. PICK i : i = engine[c].conv OBVIOUS
      <4>2. Unanswered(r) BY <1>0, <1>3, <2>2, <2>4, <3>3 DEF RowRecalls, Kept
      <4>3. Recalls(i, r) BY <1>4, <4>1, <4>2 DEF Unanswered, Recalls
      <4>4. ~ OnFinal(c) BY <1>9, <2>1 DEF OnFinal, Event
      <4>5. Recalls(i, r)' BY <1>5, <4>3, <4>4
      <4>6. i = engine'[c].conv /\ r = job'[c].thread BY <2>1, <2>2, <2>6, <4>1
      <4> QED BY <1>4, <1>5, <1>7, <2>1, <2>3, <2>6, <3>1, <4>5, <4>6 DEF CodexRecalls, Recalls
    <3> QED BY <2>6, <3>2, <3>3
  <2> QED BY <1>3, <1>14, <2>2, <2>5, <2>6 DEF maybe_resume
<1>15. CASE SkipResponse(c)
  <2>1. /\ engine[c].resp # <<>> /\ UNCHANGED <<sched, flight, job, thread>> /\ ~ OnFinal(c)
        /\ engine' = [engine EXCEPT ![c].resp = Tail(engine[c].resp)]
    BY <1>9, <1>15 DEF SkipResponse, registry, rows, OnFinal, Event
  <2>2. engine'[c].resp = <<>> BY <1>0, <1>3, <1>4, <2>1, RespSkipped, OnlyOne
  <2>3. /\ engine'[c].conv = engine[c].conv /\ engine'[c].up = engine[c].up
        /\ engine'[c].inq = engine[c].inq
    BY <1>0, <1>3, <2>1, RespSkipped
  <2> QED BY <1>4, <1>11, <2>1, <2>2, <2>3
<1>16. CASE resume_thread(c)
  <2>1. /\ At(c, "resuming") /\ engine[c].resp # <<>> /\ Goto(c, "turn")
        /\ UNCHANGED <<flight, job, thread>>
    BY <1>16 DEF resume_thread, registry, rows
  <2>2. PICK r, i : r = job[c].thread /\ i = thread[r].ethread OBVIOUS
  <2>3. c \notin flight /\ job[c] # None /\ ~ OnFinal(c) BY <1>0, <1>9, <2>1, AtJob DEF OnFinal, Event
  <2>4. r \in Rows /\ thread[r].cell = c /\ i \in Conversation
    BY <1>0, <2>2, <2>3, JobRow DEF Rows, ThreadRow, Conversation
  <2>5. Head(engine[c].resp) \in Range(engine[c].resp) /\ Tail(engine[c].resp) = <<>>
    BY <1>4, <2>1, OnlyOne
  <2>6. Head(engine[c].resp).ok /\ Head(engine[c].resp).conv = i /\ i # None
    BY <1>0, <1>3, <2>1, <2>2, <2>5 DEF CodexRecalls
  <2>7. engine' = [engine EXCEPT ![c].conv = i, ![c].resp = Tail(engine[c].resp)]
    BY <1>16, <2>6 DEF resume_thread
  <2>8. /\ engine'[c].conv = i /\ engine'[c].resp = <<>> /\ engine'[c].inq = engine[c].inq
        /\ engine'[c].up = engine[c].up
    BY <1>0, <1>3, <2>1, <2>4, <2>5, <2>7, RespTaken
  <2>9. Recalls(i, r) BY <1>0, <1>3, <2>2, <2>4, <2>6 DEF RowRecalls, Kept
  <2>10. Recalls(i, r)' BY <1>5, <2>3, <2>9
  <2>11. At(c, "turn")' /\ ~ At(c, "starting")' /\ ~ At(c, "resuming")' BY <2>1, PlaceAt
  <2>12. engine[c].inq = <<>> /\ r = job'[c].thread BY <1>4, <2>1, <2>2
  <2> QED BY <1>7, <2>1, <2>3, <2>8, <2>10, <2>11, <2>12 DEF CodexRecalls, Recalls
<1>17. CASE ResumeFails(c)
  <2>1. /\ At(c, "resuming") /\ CallFails(c) /\ Goto(c, "turn") /\ UNCHANGED <<engine, flight>>
    BY <1>17 DEF ResumeFails
  <2>2. engine[c].resp = <<>> /\ ~ engine[c].up BY <1>0, <2>1 DEF CallFails, Disturbing
  <2>3. ~ At(c, "starting")' /\ ~ At(c, "resuming")' BY <2>1, PlaceAt
  <2> QED BY <1>0, <1>4, <1>10, <2>1, <2>2, <2>3, AtJob
<1>18. CASE start_turn(c)
  <2>1. /\ At(c, "turn") /\ engine[c].up /\ Request(c, "turn", job[c].n, engine[c].conv)
        /\ Goto(c, "starting") /\ UNCHANGED <<flight, job, thread>>
    BY <1>3, <1>18 DEF start_turn, registry, rows
  <2>2. /\ c \notin flight /\ job[c] \in Job /\ job[c] # None /\ ~ OnFinal(c)
    BY <1>0, <1>9, <2>1, AtJob DEF OnFinal, Event
  <2>3. engine[c].inq = <<>> /\ engine[c].resp = <<>> BY <1>4, <1>8, <2>1
  <2>4. PICK i, r, n : i = engine[c].conv /\ r = job[c].thread /\ n = job[c].n OBVIOUS
  <2>5. i \in Conversation /\ n \in Nat BY <1>3, <2>2, <2>4, AdapterSeqs DEF Job
  <2>6. PICK m : m = [id |-> engine[c].id + 1, what |-> "turn", n |-> n, conv |-> i] OBVIOUS
  <2>7. /\ engine'[c].inq = Append(engine[c].inq, m) /\ engine'[c].conv = engine[c].conv
        /\ engine'[c].up = engine[c].up /\ engine'[c].resp = engine[c].resp
    BY <1>0, <1>3, <2>1, <2>4, <2>5, <2>6, RequestShape
  <2>8. m \in Message /\ m.what = "turn" /\ m.n = n /\ m.conv = i
    BY <1>3, <2>5, <2>6, AdapterSeqs DEF Message
  <2>9. Range(engine'[c].inq) = {m} /\ Len(engine'[c].inq) = 1 BY <2>3, <2>7, <2>8, Single
  <2>10. At(c, "starting")' /\ ~ At(c, "resuming")' /\ ~ At(c, "turn")' BY <2>1, PlaceAt
  <2>11. Recalls(i, r)' BY <1>0, <1>3, <1>5, <2>1, <2>2, <2>4 DEF CodexRecalls
  <2>12. i = engine'[c].conv /\ r = job'[c].thread /\ n = job'[c].n BY <2>1, <2>4, <2>7
  <2> QED BY <1>7, <2>1, <2>2, <2>3, <2>7, <2>8, <2>9, <2>10, <2>11, <2>12 DEF CodexRecalls, Recalls
<1>19. CASE StartAcked(c)
  <2>1. /\ At(c, "starting") /\ engine[c].resp # <<>> /\ flight' = flight \cup {c} /\ sched' = None
        /\ UNCHANGED job /\ Head(engine[c].resp).n \in Nat
        /\ engine' = [engine EXCEPT
              ![c].out = <<[what |-> "accepted", n |-> Head(engine[c].resp).n]>> \o engine[c].out,
              ![c].resp = Tail(engine[c].resp)]
    BY <1>0, <1>3, <1>19, Responses DEF StartAcked
  <2>2. Head(engine[c].resp) \in Range(engine[c].resp) /\ Tail(engine[c].resp) = <<>>
    BY <1>4, <2>1, OnlyOne
  <2>3. /\ engine'[c].resp = <<>> /\ engine'[c].conv = engine[c].conv
        /\ engine'[c].up = engine[c].up /\ engine'[c].inq = engine[c].inq
    BY <1>0, <1>3, <2>1, <2>2, AckShape
  <2>4. PICK i, r, n : i = engine[c].conv /\ r = job[c].thread /\ n = job[c].n OBVIOUS
  <2>5. ~ OnFinal(c) BY <1>9, <2>1 DEF OnFinal, Event
  <2>6. Recalls(i, r) /\ InHistory(n, i) BY <1>0, <1>3, <2>1, <2>2, <2>4 DEF CodexRecalls
  <2>7. Recalls(i, r)' /\ InHistory(n, i)' BY <1>5, <2>5, <2>6
  <2>8. i = engine'[c].conv /\ r = job'[c].thread /\ n = job'[c].n BY <2>1, <2>3, <2>4
  <2>9. \A step : ~ At(c, step)' BY <2>1 DEF At
  <2>10. engine[c].inq = <<>> BY <1>4, <2>1
  <2> QED BY <1>4, <1>5, <1>7, <2>3, <2>7, <2>8, <2>9, <2>10 DEF CodexRecalls, Recalls, InHistory
<1>20. CASE StartFails(c)
  <2>1. sched' = None /\ UNCHANGED flight /\ c \notin flight
    BY <1>0, <1>20, AtJob DEF StartFails
  <2>2. CASE At(c, "turn") /\ UNCHANGED engine
    <3>1. engine[c].inq = <<>> /\ engine[c].resp = <<>> BY <1>4, <1>8, <2>2
    <3> QED BY <1>10, <2>1, <2>2, <3>1 DEF At
  <2>3. CASE At(c, "starting") /\ CallFails(c) /\ UNCHANGED engine
    <3>1. engine[c].resp = <<>> /\ ~ engine[c].up BY <1>0, <2>3 DEF CallFails, Disturbing
    <3> QED BY <1>4, <1>10, <2>1, <2>3, <3>1 DEF At
  <2>4. CASE /\ At(c, "starting") /\ engine[c].resp # <<>>
             /\ engine' = [engine EXCEPT ![c].resp = Tail(engine[c].resp)]
    <3>1. engine[c].inq = <<>> /\ Tail(engine[c].resp) = <<>> BY <1>0, <1>3, <1>4, <2>4, OnlyOne
    <3>2. /\ engine'[c].resp = <<>> /\ engine'[c].conv = engine[c].conv
          /\ engine'[c].up = engine[c].up /\ engine'[c].inq = <<>>
      BY <1>0, <1>3, <2>4, <3>1, RespSkipped
    <3> QED BY <1>10, <2>1, <3>2 DEF At
  <2> QED BY <1>20, <2>2, <2>3, <2>4 DEF StartFails
<1>21. CASE CodexTakes(c)
  <2>1. PICK q : q = Head(engine[c].inq) OBVIOUS
  <2>2. /\ engine[c].inq # <<>> /\ engine[c].up /\ UNCHANGED <<job, flight, sched, thread>>
        /\ Respond(c, q, TRUE) /\ ~ OnFinal(c)
        /\ convs' = IF q.what = "turn" THEN Extend(q.conv, q.n) ELSE convs
    <3>1. engine[c].inq # <<>> /\ engine[c].up /\ UNCHANGED <<job, flight, sched, thread>>
          /\ Respond(c, q, TRUE) /\ convs' = IF q.what = "turn" THEN Extend(q.conv, q.n) ELSE convs
      BY <1>0, <1>21, <2>1 DEF CodexTakes, Ready, registry, rows, Disturbing
    <3>2. UNCHANGED finals BY <1>21 DEF CodexTakes
    <3>3. At(c, "resuming") \/ At(c, "starting") BY <1>4, <3>1
    <3> QED BY <1>9, <3>1, <3>3 DEF OnFinal, Event
  <2>3. q \in Range(engine[c].inq) /\ Tail(engine[c].inq) = <<>> BY <1>4, <2>1, <2>2, OnlyOne
  <2>4. q.n \in Nat /\ q.conv \in Conversation /\ q.id \in Nat BY <1>0, <1>3, <2>1, <2>2, Messages
  <2>5. PICK p : p = [id |-> q.id, ok |-> TRUE, n |-> q.n, conv |-> q.conv] OBVIOUS
  <2>6. /\ engine'[c].resp = Append(engine[c].resp, p) /\ engine'[c].inq = <<>>
        /\ engine'[c].conv = engine[c].conv /\ engine'[c].up = engine[c].up
    BY <1>0, <1>3, <2>1, <2>2, <2>3, <2>4, <2>5, RespondShape
  <2>7. p \in Response /\ p.ok /\ p.conv = q.conv BY <2>4, <2>5 DEF Response
  <2>8. Range(engine'[c].resp) = {p} /\ Len(engine'[c].resp) = 1
    <3>1. engine[c].resp = <<>> BY <1>4, <2>2
    <3> QED BY <2>6, <2>7, <3>1, Single
  <2>9. \A step : At(c, step)' <=> At(c, step) BY <2>2 DEF At
  <2>10. PICK i, r, n : i = engine[c].conv /\ r = job[c].thread /\ n = job[c].n OBVIOUS
  <2>11. i = engine'[c].conv /\ r = job'[c].thread /\ n = job'[c].n BY <2>2, <2>6, <2>10
  <2>12. c \notin flight /\ (At(c, "resuming") \/ At(c, "starting")) BY <1>0, <1>4, <2>2, AtJob
  <2>13. CASE At(c, "resuming")
    <3>1. q.conv = thread[r].ethread /\ thread[r].ethread # None
      BY <1>0, <1>3, <2>3, <2>10, <2>13 DEF CodexRecalls
    <3>2. thread'[r].ethread = thread[r].ethread BY <2>2
    <3>3. ~ At(c, "starting") /\ ~ At(c, "turn") BY <1>8, <2>13
    <3> QED BY <1>4, <1>5, <1>7, <2>2, <2>6, <2>7, <2>8, <2>9, <2>10, <2>11, <2>12, <2>13, <3>1, <3>2, <3>3
        DEF CodexRecalls
  <2>14. CASE At(c, "starting")
    <3>1. q.what = "turn" /\ q.n = n /\ q.conv = i /\ Recalls(i, r)
      BY <1>0, <1>3, <2>3, <2>10, <2>14 DEF CodexRecalls
    <3>2. Recalls(i, r)' BY <1>5, <2>2, <3>1
    <3>3. InHistory(n, i)'
      <4>1. PICK s : s = convs[i].turns OBVIOUS
      <4>2. s \in Seq(Nat)
        <5>1. convs \in Seq(ConvRow) BY <1>0 DEF Typed, EnginesOK, ConvRow
        <5>2. convs[i] \in ConvRow BY <1>4, <2>10, <5>1 DEF Conv
        <5> QED BY <4>1, <5>2 DEF ConvRow
      <4>3. convs'[i].turns = Append(s, n)
        <5>1. convs' = Extend(i, n) /\ n \in Nat BY <2>2, <2>4, <3>1
        <5>2. i \in 1..Len(convs) BY <1>4, <2>10 DEF Conv
        <5> QED BY <1>0, <4>1, <5>1, <5>2, Extended
      <4>4. n \in Nat BY <2>4, <3>1
      <4>5. Len(s) + 1 \in 1..Len(Append(s, n)) /\ Append(s, n)[Len(s) + 1] = n BY <4>2, <4>4
      <4>6. i \in Conv' BY <1>4, <1>5, <2>10
      <4> QED BY <4>3, <4>5, <4>6 DEF InHistory
    <3>4. ~ At(c, "resuming") BY <1>8, <2>14
    <3>5. /\ i \in Conv' /\ Range(engine'[c].inq) = {} /\ Len(engine'[c].inq) <= 1
          /\ At(c, "starting")' /\ ~ At(c, "resuming")' /\ p.ok
      BY <1>4, <1>5, <1>7, <2>6, <2>7, <2>9, <2>10, <2>14, <3>4
    <3> QED BY <2>6, <2>8, <2>11, <3>2, <3>3, <3>5 DEF CodexRecalls, Recalls, InHistory
  <2> QED BY <2>12, <2>13, <2>14
<1>22. ~ Interrupted(c)
  <2> SUFFICES ASSUME Interrupted(c) PROVE FALSE OBVIOUS
  <2>1. engine[c].inq # <<>> /\ Head(engine[c].inq).what = "interrupt" BY DEF Interrupted
  <2>2. Head(engine[c].inq) \in Range(engine[c].inq) BY <1>4, <2>1, OnlyOne
  <2>3. At(c, "resuming") \/ At(c, "starting") BY <1>4, <2>1
  <2> QED BY <1>0, <1>3, <2>1, <2>2, <2>3 DEF CodexRecalls
<1>23. CASE EngineEnds(c)
  <2>1. /\ UNCHANGED <<sched, flight, job, thread, finals>> /\ engine'[c].inq = engine[c].inq
        /\ engine'[c].resp = engine[c].resp /\ engine'[c].up = engine[c].up
        /\ engine'[c].conv = engine[c].conv
    BY <1>0, <1>23, EndEffect DEF registry, rows
  <2>2. c \in flight' => ~ OnFinal(c) BY <2>1 DEF OnFinal
  <2>3. c \notin flight => ~ OnFinal(c) BY DEF OnFinal, Event
  <2> QED BY <1>4, <1>11, <2>1, <2>2, <2>3
<1>24. CASE Dies(c)
  <2>1. /\ UNCHANGED <<sched, flight, job, thread>> BY <1>24 DEF Dies, registry, rows
  <2>2. /\ engine'[c].up = FALSE /\ engine'[c].inq = <<>> /\ engine'[c].conv = engine[c].conv
        /\ engine'[c].resp = engine[c].resp
    BY <1>0, <1>3, <1>24, DiesShape
  <2>3. ~ OnFinal(c) BY <2>1 DEF OnFinal, Event
  <2> QED BY <1>11, <2>1, <2>2, <2>3
<1>25. CASE OnAccepted(c)
  <2>1. /\ UNCHANGED <<sched, flight, thread>> /\ c \in flight
        /\ engine'[c].inq = engine[c].inq /\ engine'[c].resp = engine[c].resp
        /\ engine'[c].up = engine[c].up /\ engine'[c].conv = engine[c].conv
        /\ job'[c].thread = job[c].thread /\ job'[c].n = job[c].n
    BY <1>0, <1>25, AcceptedEffect DEF registry, rows
  <2>2. ~ OnFinal(c) BY <2>1 DEF OnFinal
  <2> QED BY <1>4, <1>11, <2>1, <2>2
<1>26. CASE OnFinal(c) \/ OnFailed(c)
  <2>1. /\ sched = None /\ sched' = None /\ flight' = flight \ {c}
        /\ engine' = [engine EXCEPT ![c].out = <<>>]
    BY <1>26 DEF OnFinal, OnFailed, Event
  <2>2. /\ engine'[c].inq = engine[c].inq /\ engine'[c].resp = engine[c].resp
        /\ engine'[c].up = engine[c].up /\ engine'[c].conv = engine[c].conv
    BY <1>0, <1>3, <2>1, EventsDropped
  <2> QED BY <1>4, <1>9, <1>10, <2>1, <2>2 DEF At
<1>27. CASE Death(c)
  <2>1. engine'[c] = None BY <1>0, <1>27 DEF Death, Typed, EnginesOK
  <2> QED BY <2>1
<1>28. CASE LeaseExpires(c)
  <2>1. sched = None /\ UNCHANGED <<sched, engine, flight>> /\ c \notin flight
    BY <1>28 DEF LeaseExpires
  <2> QED BY <1>4, <1>9, <1>10, <2>1 DEF At
<1>29. ~ SpawnFails(c) /\ ~ PromptTaken(c) /\ ~ PromptRefused(c)
  BY <1>3 DEF SpawnFails, PromptTaken, PromptRefused
<1> QED
  BY <1>1, <1>12, <1>13, <1>14, <1>15, <1>16, <1>17, <1>18, <1>19, <1>20, <1>21, <1>22, <1>23,
     <1>24, <1>25, <1>26, <1>27, <1>28, <1>29 DEF CellStep

LEMMA RecallClaude ==
  ASSUME Recalling, [Next]_vars, Undisturbed', NEW c \in Cells, CellStep(c)
  PROVE  ClaudeRecalls(c)'
<1> SUFFICES ASSUME engine'[c] # None, engine'[c].kind = "claude" PROVE ClaudeRecalls(c)'
  BY DEF ClaudeRecalls
<1>0. /\ Typed /\ Typed' /\ TurnsInv /\ LatestInv /\ LineOK(c) /\ LineOK(c)' /\ ResumeOK(c)
      /\ Good /\ ClaudeRecalls(c) /\ \A r \in Rows : RowRecalls(r)
      /\ engine[c] # None => Def(c) = engine[c].kind
      /\ ~ Timeout(c)
  <2>1. /\ Typed /\ LineInv /\ TurnsInv /\ SessionInv /\ LatestInv /\ KindInv /\ RecallInv
        /\ Undisturbed /\ Good
    BY DEF Recalling, Good
  <2>2. Typed' /\ LineInv' BY <2>1, TypedStep, LineStep
  <2>3. /\ Honest /\ Without({"timeout"}) /\ Without({"timeout"})'
        /\ Without({"update"})
    BY <2>1, Disturbs
  <2>4. LineOK(c) /\ LineOK(c)' /\ ResumeOK(c) BY <2>1, <2>2, <2>3 DEF LineInv, SessionInv
  <2>5. ~ Timeout(c) BY <2>1, <2>3, Seen
  <2> QED BY <2>1, <2>2, <2>3, <2>4, <2>5 DEF RecallInv, KindInv
<1>1. \A step, other : At(c, step) /\ At(c, other) => step = other BY DEF At
<1>2. ASSUME c \notin flight', At(c, "turn")' /\ engine'[c].up =>
               engine'[c].resume = thread'[job'[c].thread].esession
      PROVE  ClaudeRecalls(c)'
  <2>1. engine'[c].inq = <<>> /\ engine'[c].run = None /\ engine'[c].out = <<>>
    BY <1>0, <1>2 DEF LineOK
  <2>2. Range(engine'[c].inq) = {} /\ Range(engine'[c].out) = {} BY <2>1, Nothing
  <2> QED BY <1>2, <2>1, <2>2 DEF ClaudeRecalls
<1>3. CASE Fresh(c)
  <2>1. c \notin flight' /\ Goto(c, "resume") BY <1>0, <1>3, AtJob DEF Fresh, ensure
  <2>2. ~ At(c, "turn")' BY <2>1, PlaceAt
  <2> QED BY <1>2, <2>1, <2>2
<1> SUFFICES ASSUME Worked(c) PROVE ClaudeRecalls(c)' BY <1>0, <1>3, Engaged
<1>4. /\ engine[c] \in AdapterRow /\ engine[c] # None /\ engine[c].kind = "claude"
      /\ Def(c) = "claude"
  BY <1>0 DEF Worked
<1>5. PICK r, n : r = job[c].thread /\ n = job[c].n OBVIOUS
<1>6. job[c] # None => r \in Rows /\ r \in Requests /\ thread[r].cell = c /\ job[c] \in Job
  BY <1>0, <1>5, JobRow DEF Rows
<1>7. /\ engine[c].inq \in Seq(Message) /\ engine[c].out \in Seq(EventLine)
      /\ engine[c].resume \in Conversation /\ engine[c].run \in Run \cup {None}
  BY <1>4, AdapterSeqs
<1>8. ~ At(c, "resuming") /\ ~ At(c, "starting") BY <1>0, <1>4, AtJob

(* No turn is in flight. *)
<1>9. CASE c \notin flight'
  <2>1. CASE maybe_resume(c)
    <3>1. At(c, "resume") /\ job[c] # None /\ UNCHANGED <<job, thread>>
      BY <1>0, <2>1, AtJob DEF maybe_resume, registry, rows
    <3>2. PICK i : i = thread[r].esession OBVIOUS
    <3>3. i \in Conversation BY <1>6, <3>1, <3>2 DEF Rows, ThreadRow, Conversation
    <3>4. /\ i # None => engine' = [engine EXCEPT ![c].resume = i]
          /\ i = None => UNCHANGED engine
      BY <1>4, <1>5, <2>1, <3>2 DEF maybe_resume
    <3>5. CASE i # None
      <4>1. engine'[c].resume = i BY <1>0, <1>4, <3>3, <3>4, <3>5, ResumeNoted
      <4> QED BY <1>2, <1>5, <1>9, <3>1, <3>2, <4>1
    <3>6. CASE i = None
      <4>1. ~ At(c, "turn") BY <1>1, <3>1
      <4>2. engine[c].up => engine[c].resume = None BY <1>0, <1>4, <4>1 DEF ResumeOK
      <4>3. thread'[job'[c].thread].esession = None BY <1>5, <3>1, <3>2, <3>6
      <4>4. engine'[c].up => engine'[c].resume = None BY <3>4, <3>6, <4>2
      <4> QED BY <1>2, <1>9, <4>3, <4>4
    <3> QED BY <3>5, <3>6
  <2>2. CASE ~ maybe_resume(c) /\ At(c, "turn")'
    <3>1. At(c, "turn") /\ UNCHANGED sched
      <4>1. UNCHANGED sched \/ sched' = None \/ (\E step \in {"ensure", "resume"} : Goto(c, step))
        BY <1>0, <1>4, <1>8, <2>2
        DEF CellStep, Lease, SpawnFails, ensure, SkipResponse, resume_thread, ResumeFails,
            start_turn, StartAcked, StartFails, CodexTakes, PromptTaken, PromptRefused,
            Interrupted, EngineEnds, Dies, OnAccepted, OnFinal, OnFailed, Death, LeaseExpires
      <4>2. ASSUME NEW step \in {"ensure", "resume"}, Goto(c, step) PROVE FALSE
        BY <2>2, <4>2, PlaceAt
      <4> QED BY <2>2, <4>1, <4>2 DEF At
    <3>2. /\ c \notin flight /\ engine[c].inq = <<>> /\ engine[c].run = None /\ sched # None
          /\ ~ At(c, "resume") /\ ~ At(c, "ensure") /\ sched.cell = c
      BY <1>0, <1>1, <1>4, <3>1, AtJob DEF LineOK
    <3>3. CASE Dies(c)
      <4>1. engine'[c].up = FALSE BY <1>0, <1>4, <3>3, DiesShape
      <4> QED BY <1>2, <1>9, <4>1
    <3>4. Dies(c)
      <4>1. ~ (Lease(c) \/ SpawnFails(c) \/ ensure(c))
        BY <1>4, <3>2 DEF Lease, SpawnFails, ensure
      <4>2. ~ (SkipResponse(c) \/ resume_thread(c) \/ ResumeFails(c) \/ StartAcked(c))
        BY <1>8 DEF SkipResponse, resume_thread, ResumeFails, StartAcked
      <4>3. ~ (start_turn(c) \/ StartFails(c))
        BY <1>4, <3>1, <3>2 DEF start_turn, StartFails
      <4>4. ~ (CodexTakes(c) \/ PromptTaken(c) \/ PromptRefused(c) \/ Interrupted(c))
        BY <1>4, <3>2 DEF CodexTakes, PromptTaken, PromptRefused, Interrupted, Ready
      <4>5. ~ EngineEnds(c) BY <3>2 DEF EngineEnds
      <4>6. ~ (OnAccepted(c) \/ OnFinal(c) \/ OnFailed(c) \/ Death(c) \/ LeaseExpires(c))
        BY <3>2 DEF OnAccepted, OnFinal, OnFailed, Death, LeaseExpires, Event
      <4> QED BY <1>0, <2>2, <4>1, <4>2, <4>3, <4>4, <4>5, <4>6 DEF CellStep
    <3> QED BY <3>3, <3>4
  <2> QED BY <1>2, <1>9, <2>1, <2>2

(* A turn is in flight. *)
<1>10. CASE c \in flight'
  <2>1. ~ OnFinal(c) BY <1>10 DEF OnFinal
  <2>2. /\ UNCHANGED finals
        /\ \A i, n1 : InHistory(n1, i) => InHistory(n1, i)'
        /\ \A i, r1 : Recalls(i, r1) => Recalls(i, r1)'
    BY <1>0, <2>1, Answers, HistoryKept, RecallsKept
  <2>3. \A step : ~ At(c, step)' BY <1>0, <1>10 DEF At, Typed, JobsInv
  <2>4. ASSUME job'[c].thread = r, job'[c].n = n, UNCHANGED thread,
               \A m \in Range(engine'[c].inq) : m.conv = thread[r].esession,
               engine'[c].run # None => \A i : i = engine'[c].run.conv =>
                 Recalls(i, r)' /\ InHistory(n, i)',
               \A m \in Range(engine'[c].out) : m.what = "final" =>
                 \A i : i = engine'[c].session => Recalls(i, r)' /\ InHistory(n, i)'
        PROVE  ClaudeRecalls(c)'
    BY <2>3, <2>4 DEF ClaudeRecalls, Recalls, InHistory
  <2>5. /\ \A m \in Range(engine[c].inq) : m.conv = thread[r].esession
        /\ engine[c].run # None => Recalls(engine[c].run.conv, r) /\ InHistory(n, engine[c].run.conv)
        /\ \A m \in Range(engine[c].out) : m.what = "final" =>
             Recalls(engine[c].session, r) /\ InHistory(n, engine[c].session)
    BY <1>0, <1>4, <1>5 DEF ClaudeRecalls
  <2>6. CASE start_turn(c)
    <3>1. /\ At(c, "turn") /\ job[c] \in Job /\ engine[c].up /\ UNCHANGED <<job, thread>>
          /\ c \notin flight /\ job[c] # None
      BY <1>0, <2>6, AtJob DEF start_turn, registry, rows
    <3>2. engine[c].resume = thread[r].esession BY <1>0, <1>4, <1>5, <3>1 DEF ClaudeRecalls
    <3>3. PICK m : m = [what |-> "turn", n |-> n, conv |-> engine[c].resume] OBVIOUS
    <3>4. /\ engine'[c].inq = Append(engine[c].inq, m) /\ engine'[c].run = engine[c].run
          /\ engine'[c].out = engine[c].out
      BY <1>0, <1>4, <1>5, <2>6, <3>1, <3>3, PromptShape DEF start_turn
    <3>5. engine[c].inq = <<>> /\ engine[c].run = None /\ engine[c].out = <<>>
      BY <1>0, <1>4, <3>1 DEF LineOK
    <3>6. m \in Message /\ m.conv = thread[r].esession
      <4>1. n \in Nat BY <1>5, <3>1 DEF Job
      <4> QED BY <1>7, <3>2, <3>3, <4>1 DEF Message
    <3>7. Range(engine'[c].inq) = {m} BY <3>4, <3>5, <3>6, Single
    <3>8. Range(engine'[c].out) = {} BY <3>4, <3>5, Nothing
    <3> QED BY <1>5, <2>4, <3>1, <3>4, <3>5, <3>6, <3>7, <3>8
  <2>7. CASE c \in flight /\ PromptTaken(c)
    <3>1. PICK q : q = Taken(c) OBVIOUS
    <3>2. /\ engine[c].inq # <<>> /\ q \in Range(engine[c].inq) /\ q.n \in Nat
          /\ engine'[c].inq = Tail(engine[c].inq) /\ q.conv \in Conversation
          /\ UNCHANGED <<job, thread, owner>>
      BY <1>0, <2>7, <3>1, PromptEffect DEF Taken, registry, rows
    <3>3. engine[c].out = <<>> /\ Tail(engine[c].inq) = <<>> /\ engine[c].run = None /\ q.n = n
      BY <1>0, <1>4, <1>5, <3>2, LineHas
    <3>4. PICK ev \in {"accepted", "failed"} :
            /\ engine'[c].out = Append(engine[c].out, [what |-> ev, n |-> q.n])
            /\ \/ /\ engine'[c].run = [n |-> q.n, conv |-> Len(convs) + 1] /\ q.conv = None
                  /\ convs' = Append(convs, [kind |-> "claude", turns |-> <<q.n>>])
               \/ /\ q.conv # None /\ engine'[c].run = [n |-> q.n, conv |-> q.conv]
                  /\ convs' = Extend(q.conv, q.n)
               \/ engine'[c].run = engine[c].run
      BY <1>0, <1>4, <2>7, <3>1, PromptEffect DEF Taken
    <3>5. PICK m : m = [what |-> ev, n |-> q.n] OBVIOUS
    <3>6. m \in EventLine /\ m.what # "final" BY <3>2, <3>5 DEF EventLine
    <3>7. Range(engine'[c].out) = {m} /\ Range(engine'[c].inq) = {}
      <4>1. engine'[c].inq = <<>> /\ engine'[c].out = Append(<<>>, m)
        BY <3>2, <3>3, <3>4, <3>5
      <4> QED BY <3>6, <4>1, Single, Nothing
    <3>8. r \in Rows /\ Kept(q.conv, r)
      <4>1. job[c] # None BY <1>0, <2>7, FlightAdapter
      <4>2. q.conv = thread[r].esession BY <2>5, <3>2
      <4> QED BY <1>0, <1>4, <1>6, <4>1, <4>2 DEF RowRecalls
    <3>9. convs \in Seq(ConvRow) BY <1>0 DEF Typed, EnginesOK, ConvRow
    <3>10. ASSUME NEW i, i = engine'[c].run.conv, engine'[c].run # None
           PROVE  Recalls(i, r)' /\ InHistory(n, i)'
      <4>1. CASE /\ q.conv # None /\ engine'[c].run = [n |-> q.n, conv |-> q.conv]
                 /\ convs' = Extend(q.conv, q.n)
        <5>1. i = q.conv /\ convs' = Extend(i, n) /\ n \in Nat BY <3>2, <3>3, <3>10, <4>1
        <5>2. Recalls(i, r) BY <3>8, <4>1, <5>1 DEF Kept
        <5>3. i \in 1..Len(convs) BY <5>2 DEF Recalls, Conv
        <5>4. PICK s : s = convs[i].turns OBVIOUS
        <5>5. s \in Seq(Nat)
          <6>1. convs[i] \in ConvRow BY <3>9, <5>3
          <6> QED BY <5>4, <6>1 DEF ConvRow
        <5>6. convs'[i].turns = Append(s, n) BY <1>0, <5>1, <5>3, <5>4, Extended
        <5>7. Len(s) + 1 \in 1..Len(Append(s, n)) /\ Append(s, n)[Len(s) + 1] = n
          BY <5>1, <5>5
        <5>8. Recalls(i, r)' BY <2>2, <5>2
        <5>9. i \in Conv' BY <5>8 DEF Recalls
        <5> QED BY <5>6, <5>7, <5>8, <5>9 DEF InHistory
      <4>2. CASE /\ engine'[c].run = [n |-> q.n, conv |-> Len(convs) + 1] /\ q.conv = None
                 /\ convs' = Append(convs, [kind |-> "claude", turns |-> <<q.n>>])
        <5>1. PICK x : x = [kind |-> "claude", turns |-> <<n>>] OBVIOUS
        <5>2. x \in ConvRow /\ x.turns = <<n>> BY <3>2, <3>3, <5>1 DEF ConvRow, EngineKind
        <5>3. i = Len(convs) + 1 /\ convs' = Append(convs, x) BY <3>3, <3>10, <4>2, <5>1
        <5>4. i \in 1..Len(convs') /\ convs'[i] = x BY <3>9, <5>2, <5>3
        <5>5. 1 \in 1..Len(<<n>>) /\ <<n>>[1] = n OBVIOUS
        <5>6. InHistory(n, i)' BY <5>2, <5>4, <5>5 DEF InHistory, Conv
        <5>7. Unanswered(r) BY <3>8, <4>2 DEF Kept
        <5>8. Recalls(i, r)' BY <2>2, <3>2, <5>4, <5>7 DEF Unanswered, Recalls, Conv
        <5> QED BY <5>6, <5>8
      <4>3. ~ (engine'[c].run = engine[c].run) BY <3>3, <3>10
      <4> QED BY <3>4, <4>1, <4>2, <4>3
    <3> QED BY <1>5, <2>4, <3>2, <3>6, <3>7, <3>10
  <2>8. CASE c \in flight /\ EngineEnds(c)
    <3>1. /\ engine'[c].inq = engine[c].inq /\ engine'[c].run = None /\ UNCHANGED <<job, thread>>
          /\ engine[c].run \in Run /\ engine[c].run # None
      BY <1>0, <2>8, EndEffect DEF EngineEnds, registry, rows
    <3>2. PICK ev \in {"final", "failed"} :
               /\ engine'[c].out = Append(engine[c].out, [what |-> ev, n |-> engine[c].run.n])
               /\ engine'[c].session = IF engine[c].kind = "claude" /\ ev = "final"
                                       THEN engine[c].run.conv ELSE engine[c].session
      BY <1>0, <2>8, EndEffect, Disturbs DEF Disturbing
    <3>3. PICK x : x = [what |-> ev, n |-> engine[c].run.n] OBVIOUS
    <3>4. x \in EventLine /\ x.what = ev BY <3>1, <3>3 DEF EventLine, Run
    <3>5. Range(engine'[c].out) = Range(engine[c].out) \cup {x}
      BY <1>7, <3>2, <3>3, <3>4, Added
    <3>6. \A i \in 1..Len(engine[c].out) : engine[c].out[i].what = "accepted"
      BY <1>0, <1>4, <3>1, LineHas
    <3>7. \A m \in Range(engine[c].out) : m.what = "accepted" BY <1>7, <3>6, InRange
    <3>8. \A i : ev = "final" /\ i = engine'[c].session => Recalls(i, r)' /\ InHistory(n, i)'
      BY <1>4, <2>2, <2>5, <3>1, <3>2
    <3> QED BY <1>5, <2>4, <2>5, <3>1, <3>4, <3>5, <3>7, <3>8
  <2>9. ASSUME job'[c].thread = r, job'[c].n = n, UNCHANGED thread,
               engine'[c].session = engine[c].session,
               Range(engine'[c].inq) \subseteq Range(engine[c].inq),
               Range(engine'[c].out) \subseteq Range(engine[c].out),
               engine'[c].run \in {None, engine[c].run}
        PROVE  ClaudeRecalls(c)'
    BY <2>2, <2>4, <2>5, <2>9
  <2>10. CASE c \in flight /\ Dies(c)
    <3>1. engine'[c].run = None /\ engine'[c].inq = <<>> /\ UNCHANGED <<job, thread>>
          /\ engine'[c].session = engine[c].session /\ engine'[c].out = engine[c].out
      BY <1>0, <1>4, <2>10, DiesShape DEF Dies, registry, rows
    <3>2. Range(engine'[c].inq) = {} /\ job'[c].thread = r /\ job'[c].n = n BY <1>5, <3>1, Nothing
    <3> QED BY <2>9, <3>1, <3>2
  <2>11. CASE OnAccepted(c)
    <3>1. /\ job'[c].thread = r /\ job'[c].n = n /\ engine'[c].session = engine[c].session
          /\ engine'[c].inq = engine[c].inq /\ engine'[c].out = Tail(engine[c].out)
          /\ engine'[c].run = engine[c].run /\ engine[c].out # <<>> /\ UNCHANGED thread
      BY <1>0, <1>5, <2>11, AcceptedEffect DEF registry, rows
    <3>2. Range(engine'[c].out) \subseteq Range(engine[c].out) BY <1>7, <3>1, Read
    <3> QED BY <2>9, <3>1, <3>2
  <2>12. ~ (c \in flight /\ Interrupted(c))
    <3> SUFFICES ASSUME Interrupted(c) PROVE FALSE OBVIOUS
    <3>1. engine[c].inq # <<>> /\ Head(engine[c].inq).what = "interrupt" BY DEF Interrupted
    <3>2. Head(engine[c].inq) \in Range(engine[c].inq) BY <1>7, <3>1, Read
    <3> QED BY <1>0, <1>4, <3>1, <3>2, LineHas
  <2>13. \A step : At(c, step) => c \notin flight BY <1>0, AtJob
  <2>14. c \notin flight => start_turn(c)
    BY <1>0, <1>4, <1>8, <1>10, <2>13
    DEF CellStep, Lease, SpawnFails, ensure, maybe_resume, SkipResponse, resume_thread, ResumeFails,
        start_turn, StartAcked, StartFails, CodexTakes, PromptTaken, PromptRefused, Interrupted,
        EngineEnds, Dies, Event, OnAccepted, OnFinal, OnFailed, Death, LeaseExpires
  <2>15. c \in flight => PromptTaken(c) \/ Interrupted(c) \/ EngineEnds(c) \/ Dies(c) \/ OnAccepted(c)
    BY <1>0, <1>4, <1>8, <1>10, <2>13
    DEF CellStep, Lease, SpawnFails, ensure, maybe_resume, SkipResponse, resume_thread, ResumeFails,
        start_turn, StartAcked, StartFails, CodexTakes, PromptRefused, OnFinal, OnFailed, Death,
        LeaseExpires
  <2> QED BY <2>6, <2>7, <2>8, <2>10, <2>11, <2>12, <2>14, <2>15
<1> QED BY <1>9, <1>10

LEMMA RecallPi ==
  ASSUME Recalling, [Next]_vars, NEW c \in Cells, CellStep(c) PROVE PiApart(c)'
<1> SUFFICES ASSUME engine'[c] # None, engine'[c].kind = "pi"
             PROVE  engine'[c].conv \in Conv' /\ convs'[engine'[c].conv].kind = "pi"
  BY DEF PiApart
<1>0. Typed /\ TurnsInv /\ PiApart(c) BY DEF Recalling, Good, RecallInv
<1>1. CASE Fresh(c)
  <2>1. PICK x : x = [kind |-> Def(c), turns |-> <<>>] OBVIOUS
  <2>2. Def(c) = "pi" /\ convs' = Append(convs, x) /\ engine'[c].conv = Len(convs) + 1
    BY <1>1, <2>1 DEF Fresh
  <2>3. job[c] # None BY <1>0, <1>1, AtJob DEF Fresh, ensure
  <2>4. x \in ConvRow /\ x.kind = "pi" BY <1>0, <2>1, <2>2, <2>3, DefKind DEF ConvRow
  <2>5. convs \in Seq(ConvRow) BY <1>0 DEF Typed, EnginesOK, ConvRow
  <2>6. Len(convs) + 1 \in 1..Len(convs') /\ convs'[Len(convs) + 1] = x BY <2>2, <2>4, <2>5
  <2> QED BY <2>2, <2>4, <2>6 DEF Conv
<1>2. CASE Worked(c)
  <2>1. engine[c] # None /\ engine[c].kind = "pi" /\ engine'[c].conv = engine[c].conv
    BY <1>2 DEF Worked
  <2> QED BY <1>0, <2>1, ConvGrown DEF PiApart
<1> QED BY <1>0, <1>1, <1>2, Engaged

(* A cell that is not touched, and no answer of whose thread is recorded. *)
LEMMA CellKept ==
  ASSUME Typed, TurnsInv, LatestInv, [Next]_vars, NEW d \in Cells, LineOK(d),
         engine'[d] = engine[d], job'[d] = job[d], d \in flight' => d \in flight,
         \A step : At(d, step)' <=> At(d, step), convs' = convs \/ \E c \in Cells : CellStep(c),
         job[d] # None =>
           /\ thread'[job[d].thread].ethread = thread[job[d].thread].ethread
           /\ thread'[job[d].thread].esession = thread[job[d].thread].esession
           /\ \A m \in finals' \ finals : owner'[m] # job[d].thread
  PROVE  /\ CodexRecalls(d) => CodexRecalls(d)'
         /\ ClaudeRecalls(d) => ClaudeRecalls(d)'
         /\ PiApart(d) => PiApart(d)'
<1>1. PICK e, r, n : e = engine[d] /\ r = job[d].thread /\ n = job[d].n OBVIOUS
<1>2. e = engine'[d] /\ r = job'[d].thread /\ n = job'[d].n BY <1>1
<1>3. /\ \A i, n1 : InHistory(n1, i) => InHistory(n1, i)'
      /\ job[d] # None => \A i : Recalls(i, r) => Recalls(i, r)'
      /\ \A i \in Conv : i \in Conv' /\ convs'[i].kind = convs[i].kind
  BY <1>1, HistoryKept, RecallsKept, ConvGrown DEF Conv
<1>4. PICK et, es : et = thread[r].ethread /\ es = thread[r].esession OBVIOUS
<1>5. job[d] # None => et = thread'[r].ethread /\ es = thread'[r].esession BY <1>1, <1>4
<1>6. \A step : At(d, step) \/ d \in flight => job[d] # None BY AtJob, FlightAdapter
<1>7. ASSUME CodexRecalls(d), e # None, e.kind = "codex" PROVE CodexRecalls(d)'
  <2>1. /\ e.conv \in Conv'
        /\ ~ e.up => e.inq = <<>>
        /\ Len(e.inq) <= 1 /\ Len(e.resp) <= 1 /\ (e.inq = <<>> \/ e.resp = <<>>)
        /\ ~ At(d, "resuming") /\ ~ At(d, "starting") => e.inq = <<>> /\ e.resp = <<>>
    BY <1>1, <1>3, <1>7 DEF CodexRecalls
  <2>2. At(d, "resuming") =>
          /\ thread'[r].ethread # None
          /\ \A m \in Range(e.inq) : m.what = "resume" /\ m.conv = thread'[r].ethread
          /\ \A m \in Range(e.resp) : m.ok /\ m.conv = thread'[r].ethread
    <3>1. At(d, "resuming") =>
            /\ et # None
            /\ \A m \in Range(e.inq) : m.what = "resume" /\ m.conv = et
            /\ \A m \in Range(e.resp) : m.ok /\ m.conv = et
      BY <1>1, <1>4, <1>7 DEF CodexRecalls
    <3> QED BY <1>5, <1>6, <3>1
  <2>3. At(d, "starting") =>
          /\ \A m \in Range(e.inq) : m.what = "turn" /\ m.n = n /\ m.conv = e.conv
          /\ \A m \in Range(e.resp) : m.ok /\ InHistory(n, e.conv)'
    BY <1>1, <1>3, <1>7 DEF CodexRecalls
  <2>4. (At(d, "turn") /\ e.up) \/ At(d, "starting") \/ d \in flight => Recalls(e.conv, r)'
    BY <1>1, <1>3, <1>6, <1>7 DEF CodexRecalls
  <2>5. d \in flight => InHistory(n, e.conv)' BY <1>1, <1>3, <1>7 DEF CodexRecalls
  <2> QED BY <1>2, <2>1, <2>2, <2>3, <2>4, <2>5 DEF CodexRecalls, Recalls, InHistory
<1>8. ASSUME ClaudeRecalls(d), e # None, e.kind = "claude" PROVE ClaudeRecalls(d)'
  <2>1. /\ At(d, "turn") /\ e.up => e.resume = es
        /\ \A m \in Range(e.inq) : m.conv = es
        /\ e.run # None => Recalls(e.run.conv, r) /\ InHistory(n, e.run.conv)
        /\ \A m \in Range(e.out) : m.what = "final" =>
             Recalls(e.session, r) /\ InHistory(n, e.session)
    BY <1>1, <1>4, <1>8 DEF ClaudeRecalls
  <2>2. e \in AdapterRow BY <1>1, <1>8, HasAdapter
  <2>3. /\ \A m \in Range(e.inq) : d \in flight
        /\ e.run # None => d \in flight
        /\ \A m \in Range(e.out) : d \in flight
    <3>1. e.inq # <<>> \/ e.run # None \/ e.out # <<>> => d \in flight
      BY <1>1, <1>8, <2>2, LineHas
    <3>2. e.inq \in Seq(Message) /\ e.out \in Seq(EventLine) BY <2>2, AdapterSeqs
    <3>3. (Range(e.inq) = {} <=> e.inq = <<>>) /\ (Range(e.out) = {} <=> e.out = <<>>)
      BY <3>2, InRange
    <3> QED BY <3>1, <3>3
  <2>4. /\ At(d, "turn") /\ e.up => e.resume = thread'[r].esession
        /\ \A m \in Range(e.inq) : m.conv = thread'[r].esession
    BY <1>5, <1>6, <2>1, <2>3
  <2>5. /\ e.run # None => Recalls(e.run.conv, r)' /\ InHistory(n, e.run.conv)'
        /\ \A m \in Range(e.out) : m.what = "final" =>
             Recalls(e.session, r)' /\ InHistory(n, e.session)'
    BY <1>3, <1>6, <2>1, <2>3
  <2> QED BY <1>2, <2>4, <2>5 DEF ClaudeRecalls, Recalls, InHistory
<1>9. PiApart(d) => PiApart(d)' BY <1>3 DEF PiApart
<1> QED BY <1>1, <1>2, <1>7, <1>8, <1>9 DEF CodexRecalls, ClaudeRecalls

(* A row that keeps its ids. *)
LEMMA RowKept ==
  ASSUME Typed, TurnsInv, LatestInv, KindInv, [Next]_vars, Without({"update"})',
         NEW r \in Rows, RowRecalls(r),
         thread'[r].ethread = thread[r].ethread, thread'[r].esession = thread[r].esession,
         \A m \in finals' \ finals : owner'[m] # r
  PROVE  RowRecalls(r)'
<1>1. PICK d : d = thread[r].cell OBVIOUS
<1>2. d = thread'[r].cell BY <1>1, RowsLive
<1>3. d \in Cells
  <2>1. thread[r] \in ThreadRow BY DEF Rows
  <2> QED BY <1>1, <2>1 DEF ThreadRow
<1>4. Live(d) BY <1>1, JobLive DEF Rows
<1>5. Def(d)' = Def(d) BY <1>3, <1>4, DefKept
<1>6. PICK et, es : et = thread[r].ethread /\ es = thread[r].esession OBVIOUS
<1>7. et = thread'[r].ethread /\ es = thread'[r].esession BY <1>6
<1>8. (Def(d) = "codex" => Kept(et, r)) /\ (Def(d) = "claude" => Kept(es, r))
  BY <1>1, <1>6 DEF RowRecalls
<1>9. (Def(d)' = "codex" => Kept(et, r)') /\ (Def(d)' = "claude" => Kept(es, r)')
  BY <1>5, <1>8, RecallsKept
<1> QED BY <1>2, <1>7, <1>9 DEF RowRecalls, Kept, Recalls, InHistory, Def

(* Rows after a final answer. *)
LEMMA FinalRecalls ==
  ASSUME Recalling, [Next]_vars, Undisturbed', NEW c \in Cells, OnFinal(c),
         NEW r \in Rows, r = job[c].thread
  PROVE  RowRecalls(r)'
<1>0. /\ Typed /\ TurnsInv /\ LatestInv /\ KindInv /\ Without({"update"}) /\ Without({"update"})'
      /\ CodexRecalls(c) /\ ClaudeRecalls(c) /\ RowRecalls(r) /\ CellStep(c)
  <2>1. Typed /\ TurnsInv /\ LatestInv /\ KindInv /\ RecallInv /\ Undisturbed
    BY DEF Recalling, Good
  <2> QED BY <2>1, Disturbs DEF RecallInv, CellStep, Undisturbed, Disturbing, Without
<1>1. /\ c \in flight /\ engine[c] \in AdapterRow /\ thread'[r] = Persisted(thread[r], engine[c])
      /\ engine[c].out # <<>> /\ Head(engine[c].out).what = "final"
  BY <1>0, FinalRows DEF OnFinal, Event
<1>2. engine[c] # None /\ job[c] # None /\ thread[r].cell = c /\ thread[r] \in ThreadRow
  BY <1>0, <1>1, FlightAdapter, JobRow DEF Rows
<1>3. engine[c].kind = Def(c) /\ Live(c) BY <1>0, <1>2 DEF KindInv
<1>4. Def(c)' = Def(c) BY <1>0, <1>3, DefKept
<1>5. PICK e, t : e = engine[c] /\ t = thread[r] OBVIOUS
<1>6. /\ thread'[r].cell = c
      /\ thread'[r].ethread = IF e.kind = "codex" THEN e.conv ELSE t.ethread
      /\ thread'[r].esession = IF e.kind = "claude" /\ e.session # None THEN e.session ELSE t.esession
  BY <1>1, <1>2, <1>5, FinalRow
<1>7. PICK n : n = job[c].n OBVIOUS
<1>8. \A i : Recalls(i, r) /\ InHistory(n, i) => Recalls(i, r)'
  BY <1>0, <1>7, FinalRecalled
<1>9. ASSUME NEW i, Recalls(i, r) PROVE i # None
  <2>1. i \in Nat BY <1>0, <1>9 DEF Recalls, Conv, Typed, EnginesOK
  <2> QED BY <2>1, EnginesAssumption
<1>10. CASE Def(c) = "codex"
  <2>1. Recalls(e.conv, r) /\ InHistory(n, e.conv)
    BY <1>0, <1>1, <1>2, <1>3, <1>5, <1>7, <1>10 DEF CodexRecalls
  <2>2. Recalls(e.conv, r)' /\ e.conv # None BY <1>8, <1>9, <2>1
  <2>3. thread'[r].ethread = e.conv BY <1>3, <1>5, <1>6, <1>10
  <2> QED BY <1>4, <1>6, <1>10, <2>2, <2>3 DEF RowRecalls, Kept, Recalls, InHistory, Def
<1>11. CASE Def(c) = "claude"
  <2>1. Head(engine[c].out) \in Range(engine[c].out)
    <3>1. engine[c].out \in Seq(EventLine) BY <1>1, AdapterSeqs
    <3> QED BY <1>1, <3>1, Read
  <2>2. Recalls(e.session, r) /\ InHistory(n, e.session)
    BY <1>0, <1>1, <1>2, <1>3, <1>5, <1>7, <1>11, <2>1 DEF ClaudeRecalls
  <2>3. Recalls(e.session, r)' /\ e.session # None BY <1>8, <1>9, <2>2
  <2>4. thread'[r].esession = e.session BY <1>3, <1>5, <1>6, <1>11, <2>3
  <2> QED BY <1>4, <1>6, <1>11, <2>3, <2>4 DEF RowRecalls, Kept, Recalls, InHistory, Def
<1> QED BY <1>4, <1>6, <1>10, <1>11 DEF RowRecalls, Def

LEMMA RowsCell ==
  ASSUME Recalling, [Next]_vars, Undisturbed', NEW c \in Cells, CellStep(c), NEW r \in Rows'
  PROVE  RowRecalls(r)'
<1>0. /\ Typed /\ TurnsInv /\ LatestInv /\ KindInv /\ Without({"update"})'
      /\ \A q \in Rows : RowRecalls(q)
  <2>1. Typed /\ TurnsInv /\ LatestInv /\ KindInv /\ RecallInv /\ Undisturbed
    BY DEF Recalling, Good
  <2> QED BY <2>1 DEF RecallInv, Undisturbed, Disturbing, Without
<1>1. r \in Rows BY <1>0, RowIds
<1>2. CASE OnFinal(c) /\ r = job[c].thread BY <1>1, <1>2, FinalRecalls
<1>3. CASE ~ (OnFinal(c) /\ r = job[c].thread)
  <2>1. thread'[r].ethread = thread[r].ethread /\ thread'[r].esession = thread[r].esession
    BY <1>0, <1>3, RowIds
  <2>2. \A m \in finals' \ finals : owner'[m] # r BY <1>0, <1>3, Answers
  <2> QED BY <1>0, <1>1, <2>1, <2>2, RowKept
<1> QED BY <1>2, <1>3

(* A turn is begun on a conversation that has the turns of its thread. *)
LEMMA FedTurn ==
  ASSUME Recalling, Undisturbed', [Next]_vars, NEW c \in Cells, CodexTakes(c) \/ PromptTaken(c),
         engine[c] \in AdapterRow, Taken(c) \in Range(engine[c].inq), engine[c].kind # "pi",
         ~ UNCHANGED convs
  PROVE  /\ Taken(c).n = job[c].n /\ owner[job[c].n] = job[c].thread
         /\ job[c].n \in 1..Len(owner) /\ Kept(Fed(c), job[c].thread)
<1>0. /\ Typed /\ LineOK(c) /\ CodexRecalls(c) /\ ClaudeRecalls(c)
      /\ \A q \in Rows : RowRecalls(q)
      /\ engine[c] # None /\ Def(c) = engine[c].kind /\ ~ Fault("reject")
  <2>1. Typed /\ LineInv /\ KindInv /\ RecallInv /\ Undisturbed BY DEF Recalling, Good
  <2>2. Without({"timeout"}) /\ Without({"update"}) /\ ~ Fault("reject") BY <2>1, Disturbs DEF Disturbing
  <2>3. engine[c] # None BY EnginesAssumption
  <2> QED BY <2>1, <2>2, <2>3 DEF RecallInv, LineInv, KindInv
<1>1. Fed(c) = Taken(c).conv BY DEF Fed
<1>2. engine[c].inq # <<>>
  <2>1. engine[c].inq \in Seq(Message) BY AdapterSeqs
  <2> QED BY <2>1, InRange
<1>3. CASE engine[c].kind = "codex"
  <2>1. CodexTakes(c) BY <1>3 DEF PromptTaken
  <2>2. Taken(c).what = "turn" BY <1>0, <2>1 DEF CodexTakes, Taken
  <2>3. At(c, "starting") BY <1>0, <1>2, <1>3, <2>2 DEF CodexRecalls
  <2>4. /\ Taken(c).n = job[c].n /\ Taken(c).conv = engine[c].conv
        /\ Recalls(engine[c].conv, job[c].thread)
    BY <1>0, <1>3, <2>3 DEF CodexRecalls
  <2>5. engine[c].conv # None
    <3>1. engine[c].conv \in Nat BY <1>0, <2>4 DEF Recalls, Conv, Typed, EnginesOK
    <3> QED BY <3>1, EnginesAssumption
  <2>6. job[c] # None BY <1>0, <2>3, AtJob
  <2> QED BY <1>0, <1>1, <2>4, <2>5, <2>6, JobRow DEF Kept
<1>4. CASE engine[c].kind = "claude"
  <2>1. c \in flight /\ Taken(c).n = job[c].n BY <1>0, <1>2, <1>4, LineHas
  <2>2. job[c] # None BY <1>0, <2>1, FlightAdapter
  <2>3. Taken(c).conv = thread[job[c].thread].esession BY <1>0, <1>4 DEF ClaudeRecalls
  <2>4. job[c].thread \in Rows /\ thread[job[c].thread].cell = c BY <1>0, <2>2, JobRow
  <2>5. PICK r, i : r = job[c].thread /\ i = thread[r].esession OBVIOUS
  <2>6. Kept(i, r) BY <1>0, <1>4, <2>4, <2>5 DEF RowRecalls
  <2> QED BY <1>0, <1>1, <2>1, <2>2, <2>3, <2>5, <2>6, JobRow
<1> QED BY <1>3, <1>4 DEF AdapterRow, EngineKind

LEMMA RecalledStep ==
  ASSUME Recalling, [Next]_vars, Undisturbed', NEW i \in Conv' PROVE Recalled(i)'
<1> SUFFICES ASSUME convs'[i].kind # "pi", NEW k \in 1..Len(convs'[i].turns),
                    NEW m \in finals', m < convs'[i].turns[k],
                    owner'[m] = owner'[convs'[i].turns[k]]
             PROVE  \E h \in 1..k : convs'[i].turns[h] = m
  BY DEF Recalled
<1>0. /\ Typed /\ TurnsInv /\ LatestInv /\ KindInv /\ convs \in Seq(ConvRow)
      /\ \A j \in Conv : Recalled(j)
      /\ \A c \in Cells : PiApart(c)
  <2>1. Typed /\ TurnsInv /\ LatestInv /\ KindInv /\ RecallInv /\ Undisturbed
    BY DEF Recalling, Good
  <2> QED BY <2>1 DEF RecallInv, Typed, EnginesOK, ConvRow
<1>1. /\ \A n \in 1..Len(owner) : owner'[n] = owner[n]
      /\ \A n \in finals : owner'[n] = owner[n]
  BY <1>0, OwnersGrow DEF LatestInv
<1>2. ASSUME NEW h, InHistory(h, i) PROVE InHistory(h, i)' BY <1>0, <1>2, HistoryKept
(* The turn was there before. *)
<1>3. CASE i \in Conv /\ k \in 1..Len(convs[i].turns)
  <2>1. /\ convs'[i].turns[k] = convs[i].turns[k] /\ convs[i].turns[k] \in 1..Len(owner)
        /\ owner'[convs'[i].turns[k]] = owner[convs[i].turns[k]]
    BY <1>0, <1>1, <1>3, ConvKept DEF TurnsInv
  <2>2. CASE m \in finals
    <3>1. convs[i].kind = convs'[i].kind
      <4>1. ASSUME NEW c \in Cells, CellStep(c) PROVE convs'[i].kind = convs[i].kind
        BY <1>0, <1>3, <4>1, ConvGrown
      <4>2. UNCHANGED engines \/ Restart => convs'[i].kind = convs[i].kind BY DEF engines, Restart
      <4> QED BY <4>1, <4>2 DEF Next, CellStep, vars
    <3>2. PICK h \in 1..k : convs[i].turns[h] = m
      BY <1>0, <1>1, <1>3, <2>1, <2>2, <3>1 DEF Recalled
    <3>3. h \in 1..Len(convs[i].turns)
      <4>1. PICK s : s = convs[i].turns OBVIOUS
      <4>2. s \in Seq(Nat)
        <5>1. convs[i] \in ConvRow BY <1>0, <1>3 DEF Conv
        <5> QED BY <4>1, <5>1 DEF ConvRow
      <4>3. k \in 1..Len(s) BY <1>3, <4>1
      <4>4. h \in 1..Len(s) BY <4>2, <4>3
      <4> QED BY <4>1, <4>4
    <3>4. convs'[i].turns[h] = m BY <1>0, <1>3, <3>2, <3>3, ConvKept
    <3> QED BY <3>4
  <2>3. CASE m \notin finals
    <3>1. PICK c \in Cells : CellStep(c)
      BY <2>3 DEF Next, CellStep, vars, engines, Restart
    <3>2. OnFinal(c) /\ m = job[c].n /\ owner'[m] = job[c].thread BY <1>0, <2>3, <3>1, Answers
    <3>3. job[c] # None BY <1>0, <3>2, FlightAdapter DEF OnFinal, Event
    <3>4. thread[job[c].thread].cell = c BY <1>0, <3>3, JobRow
    <3>5. StartedOn(convs[i].turns[k], c) BY <2>1, <3>2, <3>4 DEF StartedOn
    <3>6. convs[i].turns[k] <= m BY <1>0, <2>1, <3>2, <3>3, <3>5 DEF LatestInv
    <3>7. m \in 1..Len(owner) /\ Len(owner) \in Nat BY <1>0, <3>2, <3>3, JobRow DEF Typed, EnginesOK
    <3> QED BY <2>1, <3>6, <3>7
  <2> QED BY <2>2, <2>3
(* The turn is begun by this step. *)
<1>4. CASE ~ (i \in Conv /\ k \in 1..Len(convs[i].turns))
  <2>1. ~ UNCHANGED convs BY <1>4 DEF Conv
  <2>2. PICK c \in Cells : CellStep(c)
    BY <2>1 DEF Next, CellStep, vars, engines, Restart
  <2>3. UNCHANGED finals
    <3>1. ~ OnFinal(c) BY <2>1 DEF OnFinal
    <3> QED BY <1>0, <2>2, <3>1, Answers
  <2>4. PICK r : r = job[c].thread OBVIOUS
  <2>5. ASSUME CodexTakes(c) \/ PromptTaken(c), engine[c] \in AdapterRow, engine[c].kind # "pi",
               Taken(c) \in Range(engine[c].inq), convs'[i].turns[k] = Taken(c).n
        PROVE  m \in finals /\ owner[m] = r /\ Kept(Fed(c), r)
    <3>1. /\ Taken(c).n = job[c].n /\ owner[job[c].n] = job[c].thread
          /\ job[c].n \in 1..Len(owner) /\ Kept(Fed(c), job[c].thread)
      BY <2>1, <2>5, FedTurn
    <3>2. owner'[m] = job[c].thread BY <1>1, <2>5, <3>1
    <3> QED BY <1>1, <2>3, <2>4, <3>1, <3>2
  <2>6. CASE i \in Conv
    <3>1. /\ CodexTakes(c) \/ PromptTaken(c)
          /\ engine[c] \in AdapterRow /\ Taken(c) \in Range(engine[c].inq)
          /\ i = Fed(c) /\ convs'[i].turns[k] = Taken(c).n /\ convs'[i].kind = convs[i].kind
      BY <1>0, <1>4, <2>2, <2>6, ConvGrown
    <3>2. engine[c].kind # "pi"
      <4> SUFFICES ASSUME engine[c].kind = "pi" PROVE FALSE OBVIOUS
      <4>1. engine[c] # None BY <3>1, EnginesAssumption
      <4>2. i = engine[c].conv BY <3>1 DEF Fed
      <4>3. convs[engine[c].conv].kind = "pi" BY <1>0, <4>1 DEF PiApart
      <4> QED BY <3>1, <4>2, <4>3
    <3>3. m \in finals /\ owner[m] = r /\ Kept(i, r) BY <2>5, <3>1, <3>2
    <3>4. i # None
      <4>1. i \in Nat BY <1>0, <2>6 DEF Conv
      <4> QED BY <4>1, EnginesAssumption
    <3>5. InHistory(m, i) BY <3>3, <3>4 DEF Kept, Recalls
    <3>6. PICK h \in 1..Len(convs[i].turns) : convs[i].turns[h] = m BY <3>5 DEF InHistory
    <3>7. convs'[i].turns[h] = m BY <1>0, <2>6, <3>6, ConvKept
    <3>8. h \in 1..k
      <4>1. PICK s : s = convs[i].turns OBVIOUS
      <4>2. s \in Seq(Nat)
        <5>1. convs[i] \in ConvRow BY <1>0, <2>6 DEF Conv
        <5> QED BY <4>1, <5>1 DEF ConvRow
      <4>3. k \notin 1..Len(s) /\ h \in 1..Len(s) /\ k \in Nat /\ k >= 1
        <5>1. k \notin 1..Len(s) /\ h \in 1..Len(s) BY <1>4, <2>6, <3>6, <4>1
        <5>2. Typed' BY <1>0, TypedStep
        <5>3. convs' \in Seq(ConvRow) BY <5>2 DEF Typed, EnginesOK, ConvRow
        <5>4. convs'[i] \in ConvRow BY <5>3 DEF Conv
        <5>5. PICK u \in Seq(Nat) : u = convs'[i].turns BY <5>4 DEF ConvRow
        <5>6. k \in 1..Len(u) BY <5>5
        <5> QED BY <5>1, <5>6
      <4> QED BY <4>2, <4>3
    <3> QED BY <3>7, <3>8
  <2>7. CASE i \notin Conv
    <3>1. i = Len(convs) + 1 BY <1>0, <2>2, <2>7, ConvGrown
    <3>2. CASE ensure(c) /\ convs'[i].turns = <<>>
      BY <3>2, Nothing
    <3>3. CASE /\ PromptTaken(c) /\ engine[c].kind = "claude" /\ convs'[i].turns = <<Taken(c).n>>
               /\ engine[c] \in AdapterRow /\ Taken(c) \in Range(engine[c].inq)
      <4>1. PICK n : n = Taken(c).n OBVIOUS
      <4>2. convs'[i].turns = <<n>> BY <3>3, <4>1
      <4>3. <<n>>[k] = n
        <5>1. k \in 1..Len(<<n>>) BY <4>2
        <5> QED BY <5>1
      <4>4. convs'[i].turns[k] = Taken(c).n BY <4>1, <4>2, <4>3
      <4>5. m \in finals /\ owner[m] = r /\ Kept(Fed(c), r) BY <2>5, <3>3, <4>4
      <4>6. Fed(c) = None
        <5>1. ~ ensure(c) \/ engine[c] # None BY <3>3, EnginesAssumption
        <5>2. ASSUME NEW v, NEW q \in Nat, convs' = Extend(v, q) PROVE FALSE
          <6>1. Len(convs') = Len(convs) BY <1>0, <5>2, Extended
          <6> QED BY <2>7, <6>1 DEF Conv
        <5> QED BY <1>0, <2>1, <2>2, <5>1, <5>2, ConvStep
      <4> QED BY <4>5, <4>6 DEF Kept, Unanswered
    <3> QED BY <1>0, <2>2, <2>7, <3>2, <3>3, ConvGrown
  <2> QED BY <2>6, <2>7
<1> QED BY <1>3, <1>4

LEMMA RecallCells ==
  ASSUME Recalling, [Next]_vars, Undisturbed', NEW c \in Cells, CellStep(c), NEW d \in Cells
  PROVE  CodexRecalls(d)' /\ ClaudeRecalls(d)' /\ PiApart(d)'
<1>0. /\ Typed /\ TurnsInv /\ LatestInv /\ LineOK(d)
      /\ CodexRecalls(d) /\ ClaudeRecalls(d) /\ PiApart(d)
  BY DEF Recalling, Good, LineInv, RecallInv
<1>1. CASE d = c BY <1>1, RecallCodex, RecallClaude, RecallPi
<1>2. CASE d # c
  <2>1. /\ engine'[d] = engine[d] /\ job'[d] = job[d] /\ (d \in flight' <=> d \in flight)
        /\ \A step : At(d, step)' <=> At(d, step)
    BY <1>0, <1>2, Elsewhere, AtKept
  <2>2. ASSUME job[d] # None
        PROVE  /\ thread'[job[d].thread].ethread = thread[job[d].thread].ethread
               /\ thread'[job[d].thread].esession = thread[job[d].thread].esession
               /\ \A m \in finals' \ finals : owner'[m] # job[d].thread
    <3>1. PICK r \in Rows : r = job[d].thread /\ thread[r].cell = d BY <1>0, <2>2, JobRow
    <3>2. ~ (OnFinal(c) /\ r = job[c].thread)
      <4> SUFFICES ASSUME OnFinal(c), r = job[c].thread PROVE FALSE OBVIOUS
      <4>1. job[c] # None BY <1>0, FlightAdapter DEF OnFinal, Event
      <4> QED BY <1>0, <1>2, <3>1, <4>1, JobRow
    <3>3. r \in Rows' BY <1>0, RowsLive
    <3> QED BY <1>0, <3>1, <3>2, <3>3, RowIds, Answers
  <2> QED BY <1>0, <2>1, <2>2, CellKept
<1> QED BY <1>1, <1>2

LEMMA RecallStep ==
  ASSUME Good, LatestInv, KindInv, RecallInv, [Next]_vars PROVE RecallInv'
<1> SUFFICES ASSUME Undisturbed' PROVE RecallInv' BY DEF RecallInv
<1>0. /\ Recalling /\ Typed /\ TurnsInv /\ Without({"update"})'
      /\ \A r \in Rows : RowRecalls(r)
      /\ \A d \in Cells : CodexRecalls(d) /\ ClaudeRecalls(d) /\ PiApart(d) /\ LineOK(d)
  <2>1. Typed /\ TurnsInv BY DEF Good
  <2>2. Undisturbed BY <2>1, Disturbs
  <2> QED BY <2>1, <2>2 DEF Recalling, Good, LineInv, RecallInv, Undisturbed, Disturbing, Without
<1>1. \A i \in Conv' : Recalled(i)' BY <1>0, RecalledStep
<1>2. ASSUME NEW c \in Cells, CellStep(c) PROVE RecallInv'
  BY <1>0, <1>1, <1>2, RowsCell, RecallCells DEF RecallInv
<1>3. ASSUME UNCHANGED <<owner, finals>>, NEW r \in Rows', r \in Rows,
             thread'[r].ethread = thread[r].ethread, thread'[r].esession = thread[r].esession
      PROVE  RowRecalls(r)'
  BY <1>0, <1>3, RowKept DEF Recalling
<1>4. ASSUME UNCHANGED engines, NEW d \in Cells,
             \A r \in Rows : /\ thread'[r].ethread = thread[r].ethread
                             /\ thread'[r].esession = thread[r].esession
      PROVE  CodexRecalls(d)' /\ ClaudeRecalls(d)' /\ PiApart(d)'
  <2>1. /\ engine'[d] = engine[d] /\ job'[d] = job[d] /\ flight' = flight
        /\ convs' = convs /\ finals' = finals
        /\ \A step : At(d, step)' <=> At(d, step)
    BY <1>4 DEF engines, At
  <2>2. job[d] # None => job[d].thread \in Rows BY <1>0, JobRow
  <2> QED BY <1>0, <1>4, <2>1, <2>2, CellKept DEF Recalling
<1>5. CASE RegistryNext /\ UNCHANGED engines
  <2>1. UNCHANGED thread \/ \E r \in Requests : SpawnWrite(r)
    BY <1>5 DEF RegistryNext, cell_register, cell_update, worktree_mark_cleanup, worktree_record,
       WriteDef, WriteWorktree, resolve_spawn_target, SpawnReplay, SpawnAudit, SpawnAuditFails,
       handle_send_task, rows
  <2>2. ASSUME NEW r \in Rows
        PROVE  thread'[r].ethread = thread[r].ethread /\ thread'[r].esession = thread[r].esession
    <3>1. ASSUME NEW q \in Requests, SpawnWrite(q) PROVE thread'[r] = thread[r]
      BY <1>0, <3>1, SpawnRows DEF Rows
    <3> QED BY <2>1, <3>1
  <2>3. ASSUME NEW r \in Rows' PROVE RowRecalls(r)'
    <3>1. CASE r \in Rows BY <1>3, <1>5, <2>2, <3>1 DEF engines
    <3>2. CASE r \notin Rows
      <4>1. PICK q \in Requests : SpawnWrite(q) BY <2>1, <3>2 DEF Rows
      <4>2. r = q BY <1>0, <3>2, <4>1, SpawnRows
      <4>3. thread'[r].ethread = None /\ thread'[r].esession = None
        <5>1. thread'[r] # None BY RegistryAssumption DEF Rows
        <5>2. thread'[r] # thread[r] BY <3>2 DEF Rows
        <5> QED BY <1>0, <4>1, <4>2, <5>1, <5>2, SpawnRows
      <4>4. Unanswered(r)'
        <5>1. \A m \in finals : owner[m] \in Rows
          BY <1>0 DEF Recalling, LatestInv, Typed, JobsInv
        <5>2. UNCHANGED <<finals, owner>> BY <1>5 DEF engines
        <5> QED BY <3>2, <5>1, <5>2 DEF Unanswered
      <4> QED BY <4>3, <4>4 DEF RowRecalls, Kept, Unanswered
    <3> QED BY <3>1, <3>2
  <2> QED BY <1>1, <1>4, <1>5, <2>2, <2>3 DEF RecallInv
<1>6. CASE Restart
  <2>1. UNCHANGED <<owner, finals>> /\ \A d \in Cells : engine'[d] = None BY <1>6 DEF Restart
  <2>2. ASSUME NEW r \in Rows' PROVE RowRecalls(r)'
    <3>1. r \in Rows BY <1>0, <1>6, RestartRows DEF TableOK
    <3> QED BY <1>0, <1>3, <1>6, <2>1, <3>1, RestartRows
  <2> QED BY <1>1, <2>1, <2>2 DEF RecallInv, CodexRecalls, ClaudeRecalls, PiApart
<1>7. CASE UNCHANGED vars
  <2>1. UNCHANGED <<engines, thread>> BY <1>7 DEF vars, registry, rows
  <2>2. Rows' = Rows BY <2>1 DEF Rows
  <2>3. UNCHANGED <<owner, finals>> BY <2>1 DEF engines
  <2> QED BY <1>1, <1>3, <1>4, <2>1, <2>2, <2>3 DEF RecallInv
<1> QED BY <1>2, <1>5, <1>6, <1>7 DEF Next, CellStep

(* Honest resume: a turn of a codex or claude thread is run on a           *)
(* conversation that has every turn of the thread whose answer was         *)
(* recorded before, whether or not process and daemon lived on in between, *)
(* unless a turn timed out, a request was refused or not answered, a final *)
(* named no session, or a definition was changed.                          *)
THEOREM HonestResume == Spec => []Continuity
<1> DEFINE RInv == IInv /\ LatestInv /\ KindInv /\ RecallInv
<1>1. ASSUME Init PROVE RInv
  <2>1. IInv BY <1>1, InitTyped, InitDialects, InitConversations DEF IInv, Typed, Dialects
  <2>2. /\ owner = <<>> /\ finals = {} /\ op = None /\ \A c \in Cells : engine[c] = None /\ job[c] = None
        /\ Rows = {} /\ Conv = {}
    BY <1>1, RegistryAssumption DEF Init, EnginesInit, RegistryInit, Rows, Conv
  <2>3. LatestInv BY <2>2 DEF LatestInv
  <2>4. KindInv BY <2>2 DEF KindInv
  <2>5. RecallInv BY <2>2 DEF RecallInv, CodexRecalls, ClaudeRecalls, PiApart
  <2> QED BY <2>1, <2>3, <2>4, <2>5
<1>2. RInv /\ [Next]_vars => RInv'
  <2> SUFFICES ASSUME RInv, [Next]_vars PROVE RInv' OBVIOUS
  <2>1. Typed BY DEF IInv, Typed
  <2>2. IInv' /\ LatestInv' /\ KindInv' BY <2>1, InvStep, LatestStep, KindStep
  <2>3. ASSUME Undisturbed' PROVE RecallInv'
    <3>1. Good BY <2>1, <2>3, Disturbs DEF Good, IInv
    <3> QED BY <3>1, RecallStep
  <2>4. RecallInv' BY <2>3 DEF RecallInv
  <2> QED BY <2>2, <2>4
<1>3. ASSUME RInv PROVE Continuity
  <2> SUFFICES ASSUME Undisturbed, NEW i \in DOMAIN convs, convs[i].kind # "pi",
                      NEW k \in DOMAIN convs[i].turns, NEW m \in finals,
                      m < convs[i].turns[k] /\ owner[m] = owner[convs[i].turns[k]]
               PROVE  \E h \in 1..k : convs[i].turns[h] = m
    BY DEF Continuity, Undisturbed, Disturbing
  <2>1. convs \in Seq(ConvRow) BY <1>3 DEF IInv, EnginesOK, ConvRow
  <2>2. i \in Conv BY <2>1 DEF Conv
  <2>3. convs[i].turns \in Seq(Nat)
    <3>1. convs[i] \in ConvRow BY <2>1, <2>2 DEF Conv
    <3> QED BY <3>1 DEF ConvRow
  <2>4. k \in 1..Len(convs[i].turns) BY <2>3
  <2>5. Recalled(i) BY <1>3, <2>2 DEF RecallInv
  <2> QED BY <2>4, <2>5 DEF Recalled
<1> QED BY <1>1, <1>2, <1>3, PTL DEF Spec
=============================================================================
