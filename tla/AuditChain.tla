----------------------------- MODULE AuditChain -----------------------------
(***************************************************************************)
(* The audit log: a JSONL file whose lines are linked by hashes.  append   *)
(* runs under the audit mutex: it writes one line, syncs it, moves the     *)
(* head and only then lets its caller acknowledge.  open resumes from the  *)
(* last line of the file.  A line's hash covers a fresh event id, so the   *)
(* event stands for it; canonical JSON, which makes the hash a function of *)
(* the event, is part of that.  The faults are those of a file: a write    *)
(* that stops halfway, a sync that fails, a killed process, a power loss.  *)
(***************************************************************************)
EXTENDS Naturals, Sequences, FiniteSets

CONSTANTS
    Events,        \* calls of audit()
    Genesis,       \* GENESIS_HASH
    Nobody,        \* nobody holds the mutex
    Env, Faults    \* the faults of this model, and how many happen

ASSUME AuditAssumption ==
    /\ Genesis \notin Events /\ Nobody \notin Events
    /\ Faults \in Nat

VARIABLES
    file,      \* the lines of the log as a reader sees them
    durable,   \* the lines a power loss cannot take away
    head,      \* AuditChain.head_hash
    daemon,    \* "up", "down", or "refused" when open failed
    writer,    \* the call that holds the mutex
    base,      \* the file when it took it
    event,     \* what became of each call
    damaged,   \* history: a fault left a line unfinished or unrecorded
    faults

vars == <<file, durable, head, daemon, writer, base, event, damaged, faults>>

(* "whole" ends in a newline; "noeol" is complete but for the newline;     *)
(* "torn" is a fragment; "garbage" is a fragment with a line behind it.    *)
Line == [id : Events, prev : Events \cup {Genesis},
         form : {"whole", "noeol", "torn", "garbage"}]

Parses(l) == l.form \in {"whole", "noeol"}
Ends(l) == l.form \in {"whole", "garbage"}

Disturb(kind) == kind \in Env /\ faults < Faults /\ faults' = faults + 1

-----------------------------------------------------------------------------
(***************************************************************************)
(* What a reader of the file finds.                                        *)
(***************************************************************************)

(* verify stops at the first line that does not parse or whose prev_hash   *)
(* is not the hash of the line before.                                     *)
Linked(f, i) == f[i].prev = IF i = 1 THEN Genesis ELSE f[i - 1].id
verify(f) == \A i \in DOMAIN f : Parses(f[i]) /\ Linked(f, i)

(* read_audit_events_for skips what it cannot parse. *)
read_audit_events_for(f, e) == {i \in DOMAIN f : Parses(f[i]) /\ f[i].id = e}

(* The hash open resumes from. *)
LastHash(f) == IF f = <<>> THEN Genesis ELSE f[Len(f)].id

(* The file after e's line was written as far as form says, on top of f:   *)
(* an unfinished last line swallows it.                                    *)
Put(f, e, form) ==
    LET line == [id |-> e, prev |-> head, form |-> form] IN
    IF f # <<>> /\ ~Ends(f[Len(f)])
      THEN [f EXCEPT ![Len(f)] =
              [line EXCEPT !.form = IF form = "whole" THEN "garbage" ELSE "torn"]]
      ELSE Append(f, line)

-----------------------------------------------------------------------------
Init ==
    /\ file = <<>> /\ durable = <<>> /\ base = <<>>
    /\ head = Genesis
    /\ daemon = "up"
    /\ writer = Nobody
    /\ event = [e \in Events |-> "new"]
    /\ damaged = FALSE
    /\ faults = 0

(* append takes the mutex and links the event to the head. *)
Begin(e) ==
    /\ daemon = "up" /\ writer = Nobody /\ event[e] = "new"
    /\ writer' = e
    /\ base' = file
    /\ event' = [event EXCEPT ![e] = "writing"]
    /\ UNCHANGED <<file, durable, head, daemon, damaged, faults>>

(* write_all may need several writes: a reader can find a part of the line. *)
WritePart(form) ==
    /\ writer # Nobody /\ event[writer] = "writing" /\ file = base
    /\ form \in {"torn", "noeol"}
    /\ file' = Put(base, writer, form)
    /\ UNCHANGED <<durable, head, daemon, writer, base, event, damaged, faults>>

WriteAll ==
    /\ writer # Nobody /\ event[writer] = "writing"
    /\ file' = Put(base, writer, "whole")
    /\ event' = [event EXCEPT ![writer] = "written"]
    /\ UNCHANGED <<durable, head, daemon, writer, base, damaged, faults>>

(* Wrong variant: the line is acknowledged without sync_all. *)
AckUnsynced ==
    /\ writer # Nobody /\ event[writer] = "written"
    /\ head' = writer
    /\ event' = [event EXCEPT ![writer] = "acked"]
    /\ writer' = Nobody
    /\ UNCHANGED <<file, durable, daemon, base, damaged, faults>>

(* sync_all, then the head moves and the caller goes on. *)
Sync ==
    /\ writer # Nobody /\ event[writer] = "written"
    /\ durable' = file
    /\ head' = writer
    /\ event' = [event EXCEPT ![writer] = "acked"]
    /\ writer' = Nobody
    /\ UNCHANGED <<file, daemon, base, damaged, faults>>

Fail ==
    /\ event' = [event EXCEPT ![writer] = "failed"]
    /\ writer' = Nobody
    /\ UNCHANGED <<durable, head, daemon, base>>

(* The write fails and leaves what was written of the line so far: append  *)
(* neither removes it nor remembers it.                                    *)
WriteFails ==
    /\ writer # Nobody /\ event[writer] = "writing" /\ Disturb("diskfull")
    /\ damaged' = (damaged \/ file # base)
    /\ Fail /\ UNCHANGED file

(* The sync fails: the line stays, the head does not move past it. *)
SyncFails ==
    /\ writer # Nobody /\ event[writer] = "written" /\ Disturb("syncfail")
    /\ damaged' = TRUE
    /\ Fail /\ UNCHANGED file

Down ==
    /\ daemon' = "down"
    /\ writer' = Nobody
    /\ event' = [e \in Events |-> IF event[e] \in {"writing", "written"}
                                  THEN "lost" ELSE event[e]]
    /\ UNCHANGED <<durable, head, base>>

(* The process is killed; the kernel keeps what it was given. *)
Kill ==
    /\ daemon = "up" /\ Disturb("kill")
    /\ damaged' = (damaged \/ (file # <<>> /\ ~Ends(file[Len(file)])))
    /\ Down /\ UNCHANGED file

(* The file after a power loss: what is durable, and any part of the rest. *)
Cuts ==
    LET unsynced == (Len(durable) + 1)..Len(file)
        cut(n, form) == [SubSeq(file, 1, n) EXCEPT ![n].form = form]
    IN  {SubSeq(file, 1, n) : n \in unsynced \cup {Len(durable)}}
        \cup {cut(n, "torn") : n \in unsynced}
        \cup {cut(n, "noeol") : n \in {k \in unsynced : Parses(file[k])}}

PowerLoss ==
    /\ Disturb("power")
    /\ file' \in Cuts
    /\ damaged' = (damaged \/ (file' # <<>> /\ ~Ends(file'[Len(file')])))
    /\ Down

(* Wrong variant: a restart starts a chain of its own. *)
OpenFresh ==
    /\ daemon = "down"
    /\ daemon' = "up" /\ head' = Genesis
    /\ UNCHANGED <<file, durable, writer, base, event, damaged, faults>>

(* open resumes from the last line; if that does not parse the daemon      *)
(* does not start.                                                         *)
Open ==
    /\ daemon = "down"
    /\ IF file = <<>> \/ Parses(file[Len(file)])
         THEN daemon' = "up" /\ head' = LastHash(file)
         ELSE daemon' = "refused" /\ UNCHANGED head
    /\ UNCHANGED <<file, durable, writer, base, event, damaged, faults>>

Next ==
    \/ \E e \in Events : Begin(e)
    \/ \E form \in {"torn", "noeol"} : WritePart(form)
    \/ WriteAll \/ Sync \/ WriteFails \/ SyncFails
    \/ Kill \/ PowerLoss \/ Open

Spec == Init /\ [][Next]_vars

-----------------------------------------------------------------------------
(***************************************************************************)
(* Properties.                                                             *)
(***************************************************************************)

(* The types, and the mutex: the call between its first write and its      *)
(* answer is the one that holds it.                                        *)
TypeOK ==
    /\ file \in Seq(Line) /\ durable \in Seq(Line) /\ base \in Seq(Line)
    /\ head \in Events \cup {Genesis}
    /\ daemon \in {"up", "down", "refused"}
    /\ writer \in Events \cup {Nobody}
    /\ \A e \in Events : event[e] \in {"writing", "written"} <=> e = writer
    /\ event \in [Events -> {"new", "writing", "written", "acked", "failed", "lost"}]
    /\ damaged \in BOOLEAN
    /\ faults \in Nat

(* No silent loss: whenever verify accepts the file, every event that was  *)
(* acknowledged is found in it, whatever failed, was killed or lost power  *)
(* in between.  A lost or hidden event always shows as a broken chain.     *)
NoSilentLoss ==
    verify(file) => \A e \in Events : event[e] = "acked" => read_audit_events_for(file, e) # {}

(* As long as no fault cut a line short or failed a sync, the chain        *)
(* verifies between appends and the head is the hash of its last line,     *)
(* across kills and power losses at any point.                             *)
IntactUnlessDamaged ==
    ~damaged /\ writer = Nobody =>
        /\ verify(file)
        /\ daemon = "up" => head = LastHash(file)
=============================================================================
