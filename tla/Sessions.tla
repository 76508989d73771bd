------------------------------ MODULE Sessions ------------------------------
(***************************************************************************)
(* Connections of one cell: the handshake with a token, the frames that    *)
(* follow it on the same stream, and the credential operations that run    *)
(* beside them.  FileIssuer keeps the cell's record in a file and takes no *)
(* lock around reading and rewriting it; what is revoked is remembered by  *)
(* the issuer and by the SessionRegistry until the daemon stops.  Tokens   *)
(* are numbered in the order of issue; a hash is the token it is of.       *)
(***************************************************************************)
EXTENDS Naturals, Sequences, FiniteSets

CONSTANTS
    Conns,        \* connections, each opened once
    TokenOf,      \* the token a connection presents
    Script,       \* the frames its client writes: "proof", "call", "bad" or "big"
    Open,         \* connections whose last frame has no newline
    MaxToken,     \* bound: tokens issued
    MaxRevokes,   \* bound: calls of revoke
    Void,         \* a record that does not parse: empty or overwritten in part
    Env, Faults   \* disturbances: "crash", "expire"; how many

Tokens == 1..MaxToken
Record == [id : Tokens, revoked : BOOLEAN]

ASSUME SessionsAssumption ==
    /\ TokenOf \in [Conns -> Tokens]
    /\ Script \in [Conns -> Seq({"proof", "call", "bad", "big"})]
    /\ Open \subseteq {c \in Conns : Script[c] # <<>>}
    /\ MaxToken \in Nat \ {0} /\ MaxRevokes \in Nat /\ Faults \in Nat
    /\ Void \notin Record

VARIABLES
    disk,      \* tokens/<cell>.token
    revoked,   \* FileIssuer.revoked
    registry,  \* SessionRegistry.revoked
    expired,   \* tokens past their expires_at
    rotation,  \* a call of rotate: "idle" or "truncated"
    issued,    \* the last token number generated
    revoke,    \* a call of revoke: where it is, the id and the record it read
    revokes,   \* calls of revoke so far
    phase,     \* where handle_connection is
    rec,       \* the record verify read
    got, used, \* bytes of the stream read, and taken out of the carry
    closed,    \* connections whose client has closed its end
    answered,  \* numbers of the frames answered, in order
    retired,   \* history: tokens whose rotation or revocation has returned
    banned,    \* history: tokens whose revocation has returned
    late,      \* history: connections opened with a retired token
    after,     \* history: calls answered after the token was banned
    faults

credentials == <<disk, revoked, registry, expired, rotation, issued, revoke, revokes,
                 retired, banned>>
connections == <<phase, rec, got, used, closed, answered, late, after>>
vars == <<credentials, connections, faults>>

Disturb(kind) == kind \in Env /\ faults < Faults /\ faults' = faults + 1

-----------------------------------------------------------------------------
Init ==
    /\ disk = [id |-> 1, revoked |-> FALSE]
    /\ revoked = {} /\ registry = {} /\ expired = {}
    /\ rotation = "idle" /\ issued = 1
    /\ revoke = [at |-> "idle", id |-> 1, rec |-> Void] /\ revokes = 0
    /\ phase = [c \in Conns |-> "off"]
    /\ rec = [c \in Conns |-> Void]
    /\ got = [c \in Conns |-> 0] /\ used = [c \in Conns |-> 0]
    /\ closed = {}
    /\ answered = [c \in Conns |-> <<>>]
    /\ retired = {} /\ banned = {} /\ late = {}
    /\ after = [c \in Conns |-> 0]
    /\ faults = 0

-----------------------------------------------------------------------------
(***************************************************************************)
(* Credentials.  write_record truncates, then writes.                      *)
(***************************************************************************)

(* The file after r was written at its start.  If another writer's record  *)
(* got there since the truncation, a shorter one ("true") leaves a tail.   *)
Written(r) ==
    IF disk # Void /\ r.revoked /\ ~disk.revoked THEN Void ELSE r

(* issue and rotate: a fresh token overwrites the record. *)
RotateTruncate ==
    /\ rotation = "idle" /\ issued < MaxToken
    /\ issued' = issued + 1
    /\ disk' = Void
    /\ rotation' = "truncated"
    /\ UNCHANGED <<revoked, registry, expired, revoke, revokes, retired, banned,
                   connections, faults>>

(* ... and is handed out; the older ones stop verifying. *)
RotateWrite ==
    /\ rotation = "truncated"
    /\ disk' = Written([id |-> issued, revoked |-> FALSE])
    /\ rotation' = "idle"
    /\ retired' = retired \cup 1..(issued - 1)
    /\ UNCHANGED <<revoked, registry, expired, issued, revoke, revokes, banned,
                   connections, faults>>

(* revoke(cell): the id on disk is the one to revoke ... *)
RevokeId ==
    /\ revoke.at = "idle" /\ revokes < MaxRevokes /\ disk # Void
    /\ revoke' = [revoke EXCEPT !.at = "id", !.id = disk.id]
    /\ revokes' = revokes + 1
    /\ UNCHANGED <<disk, revoked, registry, expired, rotation, issued, retired, banned,
                   connections, faults>>

(* ... the issuer reads the record again, whatever its id is by now ...     *)
RevokeRead ==
    /\ revoke.at = "id"
    /\ revoke' = [revoke EXCEPT !.at = IF disk = Void THEN "written" ELSE "read",
                                !.rec = disk]
    /\ UNCHANGED <<disk, revoked, registry, expired, rotation, issued, revokes, retired,
                   banned, connections, faults>>

RevokeTruncate ==
    /\ revoke.at = "read"
    /\ disk' = Void
    /\ revoke' = [revoke EXCEPT !.at = "truncated"]
    /\ UNCHANGED <<revoked, registry, expired, rotation, issued, revokes, retired, banned,
                   connections, faults>>

(* ... and writes it back marked ... *)
RevokeWrite ==
    /\ revoke.at = "truncated"
    /\ disk' = Written([revoke.rec EXCEPT !.revoked = TRUE])
    /\ revoke' = [revoke EXCEPT !.at = "written"]
    /\ UNCHANGED <<revoked, registry, expired, rotation, issued, revokes, retired, banned,
                   connections, faults>>

(* ... remembers the id ... *)
RevokeRemember ==
    /\ revoke.at = "written"
    /\ revoked' = revoked \cup {revoke.id}
    /\ revoke' = [revoke EXCEPT !.at = "remembered"]
    /\ UNCHANGED <<disk, registry, expired, rotation, issued, revokes, retired, banned,
                   connections, faults>>

(* ... and the registry cuts the live sessions; token_revoked is audited    *)
(* last.                                                                   *)
RevokeRegister ==
    /\ revoke.at = "remembered"
    /\ registry' = registry \cup {revoke.id}
    /\ revoke' = [revoke EXCEPT !.at = "idle", !.rec = Void]
    /\ retired' = retired \cup {revoke.id}
    /\ banned' = banned \cup {revoke.id}
    /\ UNCHANGED <<disk, revoked, expired, rotation, issued, revokes, connections, faults>>

(* A token's expires_at passes. *)
Expire(t) ==
    /\ t \in 1..issued \ expired /\ Disturb("expire")
    /\ expired' = expired \cup {t}
    /\ UNCHANGED <<disk, revoked, registry, rotation, issued, revoke, revokes, retired, banned,
                   connections>>

-----------------------------------------------------------------------------
(***************************************************************************)
(* The stream.  Frame n is two units long, 2n - 1 its JSON and 2n the      *)
(* newline; read_bounded_line appends what a read returns to the carry and *)
(* takes the first line out of it.                                         *)
(***************************************************************************)
Length(c) == 2 * Len(Script[c]) - (IF c \in Open THEN 1 ELSE 0)

Inside == {"ready", "busy"}
Reading(c) == phase[c] \in {"hello", "ready"}

Newlines(c) == {i \in (used[c] + 1)..got[c] : i % 2 = 0}
Line(c) == Newlines(c) # {}
Eof(c) == c \in closed /\ got[c] = Length(c)

(* The line that comes next and where it ends; at the end of the stream    *)
(* the residue, which may be empty.                                        *)
End(c) ==
    IF Line(c) THEN CHOOSE i \in Newlines(c) : \A k \in Newlines(c) : i <= k
               ELSE got[c]
Number(c) == used[c] \div 2 + 1
Kind(c) ==
    IF End(c) = used[c] THEN "empty"
    ELSE IF used[c] % 2 = 1 THEN "bad"
    ELSE Script[c][Number(c)]

(* Wrong variant: what a read returned behind the newline is dropped. *)
TakenWithCarry(c) == got[c]

(* What is taken out of the carry. *)
Taken(c) == End(c)

Ready(c) == Line(c) \/ Eof(c)

(* The carry has outgrown its limit and no line has ended. *)
TooLarge(c) == ~Line(c) /\ used[c] < got[c] /\ Script[c][Number(c)] = "big"

(* One read of the socket, of as much as has arrived; a frame above the    *)
(* limit is longer than one read.                                          *)
ReadChunk(c) ==
    /\ Reading(c) /\ ~Line(c) /\ ~TooLarge(c)
    /\ \E n \in (got[c] + 1)..Length(c) :
          /\ \A k \in 1..Len(Script[c]) : Script[c][k] = "big" => n < 2 * k
          /\ got' = [got EXCEPT ![c] = n]
    /\ UNCHANGED <<credentials, phase, rec, used, closed, answered, late, after, faults>>

Answer(c, n) == answered' = [answered EXCEPT ![c] = Append(@, n)]

(* handle_connection goes on to p with the carry taken up to n; when it    *)
(* returns, the FrameReader and the socket go with it.                     *)
Go(c, p, n) ==
    /\ phase' = [phase EXCEPT ![c] = p]
    /\ used' = [used EXCEPT ![c] = IF p = "gone" THEN 0 ELSE n]
    /\ got' = [got EXCEPT ![c] = IF p = "gone" THEN 0 ELSE @]
    /\ closed' = IF p = "gone" THEN closed \ {c} ELSE closed
    /\ UNCHANGED <<credentials, late>>

-----------------------------------------------------------------------------
(***************************************************************************)
(* handle_connection.                                                      *)
(***************************************************************************)

(* A client comes with a token it was given. *)
Connect(c) ==
    /\ phase[c] = "off" /\ TokenOf[c] <= issued
    /\ TokenOf[c] = issued => rotation = "idle"
    /\ phase' = [phase EXCEPT ![c] = "hello"]
    /\ late' = IF TokenOf[c] \in retired THEN late \cup {c} ELSE late
    /\ UNCHANGED <<credentials, rec, got, used, closed, answered, after, faults>>

(* The handshake frame: a proof makes verify read the record; anything     *)
(* else is answered with an error and ends the connection.                 *)
Handshake(c) ==
    /\ phase[c] = "hello" /\ Ready(c)
    /\ IF Kind(c) = "proof"
         THEN /\ Go(c, "verify", Taken(c))
              /\ rec' = [rec EXCEPT ![c] = disk]
              /\ UNCHANGED answered
         ELSE Go(c, "gone", Taken(c)) /\ Answer(c, 1) /\ UNCHANGED rec
    /\ UNCHANGED <<after, faults>>

(* Wrong variant: verify trusts its memory of what is revoked. *)
VerifiesFromMemory(c) ==
    /\ rec[c] # Void
    /\ rec[c].id \notin revoked \cup expired
    /\ rec[c].id = TokenOf[c]

(* verify, of the record that was read. *)
Verifies(c) ==
    /\ rec[c] # Void
    /\ ~rec[c].revoked /\ rec[c].id \notin revoked \cup expired
    /\ rec[c].id = TokenOf[c]

Authenticate(c) ==
    /\ phase[c] = "verify"
    /\ IF Verifies(c)
         THEN Go(c, "verified", used[c]) /\ UNCHANGED answered
         ELSE Go(c, "gone", used[c]) /\ Answer(c, 1)
    /\ rec' = [rec EXCEPT ![c] = Void]
    /\ UNCHANGED <<after, faults>>

(* revoked_at_handshake, or the session begins. *)
Admit(c) ==
    /\ phase[c] = "verified"
    /\ Go(c, IF TokenOf[c] \in registry THEN "gone" ELSE "ready", used[c])
    /\ Answer(c, 1)
    /\ UNCHANGED <<rec, after, faults>>

(* Wrong variant: revocation is only looked at in the handshake. *)
DispatchUnchecked(c) == Go(c, "busy", Taken(c)) /\ UNCHANGED answered

(* revoked_live_session ends the connection; anything else is dispatched. *)
Dispatch(c) ==
    IF TokenOf[c] \in registry
      THEN Go(c, "gone", Taken(c)) /\ Answer(c, Number(c))
      ELSE Go(c, "busy", Taken(c)) /\ UNCHANGED answered

(* Wrong variant: a frame that does not parse is skipped in silence. *)
RefuseSilently(c) == Go(c, "ready", Taken(c)) /\ UNCHANGED answered

(* A frame that does not parse is answered with an error. *)
Refuse(c) == Go(c, "ready", Taken(c)) /\ Answer(c, Number(c))

(* The next frame.  The end of the stream, and an empty line, end the      *)
(* connection.                                                             *)
Frame(c) ==
    /\ phase[c] = "ready" /\ Ready(c)
    /\ \/ Kind(c) = "empty" /\ Go(c, "gone", Taken(c)) /\ UNCHANGED answered
       \/ Kind(c) = "bad" /\ Refuse(c)
       \/ Kind(c) \in {"call", "proof"} /\ Dispatch(c)
    /\ UNCHANGED <<rec, after, faults>>

(* read_bounded_line gives up, and the connection ends without a word. *)
FrameTooLarge(c) ==
    /\ Reading(c) /\ TooLarge(c)
    /\ Go(c, "gone", used[c])
    /\ UNCHANGED <<rec, answered, after, faults>>

(* dispatch returns and its response is sent. *)
Respond(c) ==
    /\ phase[c] = "busy"
    /\ Go(c, "ready", used[c])
    /\ Answer(c, (used[c] + 1) \div 2)
    /\ after' = [after EXCEPT ![c] = IF TokenOf[c] \in banned THEN @ + 1 ELSE @]
    /\ UNCHANGED <<rec, faults>>

(* The response cannot be sent: the client has gone away. *)
RespondFails(c) ==
    /\ phase[c] = "busy"
    /\ Go(c, "gone", used[c])
    /\ UNCHANGED <<rec, answered, after, faults>>

(* The client closes its end, which shows once all it wrote was read. *)
Close(c) ==
    /\ Reading(c) /\ c \notin closed /\ got[c] = Length(c)
    /\ closed' = closed \cup {c}
    /\ UNCHANGED <<credentials, phase, rec, got, used, answered, late, after, faults>>

(* The daemon is killed and started again. *)
Crash ==
    /\ Disturb("crash")
    /\ revoked' = {} /\ registry' = {}
    /\ rotation' = "idle"
    /\ revoke' = [revoke EXCEPT !.at = "idle", !.rec = Void]
    /\ phase' = [c \in Conns |-> IF phase[c] = "off" THEN "off" ELSE "gone"]
    /\ rec' = [c \in Conns |-> Void]
    /\ got' = [c \in Conns |-> 0] /\ used' = [c \in Conns |-> 0] /\ closed' = {}
    /\ UNCHANGED <<disk, expired, issued, revokes, retired, banned, answered, late, after>>

-----------------------------------------------------------------------------
Serve(c) ==
    \/ ReadChunk(c) \/ Handshake(c) \/ Authenticate(c) \/ Admit(c)
    \/ FrameTooLarge(c) \/ Frame(c) \/ Respond(c) \/ RespondFails(c)

Next ==
    \/ RotateTruncate \/ RotateWrite
    \/ RevokeId \/ RevokeRead \/ RevokeTruncate \/ RevokeWrite
    \/ RevokeRemember \/ RevokeRegister
    \/ \E t \in Tokens : Expire(t)
    \/ \E c \in Conns : Connect(c) \/ Serve(c) \/ Close(c)
    \/ Crash

Spec == Init /\ [][Next]_vars

(* Every connection is a task of the runtime: what it can do it does. *)
FairSpec == Spec /\ \A c \in Conns : WF_vars(Serve(c))

-----------------------------------------------------------------------------
(***************************************************************************)
(* Properties.                                                             *)
(***************************************************************************)

TypeOK ==
    /\ disk \in Record \cup {Void}
    /\ revoked \subseteq Tokens /\ registry \subseteq Tokens /\ expired \subseteq Tokens
    /\ rotation \in {"idle", "truncated"}
    /\ issued \in Tokens
    /\ revoke \in [at : {"idle", "id", "read", "truncated", "written", "remembered"},
                   id : Tokens, rec : Record \cup {Void}]
    /\ revokes \in 0..MaxRevokes
    /\ phase \in [Conns -> {"off", "hello", "verify", "verified", "ready", "busy", "gone"}]
    /\ rec \in [Conns -> Record \cup {Void}]
    /\ got \in [Conns -> Nat] /\ used \in [Conns -> Nat]
    /\ \A c \in Conns : used[c] <= got[c] /\ got[c] <= Length(c)
    /\ closed \subseteq Conns /\ late \subseteq Conns
    /\ answered \in [Conns -> Seq(Nat)]
    /\ retired \subseteq Tokens /\ banned \subseteq Tokens
    /\ after \in [Conns -> Nat]
    /\ faults \in Nat

(* A token that was revoked, or superseded by a rotation, never opens a    *)
(* session again: not while revoke and rotate rewrite the record between   *)
(* each other's steps, and not after a restart forgot both revoked sets    *)
(* (FileIssuer::verify, "the old token stops verifying immediately").      *)
RetiredNeverOpens == \A c \in Conns : phase[c] \in Inside => c \notin late

(* Revocation cuts live sessions: once revoke has returned, a connection   *)
(* of the token gets at most the answer of the call that was running,      *)
(* however many frames it has pipelined.                                   *)
RevocationCuts == \A c \in Conns : after[c] <= 1

(* Frames are answered one by one in the order they were written, however  *)
(* reads cut the stream: none is lost, skipped or answered twice.          *)
AnsweredInOrder ==
    \A c \in Conns : \A i \in DOMAIN answered[c] : answered[c][i] = i

(* No client hangs: every frame written on an open connection is answered, *)
(* or the connection is closed.                                            *)
FramesAnswered ==
    \A c \in Conns :
        phase[c] = "hello" ~>
            phase[c] = "gone" \/ Len(answered[c]) = Length(c) \div 2
=============================================================================
