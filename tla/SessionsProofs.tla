--------------------------- MODULE SessionsProofs ---------------------------
(***************************************************************************)
(* Proofs about Sessions, for any connections, scripts, tokens and any     *)
(* number of rotations, revocations and restarts.                          *)
(***************************************************************************)
EXTENDS Sessions, Integers, TLAPS

-----------------------------------------------------------------------------
(***************************************************************************)
(* The inductive invariant.                                                *)
(***************************************************************************)

(* The record r would open a session for the token t. *)
Good(r, t) == r # Void /\ r.id = t /\ ~r.revoked

(* No number is known before it is issued, and the one a rotation is about *)
(* to write is nowhere yet.                                                *)
FreshInv ==
    /\ \A t \in retired \cup {revoke.id} : t <= issued
    /\ \A r \in {disk, revoke.rec} : r # Void => r.id <= issued
    /\ rotation = "truncated" =>
          /\ issued \notin retired \cup {revoke.id}
          /\ \A r \in {disk, revoke.rec} : r # Void => r.id # issued

(* The record on disk opens nothing for a token that is retired, or that a *)
(* revoke is past writing back.                                            *)
DiskInv ==
    /\ \A t \in retired : ~Good(disk, t)
    /\ revoke.at \in {"written", "remembered"} => ~Good(disk, revoke.id)
    /\ revoke.at \in {"read", "truncated"} => revoke.rec # Void

(* A connection that came too late has nothing in hand that verifies. *)
LateInv(c) ==
    /\ phase[c] # "verify" => rec[c] = Void
    /\ c \in late => /\ TokenOf[c] \in retired
                     /\ phase[c] \in {"hello", "verify", "gone"}
                     /\ ~Good(rec[c], TokenOf[c])

(* The registry knows the banned token of a connection that lives, and one *)
(* that was answered after the ban is not answered again.                  *)
CutInv(c) ==
    /\ phase[c] \notin {"off", "gone"} /\ TokenOf[c] \in banned /\ c \notin late
          => TokenOf[c] \in registry
    /\ after[c] # 0 => /\ after[c] = 1 /\ TokenOf[c] \in banned
                       /\ phase[c] \in {"ready", "gone"}

(* A frame ends at an even unit, or with the stream, and what was answered *)
(* is what was taken out of the carry, but for the call that is running.   *)
FrameInv(c) ==
    /\ used[c] % 2 = 1 => used[c] = Length(c)
    /\ phase[c] \in {"off", "hello"} => used[c] = 0 /\ Len(answered[c]) = 0
    /\ phase[c] \in {"verify", "verified"} =>
          (used[c] + 1) \div 2 = 1 /\ Len(answered[c]) = 0
    /\ phase[c] = "ready" => Len(answered[c]) = (used[c] + 1) \div 2
    /\ phase[c] = "busy" => Len(answered[c]) + 1 = (used[c] + 1) \div 2

OrderInv(c) == \A i \in DOMAIN answered[c] : answered[c][i] = i

ConnInv(c) == LateInv(c) /\ CutInv(c) /\ FrameInv(c) /\ OrderInv(c)
CredentialInv == FreshInv /\ DiskInv /\ banned \subseteq retired

IInv == TypeOK /\ CredentialInv /\ \A c \in Conns : ConnInv(c)

-----------------------------------------------------------------------------
(***************************************************************************)
(* The carry.                                                              *)
(***************************************************************************)

LEMMA Halves ==
  ASSUME NEW n \in Nat
  PROVE  /\ n % 2 \in {0, 1} /\ n \div 2 \in Nat
         /\ n % 2 = 0 => /\ (n + 1) % 2 = 1 /\ (n + 2) % 2 = 0
                         /\ (n + 1) \div 2 = n \div 2
                         /\ (n + 2) \div 2 = n \div 2 + 1
                         /\ (n + 3) \div 2 = n \div 2 + 1
         /\ n % 2 = 1 => (n + 1) % 2 = 0
  OBVIOUS

LEMMA LengthNat == ASSUME NEW c \in Conns PROVE Length(c) \in Int
  BY SessionsAssumption DEF Length

(* What read_bounded_line takes: nothing, or the next frame, up to its     *)
(* newline or to the end of the stream.                                    *)
LEMMA NextFrame ==
  ASSUME TypeOK, NEW c \in Conns, FrameInv(c), Ready(c)
  PROVE  /\ End(c) \in Nat /\ used[c] <= End(c) /\ End(c) <= got[c]
         /\ End(c) % 2 = 1 => End(c) = Length(c)
         /\ End(c) # used[c] => /\ (End(c) + 1) \div 2 = Number(c)
                                /\ (used[c] + 1) \div 2 + 1 = Number(c)
<1> DEFINE u == used[c]  g == got[c]
<1>1. u \in Nat /\ g \in Nat /\ Length(c) \in Int /\ u <= g /\ g <= Length(c)
  BY LengthNat DEF TypeOK
<1>2. u % 2 = 1 => u = Length(c) BY DEF FrameInv
<1>3. Newlines(c) = {i \in (u + 1)..g : i % 2 = 0} BY DEF Newlines
<1>4. Number(c) = u \div 2 + 1 BY DEF Number
<1>0. /\ u % 2 = 0 => /\ (u + 1) % 2 = 1 /\ (u + 2) % 2 = 0
                      /\ (u + 1) \div 2 = u \div 2
                      /\ (u + 2) \div 2 = u \div 2 + 1
                      /\ (u + 3) \div 2 = u \div 2 + 1
  BY <1>1, Halves
<1>8. u % 2 \in {0, 1} BY <1>1, Halves
<1>5. CASE u % 2 = 1
  <2>1. u = g BY <1>1, <1>2, <1>5
  <2>2. ~Line(c) BY <1>1, <1>3, <2>1 DEF Line
  <2>3. End(c) = u BY <2>1, <2>2 DEF End
  <2> QED BY <1>1, <1>2, <2>1, <2>3
<1>6. CASE u % 2 = 0 /\ Line(c)
  <2>1. u + 2 <= g
    <3>1. PICK i \in (u + 1)..g : i % 2 = 0 BY <1>3, <1>6 DEF Line
    <3>2. (u + 1) % 2 # 0 BY <1>0, <1>6
    <3>3. i # u + 1 BY <3>1, <3>2
    <3> QED BY <1>1, <3>1, <3>3
  <2>2. u + 2 \in Newlines(c) BY <1>1, <1>3, <1>6, <2>1, <1>0
  <2>3. \A k \in Newlines(c) : u + 2 <= k
    <3>1. \A k \in Newlines(c) : k \in (u + 1)..g /\ k # u + 1 BY <1>1, <1>3, <1>6, <1>0
    <3> QED BY <1>1, <3>1
  <2>4. End(c) \in Newlines(c) /\ \A k \in Newlines(c) : End(c) <= k
    BY <1>6, <2>2, <2>3 DEF End
  <2>5. End(c) = u + 2 BY <1>1, <1>3, <2>2, <2>3, <2>4
  <2>6. End(c) + 1 = u + 3 BY <1>1, <2>5
  <2>7. (End(c) + 1) \div 2 = Number(c) /\ (u + 1) \div 2 + 1 = Number(c)
    BY <1>0, <1>4, <1>6, <2>6
  <2>8. End(c) % 2 = 0 BY <1>0, <1>6, <2>5
  <2> QED BY <1>1, <2>1, <2>5, <2>7, <2>8
<1>7. CASE u % 2 = 0 /\ ~Line(c)
  <2>1. End(c) = g /\ g = Length(c) BY <1>7 DEF End, Ready, Eof
  <2>2. g = u \/ g = u + 1
    <3>1. u + 2 \notin (u + 1)..g BY <1>1, <1>3, <1>7, <1>0 DEF Line
    <3> QED BY <1>1, <3>1
  <2>3. g = u + 1 => g + 1 = u + 2 BY <1>1
  <2>4. End(c) # u => /\ (End(c) + 1) \div 2 = Number(c) /\ (u + 1) \div 2 + 1 = Number(c)
    BY <1>0, <1>4, <1>7, <2>1, <2>2, <2>3
  <2> QED BY <1>1, <2>1, <2>2, <2>4
<1> QED BY <1>5, <1>6, <1>7, <1>8

-----------------------------------------------------------------------------
(***************************************************************************)
(* Credentials.                                                            *)
(***************************************************************************)

LEMMA InitIInv == ASSUME Init PROVE IInv
<1> USE SessionsAssumption DEF Init
<1>1. 1 \in Tokens /\ disk \in Record /\ disk.id = 1 BY DEF Tokens, Record
<1>2. TypeOK
  <2>1. revoke \in [at : {"idle", "id", "read", "truncated", "written", "remembered"},
                    id : Tokens, rec : Record \cup {Void}]
    BY <1>1
  <2>2. \A c \in Conns : 0 <= Length(c)
    <3> SUFFICES ASSUME NEW c \in Conns PROVE 0 <= Length(c) OBVIOUS
    <3>1. Len(Script[c]) \in Nat /\ (c \in Open => Len(Script[c]) # 0) OBVIOUS
    <3> QED BY <3>1 DEF Length
  <2>3. phase \in [Conns -> {"off", "hello", "verify", "verified", "ready", "busy", "gone"}]
    OBVIOUS
  <2>4. answered \in [Conns -> Seq(Nat)] OBVIOUS
  <2>5. rec \in [Conns -> Record \cup {Void}] OBVIOUS
  <2> QED BY <1>1, <2>1, <2>2, <2>3, <2>4, <2>5 DEF TypeOK
<1>3. FreshInv BY <1>1 DEF FreshInv
<1>4. DiskInv BY DEF DiskInv
<1>5. \A c \in Conns : ConnInv(c)
  BY DEF ConnInv, LateInv, CutInv, FrameInv, OrderInv
<1> QED BY <1>2, <1>3, <1>4, <1>5 DEF IInv, CredentialInv

Places == {"idle", "id", "read", "truncated", "written", "remembered"}
Calls == [at : Places, id : Tokens, rec : Record \cup {Void}]

LEMMA Types ==
  ASSUME TypeOK
  PROVE  /\ disk = Void \/ (disk # Void /\ disk.id \in Tokens /\ disk.revoked \in BOOLEAN)
         /\ revoke.rec = Void
            \/ (revoke.rec # Void /\ revoke.rec.id \in Tokens /\ revoke.rec.revoked \in BOOLEAN)
         /\ revoke.id \in Tokens /\ issued \in Tokens /\ Tokens \subseteq Nat
         /\ revoke.at \in Places /\ revoke \in Calls
         /\ retired \subseteq Tokens
  BY SessionsAssumption DEF TypeOK, Record, Tokens, Places, Calls

(* What write_record leaves is Void or the record written. *)
LEMMA WrittenIs == ASSUME NEW r \in Record
                   PROVE  /\ Written(r) \in {Void, r}
                          /\ ~r.revoked => Written(r) = r
  BY DEF Written

(* rotate. *)
LEMMA RotateIInv ==
  ASSUME TypeOK, CredentialInv, RotateTruncate \/ RotateWrite
  PROVE  /\ TypeOK' /\ CredentialInv'
         /\ retired \subseteq retired' /\ UNCHANGED <<connections, registry, banned>>
<1> USE DEF CredentialInv
<1>1. CASE RotateTruncate
  <2>1. /\ issued' = issued + 1 /\ issued < MaxToken /\ disk' = Void /\ rotation' = "truncated"
        /\ UNCHANGED <<revoked, registry, expired, revoke, revokes, retired, banned>>
        /\ UNCHANGED connections /\ UNCHANGED faults
    BY <1>1 DEF RotateTruncate
  <2>2. issued' \in Tokens BY <2>1, SessionsAssumption DEF TypeOK, Tokens
  <2>3. TypeOK' BY <2>1, <2>2 DEF TypeOK, connections
  <2>4. FreshInv'
    <3>1. issued \in Nat /\ \A t \in Tokens : t \in Nat BY Types
    <3>2. \A t \in retired \cup {revoke.id} : t \in Nat /\ t <= issued BY Types DEF FreshInv
    <3>3. revoke.rec # Void => revoke.rec.id \in Nat /\ revoke.rec.id <= issued
      BY Types DEF FreshInv
    <3> QED BY <2>1, <3>1, <3>2, <3>3 DEF FreshInv
  <2>5. DiskInv' BY <2>1 DEF DiskInv, Good
  <2> QED BY <2>1, <2>3, <2>4, <2>5
<1>2. CASE RotateWrite
  <2> DEFINE r == [id |-> issued, revoked |-> FALSE]
  <2>1. r \in Record /\ r.id = issued /\ r.revoked = FALSE /\ r # Void
    <3>1. issued \in Tokens BY DEF TypeOK
    <3>2. r \in Record BY <3>1 DEF Record
    <3> QED BY <3>2, SessionsAssumption
  <2>2. disk' = Written(r) BY <1>2 DEF RotateWrite
  <2> HIDE DEF r
  <2>3. /\ disk' = r /\ rotation = "truncated" /\ rotation' = "idle"
        /\ retired' = retired \cup 1..(issued - 1)
        /\ UNCHANGED <<revoked, registry, expired, issued, revoke, revokes, banned>>
        /\ UNCHANGED connections /\ UNCHANGED faults
    BY <1>2, <2>1, <2>2, WrittenIs DEF RotateWrite
  <2>4. 1..(issued - 1) \subseteq Tokens /\ \A t \in 1..(issued - 1) : t < issued
    BY Types, SessionsAssumption DEF Tokens
  <2>5. TypeOK' BY <2>1, <2>3, <2>4 DEF TypeOK, connections
  <2>6. FreshInv' BY <2>1, <2>3, <2>4, Types DEF FreshInv
  <2>7. DiskInv' BY <2>1, <2>3, <2>4, Types DEF DiskInv, FreshInv, Good
  <2> QED BY <2>3, <2>5, <2>6, <2>7
<1> QED BY <1>1, <1>2

(* revoke up to the registry; expiry. *)
LEMMA RevokeIInv ==
  ASSUME TypeOK, CredentialInv,
         RevokeId \/ RevokeRead \/ RevokeTruncate \/ RevokeWrite \/ RevokeRemember
  PROVE  TypeOK' /\ CredentialInv' /\ UNCHANGED <<connections, registry, banned, retired>>
<1> USE DEF CredentialInv
<1>1. UNCHANGED connections /\ UNCHANGED <<registry, expired, rotation, issued, retired, banned>>
      /\ UNCHANGED faults
  BY DEF RevokeId, RevokeRead, RevokeTruncate, RevokeWrite, RevokeRemember
<1>2. CASE RevokeId
  <2>1. /\ disk # Void /\ disk' = disk /\ revoked' = revoked /\ revokes < MaxRevokes
        /\ revokes' = revokes + 1
        /\ revoke' = [revoke EXCEPT !.at = "id", !.id = disk.id]
    BY <1>2 DEF RevokeId
  <2>2. revoke' \in Calls /\ revoke'.at = "id" /\ revoke'.id = disk.id /\ revoke'.rec = revoke.rec
    BY <2>1, Types DEF Calls, Places
  <2>3. TypeOK' BY <1>1, <2>1, <2>2, SessionsAssumption DEF TypeOK, connections, Calls, Places
  <2>4. FreshInv' BY <1>1, <2>1, <2>2, Types DEF FreshInv
  <2>5. DiskInv' BY <1>1, <2>1, <2>2 DEF DiskInv
  <2> QED BY <1>1, <2>3, <2>4, <2>5
<1>3. CASE RevokeRead
  <2>1. /\ disk' = disk /\ revoked' = revoked /\ revokes' = revokes
        /\ revoke' = [revoke EXCEPT !.at = IF disk = Void THEN "written" ELSE "read",
                                   !.rec = disk]
    BY <1>3 DEF RevokeRead
  <2>2. /\ revoke' \in Calls /\ revoke'.id = revoke.id /\ revoke'.rec = disk
        /\ revoke'.at = IF disk = Void THEN "written" ELSE "read"
    BY <2>1, Types DEF Calls, Places, TypeOK
  <2>3. TypeOK' BY <1>1, <2>1, <2>2 DEF TypeOK, connections, Calls, Places
  <2>4. FreshInv' BY <1>1, <2>1, <2>2, Types DEF FreshInv
  <2>5. DiskInv' BY <1>1, <2>1, <2>2 DEF DiskInv, Good
  <2> QED BY <1>1, <2>3, <2>4, <2>5
<1>4. CASE RevokeTruncate
  <2>1. /\ disk' = Void /\ revoked' = revoked /\ revokes' = revokes /\ revoke.at = "read"
        /\ revoke' = [revoke EXCEPT !.at = "truncated"]
    BY <1>4 DEF RevokeTruncate
  <2>2. /\ revoke' \in Calls /\ revoke'.id = revoke.id /\ revoke'.rec = revoke.rec
        /\ revoke'.at = "truncated"
    BY <2>1, Types DEF Calls, Places
  <2>3. TypeOK' BY <1>1, <2>1, <2>2 DEF TypeOK, connections, Calls, Places
  <2>4. FreshInv' BY <1>1, <2>1, <2>2, Types DEF FreshInv
  <2>5. DiskInv' BY <1>1, <2>1, <2>2 DEF DiskInv, Good
  <2> QED BY <1>1, <2>3, <2>4, <2>5
<1>5. CASE RevokeWrite
  <2> DEFINE r == [revoke.rec EXCEPT !.revoked = TRUE]
  <2>1. /\ disk' = Written(r) /\ revoked' = revoked /\ revokes' = revokes
        /\ revoke.at = "truncated" /\ revoke' = [revoke EXCEPT !.at = "written"]
    BY <1>5 DEF RevokeWrite
  <2>2. revoke.rec \in Record /\ revoke.rec # Void BY <2>1, Types DEF DiskInv, Calls
  <2>3. r \in Record /\ r.id = revoke.rec.id /\ r.revoked = TRUE /\ r # Void
    BY <2>2, SessionsAssumption DEF Record
  <2> HIDE DEF r
  <2>4. disk' \in {Void, r} BY <2>1, <2>3, WrittenIs
  <2>5. /\ revoke' \in Calls /\ revoke'.id = revoke.id /\ revoke'.rec = revoke.rec
        /\ revoke'.at = "written"
    BY <2>1, Types DEF Calls, Places
  <2>6. TypeOK' BY <1>1, <2>1, <2>3, <2>4, <2>5 DEF TypeOK, connections, Calls, Places
  <2>7. FreshInv' BY <1>1, <2>2, <2>3, <2>4, <2>5, Types DEF FreshInv
  <2>8. DiskInv' BY <1>1, <2>3, <2>4, <2>5 DEF DiskInv, Good
  <2> QED BY <1>1, <2>6, <2>7, <2>8
<1>6. CASE RevokeRemember
  <2>1. /\ disk' = disk /\ revoked' = revoked \cup {revoke.id} /\ revokes' = revokes
        /\ revoke.at = "written" /\ revoke' = [revoke EXCEPT !.at = "remembered"]
    BY <1>6 DEF RevokeRemember
  <2>2. /\ revoke' \in Calls /\ revoke'.id = revoke.id /\ revoke'.rec = revoke.rec
        /\ revoke'.at = "remembered"
    BY <2>1, Types DEF Calls, Places
  <2>3. TypeOK' BY <1>1, <2>1, <2>2, Types DEF TypeOK, connections, Calls, Places
  <2>4. FreshInv' BY <1>1, <2>1, <2>2, Types DEF FreshInv
  <2>5. DiskInv' BY <1>1, <2>1, <2>2 DEF DiskInv, Good
  <2> QED BY <1>1, <2>3, <2>4, <2>5
<1> QED BY <1>2, <1>3, <1>4, <1>5, <1>6

LEMMA RegisterIInv ==
  ASSUME TypeOK, CredentialInv, RevokeRegister
  PROVE  /\ TypeOK' /\ CredentialInv' /\ retired \subseteq retired' /\ UNCHANGED connections
         /\ registry' = registry \cup {revoke.id} /\ banned' = banned \cup {revoke.id}
         /\ retired' = retired \cup {revoke.id}
<1> USE DEF CredentialInv
<1>1. /\ revoke.at = "remembered"
      /\ registry' = registry \cup {revoke.id}
      /\ revoke' = [revoke EXCEPT !.at = "idle", !.rec = Void]
      /\ retired' = retired \cup {revoke.id}
      /\ banned' = banned \cup {revoke.id}
      /\ UNCHANGED <<disk, revoked, expired, rotation, issued, revokes>>
      /\ UNCHANGED connections /\ UNCHANGED faults
  BY DEF RevokeRegister
<1>2. /\ revoke' \in Calls /\ revoke'.id = revoke.id /\ revoke'.rec = Void
      /\ revoke'.at = "idle"
  BY <1>1, Types DEF Calls, Places
<1>3. TypeOK' BY <1>1, <1>2, Types DEF TypeOK, connections, Calls, Places
<1>4. FreshInv' BY <1>1, <1>2, Types DEF FreshInv
<1>5. DiskInv' BY <1>1, <1>2 DEF DiskInv
<1> QED BY <1>1, <1>3, <1>4, <1>5

LEMMA ExpireIInv ==
  ASSUME TypeOK, CredentialInv, NEW t \in Tokens, Expire(t)
  PROVE  TypeOK' /\ CredentialInv' /\ UNCHANGED <<connections, registry, banned, retired>>
  BY DEF Expire, Disturb, TypeOK, connections, CredentialInv, FreshInv, DiskInv

CredentialStep ==
    \/ RotateTruncate \/ RotateWrite
    \/ RevokeId \/ RevokeRead \/ RevokeTruncate \/ RevokeWrite
    \/ RevokeRemember \/ RevokeRegister
    \/ \E t \in Tokens : Expire(t)

(* The registry learns of a ban in the step that makes it one. *)
LEMMA CredentialIInv == ASSUME IInv, CredentialStep PROVE IInv'
<1>1. /\ TypeOK' /\ CredentialInv' /\ UNCHANGED connections /\ retired \subseteq retired'
      /\ \/ UNCHANGED <<registry, banned>>
         \/ /\ registry' = registry \cup {revoke.id} /\ banned' = banned \cup {revoke.id}
            /\ retired' = retired \cup {revoke.id}
  BY RotateIInv, RevokeIInv, RegisterIInv, ExpireIInv DEF IInv, CredentialStep
<1>2. ASSUME NEW c \in Conns PROVE ConnInv(c)'
  <2>1. ConnInv(c) BY DEF IInv
  <2>2. LateInv(c)' BY <1>1, <2>1 DEF ConnInv, LateInv, connections, Good
  <2>3. CutInv(c)' BY <1>1, <2>1 DEF ConnInv, CutInv, connections
  <2>4. FrameInv(c)' /\ OrderInv(c)'
    BY <1>1, <2>1 DEF ConnInv, FrameInv, OrderInv, connections, Length
  <2> QED BY <2>2, <2>3, <2>4 DEF ConnInv
<1> QED BY <1>1, <1>2 DEF IInv

-----------------------------------------------------------------------------
(***************************************************************************)
(* Connections.                                                            *)
(***************************************************************************)

Phases == {"off", "hello", "verify", "verified", "ready", "busy", "gone"}

(* A step of one connection is judged by what it does to that one. *)
LEMMA OneConnection ==
  ASSUME IInv, NEW c \in Conns, TypeOK', ConnInv(c)', UNCHANGED credentials,
         \A e \in Conns \ {c} :
            /\ phase'[e] = phase[e] /\ rec'[e] = rec[e] /\ used'[e] = used[e]
            /\ answered'[e] = answered[e] /\ after'[e] = after[e]
            /\ e \in late' <=> e \in late
  PROVE  IInv'
<1>1. CredentialInv' BY DEF IInv, CredentialInv, FreshInv, DiskInv, credentials
<1>2. ASSUME NEW e \in Conns, e # c PROVE ConnInv(e)'
  <2>1. /\ phase'[e] = phase[e] /\ rec'[e] = rec[e] /\ used'[e] = used[e]
        /\ answered'[e] = answered[e] /\ after'[e] = after[e]
        /\ e \in late' <=> e \in late
    BY <1>2
  <2>2. ConnInv(e) /\ Length(e)' = Length(e) BY DEF IInv, Length
  <2>3. registry' = registry /\ banned' = banned /\ retired' = retired BY DEF credentials
  <2>4. LateInv(e)' BY <2>1, <2>2, <2>3 DEF ConnInv, LateInv, Good
  <2>5. CutInv(e)' BY <2>1, <2>2, <2>3 DEF ConnInv, CutInv
  <2>6. FrameInv(e)' BY <2>1, <2>2 DEF ConnInv, FrameInv
  <2>7. OrderInv(e)' BY <2>1, <2>2 DEF ConnInv, OrderInv
  <2> QED BY <2>4, <2>5, <2>6, <2>7 DEF ConnInv
<1> QED BY <1>1, <1>2 DEF IInv

(* The types after Go. *)
LEMMA GoTypes ==
  ASSUME TypeOK, NEW c \in Conns, NEW p \in Phases, NEW n \in Nat, n <= got[c], Go(c, p, n)
  PROVE  /\ phase' \in [Conns -> Phases] /\ phase'[c] = p
         /\ used' \in [Conns -> Nat] /\ got' \in [Conns -> Nat]
         /\ used'[c] = IF p = "gone" THEN 0 ELSE n
         /\ \A e \in Conns : used'[e] <= got'[e] /\ got'[e] <= Length(e)
         /\ closed' \subseteq Conns
         /\ UNCHANGED credentials /\ UNCHANGED late
         /\ \A e \in Conns \ {c} : phase'[e] = phase[e] /\ used'[e] = used[e]
<1>1. \A e \in Conns : used[e] \in Nat /\ got[e] \in Nat /\ used[e] <= got[e] /\ got[e] <= Length(e)
                       /\ Length(e) \in Int
  BY LengthNat DEF TypeOK
<1>2. phase \in [Conns -> Phases] /\ used \in [Conns -> Nat] /\ got \in [Conns -> Nat]
      /\ closed \subseteq Conns
  BY DEF TypeOK, Phases
<1>3. /\ phase' = [phase EXCEPT ![c] = p]
      /\ used' = [used EXCEPT ![c] = IF p = "gone" THEN 0 ELSE n]
      /\ got' = [got EXCEPT ![c] = IF p = "gone" THEN 0 ELSE @]
      /\ closed' = IF p = "gone" THEN closed \ {c} ELSE closed
      /\ UNCHANGED credentials /\ UNCHANGED late
  BY DEF Go
<1> QED BY <1>1, <1>2, <1>3

(* The types after Answer, and the order: the number appended is the next. *)
LEMMA AnswerTypes ==
  ASSUME TypeOK, NEW c \in Conns, NEW n \in Nat, Answer(c, n), OrderInv(c),
         n = Len(answered[c]) + 1
  PROVE  /\ answered' \in [Conns -> Seq(Nat)] /\ OrderInv(c)'
         /\ Len(answered'[c]) = Len(answered[c]) + 1
         /\ \A e \in Conns \ {c} : answered'[e] = answered[e]
<1>1. answered[c] \in Seq(Nat) /\ answered \in [Conns -> Seq(Nat)] BY DEF TypeOK
<1>2. answered' = [answered EXCEPT ![c] = Append(answered[c], n)] BY DEF Answer
<1>3. Append(answered[c], n) \in Seq(Nat) BY <1>1
<1>4. answered'[c] = Append(answered[c], n) BY <1>1, <1>2
<1>5. ASSUME NEW i \in DOMAIN Append(answered[c], n) PROVE Append(answered[c], n)[i] = i
  <2>1. Len(answered[c]) \in Nat BY <1>1
  <2>2. i \in 1..(Len(answered[c]) + 1) BY <1>1, <1>5
  <2>3. CASE i = Len(answered[c]) + 1 BY <1>1, <2>3
  <2>4. CASE i \in 1..Len(answered[c])
    <3>1. Append(answered[c], n)[i] = answered[c][i] BY <1>1, <2>4
    <3>2. i \in DOMAIN answered[c] BY <1>1, <2>4
    <3> QED BY <3>1, <3>2 DEF OrderInv
  <2> QED BY <2>1, <2>2, <2>3, <2>4
<1>6. OrderInv(c)' BY <1>4, <1>5 DEF OrderInv
<1> QED BY <1>1, <1>2, <1>3, <1>4, <1>6

(* A client arrives: only now can its connection become late. *)
LEMMA ConnectIInv == ASSUME IInv, NEW c \in Conns, Connect(c) PROVE IInv'
<1>1. TypeOK /\ ConnInv(c) BY DEF IInv
<1>2. /\ phase[c] = "off" /\ phase' = [phase EXCEPT ![c] = "hello"]
      /\ late' = IF TokenOf[c] \in retired THEN late \cup {c} ELSE late
      /\ UNCHANGED credentials /\ UNCHANGED <<rec, got, used, closed, answered, after, faults>>
  BY DEF Connect
<1>3. phase' \in [Conns -> Phases] /\ phase'[c] = "hello"
      /\ \A e \in Conns \ {c} : phase'[e] = phase[e]
  BY <1>1, <1>2 DEF TypeOK, Phases
<1>4. TypeOK' BY <1>1, <1>2, <1>3 DEF TypeOK, Phases, credentials, Length
<1>5. c \notin late /\ after[c] = 0 BY <1>1, <1>2 DEF ConnInv, LateInv, CutInv
<1>6. banned \subseteq retired BY DEF IInv, CredentialInv
<1>7. ConnInv(c)'
  <2>1. LateInv(c)'
    <3>1. rec[c] = Void BY <1>1, <1>2 DEF ConnInv, LateInv
    <3> QED BY <1>2, <1>3, <1>5, <3>1 DEF LateInv, credentials, Good
  <2>2. CutInv(c)' BY <1>2, <1>5, <1>6 DEF CutInv, credentials
  <2>3. FrameInv(c)' BY <1>1, <1>2, <1>3 DEF ConnInv, FrameInv, Length
  <2>4. OrderInv(c)' BY <1>1, <1>2 DEF ConnInv, OrderInv
  <2> QED BY <2>1, <2>2, <2>3, <2>4 DEF ConnInv
<1> QED BY <1>2, <1>3, <1>4, <1>7, OneConnection

LEMMA ReadIInv == ASSUME IInv, NEW c \in Conns, ReadChunk(c) \/ Close(c) PROVE IInv'
<1>1. TypeOK /\ ConnInv(c) BY DEF IInv
<1>2. UNCHANGED credentials /\ UNCHANGED <<phase, rec, used, answered, late, after, faults>>
  BY DEF ReadChunk, Close
<1>3. TypeOK'
  <2>1. CASE ReadChunk(c)
    <3>1. PICK n \in (got[c] + 1)..Length(c) : got' = [got EXCEPT ![c] = n] /\ closed' = closed
      BY <2>1 DEF ReadChunk
    <3>2. n \in Nat /\ got[c] <= n /\ n <= Length(c) BY <1>1, <3>1, LengthNat DEF TypeOK
    <3>3. got' \in [Conns -> Nat]
          /\ \A e \in Conns : used'[e] <= got'[e] /\ got'[e] <= Length(e)
      BY <1>1, <1>2, <3>1, <3>2, LengthNat DEF TypeOK
    <3> QED BY <1>1, <1>2, <3>1, <3>3 DEF TypeOK, credentials, Length
  <2>2. CASE Close(c) BY <1>1, <1>2, <2>2 DEF TypeOK, credentials, Length, Close
  <2> QED BY <2>1, <2>2
<1>4. ConnInv(c)'
  BY <1>1, <1>2 DEF ConnInv, LateInv, CutInv, FrameInv, OrderInv, Good, Length, credentials
<1> QED BY <1>2, <1>3, <1>4, OneConnection

(* A connection that ends: nothing is said about it any more. *)
LEMMA GoneIInv ==
  ASSUME IInv, NEW c \in Conns, NEW n \in Nat, n <= got[c], Go(c, "gone", n),
         phase[c] # "verify" => rec' = rec,
         phase[c] = "verify" => rec' = [rec EXCEPT ![c] = Void],
         UNCHANGED answered \/ Answer(c, Len(answered[c]) + 1), UNCHANGED <<after, faults>>
  PROVE  IInv'
<1>1. TypeOK /\ ConnInv(c) BY DEF IInv
<1>2. /\ phase' \in [Conns -> Phases] /\ phase'[c] = "gone"
      /\ used' \in [Conns -> Nat] /\ got' \in [Conns -> Nat] /\ used'[c] = 0
      /\ \A e \in Conns : used'[e] <= got'[e] /\ got'[e] <= Length(e)
      /\ closed' \subseteq Conns
      /\ UNCHANGED credentials /\ UNCHANGED late
      /\ \A e \in Conns \ {c} : phase'[e] = phase[e] /\ used'[e] = used[e]
  BY <1>1, GoTypes DEF Phases
<1>3. /\ answered' \in [Conns -> Seq(Nat)] /\ OrderInv(c)'
      /\ \A e \in Conns \ {c} : answered'[e] = answered[e]
  <2>1. CASE UNCHANGED answered BY <1>1, <2>1 DEF TypeOK, ConnInv, OrderInv
  <2>2. CASE Answer(c, Len(answered[c]) + 1)
    <3>1. Len(answered[c]) + 1 \in Nat BY <1>1 DEF TypeOK
    <3> QED BY <1>1, <2>2, <3>1, AnswerTypes DEF ConnInv
  <2> QED BY <2>1, <2>2
<1>4. /\ rec' \in [Conns -> Record \cup {Void}] /\ rec'[c] = Void
      /\ \A e \in Conns \ {c} : rec'[e] = rec[e]
  BY <1>1 DEF TypeOK, ConnInv, LateInv
<1>5. TypeOK' BY <1>1, <1>2, <1>3, <1>4 DEF TypeOK, Phases, credentials, Length
<1>6. LateInv(c)' BY <1>1, <1>2, <1>4 DEF ConnInv, LateInv, credentials, Good
<1>7. CutInv(c)' BY <1>1, <1>2 DEF ConnInv, CutInv, credentials
<1>8. FrameInv(c)' BY <1>2 DEF FrameInv
<1>9. ConnInv(c)' BY <1>3, <1>6, <1>7, <1>8 DEF ConnInv
<1> QED BY <1>2, <1>3, <1>4, <1>5, <1>9, OneConnection

(* A connection that goes on, with its frame accounted for. *)
LEMMA OnIInv ==
  ASSUME IInv, NEW c \in Conns, NEW p \in Phases \ {"off", "hello", "gone"},
         NEW n \in Nat, n <= got[c], n % 2 = 1 => n = Length(c), Go(c, p, n),
         NEW m \in Nat, m = Len(answered'[c]),
         p \in {"verify", "verified"} => (n + 1) \div 2 = 1 /\ m = 0,
         p = "ready" => m = (n + 1) \div 2,
         p = "busy" => m + 1 = (n + 1) \div 2,
         UNCHANGED answered \/ Answer(c, Len(answered[c]) + 1),
         NEW r \in Record \cup {Void}, rec' = [rec EXCEPT ![c] = r],
         p # "verify" => r = Void,
         c \in late => p = "verify" /\ ~Good(r, TokenOf[c]),
         phase[c] \notin {"off", "gone"},
         UNCHANGED after \/ after' = [after EXCEPT ![c] = 1],
         after'[c] # 0 => after'[c] = 1 /\ TokenOf[c] \in banned /\ p = "ready",
         UNCHANGED faults
  PROVE  IInv'
<1>1. TypeOK /\ ConnInv(c) BY DEF IInv
<1>2. /\ phase' \in [Conns -> Phases] /\ phase'[c] = p
      /\ used' \in [Conns -> Nat] /\ got' \in [Conns -> Nat] /\ used'[c] = n
      /\ \A e \in Conns : used'[e] <= got'[e] /\ got'[e] <= Length(e)
      /\ closed' \subseteq Conns
      /\ UNCHANGED credentials /\ UNCHANGED late
      /\ \A e \in Conns \ {c} : phase'[e] = phase[e] /\ used'[e] = used[e]
  BY <1>1, GoTypes
<1>3. /\ answered' \in [Conns -> Seq(Nat)] /\ OrderInv(c)'
      /\ \A e \in Conns \ {c} : answered'[e] = answered[e]
  <2>1. CASE UNCHANGED answered BY <1>1, <2>1 DEF TypeOK, ConnInv, OrderInv
  <2>2. CASE Answer(c, Len(answered[c]) + 1)
    <3>1. Len(answered[c]) + 1 \in Nat BY <1>1 DEF TypeOK
    <3> QED BY <1>1, <2>2, <3>1, AnswerTypes DEF ConnInv
  <2> QED BY <2>1, <2>2
<1>4. /\ rec' \in [Conns -> Record \cup {Void}] /\ rec'[c] = r
      /\ \A e \in Conns \ {c} : rec'[e] = rec[e]
  BY <1>1 DEF TypeOK
<1>5. after' \in [Conns -> Nat] /\ \A e \in Conns \ {c} : after'[e] = after[e]
  BY <1>1 DEF TypeOK
<1>6. TypeOK' BY <1>1, <1>2, <1>3, <1>4, <1>5 DEF TypeOK, Phases, credentials, Length
<1>7. LateInv(c)' BY <1>1, <1>2, <1>4 DEF ConnInv, LateInv, credentials, Good
<1>8. CutInv(c)' BY <1>1, <1>2 DEF ConnInv, CutInv, credentials
<1>9. FrameInv(c)' BY <1>2 DEF FrameInv, Length
<1>10. ConnInv(c)' BY <1>3, <1>7, <1>8, <1>9 DEF ConnInv
<1> QED BY <1>2, <1>3, <1>4, <1>5, <1>6, <1>10, OneConnection

(* What the invariant says of a connection, by where it is. *)
LEMMA ConnFacts ==
  ASSUME IInv, NEW c \in Conns
  PROVE  /\ used[c] \in Nat /\ got[c] \in Nat /\ used[c] <= got[c] /\ TypeOK /\ ConnInv(c)
         /\ Len(answered[c]) \in Nat /\ after[c] \in Nat
         /\ phase[c] # "verify" => rec[c] = Void /\ rec = [rec EXCEPT ![c] = Void]
         /\ c \in late => phase[c] \in {"hello", "verify", "gone"}
         /\ after[c] # 0 => /\ after[c] = 1 /\ TokenOf[c] \in banned
                            /\ phase[c] \in {"ready", "gone"}
         /\ used[c] % 2 = 1 => used[c] = Length(c)
<1>1. TypeOK /\ ConnInv(c) BY DEF IInv
<1>2. phase[c] # "verify" => rec[c] = Void /\ rec = [rec EXCEPT ![c] = Void]
  BY <1>1 DEF TypeOK, ConnInv, LateInv
<1>3. Len(answered[c]) \in Nat BY <1>1 DEF TypeOK
<1> QED BY <1>1, <1>2, <1>3 DEF TypeOK, ConnInv, LateInv, CutInv, FrameInv

LEMMA HandshakeIInv == ASSUME IInv, NEW c \in Conns, Handshake(c) PROVE IInv'
<1>1. phase[c] = "hello" /\ Ready(c) /\ UNCHANGED <<after, faults>> BY DEF Handshake
<1>2. used[c] = 0 /\ Len(answered[c]) = 0 /\ FrameInv(c) /\ TypeOK
  BY <1>1, ConnFacts DEF ConnInv, FrameInv
<1>3. /\ End(c) \in Nat /\ End(c) <= got[c] /\ (End(c) % 2 = 1 => End(c) = Length(c))
      /\ End(c) # used[c] => (End(c) + 1) \div 2 = Number(c)
  BY <1>1, <1>2, NextFrame
<1>4. CASE Kind(c) = "proof"
  <2>1. Go(c, "verify", End(c)) /\ rec' = [rec EXCEPT ![c] = disk] /\ answered' = answered
    BY <1>4 DEF Handshake, Taken
  <2>2. Number(c) = 1 BY <1>2 DEF Number
  <2>3. End(c) # used[c] BY <1>4 DEF Kind
  <2>4. c \in late => ~Good(disk, TokenOf[c])
    BY DEF IInv, ConnInv, LateInv, CredentialInv, DiskInv
  <2>5. after'[c] = 0 BY <1>1, ConnFacts
  <2>6. "verify" \in Phases \ {"off", "hello", "gone"} /\ disk \in Record \cup {Void}
        /\ Len(answered'[c]) = 0 /\ (End(c) + 1) \div 2 = 1
    BY <1>2, <1>3, <2>1, <2>2, <2>3 DEF Phases, TypeOK
  <2> QED BY <1>1, <1>3, <2>1, <2>4, <2>5, <2>6, OnIInv
<1>5. CASE Kind(c) # "proof"
  <2>1. Go(c, "gone", End(c)) /\ Answer(c, Len(answered[c]) + 1) /\ rec' = rec
    BY <1>2, <1>5 DEF Handshake, Taken
  <2> QED BY <1>1, <1>3, <2>1, GoneIInv
<1> QED BY <1>4, <1>5

(* A late connection fails here: the record it read does not verify. *)
LEMMA AuthenticateIInv == ASSUME IInv, NEW c \in Conns, Authenticate(c) PROVE IInv'
<1>1. phase[c] = "verify" /\ rec' = [rec EXCEPT ![c] = Void] /\ UNCHANGED <<after, faults>>
  BY DEF Authenticate
<1>2. /\ (used[c] + 1) \div 2 = 1 /\ Len(answered[c]) = 0
      /\ used[c] \in Nat /\ got[c] \in Nat /\ used[c] <= got[c]
      /\ used[c] % 2 = 1 => used[c] = Length(c)
  BY <1>1, ConnFacts DEF ConnInv, FrameInv
<1>3. CASE Verifies(c)
  <2>1. Go(c, "verified", used[c]) /\ answered' = answered BY <1>3 DEF Authenticate
  <2>2. c \notin late BY <1>3, ConnFacts DEF ConnInv, LateInv, Good, Verifies
  <2>3. after'[c] = 0 BY <1>1, ConnFacts
  <2>4. "verified" \in Phases \ {"off", "hello", "gone"} /\ Len(answered'[c]) = 0
    BY <1>2, <2>1 DEF Phases
  <2> QED BY <1>1, <1>2, <2>1, <2>2, <2>3, <2>4, OnIInv
<1>4. CASE ~Verifies(c)
  <2>1. Go(c, "gone", used[c]) /\ Answer(c, Len(answered[c]) + 1)
    BY <1>2, <1>4 DEF Authenticate
  <2> QED BY <1>1, <1>2, <2>1, GoneIInv
<1> QED BY <1>3, <1>4

(* Len after an answer. *)
LEMMA AnswerLen ==
  ASSUME IInv, NEW c \in Conns, Answer(c, Len(answered[c]) + 1)
  PROVE  Len(answered'[c]) = Len(answered[c]) + 1 /\ Len(answered'[c]) \in Nat
<1>1. TypeOK /\ OrderInv(c) /\ Len(answered[c]) \in Nat BY ConnFacts DEF ConnInv
<1>2. Len(answered[c]) + 1 \in Nat BY <1>1
<1> QED BY <1>1, <1>2, AnswerTypes

LEMMA AdmitIInv == ASSUME IInv, NEW c \in Conns, Admit(c) PROVE IInv'
<1>1. phase[c] = "verified" /\ rec' = rec /\ UNCHANGED <<after, faults>> BY DEF Admit
<1>2. /\ (used[c] + 1) \div 2 = 1 /\ Len(answered[c]) = 0
      /\ used[c] \in Nat /\ got[c] \in Nat /\ used[c] <= got[c]
      /\ used[c] % 2 = 1 => used[c] = Length(c)
  BY <1>1, ConnFacts DEF ConnInv, FrameInv
<1>3. Answer(c, Len(answered[c]) + 1) BY <1>2 DEF Admit
<1>4. CASE TokenOf[c] \in registry
  <2>1. Go(c, "gone", used[c]) BY <1>4 DEF Admit
  <2> QED BY <1>1, <1>2, <1>3, <2>1, GoneIInv
<1>5. CASE TokenOf[c] \notin registry
  <2>1. Go(c, "ready", used[c]) BY <1>5 DEF Admit
  <2>2. c \notin late /\ after'[c] = 0 /\ rec' = [rec EXCEPT ![c] = Void] BY <1>1, ConnFacts
  <2>3. "ready" \in Phases \ {"off", "hello", "gone"} BY DEF Phases
  <2>4. Len(answered'[c]) = (used[c] + 1) \div 2 /\ Len(answered'[c]) \in Nat
    <3>1. Len(answered'[c]) = Len(answered[c]) + 1 /\ Len(answered'[c]) \in Nat
      BY <1>3, AnswerLen
    <3> QED BY <1>2, <3>1
  <2>5. UNCHANGED faults /\ UNCHANGED after /\ phase[c] \notin {"off", "gone"} BY <1>1
  <2> QED BY <1>2, <1>3, <2>1, <2>2, <2>3, <2>4, <2>5, OnIInv
<1> QED BY <1>4, <1>5

LEMMA FrameIInv == ASSUME IInv, NEW c \in Conns, Frame(c) PROVE IInv'
<1>1. phase[c] = "ready" /\ Ready(c) /\ rec' = rec /\ UNCHANGED <<after, faults>> BY DEF Frame
<1>2. /\ Len(answered[c]) = (used[c] + 1) \div 2 /\ FrameInv(c) /\ TypeOK
      /\ Len(answered[c]) \in Nat
  BY <1>1, ConnFacts DEF ConnInv, FrameInv
<1>3. /\ End(c) \in Nat /\ End(c) <= got[c] /\ (End(c) % 2 = 1 => End(c) = Length(c))
      /\ End(c) # used[c] => /\ (End(c) + 1) \div 2 = Number(c)
                             /\ (used[c] + 1) \div 2 + 1 = Number(c)
  BY <1>1, <1>2, NextFrame
<1>4. /\ c \notin late /\ rec' = [rec EXCEPT ![c] = Void] /\ UNCHANGED after /\ UNCHANGED faults
      /\ phase[c] \notin {"off", "gone"}
      /\ after'[c] # 0 => after'[c] = 1 /\ TokenOf[c] \in banned
  BY <1>1, ConnFacts
<1>5. CASE Kind(c) = "empty"
  <2>1. Go(c, "gone", End(c)) /\ UNCHANGED answered BY <1>5 DEF Frame, Taken
  <2> QED BY <1>1, <1>3, <2>1, GoneIInv
<1>6. CASE Kind(c) # "empty"
  <2>1. End(c) # used[c] BY <1>6 DEF Kind
  <2>2. /\ (End(c) + 1) \div 2 = Len(answered[c]) + 1 /\ Number(c) = Len(answered[c]) + 1
    BY <1>2, <1>3, <2>1
  <2>3. CASE Refuse(c)
    <3>1. Go(c, "ready", End(c)) /\ Answer(c, Len(answered[c]) + 1)
      BY <2>2, <2>3 DEF Refuse, Taken
    <3>2. Len(answered'[c]) = (End(c) + 1) \div 2 /\ Len(answered'[c]) \in Nat
      BY <2>2, <3>1, AnswerLen
    <3>3. "ready" \in Phases \ {"off", "hello", "gone"} BY DEF Phases
    <3> QED BY <1>3, <1>4, <3>1, <3>2, <3>3, OnIInv
  <2>4. CASE Dispatch(c) /\ TokenOf[c] \in registry
    <3>1. Go(c, "gone", End(c)) /\ Answer(c, Len(answered[c]) + 1)
      BY <2>2, <2>4 DEF Dispatch, Taken
    <3> QED BY <1>1, <1>3, <3>1, GoneIInv
  <2>5. CASE Dispatch(c) /\ TokenOf[c] \notin registry
    <3>1. Go(c, "busy", End(c)) /\ UNCHANGED answered BY <2>5 DEF Dispatch, Taken
    <3>2. after[c] = 0 BY <1>1, <1>4, <2>5, ConnFacts DEF ConnInv, CutInv
    <3>3. Len(answered'[c]) + 1 = (End(c) + 1) \div 2 /\ Len(answered'[c]) \in Nat
      BY <1>2, <2>2, <3>1
    <3>4. "busy" \in Phases \ {"off", "hello", "gone"} BY DEF Phases
    <3> QED BY <1>3, <1>4, <3>1, <3>2, <3>3, <3>4, OnIInv
  <2> QED BY <1>6, <2>3, <2>4, <2>5 DEF Frame
<1> QED BY <1>5, <1>6

LEMMA TooLargeIInv == ASSUME IInv, NEW c \in Conns, FrameTooLarge(c) PROVE IInv'
<1>1. /\ phase[c] \in {"hello", "ready"} /\ Go(c, "gone", used[c])
      /\ rec' = rec /\ UNCHANGED answered /\ UNCHANGED <<after, faults>>
  BY DEF FrameTooLarge, Reading
<1>2. used[c] \in Nat /\ used[c] <= got[c] BY ConnFacts
<1> QED BY <1>1, <1>2, GoneIInv

(* The call that was running is answered; it is the only one after a ban. *)
LEMMA RespondIInv == ASSUME IInv, NEW c \in Conns, Respond(c) \/ RespondFails(c) PROVE IInv'
<1>1. phase[c] = "busy" /\ rec' = rec /\ UNCHANGED faults BY DEF Respond, RespondFails
<1>2. /\ Len(answered[c]) + 1 = (used[c] + 1) \div 2 /\ Len(answered[c]) \in Nat
      /\ used[c] \in Nat /\ used[c] <= got[c] /\ (used[c] % 2 = 1 => used[c] = Length(c))
      /\ c \notin late /\ rec' = [rec EXCEPT ![c] = Void] /\ after[c] = 0
  BY <1>1, ConnFacts DEF ConnInv, FrameInv
<1>3. CASE RespondFails(c)
  <2>1. Go(c, "gone", used[c]) /\ UNCHANGED answered /\ UNCHANGED <<after, faults>>
    BY <1>3 DEF RespondFails
  <2> QED BY <1>1, <1>2, <2>1, GoneIInv
<1>4. CASE Respond(c)
  <2>1. Go(c, "ready", used[c]) /\ Answer(c, Len(answered[c]) + 1)
    BY <1>2, <1>4 DEF Respond
  <2>2. Len(answered'[c]) = (used[c] + 1) \div 2 /\ Len(answered'[c]) \in Nat
    BY <1>2, <2>1, AnswerLen
  <2>3. "ready" \in Phases \ {"off", "hello", "gone"} BY DEF Phases
  <2>4. /\ UNCHANGED after \/ after' = [after EXCEPT ![c] = 1]
        /\ after'[c] # 0 => after'[c] = 1 /\ TokenOf[c] \in banned
    <3>1. after \in [Conns -> Nat] BY ConnFacts DEF TypeOK
    <3>2. after' = [after EXCEPT ![c] = IF TokenOf[c] \in banned THEN 1 ELSE 0]
      BY <1>2, <1>4 DEF Respond
    <3>3. CASE TokenOf[c] \in banned BY <3>1, <3>2, <3>3
    <3>4. CASE TokenOf[c] \notin banned BY <1>2, <3>1, <3>2, <3>4
    <3> QED BY <3>3, <3>4
  <2> QED BY <1>1, <1>2, <2>1, <2>2, <2>3, <2>4, OnIInv
<1> QED BY <1>3, <1>4

(* A restart: both revoked sets are forgotten, and so is every session. *)
LEMMA CrashIInv == ASSUME IInv, Crash PROVE IInv'
<1> USE DEF Crash, IInv
<1>1. /\ revoke' \in Calls /\ revoke'.at = "idle" /\ revoke'.id = revoke.id /\ revoke'.rec = Void
  BY Types DEF Calls, Places
<1>2. TypeOK'
  <2>1. phase' \in [Conns -> Phases] BY DEF TypeOK, Phases
  <2>2. \A c \in Conns : 0 <= Length(c) BY LengthNat DEF TypeOK
  <2>3. rec' \in [Conns -> Record \cup {Void}] OBVIOUS
  <2>4. /\ got' \in [Conns -> Nat] /\ used' \in [Conns -> Nat]
        /\ \A c \in Conns : used'[c] = 0 /\ got'[c] = 0
    OBVIOUS
  <2>5. faults' \in Nat BY DEF TypeOK, Disturb
  <2> QED BY <1>1, <2>1, <2>2, <2>3, <2>4, <2>5 DEF TypeOK, Phases, Calls, Places, Length
<1>3. CredentialInv' BY <1>1 DEF CredentialInv, FreshInv, DiskInv
<1>4. ASSUME NEW c \in Conns PROVE ConnInv(c)'
  <2>1. ConnInv(c) OBVIOUS
  <2>2. phase'[c] \in {"off", "gone"} /\ (phase[c] = "off" <=> phase'[c] = "off")
        /\ rec'[c] = Void /\ used'[c] = 0
    OBVIOUS
  <2>3. LateInv(c)' BY <2>1, <2>2 DEF ConnInv, LateInv, Good
  <2>4. CutInv(c)' BY <2>1, <2>2 DEF ConnInv, CutInv
  <2>5. FrameInv(c)' /\ OrderInv(c)' BY <2>1, <2>2 DEF ConnInv, FrameInv, OrderInv
  <2> QED BY <2>3, <2>4, <2>5 DEF ConnInv
<1> QED BY <1>2, <1>3, <1>4

-----------------------------------------------------------------------------
(***************************************************************************)
(* Theorems.                                                               *)
(***************************************************************************)

LEMMA NextIInv == ASSUME IInv, [Next]_vars PROVE IInv'
<1>1. CASE CredentialStep BY <1>1, CredentialIInv
<1>2. CASE \E c \in Conns : Connect(c) \/ Serve(c) \/ Close(c)
  BY <1>2, ConnectIInv, ReadIInv, HandshakeIInv, AuthenticateIInv, AdmitIInv, FrameIInv,
     TooLargeIInv, RespondIInv DEF Serve
<1>3. CASE Crash BY <1>3, CrashIInv
<1>4. CASE UNCHANGED vars
  BY <1>4 DEF vars, credentials, connections, IInv, TypeOK, CredentialInv, FreshInv, DiskInv,
     ConnInv, LateInv, CutInv, FrameInv, OrderInv, Good, Length
<1> QED BY <1>1, <1>2, <1>3, <1>4 DEF Next, CredentialStep

(* The inductive invariant of handshake, frames and credentials. *)
THEOREM SessionsInvariant == Spec => []IInv
  BY InitIInv, NextIInv, PTL DEF Spec

(* A token that is revoked or rotated away opens no session, for any       *)
(* interleaving of revoke, rotate, verify and restarts.                    *)
THEOREM RetiredStaysOut == Spec => []RetiredNeverOpens
<1>1. IInv => RetiredNeverOpens BY DEF IInv, ConnInv, LateInv, RetiredNeverOpens, Inside
<1> QED BY <1>1, SessionsInvariant, PTL

(* A revocation cuts live sessions, however many frames are pipelined. *)
THEOREM RevocationIsACut == Spec => []RevocationCuts
<1>1. ASSUME IInv PROVE RevocationCuts
  <2>1. \A c \in Conns : after[c] = 0 \/ after[c] = 1 BY <1>1, ConnFacts
  <2> QED BY <2>1 DEF RevocationCuts
<1> QED BY <1>1, SessionsInvariant, PTL

(* Frames are answered in order, for any scripts and any chunking. *)
THEOREM FramesInOrder == Spec => []AnsweredInOrder
<1>1. IInv => AnsweredInOrder BY DEF IInv, ConnInv, OrderInv, AnsweredInOrder
<1> QED BY <1>1, SessionsInvariant, PTL

=============================================================================
