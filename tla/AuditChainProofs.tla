-------------------------- MODULE AuditChainProofs --------------------------
(***************************************************************************)
(* Proofs about the audit log, for any set of events and any number of     *)
(* faults: no acknowledged event is lost from a log that verifies, and     *)
(* only damage breaks the chain.                                           *)
(***************************************************************************)
EXTENDS AuditChain, TLAPS

(* The last line, if there is one, ends in a newline.                      *)
Closed(f) == f # <<>> => Ends(f[Len(f)])

Prefix(d, f) == Len(d) <= Len(f) /\ \A i \in 1..Len(d) : f[i] = d[i]

(* Only a running daemon writes.                                           *)
UpInv == writer # Nobody => daemon = "up"

(* What was synced is never touched again: it is where every file begins,  *)
(* and it ends in a newline, so that no later line is joined to it.        *)
DurableInv ==
    /\ Closed(durable)
    /\ Prefix(durable, file)
    /\ writer # Nobody => Prefix(durable, base)

(* The line under way.                                                     *)
LineInv ==
    /\ writer # Nobody /\ event[writer] = "writing" =>
         \/ file = base
         \/ \E form \in {"torn", "noeol"} : file = Put(base, writer, form)
    /\ writer # Nobody /\ event[writer] = "written" => file = Put(base, writer, "whole")

(* Acknowledged means synced.                                              *)
AckedInv ==
    \A e \in Events : event[e] = "acked" => \E i \in 1..Len(durable) : durable[i].id = e

LossInv == TypeOK /\ UpInv /\ DurableInv /\ LineInv /\ AckedInv

(* A chain that the next line can be linked to.                            *)
Intact(f) == verify(f) /\ Closed(f)

(* Without damage the chain is intact up to the line under way.            *)
ChainInv ==
    ~damaged =>
        /\ writer = Nobody => Intact(file)
        /\ writer # Nobody => Intact(base) /\ head = LastHash(base)
        /\ writer = Nobody /\ daemon = "up" => head = LastHash(file)

-----------------------------------------------------------------------------
(***************************************************************************)
(* The file operations.                                                    *)
(***************************************************************************)

(* Put adds the event's line at the end, and touches nothing before a last *)
(* line that ends in a newline.                                            *)
LEMMA PutLine ==
    ASSUME NEW f \in Seq(Line), NEW e \in Events, NEW form \in {"whole", "noeol", "torn"},
           head \in Events \cup {Genesis}, NEW g, g = Put(f, e, form)
    PROVE  /\ g \in Seq(Line) /\ g # <<>>
           /\ Len(g) \in {Len(f), Len(f) + 1}
           /\ LastHash(g) = e
           /\ form = "whole" => Closed(g)
<1> DEFINE line == [id |-> e, prev |-> head, form |-> form]
           joined == [line EXCEPT !.form = IF form = "whole" THEN "garbage" ELSE "torn"]
<1>1. line \in Line /\ joined \in Line
  BY DEF Line
<1>2. joined.id = e /\ joined.form = (IF form = "whole" THEN "garbage" ELSE "torn")
  OBVIOUS
<1>3. CASE f # <<>> /\ ~Ends(f[Len(f)])
  <2>1. g = [f EXCEPT ![Len(f)] = joined]
    BY <1>3 DEF Put
  <2>2. Len(f) \in 1..Len(f)
    BY <1>3
  <2> HIDE DEF joined, line
  <2>3. /\ g \in Seq(Line) /\ Len(g) = Len(f)
        /\ g[Len(f)] = joined
        /\ \A i \in 1..Len(f) : i # Len(f) => g[i] = f[i]
    BY <2>1, <2>2, <1>1
  <2>4. g # <<>>
    BY <2>3, <2>2
  <2> QED
    BY <2>2, <2>3, <2>4, <1>2, <1>3 DEF Ends, Closed, LastHash
<1>4. CASE ~(f # <<>> /\ ~Ends(f[Len(f)]))
  <2>1. g = Append(f, line)
    BY <1>4 DEF Put
  <2>2. line.id = e /\ line.form = form
    OBVIOUS
  <2> HIDE DEF joined, line
  <2>3. /\ g \in Seq(Line) /\ Len(g) = Len(f) + 1
        /\ g[Len(f) + 1] = line
        /\ \A i \in 1..Len(f) : g[i] = f[i]
    BY <2>1, <1>1
  <2>4. g # <<>>
    BY <2>3
  <2> QED
    BY <2>2, <2>3, <2>4 DEF Ends, Closed, LastHash
<1> QED
  BY <1>3, <1>4

(* ... so what is durable stays at the beginning of the file.              *)
LEMMA PutKeeps ==
    ASSUME NEW f \in Seq(Line), NEW d \in Seq(Line), Closed(d), Prefix(d, f),
           NEW e \in Events, NEW form \in {"whole", "noeol", "torn"},
           head \in Events \cup {Genesis}
    PROVE  Prefix(d, Put(f, e, form))
<1>1. Len(Put(f, e, form)) \in {Len(f), Len(f) + 1}
  BY PutLine
<1>2. ASSUME NEW i \in 1..Len(f)
      PROVE  Put(f, e, form)[i] = f[i] \/ (i = Len(f) /\ ~Ends(f[i]))
  <2>1. CASE f # <<>> /\ ~Ends(f[Len(f)])
    <3>1. PICK l : Put(f, e, form) = [f EXCEPT ![Len(f)] = l]
      BY <2>1 DEF Put
    <3> QED
      BY <2>1, <3>1
  <2>2. CASE ~(f # <<>> /\ ~Ends(f[Len(f)]))
    <3>1. PICK l : Put(f, e, form) = Append(f, l)
      BY <2>2 DEF Put
    <3> QED
      BY <3>1
  <2> QED
    BY <2>1, <2>2
<1>3. ASSUME NEW i \in 1..Len(d) PROVE Put(f, e, form)[i] = d[i]
  <2>1. i \in 1..Len(f) /\ f[i] = d[i] /\ Len(d) <= Len(f)
    BY DEF Prefix
  <2>2. i = Len(f) => i = Len(d) /\ d # <<>> /\ Ends(d[i])
    BY <2>1 DEF Closed
  <2> QED
    BY <1>2, <2>1, <2>2
<1> QED
  BY <1>1, <1>3 DEF Prefix

(* What a power loss leaves.                                               *)
LEMMA CutLines ==
    ASSUME file \in Seq(Line), durable \in Seq(Line), Prefix(durable, file),
           NEW f \in Cuts
    PROVE  /\ f \in Seq(Line)
           /\ Prefix(durable, f)
           /\ Closed(f) => Len(f) <= Len(file) /\ \A i \in 1..Len(f) : f[i] = file[i]
<1> DEFINE unsynced == (Len(durable) + 1)..Len(file)
           cut(n, form) == [SubSeq(file, 1, n) EXCEPT ![n].form = form]
<1>1. ASSUME NEW n \in Len(durable)..Len(file)
      PROVE  /\ SubSeq(file, 1, n) \in Seq(Line) /\ Len(SubSeq(file, 1, n)) = n
             /\ \A i \in 1..n : SubSeq(file, 1, n)[i] = file[i]
  <2>1. n \in 0..Len(file)
    OBVIOUS
  <2> QED
    BY <2>1
<1>2. \/ \E n \in Len(durable)..Len(file) : f = SubSeq(file, 1, n)
      \/ \E n \in unsynced, form \in {"torn", "noeol"} : f = cut(n, form)
  BY DEF Cuts, Prefix
<1>3. CASE \E n \in Len(durable)..Len(file) : f = SubSeq(file, 1, n)
  BY <1>1, <1>3 DEF Prefix
<1>4. CASE \E n \in unsynced, form \in {"torn", "noeol"} : f = cut(n, form)
  <2>1. PICK n \in unsynced, form \in {"torn", "noeol"} : f = cut(n, form)
    BY <1>4
  <2>2. n \in Len(durable)..Len(file) /\ n \in 1..n
    BY <1>1
  <2> DEFINE s == SubSeq(file, 1, n)
  <2>3. s \in Seq(Line) /\ Len(s) = n /\ \A i \in 1..n : s[i] = file[i]
    BY <1>1, <2>2
  <2>4. s[n] \in Line
    BY <2>2, <2>3
  <2>5. [s[n] EXCEPT !.form = form] \in Line /\ [s[n] EXCEPT !.form = form].form = form
    BY <2>4 DEF Line
  <2>6. f = [s EXCEPT ![n] = [s[n] EXCEPT !.form = form]]
    BY <2>1
  <2> HIDE DEF s
  <2>7. /\ f \in Seq(Line) /\ Len(f) = n /\ f[n].form = form
        /\ \A i \in 1..n : i # n => f[i] = s[i]
    BY <2>2, <2>3, <2>5, <2>6
  <2>8. ~Closed(f)
    BY <2>2, <2>7 DEF Closed, Ends
  <2>9. ASSUME NEW i \in 1..Len(durable) PROVE f[i] = durable[i]
    BY <2>2, <2>3, <2>7, <2>1 DEF Prefix
  <2>10. Len(durable) <= Len(f)
    BY <2>1, <2>2, <2>7
  <2> QED
    BY <2>7, <2>8, <2>9, <2>10 DEF Prefix
<1> QED
  BY <1>2, <1>3, <1>4

-----------------------------------------------------------------------------
(***************************************************************************)
(* No silent loss.                                                         *)
(***************************************************************************)

LEMMA LossInit == Init => LossInv
<1> SUFFICES ASSUME Init PROVE LossInv
  OBVIOUS
<1>1. TypeOK
  <2>1. \A e \in Events : event[e] = "new" /\ e # writer
    BY AuditAssumption DEF Init
  <2>2. event \in [Events -> {"new"}]
    BY DEF Init
  <2>3. file \in Seq(Line) /\ durable \in Seq(Line) /\ base \in Seq(Line)
    BY DEF Init
  <2> QED
    BY <2>1, <2>2, <2>3 DEF Init, TypeOK
<1>2. UpInv /\ DurableInv /\ LineInv
  BY DEF Init, UpInv, DurableInv, LineInv, Closed, Prefix
<1>3. AckedInv
  BY DEF Init, AckedInv
<1> QED
  BY <1>1, <1>2, <1>3 DEF LossInv

(* The call that holds the mutex is an event, and the line it puts is a    *)
(* line.                                                                   *)
LEMMA WriterEvent ==
    ASSUME TypeOK, writer # Nobody
    PROVE  writer \in Events /\ event[writer] \in {"writing", "written"}
BY DEF TypeOK

(* Begin takes the mutex.                                                  *)
LEMMA LossBegin == ASSUME LossInv, NEW e \in Events, Begin(e) PROVE LossInv'
<1> USE DEF LossInv
<1>1. e # Nobody
  BY AuditAssumption
<1>2. TypeOK'
  <2>1. event'[e] = "writing" /\ \A d \in Events : d # e => event'[d] = event[d]
    BY DEF TypeOK, Begin
  <2>2. \A d \in Events : event[d] \notin {"writing", "written"}
    BY AuditAssumption DEF TypeOK, Begin
  <2>3. \A d \in Events : event'[d] \in {"writing", "written"} <=> d = writer'
    BY <2>1, <2>2 DEF Begin
  <2>4. event' \in [Events -> {"new", "writing", "written", "acked", "failed", "lost"}]
    BY DEF TypeOK, Begin
  <2> QED
    BY <2>3, <2>4 DEF TypeOK, Begin
<1>3. UpInv' /\ DurableInv'
  BY DEF UpInv, DurableInv, Closed, Prefix, Begin
<1>4. event'[e] = "writing"
  BY DEF TypeOK, Begin
<1>5. LineInv'
  BY <1>4 DEF LineInv, Begin
<1>6. AckedInv'
  BY DEF AckedInv, Begin, TypeOK
<1> QED
  BY <1>2, <1>3, <1>5, <1>6

(* A step that writes a part of the line or all of it.                     *)
LEMMA LossWrite ==
    ASSUME LossInv, NEW form \in {"whole", "noeol", "torn"},
           writer # Nobody, event[writer] = "writing",
           file' = Put(base, writer, form),
           event' = [event EXCEPT ![writer] = IF form = "whole" THEN "written" ELSE @],
           UNCHANGED <<durable, head, daemon, writer, base, damaged>>, faults' \in Nat
    PROVE  LossInv'
<1> USE DEF LossInv
<1>1. writer \in Events
  BY WriterEvent
<1>2. /\ base \in Seq(Line) /\ durable \in Seq(Line)
      /\ head \in Events \cup {Genesis}
  BY DEF TypeOK
<1>3. file' \in Seq(Line)
  BY <1>1, <1>2, PutLine
<1>4. event'[writer] = (IF form = "whole" THEN "written" ELSE "writing")
      /\ \A e \in Events : e # writer => event'[e] = event[e]
  BY <1>1 DEF TypeOK
<1>5. TypeOK'
  BY <1>1, <1>3, <1>4 DEF TypeOK
<1>6. Closed(durable) /\ Prefix(durable, base)
  BY DEF DurableInv
<1>7. Prefix(durable, file')
  BY <1>1, <1>2, <1>6, PutKeeps
<1>8. UpInv' /\ DurableInv'
  BY <1>6, <1>7 DEF UpInv, DurableInv, Closed, Prefix
<1>9. Put(base, writer, form)' = Put(base, writer, form)
  BY DEF Put
<1>10. LineInv'
  <2>1. CASE form = "whole"
    <3>1. event'[writer'] = "written"
      BY <1>4, <2>1
    <3> QED
      BY <3>1, <2>1 DEF LineInv, Put
  <2>2. CASE form \in {"torn", "noeol"}
    <3>1. event'[writer'] = "writing"
      BY <1>4, <2>2
    <3>2. \E g \in {"torn", "noeol"} : file' = Put(base, writer, g)'
      BY <2>2 DEF Put
    <3> QED
      BY <3>1, <3>2 DEF LineInv
  <2> QED
    BY <2>1, <2>2
<1>11. AckedInv'
  BY <1>1, <1>4 DEF AckedInv, TypeOK
<1> QED
  BY <1>5, <1>8, <1>10, <1>11

(* A line that is written and not yet synced is the last one, and whole.   *)
LEMMA WrittenLine ==
    ASSUME LossInv, writer # Nobody, event[writer] = "written"
    PROVE  file # <<>> /\ LastHash(file) = writer /\ Closed(file)
<1>1. writer \in Events
  BY WriterEvent DEF LossInv
<1>2. base \in Seq(Line) /\ head \in Events \cup {Genesis}
  BY DEF LossInv, TypeOK
<1>3. PICK form \in {"whole", "noeol", "torn"} : form = "whole"
  OBVIOUS
<1>4. file = Put(base, writer, form)
  BY <1>3 DEF LossInv, LineInv
<1>5. file # <<>> /\ LastHash(file) = writer /\ (form = "whole" => Closed(file))
  BY <1>1, <1>2, <1>4, PutLine
<1> QED
  BY <1>3, <1>5

(* sync_all makes the whole file durable, the line of the caller at its    *)
(* end.                                                                    *)
LEMMA LossSync == ASSUME LossInv, Sync PROVE LossInv'
<1> USE DEF LossInv
<1>1. writer \in Events
  BY WriterEvent DEF Sync
<1>2. /\ base \in Seq(Line) /\ durable \in Seq(Line) /\ file \in Seq(Line)
      /\ head \in Events \cup {Genesis}
  BY DEF TypeOK
<1>4. file # <<>> /\ file[Len(file)].id = writer /\ Ends(file[Len(file)])
  <2>1. file # <<>> /\ LastHash(file) = writer /\ Closed(file)
    BY WrittenLine DEF Sync
  <2> QED
    BY <2>1 DEF LastHash, Closed
<1>5. event'[writer] = "acked" /\ \A e \in Events : e # writer => event'[e] = event[e]
  BY <1>1 DEF TypeOK, Sync
<1>6. TypeOK'
  BY <1>1, <1>5, AuditAssumption DEF TypeOK, Sync
<1>7. UpInv' /\ LineInv'
  BY DEF UpInv, LineInv, Sync
<1>8. DurableInv'
  BY <1>2, <1>4 DEF DurableInv, Closed, Prefix, Sync
<1>9. AckedInv'
  <2> SUFFICES ASSUME NEW e \in Events, event'[e] = "acked"
               PROVE  \E i \in 1..Len(durable') : durable'[i].id = e
    BY DEF AckedInv
  <2>1. CASE e = writer
    <3>1. Len(file) \in 1..Len(file)
      BY <1>2, <1>4
    <3> QED
      BY <2>1, <3>1, <1>4 DEF Sync
  <2>2. CASE e # writer
    <3>1. PICK i \in 1..Len(durable) : durable[i].id = e
      BY <2>2, <1>5 DEF AckedInv
    <3>2. i \in 1..Len(file) /\ file[i] = durable[i]
      BY <1>2 DEF DurableInv, Prefix
    <3> QED
      BY <3>1, <3>2 DEF Sync
  <2> QED
    BY <2>1, <2>2
<1> QED
  BY <1>6, <1>7, <1>8, <1>9

(* A step after which nobody writes, and that leaves what is durable where *)
(* it is.                                                                  *)
LEMMA LossRelease ==
    ASSUME LossInv, file' \in Seq(Line), Prefix(durable, file'), writer' = Nobody,
           event' \in [Events -> {"new", "acked", "failed", "lost"}],
           \A e \in Events : event'[e] = "acked" => event[e] = "acked",
           head' \in Events \cup {Genesis}, daemon' \in {"up", "down", "refused"},
           damaged' \in BOOLEAN, faults' \in Nat, UNCHANGED <<durable, base>>
    PROVE  LossInv'
<1> USE DEF LossInv
<1>1. \A e \in Events : ~(event'[e] \in {"writing", "written"}) /\ e # Nobody
  BY AuditAssumption
<1>2. TypeOK'
  BY <1>1 DEF TypeOK
<1>3. UpInv' /\ LineInv'
  BY DEF UpInv, LineInv
<1>4. DurableInv'
  BY DEF DurableInv, Closed, Prefix
<1>5. AckedInv'
  BY DEF AckedInv
<1> QED
  BY <1>2, <1>3, <1>4, <1>5

LEMMA LossFail == ASSUME LossInv, Fail, UNCHANGED file, damaged' \in BOOLEAN, faults' \in Nat,
                         writer # Nobody
                  PROVE  LossInv'
<1> USE DEF LossInv
<1>1. writer \in Events
  BY WriterEvent
<1>2. event'[writer] = "failed" /\ \A e \in Events : e # writer => event'[e] = event[e]
  BY <1>1 DEF TypeOK, Fail
<1>3. event' \in [Events -> {"new", "acked", "failed", "lost"}]
  <2>1. \A e \in Events : e # writer => ~(event[e] \in {"writing", "written"})
    BY DEF TypeOK
  <2> QED
    BY <1>1, <1>2, <2>1 DEF TypeOK, Fail
<1> QED
  BY <1>1, <1>2, <1>3, LossRelease DEF Fail, TypeOK, DurableInv, Prefix

LEMMA LossDown == ASSUME LossInv, Down, file' \in Seq(Line), Prefix(durable, file'),
                         damaged' \in BOOLEAN, faults' \in Nat
                  PROVE  LossInv'
<1> USE DEF LossInv
<1>1. event' \in [Events -> {"new", "acked", "failed", "lost"}]
  BY DEF Down, TypeOK
<1>2. \A e \in Events : event'[e] = "acked" => event[e] = "acked"
  BY DEF Down, TypeOK
<1>3. /\ writer' = Nobody /\ head' \in Events \cup {Genesis}
      /\ daemon' \in {"up", "down", "refused"} /\ UNCHANGED <<durable, base>>
  BY DEF Down, TypeOK
<1> QED
  BY <1>1, <1>2, <1>3, LossRelease

LEMMA LossOpen == ASSUME LossInv, Open PROVE LossInv'
<1> USE DEF LossInv
<1>1. writer = Nobody
  BY DEF Open, UpInv
<1>2. file # <<>> => Len(file) \in 1..Len(file) /\ file[Len(file)] \in Line
  BY DEF TypeOK
<1>3. LastHash(file) \in Events \cup {Genesis}
  BY <1>2 DEF LastHash, Line
<1>4. head' \in Events \cup {Genesis} /\ daemon' \in {"up", "refused"}
  BY <1>3 DEF Open, TypeOK
<1>5. TypeOK'
  BY <1>4 DEF TypeOK, Open
<1>6. UpInv' /\ LineInv'
  BY <1>1 DEF UpInv, LineInv, Open
<1>7. DurableInv' /\ AckedInv'
  BY DEF DurableInv, Closed, Prefix, AckedInv, Open
<1> QED
  BY <1>5, <1>6, <1>7

LEMMA LossStep == LossInv /\ [Next]_vars => LossInv'
<1> SUFFICES ASSUME LossInv, [Next]_vars PROVE LossInv'
  OBVIOUS
<1>1. TypeOK /\ DurableInv
  BY DEF LossInv
<1>2. ASSUME NEW kind, Disturb(kind) PROVE faults' \in Nat
  BY <1>1, <1>2 DEF Disturb, TypeOK
<1>3. CASE \E e \in Events : Begin(e)
  BY <1>3, LossBegin
<1>4. ASSUME NEW form \in {"torn", "noeol"}, WritePart(form) PROVE LossInv'
  <2>1. event' = [event EXCEPT ![writer] = IF form = "whole" THEN "written" ELSE @]
    BY <1>1, <1>4 DEF WritePart, TypeOK
  <2> QED
    BY <2>1, <1>1, <1>4, LossWrite DEF WritePart, TypeOK
<1>5. CASE WriteAll
  <2>1. event' = [event EXCEPT ![writer] = IF "whole" = "whole" THEN "written" ELSE @]
    BY <1>5 DEF WriteAll
  <2> QED
    BY <2>1, <1>1, <1>5, LossWrite DEF WriteAll, TypeOK
<1>6. CASE Sync
  BY <1>6, LossSync
<1>7. CASE WriteFails
  BY <1>1, <1>2, <1>7, LossFail DEF WriteFails, TypeOK
<1>8. CASE SyncFails
  BY <1>2, <1>8, LossFail DEF SyncFails
<1>9. CASE Kill
  <2>1. file' \in Seq(Line) /\ Prefix(durable, file') /\ damaged' \in BOOLEAN
    BY <1>1, <1>9 DEF Kill, TypeOK, DurableInv
  <2> QED
    BY <1>2, <1>9, <2>1, LossDown DEF Kill
<1>10. CASE PowerLoss
  <2>1. file' \in Seq(Line) /\ Prefix(durable, file')
    BY <1>1, <1>10, CutLines DEF PowerLoss, TypeOK, DurableInv
  <2>2. damaged' \in BOOLEAN
    BY <1>1, <1>10 DEF PowerLoss, TypeOK
  <2> QED
    BY <1>2, <1>10, <2>1, <2>2, LossDown DEF PowerLoss
<1>11. CASE Open
  BY <1>11, LossOpen
<1>12. CASE UNCHANGED vars
  <2> USE <1>12 DEF vars
  <2>1. TypeOK' /\ UpInv'
    BY DEF LossInv, TypeOK, UpInv
  <2>2. DurableInv' /\ AckedInv'
    BY DEF LossInv, DurableInv, Closed, Prefix, AckedInv
  <2>3. LineInv'
    BY DEF LossInv, LineInv, Put
  <2> QED
    BY <2>1, <2>2, <2>3 DEF LossInv
<1> QED
  BY <1>3, <1>4, <1>5, <1>6, <1>7, <1>8, <1>9, <1>10, <1>11, <1>12 DEF Next

(* The log is never silently short: LossInv holds for ever.                *)
THEOREM LossInvariant == Spec => []LossInv
BY LossInit, LossStep, PTL DEF Spec

(* Whatever write or sync fails and whenever the process is killed or      *)
(* power is lost, a log that verify accepts holds every event append has   *)
(* returned for.                                                           *)
THEOREM Durability == Spec => []NoSilentLoss
<1>1. LossInv => NoSilentLoss
  <2> SUFFICES ASSUME LossInv, verify(file), NEW e \in Events, event[e] = "acked"
               PROVE  read_audit_events_for(file, e) # {}
    BY DEF NoSilentLoss
  <2>1. PICK i \in 1..Len(durable) : durable[i].id = e
    BY DEF LossInv, AckedInv
  <2>2. i \in DOMAIN file /\ file[i] = durable[i]
    BY DEF LossInv, DurableInv, Prefix, TypeOK
  <2>3. i \in read_audit_events_for(file, e)
    BY <2>1, <2>2 DEF verify, read_audit_events_for
  <2> QED
    BY <2>3
<1> QED
  BY <1>1, LossInvariant, PTL

-----------------------------------------------------------------------------
(***************************************************************************)
(* Only damage breaks the chain.                                           *)
(***************************************************************************)

(* What a chain begins with is a chain.                                    *)
LEMMA VerifyPrefix ==
    ASSUME NEW f \in Seq(Line), NEW g \in Seq(Line), verify(g),
           Len(f) <= Len(g), \A i \in 1..Len(f) : f[i] = g[i]
    PROVE  verify(f)
<1> SUFFICES ASSUME NEW i \in 1..Len(f) PROVE Parses(f[i]) /\ Linked(f, i)
  BY DEF verify
<1>1. i \in DOMAIN g /\ f[i] = g[i]
  OBVIOUS
<1>2. i # 1 => i - 1 \in 1..Len(f) /\ f[i - 1] = g[i - 1]
  OBVIOUS
<1> QED
  BY <1>1, <1>2 DEF verify, Linked

(* A whole line linked to the last one extends the chain.                  *)
LEMMA VerifyAppend ==
    ASSUME NEW f \in Seq(Line), NEW l \in Line, verify(f), Parses(l), l.prev = LastHash(f)
    PROVE  verify(Append(f, l))
<1> DEFINE g == Append(f, l)
<1>1. g \in Seq(Line) /\ Len(g) = Len(f) + 1 /\ g[Len(f) + 1] = l
      /\ \A i \in 1..Len(f) : g[i] = f[i]
  OBVIOUS
<1> HIDE DEF g
<1>2. ASSUME NEW i \in 1..Len(g) PROVE Parses(g[i]) /\ Linked(g, i)
  <2>1. CASE i \in 1..Len(f)
    <3>1. Parses(f[i]) /\ Linked(f, i) /\ g[i] = f[i]
      BY <1>1, <2>1 DEF verify
    <3>2. i # 1 => i - 1 \in 1..Len(f) /\ g[i - 1] = f[i - 1]
      BY <1>1, <2>1
    <3> QED
      BY <3>1, <3>2 DEF Linked
  <2>2. CASE i = Len(f) + 1
    <3>1. i = 1 => f = <<>>
      BY <2>2
    <3>2. i # 1 => f # <<>> /\ i - 1 = Len(f) /\ g[i - 1] = f[Len(f)]
      BY <1>1, <2>2
    <3> QED
      BY <1>1, <2>2, <3>1, <3>2 DEF Linked, LastHash
  <2> QED
    BY <1>1, <2>1, <2>2
<1> QED
  BY <1>1, <1>2 DEF verify, g

(* While nothing is damaged, what is left of the file is a chain if it     *)
(* ends in a newline.                                                      *)
LEMMA RestVerifies ==
    ASSUME LossInv, ChainInv, ~damaged, NEW f \in Seq(Line), Closed(f),
           Len(f) <= Len(file), \A i \in 1..Len(f) : f[i] = file[i]
    PROVE  verify(f)
<1>1. /\ file \in Seq(Line) /\ base \in Seq(Line) /\ head \in Events \cup {Genesis}
  BY DEF LossInv, TypeOK
<1>2. CASE writer = Nobody
  BY <1>1, <1>2, VerifyPrefix DEF ChainInv, Intact
<1>3. CASE writer # Nobody
  <2>1. Intact(base) /\ head = LastHash(base) /\ writer \in Events
    BY <1>3, WriterEvent DEF ChainInv, LossInv
  <2>2. CASE file = base
    BY <1>1, <2>1, <2>2, VerifyPrefix DEF Intact
  <2>3. ASSUME NEW form \in {"whole", "noeol", "torn"}, file = Put(base, writer, form)
        PROVE  verify(f)
    <3> DEFINE line == [id |-> writer, prev |-> head, form |-> form]
    <3>1. file = Append(base, line)
      BY <2>1, <2>3 DEF Intact, Closed, Put
    <3>2. line \in Line /\ line.form = form /\ line.prev = head
      BY <1>1, <2>1 DEF Line
    <3> HIDE DEF line
    <3>3. Len(file) = Len(base) + 1 /\ file[Len(base) + 1] = line
          /\ \A i \in 1..Len(base) : file[i] = base[i]
      BY <1>1, <3>1, <3>2
    <3>4. CASE form = "whole"
      <4>1. verify(file)
        BY <1>1, <2>1, <3>1, <3>2, <3>4, VerifyAppend DEF Intact, Parses
      <4> QED
        BY <1>1, <4>1, VerifyPrefix
    <3>5. CASE form # "whole"
      <4>1. Len(f) # Len(base) + 1
        <5> SUFFICES ASSUME Len(f) = Len(base) + 1 PROVE FALSE
          OBVIOUS
        <5>1. f # <<>> /\ Len(f) \in 1..Len(f) /\ f[Len(f)] = line
          BY <1>1, <3>3
        <5> QED
          BY <5>1, <3>2, <3>5 DEF Closed, Ends
      <4>2. Len(f) <= Len(base) /\ \A i \in 1..Len(f) : f[i] = base[i]
        BY <1>1, <3>3, <4>1
      <4> QED
        BY <1>1, <2>1, <4>2, VerifyPrefix DEF Intact
    <3> QED
      BY <3>4, <3>5
  <2>4. \/ file = base
        \/ \E form \in {"whole", "noeol", "torn"} : file = Put(base, writer, form)
    BY <1>3, WriterEvent DEF LossInv, LineInv
  <2> QED
    BY <2>2, <2>3, <2>4
<1> QED
  BY <1>2, <1>3

LEMMA ChainStep == LossInv /\ ChainInv /\ [Next]_vars => ChainInv'
<1> SUFFICES ASSUME LossInv, ChainInv, [Next]_vars, ~damaged'
             PROVE  /\ writer' = Nobody => Intact(file')
                    /\ writer' # Nobody => Intact(base') /\ head' = LastHash(base')
                    /\ writer' = Nobody /\ daemon' = "up" => head' = LastHash(file')
  BY DEF ChainInv, Intact, verify, Closed, Linked, LastHash
<1>1. ~damaged
  BY DEF vars, Next, Begin, WritePart, WriteAll, Sync, WriteFails, SyncFails, Kill,
         PowerLoss, Open, LossInv, TypeOK
<1>2. /\ file \in Seq(Line) /\ base \in Seq(Line) /\ head \in Events \cup {Genesis}
  BY DEF LossInv, TypeOK
<1>3. CASE \E e \in Events : Begin(e)
  BY <1>1, <1>3, AuditAssumption DEF ChainInv, Begin
<1>4. CASE \E form \in {"torn", "noeol"} : WritePart(form)
  BY <1>1, <1>4 DEF ChainInv, WritePart
<1>5. CASE WriteAll
  BY <1>1, <1>5 DEF ChainInv, WriteAll
<1>6. CASE Sync
  <2>2. file # <<>> /\ LastHash(file) = writer /\ Closed(file)
    BY <1>6, WrittenLine DEF Sync
  <2>4. verify(file)
    BY <1>1, <1>2, <2>2, RestVerifies
  <2> QED
    BY <1>6, <2>2, <2>4 DEF Sync, Intact
<1>7. CASE WriteFails
  <2>1. file = base /\ file' = file /\ writer' = Nobody /\ head' = head /\ writer # Nobody
    BY <1>7 DEF WriteFails, Fail
  <2> QED
    BY <1>1, <2>1 DEF ChainInv
<1>8. CASE SyncFails
  BY <1>8 DEF SyncFails
<1>9. CASE Kill
  <2>1. Closed(file) /\ file' = file /\ writer' = Nobody /\ daemon' = "down"
    BY <1>9 DEF Kill, Down, Closed
  <2>2. verify(file)
    BY <1>1, <1>2, <2>1, RestVerifies
  <2> QED
    BY <2>1, <2>2 DEF Intact
<1>10. CASE PowerLoss
  <2>1. file' \in Cuts /\ writer' = Nobody /\ daemon' = "down" /\ Closed(file')
    BY <1>10 DEF PowerLoss, Down, Closed
  <2>2. durable \in Seq(Line) /\ Prefix(durable, file)
    BY DEF LossInv, TypeOK, DurableInv
  <2>3. /\ file' \in Seq(Line) /\ Len(file') <= Len(file)
        /\ \A i \in 1..Len(file') : file'[i] = file[i]
    BY <1>2, <2>1, <2>2, CutLines
  <2>4. verify(file')
    BY <1>1, <2>1, <2>3, RestVerifies
  <2> QED
    BY <2>1, <2>4 DEF Intact
<1>11. CASE Open
  <2>1. writer = Nobody /\ writer' = writer /\ file' = file
    BY <1>11 DEF Open, LossInv, UpInv
  <2>2. Intact(file)
    BY <1>1, <2>1 DEF ChainInv
  <2> QED
    BY <1>11, <2>1, <2>2 DEF Open
<1>12. CASE UNCHANGED vars
  BY <1>1, <1>12 DEF vars, ChainInv
<1> QED
  BY <1>3, <1>4, <1>5, <1>6, <1>7, <1>8, <1>9, <1>10, <1>11, <1>12 DEF Next

(* The chain breaks only where a fault cut a line short or failed a sync:  *)
(* otherwise it verifies between appends, and the head that the next line  *)
(* is linked to is the hash of the last one.                               *)
THEOREM OnlyDamageBreaks == Spec => []IntactUnlessDamaged
<1>1. Init => ChainInv
  BY DEF Init, ChainInv, Intact, verify, Closed, LastHash
<1>2. ChainInv => IntactUnlessDamaged
  BY DEF ChainInv, Intact, IntactUnlessDamaged
<1> QED
  BY <1>1, <1>2, ChainStep, LossInvariant, PTL DEF Spec
=============================================================================
