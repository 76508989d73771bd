--------------------------- MODULE AdmissionProofs ---------------------------
(***************************************************************************)
(* Proofs about Admission, for any cells, grants, connections, ceilings    *)
(* and depths, and any number of calls and restarts.                       *)
(***************************************************************************)
EXTENDS Admission, Integers, FiniteSetTheorems, WellFoundedInduction, TLAPS

-----------------------------------------------------------------------------
(***************************************************************************)
(* Numbers.                                                                *)
(***************************************************************************)

(* Every set of numbers has a least one: of the intervals 1..x one is      *)
(* minimal, since strict inclusion of finite sets is well founded.         *)
LEMMA LeastNumber ==
  ASSUME NEW T \in SUBSET Nat, T # {}
  PROVE  \E x \in T : \A y \in T : x <= y
<1> DEFINE F == {1..x : x \in T}
<1>1. F \subseteq FiniteSubsetsOf(Nat)
  <2>1. \A x \in T : IsFiniteSet(1..x) BY FS_Interval
  <2> QED BY <2>1 DEF FiniteSubsetsOf
<1>2. F # {} OBVIOUS
<1>3. IsWellFoundedOn(StrictSubsetOrdering(Nat), FiniteSubsetsOf(Nat))
  BY FS_StrictSubsetOrderingWellFounded
<1> HIDE DEF F
<1>4. \E M \in F : \A N \in F : ~(<<N, M>> \in StrictSubsetOrdering(Nat))
  BY <1>1, <1>2, <1>3, WFMin
<1>5. PICK x \in T : \A y \in T : <<1..y, 1..x>> \notin StrictSubsetOrdering(Nat)
  BY <1>4 DEF F
<1>6. ASSUME NEW y \in T PROVE x <= y
  <2>1. x \in Nat /\ y \in Nat OBVIOUS
  <2>2. ~(1..y \subseteq 1..x /\ 1..y # 1..x)
    <3> DEFINE Y == 1..y  X == 1..x
    <3>1. Y \in SUBSET Nat /\ X \in SUBSET Nat BY <2>1
    <3>2. <<Y, X>> \notin StrictSubsetOrdering(Nat) BY <1>5
    <3> HIDE DEF Y, X
    <3>3. ~(Y \subseteq X /\ Y # X) BY <3>1, <3>2, Zenon DEF StrictSubsetOrdering
    <3> QED BY <3>3 DEF X, Y
  <2>3. CASE y < x
    <3>1. 1..y \subseteq 1..x BY <2>1, <2>3
    <3>2. x \in 1..x /\ x \notin 1..y BY <2>1, <2>3
    <3> QED BY <2>2, <3>1, <3>2
  <2> QED BY <2>1, <2>3
<1> QED BY <1>6

(* ... and every bounded one has a greatest. *)
LEMMA GreatestNumber ==
  ASSUME NEW b \in Nat, NEW T \in SUBSET (0..b), T # {}
  PROVE  \E x \in T : \A y \in T : y <= x
<1> DEFINE U == {b - x : x \in T}
<1>1. U \in SUBSET Nat /\ U # {}
  <2>1. \A x \in T : b - x \in Nat OBVIOUS
  <2> QED BY <2>1
<1>2. PICK u \in U : \A v \in U : u <= v
  <2> HIDE DEF U
  <2> QED BY <1>1, LeastNumber
<1>3. PICK x \in T : u = b - x OBVIOUS
<1>4. \A y \in T : b - x <= b - y BY <1>2, <1>3
<1> QED BY <1>4

-----------------------------------------------------------------------------
(***************************************************************************)
(* The inductive invariant.                                                *)
(***************************************************************************)

(* The clock was read before now. *)
StampInv == \A c \in Conns : task[c] # Idle => task[c].stamp <= clock

(* The deque of the sender is what was counted, but for a prefix that is   *)
(* out of the window for good.                                             *)
Forgotten(k) ==
    /\ Len(window["sender"]) = Len(noted) - k
    /\ \A i \in 1..Len(window["sender"]) : window["sender"][i] = noted[k + i]
    /\ \A i \in 1..k : noted[i] + Window <= clock

WindowInv == \E k \in 0..Len(noted) : Forgotten(k)

(* The calls between the depth check of r and their row, and those between *)
(* the check of pending asks and theirs.                                   *)
Past(r) ==
    {c \in Conns : /\ task[c].at \notin {"idle", "depth"}
                   /\ task[c].call.kind # "broadcast" /\ task[c].call.to = r}
Asking == {c \in Conns : task[c].at = "insert" /\ task[c].call.kind = "ask"}

(* Rows there and rows to come. *)
CapInv ==
    /\ \A r \in Registered :
          direct[r] + Cardinality(Past(r)) <= QueueDepth + Cardinality(Conns) - 1
    /\ open + Cardinality(Asking) <= PendingCap + Cardinality(Conns) - 1

IInv == TypeOK /\ StampInv /\ WindowInv /\ CapInv

LEMMA Numbers ==
  /\ MaxTime \in Nat /\ Window \in Nat /\ QueueDepth \in Nat \ {0} /\ PendingCap \in Nat \ {0}
  /\ Ceiling["sender"] \in Nat /\ IsFiniteSet(Conns)
  /\ Cardinality(Conns) \in Nat \ {0}
<1>1. Cardinality(Conns) \in Nat /\ Cardinality(Conns) # 0
  BY AdmissionAssumption, FS_CardinalityType, FS_EmptySet
<1> QED BY <1>1, AdmissionAssumption DEF Axes

-----------------------------------------------------------------------------
(***************************************************************************)
(* The deque.                                                              *)
(***************************************************************************)

Stamp == 0..MaxTime

(* prune drops a prefix, every stamp of which is out of the window. *)
LEMMA PruneIs ==
  ASSUME NEW s \in Seq(Stamp), NEW now \in Stamp
  PROVE  \E n \in 0..Len(s) : /\ \A i \in 1..n : now >= s[i] + Window
                              /\ prune(s, now) \in Seq(Stamp)
                              /\ Len(prune(s, now)) = Len(s) - n
                              /\ \A i \in 1..Len(prune(s, now)) : prune(s, now)[i] = s[n + i]
<1>1. Stale(s, now) \in SUBSET (0..Len(s)) /\ 0 \in Stale(s, now) /\ Len(s) \in Nat
  <2>1. Len(s) \in Nat OBVIOUS
  <2>2. 0 \in 0..Len(s) BY <2>1
  <2>3. \A i \in 1..0 : now >= s[i] + Window OBVIOUS
  <2>4. 0 \in Stale(s, now) BY <2>2, <2>3 DEF Stale
  <2>5. Stale(s, now) \subseteq 0..Len(s) BY DEF Stale
  <2> QED BY <2>1, <2>4, <2>5
<1>2. \E n \in Stale(s, now) : \A m \in Stale(s, now) : m <= n BY <1>1, GreatestNumber
<1>3. PICK n \in Stale(s, now) : prune(s, now) = SubSeq(s, n + 1, Len(s)) BY <1>2 DEF prune
<1>4. n \in 0..Len(s) /\ \A i \in 1..n : now >= s[i] + Window BY DEF Stale
<1>5. /\ SubSeq(s, n + 1, Len(s)) \in Seq(Stamp)
      /\ Len(SubSeq(s, n + 1, Len(s))) = Len(s) - n
      /\ \A i \in 1..(Len(s) - n) : SubSeq(s, n + 1, Len(s))[i] = s[n + i]
  BY <1>1, <1>4
<1> QED BY <1>3, <1>4, <1>5

LEMMA UnitsNat == ASSUME NEW k PROVE Units(k) \in Nat
<1>1. IsFiniteSet(recipients_for_broadcast)
  BY AdmissionAssumption, FS_Subset DEF recipients_for_broadcast
<1> QED BY <1>1, FS_CardinalityType DEF Units

LEMMA StampsIs ==
  ASSUME NEW t \in Stamp, NEW u \in Nat
  PROVE  Stamps(t, u) \in Seq(Stamp) /\ Len(Stamps(t, u)) = u
  BY DEF Stamps

LEMMA ConcatLen ==
  ASSUME NEW S, NEW u \in Seq(S), NEW v \in Seq(S)
  PROVE  Len(u \o v) = Len(u) + Len(v)
  OBVIOUS

(* The same units go to the end of the deque and of the history. *)
LEMMA BothGrow ==
  ASSUME NEW w \in Seq(Stamp), NEW h \in Seq(Stamp), NEW x \in Seq(Stamp), NEW k \in 0..Len(h),
         Len(w) = Len(h) - k, \A i \in 1..Len(w) : w[i] = h[k + i]
  PROVE  /\ Len(w \o x) = Len(h \o x) - k
         /\ \A i \in 1..Len(w \o x) : (w \o x)[i] = (h \o x)[k + i]
         /\ \A i \in 1..k : (h \o x)[i] = h[i]
<1>1. Len(w) \in Nat /\ Len(h) \in Nat /\ Len(x) \in Nat OBVIOUS
<1>2. Len(w \o x) = Len(w) + Len(x) /\ Len(h \o x) = Len(h) + Len(x)
  BY ConcatLen
<1>3. ASSUME NEW i \in 1..Len(w \o x) PROVE (w \o x)[i] = (h \o x)[k + i]
  <2>1. CASE i <= Len(w)
    <3>1. i \in 1..Len(w) /\ k + i \in 1..Len(h) BY <1>1, <1>2, <2>1
    <3>2. (w \o x)[i] = w[i] /\ (h \o x)[k + i] = h[k + i] BY <3>1
    <3> QED BY <3>1, <3>2
  <2>2. CASE i > Len(w)
    <3>1. (w \o x)[i] = x[i - Len(w)] BY <1>1, <1>2, <2>2
    <3>2. (h \o x)[k + i] = x[k + i - Len(h)] BY <1>1, <1>2, <2>2
    <3>3. k + i - Len(h) = i - Len(w) BY <1>1, <1>2
    <3> QED BY <3>1, <3>2, <3>3
  <2> QED BY <1>1, <1>2, <2>1, <2>2
<1>4. \A i \in 1..k : (h \o x)[i] = h[i] BY <1>1
<1> QED BY <1>1, <1>2, <1>3, <1>4

-----------------------------------------------------------------------------
(***************************************************************************)
(* The handlers' places.                                                   *)
(***************************************************************************)

Steps == {"depth", "clock", "sender", "capability", "pending", "insert"}

LEMMA TaskIs ==
  ASSUME TypeOK, NEW c \in Conns
  PROVE  \/ task[c] = Idle /\ task[c].at = "idle"
         \/ /\ task[c] \in Task /\ task[c] # Idle /\ task[c].at \in Steps
            /\ task[c].call \in Calls /\ task[c].stamp \in Stamp
<1>1. task[c] \in Task \cup {Idle} BY DEF TypeOK
<1>2. Idle.at = "idle" BY DEF Idle
<1>3. \A t \in Task : t.at \in Steps /\ t.call \in Calls /\ t.stamp \in Stamp
  BY DEF Task, Steps, Stamp
<1>4. "idle" \notin Steps BY DEF Steps
<1> QED BY <1>1, <1>2, <1>3, <1>4

(* The rest of what concerns the other connections. *)
Others(c) == task' \in [Conns -> Task \cup {Idle}] /\ \A e \in Conns \ {c} : task'[e] = task[e]

LEMMA FieldsIs ==
  ASSUME NEW r \in Task, NEW step \in Steps, NEW t \in Stamp
  PROVE  /\ [r EXCEPT !.at = step] \in Task /\ [r EXCEPT !.at = step].at = step
         /\ [r EXCEPT !.at = step].call = r.call /\ [r EXCEPT !.at = step].stamp = r.stamp
         /\ [r EXCEPT !.at = step, !.stamp = t] \in Task
         /\ [r EXCEPT !.at = step, !.stamp = t].at = step
         /\ [r EXCEPT !.at = step, !.stamp = t].call = r.call
         /\ [r EXCEPT !.at = step, !.stamp = t].stamp = t
<1> USE DEF Task, Steps, Stamp
<1>1. [r EXCEPT !.at = step] \in Task /\ [r EXCEPT !.at = step, !.stamp = t] \in Task OBVIOUS
<1>2. /\ [r EXCEPT !.at = step].at = step /\ [r EXCEPT !.at = step].call = r.call
      /\ [r EXCEPT !.at = step].stamp = r.stamp
  OBVIOUS
<1>3. /\ [r EXCEPT !.at = step, !.stamp = t].at = step
      /\ [r EXCEPT !.at = step, !.stamp = t].call = r.call
      /\ [r EXCEPT !.at = step, !.stamp = t].stamp = t
  OBVIOUS
<1> QED BY <1>1, <1>2, <1>3

LEMMA MoveIs ==
  ASSUME TypeOK, NEW c \in Conns, NEW r \in Task, task' = [task EXCEPT ![c] = r]
  PROVE  Others(c) /\ task'[c] = r /\ task'[c] # Idle
<1>1. r # Idle
  <2>1. Idle.at = "idle" /\ "idle" \notin Steps BY DEF Idle, Steps
  <2>2. r.at \in Steps BY DEF Task, Steps
  <2> QED BY <2>1, <2>2
<1> QED BY <1>1 DEF Others, TypeOK

LEMMA GotoIs ==
  ASSUME TypeOK, NEW c \in Conns, task[c] \in Task, NEW step \in Steps, Goto(c, step)
  PROVE  /\ Others(c) /\ task'[c] # Idle /\ task'[c].at = step
         /\ task'[c].call = task[c].call /\ task'[c].stamp = task[c].stamp
<1> DEFINE r == [task[c] EXCEPT !.at = step]
<1>1. 0 \in Stamp BY Numbers DEF Stamp
<1>2. r \in Task /\ r.at = step /\ r.call = task[c].call /\ r.stamp = task[c].stamp
  BY <1>1, FieldsIs
<1>3. task' = [task EXCEPT ![c] = r] BY DEF Goto
<1> HIDE DEF r
<1> QED BY <1>2, <1>3, MoveIs

LEMMA ReturnIs ==
  ASSUME TypeOK, NEW c \in Conns, Return(c)
  PROVE  Others(c) /\ task'[c] = Idle /\ task'[c].at = "idle"
  BY DEF Return, TypeOK, Others, Idle

-----------------------------------------------------------------------------
(***************************************************************************)
(* What most steps keep.                                                   *)
(***************************************************************************)

LEMMA StampedNat ==
  ASSUME NEW h \in Seq(Stamp)
  PROVE  Len(h) \in Nat /\ \A i \in 1..Len(h) : h[i] \in Nat /\ h[i] \in Stamp
<1>1. Len(h) \in Nat /\ \A i \in 1..Len(h) : h[i] \in Stamp OBVIOUS
<1>2. Stamp \subseteq Nat BY Numbers DEF Stamp
<1> QED BY <1>1, <1>2

LEMMA WindowKept ==
  ASSUME TypeOK, WindowInv, clock' \in Nat, clock <= clock',
         window'["sender"] = window["sender"], noted' = noted
  PROVE  WindowInv'
<1>1. PICK k \in 0..Len(noted) : Forgotten(k) BY DEF WindowInv
<1>2. /\ Len(noted) \in Nat /\ clock \in Nat
      /\ \A i \in 1..Len(noted) : noted[i] \in Nat
  BY StampedNat, Numbers DEF TypeOK, Stamp
<1>3. ASSUME NEW i \in 1..k PROVE noted[i] + Window <= clock'
  <2>1. i \in 1..Len(noted) BY <1>2
  <2>2. noted[i] \in Nat /\ noted[i] + Window <= clock BY <1>1, <1>2, <2>1 DEF Forgotten
  <2> QED BY <1>2, <2>2, Numbers
<1>4. Forgotten(k)' BY <1>1, <1>3 DEF Forgotten
<1> QED BY <1>4 DEF WindowInv

LEMMA CapKept ==
  ASSUME TypeOK, TypeOK', CapInv, open' <= open, Asking' \subseteq Asking,
         \A r \in Registered : direct'[r] <= direct[r] /\ Past(r)' \subseteq Past(r)
  PROVE  CapInv'
<1> USE Numbers
<1>1. \A S \in SUBSET Conns : Cardinality(S) \in Nat BY FS_Subset, FS_CardinalityType
<1>2. \A S \in SUBSET Conns : \A T \in SUBSET S : Cardinality(T) <= Cardinality(S)
  BY FS_Subset
<1>3. Asking \subseteq Conns /\ Asking' \subseteq Conns BY DEF Asking
<1>4. open' + Cardinality(Asking') <= PendingCap + Cardinality(Conns) - 1
  <2>1. Cardinality(Asking') <= Cardinality(Asking) /\ Cardinality(Asking) \in Nat
        /\ Cardinality(Asking') \in Nat
    BY <1>1, <1>2, <1>3
  <2>2. open \in Nat /\ open' \in Nat BY DEF TypeOK
  <2> QED BY <2>1, <2>2 DEF CapInv
<1>5. ASSUME NEW r \in Registered
      PROVE  direct'[r] + Cardinality(Past(r)') <= QueueDepth + Cardinality(Conns) - 1
  <2>1. Past(r) \subseteq Conns /\ Past(r)' \subseteq Past(r) BY DEF Past
  <2>2. Cardinality(Past(r)') <= Cardinality(Past(r)) /\ Cardinality(Past(r)) \in Nat
        /\ Cardinality(Past(r)') \in Nat
    BY <1>1, <1>2, <2>1
  <2>3. direct[r] \in Nat /\ direct'[r] \in Nat /\ direct'[r] <= direct[r] BY DEF TypeOK
  <2> QED BY <2>2, <2>3 DEF CapInv
<1> QED BY <1>4, <1>5 DEF CapInv

LEMMA CapKeptRows ==
  ASSUME TypeOK, TypeOK', CapInv, UNCHANGED rows, Asking' \subseteq Asking,
         \A r \in Registered : Past(r)' \subseteq Past(r)
  PROVE  CapInv'
<1>1. open' = open /\ direct' = direct BY DEF rows
<1>2. open \in Nat /\ \A r \in Registered : direct[r] \in Nat BY DEF TypeOK
<1>3. open' <= open /\ \A r \in Registered : direct'[r] <= direct[r] BY <1>1, <1>2
<1> QED BY <1>3, CapKept

(* A call that is not counted as under way later than it was before. *)
LEMMA SetsShrink ==
  ASSUME TypeOK, NEW c \in Conns, Others(c),
         \/ task'[c].at \in {"idle", "depth"}
         \/ task'[c].at # "idle" /\ task'[c].call.kind = "broadcast"
         \/ task[c].at \notin {"idle", "depth"} /\ task'[c].call = task[c].call,
         task'[c].at = "insert" => task'[c].call.kind # "ask"
  PROVE  Asking' \subseteq Asking /\ \A r \in Registered : Past(r)' \subseteq Past(r)
  BY DEF Others, Asking, Past

LEMMA StampKept ==
  ASSUME TypeOK, StampInv, clock' \in Nat, clock <= clock', NEW c \in Conns, Others(c),
         task'[c] = Idle \/ task'[c].stamp <= clock \/ (task[c] # Idle /\ task'[c].stamp = task[c].stamp),
         task'[c] # Idle => task'[c].stamp \in Nat
  PROVE  StampInv'
<1>1. ASSUME NEW e \in Conns, task'[e] # Idle PROVE task'[e].stamp <= clock'
  <2>1. clock \in Nat BY Numbers DEF TypeOK
  <2>2. task[e] # Idle => task[e].stamp \in Nat /\ task[e].stamp <= clock
    BY TaskIs, Numbers DEF StampInv, Stamp
  <2>3. task'[e].stamp \in Nat
    <3>1. CASE e = c BY <1>1, <3>1
    <3>2. CASE e # c BY <1>1, <2>2, <3>2 DEF Others
    <3> QED BY <3>1, <3>2
  <2>4. task'[e].stamp <= clock
    <3>1. CASE e = c BY <1>1, <2>2, <3>1
    <3>2. CASE e # c BY <1>1, <2>2, <3>2 DEF Others
    <3> QED BY <3>1, <3>2
  <2> QED BY <2>1, <2>3, <2>4
<1> QED BY <1>1 DEF StampInv

-----------------------------------------------------------------------------
(***************************************************************************)
(* The steps.                                                              *)
(***************************************************************************)

LEMMA InitIInv == ASSUME Init PROVE IInv
<1> USE Numbers DEF Init
<1>1. TypeOK
  <2>1. window \in [Axes -> Seq(0..MaxTime)] /\ window["sender"] = <<>> BY DEF Axes
  <2>2. task \in [Conns -> Task \cup {Idle}] OBVIOUS
  <2>3. Len(window["sender"]) <= Ceiling["sender"] BY <2>1
  <2> QED BY <2>1, <2>2, <2>3 DEF TypeOK
<1>2. StampInv BY DEF StampInv
<1>3. WindowInv
  <2>1. window["sender"] = <<>> BY DEF Axes
  <2>2. Forgotten(0) BY <2>1 DEF Forgotten
  <2> QED BY <2>2 DEF WindowInv
<1>4. CapInv
  <2>1. Asking = {} /\ \A r \in Registered : Past(r) = {} BY DEF Asking, Past, Idle
  <2>2. Cardinality({}) = 0 BY FS_EmptySet
  <2>3. 0 <= QueueDepth + Cardinality(Conns) - 1 /\ 0 <= PendingCap + Cardinality(Conns) - 1
    OBVIOUS
  <2>4. open = 0 /\ Cardinality(Asking) = 0 BY <2>1, <2>2
  <2>5. ASSUME NEW r \in Registered PROVE direct[r] = 0 /\ Cardinality(Past(r)) = 0
    <3>1. Past(r) = {} BY <2>1
    <3> QED BY <2>2, <3>1
  <2> QED BY <2>3, <2>4, <2>5 DEF CapInv
<1> QED BY <1>1, <1>2, <1>3, <1>4 DEF IInv

LEMMA SubmitIInv == ASSUME IInv, NEW c \in Conns, Submit(c) PROVE IInv'
<1> USE DEF IInv
<1>1. /\ At(c, "idle") /\ made' \in [Conns -> Nat]
      /\ UNCHANGED <<clock, window, rows, restarts, noted>>
  BY DEF Submit, TypeOK
<1>2. UNCHANGED task
      \/ \E k \in Calls : task' = [task EXCEPT ![c] =
             [at |-> IF k.kind = "broadcast" THEN "clock" ELSE "depth", call |-> k, stamp |-> 0]]
  BY DEF Submit
<1>3. clock \in Nat BY Numbers DEF TypeOK
<1>4. WindowInv' BY <1>1, <1>3, WindowKept
<1>5. CASE UNCHANGED task
  <2>1. TypeOK' BY <1>1, <1>5 DEF TypeOK, rows
  <2>2. Asking' = Asking /\ \A r \in Registered : Past(r)' = Past(r)
    BY <1>5 DEF Asking, Past
  <2>3. CapInv' BY <1>1, <2>2 DEF CapInv, rows
  <2>4. StampInv' BY <1>1, <1>5 DEF StampInv
  <2> QED BY <1>4, <2>1, <2>3, <2>4
<1>6. CASE ~UNCHANGED task
  <2>1. PICK k \in Calls : task' = [task EXCEPT ![c] =
             [at |-> IF k.kind = "broadcast" THEN "clock" ELSE "depth", call |-> k, stamp |-> 0]]
    BY <1>2, <1>6
  <2> DEFINE r == [at |-> IF k.kind = "broadcast" THEN "clock" ELSE "depth",
                   call |-> k, stamp |-> 0]
  <2>2. /\ r \in Task /\ r.stamp = 0 /\ r.call = k
        /\ r.at = IF k.kind = "broadcast" THEN "clock" ELSE "depth"
    BY Numbers DEF Task
  <2>3. task' = [task EXCEPT ![c] = r] BY <2>1
  <2> HIDE DEF r
  <2>4. Others(c) /\ task'[c] = r /\ task'[c] # Idle BY <2>2, <2>3, MoveIs
  <2>5. TypeOK' BY <1>1, <2>4 DEF TypeOK, Others, rows
  <2>6. StampInv' BY <1>1, <1>3, <2>2, <2>4, StampKept
  <2>7. Asking' \subseteq Asking /\ \A q \in Registered : Past(q)' \subseteq Past(q)
    BY <2>2, <2>4, SetsShrink
  <2>8. CapInv' BY <1>1, <2>5, <2>7, CapKeptRows
  <2> QED BY <1>4, <2>5, <2>6, <2>8
<1> QED BY <1>5, <1>6

(* A check of the depth lets one more call under way, and then the rows    *)
(* there were fewer than QueueDepth.                                       *)
LEMMA DepthIInv == ASSUME IInv, NEW c \in Conns, CheckDepth(c) PROVE IInv'
<1> USE DEF IInv
<1>1. At(c, "depth") /\ UNCHANGED <<clock, window, rows, made, restarts, noted>> BY DEF CheckDepth
<1>2. clock \in Nat BY Numbers DEF TypeOK
<1>3. WindowInv' BY <1>1, <1>2, WindowKept
<1>4. task[c] \in Task /\ task[c] # Idle /\ task[c].at = "depth" /\ task[c].stamp \in Nat
  <2>1. task[c].at # "idle" BY <1>1 DEF At
  <2> QED BY <1>1, <2>1, TaskIs, Numbers DEF At, Stamp
<1>5. CASE Return(c)
  <2>1. Others(c) /\ task'[c] = Idle /\ task'[c].at = "idle" BY <1>5, ReturnIs
  <2>2. TypeOK' BY <1>1, <2>1 DEF TypeOK, Others, rows
  <2>3. StampInv' BY <1>1, <1>2, <2>1, StampKept
  <2>4. Asking' \subseteq Asking /\ \A q \in Registered : Past(q)' \subseteq Past(q)
    BY <2>1, SetsShrink
  <2> QED BY <1>1, <1>3, <2>2, <2>3, <2>4, CapKeptRows
<1>6. CASE DepthAdmits(task[c].call.to) /\ Goto(c, "clock")
  <2> DEFINE to == task[c].call.to
  <2>1. /\ Others(c) /\ task'[c] # Idle /\ task'[c].at = "clock"
        /\ task'[c].call = task[c].call /\ task'[c].stamp = task[c].stamp
    BY <1>4, <1>6, GotoIs DEF Steps
  <2>2. TypeOK' BY <1>1, <2>1 DEF TypeOK, Others, rows
  <2>3. StampInv' BY <1>1, <1>2, <1>4, <2>1, StampKept
  <2>4. Asking' \subseteq Asking BY <2>1 DEF Others, Asking
  <2>5. open' + Cardinality(Asking') <= PendingCap + Cardinality(Conns) - 1
    <3>1. Asking' = Asking BY <1>4, <2>1 DEF Others, Asking
    <3> QED BY <1>1, <3>1 DEF CapInv, rows
  <2>6. ASSUME NEW r \in Registered
        PROVE  direct'[r] + Cardinality(Past(r)') <= QueueDepth + Cardinality(Conns) - 1
    <3>1. CASE r # to
      <4>1. Past(r)' = Past(r) BY <1>4, <2>1, <3>1 DEF Others, Past
      <4> QED BY <1>1, <4>1 DEF CapInv, rows
    <3>2. CASE r = to
      <4>1. direct[r] \in Nat /\ fanned[r] \in Nat BY DEF TypeOK
      <4>2. direct[r] + fanned[r] < QueueDepth BY <1>6, <3>2 DEF DepthAdmits
      <4>3. direct'[r] = direct[r] BY <1>1 DEF rows
      <4>4. Past(r)' \subseteq Conns BY DEF Past
      <4>5. Cardinality(Past(r)') <= Cardinality(Conns) /\ Cardinality(Past(r)') \in Nat
        BY <4>4, Numbers, FS_Subset, FS_CardinalityType
      <4> QED BY <4>1, <4>2, <4>3, <4>5, Numbers
    <3> QED BY <3>1, <3>2
  <2>7. CapInv' BY <2>5, <2>6 DEF CapInv
  <2> QED BY <1>3, <2>2, <2>3, <2>7
<1> QED BY <1>5, <1>6 DEF CheckDepth

LEMMA ClockIInv == ASSUME IInv, NEW c \in Conns, ReadClock(c) PROVE IInv'
<1> USE DEF IInv
<1>1. At(c, "clock") /\ UNCHANGED <<clock, window, rows, made, restarts, noted>> BY DEF ReadClock
<1>2. clock \in Nat /\ clock \in Stamp BY Numbers DEF TypeOK, Stamp
<1>3. WindowInv' BY <1>1, <1>2, WindowKept
<1>4. task[c] \in Task /\ task[c].at = "clock"
  <2>1. task[c].at # "idle" BY <1>1 DEF At
  <2> QED BY <1>1, <2>1, TaskIs DEF At
<1> DEFINE r == [task[c] EXCEPT !.at = "sender", !.stamp = clock]
<1>5. r \in Task /\ r.at = "sender" /\ r.call = task[c].call /\ r.stamp = clock
  <2>1. \A q \in Task, t \in Stamp :
           LET e == [q EXCEPT !.at = "sender", !.stamp = t]
           IN  e \in Task /\ e.at = "sender" /\ e.call = q.call /\ e.stamp = t
    BY DEF Task, Stamp
  <2> QED BY <1>2, <1>4, <2>1
<1>6. task' = [task EXCEPT ![c] = r] BY DEF ReadClock
<1> HIDE DEF r
<1>7. Others(c) /\ task'[c] = r /\ task'[c] # Idle BY <1>5, <1>6, MoveIs
<1>8. TypeOK' BY <1>1, <1>7 DEF TypeOK, Others, rows
<1>9. StampInv' BY <1>1, <1>2, <1>5, <1>7, StampKept
<1>10. Asking' \subseteq Asking /\ \A q \in Registered : Past(q)' \subseteq Past(q)
  BY <1>4, <1>5, <1>7, SetsShrink
<1> QED BY <1>1, <1>3, <1>8, <1>9, <1>10, CapKeptRows

LEMMA BusyIs ==
  ASSUME TypeOK, StampInv, NEW c \in Conns, NEW step \in Steps, At(c, step)
  PROVE  /\ task[c] \in Task /\ task[c] # Idle /\ task[c].at = step /\ task[c].call \in Calls
         /\ task[c].stamp \in Stamp /\ task[c].stamp \in Nat /\ clock \in Nat
         /\ task[c].stamp <= clock
<1>1. task[c].at # "idle" BY DEF At, Steps
<1>2. clock \in Nat /\ Stamp \subseteq Nat BY Numbers DEF TypeOK, Stamp
<1> QED BY <1>1, <1>2, TaskIs DEF At, StampInv

(* The stamps prune drops are out of the window at the time that was read, *)
(* and so now.                                                             *)
LEMMA PrunedForgets ==
  ASSUME TypeOK, WindowInv, NEW now \in Stamp, now <= clock
  PROVE  LET s == prune(window["sender"], now) IN
         /\ s \in Seq(Stamp) /\ Len(s) <= Ceiling["sender"]
         /\ \E k \in 0..Len(noted) :
               /\ Len(s) = Len(noted) - k
               /\ \A i \in 1..Len(s) : s[i] = noted[k + i]
               /\ \A i \in 1..k : noted[i] + Window <= clock
<1> DEFINE w == window["sender"]  s == prune(w, now)
<1>1. w \in Seq(Stamp) /\ Len(w) <= Ceiling["sender"] /\ noted \in Seq(Stamp)
  BY DEF TypeOK, Stamp, Axes
<1>2. Len(w) \in Nat /\ Len(noted) \in Nat /\ \A i \in 1..Len(w) : w[i] \in Nat
  BY <1>1, StampedNat
<1>3. PICK k \in 0..Len(noted) : Forgotten(k) BY DEF WindowInv
<1>4. /\ Len(w) = Len(noted) - k /\ \A i \in 1..Len(w) : w[i] = noted[k + i]
      /\ \A i \in 1..k : noted[i] + Window <= clock
  BY <1>3 DEF Forgotten
<1>5. PICK n \in 0..Len(w) : /\ \A i \in 1..n : now >= w[i] + Window
                            /\ s \in Seq(Stamp)
                            /\ Len(s) = Len(w) - n
                            /\ \A i \in 1..Len(s) : s[i] = w[n + i]
  BY <1>1, PruneIs
<1>6. clock \in Nat /\ now \in Nat BY Numbers DEF TypeOK, Stamp
<1> HIDE DEF w, s
<1>7. k + n \in 0..Len(noted) /\ Len(s) = Len(noted) - (k + n) BY <1>2, <1>4, <1>5
<1>8. Len(s) <= Ceiling["sender"] BY <1>1, <1>2, <1>5, Numbers
<1>9. ASSUME NEW i \in 1..Len(s) PROVE s[i] = noted[(k + n) + i]
  <2>1. n + i \in 1..Len(w) BY <1>2, <1>5
  <2>2. s[i] = w[n + i] /\ w[n + i] = noted[k + (n + i)] BY <1>4, <1>5, <2>1
  <2>3. k + (n + i) = (k + n) + i BY <1>2, <1>5
  <2> QED BY <2>2, <2>3
<1>10. ASSUME NEW i \in 1..(k + n) PROVE noted[i] + Window <= clock
  <2>1. CASE i <= k BY <1>4, <2>1
  <2>2. CASE i > k
    <3>1. i - k \in 1..n /\ i - k \in 1..Len(w) /\ k + (i - k) = i BY <1>2, <2>2
    <3>2. w[i - k] = noted[i] BY <1>4, <3>1
    <3>3. w[i - k] \in Nat /\ now >= w[i - k] + Window BY <1>2, <1>5, <3>1
    <3> QED BY <1>6, <3>2, <3>3, Numbers
  <2> QED BY <1>2, <2>1, <2>2
<1>11. \E j \in 0..Len(noted) :
         /\ Len(s) = Len(noted) - j
         /\ \A i \in 1..Len(s) : s[i] = noted[j + i]
         /\ \A i \in 1..j : noted[i] + Window <= clock
  BY <1>7, <1>9, <1>10
<1>12. s \in Seq(Stamp) BY <1>5
<1> QED BY <1>8, <1>11, <1>12 DEF s, w

LEMMA SenderIInv == ASSUME IInv, NEW c \in Conns, note_and_check_sender(c) PROVE IInv'
<1> USE DEF IInv
<1> DEFINE now == task[c].stamp  units == Units(task[c].call)
           s == prune(window["sender"], now)  x == Stamps(now, units)
<1>1. At(c, "sender") /\ UNCHANGED <<clock, rows, made, restarts>> BY DEF note_and_check_sender
<1>2. \/ /\ Fits(s, units) /\ window' = [window EXCEPT !["sender"] = s \o x]
         /\ noted' = noted \o x /\ Goto(c, "capability")
      \/ window' = [window EXCEPT !["sender"] = s] /\ Return(c) /\ UNCHANGED noted
  BY DEF note_and_check_sender
<1>3. /\ task[c] \in Task /\ task[c] # Idle /\ task[c].at = "sender"
      /\ now \in Stamp /\ now \in Nat /\ now <= clock /\ clock \in Nat
  BY <1>1, BusyIs DEF Steps
<1>4. units \in Nat /\ x \in Seq(Stamp) /\ Len(x) = units BY <1>3, UnitsNat, StampsIs
<1>5. s \in Seq(Stamp) /\ Len(s) <= Ceiling["sender"] BY <1>3, PrunedForgets
<1>6. PICK k \in 0..Len(noted) :
        /\ Len(s) = Len(noted) - k
        /\ \A i \in 1..Len(s) : s[i] = noted[k + i]
        /\ \A i \in 1..k : noted[i] + Window <= clock
  BY <1>3, PrunedForgets
<1>7. noted \in Seq(Stamp) /\ window \in [Axes -> Seq(Stamp)] /\ "sender" \in Axes
  BY DEF TypeOK, Stamp, Axes
<1> HIDE DEF now, units, s, x
<1>8. CASE /\ Fits(s, units) /\ window' = [window EXCEPT !["sender"] = s \o x]
           /\ noted' = noted \o x /\ Goto(c, "capability")
  <2>1. /\ Others(c) /\ task'[c] # Idle /\ task'[c].at = "capability"
        /\ task'[c].call = task[c].call /\ task'[c].stamp = task[c].stamp
    BY <1>3, <1>8, GotoIs DEF Steps
  <2>2. s \o x \in Seq(Stamp) /\ noted \o x \in Seq(Stamp) BY <1>4, <1>5, <1>7
  <2>3. Len(s \o x) <= Ceiling["sender"] BY <1>4, <1>5, <1>8, ConcatLen DEF Fits
  <2>4. window' \in [Axes -> Seq(Stamp)] /\ window'["sender"] = s \o x BY <1>7, <1>8, <2>2
  <2>5. TypeOK' BY <1>1, <1>8, <2>1, <2>2, <2>3, <2>4 DEF TypeOK, Others, rows, Stamp
  <2>6. WindowInv'
    <3>1. /\ Len(s \o x) = Len(noted \o x) - k
          /\ \A i \in 1..Len(s \o x) : (s \o x)[i] = (noted \o x)[k + i]
          /\ \A i \in 1..k : (noted \o x)[i] = noted[i]
      BY <1>4, <1>5, <1>6, <1>7, BothGrow
    <3>2. Forgotten(k)' BY <1>1, <1>6, <1>8, <2>4, <3>1 DEF Forgotten
    <3>3. k \in 0..Len(noted \o x)
      <4>1. Len(noted \o x) = Len(noted) + Len(x) BY <1>4, <1>7, ConcatLen
      <4>2. Len(noted) \in Nat BY <1>7, StampedNat
      <4> QED BY <1>4, <4>1, <4>2
    <3> QED BY <1>8, <3>2, <3>3 DEF WindowInv
  <2>7. StampInv'
    <3>1. task'[c].stamp \in Nat BY <1>3, <2>1 DEF now
    <3> QED BY <1>1, <1>3, <2>1, <3>1, StampKept
  <2>8. Asking' \subseteq Asking /\ \A q \in Registered : Past(q)' \subseteq Past(q)
    BY <1>3, <2>1, SetsShrink
  <2>9. CapInv' BY <1>1, <2>5, <2>8, CapKeptRows
  <2> QED BY <2>5, <2>6, <2>7, <2>9
<1>9. CASE window' = [window EXCEPT !["sender"] = s] /\ Return(c) /\ UNCHANGED noted
  <2>1. Others(c) /\ task'[c] = Idle /\ task'[c].at = "idle" BY <1>9, ReturnIs
  <2>2. window' \in [Axes -> Seq(Stamp)] /\ window'["sender"] = s BY <1>5, <1>7, <1>9
  <2>3. TypeOK' BY <1>1, <1>5, <1>9, <2>1, <2>2 DEF TypeOK, Others, rows, Stamp
  <2>4. WindowInv'
    <3>1. Forgotten(k)' BY <1>1, <1>6, <1>9, <2>2 DEF Forgotten
    <3> QED BY <1>9, <3>1 DEF WindowInv
  <2>5. StampInv' BY <1>1, <1>3, <2>1, StampKept
  <2>6. Asking' \subseteq Asking /\ \A q \in Registered : Past(q)' \subseteq Past(q)
    BY <2>1, SetsShrink
  <2>7. CapInv' BY <1>1, <2>3, <2>6, CapKeptRows
  <2> QED BY <2>3, <2>4, <2>5, <2>7
<1> QED BY <1>2, <1>8, <1>9

(* The windows of asks and broadcasts are beside the sender's. *)
LEMMA CapabilityIInv == ASSUME IInv, NEW c \in Conns, note_and_check_capability(c) PROVE IInv'
<1> USE DEF IInv
<1> DEFINE kind == task[c].call.kind  now == task[c].stamp  s == prune(window[kind], now)
<1>1. At(c, "capability") /\ UNCHANGED <<clock, rows, made, restarts, noted>>
  BY DEF note_and_check_capability
<1>2. /\ \/ UNCHANGED window
         \/ kind # "send" /\ window' = [window EXCEPT ![kind] = Append(s, now)]
         \/ kind # "send" /\ window' = [window EXCEPT ![kind] = s]
      /\ \/ Return(c)
         \/ kind # "ask" /\ Goto(c, "insert")
         \/ Goto(c, "pending")
  BY DEF note_and_check_capability
<1>3. /\ task[c] \in Task /\ task[c] # Idle /\ task[c].at = "capability" /\ task[c].call \in Calls
      /\ now \in Stamp /\ now \in Nat /\ now <= clock /\ clock \in Nat
  BY <1>1, BusyIs DEF Steps
<1>4. window \in [Axes -> Seq(Stamp)] BY DEF TypeOK, Stamp
<1>5. kind # "send" => kind \in Axes /\ kind # "sender"
  BY <1>3, AdmissionAssumption DEF Kinds, Axes
<1>6. kind # "send" => s \in Seq(Stamp) /\ Append(s, now) \in Seq(Stamp)
  <2>1. kind # "send" => window[kind] \in Seq(Stamp) BY <1>4, <1>5
  <2>2. kind # "send" => s \in Seq(Stamp) BY <1>3, <2>1, PruneIs
  <2> QED BY <1>3, <2>2
<1> HIDE DEF kind, now, s
<1>7. window' \in [Axes -> Seq(Stamp)] /\ window'["sender"] = window["sender"]
  BY <1>2, <1>4, <1>5, <1>6 DEF Axes
<1>8. WindowInv' BY <1>1, <1>3, <1>7, WindowKept
<1>9. /\ Others(c)
      /\ \/ task'[c] = Idle /\ task'[c].at = "idle"
         \/ /\ task'[c].call = task[c].call /\ task'[c].stamp = task[c].stamp
            /\ \/ task'[c].at = "pending"
               \/ task'[c].at = "insert" /\ task'[c].call.kind # "ask"
  <2>1. CASE Return(c) BY <2>1, ReturnIs
  <2>2. CASE kind # "ask" /\ Goto(c, "insert") BY <1>3, <2>2, GotoIs DEF Steps, kind
  <2>3. CASE Goto(c, "pending") BY <1>3, <2>3, GotoIs DEF Steps
  <2> QED BY <1>2, <2>1, <2>2, <2>3
<1>10. TypeOK' BY <1>1, <1>7, <1>9 DEF TypeOK, Others, rows, Stamp
<1>11. StampInv' BY <1>1, <1>3, <1>9, StampKept DEF now
<1>12. Asking' \subseteq Asking /\ \A q \in Registered : Past(q)' \subseteq Past(q)
  BY <1>3, <1>9, SetsShrink
<1> QED BY <1>1, <1>8, <1>10, <1>11, <1>12, CapKeptRows

(* As CheckDepth, for pending asks. *)
LEMMA PendingIInv == ASSUME IInv, NEW c \in Conns, CheckPending(c) PROVE IInv'
<1> USE DEF IInv
<1>1. At(c, "pending") /\ UNCHANGED <<clock, window, rows, made, restarts, noted>>
  BY DEF CheckPending
<1>2. /\ task[c] \in Task /\ task[c] # Idle /\ task[c].at = "pending"
      /\ task[c].stamp \in Nat /\ task[c].stamp <= clock /\ clock \in Nat
  BY <1>1, BusyIs DEF Steps
<1>3. WindowInv' BY <1>1, <1>2, WindowKept
<1>4. CASE Return(c)
  <2>1. Others(c) /\ task'[c] = Idle /\ task'[c].at = "idle" BY <1>4, ReturnIs
  <2>2. TypeOK' BY <1>1, <2>1 DEF TypeOK, Others, rows
  <2>3. StampInv' BY <1>1, <1>2, <2>1, StampKept
  <2>4. Asking' \subseteq Asking /\ \A q \in Registered : Past(q)' \subseteq Past(q)
    BY <2>1, SetsShrink
  <2> QED BY <1>1, <1>3, <2>2, <2>3, <2>4, CapKeptRows
<1>5. CASE open < PendingCap /\ Goto(c, "insert")
  <2>1. /\ Others(c) /\ task'[c] # Idle /\ task'[c].at = "insert"
        /\ task'[c].call = task[c].call /\ task'[c].stamp = task[c].stamp
    BY <1>2, <1>5, GotoIs DEF Steps
  <2>2. TypeOK' BY <1>1, <2>1 DEF TypeOK, Others, rows
  <2>3. StampInv' BY <1>1, <1>2, <2>1, StampKept
  <2>4. ASSUME NEW r \in Registered
        PROVE  direct'[r] + Cardinality(Past(r)') <= QueueDepth + Cardinality(Conns) - 1
    <3>1. Past(r)' = Past(r) BY <1>2, <2>1 DEF Others, Past
    <3> QED BY <1>1, <3>1 DEF CapInv, rows
  <2>5. open' + Cardinality(Asking') <= PendingCap + Cardinality(Conns) - 1
    <3>1. Asking' \subseteq Conns BY DEF Asking
    <3>2. Cardinality(Asking') <= Cardinality(Conns) /\ Cardinality(Asking') \in Nat
      BY <3>1, Numbers, FS_Subset, FS_CardinalityType
    <3>3. open \in Nat /\ open' = open BY <1>1 DEF TypeOK, rows
    <3> QED BY <1>5, <3>2, <3>3, Numbers
  <2>6. CapInv' BY <2>4, <2>5 DEF CapInv
  <2> QED BY <1>3, <2>2, <2>3, <2>6
<1> QED BY <1>4, <1>5 DEF CheckPending

(* The row that was to come comes. *)
LEMMA InsertIInv == ASSUME IInv, NEW c \in Conns, Insert(c) PROVE IInv'
<1> USE DEF IInv
<1> DEFINE k == task[c].call
<1>1. At(c, "insert") /\ Return(c) /\ UNCHANGED <<clock, window, made, restarts, noted>>
  BY DEF Insert
<1>2. /\ task[c] \in Task /\ task[c] # Idle /\ task[c].at = "insert" /\ k \in Calls
      /\ clock \in Nat
  BY <1>1, BusyIs DEF Steps
<1>3. WindowInv' BY <1>1, <1>2, WindowKept
<1>4. Others(c) /\ task'[c] = Idle /\ task'[c].at = "idle" BY <1>1, ReturnIs
<1>5. StampInv' BY <1>1, <1>2, <1>4, StampKept
<1>6. Asking' \subseteq Asking /\ \A r \in Registered : Past(r)' \subseteq Past(r)
  BY <1>4, SetsShrink
<1>7. \A S \in SUBSET Conns :
        /\ IsFiniteSet(S) /\ Cardinality(S) \in Nat
        /\ Cardinality(S \ {c}) = IF c \in S THEN Cardinality(S) - 1 ELSE Cardinality(S)
  BY Numbers, FS_Subset, FS_CardinalityType, FS_RemoveElement
<1>8. CASE k.kind = "broadcast"
  <2>1. /\ fanned' = [r \in Registered |->
                         fanned[r] + (IF r \in recipients_for_broadcast THEN 1 ELSE 0)]
        /\ UNCHANGED <<direct, open>>
    BY <1>8 DEF Insert
  <2>2. fanned' \in [Registered -> Nat] BY <2>1 DEF TypeOK
  <2>3. TypeOK' BY <1>1, <1>4, <2>1, <2>2 DEF TypeOK, Others
  <2>4. open' <= open /\ \A r \in Registered : direct'[r] <= direct[r] BY <2>1 DEF TypeOK
  <2>5. CapInv' BY <1>6, <2>3, <2>4, CapKept
  <2> QED BY <1>3, <1>5, <2>3, <2>5
<1>9. CASE k.kind # "broadcast"
  <2>1. /\ direct' = [direct EXCEPT ![k.to] = @ + 1]
        /\ open' = IF k.kind = "ask" THEN open + 1 ELSE open
        /\ UNCHANGED fanned
    BY <1>9 DEF Insert
  <2>2. direct' \in [Registered -> Nat] /\ open' \in Nat
    <3>1. direct \in [Registered -> Nat] /\ open \in Nat BY DEF TypeOK
    <3> DEFINE to == k.to  n == direct[to] + 1
    <3>2. direct' = [direct EXCEPT ![to] = n] /\ (to \in Registered => n \in Nat) BY <2>1, <3>1
    <3> HIDE DEF to, n
    <3>3. direct' \in [Registered -> Nat] BY <3>1, <3>2
    <3>4. open' \in {open, open + 1} BY <2>1
    <3> QED BY <3>1, <3>3, <3>4
  <2>3. TypeOK' BY <1>1, <1>4, <2>1, <2>2 DEF TypeOK, Others
  <2>4. ASSUME NEW r \in Registered
        PROVE  direct'[r] + Cardinality(Past(r)') <= QueueDepth + Cardinality(Conns) - 1
    <3>1. Past(r)' = Past(r) \ {c} BY <1>4 DEF Others, Past
    <3>2. c \in Past(r) <=> k.to = r BY <1>2, <1>9 DEF Past
    <3>3. Past(r) \subseteq Conns BY DEF Past
    <3>4. direct[r] \in Nat /\ direct'[r] = IF k.to = r THEN direct[r] + 1 ELSE direct[r]
      BY <2>1 DEF TypeOK
    <3>5. Cardinality(Past(r)) \in Nat
          /\ Cardinality(Past(r)') = IF k.to = r THEN Cardinality(Past(r)) - 1
                                                ELSE Cardinality(Past(r))
      BY <1>7, <3>1, <3>2, <3>3
    <3>6. direct[r] + Cardinality(Past(r)) <= QueueDepth + Cardinality(Conns) - 1 BY DEF CapInv
    <3> HIDE DEF k
    <3> QED BY <3>4, <3>5, <3>6
  <2>5. open' + Cardinality(Asking') <= PendingCap + Cardinality(Conns) - 1
    <3>1. Asking' = Asking \ {c} BY <1>4 DEF Others, Asking
    <3>2. c \in Asking <=> k.kind = "ask" BY <1>2 DEF Asking
    <3>3. Asking \subseteq Conns BY DEF Asking
    <3>4. open \in Nat BY DEF TypeOK
    <3>5. Cardinality(Asking) \in Nat
          /\ Cardinality(Asking') = IF k.kind = "ask" THEN Cardinality(Asking) - 1
                                                     ELSE Cardinality(Asking)
      BY <1>7, <3>1, <3>2, <3>3
    <3>6. open + Cardinality(Asking) <= PendingCap + Cardinality(Conns) - 1 BY DEF CapInv
    <3> HIDE DEF k
    <3> QED BY <2>1, <3>4, <3>5, <3>6
  <2>6. CapInv' BY <2>4, <2>5 DEF CapInv
  <2> QED BY <1>3, <1>5, <2>3, <2>6
<1> QED BY <1>8, <1>9

LEMMA DrainIInv == ASSUME IInv, NEW r \in Registered, Drain(r) PROVE IInv'
<1> USE DEF IInv
<1>1. UNCHANGED <<clock, window, open, task, made, restarts, noted>> BY DEF Drain
<1>2. clock \in Nat BY Numbers DEF TypeOK
<1>3. WindowInv' BY <1>1, <1>2, WindowKept
<1>4. StampInv' BY <1>1 DEF StampInv
<1>5. Asking' = Asking /\ \A q \in Registered : Past(q)' = Past(q) BY <1>1 DEF Asking, Past
<1>6. \A f \in [Registered -> Nat] : f[r] > 0 =>
        /\ [f EXCEPT ![r] = @ - 1] \in [Registered -> Nat]
        /\ \A q \in Registered : [f EXCEPT ![r] = @ - 1][q] <= f[q]
  OBVIOUS
<1>7. direct \in [Registered -> Nat] /\ fanned \in [Registered -> Nat] BY DEF TypeOK
<1>8. /\ direct' \in [Registered -> Nat] /\ fanned' \in [Registered -> Nat]
      /\ \A q \in Registered : direct'[q] <= direct[q]
  <2>1. \A q \in Registered : direct[q] <= direct[q] BY <1>7
  <2> QED BY <1>6, <1>7, <2>1 DEF Drain
<1>9. TypeOK' BY <1>1, <1>8 DEF TypeOK
<1>10. open' <= open BY <1>1 DEF TypeOK
<1> QED BY <1>3, <1>4, <1>5, <1>8, <1>9, <1>10, CapKept

LEMMA SettleIInv == ASSUME IInv, Settle PROVE IInv'
<1> USE DEF IInv
<1>1. UNCHANGED <<clock, window, direct, fanned, task, made, restarts, noted>> BY DEF Settle
<1>2. clock \in Nat BY Numbers DEF TypeOK
<1>3. WindowInv' BY <1>1, <1>2, WindowKept
<1>4. StampInv' BY <1>1 DEF StampInv
<1>5. Asking' = Asking /\ \A q \in Registered : Past(q)' = Past(q) BY <1>1 DEF Asking, Past
<1>6. open' \in Nat /\ open' <= open BY DEF Settle, TypeOK
<1>7. TypeOK' BY <1>1, <1>6 DEF TypeOK
<1>8. \A q \in Registered : direct'[q] <= direct[q] BY <1>1 DEF TypeOK
<1> QED BY <1>3, <1>4, <1>5, <1>6, <1>7, <1>8, CapKept

(* Time only ages what is counted. *)
LEMMA TickIInv == ASSUME IInv, Tick PROVE IInv'
<1> USE DEF IInv
<1>1. clock < MaxTime /\ clock' = clock + 1 /\ UNCHANGED <<window, rows, task, made, restarts, noted>>
  BY DEF Tick
<1>2. clock \in Nat /\ clock' \in Nat /\ clock <= clock' /\ clock' \in 0..MaxTime
  BY <1>1, Numbers DEF TypeOK
<1>3. TypeOK' BY <1>1, <1>2 DEF TypeOK, rows
<1>4. WindowInv' BY <1>1, <1>2, WindowKept
<1>5. StampInv'
  <2>1. ASSUME NEW c \in Conns, task[c] # Idle PROVE task[c].stamp <= clock'
    <3>1. task[c].stamp \in Nat /\ task[c].stamp <= clock
      BY <2>1, TaskIs, Numbers DEF StampInv, Stamp
    <3> QED BY <1>2, <3>1
  <2> QED BY <1>1, <2>1 DEF StampInv
<1>6. Asking' = Asking /\ \A q \in Registered : Past(q)' = Past(q) BY <1>1 DEF Asking, Past
<1> QED BY <1>1, <1>3, <1>4, <1>5, <1>6, CapKeptRows

(* A restart forgets the calls under way with the windows, not the rows.   *)
LEMMA RestartIInv == ASSUME IInv, Restart PROVE IInv'
<1> USE DEF IInv
<1>1. /\ restarts' = restarts + 1 /\ window' = [a \in Axes |-> <<>>]
      /\ task' = [c \in Conns |-> Idle] /\ noted' = <<>> /\ UNCHANGED <<clock, rows, made>>
  BY DEF Restart
<1>2. window'["sender"] = <<>> /\ window' \in [Axes -> Seq(0..MaxTime)] BY <1>1 DEF Axes
<1>3. TypeOK'
  <2>1. Len(window'["sender"]) <= Ceiling["sender"] BY <1>2, Numbers
  <2> QED BY <1>1, <1>2, <2>1 DEF TypeOK, rows
<1>4. WindowInv'
  <2>1. Forgotten(0)' BY <1>1, <1>2 DEF Forgotten
  <2>2. 0 \in 0..Len(noted') BY <1>1
  <2> QED BY <2>1, <2>2 DEF WindowInv
<1>5. StampInv' BY <1>1 DEF StampInv
<1>6. Asking' = {} /\ \A q \in Registered : Past(q)' = {} BY <1>1 DEF Asking, Past, Idle
<1> QED BY <1>1, <1>3, <1>4, <1>5, <1>6, CapKeptRows

LEMMA NextIInv == ASSUME IInv, [Next]_vars PROVE IInv'
<1>1. ASSUME NEW c \in Conns,
             \/ Submit(c) \/ CheckDepth(c) \/ ReadClock(c) \/ note_and_check_sender(c)
             \/ note_and_check_capability(c) \/ CheckPending(c) \/ Insert(c)
      PROVE  IInv'
  BY <1>1, SubmitIInv, DepthIInv, ClockIInv, SenderIInv, CapabilityIInv, PendingIInv, InsertIInv
<1>2. ASSUME NEW r \in Registered, Drain(r) PROVE IInv' BY <1>2, DrainIInv
<1>3. CASE Settle \/ Tick \/ Restart BY <1>3, SettleIInv, TickIInv, RestartIInv
<1>4. CASE UNCHANGED vars
  <2>1. TypeOK' /\ StampInv' BY <1>4 DEF vars, rows, IInv, TypeOK, StampInv
  <2>2. WindowInv' BY <1>4 DEF vars, rows, IInv, WindowInv, Forgotten
  <2>3. CapInv' BY <1>4 DEF vars, rows, IInv, CapInv, Past, Asking
  <2> QED BY <2>1, <2>2, <2>3 DEF IInv
<1> QED BY <1>1, <1>2, <1>3, <1>4 DEF Next

-----------------------------------------------------------------------------
(***************************************************************************)
(* The theorems.                                                           *)
(***************************************************************************)

(* A stamp that counts is one the deque still has. *)
LEMMA Young == IInv => RateBound
<1> SUFFICES ASSUME IInv PROVE RateBound OBVIOUS
<1> DEFINE w == window["sender"]  Y == {i \in DOMAIN noted : noted[i] + Window > clock}
<1>1. w \in Seq(Stamp) /\ Len(w) <= Ceiling["sender"] /\ noted \in Seq(Stamp) /\ clock \in Nat
  BY Numbers DEF IInv, TypeOK, Stamp, Axes
<1>2. /\ Len(w) \in Nat /\ Len(noted) \in Nat /\ DOMAIN noted = 1..Len(noted)
      /\ \A i \in 1..Len(noted) : noted[i] \in Nat
  BY <1>1, StampedNat
<1>3. PICK k \in 0..Len(noted) : Forgotten(k) BY DEF IInv, WindowInv
<1>4. Len(w) = Len(noted) - k /\ \A i \in 1..k : noted[i] + Window <= clock
  BY <1>3 DEF Forgotten
<1>5. Y \subseteq (k + 1)..Len(noted)
  <2>1. ASSUME NEW i \in Y PROVE i \in (k + 1)..Len(noted)
    <3>1. i \in 1..Len(noted) /\ noted[i] \in Nat /\ noted[i] + Window > clock BY <1>2
    <3>2. ~(i \in 1..k) BY <1>1, <1>4, <3>1, Numbers
    <3> QED BY <1>2, <3>1, <3>2
  <2> QED BY <2>1
<1>6. IsFiniteSet((k + 1)..Len(noted)) /\ Cardinality((k + 1)..Len(noted)) = Len(noted) - k
  <2>1. k + 1 \in Int /\ Len(noted) \in Int BY <1>2
  <2>2. IsFiniteSet((k + 1)..Len(noted))
        /\ Cardinality((k + 1)..Len(noted)) = IF k + 1 > Len(noted) THEN 0 ELSE Len(noted) - (k + 1) + 1
    BY <2>1, FS_Interval
  <2> QED BY <1>2, <2>2
<1>7. Cardinality(Y) <= Cardinality((k + 1)..Len(noted)) /\ Cardinality(Y) \in Nat
  <2> HIDE DEF Y
  <2> QED BY <1>5, <1>6, FS_Subset, FS_CardinalityType
<1>8. Cardinality(Y) <= Ceiling["sender"]
  <2>1. Cardinality(Y) <= Len(w) BY <1>4, <1>6, <1>7
  <2> HIDE DEF Y, w
  <2> QED BY <1>1, <1>2, <1>7, <2>1, Numbers
<1> QED BY <1>8 DEF RateBound

LEMMA Capped == IInv => CapsUpToRaces
<1> SUFFICES ASSUME IInv PROVE CapsUpToRaces OBVIOUS
<1>1. \A S \in SUBSET Conns : Cardinality(S) \in Nat BY Numbers, FS_Subset, FS_CardinalityType
<1>2. open <= PendingCap + Cardinality(Conns) - 1
  <2>1. Cardinality(Asking) \in Nat /\ open \in Nat BY <1>1 DEF IInv, TypeOK, Asking
  <2>2. open + Cardinality(Asking) <= PendingCap + Cardinality(Conns) - 1 BY DEF IInv, CapInv
  <2> QED BY <2>1, <2>2, Numbers
<1>3. ASSUME NEW r \in Registered PROVE direct[r] <= QueueDepth + Cardinality(Conns) - 1
  <2>1. Cardinality(Past(r)) \in Nat /\ direct[r] \in Nat BY <1>1 DEF IInv, TypeOK, Past
  <2>2. direct[r] + Cardinality(Past(r)) <= QueueDepth + Cardinality(Conns) - 1
    BY DEF IInv, CapInv
  <2> QED BY <2>1, <2>2, Numbers
<1> QED BY <1>2, <1>3 DEF CapsUpToRaces

(* Every reachable state satisfies the inductive invariant: the types, the *)
(* ceiling on what the tracker holds, what it has forgotten and what is    *)
(* between a check and its row (admit_outbound, handle_broadcast).         *)
THEOREM AdmissionInvariant == Spec => [](TypeOK /\ IInv)
<1>1. IInv => TypeOK /\ IInv BY DEF IInv
<1> QED BY <1>1, InitIInv, NextIInv, PTL DEF Spec

(* Whatever order the connections take the tracker's mutex in, and however *)
(* old the clock they read, no window of time holds more units of a sender *)
(* than its ceiling (note_and_check_sender).                               *)
THEOREM RateKept == Spec => []RateBound
<1> QED BY Young, InitIInv, NextIInv, PTL DEF Spec

(* The caps are passed by at most one row for each other connection, since *)
(* what is between a check and its row is one call a connection            *)
(* (check_queue_depth, check_pending_ask_cap).                             *)
THEOREM CapsKept == Spec => []CapsUpToRaces
<1> QED BY Capped, InitIInv, NextIInv, PTL DEF Spec
=============================================================================
