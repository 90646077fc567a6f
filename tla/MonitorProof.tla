---------------------------- MODULE MonitorProof ----------------------------
(***************************************************************************)
(* Proofs about Monitor, for every set of contexts and objects, every       *)
(* assignment of contexts to OS threads, and every nesting.                 *)
(***************************************************************************)
EXTENDS Monitor, Integers, FiniteSetTheorems, SequenceTheorems, TLAPS

(* The list operators, on lists without repetition over a set A of monitors. *)

ListOver(ch, A) ==
    /\ ch \in Seq(A)
    /\ \A i, j \in DOMAIN ch : ch[i] = ch[j] => i = j

(* Every non-empty set of natural numbers has a smallest element. *)
LEMMA SmallestOf ==
    ASSUME NEW T \in SUBSET Nat, T # {}
    PROVE  \E m \in T : \A n \in T : m <= n
<1>1. PICK m \in T : \A y \in T : ~(<<y, m>> \in OpToRel(<, Nat))
  BY WFMin, NatLessThanWellFounded
<1>2. \A y \in T : ~(y < m)
  BY <1>1 DEF OpToRel
<1>3. QED
  BY <1>2

(* Keep(ch, K) is a subsequence of ch. *)
LEMMA KeepPosition ==
    ASSUME NEW n \in Nat, NEW K \in SUBSET (1..n), NEW j \in 1..Cardinality(K)
    PROVE  \E i \in K : Cardinality({k \in K : k <= i}) = j
<1> DEFINE Upto(i) == {k \in K : k <= i}
<1> DEFINE T == {i \in Nat : Cardinality(Upto(i)) >= j}
<1>1. IsFiniteSet(K) /\ Cardinality(K) \in Nat
  <2>1. IsFiniteSet(1..n)
    BY FS_Interval, 1 \in Int, n \in Int
  <2>2. IsFiniteSet(K)
    BY <2>1, FS_Subset
  <2>3. QED
    BY <2>2, FS_CardinalityType
<1>2. ASSUME NEW i \in Nat
      PROVE  IsFiniteSet(Upto(i)) /\ Cardinality(Upto(i)) \in Nat
  <2>1. Upto(i) \in SUBSET K
    OBVIOUS
  <2>2. IsFiniteSet(Upto(i))
    BY <1>1, <2>1, FS_Subset
  <2>3. QED
    BY <2>2, FS_CardinalityType
<1>3. Upto(n) = K /\ Upto(0) = {}
  <2>1. \A k \in K : k <= n /\ ~(k <= 0)
    OBVIOUS
  <2>2. QED
    BY <2>1
<1>4. n \in T /\ 0 \notin T
  <2> HIDE DEF Upto
  <2>1. Cardinality(Upto(n)) >= j /\ Cardinality(Upto(0)) = 0
    BY <1>1, <1>3, FS_EmptySet
  <2>2. QED
    BY <2>1
<1>5. PICK i \in T : \A m \in T : i <= m
  <2> HIDE DEF T
  <2>1. T \in SUBSET Nat
    BY DEF T
  <2>2. QED
    BY <1>4, <2>1, SmallestOf
<1>6. i \in Nat /\ i # 0 /\ i - 1 \in Nat /\ i - 1 \notin T
  <2> HIDE DEF Upto
  <2>1. i \in Nat /\ i # 0
    BY <1>4, <1>5
  <2>2. i - 1 \in Nat /\ ~(i <= i - 1)
    BY <2>1
  <2> HIDE DEF T
  <2>3. QED
    BY <1>5, <2>1, <2>2
<1>7. Cardinality(Upto(i)) >= j /\ Cardinality(Upto(i - 1)) < j
  <2> HIDE DEF Upto
  <2>1. QED
    BY <1>2, <1>5, <1>6
<1>8. i \in K
  <2>1. SUFFICES ASSUME i \notin K PROVE FALSE
    OBVIOUS
  <2>2. \A k \in K : k <= i <=> k <= i - 1
    BY <1>6, <2>1
  <2>3. Upto(i) = Upto(i - 1)
    BY <2>2
  <2> HIDE DEF Upto
  <2>4. QED
    BY <1>2, <1>6, <1>7, <2>3
<1>9. Upto(i) = Upto(i - 1) \cup {i} /\ i \notin Upto(i - 1)
  <2>1. \A k \in K : k <= i <=> k <= i - 1 \/ k = i
    BY <1>6
  <2>2. i <= i /\ ~(i <= i - 1)
    BY <1>6
  <2>3. QED
    BY <1>8, <2>1, <2>2
<1>10. Cardinality(Upto(i)) = Cardinality(Upto(i - 1)) + 1
  <2> HIDE DEF Upto
  <2>1. QED
    BY <1>2, <1>6, <1>9, FS_AddElement
<1>11. Cardinality(Upto(i)) = j
  <2> HIDE DEF Upto
  <2>1. QED
    BY <1>2, <1>6, <1>7, <1>10
<1>12. QED
  BY <1>8, <1>11

(* A list over A is a list over every larger set of monitors. *)
LEMMA ListWeaken ==
    ASSUME NEW A, NEW B, A \subseteq B, NEW ch, ListOver(ch, A)
    PROVE  ListOver(ch, B)
  BY SeqMonotonic DEF ListOver

(* If every element of ch is in B, then ch is a list over B. *)
LEMMA ListRestrict ==
    ASSUME NEW A, NEW B, NEW ch, ListOver(ch, A), \A i \in DOMAIN ch : ch[i] \in B
    PROVE  ListOver(ch, B)
<1>1. ch \in [1..Len(ch) -> A] /\ Len(ch) \in Nat /\ DOMAIN ch = 1..Len(ch)
  BY LenProperties DEF ListOver
<1>2. ch \in [1..Len(ch) -> B]
  BY <1>1
<1>3. ch \in Seq(B)
  BY <1>1, <1>2, SeqDef
<1>4. QED
  BY <1>3 DEF ListOver

(* What DetachMonitor and NotifyMonitor leave of a list, a prefix, is a list. *)
LEMMA ListPrefix ==
    ASSUME NEW A, NEW ch, ListOver(ch, A), NEW n \in 1..Len(ch)
    PROVE  /\ ListOver(SubSeq(ch, 1, n - 1), A)
           /\ DOMAIN SubSeq(ch, 1, n - 1) = 1..(n - 1)
           /\ \A i \in 1..(n - 1) : SubSeq(ch, 1, n - 1)[i] = ch[i]
<1>1. ch \in Seq(A) /\ Len(ch) \in Nat /\ DOMAIN ch = 1..Len(ch)
  BY LenProperties DEF ListOver
<1>2. \A i \in 1..(n - 1) : ch[i] \in A
  BY <1>1, ElementOfSeq
<1>3. /\ SubSeq(ch, 1, n - 1) \in Seq(A)
      /\ Len(SubSeq(ch, 1, n - 1)) = n - 1
      /\ \A i \in 1..(n - 1) : SubSeq(ch, 1, n - 1)[i] = ch[i]
  BY <1>1, <1>2, SubSeqProperties
<1>4. DOMAIN SubSeq(ch, 1, n - 1) = 1..(n - 1)
  BY <1>3, LenProperties
<1>5. QED
  BY <1>1, <1>3, <1>4 DEF ListOver

(* Detaching a monitor leaves a list without it, whatever else it drops. *)
LEMMA DetachList ==
    ASSUME NEW A, NEW m, NEW ch, ListOver(ch, A)
    PROVE  ListOver(DetachMonitor(m, ch), A \ {m})
<1>1. ch \in Seq(A) /\ Len(ch) \in Nat /\ DOMAIN ch = 1..Len(ch)
  BY LenProperties DEF ListOver
<1>2. CASE \E i \in DOMAIN ch : ch[i] = m
  <2> DEFINE n == IndexOf(m, ch)
  <2>1. n \in 1..Len(ch) /\ ch[n] = m
    BY <1>1, <1>2 DEF IndexOf
  <2> HIDE DEF n
  <2> DEFINE sub == SubSeq(ch, 1, n - 1)
  <2>2. /\ ListOver(sub, A) /\ DOMAIN sub = 1..(n - 1)
        /\ \A i \in 1..(n - 1) : sub[i] = ch[i]
    BY <2>1, ListPrefix
  <2>3. \A i \in DOMAIN sub : sub[i] \in A \ {m}
    <3>1. SUFFICES ASSUME NEW i \in DOMAIN sub PROVE sub[i] \in A \ {m}
      OBVIOUS
    <3>2. i \in 1..Len(ch) /\ i # n /\ sub[i] = ch[i]
      BY <1>1, <2>1, <2>2
    <3>3. ch[i] \in A
      BY <1>1, <3>2, ElementOfSeq
    <3>4. ch[i] # m
      BY <1>1, <2>1, <3>2 DEF ListOver
    <3>5. QED
      BY <3>2, <3>3, <3>4
  <2>4. DetachMonitor(m, ch) = sub
    BY <1>2 DEF DetachMonitor, n
  <2> HIDE DEF sub
  <2>5. QED
    BY <2>2, <2>3, <2>4, ListRestrict
<1>3. CASE ~ \E i \in DOMAIN ch : ch[i] = m
  <2>1. \A i \in DOMAIN ch : ch[i] \in A \ {m}
    BY <1>1, <1>3, ElementOfSeq
  <2>2. QED
    BY <1>3, <2>1, ListRestrict DEF DetachMonitor
<1>4. QED
  BY <1>2, <1>3

(* AddMonitor of a monitor that is not in the list gives a list. *)
LEMMA AddList ==
    ASSUME NEW A, NEW m \in A, NEW ch, ListOver(ch, A \ {m})
    PROVE  ListOver(AddMonitor(m, ch), A)
<1>1. ch \in Seq(A \ {m}) /\ Len(ch) \in Nat /\ DOMAIN ch = 1..Len(ch)
  BY LenProperties DEF ListOver
<1>2. ch \in Seq(A) /\ <<m>> \in Seq(A) /\ Len(<<m>>) = 1 /\ <<m>>[1] = m
  BY <1>1, SeqMonotonic
<1> DEFINE r == <<m>> \o ch
<1>3. /\ r \in Seq(A) /\ Len(r) = 1 + Len(ch)
      /\ r[1] = m
      /\ \A i \in 2..(1 + Len(ch)) : r[i] = ch[i - 1]
  BY <1>1, <1>2, ConcatProperties
<1> HIDE DEF r
<1>4. DOMAIN r = 1..(1 + Len(ch))
  BY <1>3, LenProperties
<1>5. \A i \in 1..Len(ch) : ch[i] # m
  BY <1>1, ElementOfSeq
<1>6. ASSUME NEW i \in DOMAIN r, NEW j \in DOMAIN r, r[i] = r[j] PROVE i = j
  <2>1. CASE i = 1 /\ j = 1
    BY <2>1
  <2>2. CASE i = 1 /\ j # 1
    <3>1. j - 1 \in 1..Len(ch) /\ r[j] = ch[j - 1]
      BY <1>1, <1>3, <1>4, <2>2
    <3>2. QED
      BY <1>3, <1>5, <1>6, <2>2, <3>1
  <2>3. CASE i # 1 /\ j = 1
    <3>1. i - 1 \in 1..Len(ch) /\ r[i] = ch[i - 1]
      BY <1>1, <1>3, <1>4, <2>3
    <3>2. QED
      BY <1>3, <1>5, <1>6, <2>3, <3>1
  <2>4. CASE i # 1 /\ j # 1
    <3>1. i - 1 \in 1..Len(ch) /\ j - 1 \in 1..Len(ch) /\ ch[i - 1] = ch[j - 1]
      BY <1>1, <1>3, <1>4, <1>6, <2>4
    <3>2. i - 1 = j - 1
      BY <1>1, <3>1 DEF ListOver
    <3>3. QED
      BY <1>4, <3>2
  <2>5. QED
    BY <2>1, <2>2, <2>3, <2>4
<1>7. QED
  BY <1>3, <1>6 DEF ListOver, AddMonitor, r

(* Object.notify leaves a list, although it drops what follows. *)
LEMMA NotifyList ==
    ASSUME NEW A, NEW ch, ListOver(ch, A), HasNotify(ch),
           FirstNotify(ch) \in DOMAIN ch
    PROVE  ListOver(NotifyMonitor(ch), A)
<1>1. DOMAIN ch = 1..Len(ch)
  BY LenProperties DEF ListOver
<1>2. QED
  BY <1>1, ListPrefix DEF NotifyMonitor

(* The loop of NotifyMonitor stops at a monitor, if there is one of its type. *)
LEMMA FirstNotifyExists ==
    ASSUME NEW A, NEW ch \in Seq(A), HasNotify(ch)
    PROVE  FirstNotify(ch) \in DOMAIN ch
<1> DEFINE T == {i \in DOMAIN ch : TypeOf(ch[i]) = "notification"}
<1>1. DOMAIN ch = 1..Len(ch) /\ Len(ch) \in Nat
  BY LenProperties
<1>2. T \in SUBSET Nat /\ T # {}
  BY <1>1 DEF HasNotify
<1>3. PICK i \in T : \A n \in T : i <= n
  BY <1>2, SmallestOf
<1>4. \A j \in 1..(i - 1) : j \in DOMAIN ch /\ ~(i <= j)
  BY <1>1, <1>3
<1>5. \A j \in 1..(i - 1) : TypeOf(ch[j]) # "notification"
  BY <1>3, <1>4
<1>6. QED
  BY <1>3, <1>5 DEF FirstNotify

(* Filtering a list in place gives a list. *)
LEMMA KeepList ==
    ASSUME NEW A, NEW ch, ListOver(ch, A), NEW K \in SUBSET DOMAIN ch
    PROVE  ListOver(Keep(ch, K), A)
<1>1. ch \in Seq(A) /\ Len(ch) \in Nat /\ DOMAIN ch = 1..Len(ch)
  BY LenProperties DEF ListOver
<1> DEFINE n == Cardinality(K)
<1> DEFINE pos(j) == CHOOSE i \in K : Cardinality({k \in K : k <= i}) = j
<1>2. n \in Nat
  <2>1. IsFiniteSet(1..Len(ch))
    BY <1>1, FS_Interval, 1 \in Int, Len(ch) \in Int
  <2>2. IsFiniteSet(K)
    BY <1>1, <2>1, FS_Subset
  <2>3. QED
    BY <2>2, FS_CardinalityType
<1>3. ASSUME NEW j \in 1..n
      PROVE  pos(j) \in K /\ Cardinality({k \in K : k <= pos(j)}) = j
  <2>1. \E i \in K : Cardinality({k \in K : k <= i}) = j
    BY <1>1, KeepPosition
  <2>2. QED
    BY <2>1
<1>4. Keep(ch, K) = [j \in 1..n |-> ch[pos(j)]]
  BY DEF Keep
<1>5. ASSUME NEW j \in 1..n PROVE ch[pos(j)] \in A
  BY <1>1, <1>3, ElementOfSeq
<1>6. Keep(ch, K) \in [1..n -> A]
  BY <1>4, <1>5
<1>7. Keep(ch, K) \in Seq(A)
  BY <1>2, <1>6, SeqDef
<1>8. ASSUME NEW i \in 1..n, NEW j \in 1..n, ch[pos(i)] = ch[pos(j)]
      PROVE  i = j
  <2>1. pos(i) \in DOMAIN ch /\ pos(j) \in DOMAIN ch
    BY <1>3
  <2>2. pos(i) = pos(j)
    <3> HIDE DEF pos
    <3>1. QED
      BY <1>8, <2>1 DEF ListOver
  <2>3. QED
    BY <1>3, <2>2
<1>9. DOMAIN Keep(ch, K) = 1..n /\ \A j \in 1..n : Keep(ch, K)[j] = ch[pos(j)]
  <2> HIDE DEF n, pos
  <2>1. QED
    BY <1>4
<1>10. QED
  <2> HIDE DEF n, pos
  <2>1. QED
    BY <1>7, <1>8, <1>9 DEF ListOver

(* NotifyAllMonitor leaves a list. *)
LEMMA NotifyAllList ==
    ASSUME NEW A, NEW t, NEW ch, ListOver(ch, A)
    PROVE  ListOver(NotifyAllMonitor(t, ch), A)
  BY KeepList DEF NotifyAllMonitor

-----------------------------------------------------------------------------
(* The lockers that hold an object. *)

LockedOn(o) == [obj |-> o, state |-> "locked"]
HeldIn(s, o) == {i \in DOMAIN s : s[i] = LockedOn(o)}

(* The blocks a stack of lockers holds on an object are finitely many. *)
LEMMA HeldType ==
    ASSUME NEW s \in Seq(Locker), NEW o
    PROVE  /\ IsFiniteSet(HeldIn(s, o))
           /\ Cardinality(HeldIn(s, o)) \in Nat
           /\ Cardinality(HeldIn(s, o)) > 0 <=> HeldIn(s, o) # {}
<1>1. DOMAIN s = 1..Len(s) /\ Len(s) \in Nat
  BY LenProperties
<1>2. IsFiniteSet(1..Len(s))
  BY <1>1, FS_Interval, 1 \in Int, Len(s) \in Int
<1>3. IsFiniteSet(HeldIn(s, o))
  BY <1>1, <1>2, FS_Subset DEF HeldIn
<1>4. Cardinality(HeldIn(s, o)) \in Nat
  BY <1>3, FS_CardinalityType
<1>5. Cardinality(HeldIn(s, o)) = 0 <=> HeldIn(s, o) = {}
  BY <1>3, FS_EmptySet
<1>6. QED
  BY <1>3, <1>4, <1>5

(* A sequence that differs from s at one position n, where it has a locker on o. *)
LEMMA HeldOneMore ==
    ASSUME NEW s \in Seq(Locker), NEW t \in Seq(Locker), NEW o, NEW n,
           n \notin HeldIn(s, o), HeldIn(t, o) = HeldIn(s, o) \cup {n}
    PROVE  Cardinality(HeldIn(t, o)) = Cardinality(HeldIn(s, o)) + 1
  BY HeldType, FS_AddElement

(* Pushing a locker adds one held block if it is locked, and none otherwise. *)
LEMMA HeldAppend ==
    ASSUME NEW s \in Seq(Locker), NEW x \in Locker, NEW o
    PROVE  /\ Append(s, x) \in Seq(Locker)
           /\ x = LockedOn(o) =>
                Cardinality(HeldIn(Append(s, x), o)) = Cardinality(HeldIn(s, o)) + 1
           /\ x # LockedOn(o) => HeldIn(Append(s, x), o) = HeldIn(s, o)
<1> DEFINE t == Append(s, x)
<1>1. DOMAIN s = 1..Len(s) /\ Len(s) \in Nat
  BY LenProperties
<1>2. /\ t \in Seq(Locker) /\ DOMAIN t = 1..(Len(s) + 1)
      /\ t[Len(s) + 1] = x /\ \A i \in 1..Len(s) : t[i] = s[i]
  <2>1. t \in Seq(Locker) /\ Len(t) = Len(s) + 1
    BY <1>1, AppendProperties
  <2>2. QED
    BY <1>1, <2>1, AppendProperties, LenProperties
<1> HIDE DEF t
<1>3. 1..(Len(s) + 1) = 1..Len(s) \cup {Len(s) + 1} /\ Len(s) + 1 \notin 1..Len(s)
  BY <1>1
<1>4. CASE x = LockedOn(o)
  <2>1. HeldIn(t, o) = HeldIn(s, o) \cup {Len(s) + 1}
    BY <1>1, <1>2, <1>3, <1>4 DEF HeldIn
  <2>2. Len(s) + 1 \notin HeldIn(s, o)
    BY <1>1, <1>3 DEF HeldIn
  <2>3. QED
    BY <1>2, <1>4, <2>1, <2>2, HeldOneMore DEF t
<1>5. CASE x # LockedOn(o)
  <2>1. HeldIn(t, o) = HeldIn(s, o)
    BY <1>1, <1>2, <1>3, <1>5 DEF HeldIn
  <2>2. QED
    BY <1>2, <1>5, <2>1 DEF t
<1>6. QED
  BY <1>4, <1>5

(* Releasing the newest locker ends one held block if it was locked. *)
LEMMA HeldPop ==
    ASSUME NEW s \in Seq(Locker), Len(s) > 0, NEW o,
           NEW t, t = SubSeq(s, 1, Len(s) - 1)
    PROVE  /\ t \in Seq(Locker)
           /\ DOMAIN t = 1..(Len(s) - 1) /\ Len(t) = Len(s) - 1
           /\ \A i \in 1..(Len(s) - 1) : t[i] = s[i]
           /\ s[Len(s)] = LockedOn(o) =>
                Cardinality(HeldIn(s, o)) = Cardinality(HeldIn(t, o)) + 1
           /\ s[Len(s)] # LockedOn(o) => HeldIn(t, o) = HeldIn(s, o)
<1> DEFINE n == Len(s)
<1>1. DOMAIN s = 1..n /\ n \in Nat /\ n > 0
  BY LenProperties
<1>2. t \in Seq(Locker) /\ Len(t) = n - 1 /\ \A i \in 1..(n - 1) : t[i] = s[i]
  <2>1. \A i \in 1..(n - 1) : s[i] \in Locker
    BY <1>1, ElementOfSeq
  <2>2. QED
    BY <1>1, <2>1, SubSeqProperties
<1>3. DOMAIN t = 1..(n - 1)
  BY <1>2, LenProperties
<1>4. 1..n = 1..(n - 1) \cup {n} /\ n \notin 1..(n - 1)
  BY <1>1
<1> HIDE DEF n
<1>5. CASE s[n] = LockedOn(o)
  <2>1. HeldIn(s, o) = HeldIn(t, o) \cup {n}
    BY <1>1, <1>2, <1>3, <1>4, <1>5 DEF HeldIn
  <2>2. n \notin HeldIn(t, o)
    BY <1>3, <1>4 DEF HeldIn
  <2>3. Cardinality(HeldIn(s, o)) = Cardinality(HeldIn(t, o)) + 1
    BY <1>2, <2>1, <2>2, HeldOneMore
  <2>4. QED
    BY <1>2, <1>3, <1>5, <2>3 DEF n
<1>6. CASE s[n] # LockedOn(o)
  <2>1. HeldIn(t, o) = HeldIn(s, o)
    BY <1>1, <1>2, <1>3, <1>4, <1>6 DEF HeldIn
  <2>2. QED
    BY <1>2, <1>3, <1>6, <2>1 DEF n
<1>7. QED
  BY <1>5, <1>6

(* A stack whose newest locker changes state is still a stack of lockers. *)
LEMMA LockingType ==
    ASSUME NEW s \in Seq(Locker), Len(s) > 0, NEW x \in Locker,
           NEW t, DOMAIN t = DOMAIN s, t = [i \in DOMAIN t |-> t[i]], t[Len(s)] = x,
           \A i \in DOMAIN s : i # Len(s) => t[i] = s[i]
    PROVE  t \in Seq(Locker) /\ Len(t) = Len(s)
<1> DEFINE n == Len(s)
<1>1. DOMAIN s = 1..n /\ n \in 1..n /\ n \in Nat /\ s \in [1..n -> Locker]
  BY LenProperties
<1> HIDE DEF n
<1>2. \A i \in 1..n : t[i] \in Locker
  BY <1>1 DEF n
<1>3. t \in [1..n -> Locker]
  BY <1>1, <1>2
<1>4. t \in Seq(Locker)
  BY <1>1, <1>3, SeqDef
<1>5. Len(t) \in Nat /\ 1..Len(t) = 1..n
  BY <1>1, <1>4, LenProperties
<1>6. n \in 1..Len(t)
  BY <1>1, <1>5
<1>7. Len(t) \in 1..n
  BY <1>5, <1>6
<1>8. QED
  BY <1>1, <1>4, <1>5, <1>6, <1>7 DEF n

(* The newest locker, pending, gets the lock of p. *)
LEMMA HeldLock ==
    ASSUME NEW s \in Seq(Locker), NEW t \in Seq(Locker), Len(s) > 0, Len(t) = Len(s),
           NEW p, NEW o, s[Len(s)].state = "pending", t[Len(s)] = LockedOn(p),
           \A i \in DOMAIN s : i # Len(s) => t[i] = s[i]
    PROVE  /\ o = p => Cardinality(HeldIn(t, o)) = Cardinality(HeldIn(s, o)) + 1
           /\ o # p => HeldIn(t, o) = HeldIn(s, o)
<1> DEFINE n == Len(s)
<1>1. DOMAIN s = 1..n /\ DOMAIN t = 1..n /\ n \in 1..n
  BY LenProperties
<1>2. s[n] # LockedOn(o)
  BY DEF LockedOn
<1> HIDE DEF n
<1>3. CASE o = p
  <2>1. HeldIn(t, o) = HeldIn(s, o) \cup {n}
    BY <1>1, <1>3 DEF HeldIn, n
  <2>2. n \notin HeldIn(s, o)
    BY <1>2 DEF HeldIn
  <2>3. QED
    BY <1>3, <2>1, <2>2, HeldOneMore
<1>4. CASE o # p
  <2>1. LockedOn(p) # LockedOn(o)
    BY <1>4 DEF LockedOn
  <2>2. HeldIn(t, o) = HeldIn(s, o)
    BY <1>1, <1>2, <2>1 DEF HeldIn, n
  <2>3. QED
    BY <1>4, <2>2
<1>5. QED
  BY <1>3, <1>4

-----------------------------------------------------------------------------
(* The inductive invariant. *)

(* What ties the program counter of a context to its lockers and to its wait(). *)
Phase(c) ==
    /\ \A i \in DOMAIN lockers[c] : lockers[c][i].state = "pending" =>
           i = Depth(c) /\ pc[c] \in {"blocked", "unwind", "dying"}
    /\ pc[c] = "blocked" => Depth(c) > 0 /\ Top(c).state = "pending"
    /\ \A i, j \in DOMAIN lockers[c] :
           i < j /\ lockers[c][i].obj = lockers[c][j].obj /\ lockers[c][j].state = "lost"
               => lockers[c][i].state # "locked"
    /\ await[c].obj # NoObject <=> pc[c] \in {"waiting", "sleeping", "relock"}
    /\ pc[c] = "sleeping" => await[c].listening
    /\ pc[c] = "relock" => ~await[c].listening
    /\ await[c].obj = NoObject => ~await[c].listening
Phases == \A c \in Contexts : Phase(c)

IInv == TypeOK /\ Phases /\ LockMatchesBlocks /\ NoDanglingMonitor

-----------------------------------------------------------------------------
(* LockMatchesBlocks and NoDanglingMonitor, one context and one object at a time. *)

Nesting(c, o) == Cardinality(HeldIn(lockers[c], o))

LockOf(c, o) ==
    /\ owner[o] = c <=> Nesting(c, o) > 0 /\ await[c].obj # o
    /\ owner[o] = c => count[o] = Nesting(c, o)
    /\ await[c].obj = o => await[c].saved = Nesting(c, o) /\ Nesting(c, o) > 0

(* LockMatchesBlocks, one context and one object at a time. *)
LEMMA LockMatches == LockMatchesBlocks <=> \A c \in Contexts, o \in Objects : LockOf(c, o)
  BY DEF LockMatchesBlocks, LockOf, Nesting, Held, HeldIn, LockedOn

AliveOn(o) == {m \in Monitors : Alive(m, o)}

(* Which monitors of c are alive on o. *)
LEMMA AliveIs ==
    ASSUME NEW c \in Contexts, NEW o \in Objects
    PROVE  /\ <<c, "lock">> \in AliveOn(o) <=>
                ctxMonitor[c] /\ Depth(c) > 0 /\ Top(c) = [obj |-> o, state |-> "pending"]
           /\ <<c, "notify">> \in AliveOn(o) <=> await[c].obj = o /\ await[c].listening
           /\ <<c, "relock">> \in AliveOn(o) <=> await[c].obj = o /\ ~await[c].listening
  BY DEF AliveOn, Alive, Monitors

(* The same in the next state. *)
LEMMA AliveIsNext ==
    ASSUME NEW c \in Contexts, NEW o \in Objects
    PROVE  /\ <<c, "lock">> \in AliveOn(o)' <=>
                /\ ctxMonitor'[c] /\ Depth(c)' > 0
                /\ Top(c)' = [obj |-> o, state |-> "pending"]
           /\ <<c, "notify">> \in AliveOn(o)' <=> await'[c].obj = o /\ await'[c].listening
           /\ <<c, "relock">> \in AliveOn(o)' <=> await'[c].obj = o /\ ~await'[c].listening
  BY DEF AliveOn, Alive, Monitors

(* NoDanglingMonitor, as a list of living monitors for each object. *)
LEMMA Lists ==
    ASSUME TypeOK
    PROVE  NoDanglingMonitor <=> \A o \in Objects : ListOver(chain[o], AliveOn(o))
<1>1. \A o \in Objects : chain[o] \in Seq(Monitors) /\ DOMAIN chain[o] = 1..Len(chain[o])
  BY LenProperties DEF TypeOK
<1>2. ASSUME NoDanglingMonitor, NEW o \in Objects
      PROVE  ListOver(chain[o], AliveOn(o))
  <2>1. \A i \in DOMAIN chain[o] : chain[o][i] \in AliveOn(o)
    BY <1>1, <1>2, ElementOfSeq DEF NoDanglingMonitor, AliveOn
  <2>2. ListOver(chain[o], Monitors)
    BY <1>1, <1>2 DEF NoDanglingMonitor, ListOver
  <2>3. QED
    BY <2>1, <2>2, ListRestrict
<1>3. ASSUME NEW o \in Objects, ListOver(chain[o], AliveOn(o)), NEW i \in DOMAIN chain[o]
      PROVE  /\ Alive(chain[o][i], o)
             /\ \A j \in DOMAIN chain[o] : chain[o][i] = chain[o][j] => i = j
  <2>1. chain[o][i] \in AliveOn(o)
    BY <1>1, <1>3, ElementOfSeq DEF ListOver
  <2>2. QED
    BY <1>3, <2>1 DEF AliveOn, ListOver
<1>4. QED
  BY <1>2, <1>3 DEF NoDanglingMonitor

-----------------------------------------------------------------------------
(* Frames.  A step of c on o leaves alone what the other contexts have. *)

Undisturbed(d) ==
    /\ lockers'[d] = lockers[d] /\ ctxMonitor'[d] = ctxMonitor[d] /\ pc'[d] = pc[d]
    /\ await'[d].obj = await[d].obj
    /\ await'[d].saved = await[d].saved
    /\ await'[d].listening = await[d].listening

(* A step of c leaves the phases of the contexts it does not disturb. *)
LEMMA PhaseStep ==
    ASSUME Phases, NEW c \in Contexts, Phase(c)',
           \A d \in Contexts \ {c} : Undisturbed(d)
    PROVE  Phases'
  BY DEF Phases, Phase, Undisturbed, Depth, Top

(* The lock of o passes between c and nobody. *)
LEMMA LockStep ==
    ASSUME LockMatchesBlocks, NEW c \in Contexts, NEW o \in Objects, LockOf(c, o)',
           \A d \in Contexts \ {c} : Undisturbed(d),
           \A p \in Objects \ {o} :
               /\ owner'[p] = owner[p] /\ count'[p] = count[p]
               /\ Nesting(c, p)' = Nesting(c, p)
               /\ await'[c].obj = p <=> await[c].obj = p
               /\ await[c].obj = p => await'[c].saved = await[c].saved,
           \/ owner'[o] = owner[o] /\ count'[o] = count[o]
           \/ owner[o] \in {NoContext, c} /\ owner'[o] \in {NoContext, c}
    PROVE  LockMatchesBlocks'
<1>1. \A d \in Contexts, p \in Objects : LockOf(d, p)
  BY LockMatches
<1>2. ASSUME NEW d \in Contexts, NEW p \in Objects PROVE LockOf(d, p)'
  <2>1. CASE d = c /\ p = o
    BY <2>1
  <2>2. CASE d = c /\ p # o
    <3>1. LockOf(c, p)
      BY <1>1
    <3>2. QED
      BY <2>2, <3>1 DEF LockOf
  <2>3. CASE d # c
    <3>1. Nesting(d, p)' = Nesting(d, p) /\ LockOf(d, p)
      BY <1>1, <2>3 DEF Undisturbed, Nesting
    <3>2. (owner'[p] = d <=> owner[p] = d) /\ (owner'[p] = d => count'[p] = count[p])
      BY <2>3, MonitorAssumption
    <3>3. QED
      BY <2>3, <3>1, <3>2 DEF LockOf, Undisturbed
  <2>4. QED
    BY <2>1, <2>2, <2>3
<1>3. QED
  BY <1>2, LockMatches DEF LockMatchesBlocks, LockOf, Nesting, Held, HeldIn, LockedOn

Kinds == {"lock", "notify", "relock"}

(* A step of c kills no monitor of another context. *)
LEMMA AliveStep ==
    ASSUME NEW c \in Contexts, \A d \in Contexts \ {c} : Undisturbed(d),
           NEW o \in Objects, NEW m \in AliveOn(o), m[1] # c
    PROVE  m \in AliveOn(o)'
<1>1. m \in Monitors /\ m[1] \in Contexts \ {c} /\ Alive(m, o)
  BY DEF AliveOn, Monitors
<1>2. Alive(m, o)'
  BY <1>1 DEF Alive, Undisturbed, Depth, Top
<1>3. QED
  BY <1>1, <1>2 DEF AliveOn

(* The list of o changes, and the monitors of c stay alive elsewhere. *)
LEMMA ListStep ==
    ASSUME TypeOK, TypeOK', NoDanglingMonitor, NEW c \in Contexts, NEW o \in Objects,
           ListOver(chain'[o], AliveOn(o)'),
           \A d \in Contexts \ {c} : Undisturbed(d),
           \A p \in Objects \ {o} :
               /\ chain'[p] = chain[p]
               /\ \A k \in Kinds : <<c, k>> \in AliveOn(p) => <<c, k>> \in AliveOn(p)'
    PROVE  NoDanglingMonitor'
<1>1. ASSUME NEW p \in Objects, p # o PROVE ListOver(chain'[p], AliveOn(p)')
  <2>1. ListOver(chain[p], AliveOn(p))
    BY Lists
  <2>2. ASSUME NEW m \in AliveOn(p) PROVE m \in AliveOn(p)'
    <3>1. CASE m[1] # c
      BY <2>2, <3>1, AliveStep
    <3>2. CASE m[1] = c
      <4>1. m = <<c, m[2]>> /\ m[2] \in Kinds
        BY <2>2, <3>2 DEF AliveOn, Monitors, Kinds
      <4>2. QED
        BY <1>1, <2>2, <4>1
    <3>3. QED
      BY <3>1, <3>2
  <2>3. QED
    BY <1>1, <2>1, <2>2, ListWeaken
<1>2. \A p \in Objects : ListOver(chain'[p], AliveOn(p)')
  BY <1>1
<1>3. ASSUME NEW p \in Objects, NEW i \in DOMAIN chain'[p]
      PROVE  /\ Alive(chain[p][i], p)'
             /\ \A j \in DOMAIN chain'[p] : chain'[p][i] = chain'[p][j] => i = j
  <2>1. ListOver(chain'[p], AliveOn(p)') /\ DOMAIN chain'[p] = 1..Len(chain'[p])
    BY <1>2, LenProperties DEF ListOver
  <2>2. chain'[p][i] \in AliveOn(p)'
    BY <2>1, ElementOfSeq DEF ListOver
  <2>3. QED
    BY <2>1, <2>2 DEF AliveOn, ListOver
<1>4. QED
  BY <1>3 DEF NoDanglingMonitor

(* A step that moves no monitor. *)
LEMMA ListFrame ==
    ASSUME TypeOK, NoDanglingMonitor, UNCHANGED <<chain, lockers, ctxMonitor>>,
           \A d \in Contexts : await'[d].obj = await[d].obj
                               /\ await'[d].listening = await[d].listening
    PROVE  NoDanglingMonitor'
<1>1. ASSUME NEW m \in Monitors, NEW o \in Objects, Alive(m, o) PROVE Alive(m, o)'
  <2>1. m[1] \in Contexts
    BY DEF Monitors
  <2>2. QED
    BY <1>1, <2>1 DEF Alive, Depth, Top
<1>2. \A o \in Objects : \A i \in DOMAIN chain[o] : chain[o][i] \in Monitors
  BY ElementOfSeq, LenProperties DEF TypeOK
<1>3. QED
  BY <1>1, <1>2 DEF NoDanglingMonitor

(* A step that moves no lock keeps the counters in agreement with the blocks. *)
LEMMA LockFrame ==
    ASSUME LockMatchesBlocks, UNCHANGED <<owner, count, lockers>>,
           \A d \in Contexts : await'[d].obj = await[d].obj /\ await'[d].saved = await[d].saved
    PROVE  LockMatchesBlocks'
  BY DEF LockMatchesBlocks, Held

(* Running script, a context has no pending locker. *)
LEMMA NotPending ==
    ASSUME TypeOK, NEW c \in Contexts, Phase(c), pc[c] \notin {"blocked", "unwind", "dying"}
    PROVE  /\ \A i \in DOMAIN lockers[c] : lockers[c][i].state # "pending"
           /\ \A o \in Objects : <<c, "lock">> \notin AliveOn(o)
<1>1. \A i \in DOMAIN lockers[c] : lockers[c][i].state # "pending"
  BY DEF Phase
<1>2. Depth(c) > 0 => Depth(c) \in DOMAIN lockers[c]
  BY LenProperties DEF TypeOK, Depth
<1>3. ASSUME NEW o \in Objects, <<c, "lock">> \in AliveOn(o) PROVE FALSE
  <2>1. Depth(c) > 0 /\ Top(c) = [obj |-> o, state |-> "pending"]
    BY <1>3, AliveIs
  <2>2. lockers[c][Depth(c)].state = "pending"
    BY <2>1 DEF Top
  <2>3. QED
    BY <1>1, <1>2, <2>1, <2>2
<1>4. QED
  BY <1>1, <1>3

-----------------------------------------------------------------------------
(* One lemma for each action: it preserves IInv. *)

(* synchronized: the lock is taken, taken again, or waited for. *)
LEMMA SynchronizeStep ==
    ASSUME IInv, NEW c \in Contexts, NEW o \in Objects, Synchronize(c, o)
    PROVE  IInv'
<1>1. TypeOK /\ Phases /\ Phase(c) /\ LockMatchesBlocks /\ NoDanglingMonitor /\ LockOf(c, o)
  BY LockMatches DEF IInv, Phases
<1>2. /\ pc[c] = "run" /\ await[c].obj = NoObject /\ ~await[c].listening
      /\ await' = await /\ target' = target /\ hung' = hung
      /\ lockers[c] \in Seq(Locker)
  BY <1>1 DEF Synchronize, Phase, TypeOK
<1>3. \A d \in Contexts \ {c} : Undisturbed(d)
  BY <1>1, <1>2 DEF Synchronize, Push, Undisturbed, TypeOK
<1> DEFINE s == lockers[c]
<1>4. DOMAIN s = 1..Len(s) /\ Len(s) \in Nat /\ Depth(c) = Len(s)
  BY <1>2, LenProperties DEF Depth
<1>5. \A i \in DOMAIN s : s[i].state # "pending"
  BY <1>1, <1>2, NotPending
<1>6. CASE owner[o] \in {NoContext, c}
  <2>1. /\ Push(c, o, "locked") /\ UNCHANGED <<chain, ctxMonitor, pc>>
        /\ owner' = [owner EXCEPT ![o] = c]
        /\ count' = [count EXCEPT ![o] = IF owner[o] = NoContext THEN 1 ELSE count[o] + 1]
    BY <1>1, <1>6, MonitorAssumption DEF Synchronize, TypeOK
  <2>2. LockedOn(o) \in Locker
    BY DEF LockedOn, Locker
  <2>3. lockers' = [lockers EXCEPT ![c] = Append(s, LockedOn(o))]
        /\ lockers'[c] = Append(s, LockedOn(o))
    BY <1>1, <2>1 DEF Push, LockedOn, TypeOK
  <2>4. /\ lockers'[c] \in Seq(Locker)
        /\ DOMAIN lockers'[c] = 1..(Len(s) + 1) /\ Depth(c)' = Len(s) + 1
        /\ lockers'[c][Len(s) + 1] = LockedOn(o)
        /\ \A i \in 1..Len(s) : lockers'[c][i] = s[i]
    <3>1. Append(s, LockedOn(o)) \in Seq(Locker)
      BY <1>2, <2>2, HeldAppend
    <3>2. QED
      BY <1>2, <1>4, <2>2, <2>3, <3>1, AppendProperties, LenProperties DEF Depth
  <2>5. Nesting(c, o)' = Nesting(c, o) + 1 /\ Nesting(c, o) \in Nat
    BY <1>2, <2>2, <2>3, HeldAppend, HeldType DEF Nesting
  <2>6. \A p \in Objects \ {o} : Nesting(c, p)' = Nesting(c, p)
    <3>1. \A p \in Objects \ {o} : LockedOn(o) # LockedOn(p)
      BY DEF LockedOn
    <3>2. QED
      BY <1>2, <2>2, <2>3, <3>1, HeldAppend DEF Nesting
  <2>7. TypeOK'
    BY <1>1, <1>2, <2>1, <2>3, <2>4 DEF TypeOK
  <2>8. Phase(c)'
    <3>1. \A i \in DOMAIN lockers'[c] : lockers'[c][i].state # "pending"
      BY <1>4, <1>5, <2>4 DEF LockedOn
    <3>2. \A i, j \in DOMAIN lockers'[c] :
             i < j /\ lockers'[c][i].obj = lockers'[c][j].obj
                 /\ lockers'[c][j].state = "lost" => lockers'[c][i].state # "locked"
      BY SMTT(20), <1>1, <1>4, <2>4 DEF LockedOn, Phase
    <3>3. pc'[c] = "run" /\ await'[c] = await[c]
      BY <1>2, <2>1
    <3>4. QED
      BY <1>2, <3>1, <3>2, <3>3 DEF Phase
  <2>9. Phases'
    BY <1>1, <1>3, <2>8, PhaseStep
  <2>10. LockMatchesBlocks'
    <3>1. LockOf(c, o)'
      <4>1. owner'[o] = c /\ await'[c].obj # o
        BY <1>1, <1>2, <2>1, MonitorAssumption DEF TypeOK
      <4>2. owner[o] = NoContext => Nesting(c, o) = 0
        BY <1>1, <1>2, <2>5, MonitorAssumption DEF LockOf
      <4>3. count'[o] = Nesting(c, o)'
        BY <1>1, <1>6, <2>1, <2>5, <4>2 DEF LockOf, TypeOK
      <4>4. QED
        BY <2>5, <4>1, <4>3 DEF LockOf
    <3>2. \A p \in Objects \ {o} : owner'[p] = owner[p] /\ count'[p] = count[p]
      BY <1>1, <2>1 DEF TypeOK
    <3>3. owner'[o] = c
      BY <1>1, <2>1 DEF TypeOK
    <3>4. QED
      BY <1>1, <1>2, <1>3, <1>6, <2>6, <3>1, <3>2, <3>3, LockStep
  <2>11. NoDanglingMonitor'
    <3>1. \A p \in Objects, k \in Kinds : <<c, k>> \in AliveOn(p) => <<c, k>> \in AliveOn(p)'
      BY <1>1, <1>2, NotPending, AliveIs, AliveIsNext DEF Kinds
    <3>2. \A m \in AliveOn(o) : m \in AliveOn(o)'
      <4>1. \A m \in AliveOn(o) : m[1] = c => m = <<c, m[2]>> /\ m[2] \in Kinds
        BY DEF AliveOn, Monitors, Kinds
      <4>2. QED
        BY <1>3, <3>1, <4>1, AliveStep
    <3>3. ListOver(chain'[o], AliveOn(o)')
      BY <1>1, <2>1, <3>2, Lists, ListWeaken
    <3>4. QED
      BY <1>1, <1>3, <2>1, <2>7, <3>1, <3>3, ListStep
  <2>12. QED
    BY <2>7, <2>9, <2>10, <2>11 DEF IInv
<1>7. CASE owner[o] \notin {NoContext, c}
  <2> DEFINE x == [obj |-> o, state |-> "pending"]
  <2> DEFINE m == <<c, "lock">>
  <2>1. /\ Push(c, o, "pending") /\ UNCHANGED <<owner, count>>
        /\ chain' = [chain EXCEPT ![o] = AddMonitor(m, chain[o])]
        /\ ctxMonitor' = [ctxMonitor EXCEPT ![c] = TRUE]
        /\ pc' = [pc EXCEPT ![c] = "blocked"]
    BY <1>1, <1>7 DEF Synchronize, TypeOK
  <2>2. x \in Locker /\ \A p : x # LockedOn(p)
    BY DEF LockedOn, Locker
  <2>3. lockers' = [lockers EXCEPT ![c] = Append(s, x)] /\ lockers'[c] = Append(s, x)
    BY <1>1, <2>1 DEF Push, TypeOK
  <2>4. /\ lockers'[c] \in Seq(Locker)
        /\ DOMAIN lockers'[c] = 1..(Len(s) + 1) /\ Depth(c)' = Len(s) + 1
        /\ lockers'[c][Len(s) + 1] = x /\ Top(c)' = x
        /\ \A i \in 1..Len(s) : lockers'[c][i] = s[i]
    <3>1. Append(s, x) \in Seq(Locker)
      BY <1>2, <2>2, HeldAppend
    <3>2. QED
      BY <1>2, <1>4, <2>2, <2>3, <3>1, AppendProperties, LenProperties DEF Depth, Top
  <2>5. \A p \in Objects : Nesting(c, p)' = Nesting(c, p)
    BY <1>2, <2>2, <2>3, HeldAppend DEF Nesting
  <2>6. m \in AliveOn(o)' /\ m \in Monitors
    <3>1. ctxMonitor'[c]
      BY <1>1, <2>1 DEF TypeOK
    <3>2. Depth(c)' > 0
      BY <1>4, <2>4
    <3>3. QED
      BY <2>4, <3>1, <3>2, AliveIsNext DEF Monitors
  <2>7. \A k \in Kinds, p \in Objects : <<c, k>> \notin AliveOn(p)
    BY <1>1, <1>2, NotPending, AliveIs, MonitorAssumption DEF Kinds
  <2>8. \A n \in AliveOn(o) : n \in AliveOn(o)' /\ n # m
    <3>1. \A n \in AliveOn(o) : n[1] = c => n = <<c, n[2]>> /\ n[2] \in Kinds
      BY DEF AliveOn, Monitors, Kinds
    <3>2. QED
      BY <1>3, <2>7, <3>1, AliveStep
  <2>9. ListOver(AddMonitor(m, chain[o]), AliveOn(o)')
    <3>1. ListOver(chain[o], AliveOn(o)' \ {m})
      BY <1>1, <2>8, Lists, ListWeaken
    <3>2. QED
      BY <2>6, <3>1, AddList
  <2>10. TypeOK'
    <3>1. AddMonitor(m, chain[o]) \in Seq(Monitors)
      BY <2>9, SeqMonotonic DEF ListOver, AliveOn
    <3>2. QED
      BY <1>1, <1>2, <2>1, <2>3, <2>4, <3>1 DEF TypeOK, PCs
  <2>11. Phase(c)'
    <3>1. /\ pc'[c] = "blocked" /\ Depth(c)' > 0 /\ Top(c)'.state = "pending"
          /\ await'[c] = await[c]
      BY <1>1, <1>2, <1>4, <2>1, <2>4 DEF TypeOK
    <3>2. \A i \in DOMAIN lockers'[c] : lockers'[c][i].state = "pending" => i = Depth(c)'
      BY <1>4, <1>5, <2>4
    <3>3. \A i, j \in DOMAIN lockers'[c] :
             i < j /\ lockers'[c][i].obj = lockers'[c][j].obj
                 /\ lockers'[c][j].state = "lost" => lockers'[c][i].state # "locked"
      BY <1>1, <1>4, <2>4 DEF Phase
    <3>4. QED
      BY <1>2, <3>1, <3>2, <3>3 DEF Phase
  <2>12. Phases'
    BY <1>1, <1>3, <2>11, PhaseStep
  <2>13. LockMatchesBlocks'
    <3>1. LockOf(c, o)'
      BY <1>1, <1>2, <2>1, <2>5 DEF LockOf
    <3>2. QED
      BY <1>1, <1>2, <1>3, <2>1, <2>5, <3>1, LockStep
  <2>14. NoDanglingMonitor'
    <3>1. \A p \in Objects \ {o} : chain'[p] = chain[p]
      BY <1>1, <2>1 DEF TypeOK
    <3>2. chain'[o] = AddMonitor(m, chain[o])
      BY <1>1, <2>1 DEF TypeOK
    <3>3. QED
      BY <1>1, <1>3, <2>7, <2>9, <2>10, <3>1, <3>2, ListStep
  <2>15. QED
    BY <2>10, <2>12, <2>13, <2>14 DEF IInv
<1>8. QED
  BY <1>6, <1>7

(* The monitors of the other contexts that are alive on o. *)
OthersOn(c, o) == {m \in AliveOn(o) : m[1] # c}

(* AliveStep for all monitors of an object at once. *)
LEMMA OthersStay ==
    ASSUME NEW c \in Contexts, \A d \in Contexts \ {c} : Undisturbed(d), NEW o \in Objects
    PROVE  OthersOn(c, o) \subseteq AliveOn(o)'
  BY AliveStep DEF OthersOn

(* A living monitor belongs to another context or is one of the three of c. *)
LEMMA OwnKinds ==
    ASSUME NEW c \in Contexts, NEW o \in Objects, NEW m \in AliveOn(o)
    PROVE  m \in OthersOn(c, o) \/ \E k \in Kinds : m = <<c, k>>
<1>1. CASE m[1] = c
  <2>1. m = <<c, m[2]>> /\ m[2] \in Kinds
    BY <1>1 DEF AliveOn, Monitors, Kinds
  <2>2. QED
    BY <2>1
<1>2. QED
  BY <1>1 DEF OthersOn

(* A context that is not in wait() has no monitor of a wait() alive. *)
LEMMA NotInWait ==
    ASSUME NEW c \in Contexts, await[c].obj = NoObject, NEW o \in Objects,
           NEW k \in Kinds, <<c, k>> \in AliveOn(o)
    PROVE  k = "lock" /\ Depth(c) > 0 /\ Top(c) = [obj |-> o, state |-> "pending"]
<1>1. o # NoObject
  BY MonitorAssumption
<1>2. k = "lock"
  BY <1>1, AliveIs DEF Kinds
<1>3. QED
  BY <1>2, AliveIs

(* A poll of WaitSynchronized takes a free lock. *)
LEMMA WaitSyncStep ==
    ASSUME IInv, NEW c \in Contexts, WaitSync(c),
           NEW s, s = lockers[c], NEW o, o = Top(c).obj
    PROVE  IInv'
<1> DEFINE m == <<c, "lock">>
<1>1. TypeOK /\ Phases /\ Phase(c) /\ LockMatchesBlocks /\ NoDanglingMonitor
  BY DEF IInv, Phases
<1>2. /\ pc[c] = "blocked" /\ await[c].obj = NoObject /\ ~await[c].listening
      /\ await' = await /\ target' = target /\ hung' = hung
      /\ s \in Seq(Locker) /\ Depth(c) = Len(s) /\ Len(s) > 0 /\ s[Len(s)].state = "pending"
  BY <1>1 DEF WaitSync, Phase, TypeOK, Depth, Top
<1>3. DOMAIN s = 1..Len(s) /\ Len(s) \in Nat
  BY <1>2, LenProperties
<1>4. o \in Objects /\ s[Len(s)] = [obj |-> o, state |-> "pending"]
  <2>1. s[Len(s)] \in Locker
    BY <1>2, <1>3, ElementOfSeq
  <2>2. QED
    BY <1>2, <2>1 DEF Locker, Top
<1>5. /\ owner[o] = NoContext
      /\ owner' = [owner EXCEPT ![o] = c] /\ count' = [count EXCEPT ![o] = 1]
      /\ chain' = [chain EXCEPT ![o] = DetachMonitor(m, chain[o])]
      /\ ctxMonitor' = [ctxMonitor EXCEPT ![c] = FALSE]
      /\ lockers' = [lockers EXCEPT ![c] = [s EXCEPT ![Len(s)].state = "locked"]]
      /\ pc' = [pc EXCEPT ![c] = "run"]
  BY <1>1, <1>2, <1>4 DEF WaitSync, Unlocked, TypeOK
<1>6. /\ lockers'[c] = [s EXCEPT ![Len(s)].state = "locked"] /\ pc'[c] = "run"
      /\ owner'[o] = c /\ count'[o] = 1 /\ chain'[o] = DetachMonitor(m, chain[o])
      /\ \A p \in Objects \ {o} :
            owner'[p] = owner[p] /\ count'[p] = count[p] /\ chain'[p] = chain[p]
  BY <1>1, <1>4, <1>5 DEF TypeOK
<1>7. \A d \in Contexts \ {c} : Undisturbed(d)
  BY <1>1, <1>2, <1>5 DEF Undisturbed, TypeOK
<1>8. PICK t : t = lockers'[c]
  OBVIOUS
<1>9. /\ t \in Seq(Locker) /\ Len(t) = Len(s) /\ DOMAIN t = 1..Len(s)
      /\ t[Len(s)] = LockedOn(o)
      /\ \A i \in 1..Len(s) : i # Len(s) => t[i] = s[i]
  <2>1. /\ DOMAIN t = 1..Len(s) /\ t = [i \in DOMAIN t |-> t[i]] /\ t[Len(s)] = LockedOn(o)
        /\ \A i \in 1..Len(s) : i # Len(s) => t[i] = s[i]
    BY <1>2, <1>3, <1>4, <1>6, <1>8 DEF LockedOn
  <2>2. LockedOn(o) \in Locker
    BY <1>4 DEF LockedOn, Locker
  <2>3. QED
    BY <1>2, <1>3, <2>1, <2>2, LockingType
<1>10. /\ lockers'[c] = t /\ lockers'[c] \in Seq(Locker)
       /\ Depth(c)' = Len(s) /\ DOMAIN lockers'[c] = 1..Len(s)
       /\ \A i \in 1..Len(s) : i # Len(s) => lockers'[c][i] = s[i]
       /\ lockers'[c][Len(s)] = LockedOn(o)
       /\ Nesting(c, o)' = Nesting(c, o) + 1 /\ Nesting(c, o) \in Nat
       /\ \A p \in Objects \ {o} : Nesting(c, p)' = Nesting(c, p)
  <2>1. Nesting(c, o)' = Nesting(c, o) + 1 /\ Nesting(c, o) \in Nat
    BY <1>2, <1>3, <1>8, <1>9, HeldLock, HeldType DEF Nesting
  <2>2. \A p \in Objects \ {o} : Nesting(c, p)' = Nesting(c, p)
    <3>1. ASSUME NEW p \in Objects \ {o} PROVE HeldIn(t, p) = HeldIn(s, p)
      BY <1>2, <1>3, <1>4, <1>9, HeldLock
    <3>2. QED
      BY <1>2, <1>8, <3>1 DEF Nesting
  <2>3. QED
    BY <1>8, <1>9, <2>1, <2>2 DEF Depth
<1>11. ListOver(chain'[o], AliveOn(o)')
  <2>1. ListOver(chain'[o], AliveOn(o) \ {m})
    BY <1>1, <1>4, <1>6, Lists, DetachList
  <2>2. AliveOn(o) \ {m} \subseteq OthersOn(c, o)
    BY <1>2, <1>4, OwnKinds, NotInWait
  <2>3. AliveOn(o) \ {m} \subseteq AliveOn(o)'
    BY <1>4, <1>7, <2>2, OthersStay
  <2>4. QED
    BY <2>1, <2>3, ListWeaken
<1>12. TypeOK'
  <2>1. chain'[o] \in Seq(Monitors)
    BY <1>11, SeqMonotonic DEF ListOver, AliveOn
  <2>2. QED
    BY <1>1, <1>2, <1>4, <1>5, <1>6, <1>10, <2>1 DEF TypeOK, PCs
<1>13. Phase(c)'
  <2>1. \A i \in DOMAIN lockers'[c] : lockers'[c][i].state # "pending"
    BY <1>1, <1>2, <1>3, <1>10 DEF Phase, LockedOn
  <2>2. \A i, j \in DOMAIN lockers'[c] :
           i < j /\ lockers'[c][i].obj = lockers'[c][j].obj
               /\ lockers'[c][j].state = "lost" => lockers'[c][i].state # "locked"
    BY <1>1, <1>3, <1>10 DEF Phase, LockedOn
  <2>3. QED
    BY <1>2, <1>6, <2>1, <2>2 DEF Phase
<1>14. Phases'
  BY <1>1, <1>7, <1>13, PhaseStep
<1>15. LockMatchesBlocks'
  <2>1. Nesting(c, o) = 0
    <3>1. owner[o] = c <=> Nesting(c, o) > 0 /\ await[c].obj # o
      BY <1>1, <1>4, LockMatches DEF LockOf
    <3>2. owner[o] # c /\ await[c].obj # o
      BY <1>2, <1>4, <1>5, MonitorAssumption
    <3>3. QED
      BY <1>10, <3>1, <3>2
  <2>2. LockOf(c, o)'
    BY <1>2, <1>4, <1>6, <1>10, <2>1, MonitorAssumption DEF LockOf
  <2>3. QED
    BY <1>1, <1>2, <1>4, <1>5, <1>6, <1>7, <1>10, <2>2, LockStep
<1>16. NoDanglingMonitor'
  <2>1. \A p \in Objects \ {o}, k \in Kinds : <<c, k>> \notin AliveOn(p)
    BY <1>2, NotInWait
  <2>2. QED
    BY <1>1, <1>4, <1>6, <1>7, <1>11, <1>12, <2>1, ListStep
<1>17. QED
  BY <1>12, <1>14, <1>15, <1>16 DEF IInv

(* The second half of wait(): the monitor of the first half has left the list. *)
LEMMA RelockStep ==
    ASSUME IInv, NEW c \in Contexts, NEW o \in Objects, NEW ch,
           pc[c] \in {"waiting", "sleeping", "relock"}, await[c].obj = o,
           ListOver(ch, OthersOn(c, o) \cup {<<c, "relock">>}),
           Relock(c, o, ch), UNCHANGED <<lockers, ctxMonitor, target, hung>>
    PROVE  IInv'
<1> DEFINE m == <<c, "relock">>
<1>1. TypeOK /\ Phases /\ Phase(c) /\ LockMatchesBlocks /\ NoDanglingMonitor /\ LockOf(c, o)
  BY LockMatches DEF IInv, Phases
<1>2. o # NoObject /\ await[c] \in Awaiting
  BY <1>1, MonitorAssumption DEF TypeOK
<1>3. \A i \in DOMAIN lockers[c] : lockers[c][i].state # "pending"
  BY <1>1, NotPending
<1>4. \A p \in Objects : Nesting(c, p)' = Nesting(c, p)
  BY DEF Nesting
<1>5. \A p \in Objects \ {o}, k \in Kinds : <<c, k>> \notin AliveOn(p)
  BY <1>1, NotPending, AliveIs DEF Kinds
<1>6. CASE CanRelock(c)
  <2>1. /\ owner' = [owner EXCEPT ![o] = c] /\ count' = [count EXCEPT ![o] = await[c].saved]
        /\ chain' = [chain EXCEPT ![o] = DetachMonitor(m, ch)]
        /\ await' = [await EXCEPT ![c] = NotAwaiting]
        /\ pc' = [pc EXCEPT ![c] = "run"]
        /\ owner[o] = NoContext
    BY <1>6 DEF Relock, CanRelock, Unlocked
  <2>2. /\ owner'[o] = c /\ count'[o] = await[c].saved /\ chain'[o] = DetachMonitor(m, ch)
        /\ await'[c] = NotAwaiting /\ pc'[c] = "run"
        /\ \A p \in Objects \ {o} :
              owner'[p] = owner[p] /\ count'[p] = count[p] /\ chain'[p] = chain[p]
    BY <1>1, <2>1 DEF TypeOK
  <2>3. \A d \in Contexts \ {c} : Undisturbed(d)
    BY <1>1, <2>1 DEF Undisturbed, TypeOK
  <2>4. ListOver(chain'[o], AliveOn(o)')
    <3>1. ListOver(chain'[o], (OthersOn(c, o) \cup {m}) \ {m})
      BY <2>2, DetachList
    <3>2. (OthersOn(c, o) \cup {m}) \ {m} \subseteq AliveOn(o)'
      BY <2>3, OthersStay
    <3>3. QED
      BY <3>1, <3>2, ListWeaken
  <2>5. TypeOK'
    <3>1. chain'[o] \in Seq(Monitors)
      BY <2>4, SeqMonotonic DEF ListOver, AliveOn
    <3>2. await[c].saved \in Nat /\ NotAwaiting \in Awaiting
      BY <1>2 DEF Awaiting, NotAwaiting
    <3>3. QED
      BY <1>1, <2>1, <2>2, <3>1, <3>2 DEF TypeOK, PCs
  <2>6. Phase(c)'
    BY <1>1, <1>3, <2>2 DEF Phase, NotAwaiting
  <2>7. Phases'
    BY <1>1, <2>3, <2>6, PhaseStep
  <2>8. LockMatchesBlocks'
    <3>1. await'[c].obj = NoObject
      BY <2>2 DEF NotAwaiting
    <3>2. LockOf(c, o)'
      BY <1>1, <1>2, <1>4, <2>2, <3>1 DEF LockOf
    <3>3. \A p \in Objects : p # NoObject
      BY MonitorAssumption
    <3>4. QED
      BY <1>1, <1>4, <2>1, <2>2, <2>3, <3>1, <3>2, <3>3, LockStep
  <2>9. NoDanglingMonitor'
    BY <1>1, <1>5, <2>2, <2>3, <2>4, <2>5, ListStep
  <2>10. QED
    BY <2>5, <2>7, <2>8, <2>9 DEF IInv
<1>7. CASE ~CanRelock(c)
  <2>1. /\ chain' = [chain EXCEPT ![o] = ch]
        /\ await' = [await EXCEPT ![c] = [@ EXCEPT !.listening = FALSE]]
        /\ pc' = [pc EXCEPT ![c] = "relock"]
        /\ owner' = owner /\ count' = count
    BY <1>7 DEF Relock
  <2>2. /\ chain'[o] = ch /\ pc'[c] = "relock"
        /\ await'[c] = [await[c] EXCEPT !.listening = FALSE]
        /\ \A p \in Objects \ {o} : chain'[p] = chain[p]
    BY <1>1, <2>1 DEF TypeOK
  <2>3. /\ await'[c] \in Awaiting /\ await'[c].obj = o /\ ~await'[c].listening
        /\ await'[c].saved = await[c].saved
    BY <1>2, <2>2 DEF Awaiting
  <2>4. \A d \in Contexts \ {c} : Undisturbed(d)
    BY <1>1, <2>1 DEF Undisturbed, TypeOK
  <2>5. ListOver(chain'[o], AliveOn(o)')
    <3>1. m \in AliveOn(o)'
      BY <2>3, AliveIsNext
    <3>2. OthersOn(c, o) \cup {m} \subseteq AliveOn(o)'
      BY <2>4, <3>1, OthersStay
    <3>3. QED
      BY <2>2, <3>2, ListWeaken
  <2>6. TypeOK'
    <3>1. chain'[o] \in Seq(Monitors)
      BY <2>5, SeqMonotonic DEF ListOver, AliveOn
    <3>2. QED
      BY <1>1, <2>1, <2>2, <2>3, <3>1 DEF TypeOK, PCs
  <2>7. Phase(c)'
    BY <1>1, <1>2, <1>3, <2>2, <2>3 DEF Phase
  <2>8. Phases'
    BY <1>1, <2>4, <2>7, PhaseStep
  <2>9. LockMatchesBlocks'
    <3>1. LockOf(c, o)'
      BY <1>1, <1>4, <2>1, <2>3 DEF LockOf
    <3>2. QED
      BY <1>1, <1>4, <2>1, <2>3, <2>4, <3>1, LockStep
  <2>10. NoDanglingMonitor'
    BY <1>1, <1>5, <2>2, <2>4, <2>5, <2>6, ListStep
  <2>11. QED
    BY <2>6, <2>8, <2>9, <2>10 DEF IInv
<1>8. QED
  BY <1>6, <1>7

(* The list of o while c waits for the lock: what Relock may assume of it. *)
LEMMA RelockList ==
    ASSUME TypeOK, NoDanglingMonitor, NEW c \in Contexts, Phase(c), NEW o \in Objects,
           await[c].obj = o
    PROVE  /\ ~await[c].listening =>
                ListOver(chain[o], OthersOn(c, o) \cup {<<c, "relock">>})
           /\ await[c].listening =>
                ListOver(AddMonitor(<<c, "relock">>, DetachMonitor(<<c, "notify">>, chain[o])),
                         OthersOn(c, o) \cup {<<c, "relock">>})
<1>1. <<c, "lock">> \notin AliveOn(o)
  BY NotPending, MonitorAssumption DEF Phase
<1>2. CASE ~await[c].listening
  <2>1. <<c, "notify">> \notin AliveOn(o)
    BY <1>2, AliveIs
  <2>2. AliveOn(o) \subseteq OthersOn(c, o) \cup {<<c, "relock">>}
    BY <1>1, <2>1, OwnKinds DEF Kinds
  <2>3. QED
    BY <1>2, <2>2, Lists, ListWeaken
<1>3. CASE await[c].listening
  <2>1. <<c, "relock">> \notin AliveOn(o)
    BY <1>3, AliveIs
  <2>2. AliveOn(o) \ {<<c, "notify">>} \subseteq OthersOn(c, o)
    BY <1>1, <2>1, OwnKinds DEF Kinds
  <2>3. <<c, "relock">> \notin OthersOn(c, o)
    BY DEF OthersOn
  <2>4. OthersOn(c, o) = (OthersOn(c, o) \cup {<<c, "relock">>}) \ {<<c, "relock">>}
    BY <2>3
  <2>5. ListOver(DetachMonitor(<<c, "notify">>, chain[o]), OthersOn(c, o))
    <3>1. ListOver(DetachMonitor(<<c, "notify">>, chain[o]), AliveOn(o) \ {<<c, "notify">>})
      BY Lists, DetachList
    <3>2. QED
      BY <2>2, <3>1, ListWeaken
  <2>6. QED
    BY <1>3, <2>4, <2>5, AddList
<1>4. QED
  BY <1>2, <1>3

(* A step of c that changes at most the flags of its wait() and its phase. *)
LEMMA QuietStep ==
    ASSUME IInv, NEW c \in Contexts, TypeOK', Phase(c)',
           UNCHANGED <<owner, count, chain, lockers, ctxMonitor>>,
           \A d \in Contexts : /\ await'[d].obj = await[d].obj
                               /\ await'[d].saved = await[d].saved
                               /\ await'[d].listening = await[d].listening,
           \A d \in Contexts \ {c} : pc'[d] = pc[d]
    PROVE  IInv'
<1>1. Phases'
  BY PhaseStep DEF IInv, Undisturbed
<1>2. LockMatchesBlocks' /\ NoDanglingMonitor'
  BY LockFrame, ListFrame DEF IInv
<1>3. QED
  BY <1>1, <1>2 DEF IInv

(* A poll of wait() enters the condition wait. *)
LEMMA WaitPollStep ==
    ASSUME IInv, NEW c \in Contexts, WaitPoll(c)
    PROVE  IInv'
<1>1. TypeOK /\ Phase(c) /\ pc[c] = "waiting" /\ await[c].listening
  BY DEF IInv, Phases, WaitPoll, Listening
<1>2. /\ await' = [await EXCEPT ![c] = [@ EXCEPT !.woken = FALSE, !.zero = NothingRemains(c)]]
      /\ pc' = [pc EXCEPT ![c] = "sleeping"]
      /\ UNCHANGED <<owner, count, chain, lockers, ctxMonitor, target, hung>>
  BY <1>1 DEF WaitPoll, TypeOK
<1>3. NothingRemains(c) \in BOOLEAN
  BY <1>1 DEF NothingRemains, TypeOK, Awaiting
<1>4. /\ await'[c] \in Awaiting /\ await'[c].obj = await[c].obj
      /\ await'[c].saved = await[c].saved /\ await'[c].listening
      /\ pc'[c] = "sleeping"
  BY <1>1, <1>2, <1>3 DEF TypeOK, Awaiting
<1>5. TypeOK'
  BY <1>1, <1>2, <1>4 DEF TypeOK, PCs
<1>6. Phase(c)'
  BY <1>1, <1>2, <1>4, NotPending DEF Phase
<1>7. QED
  BY <1>1, <1>2, <1>4, <1>5, <1>6, QuietStep DEF TypeOK

(* The condition wait for the notification returns. *)
LEMMA WakeUpStep ==
    ASSUME IInv, NEW c \in Contexts, WakeUp(c), NEW o, o = await[c].obj
    PROVE  IInv'
<1> DEFINE ch == AddMonitor(<<c, "relock">>, DetachMonitor(<<c, "notify">>, chain[o]))
<1>1. TypeOK /\ NoDanglingMonitor /\ Phase(c) /\ pc[c] = "sleeping" /\ await[c].listening
  BY DEF IInv, Phases, Phase, WakeUp
<1>2. o \in Objects
  BY <1>1 DEF TypeOK, Phase, Awaiting
<1>3. UNCHANGED <<lockers, ctxMonitor, target, hung>>
  BY DEF WakeUp
<1>4. CASE Relock(c, o, ch)
  <2>1. ListOver(ch, OthersOn(c, o) \cup {<<c, "relock">>})
    BY <1>1, <1>2, RelockList
  <2> HIDE DEF ch
  <2>2. QED
    BY <1>1, <1>2, <1>3, <1>4, <2>1, RelockStep
<1>5. CASE /\ pc' = [pc EXCEPT ![c] = "waiting"]
           /\ await' = [await EXCEPT ![c].woken = FALSE]
           /\ UNCHANGED <<owner, count, chain>>
  <2>1. await'[c] = [await[c] EXCEPT !.woken = FALSE]
        /\ \A d \in Contexts \ {c} : await'[d] = await[d]
    BY <1>1, <1>5 DEF TypeOK
  <2>2. /\ await'[c] \in Awaiting /\ await'[c].obj = await[c].obj
        /\ await'[c].saved = await[c].saved /\ await'[c].listening
        /\ pc'[c] = "waiting"
    BY <1>1, <1>5, <2>1 DEF TypeOK, Awaiting
  <2>3. TypeOK'
    BY <1>1, <1>3, <1>5, <2>2 DEF TypeOK, PCs
  <2>4. Phase(c)'
    BY <1>1, <1>3, <1>5, <2>2, NotPending DEF Phase
  <2>5. \A d \in Contexts : /\ await'[d].obj = await[d].obj
                            /\ await'[d].saved = await[d].saved
                            /\ await'[d].listening = await[d].listening
    BY <1>1, <2>1, <2>2
  <2>6. \A d \in Contexts \ {c} : pc'[d] = pc[d]
    BY <1>1, <1>5 DEF TypeOK
  <2>7. QED
    BY <1>3, <1>5, <2>3, <2>4, <2>5, <2>6, QuietStep
<1>6. QED
  BY <1>4, <1>5 DEF WakeUp

(* Another attempt of wait() to take its lock back. *)
LEMMA RelockAgain ==
    ASSUME IInv, NEW c \in Contexts, pc[c] \in {"waiting", "relock"}, ~await[c].listening,
           NEW o, o = await[c].obj, Relock(c, o, chain[o]),
           UNCHANGED <<lockers, ctxMonitor, target, hung>>
    PROVE  IInv'
<1>1. TypeOK /\ NoDanglingMonitor /\ Phase(c)
  BY DEF IInv, Phases
<1>2. o \in Objects
  BY <1>1 DEF TypeOK, Phase, Awaiting
<1>3. PICK ch : ch = chain[o]
  OBVIOUS
<1>4. ListOver(ch, OthersOn(c, o) \cup {<<c, "relock">>}) /\ Relock(c, o, ch)
  BY <1>1, <1>2, <1>3, RelockList
<1>5. QED
  BY <1>2, <1>4, RelockStep

(* The condition wait for the lock returns. *)
LEMMA RelockWakeUpStep ==
    ASSUME IInv, NEW c \in Contexts, RelockWakeUp(c)
    PROVE  IInv'
<1>1. TypeOK /\ Phase(c) /\ pc[c] = "relock" /\ ~await[c].listening
      /\ UNCHANGED <<lockers, ctxMonitor, target, hung>>
  BY DEF IInv, Phases, Phase, RelockWakeUp
<1>2. CASE CanRelock(c)
  BY <1>1, <1>2, RelockAgain DEF RelockWakeUp
<1>3. CASE ~CanRelock(c)
  <2>1. pc' = [pc EXCEPT ![c] = "waiting"] /\ UNCHANGED <<owner, count, chain, await>>
    BY <1>3 DEF RelockWakeUp
  <2>2. pc'[c] = "waiting"
    BY <1>1, <2>1 DEF TypeOK
  <2>3. TypeOK'
    BY <1>1, <2>1 DEF TypeOK, PCs
  <2>4. Phase(c)'
    BY <1>1, <2>1, <2>2, NotPending DEF Phase
  <2>5. QED
    BY <1>1, <2>1, <2>3, <2>4, QuietStep DEF TypeOK
<1>4. QED
  BY <1>2, <1>3

(* The next poll of a wait() that needs its lock. *)
LEMMA RelockPollStep ==
    ASSUME IInv, NEW c \in Contexts, RelockPoll(c)
    PROVE  IInv'
  BY RelockAgain DEF RelockPoll

(* The timeout of wait( timeout ) elapses. *)
LEMMA ExpireStep ==
    ASSUME IInv, NEW c \in Contexts, Expire(c)
    PROVE  IInv'
<1>1. TypeOK /\ Phase(c)
  BY DEF IInv, Phases
<1>2. /\ await' = [await EXCEPT ![c] = [@ EXCEPT !.expired = TRUE]]
      /\ UNCHANGED <<owner, count, chain, lockers, ctxMonitor, pc, target, hung>>
  BY <1>1 DEF Expire, TypeOK
<1>3. /\ await'[c] \in Awaiting /\ await'[c].obj = await[c].obj
      /\ await'[c].saved = await[c].saved /\ await'[c].listening = await[c].listening
  BY <1>1, <1>2 DEF TypeOK, Awaiting
<1>4. TypeOK'
  BY <1>1, <1>2, <1>3 DEF TypeOK
<1>5. Phase(c)'
  BY <1>1, <1>2, <1>3 DEF Phase, Depth, Top
<1>6. QED
  BY <1>1, <1>2, <1>3, <1>4, <1>5, QuietStep DEF TypeOK

(* The function of a context ends or begins, or its OS thread deadlocks. *)
LEMMA PassiveStep ==
    ASSUME IInv, NEW c \in Contexts, End(c) \/ Begin(c) \/ Hang(c)
    PROVE  IInv'
<1>1. TypeOK /\ Phase(c)
  BY DEF IInv, Phases
<1>2. UNCHANGED <<owner, count, chain, lockers, ctxMonitor, await, target>>
  BY DEF End, Begin, Hang
<1>3. CASE Hang(c)
  <2>1. pc' = pc /\ TypeOK'
    BY <1>1, <1>3 DEF Hang, TypeOK
  <2>2. Phase(c)'
    BY <1>1, <1>2, <2>1 DEF Phase, Depth, Top
  <2>3. QED
    BY <1>2, <2>1, <2>2, QuietStep
<1>4. CASE End(c) \/ Begin(c)
  <2>1. pc[c] \in {"run", "dying", "done"} /\ pc'[c] \in {"run", "done"} /\ hung' = hung
        /\ \A d \in Contexts \ {c} : pc'[d] = pc[d]
    BY <1>1, <1>4 DEF End, Begin, TypeOK
  <2>2. TypeOK'
    BY <1>1, <1>2, <1>4, <2>1 DEF End, Begin, TypeOK, PCs
  <2>3. \A i \in DOMAIN lockers[c] : lockers[c][i].state # "pending"
    <3>1. CASE End(c)
      <4>1. DOMAIN lockers[c] = 1..0
        BY <1>1, <3>1, LenProperties DEF End, Depth, TypeOK
      <4>2. QED
        BY <4>1
    <3>2. CASE Begin(c)
      BY <1>1, <3>2, NotPending DEF Begin
    <3>3. QED
      BY <1>4, <3>1, <3>2
  <2>4. Phase(c)'
    BY <1>1, <1>2, <2>1, <2>3 DEF Phase
  <2>5. QED
    BY <1>2, <2>1, <2>2, <2>4, QuietStep
<1>5. QED
  BY <1>3, <1>4

(* wait() gives the lock up and keeps the number of its blocks. *)
LEMMA AwaitStep ==
    ASSUME IInv, NEW c \in Contexts, NEW o \in Objects, NEW timed \in BOOLEAN,
           AwaitNotification(c, o, timed)
    PROVE  IInv'
<1> DEFINE m == <<c, "notify">>
<1>1. /\ TypeOK /\ Phases /\ Phase(c) /\ LockMatchesBlocks /\ NoDanglingMonitor /\ LockOf(c, o)
      /\ pc[c] = "run" /\ owner[o] = c /\ await[c].obj = NoObject
  BY LockMatches DEF IInv, Phases, Phase, AwaitNotification
<1>2. PICK ch : ch = NotifyAllMonitor("synchronized", chain[o])
  OBVIOUS
<1>3. /\ await' = [await EXCEPT ![c] = [NotAwaiting EXCEPT
                     !.obj = o, !.saved = SavedCount(o), !.listening = TRUE, !.timed = timed]]
      /\ owner' = [owner EXCEPT ![o] = NoContext]
      /\ chain' = [chain EXCEPT ![o] = AddMonitor(m, ch)]
      /\ pc' = [pc EXCEPT ![c] = "waiting"]
      /\ UNCHANGED <<count, lockers, ctxMonitor, target, hung>>
  BY <1>1, <1>2 DEF AwaitNotification, TypeOK
<1>4. /\ owner'[o] = NoContext /\ chain'[o] = AddMonitor(m, ch) /\ pc'[c] = "waiting"
      /\ \A p \in Objects \ {o} : owner'[p] = owner[p] /\ chain'[p] = chain[p]
  BY <1>1, <1>3 DEF TypeOK
<1>5. /\ await'[c] \in Awaiting /\ await'[c].obj = o /\ await'[c].saved = count[o]
      /\ await'[c].listening
  <2>1. count[o] \in Nat
    BY <1>1 DEF TypeOK
  <2>2. await'[c] = [NotAwaiting EXCEPT
                       !.obj = o, !.saved = count[o], !.listening = TRUE, !.timed = timed]
    BY <1>1, <1>3 DEF TypeOK, SavedCount
  <2>3. QED
    BY <2>1, <2>2 DEF NotAwaiting, Awaiting
<1>6. \A d \in Contexts \ {c} : Undisturbed(d)
  BY <1>1, <1>3 DEF Undisturbed, TypeOK
<1>7. \A p \in Objects, k \in Kinds : <<c, k>> \notin AliveOn(p)
  <2>1. \A p \in Objects : <<c, "lock">> \notin AliveOn(p)
    BY <1>1, NotPending
  <2>2. QED
    BY <1>1, <2>1, NotInWait
<1>8. ListOver(chain'[o], AliveOn(o)')
  <2>1. m \in AliveOn(o)'
    BY <1>5, AliveIsNext
  <2>2. AliveOn(o) \subseteq AliveOn(o)' \ {m}
    <3>1. AliveOn(o) \subseteq OthersOn(c, o)
      BY <1>7, OwnKinds
    <3>2. m \notin OthersOn(c, o)
      BY DEF OthersOn
    <3>3. QED
      BY <1>6, <3>1, <3>2, OthersStay
  <2>3. ListOver(ch, AliveOn(o))
    BY <1>1, <1>2, Lists, NotifyAllList
  <2>4. ListOver(ch, AliveOn(o)' \ {m})
    BY <2>2, <2>3, ListWeaken
  <2>5. QED
    BY <1>4, <2>1, <2>4, AddList
<1>9. TypeOK'
  <2>1. chain'[o] \in Seq(Monitors)
    BY <1>8, SeqMonotonic DEF ListOver, AliveOn
  <2>2. QED
    BY <1>1, <1>3, <1>4, <1>5, <2>1 DEF TypeOK, PCs
<1>10. Phase(c)'
  <2>1. \A i \in DOMAIN lockers[c] : lockers[c][i].state # "pending"
    BY <1>1, NotPending
  <2>2. o # NoObject
    BY MonitorAssumption
  <2>3. QED
    BY <1>1, <1>3, <1>4, <1>5, <2>1, <2>2 DEF Phase
<1>11. Phases'
  BY <1>1, <1>6, <1>10, PhaseStep
<1>12. LockMatchesBlocks'
  <2>1. \A p \in Objects : Nesting(c, p)' = Nesting(c, p)
    BY <1>3 DEF Nesting
  <2>2. LockOf(c, o)'
    BY <1>1, <1>4, <1>5, <2>1, MonitorAssumption DEF LockOf
  <2>3. \A p \in Objects : p # NoObject
    BY MonitorAssumption
  <2>4. QED
    BY <1>1, <1>3, <1>4, <1>5, <1>6, <2>1, <2>2, <2>3, LockStep
<1>13. NoDanglingMonitor'
  BY <1>1, <1>4, <1>6, <1>7, <1>8, <1>9, ListStep
<1>14. QED
  BY <1>9, <1>11, <1>12, <1>13 DEF IInv

(* A notification takes monitors out of a list and marks the waits it reaches. *)
LEMMA WakeStep ==
    ASSUME IInv, NEW c \in Contexts, NEW o \in Objects, NEW ms, NEW ch,
           ListOver(ch, AliveOn(o)), chain' = [chain EXCEPT ![o] = ch], await' = Wake(ms),
           UNCHANGED <<owner, count, lockers, ctxMonitor, pc, target, hung>>
    PROVE  IInv'
<1>1. TypeOK /\ Phases /\ Phase(c) /\ LockMatchesBlocks /\ NoDanglingMonitor
  BY DEF IInv, Phases
<1>2. /\ await' \in [Contexts -> Awaiting]
      /\ \A d \in Contexts : /\ await'[d].obj = await[d].obj
                             /\ await'[d].saved = await[d].saved
                             /\ await'[d].listening = await[d].listening
  <2>1. ASSUME NEW d \in Contexts
        PROVE  /\ await'[d] \in Awaiting /\ await'[d].obj = await[d].obj
               /\ await'[d].saved = await[d].saved
               /\ await'[d].listening = await[d].listening
    <3>1. await[d] \in Awaiting
      BY <1>1 DEF TypeOK
    <3>2. await'[d] = await[d] \/ await'[d] = [await[d] EXCEPT !.woken = TRUE]
      BY DEF Wake
    <3>3. QED
      BY <3>1, <3>2 DEF Awaiting
  <2>2. await' = [d \in Contexts |-> await'[d]]
    BY DEF Wake
  <2>3. QED
    BY <2>1, <2>2
<1>3. \A d \in Contexts : Undisturbed(d)
  BY <1>2 DEF Undisturbed
<1>4. chain'[o] = ch /\ \A p \in Objects \ {o} : chain'[p] = chain[p]
  BY <1>1 DEF TypeOK
<1>5. ASSUME NEW p \in Objects PROVE AliveOn(p) \subseteq AliveOn(p)'
  <2>1. ASSUME NEW m \in AliveOn(p) PROVE Alive(m, p)'
    <3>1. m[1] \in Contexts /\ Alive(m, p)
      BY DEF AliveOn, Monitors
    <3>2. QED
      BY <1>3, <3>1 DEF Alive, Undisturbed, Depth, Top
  <2>2. QED
    BY <2>1 DEF AliveOn
<1>6. ListOver(chain'[o], AliveOn(o)')
  BY <1>4, <1>5, ListWeaken
<1>7. TypeOK'
  <2>1. chain'[o] \in Seq(Monitors)
    BY <1>6, SeqMonotonic DEF ListOver, AliveOn
  <2>2. QED
    BY <1>1, <1>2, <1>4, <2>1 DEF TypeOK
<1>8. Phases'
  BY <1>1, <1>3 DEF Phases, Phase, Undisturbed, Depth, Top
<1>9. LockMatchesBlocks'
  BY <1>1, <1>2, LockFrame
<1>10. NoDanglingMonitor'
  BY <1>1, <1>3, <1>4, <1>5, <1>6, <1>7, ListStep
<1>11. QED
  BY <1>7, <1>8, <1>9, <1>10 DEF IInv

(* Object.notify and notifyAll. *)
LEMMA NotifyStep ==
    ASSUME IInv, NEW c \in Contexts, NEW o \in Objects, Notify(c, o) \/ NotifyAll(c, o)
    PROVE  IInv'
<1>1. ListOver(chain[o], AliveOn(o))
  BY Lists DEF IInv
<1>2. UNCHANGED <<owner, count, lockers, ctxMonitor, pc, target, hung>>
  BY DEF Notify, NotifyAll
<1>3. CASE Notify(c, o)
  <2>1. PICK ch : ch = NotifyMonitor(chain[o])
    OBVIOUS
  <2>2. FirstNotify(chain[o]) \in DOMAIN chain[o]
    BY <1>1, <1>3, FirstNotifyExists DEF Notify, ListOver
  <2>3. ListOver(ch, AliveOn(o))
    BY <1>1, <1>3, <2>1, <2>2, NotifyList DEF Notify
  <2>4. PICK ms : ms = {chain[o][FirstNotify(chain[o])]}
    OBVIOUS
  <2>5. chain' = [chain EXCEPT ![o] = ch] /\ await' = Wake(ms)
    BY <1>3, <2>1, <2>4 DEF Notify, IInv, TypeOK
  <2>6. QED
    BY <1>2, <2>3, <2>5, WakeStep
<1>4. CASE NotifyAll(c, o)
  <2>1. PICK ch : ch = NotifyAllMonitor("notification", chain[o])
    OBVIOUS
  <2>2. ListOver(ch, AliveOn(o))
    BY <1>1, <2>1, NotifyAllList
  <2>3. PICK ms : ms = {chain[o][i] : i \in DOMAIN chain[o]}
    OBVIOUS
  <2>4. chain' = [chain EXCEPT ![o] = ch] /\ await' = Wake(ms)
    BY <1>4, <2>1, <2>3 DEF NotifyAll, IInv, TypeOK
  <2>5. QED
    BY <1>2, <2>2, <2>4, WakeStep
<1>5. QED
  BY <1>3, <1>4

(* The newest locker is released, locked, lost or pending. *)
LEMMA LeaveStep ==
    ASSUME IInv, NEW c \in Contexts, Leave(c), NEW s, s = lockers[c],
           NEW n, n = Depth(c), NEW o, o = Top(c).obj
    PROVE  IInv'
<1> DEFINE m == <<c, "lock">>
<1>1. /\ TypeOK /\ Phases /\ Phase(c) /\ LockMatchesBlocks /\ NoDanglingMonitor
      /\ pc[c] \in {"run", "unwind", "dying"} /\ await[c].obj = NoObject /\ n > 0
      /\ await' = await /\ hung' = hung
  BY DEF IInv, Phases, Phase, Leave
<1>2. s \in Seq(Locker) /\ Len(s) = n /\ n \in Nat /\ DOMAIN s = 1..n
  BY <1>1, LenProperties DEF TypeOK, Depth
<1>3. s[n] \in Locker /\ s[n].obj = o /\ o \in Objects
      /\ s[n].state \in {"pending", "locked", "lost"} /\ s[n] = [obj |-> o, state |-> s[n].state]
  <2>1. s[n] \in Locker
    BY <1>1, <1>2, ElementOfSeq
  <2>2. s[n] = Top(c)
    BY DEF Top
  <2>3. QED
    BY <2>1, <2>2 DEF Locker
<1>4. PICK t : t = SubSeq(s, 1, n - 1)
  OBVIOUS
<1>5. lockers' = [lockers EXCEPT ![c] = t] /\ lockers'[c] = t
  BY <1>1, <1>4 DEF Leave, TypeOK
<1>6. /\ t \in Seq(Locker) /\ DOMAIN t = 1..(n - 1) /\ Len(t) = n - 1
      /\ \A i \in 1..(n - 1) : t[i] = s[i]
      /\ \A p : s[n] = LockedOn(p) =>
                    Cardinality(HeldIn(s, p)) = Cardinality(HeldIn(t, p)) + 1
      /\ \A p : s[n] # LockedOn(p) => HeldIn(t, p) = HeldIn(s, p)
  <2>1. s \in Seq(Locker) /\ Len(s) > 0 /\ t = SubSeq(s, 1, Len(s) - 1)
    BY <1>1, <1>2, <1>4
  <2>2. ASSUME NEW p
        PROVE  /\ t \in Seq(Locker) /\ DOMAIN t = 1..(Len(s) - 1) /\ Len(t) = Len(s) - 1
               /\ \A i \in 1..(Len(s) - 1) : t[i] = s[i]
               /\ s[Len(s)] = LockedOn(p) =>
                      Cardinality(HeldIn(s, p)) = Cardinality(HeldIn(t, p)) + 1
               /\ s[Len(s)] # LockedOn(p) => HeldIn(t, p) = HeldIn(s, p)
    BY <2>1, HeldPop
  <2>3. QED
    BY <1>2, <2>2
<1>7. \A i \in 1..(n - 1) : t[i].state # "pending"
  BY <1>1, <1>2, <1>6 DEF Phase
<1>8. pc' \in [Contexts -> PCs] /\ target' \in [Contexts -> Nat]
      /\ pc'[c] \in {"run", "unwind", "dying"} /\ \A d \in Contexts \ {c} : pc'[d] = pc[d]
  <2>1. \/ pc' = [pc EXCEPT ![c] = "run"] /\ target' = [target EXCEPT ![c] = 0]
        \/ pc' = pc /\ target' = target
    BY DEF Leave
  <2>2. "run" \in PCs /\ 0 \in Nat
    BY DEF PCs
  <2>3. QED
    BY <1>1, <2>1, <2>2 DEF TypeOK
<1>9. /\ \A p \in Objects : Nesting(c, p) \in Nat /\ Nesting(c, p)' \in Nat
      /\ \A p \in Objects : s[n] # LockedOn(p) => Nesting(c, p)' = Nesting(c, p)
      /\ s[n] = LockedOn(o) => Nesting(c, o) = Nesting(c, o)' + 1
  BY <1>2, <1>5, <1>6, HeldType DEF Nesting
<1>10. \A p \in Objects \ {o} : Nesting(c, p)' = Nesting(c, p)
  <2>1. \A p \in Objects \ {o} : s[n] # LockedOn(p)
    BY <1>3 DEF LockedOn
  <2>2. QED
    BY <1>9, <2>1
<1>11. ASSUME NEW p \in Objects PROVE m \notin AliveOn(p)'
  <2>1. SUFFICES ASSUME m \in AliveOn(p)' PROVE FALSE
    OBVIOUS
  <2>2. Depth(c)' = n - 1
    BY <1>5, <1>6 DEF Depth
  <2>3. Depth(c)' > 0 /\ Top(c)' = [obj |-> p, state |-> "pending"]
    BY <2>1, AliveIsNext
  <2>4. Top(c)' = t[n - 1]
    BY <1>5, <2>2 DEF Top
  <2>5. n - 1 \in 1..(n - 1)
    BY <1>2, <2>2, <2>3
  <2>6. QED
    BY <1>7, <2>3, <2>4, <2>5
<1>12. Phase(c)'
  <2>1. \A i, j \in 1..(n - 1) : i < j /\ t[i].obj = t[j].obj /\ t[j].state = "lost"
                                    => t[i].state # "locked"
    BY SMTT(20), <1>1, <1>2, <1>6 DEF Phase
  <2>2. pc'[c] \notin {"blocked", "waiting", "sleeping", "relock"}
    BY <1>8
  <2>3. await[c].obj = NoObject /\ ~await[c].listening
    BY <1>1 DEF Phase
  <2>4. QED
    BY <1>1, <1>5, <1>6, <1>7, <2>1, <2>2, <2>3 DEF Phase
<1>13. /\ owner' = IF s[n].state = "locked" /\ Nesting(c, o) = 1
                   THEN [owner EXCEPT ![o] = NoContext] ELSE owner
       /\ count' = IF s[n].state = "locked" THEN [count EXCEPT ![o] = @ - 1] ELSE count
       /\ \A d \in Contexts \ {c} : ctxMonitor'[d] = ctxMonitor[d]
       /\ ctxMonitor' \in [Contexts -> BOOLEAN]
       /\ \E ch : /\ chain' = [chain EXCEPT ![o] = ch]
                  /\ ListOver(ch, AliveOn(o) \ {m})
  <2>1. Top(c) = s[n] /\ ListOver(chain[o], AliveOn(o))
    BY <1>1, <1>3, Lists DEF Top
  <2>2. CASE s[n].state = "pending"
    <3>1. /\ chain' = [chain EXCEPT ![o] = DetachMonitor(m, chain[o])]
          /\ UNCHANGED <<owner, count, ctxMonitor>>
      BY <1>1, <1>3, <2>1, <2>2 DEF Leave, TypeOK
    <3>2. ListOver(DetachMonitor(m, chain[o]), AliveOn(o) \ {m})
      BY <2>1, DetachList
    <3>3. s[n].state # "locked"
      BY <2>2
    <3>4. QED
      BY <1>1, <3>1, <3>2, <3>3 DEF TypeOK
  <2>3. CASE s[n].state # "pending"
    <3>1. UnlockSynchronized(c, o)
      BY <1>3, <2>1, <2>3 DEF Leave
    <3>2. m \notin AliveOn(o)
      <4>1. SUFFICES ASSUME m \in AliveOn(o) PROVE FALSE
        OBVIOUS
      <4>2. Top(c) = [obj |-> o, state |-> "pending"]
        BY <1>3, <4>1, AliveIs
      <4>3. QED
        BY <2>1, <2>3, <4>2
    <3>3. ListOver(NotifyAllMonitor("synchronized", chain[o]), AliveOn(o))
      BY <2>1, NotifyAllList
    <3>4. AliveOn(o) = AliveOn(o) \ {m}
      BY <3>2
    <3>5. \E ch : /\ chain' = [chain EXCEPT ![o] = ch]
                  /\ ListOver(ch, AliveOn(o) \ {m})
      <4>1. PICK ch : ch = IF LastUnlock(c, o)
                           THEN NotifyAllMonitor("synchronized", chain[o]) ELSE chain[o]
        OBVIOUS
      <4>2. ListOver(ch, AliveOn(o) \ {m}) /\ ListOver(DetachMonitor(m, ch), AliveOn(o) \ {m})
        <5>1. ListOver(ch, AliveOn(o))
          BY <2>1, <3>3, <4>1
        <5>2. QED
          BY <3>4, <5>1, DetachList
      <4>3. chain' = [chain EXCEPT ![o] = IF ctxMonitor[c] THEN DetachMonitor(m, ch) ELSE ch]
        BY <3>1, <4>1 DEF UnlockSynchronized
      <4>4. PICK dh : dh = IF ctxMonitor[c] THEN DetachMonitor(m, ch) ELSE ch
        OBVIOUS
      <4>5. QED
        BY <4>2, <4>3, <4>4
    <3>6. Owns(c, o) <=> s[n].state = "locked"
      <4>1. owner[o] = c <=> Nesting(c, o) > 0 /\ await[c].obj # o
        BY <1>1, <1>3, LockMatches DEF LockOf
      <4>2. o # NoObject
        BY <1>3, MonitorAssumption
      <4>3. CASE s[n].state = "locked"
        <5>1. s[n] = LockedOn(o)
          BY <1>3, <4>3 DEF LockedOn
        <5>2. Nesting(c, o) > 0
          BY <1>3, <1>9, <5>1
        <5>3. QED
          BY <1>1, <4>1, <4>2, <4>3, <5>2 DEF Owns
      <4>4. CASE s[n].state = "lost"
        <5>1. \A i \in 1..n : s[i] # LockedOn(o)
          <6>1. \A i \in 1..(n - 1) : s[i].obj = o => s[i].state # "locked"
            BY <1>1, <1>2, <1>3, <4>4 DEF Phase
          <6>2. \A i \in 1..n : i \in 1..(n - 1) \/ i = n
            BY <1>2
          <6>3. \A i \in 1..n : s[i] = LockedOn(o) => s[i].obj = o /\ s[i].state = "locked"
            BY DEF LockedOn
          <6>4. QED
            BY <4>4, <6>1, <6>2, <6>3
        <5>2. HeldIn(s, o) = {}
          BY <1>2, <5>1 DEF HeldIn
        <5>3. ~(Nesting(c, o) > 0)
          BY <1>2, <5>2, HeldType DEF Nesting
        <5>4. QED
          BY <4>1, <4>4, <5>3 DEF Owns
      <4>5. QED
        BY <1>3, <2>3, <4>3, <4>4
    <3>7. s[n].state = "locked" => count[o] = Nesting(c, o) /\ Nesting(c, o) > 0
      BY <1>1, <1>3, <3>6, LockMatches DEF LockOf, Owns
    <3>8. LastUnlock(c, o) <=> s[n].state = "locked" /\ Nesting(c, o) = 1
      BY <1>3, <1>9, <3>6, <3>7 DEF LastUnlock
    <3>9. ctxMonitor' = [ctxMonitor EXCEPT ![c] = FALSE]
      BY <3>1 DEF UnlockSynchronized
    <3>10. QED
      BY <1>1, <3>1, <3>5, <3>6, <3>8, <3>9 DEF UnlockSynchronized, TypeOK
  <2>4. QED
    BY <2>2, <2>3
<1>14. \A d \in Contexts \ {c} : Undisturbed(d)
  BY <1>1, <1>5, <1>8, <1>13 DEF Undisturbed, TypeOK
<1>15. PICK ch : chain' = [chain EXCEPT ![o] = ch] /\ ListOver(ch, AliveOn(o) \ {m})
  BY <1>13
<1>16. chain'[o] = ch /\ \A p \in Objects \ {o} : chain'[p] = chain[p]
  BY <1>1, <1>3, <1>15 DEF TypeOK
<1>17. ListOver(chain'[o], AliveOn(o)')
  <2>1. AliveOn(o) \ {m} \subseteq OthersOn(c, o)
    BY <1>1, <1>3, OwnKinds, NotInWait
  <2>2. AliveOn(o) \ {m} \subseteq AliveOn(o)'
    BY <1>3, <1>14, <2>1, OthersStay
  <2>3. QED
    BY <1>15, <1>16, <2>2, ListWeaken
<1>18. /\ owner'[o] = IF s[n].state = "locked" /\ Nesting(c, o) = 1 THEN NoContext ELSE owner[o]
       /\ count'[o] = IF s[n].state = "locked" THEN count[o] - 1 ELSE count[o]
       /\ \A p \in Objects \ {o} : owner'[p] = owner[p] /\ count'[p] = count[p]
  BY <1>1, <1>3, <1>13 DEF TypeOK
<1>19. LockOf(c, o)
  BY <1>1, <1>3, LockMatches
<1>20. s[n].state = "locked" => /\ s[n] = LockedOn(o) /\ owner[o] = c
                                /\ count[o] = Nesting(c, o) /\ Nesting(c, o) > 0
  <2>1. s[n].state = "locked" => s[n] = LockedOn(o)
    BY <1>3 DEF LockedOn
  <2>2. s[n].state = "locked" => Nesting(c, o) > 0
    BY <1>3, <1>9, <2>1
  <2>3. o # NoObject
    BY <1>3, MonitorAssumption
  <2>4. QED
    BY <1>1, <1>19, <2>1, <2>2, <2>3 DEF LockOf
<1>21. TypeOK'
  <2>1. chain'[o] \in Seq(Monitors)
    BY <1>17, SeqMonotonic DEF ListOver, AliveOn
  <2>2. count' \in [Objects -> Nat]
    BY <1>1, <1>3, <1>9, <1>13, <1>20 DEF TypeOK
  <2>3. owner' \in [Objects -> Contexts \cup {NoContext}]
    BY <1>1, <1>13 DEF TypeOK
  <2>4. QED
    BY <1>1, <1>5, <1>6, <1>8, <1>13, <1>15, <1>16, <2>1, <2>2, <2>3 DEF TypeOK
<1>22. LockMatchesBlocks'
  <2>1. LockOf(c, o)'
    <3>1. CASE s[n].state = "locked"
      BY <1>1, <1>3, <1>9, <1>18, <1>20, <3>1, MonitorAssumption DEF LockOf
    <3>2. CASE s[n].state # "locked"
      <4>1. s[n] # LockedOn(o)
        BY <3>2 DEF LockedOn
      <4>2. QED
        BY <1>1, <1>3, <1>9, <1>18, <1>19, <3>2, <4>1 DEF LockOf
    <3>3. QED
      BY <3>1, <3>2
  <2>2. \/ owner'[o] = owner[o] /\ count'[o] = count[o]
        \/ owner[o] \in {NoContext, c} /\ owner'[o] \in {NoContext, c}
    BY <1>18, <1>20
  <2>3. QED
    BY <1>1, <1>3, <1>10, <1>14, <1>18, <2>1, <2>2, LockStep
<1>23. NoDanglingMonitor'
  <2>1. \A p \in Objects \ {o}, k \in Kinds : <<c, k>> \notin AliveOn(p)
    <3>1. SUFFICES ASSUME NEW p \in Objects \ {o}, NEW k \in Kinds, <<c, k>> \in AliveOn(p)
                   PROVE  FALSE
      OBVIOUS
    <3>2. Top(c) = [obj |-> p, state |-> "pending"]
      BY <1>1, <3>1, NotInWait
    <3>3. QED
      BY <3>1, <3>2
  <2>2. QED
    BY <1>1, <1>3, <1>14, <1>16, <1>17, <1>21, <2>1, ListStep
<1>24. QED
  BY <1>1, <1>12, <1>14, <1>21, <1>22, <1>23, PhaseStep DEF IInv

(* A context that leaves wait() by an interrupt gives up its blocks on the object. *)
LEMMA DropStep ==
    ASSUME IInv, NEW c \in Contexts, DropAwaiting(c), NEW o, o = await[c].obj, NEW x,
           pc[c] \in {"run", "blocked", "waiting"}, pc' \in [Contexts -> PCs], pc'[c] = x,
           \A d \in Contexts \ {c} : pc'[d] = pc[d],
           x \in {"run", "unwind", "dying"}, pc[c] = "blocked" => x # "run",
           target' \in [Contexts -> Nat], UNCHANGED <<owner, count, ctxMonitor, hung>>
    PROVE  IInv'
<1>1. /\ TypeOK /\ Phases /\ Phase(c) /\ LockMatchesBlocks /\ NoDanglingMonitor
  BY DEF IInv, Phases
<1>2. x \in PCs /\ x \notin {"blocked", "waiting", "sleeping", "relock"}
  BY DEF PCs
<1>3. PICK s : s = lockers[c]
  OBVIOUS
<1>4. s \in Seq(Locker) /\ Len(s) = Depth(c) /\ Len(s) \in Nat /\ DOMAIN s = 1..Len(s)
  BY <1>1, <1>3, LenProperties DEF TypeOK, Depth
<1>5. CASE pc[c] # "waiting"
  <2>1. UNCHANGED <<chain, await, lockers>>
    BY <1>5 DEF DropAwaiting
  <2>2. TypeOK'
    BY <1>1, <1>2, <2>1 DEF TypeOK
  <2>3. Phase(c)'
    <3>1. \A i \in DOMAIN lockers[c] : lockers[c][i].state = "pending" =>
               i = Depth(c) /\ x \in {"unwind", "dying"}
      BY <1>1, <1>5, NotPending DEF Phase
    <3>2. await[c].obj = NoObject
      BY <1>1, <1>5 DEF Phase
    <3>3. QED
      BY <1>1, <1>2, <2>1, <3>1, <3>2 DEF Phase, Depth
  <2>4. QED
    BY <1>1, <2>1, <2>2, <2>3, QuietStep
<1>6. CASE pc[c] = "waiting"
  <2>1. o \in Objects /\ o # NoObject
    BY <1>1, <1>6, MonitorAssumption DEF Phase, TypeOK, Awaiting
  <2>2. PICK ch : ch = DetachAwaiting(c)
    OBVIOUS
  <2>3. PICK t : t = [i \in DOMAIN s |-> IF i \in HeldIn(s, o)
                                         THEN [obj |-> o, state |-> "lost"] ELSE s[i]]
    OBVIOUS
  <2>4. /\ chain' = [chain EXCEPT ![o] = ch] /\ await' = [await EXCEPT ![c] = NotAwaiting]
        /\ lockers' = [lockers EXCEPT ![c] = t]
    BY <1>1, <1>3, <1>6, <2>2, <2>3 DEF DropAwaiting, Held, HeldIn, LockedOn, TypeOK
  <2>5. /\ lockers'[c] = t /\ await'[c] = NotAwaiting /\ chain'[o] = ch
        /\ \A p \in Objects \ {o} : chain'[p] = chain[p]
    BY <1>1, <2>1, <2>4 DEF TypeOK
  <2>6. NotAwaiting \in Awaiting /\ NotAwaiting.obj = NoObject /\ ~NotAwaiting.listening
    BY DEF NotAwaiting, Awaiting
  <2>7. \A d \in Contexts \ {c} : Undisturbed(d)
    BY <1>1, <2>4 DEF Undisturbed, TypeOK
  <2>8. ASSUME NEW i \in DOMAIN s
        PROVE  /\ t[i] \in Locker /\ t[i].obj = s[i].obj
               /\ i \in HeldIn(s, o) => t[i].state = "lost"
               /\ i \notin HeldIn(s, o) => t[i] = s[i]
    <3>1. s[i] \in Locker
      BY <1>4, ElementOfSeq
    <3>2. CASE i \in HeldIn(s, o)
      <4>1. t[i] = [obj |-> o, state |-> "lost"] /\ s[i].obj = o
        BY <2>3, <3>2 DEF HeldIn, LockedOn
      <4>2. QED
        BY <2>1, <3>2, <4>1 DEF Locker
    <3>3. CASE i \notin HeldIn(s, o)
      BY <2>3, <3>1, <3>3
    <3>4. QED
      BY <3>2, <3>3
  <2>9. t \in Seq(Locker) /\ DOMAIN t = DOMAIN s
    <3>1. t \in [1..Len(s) -> Locker]
      BY <1>4, <2>3, <2>8
    <3>2. DOMAIN t = DOMAIN s
      BY <2>3
    <3>3. t \in Seq(Locker)
      BY <1>4, <3>1, SeqDef
    <3>4. QED
      BY <3>2, <3>3
  <2>10. HeldIn(t, o) = {}
    <3>1. SUFFICES ASSUME NEW i \in DOMAIN s, t[i] = LockedOn(o) PROVE FALSE
      BY <2>9 DEF HeldIn
    <3>2. CASE i \in HeldIn(s, o)
      BY <2>8, <3>1, <3>2 DEF LockedOn
    <3>3. CASE i \notin HeldIn(s, o)
      BY <2>8, <3>1, <3>3 DEF HeldIn
    <3>4. QED
      BY <3>2, <3>3
  <2>11. ASSUME NEW p \in Objects \ {o} PROVE Nesting(c, p)' = Nesting(c, p)
    <3>1. ASSUME NEW i \in DOMAIN s PROVE t[i] = LockedOn(p) <=> s[i] = LockedOn(p)
      <4>1. CASE i \in HeldIn(s, o)
        <5>1. t[i].obj = o /\ s[i].obj = o
          BY <2>8, <4>1 DEF HeldIn, LockedOn
        <5>2. QED
          BY <2>11, <5>1 DEF LockedOn
      <4>2. CASE i \notin HeldIn(s, o)
        BY <2>8, <4>2
      <4>3. QED
        BY <4>1, <4>2
    <3>2. HeldIn(t, p) = HeldIn(s, p)
      BY <2>9, <3>1 DEF HeldIn
    <3>3. QED
      BY <1>3, <2>5, <3>2 DEF Nesting
  <2>12. ListOver(chain'[o], AliveOn(o)')
    <3>1. <<c, "lock">> \notin AliveOn(o)
      BY <1>1, <1>6, <2>1, NotPending
    <3>2. PICK m : m = <<c, IF await[c].listening THEN "notify" ELSE "relock">>
      OBVIOUS
    <3>3. AliveOn(o) \ {m} \subseteq OthersOn(c, o)
      <4>1. \A k \in Kinds : <<c, k>> \in AliveOn(o) => <<c, k>> = m
        BY <2>1, <3>1, <3>2, AliveIs DEF Kinds
      <4>2. QED
        BY <2>1, <4>1, OwnKinds
    <3>4. ListOver(ch, AliveOn(o) \ {m})
      <4>1. ch = DetachMonitor(m, chain[o])
        BY <2>2, <3>2 DEF DetachAwaiting
      <4>2. ListOver(chain[o], AliveOn(o))
        BY <1>1, <2>1, Lists
      <4>3. QED
        BY <4>1, <4>2, DetachList
    <3>5. AliveOn(o) \ {m} \subseteq AliveOn(o)'
      BY <2>1, <2>7, <3>3, OthersStay
    <3>6. QED
      BY <2>5, <3>4, <3>5, ListWeaken
  <2>13. TypeOK'
    <3>1. chain'[o] \in Seq(Monitors)
      BY <2>12, SeqMonotonic DEF ListOver, AliveOn
    <3>2. QED
      BY <1>1, <1>2, <2>4, <2>5, <2>6, <2>9, <3>1 DEF TypeOK
  <2>14. Phase(c)'
    <3>1. \A i \in DOMAIN t : t[i].state # "pending"
      BY <1>1, <1>3, <1>6, <2>8, <2>9, NotPending
    <3>2. ASSUME NEW i \in DOMAIN t, NEW j \in DOMAIN t, i < j, t[i].obj = t[j].obj,
                 t[j].state = "lost", t[i].state = "locked"
          PROVE  FALSE
      <4>1. i \notin HeldIn(s, o) /\ t[i] = s[i] /\ s[i].obj = s[j].obj
        BY <2>8, <2>9, <3>2
      <4>2. s[i] = [obj |-> s[i].obj, state |-> "locked"]
        <5>1. s[i] \in Locker /\ s[i].state = "locked"
          BY <1>4, <2>9, <3>2, <4>1, ElementOfSeq
        <5>2. QED
          BY <5>1 DEF Locker
      <4>3. CASE j \in HeldIn(s, o)
        <5>1. s[j].obj = o
          BY <4>3 DEF HeldIn, LockedOn
        <5>2. i \in HeldIn(s, o)
          BY <2>9, <4>1, <4>2, <5>1 DEF HeldIn, LockedOn
        <5>3. QED
          BY <4>1, <5>2
      <4>4. CASE j \notin HeldIn(s, o)
        <5>1. t[j] = s[j]
          BY <2>8, <2>9, <4>4
        <5>2. QED
          BY <1>1, <1>3, <2>9, <3>2, <4>1, <5>1 DEF Phase
      <4>5. QED
        BY <4>3, <4>4
    <3>3. QED
      BY <1>1, <1>2, <2>5, <2>6, <3>1, <3>2 DEF Phase
  <2>15. LockMatchesBlocks'
    <3>1. Nesting(c, o)' = 0
      BY <2>5, <2>10, FS_EmptySet DEF Nesting
    <3>2. LockOf(c, o)
      BY <1>1, <2>1, LockMatches
    <3>3. LockOf(c, o)'
      BY <2>1, <2>5, <2>6, <3>1, <3>2 DEF LockOf
    <3>4. \A p \in Objects : p # NoObject
      BY MonitorAssumption
    <3>5. QED
      BY <1>1, <2>1, <2>5, <2>6, <2>7, <2>11, <3>3, <3>4, LockStep
  <2>16. NoDanglingMonitor'
    <3>1. \A p \in Objects \ {o}, k \in Kinds : <<c, k>> \notin AliveOn(p)
      BY <1>1, <1>6, NotPending, AliveIs DEF Kinds
    <3>2. QED
      BY <1>1, <2>1, <2>5, <2>7, <2>12, <2>13, <3>1, ListStep
  <2>17. QED
    BY <1>1, <2>7, <2>13, <2>14, <2>15, <2>16, PhaseStep DEF IInv
<1>7. QED
  BY <1>5, <1>6

(* Task.throw and Task.finish destroy a wait() in progress. *)
LEMMA InterruptStep ==
    ASSUME IInv, NEW c \in Contexts, Throw(c) \/ Abort(c)
    PROVE  IInv'
<1>1. TypeOK
  BY DEF IInv
<1>2. CASE Throw(c)
  <2>1. /\ pc' \in [Contexts -> PCs] /\ pc'[c] \in {"run", "unwind", "dying"}
        /\ \A d \in Contexts \ {c} : pc'[d] = pc[d]
        /\ pc[c] = "blocked" => pc'[c] # "run"
        /\ target' \in [Contexts -> Nat]
    <3>1. CASE pc' = [pc EXCEPT ![c] = "dying"] /\ UNCHANGED target
      BY <1>1, <3>1 DEF TypeOK, PCs
    <3>2. CASE \E k \in 0..Depth(c) :
                  /\ pc[c] = "blocked" => k < Depth(c)
                  /\ target' = [target EXCEPT ![c] = IF k = Depth(c) THEN 0 ELSE k]
                  /\ pc' = [pc EXCEPT ![c] = IF k = Depth(c) THEN "run" ELSE "unwind"]
      <4>1. PICK k \in 0..Depth(c) :
                  /\ pc[c] = "blocked" => k < Depth(c)
                  /\ target' = [target EXCEPT ![c] = IF k = Depth(c) THEN 0 ELSE k]
                  /\ pc' = [pc EXCEPT ![c] = IF k = Depth(c) THEN "run" ELSE "unwind"]
        BY <3>2
      <4>2. target' \in [Contexts -> Nat]
        BY <1>1, <4>1 DEF TypeOK
      <4>3. CASE k = Depth(c)
        <5>1. pc' = [pc EXCEPT ![c] = "run"] /\ pc[c] # "blocked"
          BY <4>1, <4>3
        <5>2. QED
          BY <1>1, <4>2, <5>1 DEF TypeOK, PCs
      <4>4. CASE k # Depth(c)
        <5>1. pc' = [pc EXCEPT ![c] = "unwind"]
          BY <4>1, <4>4
        <5>2. QED
          BY <1>1, <4>2, <5>1 DEF TypeOK, PCs
      <4>5. QED
        BY <4>3, <4>4
    <3>3. QED
      BY <1>2, <3>1, <3>2 DEF Throw
  <2>2. QED
    BY <1>2, <2>1, DropStep DEF Throw
<1>3. CASE Abort(c)
  <2>1. /\ pc' \in [Contexts -> PCs] /\ pc'[c] = "dying"
        /\ \A d \in Contexts \ {c} : pc'[d] = pc[d]
        /\ target' \in [Contexts -> Nat]
    BY <1>1, <1>3 DEF Abort, TypeOK, PCs
  <2>2. QED
    BY <1>3, <2>1, DropStep DEF Abort
<1>4. QED
  BY <1>2, <1>3

-----------------------------------------------------------------------------
(* The invariant holds when every context has just started. *)
LEMMA InitInvariant == Init => IInv
<1> SUFFICES ASSUME Init PROVE IInv
  OBVIOUS
<1>1. \A c \in Contexts : lockers[c] = <<>> /\ DOMAIN lockers[c] = {} /\ Depth(c) = 0
  BY DEF Init, Depth
<1>2. NotAwaiting \in Awaiting /\ NotAwaiting.obj = NoObject /\ ~NotAwaiting.listening
  BY DEF NotAwaiting, Awaiting
<1>3. TypeOK
  BY <1>2 DEF Init, TypeOK, PCs
<1>4. Phases
  BY <1>1, <1>2 DEF Init, Phases, Phase
<1>5. LockMatchesBlocks
  <2>1. \A c \in Contexts, o \in Objects : Nesting(c, o) = 0
    BY <1>1, FS_EmptySet DEF Nesting, HeldIn
  <2>2. \A c \in Contexts, o \in Objects : LockOf(c, o)
    BY <1>2, <2>1, MonitorAssumption DEF Init, LockOf
  <2>3. QED
    BY <2>2, LockMatches
<1>6. NoDanglingMonitor
  BY DEF Init, NoDanglingMonitor
<1>7. QED
  BY <1>3, <1>4, <1>5, <1>6 DEF IInv

(* Every step keeps the invariant. *)
LEMMA NextInvariant == IInv /\ [Next]_vars => IInv'
<1> SUFFICES ASSUME IInv, [Next]_vars PROVE IInv'
  OBVIOUS
<1>1. CASE UNCHANGED vars
  <2>1. TypeOK'
    BY <1>1 DEF vars, IInv, TypeOK
  <2>2. Phases'
    BY <1>1 DEF vars, IInv, Phases, Phase, Depth, Top
  <2>3. LockMatchesBlocks' /\ NoDanglingMonitor'
    BY <1>1, LockFrame, ListFrame DEF vars, IInv
  <2>4. QED
    BY <2>1, <2>2, <2>3 DEF IInv
<1>2. ASSUME NEW c \in Contexts, Script(c) PROVE IInv'
  BY <1>2, SynchronizeStep, AwaitStep, NotifyStep DEF Script
<1>3. ASSUME NEW c \in Contexts, Poll(c) PROVE IInv'
  BY <1>3, WaitSyncStep, WaitPollStep, WakeUpStep, RelockWakeUpStep, RelockPollStep DEF Poll
<1>4. ASSUME NEW c \in Contexts, Leave(c) \/ Expire(c) PROVE IInv'
  BY <1>4, LeaveStep, ExpireStep
<1>5. ASSUME NEW c \in Contexts, Throw(c) \/ Abort(c) PROVE IInv'
  BY <1>5, InterruptStep
<1>6. ASSUME NEW c \in Contexts, End(c) \/ Begin(c) \/ Hang(c) PROVE IInv'
  BY <1>6, PassiveStep
<1>7. QED
  BY <1>1, <1>2, <1>3, <1>4, <1>5, <1>6 DEF Next

(* The inductive invariant holds in every reachable state. *)
LEMMA Invariance == Spec => []IInv
<1>1. QED
  BY InitInvariant, NextInvariant, PTL DEF Spec

(* Every variable keeps the type of the C++ member it stands for. *)
THEOREM TypeCorrect == Spec => []TypeOK
<1>1. IInv => TypeOK
  BY DEF IInv
<1>2. QED
  BY Invariance, <1>1, PTL

(* countSync and pContext always match the blocks of the contexts, through nesting,   *)
(* wait(), its return, exceptions and finish: an object is never left locked by a     *)
(* context that has no block on it, nor unlocked while one is inside.                 *)
THEOREM LocksMatchBlocks == Spec => []LockMatchesBlocks
<1>1. IInv => LockMatchesBlocks
  BY DEF IInv
<1>2. QED
  BY Invariance, <1>1, PTL

(* synchronized excludes: two contexts are never inside blocks on one object. *)
THEOREM MutualExclusion == Spec => []Exclusion
<1>1. IInv => Exclusion
  <2> SUFFICES ASSUME IInv, NEW c \in Contexts, NEW d \in Contexts, NEW o \in Objects,
                      Inside(c, o), Inside(d, o)
               PROVE  c = d
    BY DEF Exclusion
  <2>1. ASSUME NEW e \in Contexts, Inside(e, o) PROVE owner[o] = e
    <3>1. lockers[e] \in Seq(Locker) /\ Held(e, o) = HeldIn(lockers[e], o)
      BY DEF IInv, TypeOK, Held, HeldIn, LockedOn
    <3>2. Cardinality(Held(e, o)) > 0
      BY <2>1, <3>1, HeldType DEF Inside
    <3>3. QED
      BY <2>1, <3>2 DEF IInv, LockMatchesBlocks, Inside
  <2>2. QED
    BY <2>1
<1>2. QED
  BY Invariance, <1>1, PTL

(* No list of monitors ever holds a destroyed monitor, nor one monitor twice: a       *)
(* notification never touches freed memory, and the lists never become cyclic.        *)
THEOREM ListsAreSound == Spec => []NoDanglingMonitor
<1>1. IInv => NoDanglingMonitor
  BY DEF IInv
<1>2. QED
  BY Invariance, <1>1, PTL

-----------------------------------------------------------------------------
(* The mutex between two actions. *)

(* At most one context keeps s_mutex from one poll to the next. *)
OneKeeper == \A c, d \in Contexts : pc[c] = "waiting" /\ pc[d] = "waiting" => c = d

(* A hung OS thread waits for one of its own contexts. *)
HungByKeeper == \A c \in hung : \E d \in Contexts : Host[d] = Host[c] /\ pc[d] = "waiting"

MutexInv == /\ pc \in [Contexts -> PCs] /\ hung \subseteq Contexts
            /\ OneKeeper /\ HungByKeeper

(* A step of c that leaves hung and the other contexts alone keeps MutexInv, if c *)
(* was not stuck and takes s_mutex along only when nobody has it.                 *)
LEMMA MutexStep ==
    ASSUME MutexInv, NEW c \in Contexts, Scheduled(c), hung' = hung,
           \E x \in PCs : /\ pc' = [pc EXCEPT ![c] = x]
                          /\ x = "waiting" => MutexFree \/ pc[c] = "waiting"
    PROVE  MutexInv'
<1>1. /\ pc' \in [Contexts -> PCs] /\ \A d \in Contexts \ {c} : pc'[d] = pc[d]
      /\ pc'[c] = "waiting" => MutexFree \/ pc[c] = "waiting"
  <2>1. PICK x \in PCs : /\ pc' = [pc EXCEPT ![c] = x]
                         /\ x = "waiting" => MutexFree \/ pc[c] = "waiting"
    OBVIOUS
  <2>2. QED
    BY <2>1 DEF MutexInv
<1>2. OneKeeper'
  BY <1>1 DEF MutexInv, OneKeeper, MutexFree
<1>3. ASSUME NEW e \in hung PROVE \E d \in Contexts : Host[d] = Host[e] /\ pc'[d] = "waiting"
  <2>1. PICK d \in Contexts : Host[d] = Host[e] /\ pc[d] = "waiting"
    BY DEF MutexInv, HungByKeeper
  <2>2. e \in Contexts /\ Host[e] # Host[c]
    BY DEF MutexInv, Scheduled
  <2>3. QED
    BY <1>1, <2>1, <2>2
<1>4. HungByKeeper' /\ hung' \subseteq Contexts
  BY <1>3 DEF MutexInv, HungByKeeper
<1>5. QED
  BY <1>1, <1>2, <1>4 DEF MutexInv

(* Every action of a context, by what it does to the program counter. *)
LEMMA MutexKept == MutexInv /\ [Next]_vars => MutexInv'
<1>1. ASSUME MutexInv, UNCHANGED <<pc, hung>> PROVE MutexInv'
  BY <1>1 DEF MutexInv, OneKeeper, HungByKeeper
<1>2. ASSUME MutexInv, NEW c \in Contexts, Script(c) PROVE MutexInv'
  <2>1. PICK o \in Objects : \/ Synchronize(c, o) \/ Notify(c, o) \/ NotifyAll(c, o)
                             \/ \E timed \in BOOLEAN : AwaitNotification(c, o, timed)
    BY <1>2 DEF Script
  <2>2. CASE UNCHANGED <<pc, hung>>
    BY <1>1, <1>2, <2>2
  <2>3. CASE ~UNCHANGED <<pc, hung>>
    <3>1. /\ MutexFree /\ Scheduled(c) /\ hung' = hung
          /\ pc' = [pc EXCEPT ![c] = "blocked"] \/ pc' = [pc EXCEPT ![c] = "waiting"]
      BY <2>1, <2>3 DEF Synchronize, AwaitNotification, Notify, NotifyAll, CanLock
    <3>2. \E x \in PCs : /\ pc' = [pc EXCEPT ![c] = x]
                         /\ x = "waiting" => MutexFree \/ pc[c] = "waiting"
      BY <3>1 DEF PCs
    <3>3. QED
      BY <1>2, <3>1, <3>2, MutexStep
  <2>4. QED
    BY <2>2, <2>3
<1>3. ASSUME MutexInv, NEW c \in Contexts, Poll(c) PROVE MutexInv'
  <2>1. CASE WaitSync(c) \/ WaitPoll(c)
    <3>1. /\ Scheduled(c) /\ hung' = hung
          /\ pc' = [pc EXCEPT ![c] = "run"] \/ pc' = [pc EXCEPT ![c] = "sleeping"]
      BY <2>1 DEF WaitSync, WaitPoll, CanLock
    <3>2. QED
      BY <1>3, <3>1, MutexStep DEF PCs
  <2>2. CASE WakeUp(c) \/ RelockWakeUp(c) \/ RelockPoll(c)
    <3>1. /\ Scheduled(c) /\ hung' = hung
          /\ MutexFree \/ pc[c] = "waiting"
          /\ \/ pc' = [pc EXCEPT ![c] = "run"] \/ pc' = [pc EXCEPT ![c] = "relock"]
             \/ pc' = [pc EXCEPT ![c] = "waiting"]
      BY <2>2 DEF WakeUp, RelockWakeUp, RelockPoll, Relock, CanLock
    <3>2. \E x \in PCs : /\ pc' = [pc EXCEPT ![c] = x]
                         /\ x = "waiting" => MutexFree \/ pc[c] = "waiting"
      BY <3>1 DEF PCs
    <3>3. QED
      BY <1>3, <3>1, <3>2, MutexStep
  <2>3. QED
    BY <1>3, <2>1, <2>2 DEF Poll
<1>4. ASSUME MutexInv, NEW c \in Contexts, Leave(c) \/ Expire(c) PROVE MutexInv'
  <2>1. CASE UNCHANGED <<pc, hung>>
    BY <1>1, <1>4, <2>1
  <2>2. CASE ~UNCHANGED <<pc, hung>>
    <3>1. Scheduled(c) /\ hung' = hung /\ pc' = [pc EXCEPT ![c] = "run"]
      BY <1>4, <2>2 DEF Leave, Expire, CanUnlock, CanLock
    <3>2. QED
      BY <1>4, <3>1, MutexStep DEF PCs
  <2>3. QED
    BY <2>1, <2>2
<1>5. ASSUME MutexInv, NEW c \in Contexts, Throw(c) \/ Abort(c) \/ End(c) \/ Begin(c)
      PROVE  MutexInv'
  <2>1. /\ Scheduled(c) /\ hung' = hung
        /\ \E x \in PCs : pc' = [pc EXCEPT ![c] = x] /\ x # "waiting"
    BY <1>5 DEF Throw, Abort, End, Begin, PCs
  <2>2. QED
    BY <1>5, <2>1, MutexStep DEF PCs
<1>6. ASSUME MutexInv, NEW c \in Contexts, Hang(c) PROVE MutexInv'
  BY <1>6 DEF MutexInv, OneKeeper, HungByKeeper, Hang
<1>7. ASSUME MutexInv, UNCHANGED vars PROVE MutexInv'
  BY <1>1, <1>7 DEF vars
<1>8. QED
  BY <1>2, <1>3, <1>4, <1>5, <1>6, <1>7 DEF Next

(* MutexInv holds in every reachable state. *)
LEMMA MutexHeldByOne == Spec => []MutexInv
<1>1. Init => MutexInv
  BY DEF Init, MutexInv, OneKeeper, HungByKeeper, PCs
<1>2. QED
  BY <1>1, MutexKept, PTL DEF Spec

(* Once some OS thread waits for itself no context of any thread gets a lock or gives *)
(* one up.                                                                            *)
THEOREM HungFreezes == Spec => HangFreezesLocks
<1>1. ASSUME MutexInv, [Next]_vars, hung # {} PROVE owner' = owner
  <2>1. PICK h \in hung, k \in Contexts : Host[k] = Host[h] /\ pc[k] = "waiting"
    BY <1>1 DEF MutexInv, HungByKeeper
  <2>2. ~MutexFree /\ ~Scheduled(k) /\ h \in Contexts
    BY <1>1, <2>1 DEF MutexFree, Scheduled, MutexInv
  <2>3. \A c \in Contexts : ~CanLock(c)
    BY <2>2 DEF CanLock
  <2>4. \A c \in Contexts : pc[c] = "waiting" => ~Scheduled(c)
    BY <1>1, <2>1, <2>2 DEF MutexInv, OneKeeper
  <2>5. ASSUME NEW c \in Contexts, Script(c) \/ Leave(c) \/ WaitSync(c) \/ WakeUp(c) \/ RelockWakeUp(c)
        PROVE  FALSE
    BY <2>3, <2>5 DEF Script, Synchronize, AwaitNotification, Notify, NotifyAll, Leave,
                      CanUnlock, WaitSync, WakeUp, RelockWakeUp
  <2>6. ASSUME NEW c \in Contexts, RelockPoll(c) PROVE FALSE
    BY <2>4, <2>6 DEF RelockPoll
  <2>7. ASSUME NEW c \in Contexts, WaitPoll(c) \/ Expire(c) \/ Throw(c) \/ Abort(c) \/ End(c)
                                     \/ Begin(c) \/ Hang(c)
        PROVE  owner' = owner
    BY <2>7 DEF WaitPoll, Expire, Throw, Abort, End, Begin, Hang
  <2>8. QED
    BY <1>1, <2>5, <2>6, <2>7 DEF Next, Poll, vars
<1>2. MutexInv /\ [Next]_vars => (hung # {} => owner' = owner) \/ UNCHANGED vars
  BY <1>1
<1>3. MutexInv /\ [Next]_vars => [hung # {} => owner' = owner]_vars
  BY <1>1
<1>4. QED
  BY <1>3, MutexHeldByOne, PTL DEF Spec, HangFreezesLocks

-----------------------------------------------------------------------------
(* Who is notified. *)

(* A context whose notification monitor is in a list is inside its condition wait *)
(* whenever s_mutex is free: between its polls the context keeps the mutex.        *)
LEMMA ListenerSleeps ==
    ASSUME IInv, MutexFree, NEW o \in Objects, NEW i \in DOMAIN chain[o],
           NEW d \in Contexts, chain[o][i] = <<d, "notify">>
    PROVE  pc[d] = "sleeping"
<1>1. Phase(d) /\ TypeOK /\ Alive(chain[o][i], o)
  BY DEF IInv, Phases, NoDanglingMonitor
<1>2. await[d].obj = o /\ await[d].listening
  BY <1>1 DEF Alive
<1>3. await[d].obj # NoObject
  BY <1>2, MonitorAssumption
<1>4. QED
  BY <1>1, <1>2, <1>3 DEF Phase, MutexFree

(* The contexts of the monitors in ms that sleep are woken. *)
LEMMA WakeReaches ==
    ASSUME IInv, NEW d \in Contexts, pc[d] = "sleeping", NEW ms,
           <<d, "notify">> \in ms, await' = Wake(ms)
    PROVE  await'[d].woken
<1>1. await[d] \in Awaiting
  BY DEF IInv, TypeOK
<1>2. await'[d] = [await[d] EXCEPT !.woken = TRUE]
  BY DEF Wake
<1>3. QED
  BY <1>1, <1>2 DEF Awaiting

(* notify() and notifyAll() wake everybody they take off the list: a notification is *)
(* never lost between two polls of a wait().                                         *)
THEOREM NotificationsArrive == Spec => NotifyReachesWaiter
<1>1. ASSUME IInv, NEW c \in Contexts, NEW d \in Contexts, NEW o \in Objects,
             \/ Notify(c, o) /\ chain[o][FirstNotify(chain[o])] = <<d, "notify">>
             \/ NotifyAll(c, o) /\ \E i \in DOMAIN chain[o] : chain[o][i] = <<d, "notify">>
      PROVE  await'[d].woken
  <2>1. MutexFree
    BY <1>1 DEF Notify, NotifyAll, CanLock
  <2>2. CASE Notify(c, o) /\ chain[o][FirstNotify(chain[o])] = <<d, "notify">>
    <3>1. ListOver(chain[o], AliveOn(o))
      BY <1>1, Lists DEF IInv
    <3>2. FirstNotify(chain[o]) \in DOMAIN chain[o]
      BY <2>2, <3>1, FirstNotifyExists DEF Notify, ListOver
    <3>3. pc[d] = "sleeping"
      BY <1>1, <2>1, <2>2, <3>2, ListenerSleeps
    <3>4. PICK ms : ms = {chain[o][FirstNotify(chain[o])]}
      OBVIOUS
    <3>5. await' = Wake(ms) /\ <<d, "notify">> \in ms
      BY <2>2, <3>4 DEF Notify
    <3>6. QED
      BY <1>1, <3>3, <3>5, WakeReaches
  <2>3. CASE NotifyAll(c, o) /\ \E i \in DOMAIN chain[o] : chain[o][i] = <<d, "notify">>
    <3>1. pc[d] = "sleeping"
      BY <1>1, <2>1, <2>3, ListenerSleeps
    <3>2. PICK ms : ms = {chain[o][i] : i \in DOMAIN chain[o]}
      OBVIOUS
    <3>3. await' = Wake(ms) /\ <<d, "notify">> \in ms
      BY <2>3, <3>2 DEF NotifyAll
    <3>4. QED
      BY <1>1, <3>1, <3>3, WakeReaches
  <2>4. QED
    BY <1>1, <2>2, <2>3
<1>2. IInv => [\A c, d \in Contexts, o \in Objects :
          \/ Notify(c, o) /\ chain[o][FirstNotify(chain[o])] = <<d, "notify">>
          \/ NotifyAll(c, o) /\ \E i \in DOMAIN chain[o] : chain[o][i] = <<d, "notify">>
          => await'[d].woken]_vars
  BY <1>1
<1>3. QED
  BY <1>2, Invariance, PTL DEF NotifyReachesWaiter

-----------------------------------------------------------------------------
(* The refinement of MonitorSpec. *)

Blocks == [c \in Contexts |-> [o \in Objects |-> Nesting(c, o)]]
Parked == [c \in Contexts |-> await[c].obj]

(* The state functions of the refinement mapping, and those of IInv. *)
LEMMA BlocksAre ==
    /\ [c \in Contexts |-> [o \in Objects |-> Cardinality(Held(c, o))]] = Blocks
    /\ [c \in Contexts |-> [o \in Objects |-> Cardinality(Held(c, o)')]] = Blocks'
  BY DEF Blocks, Nesting, Held, HeldIn, LockedOn

(* A step that moves no lock, no block and no wait() is a stutter. *)
LEMMA NothingSeen ==
    ASSUME owner' = owner,
           \A c \in Contexts : await'[c].obj = await[c].obj,
           \A c \in Contexts, o \in Objects : Nesting(c, o)' = Nesting(c, o)
    PROVE  UNCHANGED Lock!svars
<1>1. Blocks' = Blocks /\ Parked' = Parked
  BY DEF Blocks, Parked
<1>2. QED
  BY <1>1, BlocksAre DEF Lock!svars, Parked

(* How a step of c on o is seen. *)
LEMMA Seen ==
    ASSUME NEW c \in Contexts, NEW o \in Objects,
           \A d \in Contexts \ {c} : /\ await'[d].obj = await[d].obj
                                     /\ \A p \in Objects : Nesting(d, p)' = Nesting(d, p),
           \A p \in Objects \ {o} : Nesting(c, p)' = Nesting(c, p)
    PROVE  /\ Blocks' = [Blocks EXCEPT ![c][o] = Nesting(c, o)']
           /\ Parked' = [Parked EXCEPT ![c] = await'[c].obj]
           /\ Nesting(c, o)' = Nesting(c, o) => Blocks' = Blocks
           /\ await'[c].obj = await[c].obj => Parked' = Parked
           /\ Blocks[c][o] = Nesting(c, o) /\ Parked[c] = await[c].obj
  BY DEF Blocks, Parked

(* A block begins. *)
LEMMA SeenAsEnter ==
    ASSUME IInv, NEW c \in Contexts, NEW o \in Objects, await[c].obj = NoObject,
           await' = await, owner[o] \in {NoContext, c}, owner' = [owner EXCEPT ![o] = c],
           \A d \in Contexts \ {c}, p \in Objects : Nesting(d, p)' = Nesting(d, p),
           \A p \in Objects \ {o} : Nesting(c, p)' = Nesting(c, p),
           Nesting(c, o)' = Nesting(c, o) + 1
    PROVE  Lock!Enter(c, o)
<1>1. /\ Blocks' = [Blocks EXCEPT ![c][o] = Blocks[c][o] + 1]
      /\ Parked' = Parked /\ Parked[c] = NoObject
  BY Seen
<1>2. QED
  BY <1>1, BlocksAre DEF Lock!Enter, Parked

(* synchronized: the lock is taken, or nothing is seen of the attempt. *)
LEMMA SynchronizeSeen ==
    ASSUME IInv, NEW c \in Contexts, NEW o \in Objects, Synchronize(c, o)
    PROVE  Lock!Enter(c, o) \/ UNCHANGED Lock!svars
<1>1. /\ TypeOK /\ pc[c] = "run" /\ await[c].obj = NoObject /\ await' = await
      /\ lockers[c] \in Seq(Locker)
  BY DEF IInv, Phases, Phase, TypeOK, Synchronize
<1>2. PICK x \in Locker : lockers' = [lockers EXCEPT ![c] = Append(lockers[c], x)]
                          /\ x.state = (IF owner[o] \in {NoContext, c} THEN "locked" ELSE "pending")
                          /\ x.obj = o
  <2>1. [obj |-> o, state |-> "locked"] \in Locker /\ [obj |-> o, state |-> "pending"] \in Locker
    BY DEF Locker
  <2>2. QED
    BY <1>1, <2>1 DEF Synchronize, Push
<1>3. \A d \in Contexts \ {c}, p \in Objects : Nesting(d, p)' = Nesting(d, p)
  BY <1>1, <1>2 DEF Nesting, TypeOK
<1>4. lockers'[c] = Append(lockers[c], x)
  BY <1>1, <1>2 DEF TypeOK
<1>5. CASE owner[o] \in {NoContext, c}
  <2>1. x = LockedOn(o) /\ \A p \in Objects \ {o} : x # LockedOn(p)
    BY <1>2, <1>5 DEF Locker, LockedOn
  <2>2. /\ Nesting(c, o)' = Nesting(c, o) + 1
        /\ \A p \in Objects \ {o} : Nesting(c, p)' = Nesting(c, p)
    BY <1>1, <1>4, <2>1, HeldAppend DEF Nesting
  <2>3. owner' = [owner EXCEPT ![o] = c]
    BY <1>1, <1>5, MonitorAssumption DEF Synchronize, TypeOK
  <2>4. QED
    BY <1>1, <1>3, <1>5, <2>2, <2>3, SeenAsEnter
<1>6. CASE owner[o] \notin {NoContext, c}
  <2>1. \A p : x # LockedOn(p)
    BY <1>2, <1>6 DEF LockedOn
  <2>2. \A p \in Objects : Nesting(c, p)' = Nesting(c, p)
    BY <1>1, <1>4, <2>1, HeldAppend DEF Nesting
  <2>3. owner' = owner
    BY <1>6 DEF Synchronize
  <2>4. QED
    BY <1>1, <1>3, <2>2, <2>3, NothingSeen
<1>7. QED
  BY <1>5, <1>6

(* The poll that gets the lock begins the block. *)
LEMMA WaitSyncSeen ==
    ASSUME IInv, NEW c \in Contexts, WaitSync(c)
    PROVE  \E o \in Objects : Lock!Enter(c, o)
<1>1. /\ TypeOK /\ pc[c] = "blocked" /\ await[c].obj = NoObject /\ await' = await
      /\ Depth(c) > 0 /\ Top(c).state = "pending"
  BY DEF IInv, Phases, Phase, TypeOK, WaitSync
<1>2. PICK s, o : s \in Seq(Locker) /\ s = lockers[c] /\ o = Top(c).obj
  BY <1>1 DEF TypeOK
<1>3. /\ DOMAIN s = 1..Len(s) /\ Len(s) > 0 /\ Depth(c) = Len(s) /\ Len(s) \in DOMAIN s
      /\ s[Len(s)] \in Locker /\ s[Len(s)].state = "pending" /\ s[Len(s)].obj = o
  BY <1>1, <1>2, LenProperties, ElementOfSeq DEF Depth, Top
<1>4. o \in Objects
  BY <1>3 DEF Locker
<1>5. /\ owner[o] = NoContext /\ owner' = [owner EXCEPT ![o] = c]
      /\ lockers' = [lockers EXCEPT ![c] = [s EXCEPT ![Len(s)].state = "locked"]]
  BY <1>1, <1>2, <1>3 DEF WaitSync, Unlocked
<1>6. PICK t : t = [s EXCEPT ![Len(s)].state = "locked"]
  OBVIOUS
<1>7. /\ DOMAIN t = DOMAIN s /\ t = [i \in DOMAIN t |-> t[i]]
      /\ t[Len(s)] = LockedOn(o) /\ \A i \in DOMAIN s : i # Len(s) => t[i] = s[i]
  BY <1>3, <1>6 DEF Locker, LockedOn
<1>8. LockedOn(o) \in Locker
  BY <1>4 DEF LockedOn, Locker
<1>9. t \in Seq(Locker) /\ Len(t) = Len(s)
  BY <1>2, <1>3, <1>7, <1>8, LockingType
<1>10. lockers'[c] = t /\ \A d \in Contexts \ {c} : lockers'[d] = lockers[d]
  BY <1>1, <1>5, <1>6 DEF TypeOK
<1>11. /\ Nesting(c, o)' = Nesting(c, o) + 1
       /\ \A p \in Objects \ {o} : Nesting(c, p)' = Nesting(c, p)
  BY <1>2, <1>3, <1>7, <1>9, <1>10, HeldLock DEF Nesting
<1>12. \A d \in Contexts \ {c}, p \in Objects : Nesting(d, p)' = Nesting(d, p)
  BY <1>10 DEF Nesting
<1>13. QED
  BY <1>1, <1>4, <1>5, <1>11, <1>12, SeenAsEnter

(* The newest block ends: the last one frees the lock; a pending locker, or one that *)
(* lost its lock, leaves unseen.                                                     *)
LEMMA LeaveSeen ==
    ASSUME IInv, NEW c \in Contexts, Leave(c)
    PROVE  UNCHANGED Lock!svars \/ \E o \in Objects : Lock!Exit(c, o)
<1>1. /\ TypeOK /\ Phase(c) /\ LockMatchesBlocks /\ await[c].obj = NoObject /\ await' = await
      /\ Depth(c) > 0
  BY DEF IInv, Phases, Phase, TypeOK, Leave
<1>2. PICK s, n, o : s \in Seq(Locker) /\ s = lockers[c] /\ n = Len(s) /\ o = s[n].obj
  BY <1>1 DEF TypeOK
<1>3. /\ DOMAIN s = 1..n /\ n \in Nat /\ n > 0 /\ Depth(c) = n /\ Top(c) = s[n]
      /\ s[n] \in Locker
  BY <1>1, <1>2, LenProperties, ElementOfSeq DEF Depth, Top
<1>4. o \in Objects /\ s[n] = [obj |-> o, state |-> s[n].state]
  BY <1>2, <1>3 DEF Locker
<1>5. PICK t : t = SubSeq(s, 1, n - 1)
  OBVIOUS
<1>6. lockers'[c] = t /\ \A d \in Contexts \ {c} : lockers'[d] = lockers[d]
  BY <1>1, <1>2, <1>3, <1>5 DEF Leave, TypeOK
<1>7. /\ t \in Seq(Locker)
      /\ \A p : s[n] = LockedOn(p) => Cardinality(HeldIn(s, p)) = Cardinality(HeldIn(t, p)) + 1
      /\ \A p : s[n] # LockedOn(p) => HeldIn(t, p) = HeldIn(s, p)
  <2>1. s \in Seq(Locker) /\ Len(s) > 0 /\ t = SubSeq(s, 1, Len(s) - 1)
    BY <1>2, <1>3, <1>5
  <2>2. ASSUME NEW p
        PROVE  /\ t \in Seq(Locker)
               /\ s[Len(s)] = LockedOn(p) =>
                      Cardinality(HeldIn(s, p)) = Cardinality(HeldIn(t, p)) + 1
               /\ s[Len(s)] # LockedOn(p) => HeldIn(t, p) = HeldIn(s, p)
    BY <2>1, HeldPop
  <2>3. QED
    BY <1>2, <2>2
<1>8. /\ \A d \in Contexts \ {c}, p \in Objects : Nesting(d, p)' = Nesting(d, p)
      /\ \A p \in Objects : s[n] # LockedOn(p) => Nesting(c, p)' = Nesting(c, p)
  BY <1>2, <1>6, <1>7 DEF Nesting
<1>9. LockOf(c, o)
  BY <1>1, <1>4, LockMatches
<1>10. CASE s[n].state = "locked"
  <2>1. s[n] = LockedOn(o) /\ \A p \in Objects \ {o} : s[n] # LockedOn(p)
    BY <1>4, <1>10 DEF LockedOn
  <2>2. /\ Nesting(c, o) = Nesting(c, o)' + 1 /\ Nesting(c, o) \in Nat /\ Nesting(c, o)' \in Nat
        /\ \A p \in Objects \ {o} : Nesting(c, p)' = Nesting(c, p)
    BY <1>2, <1>6, <1>7, <1>8, <2>1, HeldType DEF Nesting
  <2>3. owner[o] = c /\ count[o] = Nesting(c, o)
    BY <1>1, <1>4, <1>9, <2>2, MonitorAssumption DEF LockOf
  <2>4. owner' = IF Nesting(c, o) = 1 THEN [owner EXCEPT ![o] = NoContext] ELSE owner
    <3>1. UnlockSynchronized(c, o)
      BY <1>2, <1>3, <1>10 DEF Leave
    <3>2. LastUnlock(c, o) <=> Nesting(c, o) = 1
      BY <2>2, <2>3 DEF LastUnlock, Owns
    <3>3. QED
      BY <3>1, <3>2 DEF UnlockSynchronized
  <2>5. /\ Blocks' = [Blocks EXCEPT ![c][o] = Blocks[c][o] - 1]
        /\ Parked' = Parked /\ Parked[c] = NoObject /\ Blocks[c][o] = Nesting(c, o)
    BY <1>1, <1>4, <1>8, <2>2, Seen
  <2>6. Lock!Exit(c, o)
    BY <2>3, <2>4, <2>5, BlocksAre DEF Lock!Exit, Parked
  <2>7. QED
    BY <1>4, <2>6
<1>11. CASE s[n].state # "locked"
  <2>1. \A p : s[n] # LockedOn(p)
    BY <1>11 DEF LockedOn
  <2>2. owner' = owner
    <3>1. CASE s[n].state = "pending"
      BY <1>2, <1>3, <3>1 DEF Leave
    <3>2. CASE s[n].state # "pending"
      <4>1. HeldIn(s, o) = {}
        BY <1>1, <1>2, <1>3, <1>11, <3>2 DEF HeldIn, LockedOn, Phase, Locker
      <4>2. owner[o] # c
        BY <1>2, <1>9, <4>1, HeldType DEF LockOf, Nesting
      <4>3. UnlockSynchronized(c, o)
        BY <1>2, <1>3, <3>2 DEF Leave
      <4>4. QED
        BY <4>2, <4>3 DEF UnlockSynchronized, LastUnlock, Owns
    <3>3. QED
      BY <3>1, <3>2
  <2>3. QED
    BY <1>1, <1>8, <2>1, <2>2, NothingSeen
<1>12. QED
  BY <1>10, <1>11

(* wait() gives the lock up as a whole. *)
LEMMA AwaitSeen ==
    ASSUME IInv, NEW c \in Contexts, NEW o \in Objects, NEW timed \in BOOLEAN,
           AwaitNotification(c, o, timed)
    PROVE  Lock!Park(c, o)
<1>1. /\ TypeOK /\ pc[c] = "run" /\ await[c].obj = NoObject /\ lockers' = lockers
      /\ owner[o] = c /\ owner' = [owner EXCEPT ![o] = NoContext]
  BY DEF IInv, Phases, Phase, TypeOK, AwaitNotification
<1>2. PICK x : x.obj = o /\ await' = [await EXCEPT ![c] = x]
  BY DEF AwaitNotification, NotAwaiting
<1>3. await'[c].obj = o /\ \A d \in Contexts \ {c} : await'[d] = await[d]
  BY <1>1, <1>2 DEF TypeOK
<1>4. \A d \in Contexts, p \in Objects : Nesting(d, p)' = Nesting(d, p)
  BY <1>1 DEF Nesting
<1>5. /\ Parked' = [Parked EXCEPT ![c] = o] /\ Blocks' = Blocks /\ Parked[c] = NoObject
  BY <1>1, <1>3, <1>4, Seen
<1>6. QED
  BY <1>1, <1>5, BlocksAre DEF Lock!Park, Parked

(* The second half of wait() takes the lock back as a whole, or goes on unseen. *)
LEMMA RelockSeen ==
    ASSUME IInv, NEW c \in Contexts, pc[c] \in {"waiting", "sleeping", "relock"},
           NEW o, o = await[c].obj, NEW ch, Relock(c, o, ch), lockers' = lockers
    PROVE  Lock!Unpark(c) \/ UNCHANGED Lock!svars
<1>1. TypeOK /\ await[c] \in Awaiting /\ o # NoObject /\ o \in Objects
  BY DEF IInv, Phases, Phase, TypeOK, Awaiting
<1>2. \A d \in Contexts, p \in Objects : Nesting(d, p)' = Nesting(d, p)
  BY DEF Nesting
<1>3. CASE CanRelock(c)
  <2>1. /\ owner[o] = NoContext /\ owner' = [owner EXCEPT ![o] = c]
        /\ await' = [await EXCEPT ![c] = NotAwaiting]
    BY <1>3 DEF Relock, CanRelock, Unlocked
  <2>2. await'[c].obj = NoObject /\ \A d \in Contexts \ {c} : await'[d] = await[d]
    BY <1>1, <2>1 DEF TypeOK, NotAwaiting
  <2>3. Parked' = [Parked EXCEPT ![c] = NoObject] /\ Blocks' = Blocks /\ Parked[c] = o
    BY <1>1, <1>2, <2>2, Seen
  <2>4. Lock!Unpark(c)
    BY <1>1, <2>1, <2>3, BlocksAre DEF Lock!Unpark, Parked
  <2>5. QED
    BY <2>4
<1>4. CASE ~CanRelock(c)
  <2>1. owner' = owner /\ await' = [await EXCEPT ![c].listening = FALSE]
    BY <1>4 DEF Relock
  <2>2. \A d \in Contexts : await'[d].obj = await[d].obj
    BY <1>1, <2>1 DEF TypeOK, Awaiting
  <2>3. QED
    BY <1>2, <2>1, <2>2, NothingSeen
<1>5. QED
  BY <1>3, <1>4

(* The polls of a context. *)
LEMMA PollSeen ==
    ASSUME IInv, NEW c \in Contexts, Poll(c)
    PROVE  \/ UNCHANGED Lock!svars \/ Lock!Unpark(c)
           \/ \E o \in Objects : Lock!Enter(c, o)
<1>1. TypeOK /\ await[c] \in Awaiting
  BY DEF IInv, TypeOK
<1>2. CASE WaitSync(c)
  BY <1>2, WaitSyncSeen
<1>3. CASE WaitPoll(c)
  <2>1. /\ owner' = owner /\ lockers' = lockers
        /\ await' = [await EXCEPT ![c].woken = FALSE, ![c].zero = NothingRemains(c)]
    BY <1>3 DEF WaitPoll
  <2>2. \A d \in Contexts : await'[d].obj = await[d].obj
    BY <1>1, <2>1 DEF TypeOK, Awaiting
  <2>3. QED
    BY <2>1, <2>2, NothingSeen DEF Nesting
<1>4. CASE WakeUp(c)
  <2>1. pc[c] = "sleeping" /\ lockers' = lockers
    BY <1>4 DEF WakeUp
  <2>2. \/ \E ch : Relock(c, await[c].obj, ch)
        \/ await' = [await EXCEPT ![c].woken = FALSE] /\ owner' = owner
    BY <1>4 DEF WakeUp
  <2>3. CASE \E ch : Relock(c, await[c].obj, ch)
    BY <2>1, <2>3, RelockSeen
  <2>4. CASE await' = [await EXCEPT ![c].woken = FALSE] /\ owner' = owner
    <3>1. \A d \in Contexts : await'[d].obj = await[d].obj
      BY <1>1, <2>4 DEF TypeOK, Awaiting
    <3>2. QED
      BY <2>1, <2>4, <3>1, NothingSeen DEF Nesting
  <2>5. QED
    BY <2>2, <2>3, <2>4
<1>5. CASE RelockWakeUp(c) \/ RelockPoll(c)
  <2>1. pc[c] \in {"relock", "waiting"} /\ lockers' = lockers
    BY <1>5 DEF RelockWakeUp, RelockPoll
  <2>2. \/ \E ch : Relock(c, await[c].obj, ch)
        \/ await' = await /\ owner' = owner
    BY <1>5 DEF RelockWakeUp, RelockPoll
  <2>3. CASE \E ch : Relock(c, await[c].obj, ch)
    BY <2>1, <2>3, RelockSeen
  <2>4. CASE await' = await /\ owner' = owner
    BY <2>1, <2>4, NothingSeen DEF Nesting
  <2>5. QED
    BY <2>2, <2>3, <2>4
<1>6. QED
  BY <1>2, <1>3, <1>4, <1>5 DEF Poll

(* The script of a context. *)
LEMMA ScriptSeen ==
    ASSUME IInv, NEW c \in Contexts, Script(c)
    PROVE  \/ UNCHANGED Lock!svars
           \/ \E o \in Objects : Lock!Enter(c, o) \/ Lock!Park(c, o)
<1>1. PICK o \in Objects : \/ Synchronize(c, o) \/ Notify(c, o) \/ NotifyAll(c, o)
                           \/ \E timed \in BOOLEAN : AwaitNotification(c, o, timed)
  BY DEF Script
<1>2. CASE Notify(c, o) \/ NotifyAll(c, o)
  <2>1. PICK ms : await' = Wake(ms) /\ owner' = owner /\ lockers' = lockers
    BY <1>2 DEF Notify, NotifyAll
  <2>2. ASSUME NEW d \in Contexts PROVE await'[d].obj = await[d].obj
    <3>1. await[d] \in Awaiting
      BY DEF IInv, TypeOK
    <3>2. await'[d] = await[d] \/ await'[d] = [await[d] EXCEPT !.woken = TRUE]
      BY <2>1 DEF Wake
    <3>3. QED
      BY <3>1, <3>2 DEF Awaiting
  <2>3. QED
    BY <2>1, <2>2, NothingSeen DEF Nesting
<1>3. QED
  BY <1>1, <1>2, SynchronizeSeen, AwaitSeen

(* throw and finish in wait(): the blocks of c on the object have lost the lock. *)
LEMMA DropSeen ==
    ASSUME IInv, NEW c \in Contexts, DropAwaiting(c), owner' = owner
    PROVE  UNCHANGED Lock!svars \/ Lock!Abandon(c)
<1>1. TypeOK /\ Phase(c)
  BY DEF IInv, Phases
<1>2. CASE pc[c] # "waiting"
  BY <1>2, NothingSeen DEF DropAwaiting, Nesting
<1>3. CASE pc[c] = "waiting"
  <2>1. PICK o \in Objects : o = await[c].obj /\ o # NoObject
    BY <1>1, <1>3, MonitorAssumption DEF Phase, TypeOK, Awaiting
  <2>2. PICK s \in Seq(Locker) : s = lockers[c]
    BY <1>1 DEF TypeOK
  <2>3. PICK t : t = [i \in DOMAIN s |-> IF i \in HeldIn(s, o)
                                         THEN [obj |-> o, state |-> "lost"] ELSE s[i]]
    OBVIOUS
  <2>4. /\ lockers' = [lockers EXCEPT ![c] = t] /\ await' = [await EXCEPT ![c] = NotAwaiting]
    BY <1>1, <1>3, <2>1, <2>2, <2>3 DEF DropAwaiting, Held, HeldIn, LockedOn, TypeOK
  <2>5. /\ lockers'[c] = t /\ await'[c].obj = NoObject
        /\ \A d \in Contexts \ {c} : await'[d] = await[d] /\ lockers'[d] = lockers[d]
    BY <1>1, <2>4 DEF TypeOK, NotAwaiting
  <2>6. HeldIn(t, o) = {}
    BY <2>3 DEF HeldIn, LockedOn
  <2>7. \A p \in Objects \ {o} : HeldIn(t, p) = HeldIn(s, p)
    BY <2>3 DEF HeldIn, LockedOn
  <2>8. Nesting(c, o)' = 0 /\ \A p \in Objects \ {o} : Nesting(c, p)' = Nesting(c, p)
    BY <2>2, <2>5, <2>6, <2>7, FS_EmptySet DEF Nesting
  <2>9. \A d \in Contexts \ {c}, p \in Objects : Nesting(d, p)' = Nesting(d, p)
    BY <2>5 DEF Nesting
  <2>10. /\ Blocks' = [Blocks EXCEPT ![c][o] = 0] /\ Parked' = [Parked EXCEPT ![c] = NoObject]
         /\ Parked[c] = o
    BY <2>1, <2>5, <2>8, <2>9, Seen
  <2>11. Lock!Abandon(c)
    BY <2>1, <2>10, BlocksAre DEF Lock!Abandon, Parked
  <2>12. QED
    BY <2>11
<1>4. QED
  BY <1>2, <1>3

(* The clock, and the beginning and end of contexts. *)
LEMMA ExpireSeen ==
    ASSUME IInv, NEW c \in Contexts, Expire(c) \/ End(c) \/ Begin(c) \/ Hang(c)
    PROVE  UNCHANGED Lock!svars
<1>1. await[c] \in Awaiting /\ TypeOK
  BY DEF IInv, TypeOK
<1>2. /\ owner' = owner /\ lockers' = lockers
      /\ await' = await \/ await' = [await EXCEPT ![c].expired = TRUE]
  BY DEF Expire, End, Begin, Hang
<1>3. \A d \in Contexts : await'[d].obj = await[d].obj
  <2>1. CASE await' = await
    BY <2>1
  <2>2. CASE await' = [await EXCEPT ![c].expired = TRUE]
    BY <1>1, <2>2 DEF TypeOK, Awaiting
  <2>3. QED
    BY <1>2, <2>1, <2>2
<1>4. QED
  BY <1>2, <1>3, NothingSeen DEF Nesting

(* The monitors of LObject implement the reentrant lock of MonitorSpec: mutexes,      *)
(* lists, polls, notifications and interrupts never show through.                     *)
THEOREM MonitorsImplementLock == Spec => ImplementsLock
<1>1. Init => Lock!Init
  <2>1. SUFFICES ASSUME Init PROVE Lock!Init
    OBVIOUS
  <2>2. \A c \in Contexts : lockers[c] = <<>> /\ await[c].obj = NoObject
    <3>1. NotAwaiting.obj = NoObject
      BY DEF NotAwaiting
    <3>2. QED
      BY <2>1, <3>1 DEF Init
  <2>3. \A c \in Contexts, o \in Objects : HeldIn(lockers[c], o) = {}
    BY <2>2 DEF HeldIn
  <2>4. Blocks = [c \in Contexts |-> [o \in Objects |-> 0]]
    BY <2>3, FS_EmptySet DEF Blocks, Nesting
  <2>5. Parked = [c \in Contexts |-> NoObject]
    BY <2>2 DEF Parked
  <2>6. QED
    <3>1. owner = [o \in Objects |-> NoContext]
      BY <2>1 DEF Init
    <3>2. QED
      BY <2>4, <2>5, <3>1, BlocksAre DEF Lock!Init, Parked
<1>2. ASSUME IInv, [Next]_vars PROVE [Lock!Next]_(Lock!svars)
  <2>1. CASE UNCHANGED vars
    BY <2>1, NothingSeen DEF vars, Nesting
  <2>2. CASE Next
    <3>1. PICK c \in Contexts : Script(c) \/ Poll(c) \/ Leave(c) \/ Expire(c) \/ Throw(c)
                                \/ Abort(c) \/ End(c) \/ Begin(c) \/ Hang(c)
      BY <2>2 DEF Next
    <3>2. CASE Script(c) \/ Poll(c)
      BY <1>2, <3>2, ScriptSeen, PollSeen DEF Lock!Next
    <3>3. CASE Leave(c)
      BY <1>2, <3>3, LeaveSeen DEF Lock!Next
    <3>4. CASE Throw(c) \/ Abort(c)
      BY <1>2, <3>4, DropSeen DEF Throw, Abort, Lock!Next
    <3>5. CASE Expire(c) \/ End(c) \/ Begin(c) \/ Hang(c)
      BY <1>2, <3>5, ExpireSeen
    <3>6. QED
      BY <3>1, <3>2, <3>3, <3>4, <3>5
  <2>3. QED
    BY <1>2, <2>1, <2>2
<1>3. QED
  BY <1>1, <1>2, Invariance, PTL DEF Spec, ImplementsLock, Lock!Spec
=============================================================================
