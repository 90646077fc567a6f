---------------------------- MODULE StructsProof ----------------------------
(***************************************************************************)
(* LayoutSound for any number of structures, bases, members and array         *)
(* elements, if each size of a primitive type divides the larger ones.         *)
(***************************************************************************)
EXTENDS Structs, SequenceTheorems, TLAPS

(* The sizes of the primitive types are powers of two. *)
WidthsDivide == \A a, b \in Widths : a <= b => b % a = 0

Aligns == Widths \cup {1}
Byte == {NoMember} \cup (Ids \X Members \X Nat)
Place == [location : Nat, size : Nat, align : Aligns]
Arrangement ==
    [names : UNION {[D -> Place] : D \in SUBSET Members}, allocated : Nat, align : Aligns]

StructTypeOK ==
    /\ defining \in 1 .. Structures + 1
    /\ bases \in [Ids -> Seq(Ids)]
    /\ declares \in [Ids -> SUBSET Members]
    /\ layout \in [Ids -> Arrangement]
    /\ proto \in [Ids -> Seq(Byte)]
    /\ offsets \in [Ids -> UNION {[D -> Nat] : D \in SUBSET Ids}]

(* n is a multiple of a. *)
Divides(a, n) == \E k \in Nat : n = a * k

(* The members of A lie inside of it, at their alignment, and apart. *)
MembersSound(A) ==
    /\ \A n \in DOMAIN A.names :
        /\ Divides(A.names[n].align, A.names[n].location)
        /\ Divides(A.names[n].align, A.align)
        /\ A.names[n].location + A.names[n].size <= A.allocated
    /\ \A m, n \in DOMAIN A.names : m # n =>
        \/ A.names[m].location + A.names[m].size <= A.names[n].location
        \/ A.names[n].location + A.names[n].size <= A.names[m].location

(* A base, arranged as B with the prototype q, is at the offset o of a structure A   *)
(* with the prototype p, except for the members that later bases hide.              *)
BaseSound(A, p, B, q, o, later) ==
    /\ o \in Nat /\ o + Len(q) <= A.allocated /\ o + Len(q) <= Len(p)
    /\ DOMAIN B.names \subseteq DOMAIN A.names
    /\ \A n \in DOMAIN B.names \ later :
           A.names[n] = [B.names[n] EXCEPT !.location = @ + o]
    /\ \A i \in 1 .. Len(q) : p[o + i] = q[i]

(* The members of the bases behind the j-th one. *)
Later(s, j) == UNION {DOMAIN layout[bases[s][k]].names : k \in j + 1 .. Len(bases[s])}

BaseOK(s, j) ==
    LET b == bases[s][j]
    IN  BaseSound(layout[s], proto[s], layout[b], proto[b], offsets[s][b], Later(s, j))

(* Before it declares members, a structure is aligned as one of its bases is, and is a *)
(* whole number of alignments of the last one.                                       *)
LastAligned(s) ==
    IF bases[s] = <<>> THEN layout[s].allocated = 0 /\ layout[s].align = 1
    ELSE /\ \E k \in 1 .. Len(bases[s]) : layout[s].align = layout[bases[s][k]].align
         /\ Divides(layout[bases[s][Len(bases[s])]].align, layout[s].allocated)

(* What holds of every structure. *)
Placed(s) ==
    /\ MembersSound(layout[s])
    /\ s < defining => Len(proto[s]) >= GetAlignedBytes(layout[s])
    /\ DOMAIN offsets[s] = {bases[s][j] : j \in 1 .. Len(bases[s])}
    /\ declares[s] = {} => LastAligned(s)
    /\ s > defining => bases[s] = <<>>
    /\ \A j \in 1 .. Len(bases[s]) : bases[s][j] < s

(* What holds while the bases are regular. *)
Found(s) ==
    /\ Len(proto[s]) <= GetAlignedBytes(layout[s])
    /\ \A j \in 1 .. Len(bases[s]) : BaseOK(s, j)

StructOK(s) == Placed(s) /\ (RegularTo(s) => Found(s))

StructInv == StructTypeOK /\ \A s \in Ids : StructOK(s)

-----------------------------------------------------------------------------
(* Multiples. *)

(* Division with remainder. *)
LEMMA DivFacts ==
    ASSUME NEW x \in Nat, NEW a \in Nat \ {0}
    PROVE  /\ x \div a \in Nat /\ a * (x \div a) <= x /\ x < a * (x \div a) + a
           /\ x = a * (x \div a) + (x % a) /\ x % a \in 0 .. a - 1
<1>1. x \div a \in Nat /\ a * (x \div a) <= x /\ x < a * (x \div a) + a
  OBVIOUS
<1>2. x = a * (x \div a) + (x % a) /\ x % a \in 0 .. a - 1
  OBVIOUS
<1>3. QED
  BY <1>1, <1>2

(* A multiple that begins before the next one is not above it. *)
LEMMA MultiplesApart ==
    ASSUME NEW a \in Nat \ {0}, NEW x \in Nat, NEW y \in Nat, a * x < a * y + a
    PROVE  x <= y
<1>1. SUFFICES ASSUME x > y PROVE FALSE
  OBVIOUS
<1>2. x >= y + 1
  BY <1>1
<1>3. a * x >= a * (y + 1)
  BY <1>2
<1>4. QED
  BY <1>3

(* The remainder tells multiples. *)
LEMMA ModFacts ==
    ASSUME NEW n \in Nat, NEW a \in Nat \ {0}
    PROVE  n % a = 0 <=> Divides(a, n)
<1>1. ASSUME n % a = 0 PROVE Divides(a, n)
  <2>1. n \div a \in Nat /\ n = a * (n \div a) + (n % a)
    BY DivFacts
  <2>2. PICK q \in Nat : n = a * q + (n % a)
    BY <2>1
  <2>3. n = a * q
    BY <1>1, <2>2
  <2>4. QED
    BY <2>3 DEF Divides
<1>2. ASSUME NEW k \in Nat, n = a * k PROVE n % a = 0
  <2>  DEFINE q == n \div a
  <2>1. /\ q \in Nat /\ a * q <= a * k /\ a * k < a * q + a
        /\ n = a * q + (n % a) /\ n % a \in 0 .. a - 1
    BY <1>2, DivFacts
  <2>  HIDE DEF q
  <2>2. k <= q
    BY <2>1, MultiplesApart
  <2>3. a * q < a * k + a
    BY <2>1
  <2>4. q <= k
    BY <2>1, <2>3, MultiplesApart
  <2>5. q = k
    BY <2>1, <2>2, <2>4
  <2>6. QED
    BY <1>2, <2>1, <2>5
<1>3. QED
  BY <1>1, <1>2 DEF Divides

(* Multiples of multiples, and sums of multiples. *)
LEMMA DividesTrans ==
    ASSUME NEW a \in Nat, NEW b \in Nat, NEW n \in Nat, Divides(a, b), Divides(b, n)
    PROVE  Divides(a, n)
<1>1. PICK j \in Nat, k \in Nat : b = a * j /\ n = b * k
  BY DEF Divides
<1>2. n = a * (j * k) /\ j * k \in Nat
  BY <1>1
<1>3. QED
  BY <1>2 DEF Divides

LEMMA DividesSum ==
    ASSUME NEW a \in Nat, NEW m \in Nat, NEW n \in Nat, Divides(a, m), Divides(a, n)
    PROVE  Divides(a, m + n)
<1>1. PICK j \in Nat, k \in Nat : m = a * j /\ n = a * k
  BY DEF Divides
<1>2. m + n = a * (j + k) /\ j + k \in Nat
  BY <1>1
<1>3. QED
  BY <1>2 DEF Divides

(* CalcAlign returns the least multiple that is not below the location. *)
LEMMA AlignFacts ==
    ASSUME NEW l \in Nat, NEW a \in Nat \ {0}
    PROVE  /\ CalcAlign(l, a) \in Nat /\ l <= CalcAlign(l, a) /\ CalcAlign(l, a) < l + a
           /\ Divides(a, CalcAlign(l, a))
<1>  DEFINE q == (l + a - 1) \div a
<1>1. q \in Nat /\ a * q <= l + a - 1 /\ l + a - 1 < a * q + a
  <2>1. l + a - 1 \in Nat
    OBVIOUS
  <2>2. QED
    BY <2>1, DivFacts
<1>2. CalcAlign(l, a) = a * q
  BY <1>1 DEF CalcAlign
<1>  HIDE DEF q
<1>3. a * q \in Nat /\ a * q < l + a /\ l <= a * q
  BY <1>1
<1>4. QED
  BY <1>1, <1>2, <1>3 DEF Divides

LEMMA AlignLeast ==
    ASSUME NEW l \in Nat, NEW a \in Nat \ {0}, NEW n \in Nat, Divides(a, n), l <= n
    PROVE  CalcAlign(l, a) <= n
<1>1. PICK k \in Nat : n = a * k
  BY DEF Divides
<1>2. PICK j \in Nat : CalcAlign(l, a) = a * j
  BY AlignFacts DEF Divides
<1>3. a * j < l + a
  BY <1>2, AlignFacts
<1>4. a * j < a * k + a
  BY <1>1, <1>3
<1>5. j <= k
  BY <1>4, MultiplesApart
<1>6. a * j <= a * k
  BY <1>5
<1>7. QED
  BY <1>1, <1>2, <1>6

(* Alignments divide one another. *)
LEMMA AlignsNested ==
    ASSUME WidthsDivide, NEW a \in Aligns, NEW b \in Aligns
    PROVE  /\ a \in Nat \ {0} /\ b \in Nat \ {0} /\ Larger(a, b) \in Aligns
           /\ Divides(a, Larger(a, b)) /\ Divides(b, Larger(a, b))
           /\ a <= b => Divides(a, b)
<1>1. a \in Nat \ {0} /\ b \in Nat \ {0}
  BY StructsAssumption DEF Aligns
<1>2. ASSUME NEW c \in Aligns, NEW d \in Aligns, c <= d PROVE Divides(c, d)
  <2>1. c \in Nat \ {0} /\ d \in Nat \ {0}
    BY StructsAssumption DEF Aligns
  <2>2. CASE c = 1
    <3>1. d = c * d
      BY <2>1, <2>2
    <3>2. QED
      BY <2>1, <3>1 DEF Divides
  <2>3. CASE c # 1
    <3>1. c \in Widths /\ d \in Widths
      BY <1>2, <2>1, <2>3 DEF Aligns
    <3>2. d % c = 0
      BY <1>2, <3>1 DEF WidthsDivide
    <3>3. QED
      BY <2>1, <3>2, ModFacts
  <2>4. QED
    BY <2>2, <2>3
<1>3. QED
  BY <1>1, <1>2 DEF Larger

-----------------------------------------------------------------------------
(* Arrangements. *)

(* The fields of an arrangement. *)
LEMMA ArrangementFacts ==
    ASSUME NEW A \in Arrangement
    PROVE  /\ A.allocated \in Nat /\ A.align \in Aligns
           /\ DOMAIN A.names \subseteq Members /\ A.names \in [DOMAIN A.names -> Place]
           /\ \A n \in DOMAIN A.names : A.names[n] \in Place
<1>1. A.names \in UNION {[D -> Place] : D \in SUBSET Members}
      /\ A.allocated \in Nat /\ A.align \in Aligns
  BY DEF Arrangement
<1>2. PICK D \in SUBSET Members : A.names \in [D -> Place]
  BY <1>1
<1>3. QED
  BY <1>1, <1>2

(* What makes an arrangement one. *)
LEMMA ArrangementIs ==
    ASSUME NEW D \in SUBSET Members, NEW f \in [D -> Place], NEW n \in Nat, NEW a \in Aligns
    PROVE  [names |-> f, allocated |-> n, align |-> a] \in Arrangement
  BY DEF Arrangement

(* The size of an arrangement. *)
LEMMA AlignedFacts ==
    ASSUME WidthsDivide, NEW A \in Arrangement
    PROVE  /\ GetAlignedBytes(A) \in Nat /\ A.allocated <= GetAlignedBytes(A)
           /\ Divides(A.align, GetAlignedBytes(A))
  BY ArrangementFacts, AlignsNested, AlignFacts DEF GetAlignedBytes

(* It grows with the arrangement. *)
LEMMA AlignedGrows ==
    ASSUME WidthsDivide, NEW A \in Arrangement, NEW C \in Arrangement,
           A.allocated <= C.allocated, Divides(A.align, C.align)
    PROVE  GetAlignedBytes(A) <= GetAlignedBytes(C)
<1>1. /\ A.allocated \in Nat /\ A.align \in Nat \ {0}
      /\ C.allocated \in Nat /\ C.align \in Nat \ {0}
  BY ArrangementFacts, AlignsNested
<1>2. /\ GetAlignedBytes(C) \in Nat /\ C.allocated <= GetAlignedBytes(C)
      /\ Divides(C.align, GetAlignedBytes(C))
  BY AlignedFacts
<1>3. Divides(A.align, GetAlignedBytes(C)) /\ A.allocated <= GetAlignedBytes(C)
  BY <1>1, <1>2, DividesTrans
<1>4. QED
  BY <1>1, <1>2, <1>3, AlignLeast DEF GetAlignedBytes

(* The prototype grows by bytes without a value. *)
LEMMA BufferFacts ==
    ASSUME WidthsDivide, NEW p \in Seq(Byte), NEW A \in Arrangement
    PROVE  /\ GetBuffer(p, A) \in Seq(Byte)
           /\ Len(GetBuffer(p, A)) = Larger(Len(p), GetAlignedBytes(A))
           /\ \A i \in 1 .. Len(p) : GetBuffer(p, A)[i] = p[i]
<1>  DEFINE n == GetAlignedBytes(A) - Len(p)
            f == [i \in 1 .. n |-> NoMember]
<1>1. GetAlignedBytes(A) \in Nat /\ Len(p) \in Nat
  BY AlignedFacts
<1>2. f \in Seq(Byte) /\ Len(f) = IF n > 0 THEN n ELSE 0
  <2>1. CASE n > 0
    <3>1. n \in Nat /\ f \in [1 .. n -> Byte]
      BY <1>1, <2>1 DEF Byte
    <3>2. QED
      BY <2>1, <3>1
  <2>2. CASE ~(n > 0)
    <3>1. 1 .. n = {} /\ 1 .. 0 = {}
      BY <1>1, <2>2
    <3>2. PICK g \in [1 .. 0 -> Byte] : g = f
      BY <3>1
    <3>3. g \in Seq(Byte) /\ Len(g) = 0
      OBVIOUS
    <3>  HIDE DEF f
    <3>4. QED
      BY <2>2, <3>2, <3>3
  <2>3. QED
    BY <2>1, <2>2
<1>  HIDE DEF f
<1>3. /\ p \o f \in Seq(Byte) /\ Len(p \o f) = Len(p) + Len(f)
      /\ \A i \in 1 .. Len(p) : (p \o f)[i] = p[i]
  BY <1>1, <1>2
<1>4. GetBuffer(p, A) = p \o f
  BY DEF GetBuffer, f
<1>5. Len(p) + Len(f) = Larger(Len(p), GetAlignedBytes(A))
  BY <1>1, <1>2 DEF Larger
<1>6. QED
  BY <1>3, <1>4, <1>5

(* Another prototype behind p. *)
LEMMA AppendFacts ==
    ASSUME NEW p \in Seq(Byte), NEW q \in Seq(Byte)
    PROVE  /\ p \o q \in Seq(Byte) /\ Len(p \o q) = Len(p) + Len(q)
           /\ \A i \in 1 .. Len(p) : (p \o q)[i] = p[i]
           /\ \A i \in 1 .. Len(q) : (p \o q)[Len(p) + i] = q[i]
  OBVIOUS

(* The bytes in front of the location keep their values. *)
LEMMA OverwriteFacts ==
    ASSUME NEW p \in Seq(Byte), NEW l \in Nat, NEW q \in Seq(Byte)
    PROVE  /\ Overwrite(p, l, q) \in Seq(Byte) /\ Len(Overwrite(p, l, q)) = Len(p)
           /\ \A i \in 1 .. Len(p) : i <= l => Overwrite(p, l, q)[i] = p[i]
<1>1. Len(p) \in Nat /\ DOMAIN p = 1 .. Len(p) /\ Len(q) \in Nat
  OBVIOUS
<1>2. ASSUME NEW i \in 1 .. Len(p)
      PROVE  (IF i > l /\ i <= l + Len(q) THEN q[i - l] ELSE p[i]) \in Byte
  <2>1. CASE i > l /\ i <= l + Len(q)
    <3>1. i - l \in 1 .. Len(q)
      BY <1>1, <2>1
    <3>2. QED
      BY <2>1, <3>1
  <2>2. CASE ~(i > l /\ i <= l + Len(q))
    BY <2>2
  <2>3. QED
    BY <2>1, <2>2
<1>3. Overwrite(p, l, q) = [i \in 1 .. Len(p) |->
          IF i > l /\ i <= l + Len(q) THEN q[i - l] ELSE p[i]]
  BY <1>1 DEF Overwrite
<1>4. Overwrite(p, l, q) \in [1 .. Len(p) -> Byte]
  BY <1>2, <1>3
<1>5. Overwrite(p, l, q) \in Seq(Byte) /\ Len(Overwrite(p, l, q)) = Len(p)
  BY <1>1, <1>4
<1>6. QED
  BY <1>1, <1>3, <1>5

(* What A2 keeps of A: all members but those in hidden. *)
Extends(A2, A, hidden) ==
    /\ A2 \in Arrangement /\ MembersSound(A2)
    /\ A.allocated <= A2.allocated /\ Divides(A.align, A2.align)
    /\ DOMAIN A.names \subseteq DOMAIN A2.names
    /\ \A n \in DOMAIN A.names \ hidden : A2.names[n] = A.names[n]

(* A new member. *)
LEMMA AddDescExtends ==
    ASSUME WidthsDivide, NEW A \in Arrangement, MembersSound(A), NEW name \in Members \ DOMAIN A.names,
           NEW align \in Aligns, NEW bytes \in Nat
    PROVE  LET A2 == AddDesc(A, name, align, bytes)
           IN  /\ Extends(A2, A, {}) /\ A2.names[name].location \in Nat
               /\ A.allocated <= A2.names[name].location
<1>  DEFINE l == CalcAlign(A.allocated, align)
            D == DOMAIN A.names \cup {name}
            place == [location |-> l, size |-> bytes, align |-> align]
            f == [n \in D |-> IF n = name THEN place ELSE A.names[n]]
            a == Larger(A.align, align)
            A2 == AddDesc(A, name, align, bytes)
<1>1. /\ A.allocated \in Nat /\ A.align \in Aligns /\ DOMAIN A.names \subseteq Members
      /\ \A n \in DOMAIN A.names : A.names[n] \in Place
  BY ArrangementFacts
<1>2. /\ A.align \in Nat /\ align \in Nat \ {0} /\ a \in Aligns /\ a \in Nat
      /\ Divides(A.align, a) /\ Divides(align, a)
  <2>1. a \in Aligns /\ Divides(A.align, a) /\ Divides(align, a)
    BY <1>1, AlignsNested
  <2>  HIDE DEF a
  <2>2. A.align \in Nat /\ align \in Nat \ {0} /\ a \in Nat
    BY <1>1, <2>1, AlignsNested
  <2>3. QED
    BY <2>1, <2>2
<1>3. l \in Nat /\ A.allocated <= l /\ Divides(align, l)
  BY <1>1, <1>2, AlignFacts
<1>4. A2 = [names |-> f, allocated |-> l + bytes, align |-> a]
  BY DEF AddDesc
<1>  HIDE DEF l, a
<1>5. place \in Place /\ place.location = l /\ place.size = bytes /\ place.align = align
  BY <1>3 DEF Place
<1>  HIDE DEF place
<1>6. f \in [D -> Place] /\ D \subseteq Members
  BY <1>1, <1>5
<1>7. /\ DOMAIN f = D /\ f[name] = place /\ name \notin DOMAIN A.names
      /\ \A n \in DOMAIN A.names : f[n] = A.names[n]
  OBVIOUS
<1>  HIDE DEF f
<1>8. A2 \in Arrangement
  <2>1. l + bytes \in Nat /\ D \in SUBSET Members
    BY <1>3, <1>6
  <2>  HIDE DEF A2, D
  <2>2. [names |-> f, allocated |-> l + bytes, align |-> a] \in Arrangement
    BY <1>2, <1>6, <2>1, ArrangementIs
  <2>3. QED
    BY <1>4, <2>2
<1>9. A2.names = f /\ A2.allocated = l + bytes /\ A2.align = a
  BY <1>4
<1>  HIDE DEF A2
<1>10. \A n \in DOMAIN A.names :
          /\ A.names[n].location \in Nat /\ A.names[n].size \in Nat /\ A.names[n].align \in Aligns
          /\ A.names[n].location + A.names[n].size <= l
          /\ Divides(A.names[n].align, A.names[n].location) /\ Divides(A.names[n].align, a)
  <2>1. ASSUME NEW n \in DOMAIN A.names
        PROVE  /\ A.names[n].location \in Nat /\ A.names[n].size \in Nat
               /\ A.names[n].align \in Aligns /\ A.names[n].align \in Nat
    BY <1>1, AlignsNested DEF Place
  <2>2. ASSUME NEW n \in DOMAIN A.names
        PROVE  /\ A.names[n].location + A.names[n].size <= l
               /\ Divides(A.names[n].align, A.names[n].location) /\ Divides(A.names[n].align, a)
    <3>1. /\ A.names[n].location + A.names[n].size <= A.allocated
          /\ Divides(A.names[n].align, A.names[n].location)
          /\ Divides(A.names[n].align, A.align)
      BY DEF MembersSound
    <3>2. Divides(A.names[n].align, a)
      BY <1>2, <2>1, <3>1, DividesTrans
    <3>3. QED
      BY <1>1, <1>3, <2>1, <3>1, <3>2
  <2>3. QED
    BY <2>1, <2>2
<1>11. MembersSound(A2)
  <2>1. ASSUME NEW n \in DOMAIN A2.names
        PROVE  /\ Divides(A2.names[n].align, A2.names[n].location)
               /\ Divides(A2.names[n].align, A2.align)
               /\ A2.names[n].location + A2.names[n].size <= A2.allocated
    <3>1. CASE n = name
      BY <1>2, <1>3, <1>5, <1>7, <1>9, <3>1
    <3>2. CASE n # name
      <4>1. n \in DOMAIN A.names /\ A2.names[n] = A.names[n]
        BY <1>7, <1>9, <3>2
      <4>2. QED
        BY <1>3, <1>9, <1>10, <4>1
    <3>3. QED
      BY <3>1, <3>2
  <2>2. ASSUME NEW m \in DOMAIN A2.names, NEW n \in DOMAIN A2.names, m # n
        PROVE  \/ A2.names[m].location + A2.names[m].size <= A2.names[n].location
               \/ A2.names[n].location + A2.names[n].size <= A2.names[m].location
    <3>1. CASE n = name
      <4>1. m \in DOMAIN A.names /\ A2.names[m] = A.names[m]
        BY <1>7, <1>9, <2>2, <3>1
      <4>2. QED
        BY <1>5, <1>7, <1>9, <1>10, <3>1, <4>1
    <3>2. CASE m = name
      <4>1. n \in DOMAIN A.names /\ A2.names[n] = A.names[n]
        BY <1>7, <1>9, <2>2, <3>2
      <4>2. QED
        BY <1>5, <1>7, <1>9, <1>10, <3>2, <4>1
    <3>3. CASE m # name /\ n # name
      <4>1. /\ n \in DOMAIN A.names /\ A2.names[n] = A.names[n]
            /\ m \in DOMAIN A.names /\ A2.names[m] = A.names[m]
        BY <1>7, <1>9, <3>3
      <4>2. QED
        BY <2>2, <4>1 DEF MembersSound
    <3>4. QED
      BY <3>1, <3>2, <3>3
  <2>3. QED
    BY <2>1, <2>2 DEF MembersSound
<1>12. Extends(A2, A, {})
  BY <1>1, <1>2, <1>3, <1>7, <1>8, <1>9, <1>11 DEF Extends
<1>13. A2.names[name].location \in Nat /\ A.allocated <= A2.names[name].location
  BY <1>3, <1>5, <1>7, <1>9
<1>14. QED
  BY <1>12, <1>13 DEF A2

(* The members of a base. *)
LEMMA MergeExtends ==
    ASSUME WidthsDivide, NEW A \in Arrangement, MembersSound(A), NEW B \in Arrangement, MembersSound(B)
    PROVE  LET A2 == MergeFrom(A, B)
               o == CalcAlign(A.allocated, B.align)
           IN  /\ Extends(A2, A, DOMAIN B.names)
               /\ o \in Nat /\ A.allocated <= o /\ A2.allocated = o + GetAlignedBytes(B)
               /\ A2.align = Larger(A.align, B.align) /\ DOMAIN B.names \subseteq DOMAIN A2.names
               /\ \A n \in DOMAIN B.names :
                      A2.names[n] = [B.names[n] EXCEPT !.location = @ + o]
<1>  DEFINE o == CalcAlign(A.allocated, B.align)
            D == DOMAIN A.names \cup DOMAIN B.names
            moved(n) == [B.names[n] EXCEPT !.location = @ + o]
            f == [n \in D |-> IF n \in DOMAIN B.names THEN moved(n) ELSE A.names[n]]
            a == Larger(A.align, B.align)
            w == GetAlignedBytes(B)
            A2 == MergeFrom(A, B)
<1>1. /\ A.allocated \in Nat /\ A.align \in Aligns /\ DOMAIN A.names \subseteq Members
      /\ \A n \in DOMAIN A.names : A.names[n] \in Place
      /\ B.allocated \in Nat /\ B.align \in Aligns /\ DOMAIN B.names \subseteq Members
      /\ \A n \in DOMAIN B.names : B.names[n] \in Place
  BY ArrangementFacts
<1>2. /\ A.align \in Nat /\ B.align \in Nat \ {0} /\ a \in Aligns /\ a \in Nat
      /\ Divides(A.align, a) /\ Divides(B.align, a)
  <2>1. a \in Aligns /\ Divides(A.align, a) /\ Divides(B.align, a)
    BY <1>1, AlignsNested
  <2>  HIDE DEF a
  <2>2. A.align \in Nat /\ B.align \in Nat \ {0} /\ a \in Nat
    BY <1>1, <2>1, AlignsNested
  <2>3. QED
    BY <2>1, <2>2
<1>3. o \in Nat /\ A.allocated <= o /\ Divides(B.align, o)
  BY <1>1, <1>2, AlignFacts
<1>4. w \in Nat /\ B.allocated <= w
  BY AlignedFacts
<1>5. A2 = [names |-> f, allocated |-> o + w, align |-> a]
  BY DEF MergeFrom
<1>  HIDE DEF o, a, w
<1>6. ASSUME NEW n \in DOMAIN B.names
      PROVE  /\ moved(n) \in Place /\ moved(n).location = B.names[n].location + o
             /\ moved(n).size = B.names[n].size /\ moved(n).align = B.names[n].align
             /\ B.names[n].location \in Nat /\ B.names[n].size \in Nat
             /\ B.names[n].align \in Aligns
  BY <1>1, <1>3 DEF Place
<1>7. f \in [D -> Place] /\ D \subseteq Members
  BY <1>1, <1>6
<1>8. /\ DOMAIN f = D /\ \A n \in DOMAIN B.names : f[n] = moved(n)
      /\ \A n \in DOMAIN A.names \ DOMAIN B.names : f[n] = A.names[n]
  OBVIOUS
<1>  HIDE DEF f, moved
<1>9. A2 \in Arrangement
  <2>1. o + w \in Nat /\ D \in SUBSET Members
    BY <1>3, <1>4, <1>7
  <2>  HIDE DEF A2, D
  <2>2. [names |-> f, allocated |-> o + w, align |-> a] \in Arrangement
    BY <1>2, <1>7, <2>1, ArrangementIs
  <2>3. QED
    BY <1>5, <2>2
<1>10. A2.names = f /\ A2.allocated = o + w /\ A2.align = a
  BY <1>5
<1>  HIDE DEF A2
<1>11. ASSUME NEW n \in DOMAIN A.names \ DOMAIN B.names
       PROVE  /\ A2.names[n] = A.names[n]
              /\ A.names[n].location \in Nat /\ A.names[n].size \in Nat
              /\ A.names[n].location + A.names[n].size <= o
              /\ Divides(A.names[n].align, A.names[n].location) /\ Divides(A.names[n].align, a)
  <2>1. /\ A.names[n].location \in Nat /\ A.names[n].size \in Nat
        /\ A.names[n].align \in Aligns /\ A.names[n].align \in Nat
    BY <1>1, AlignsNested DEF Place
  <2>2. /\ A.names[n].location + A.names[n].size <= A.allocated
        /\ Divides(A.names[n].align, A.names[n].location)
        /\ Divides(A.names[n].align, A.align)
    BY DEF MembersSound
  <2>3. Divides(A.names[n].align, a)
    BY <1>2, <2>1, <2>2, DividesTrans
  <2>4. QED
    BY <1>1, <1>3, <1>8, <1>10, <2>1, <2>2, <2>3
<1>12. ASSUME NEW n \in DOMAIN B.names
       PROVE  /\ A2.names[n] = moved(n) /\ moved(n).location \in Nat /\ moved(n).size \in Nat
              /\ o <= moved(n).location /\ moved(n).location + moved(n).size <= o + w
              /\ Divides(moved(n).align, moved(n).location) /\ Divides(moved(n).align, a)
  <2>1. /\ B.names[n].location + B.names[n].size <= B.allocated
        /\ Divides(B.names[n].align, B.names[n].location)
        /\ Divides(B.names[n].align, B.align)
    BY DEF MembersSound
  <2>2. B.names[n].align \in Nat
    BY <1>6, AlignsNested
  <2>3. Divides(B.names[n].align, a) /\ Divides(B.names[n].align, o)
    BY <1>2, <1>3, <2>1, <2>2, DividesTrans
  <2>4. Divides(B.names[n].align, B.names[n].location + o)
    BY <1>3, <1>6, <2>1, <2>2, <2>3, DividesSum
  <2>5. QED
    BY <1>1, <1>3, <1>4, <1>6, <1>8, <1>10, <2>1, <2>3, <2>4
<1>13. MembersSound(A2)
  <2>1. ASSUME NEW n \in DOMAIN A2.names
        PROVE  /\ Divides(A2.names[n].align, A2.names[n].location)
               /\ Divides(A2.names[n].align, A2.align)
               /\ A2.names[n].location + A2.names[n].size <= A2.allocated
    <3>1. CASE n \in DOMAIN B.names
      BY <1>10, <1>12, <3>1
    <3>2. CASE n \notin DOMAIN B.names
      <4>1. n \in DOMAIN A.names \ DOMAIN B.names
        BY <1>8, <1>10, <3>2
      <4>2. QED
        BY <1>3, <1>4, <1>10, <1>11, <4>1
    <3>3. QED
      BY <3>1, <3>2
  <2>2. ASSUME NEW m \in DOMAIN A2.names, NEW n \in DOMAIN A2.names, m # n
        PROVE  \/ A2.names[m].location + A2.names[m].size <= A2.names[n].location
               \/ A2.names[n].location + A2.names[n].size <= A2.names[m].location
    <3>1. ASSUME NEW k \in DOMAIN A2.names, k \notin DOMAIN B.names
          PROVE  k \in DOMAIN A.names \ DOMAIN B.names
      BY <1>8, <1>10, <3>1
    <3>2. CASE m \in DOMAIN B.names /\ n \in DOMAIN B.names
      <4>1. \/ B.names[m].location + B.names[m].size <= B.names[n].location
            \/ B.names[n].location + B.names[n].size <= B.names[m].location
        BY <2>2, <3>2 DEF MembersSound
      <4>2. QED
        BY <1>3, <1>6, <1>12, <3>2, <4>1
    <3>3. CASE m \in DOMAIN B.names /\ n \notin DOMAIN B.names
      BY <1>3, <1>11, <1>12, <3>1, <3>3
    <3>4. CASE m \notin DOMAIN B.names /\ n \in DOMAIN B.names
      BY <1>3, <1>11, <1>12, <3>1, <3>4
    <3>5. CASE m \notin DOMAIN B.names /\ n \notin DOMAIN B.names
      <4>1. \/ A.names[m].location + A.names[m].size <= A.names[n].location
            \/ A.names[n].location + A.names[n].size <= A.names[m].location
        BY <2>2, <3>1, <3>5 DEF MembersSound
      <4>2. QED
        BY <1>11, <3>1, <3>5, <4>1
    <3>6. QED
      BY <3>2, <3>3, <3>4, <3>5
  <2>3. QED
    BY <2>1, <2>2 DEF MembersSound
<1>14. Extends(A2, A, DOMAIN B.names)
  BY <1>1, <1>2, <1>3, <1>4, <1>8, <1>9, <1>10, <1>11, <1>13 DEF Extends
<1>15. \A n \in DOMAIN B.names : A2.names[n] = moved(n)
  BY <1>12
<1>16. QED
  BY <1>3, <1>8, <1>10, <1>14, <1>15 DEF A2, o, a, w, moved

(* MakeAlignment in front of a base: the offset that is recorded is where MergeFrom *)
(* places it, if what is there is a whole number of alignments, or is once the base  *)
(* is aligned.                                                                    *)
LEMMA OffsetWherePlaced ==
    ASSUME WidthsDivide, NEW A \in Arrangement, NEW a \in Aligns,
           Divides(A.align, A.allocated) \/ A.align <= a
    PROVE  /\ GetAlignedBytes(MakeAlignment(A, a)) = CalcAlign(A.allocated, a)
           /\ GetAlignedBytes(A) <= CalcAlign(A.allocated, a)
<1>  DEFINE o == CalcAlign(A.allocated, a)
<1>1. /\ A.allocated \in Nat /\ A.align \in Aligns /\ A.align \in Nat \ {0} /\ a \in Nat \ {0}
  BY ArrangementFacts, AlignsNested
<1>2. o \in Nat /\ A.allocated <= o /\ Divides(a, o)
  BY <1>1, AlignFacts
<1>3. Divides(A.align, o)
  <2>1. CASE A.align <= a
    BY <1>1, <1>2, <2>1, AlignsNested, DividesTrans
  <2>2. CASE a <= A.align /\ Divides(A.align, A.allocated)
    <3>1. Divides(a, A.allocated)
      BY <1>1, <2>2, AlignsNested, DividesTrans
    <3>2. o <= A.allocated
      BY <1>1, <3>1, AlignLeast
    <3>3. o = A.allocated
      BY <1>1, <1>2, <3>2
    <3>4. QED
      BY <2>2, <3>3
  <2>3. QED
    BY <1>1, <2>1, <2>2
<1>4. CalcAlign(o, A.align) = o
  <2>  HIDE DEF o
  <2>1. o <= CalcAlign(o, A.align) /\ CalcAlign(o, A.align) \in Nat
    BY <1>1, <1>2, AlignFacts
  <2>2. o <= o
    BY <1>2
  <2>3. CalcAlign(o, A.align) <= o
    BY <1>1, <1>2, <1>3, <2>2, AlignLeast
  <2>4. QED
    BY <1>2, <2>1, <2>3
<1>5. /\ MakeAlignment(A, a) \in Arrangement /\ MakeAlignment(A, a).allocated = o
      /\ MakeAlignment(A, a).align = A.align
  BY <1>2 DEF MakeAlignment, Arrangement
<1>6. GetAlignedBytes(A) <= o
  BY <1>1, <1>2, <1>3, AlignLeast DEF GetAlignedBytes
<1>7. QED
  BY <1>4, <1>5, <1>6 DEF GetAlignedBytes

(* A base stays sound when what the structure has from it stays. *)
LEMMA BaseKept ==
    ASSUME NEW A, NEW p, NEW B \in Arrangement, NEW q \in Seq(Byte), NEW o, NEW later, NEW hidden,
           BaseSound(A, p, B, q, o, later), NEW A2, Extends(A2, A, hidden),
           A \in Arrangement, p \in Seq(Byte),
           NEW p2 \in Seq(Byte), Len(p) <= Len(p2),
           \A i \in 1 .. o + Len(q) : p2[i] = p[i],
           NEW later2, later \cup hidden \subseteq later2
    PROVE  BaseSound(A2, p2, B, q, o, later2)
<1>1. /\ o \in Nat /\ Len(q) \in Nat /\ Len(p) \in Nat /\ Len(p2) \in Nat
      /\ o + Len(q) <= A.allocated /\ o + Len(q) <= Len(p)
      /\ DOMAIN B.names \subseteq DOMAIN A.names
      /\ A.allocated \in Nat /\ A2.allocated \in Nat /\ A.allocated <= A2.allocated
  BY ArrangementFacts DEF BaseSound, Extends
<1>2. o + Len(q) <= A2.allocated /\ o + Len(q) <= Len(p2)
  BY <1>1
<1>3. DOMAIN B.names \subseteq DOMAIN A2.names
  BY <1>1 DEF Extends
<1>4. ASSUME NEW n \in DOMAIN B.names \ later2
      PROVE  A2.names[n] = [B.names[n] EXCEPT !.location = @ + o]
  <2>1. A2.names[n] = A.names[n]
    BY <1>1 DEF Extends
  <2>2. A.names[n] = [B.names[n] EXCEPT !.location = @ + o]
    BY DEF BaseSound
  <2>3. QED
    BY <2>1, <2>2
<1>5. ASSUME NEW i \in 1 .. Len(q) PROVE p2[o + i] = q[i]
  <2>1. o + i \in 1 .. o + Len(q)
    BY <1>1
  <2>2. p[o + i] = q[i]
    BY DEF BaseSound
  <2>3. QED
    BY <2>1, <2>2
<1>6. QED
  BY <1>1, <1>2, <1>3, <1>4, <1>5 DEF BaseSound

-----------------------------------------------------------------------------
(* Steps. *)

(* The step compiles the structure s, which loses no base. *)
Compiles(s) ==
    /\ s = defining /\ s \in Ids
    /\ defining' \in {s, s + 1}
    /\ StructTypeOK'
    /\ Len(bases[s]) <= Len(bases'[s])
    /\ \A j \in 1 .. Len(bases[s]) : bases'[s][j] = bases[s][j]
    /\ \A r \in Ids \ {s} :
        /\ bases'[r] = bases[r] /\ declares'[r] = declares[r] /\ layout'[r] = layout[r]
        /\ proto'[r] = proto[r] /\ offsets'[r] = offsets[r]

(* The bases of all structures are other ones, and keep their arrangements. *)
LEMMA BasesElsewhere ==
    ASSUME StructInv, NEW s, Compiles(s), NEW r \in Ids, NEW j \in 1 .. Len(bases[r])
    PROVE  /\ bases[r][j] \in Ids \ {s} /\ bases[r][j] < r
           /\ layout'[bases[r][j]] = layout[bases[r][j]]
           /\ proto'[bases[r][j]] = proto[bases[r][j]]
           /\ j \in 1 .. Len(bases'[r]) /\ bases'[r][j] = bases[r][j]
<1>1. /\ s \in Nat /\ r \in Nat /\ defining = s /\ s \in Ids
      /\ bases[r] \in Seq(Ids) /\ bases'[r] \in Seq(Ids) /\ Placed(r)
  BY StructsAssumption DEF Compiles, Ids, StructInv, StructTypeOK, StructOK
<1>2. bases[r] # <<>> /\ bases[r][j] \in Ids /\ bases[r][j] < r
  BY <1>1 DEF Placed
<1>3. ~(r > s)
  BY <1>1, <1>2 DEF Placed
<1>4. bases[r][j] # s /\ bases[r][j] \in Ids \ {s}
  BY <1>1, <1>2, <1>3 DEF Ids
<1>5. j \in 1 .. Len(bases'[r]) /\ bases'[r][j] = bases[r][j]
  <2>1. CASE r = s
    BY <1>1, <2>1 DEF Compiles
  <2>2. CASE r # s
    BY <2>2 DEF Compiles
  <2>3. QED
    BY <2>1, <2>2
<1>6. QED
  BY <1>2, <1>4, <1>5 DEF Compiles

(* A base that is not regular stays so. *)
LEMMA RegularKept ==
    ASSUME StructInv, NEW s, Compiles(s), NEW r \in Ids, RegularTo(r)'
    PROVE  RegularTo(r)
<1>1. r \in Nat /\ \A q \in 1 .. r : q \in Ids
  BY StructsAssumption DEF Ids
<1>2. ASSUME NEW q \in 1 .. r, NEW j \in DOMAIN bases[q] PROVE Regular(q, j)
  <2>  DEFINE align(k) == layout[bases[q][k]].align
              now(k) == layout'[bases'[q][k]].align
  <2>1. /\ q \in Ids /\ bases[q] \in Seq(Ids) /\ Len(bases[q]) \in Nat
        /\ DOMAIN bases[q] = 1 .. Len(bases[q])
    BY <1>1 DEF StructInv, StructTypeOK
  <2>2. bases'[q] \in Seq(Ids) /\ DOMAIN bases'[q] = 1 .. Len(bases'[q]) /\ Len(bases'[q]) \in Nat
    BY <2>1 DEF Compiles, StructTypeOK
  <2>3. ASSUME NEW k \in 1 .. Len(bases[q])
        PROVE  k \in 1 .. Len(bases'[q]) /\ now(k) = align(k)
    BY <2>1, BasesElsewhere
  <2>4. j \in DOMAIN bases'[q]
    BY <2>1, <2>2, <2>3
  <2>5. PICK k \in {j, j - 1} \cap DOMAIN bases'[q] : \A i \in 1 .. j - 1 : now(i) <= now(k)
    BY <2>4 DEF RegularTo, Regular
  <2>6. k \in 1 .. Len(bases[q]) /\ \A i \in 1 .. j - 1 : i \in 1 .. Len(bases[q])
    BY <2>1, <2>2
  <2>7. \A i \in 1 .. j - 1 : align(i) <= align(k)
    BY <2>3, <2>5, <2>6
  <2>  HIDE DEF align
  <2>8. k \in {j, j - 1} \cap DOMAIN bases[q]
    BY <2>1, <2>6
  <2>9. QED
    BY <2>7, <2>8 DEF Regular, align
<1>3. QED
  BY <1>2 DEF RegularTo

(* The other structures keep what they have, as do the bases they share. *)
LEMMA OthersSound ==
    ASSUME StructInv, NEW s, Compiles(s), NEW r \in Ids \ {s}
    PROVE  StructOK(r)'
<1>1. /\ s \in Nat /\ r \in Nat /\ defining = s /\ defining' \in {s, s + 1}
      /\ bases'[r] = bases[r] /\ declares'[r] = declares[r] /\ layout'[r] = layout[r]
      /\ proto'[r] = proto[r] /\ offsets'[r] = offsets[r] /\ bases[r] \in Seq(Ids)
  <2>1. s \in Ids /\ s = defining /\ defining' \in {s, s + 1}
    BY DEF Compiles
  <2>2. s \in Nat /\ r \in Nat
    BY <2>1, StructsAssumption DEF Ids
  <2>3. bases[r] \in Seq(Ids)
    BY DEF StructInv, StructTypeOK
  <2>4. QED
    BY <2>1, <2>2, <2>3 DEF Compiles
<1>2. Placed(r) /\ (RegularTo(r) => Found(r)) /\ Len(bases[r]) \in Nat
  BY <1>1 DEF StructInv, StructOK
<1>3. \A j \in 1 .. Len(bases[r]) :
          /\ layout'[bases[r][j]] = layout[bases[r][j]]
          /\ proto'[bases[r][j]] = proto[bases[r][j]]
  BY BasesElsewhere
<1>4. ASSUME NEW j \in 1 .. Len(bases[r]) PROVE Later(r, j)' = Later(r, j)
  <2>1. \A k \in j + 1 .. Len(bases[r]) : k \in 1 .. Len(bases[r])
    BY <1>2
  <2>2. \A k \in j + 1 .. Len(bases[r]) : layout'[bases[r][k]] = layout[bases[r][k]]
    BY <1>3, <2>1
  <2>3. QED
    BY <1>1, <2>2 DEF Later
<1>5. ASSUME NEW j \in 1 .. Len(bases[r]), BaseOK(r, j) PROVE BaseOK(r, j)'
  BY <1>1, <1>3, <1>4, <1>5 DEF BaseOK
<1>6. (r < defining)' => r < defining
  BY <1>1 DEF Ids
<1>7. (r > defining)' => r > defining
  BY <1>1 DEF Ids
<1>8. LastAligned(r)' <=> LastAligned(r)
  <2>1. bases[r] # <<>> => Len(bases[r]) \in 1 .. Len(bases[r])
    BY <1>1, <1>2, EmptySeq
  <2>2. QED
    BY <1>1, <1>3, <2>1 DEF LastAligned
<1>9. Placed(r)'
  BY <1>1, <1>2, <1>6, <1>7, <1>8 DEF Placed
<1>10. Found(r) => Found(r)'
  BY <1>1, <1>5 DEF Found
<1>11. RegularTo(r)' => RegularTo(r)
  BY RegularKept
<1>12. QED
  BY <1>2, <1>9, <1>10, <1>11 DEF StructOK

(* So the structure that is compiled decides. *)
LEMMA StepSound ==
    ASSUME StructInv, NEW s, Compiles(s), StructTypeOK', StructOK(s)'
    PROVE  StructInv'
<1>1. \A r \in Ids \ {s} : StructOK(r)'
  BY OthersSound
<1>2. \A r \in Ids : StructOK(r)'
  BY <1>1
<1>3. QED
  BY <1>2 DEF StructInv

(* The structures that are there. *)
LEMMA StructFacts ==
    ASSUME StructInv, NEW s \in Ids
    PROVE  /\ s \in Nat /\ layout[s] \in Arrangement /\ MembersSound(layout[s])
           /\ proto[s] \in Seq(Byte) /\ Len(proto[s]) \in Nat
           /\ bases[s] \in Seq(Ids) /\ Len(bases[s]) \in Nat
           /\ DOMAIN bases[s] = 1 .. Len(bases[s])
           /\ Placed(s) /\ (RegularTo(s) => Found(s))
<1>1. s \in Nat
  BY StructsAssumption DEF Ids
<1>2. layout[s] \in Arrangement /\ proto[s] \in Seq(Byte) /\ bases[s] \in Seq(Ids)
  BY DEF StructInv, StructTypeOK
<1>3. Placed(s) /\ (RegularTo(s) => Found(s))
  BY DEF StructInv, StructOK
<1>4. MembersSound(layout[s])
  BY <1>3 DEF Placed
<1>5. Len(proto[s]) \in Nat /\ Len(bases[s]) \in Nat /\ DOMAIN bases[s] = 1 .. Len(bases[s])
  BY <1>2
<1>6. QED
  BY <1>1, <1>2, <1>3, <1>4, <1>5

(* The alignment, the size and the initial value of a member. *)
LEMMA MemberFacts ==
    ASSUME WidthsDivide, StructInv, NEW name \in Members, NEW t \in Types, defining \in Ids,
           IsStructure(t) => t.struct < defining
    PROVE  /\ GetAlignBytes(t) \in Aligns /\ GetDataBytes(t) \in Nat
           /\ InitialValue(name, t) \in Seq(Byte)
<1>1. /\ t.elements \in Nat \ {0}
      /\ IsStructure(t) => t.struct \in Ids
      /\ ~IsStructure(t) => t.width \in Widths
  <2>1. CASE t \in [width : Widths, elements : Elements]
    <3>1. ~IsStructure(t)
      BY <2>1 DEF IsStructure
    <3>2. QED
      BY <2>1, <3>1, StructsAssumption
  <2>2. CASE t \in [struct : Ids, elements : Elements]
    <3>1. IsStructure(t)
      BY <2>2 DEF IsStructure
    <3>2. QED
      BY <2>2, <3>1, StructsAssumption
  <2>3. QED
    BY <2>1, <2>2 DEF Types
<1>2. GetAlignBytes(t) \in Aligns
  <2>1. CASE IsStructure(t)
    BY <1>1, <2>1, StructFacts, ArrangementFacts DEF GetAlignBytes
  <2>2. CASE ~IsStructure(t)
    BY <1>1, <2>2 DEF GetAlignBytes, Aligns
  <2>3. QED
    BY <2>1, <2>2
<1>3. GetDataBytes(t) \in Nat
  <2>  DEFINE w == IF IsStructure(t) THEN GetAlignedBytes(layout[t.struct]) ELSE t.width
  <2>1. w \in Nat
    <3>1. CASE IsStructure(t)
      BY <1>1, <3>1, StructFacts, AlignedFacts
    <3>2. CASE ~IsStructure(t)
      BY <1>1, <3>2, StructsAssumption
    <3>3. QED
      BY <3>1, <3>2
  <2>2. GetDataBytes(t) = t.elements * w
    BY DEF GetDataBytes
  <2>  HIDE DEF w
  <2>3. QED
    BY <1>1, <2>1, <2>2
<1>4. InitialValue(name, t) \in Seq(Byte)
  <2>1. CASE t.elements > 1
    BY <2>1 DEF InitialValue
  <2>2. CASE ~(t.elements > 1) /\ IsStructure(t)
    <3>  DEFINE q == proto[t.struct]
                w == GetAlignedBytes(layout[t.struct])
    <3>1. q \in Seq(Byte) /\ w \in Nat /\ w <= Len(q)
      <4>1. Placed(t.struct) /\ q \in Seq(Byte) /\ layout[t.struct] \in Arrangement
        BY <1>1, <2>2, StructFacts
      <4>2. w \in Nat
        BY <4>1, AlignedFacts
      <4>3. QED
        BY <2>2, <4>1, <4>2 DEF Placed
    <3>  HIDE DEF q, w
    <3>2. t.elements = 1 /\ 1 * w = w
      BY <1>1, <2>2, <3>1
    <3>3. GetDataBytes(t) = w
      BY <2>2, <3>2 DEF GetDataBytes, w
    <3>4. \A i \in 1 .. w : q[0 + i] \in Byte
      BY <3>1
    <3>5. [i \in 1 .. w |-> q[0 + i]] \in Seq(Byte)
      BY <3>1, <3>4
    <3>6. InitialValue(name, t) = [i \in 1 .. w |-> q[0 + i]]
      BY <2>2, <3>3 DEF InitialValue, Bytes, q
    <3>7. QED
      BY <3>5, <3>6
  <2>3. CASE ~(t.elements > 1) /\ ~IsStructure(t)
    <3>1. [i \in 1 .. GetDataBytes(t) |-> <<defining, name, i>>] \in [1 .. GetDataBytes(t) -> Byte]
      BY <1>3 DEF Byte
    <3>2. QED
      BY <1>3, <2>3, <3>1 DEF InitialValue
  <2>4. QED
    BY <2>1, <2>2, <2>3
<1>5. QED
  BY <1>2, <1>3, <1>4

(* A member is added. *)
LEMMA AddMemberKeeps ==
    ASSUME WidthsDivide, StructInv, NEW name \in Members, NEW t \in Types, AddMember(name, t)
    PROVE  StructInv'
<1>  SUFFICES ASSUME NEW s, s = defining PROVE StructInv'
  OBVIOUS
<1>  DEFINE A == layout[s]
            A2 == AddDesc(A, name, GetAlignBytes(t), GetDataBytes(t))
            g == GetBuffer(proto[s], A2)
            l == A2.names[name].location
            p2 == Overwrite(g, l, InitialValue(name, t))
<1>1. /\ s \in Ids /\ name \notin DOMAIN A.names /\ (IsStructure(t) => t.struct < s)
      /\ layout' = [layout EXCEPT ![s] = A2] /\ proto' = [proto EXCEPT ![s] = p2]
      /\ declares' = [declares EXCEPT ![s] = @ \cup {name}]
      /\ UNCHANGED <<defining, bases, offsets>>
  BY DEF AddMember
<1>2. /\ s \in Nat /\ A \in Arrangement /\ MembersSound(A) /\ proto[s] \in Seq(Byte)
      /\ Len(proto[s]) \in Nat /\ Placed(s) /\ (RegularTo(s) => Found(s))
      /\ Len(bases[s]) \in Nat /\ StructTypeOK /\ bases[s] \in Seq(Ids)
  BY <1>1, StructFacts DEF StructInv
<1>3. /\ GetAlignBytes(t) \in Aligns /\ GetDataBytes(t) \in Nat
      /\ InitialValue(name, t) \in Seq(Byte)
  BY <1>1, MemberFacts
<1>4. Extends(A2, A, {}) /\ l \in Nat /\ A.allocated <= l
  BY <1>1, <1>2, <1>3, AddDescExtends
<1>  HIDE DEF A2, l
<1>5. /\ A2 \in Arrangement /\ MembersSound(A2)
      /\ GetAlignedBytes(A) \in Nat /\ GetAlignedBytes(A2) \in Nat
      /\ GetAlignedBytes(A) <= GetAlignedBytes(A2)
  <2>1. A2 \in Arrangement /\ GetAlignedBytes(A) <= GetAlignedBytes(A2) /\ MembersSound(A2)
    BY <1>2, <1>4, AlignedGrows DEF Extends
  <2>2. QED
    BY <1>2, <2>1, AlignedFacts
<1>6. /\ g \in Seq(Byte) /\ Len(g) = Larger(Len(proto[s]), GetAlignedBytes(A2))
      /\ Len(proto[s]) <= Len(g) /\ \A i \in 1 .. Len(proto[s]) : g[i] = proto[s][i]
  <2>1. /\ g \in Seq(Byte) /\ Len(g) = Larger(Len(proto[s]), GetAlignedBytes(A2))
        /\ \A i \in 1 .. Len(proto[s]) : g[i] = proto[s][i]
    BY <1>2, <1>5, BufferFacts
  <2>2. QED
    BY <1>2, <1>5, <2>1 DEF Larger
<1>  HIDE DEF g
<1>7. /\ p2 \in Seq(Byte) /\ Len(p2) = Len(g) /\ Len(proto[s]) <= Len(p2)
      /\ \A i \in 1 .. Len(g) : i <= l => p2[i] = g[i]
  BY <1>3, <1>4, <1>6, OverwriteFacts
<1>  HIDE DEF p2
<1>8. StructTypeOK'
  BY <1>1, <1>2, <1>5, <1>7 DEF StructTypeOK
<1>9. /\ layout'[s] = A2 /\ proto'[s] = p2 /\ name \in declares'[s]
      /\ \A r \in Ids \ {s} : /\ declares'[r] = declares[r] /\ layout'[r] = layout[r]
                              /\ proto'[r] = proto[r]
  BY <1>1, <1>2 DEF StructTypeOK
<1>10. Compiles(s)
  BY <1>1, <1>2, <1>8, <1>9 DEF Compiles
<1>11. ASSUME NEW j \in 1 .. Len(bases[s]), BaseOK(s, j) PROVE BaseOK(s, j)'
  <2>  DEFINE b == bases[s][j]
  <2>1. /\ b \in Ids /\ layout'[b] = layout[b] /\ proto'[b] = proto[b]
        /\ offsets'[s][b] = offsets[s][b]
    BY <1>1, <1>10, BasesElsewhere
  <2>2. layout[b] \in Arrangement /\ proto[b] \in Seq(Byte) /\ Len(proto[b]) \in Nat
    BY <2>1, StructFacts
  <2>3. Later(s, j)' = Later(s, j)
    <3>1. \A k \in j + 1 .. Len(bases[s]) : k \in 1 .. Len(bases[s])
      BY <1>2
    <3>2. \A k \in j + 1 .. Len(bases[s]) : layout'[bases[s][k]] = layout[bases[s][k]]
      BY <1>1, <1>10, <3>1, BasesElsewhere
    <3>3. QED
      BY <1>1, <3>2 DEF Later
  <2>  HIDE DEF b
  <2>4. BaseSound(A, proto[s], layout[b], proto[b], offsets[s][b], Later(s, j))
    BY <1>11 DEF BaseOK, b
  <2>5. \A i \in 1 .. offsets[s][b] + Len(proto[b]) : p2[i] = proto[s][i]
    <3>1. /\ offsets[s][b] \in Nat /\ offsets[s][b] + Len(proto[b]) <= A.allocated
          /\ offsets[s][b] + Len(proto[b]) <= Len(proto[s]) /\ A.allocated \in Nat
      BY <1>2, <2>4, ArrangementFacts DEF BaseSound
    <3>2. ASSUME NEW i \in 1 .. offsets[s][b] + Len(proto[b])
          PROVE  i \in 1 .. Len(proto[s]) /\ i \in 1 .. Len(g) /\ i <= l
      <4>1. i \in Nat /\ 1 <= i /\ i <= Len(proto[s]) /\ i <= A.allocated
        BY <1>2, <2>2, <3>1
      <4>2. Len(g) \in Nat /\ Len(proto[s]) <= Len(g)
        BY <1>6
      <4>3. i <= l
        BY <1>4, <3>1, <4>1
      <4>4. QED
        BY <1>2, <4>1, <4>2, <4>3
    <3>3. \A i \in 1 .. offsets[s][b] + Len(proto[b]) : g[i] = proto[s][i]
      BY <1>6, <3>2
    <3>4. \A i \in 1 .. offsets[s][b] + Len(proto[b]) : p2[i] = g[i]
      BY <1>7, <3>2
    <3>5. QED
      BY <3>3, <3>4
  <2>6. BaseSound(A2, p2, layout[b], proto[b], offsets[s][b], Later(s, j))
    <3>1. Later(s, j) \cup {} \subseteq Later(s, j)
      OBVIOUS
    <3>2. A \in Arrangement /\ proto[s] \in Seq(Byte) /\ layout[b] \in Arrangement
      BY <1>2, <2>2
    <3>3. Extends(A2, A, {}) /\ p2 \in Seq(Byte) /\ Len(proto[s]) <= Len(p2)
      BY <1>4, <1>7
    <3>  HIDE DEF A
    <3>4. QED
      BY <2>2, <2>4, <2>5, <3>1, <3>2, <3>3, BaseKept
  <2>7. QED
    BY <1>1, <1>9, <2>1, <2>3, <2>6 DEF BaseOK, b
<1>12. Placed(s)'
  <2>1. /\ MembersSound(A2) /\ ~(s < defining) /\ ~(s > defining) /\ declares'[s] # {}
        /\ DOMAIN offsets[s] = {bases[s][j] : j \in 1 .. Len(bases[s])}
        /\ \A j \in 1 .. Len(bases[s]) : bases[s][j] < s
    BY <1>2, <1>5, <1>9 DEF Placed
  <2>2. defining' = defining /\ bases' = bases /\ offsets' = offsets
    BY <1>1
  <2>  HIDE DEF A
  <2>3. QED
    BY <1>9, <2>1, <2>2 DEF Placed
<1>13. Found(s) => Found(s)'
  <2>  SUFFICES ASSUME Found(s) PROVE Found(s)'
    OBVIOUS
  <2>1. Len(proto[s]) <= GetAlignedBytes(A) /\ \A j \in 1 .. Len(bases[s]) : BaseOK(s, j)
    BY DEF Found
  <2>2. Len(p2) <= GetAlignedBytes(A2)
    BY <1>2, <1>5, <1>6, <1>7, <2>1 DEF Larger
  <2>3. \A j \in 1 .. Len(bases[s]) : BaseOK(s, j)'
    BY <1>11, <2>1
  <2>  HIDE DEF A
  <2>4. QED
    BY <1>1, <1>9, <2>2, <2>3 DEF Found
<1>14. RegularTo(s)' => RegularTo(s)
  BY <1>1, <1>10, RegularKept
<1>15. StructOK(s)'
  BY <1>2, <1>12, <1>13, <1>14 DEF StructOK
<1>16. QED
  BY <1>8, <1>10, <1>15, StepSound

(* What a base that is kept has is in front of the end of the prototype and of what *)
(* was allocated.                                                                   *)
LEMMA BaseInside ==
    ASSUME StructInv, NEW s \in Ids, NEW j \in 1 .. Len(bases[s]), BaseOK(s, j)
    PROVE  LET b == bases[s][j]
           IN  /\ b \in Ids /\ offsets[s][b] \in Nat /\ Len(proto[b]) \in Nat
               /\ offsets[s][b] + Len(proto[b]) <= layout[s].allocated
               /\ offsets[s][b] + Len(proto[b]) <= Len(proto[s])
<1>  DEFINE b == bases[s][j]
<1>1. b \in Ids
  BY StructFacts
<1>2. Len(proto[b]) \in Nat
  BY <1>1, StructFacts
<1>3. QED
  BY <1>1, <1>2 DEF BaseOK, BaseSound

(* A base is added. *)
LEMMA AddBaseKeeps ==
    ASSUME WidthsDivide, StructInv, NEW b \in Ids, AddBase(b)
    PROVE  StructInv'
<1>  SUFFICES ASSUME NEW s, s = defining, NEW n, n = Len(bases[s]) PROVE StructInv'
  OBVIOUS
<1>  DEFINE A == layout[s]
            B == layout[b]
            q == proto[b]
            o == CalcAlign(A.allocated, B.align)
            M == MakeAlignment(A, B.align)
            w == GetAlignedBytes(M)
            A2 == MergeFrom(A, B)
            g == GetBuffer(proto[s], M)
            p2 == g \o q
<1>1. /\ s \in Ids /\ b < s /\ declares[s] = {} /\ b \notin DOMAIN offsets[s]
      /\ offsets' = [offsets EXCEPT ![s] =
             [c \in DOMAIN @ \cup {b} |-> IF c = b THEN w ELSE @[c]]]
      /\ proto' = [proto EXCEPT ![s] = p2]
      /\ layout' = [layout EXCEPT ![s] = A2]
      /\ bases' = [bases EXCEPT ![s] = Append(@, b)]
      /\ UNCHANGED <<defining, declares>>
  BY DEF AddBase
<1>2. /\ s \in Nat /\ A \in Arrangement /\ MembersSound(A) /\ proto[s] \in Seq(Byte)
      /\ Len(proto[s]) \in Nat /\ Placed(s) /\ (RegularTo(s) => Found(s)) /\ n \in Nat
      /\ StructTypeOK /\ bases[s] \in Seq(Ids) /\ LastAligned(s)
  BY <1>1, StructFacts DEF StructInv, Placed
<1>3. /\ b \in Nat /\ B \in Arrangement /\ MembersSound(B) /\ q \in Seq(Byte) /\ Len(q) \in Nat
      /\ Placed(b) /\ (RegularTo(b) => Found(b))
  BY StructFacts
<1>4. /\ A.allocated \in Nat /\ A.align \in Aligns /\ A.align \in Nat \ {0}
      /\ B.align \in Aligns /\ B.align \in Nat \ {0}
      /\ GetAlignedBytes(B) \in Nat /\ Divides(B.align, GetAlignedBytes(B))
  BY <1>2, <1>3, ArrangementFacts, AlignsNested, AlignedFacts
<1>5. /\ Extends(A2, A, DOMAIN B.names)
      /\ o \in Nat /\ A.allocated <= o /\ A2.allocated = o + GetAlignedBytes(B)
      /\ A2.align = Larger(A.align, B.align) /\ DOMAIN B.names \subseteq DOMAIN A2.names
      /\ \A m \in DOMAIN B.names : A2.names[m] = [B.names[m] EXCEPT !.location = @ + o]
  BY <1>2, <1>3, MergeExtends
<1>6. M \in Arrangement /\ w \in Nat
  <2>1. M = [names |-> A.names, allocated |-> o, align |-> A.align]
    BY <1>2 DEF MakeAlignment, Arrangement
  <2>2. A.names \in UNION {[D -> Place] : D \in SUBSET Members}
    BY <1>2 DEF Arrangement
  <2>3. M \in Arrangement
    BY <1>4, <1>5, <2>1, <2>2 DEF Arrangement
  <2>  HIDE DEF M
  <2>4. QED
    BY <2>3, AlignedFacts
<1>7. Divides(B.align, A2.allocated)
  <2>1. Divides(B.align, o)
    BY <1>4, AlignFacts
  <2>2. QED
    BY <1>4, <1>5, <2>1, DividesSum
<1>  HIDE DEF A2, o
<1>8. A2 \in Arrangement /\ MembersSound(A2)
  BY <1>5 DEF Extends
<1>9. /\ g \in Seq(Byte) /\ Len(g) = Larger(Len(proto[s]), w)
      /\ \A i \in 1 .. Len(proto[s]) : g[i] = proto[s][i]
  BY <1>2, <1>6, BufferFacts
<1>  HIDE DEF g, M, w
<1>10. /\ p2 \in Seq(Byte) /\ Len(p2) = Len(g) + Len(q)
       /\ \A i \in 1 .. Len(g) : p2[i] = g[i]
       /\ \A i \in 1 .. Len(q) : p2[Len(g) + i] = q[i]
  BY <1>3, <1>9, AppendFacts
<1>  HIDE DEF p2
<1>11. /\ bases'[s] = Append(bases[s], b) /\ layout'[s] = A2 /\ proto'[s] = p2
       /\ DOMAIN offsets'[s] = DOMAIN offsets[s] \cup {b} /\ offsets'[s][b] = w
       /\ \A c \in DOMAIN offsets[s] : offsets'[s][c] = offsets[s][c]
       /\ \A r \in Ids \ {s} :
           /\ bases'[r] = bases[r] /\ declares'[r] = declares[r] /\ layout'[r] = layout[r]
           /\ proto'[r] = proto[r] /\ offsets'[r] = offsets[r]
  BY <1>1, <1>2 DEF StructTypeOK
<1>12. StructTypeOK'
  <2>1. bases' \in [Ids -> Seq(Ids)]
    BY <1>1, <1>2 DEF StructTypeOK
  <2>2. layout' \in [Ids -> Arrangement] /\ proto' \in [Ids -> Seq(Byte)]
    BY <1>1, <1>2, <1>8, <1>10 DEF StructTypeOK
  <2>3. offsets' \in [Ids -> UNION {[D -> Nat] : D \in SUBSET Ids}]
    <3>  DEFINE f == [c \in DOMAIN offsets[s] \cup {b} |-> IF c = b THEN w ELSE offsets[s][c]]
    <3>1. offsets[s] \in UNION {[D -> Nat] : D \in SUBSET Ids}
      BY <1>1, <1>2 DEF StructTypeOK
    <3>2. PICK D \in SUBSET Ids : offsets[s] \in [D -> Nat]
      BY <3>1
    <3>3. f \in [D \cup {b} -> Nat] /\ D \cup {b} \in SUBSET Ids
      BY <1>6, <3>2
    <3>4. offsets' = [offsets EXCEPT ![s] = f]
      BY <1>1
    <3>  HIDE DEF f
    <3>5. f \in UNION {[E -> Nat] : E \in SUBSET Ids}
      BY <3>3
    <3>6. QED
      BY <1>2, <3>4, <3>5 DEF StructTypeOK
  <2>4. QED
    BY <1>1, <1>2, <2>1, <2>2, <2>3 DEF StructTypeOK
<1>13. /\ bases'[s] # <<>> /\ Len(bases'[s]) = n + 1 /\ bases'[s][n + 1] = b
       /\ \A j \in 1 .. n : bases'[s][j] = bases[s][j]
  BY <1>2, <1>11
<1>14. Compiles(s)
  BY <1>1, <1>2, <1>11, <1>12, <1>13 DEF Compiles
<1>15. layout'[b] = B /\ proto'[b] = q
  <2>1. b \in Ids \ {s}
    BY <1>1, <1>2, <1>3
  <2>2. QED
    BY <1>11, <2>1
<1>16. \A j \in 1 .. n : /\ bases'[s][j] = bases[s][j] /\ bases[s][j] \in Ids /\ bases[s][j] < s
                         /\ layout'[bases[s][j]] = layout[bases[s][j]]
                         /\ proto'[bases[s][j]] = proto[bases[s][j]]
  BY <1>1, <1>13, <1>14, BasesElsewhere
<1>17. LastAligned(s)'
  <2>1. \E k \in 1 .. n + 1 : A2.align = layout'[bases'[s][k]].align
    <3>1. CASE A2.align = B.align
      <4>1. n + 1 \in 1 .. n + 1 /\ layout'[bases'[s][n + 1]] = B
        BY <1>2, <1>13, <1>15
      <4>2. QED
        BY <3>1, <4>1
    <3>2. CASE A2.align # B.align
      <4>1. A2.align = A.align /\ A.align # 1
        BY <1>4, <1>5, <3>2 DEF Larger
      <4>2. PICK k \in 1 .. n : A.align = layout[bases[s][k]].align
        BY <1>2, <4>1 DEF LastAligned
      <4>3. k \in 1 .. n + 1 /\ layout'[bases'[s][k]] = layout[bases[s][k]]
        BY <1>2, <1>16
      <4>4. QED
        BY <4>1, <4>2, <4>3
    <3>3. QED
      BY <3>1, <3>2
  <2>2. layout'[bases'[s][n + 1]] = B
    BY <1>13, <1>15
  <2>  HIDE DEF B
  <2>3. QED
    BY <1>7, <1>11, <1>13, <2>1, <2>2 DEF LastAligned
<1>18. Placed(s)'
  <2>1. DOMAIN offsets'[s] = {bases'[s][j] : j \in 1 .. n + 1}
    <3>1. DOMAIN offsets[s] = {bases[s][j] : j \in 1 .. n}
      BY <1>2 DEF Placed
    <3>2. 1 .. n + 1 = (1 .. n) \cup {n + 1}
      BY <1>2
    <3>3. {bases'[s][j] : j \in 1 .. n + 1} = {bases[s][j] : j \in 1 .. n} \cup {b}
      BY <1>13, <3>2
    <3>4. QED
      BY <1>11, <3>1, <3>3
  <2>2. \A j \in 1 .. n + 1 : bases'[s][j] < s
    <3>1. \A j \in 1 .. n + 1 : j \in 1 .. n \/ j = n + 1
      BY <1>2
    <3>2. QED
      BY <1>1, <1>13, <1>16, <3>1
  <2>3. defining' = s /\ ~(s < s) /\ ~(s > s)
    BY <1>1, <1>2
  <2>4. QED
    BY <1>8, <1>11, <1>13, <1>17, <2>1, <2>2, <2>3 DEF Placed
<1>19. ASSUME RegularTo(s)' PROVE Found(s)'
  <2>1. Found(s) /\ Found(b)
    <3>1. RegularTo(s)
      BY <1>1, <1>14, <1>19, RegularKept
    <3>2. \A r \in 1 .. b : r \in 1 .. s
      BY <1>1, <1>2, <1>3
    <3>3. RegularTo(b)
      BY <3>1, <3>2 DEF RegularTo
    <3>4. QED
      BY <1>2, <1>3, <3>1, <3>3
  <2>2. Len(q) = GetAlignedBytes(B)
    BY <1>1, <1>3, <1>4, <2>1 DEF Placed, Found
  <2>3. Divides(A.align, A.allocated) \/ A.align <= B.align
    <3>1. CASE bases[s] = <<>>
      BY <1>2, <1>4, <3>1 DEF LastAligned
    <3>2. CASE bases[s] # <<>>
      <4>  DEFINE align(k) == layout[bases[s][k]].align
      <4>1. n >= 1 /\ n \in 1 .. n
        BY <1>2, <3>2, EmptySeq
      <4>2. PICK m \in 1 .. n : A.align = align(m)
        BY <1>2, <3>2 DEF LastAligned
      <4>3. Divides(align(n), A.allocated)
        BY <1>2, <3>2 DEF LastAligned
      <4>4. Regular(s, n + 1)'
        <5>1. DOMAIN bases'[s] = 1 .. n + 1
          BY <1>11, <1>13, <1>2
        <5>2. s \in 1 .. s /\ n + 1 \in 1 .. n + 1
          BY <1>1, <1>2 DEF Ids
        <5>3. QED
          BY <1>19, <5>1, <5>2 DEF RegularTo
      <4>5. PICK k \in {n + 1, n} :
                \A i \in 1 .. n : layout'[bases'[s][i]].align <= layout'[bases'[s][k]].align
        <5>1. (n + 1) - 1 = n
          BY <1>2
        <5>2. QED
          BY <4>4, <5>1 DEF Regular
      <4>6. layout'[bases'[s][m]].align = A.align
        BY <1>16, <4>2
      <4>7. CASE k = n + 1
        <5>1. layout'[bases'[s][k]] = B
          BY <1>13, <1>15, <4>7
        <5>2. QED
          BY <4>5, <4>6, <5>1
      <4>8. CASE k = n
        <5>1. layout'[bases'[s][k]].align = align(n)
          BY <1>16, <4>1, <4>8
        <5>2. A.align <= align(n)
          BY <4>5, <4>6, <5>1
        <5>3. align(n) \in Aligns
          <6>1. bases[s][n] \in Ids
            BY <1>16, <4>1
          <6>2. layout[bases[s][n]] \in Arrangement
            BY <6>1, StructFacts
          <6>3. QED
            BY <6>2, ArrangementFacts
        <5>  HIDE DEF align, A
        <5>4. Divides(A.align, align(n)) /\ align(n) \in Nat
          BY <1>4, <5>2, <5>3, AlignsNested
        <5>5. QED
          BY <1>4, <4>3, <5>4, DividesTrans
      <4>9. QED
        BY <4>5, <4>7, <4>8
    <3>3. QED
      BY <3>1, <3>2
  <2>4. w = o /\ GetAlignedBytes(A) <= o
    BY <1>2, <1>4, <2>3, OffsetWherePlaced DEF w, o, M
  <2>5. Len(proto[s]) <= o
    <3>1. GetAlignedBytes(A) \in Nat
      BY <1>2, AlignedFacts
    <3>2. QED
      BY <1>2, <1>5, <2>1, <2>4, <3>1 DEF Found
  <2>6. Len(g) = o /\ Len(p2) = A2.allocated /\ Len(p2) = o + Len(q)
    BY <1>2, <1>3, <1>5, <1>6, <1>9, <1>10, <2>2, <2>4, <2>5 DEF Larger
  <2>7. ASSUME NEW j \in 1 .. n PROVE BaseOK(s, j)'
    <3>  DEFINE c == bases[s][j]
    <3>1. /\ c \in Ids /\ BaseOK(s, j) /\ layout'[c] = layout[c] /\ proto'[c] = proto[c]
          /\ bases'[s][j] = c /\ c \in DOMAIN offsets[s]
      BY <1>2, <1>16, <2>1 DEF Found, Placed
    <3>2. offsets'[s][c] = offsets[s][c] /\ layout[c] \in Arrangement /\ proto[c] \in Seq(Byte)
      BY <1>11, <3>1, StructFacts
    <3>  DEFINE later2 == Later(s, j)'
    <3>3. Later(s, j) \cup DOMAIN B.names \subseteq later2
      <4>1. ASSUME NEW k \in j + 1 .. n
            PROVE  /\ k \in j + 1 .. n + 1 /\ bases'[s][k] = bases[s][k]
                   /\ layout'[bases'[s][k]] = layout[bases[s][k]]
        <5>1. k \in 1 .. n /\ k \in j + 1 .. n + 1
          BY <1>2
        <5>2. QED
          BY <1>16, <5>1
      <4>2. n + 1 \in j + 1 .. n + 1 /\ layout'[bases'[s][n + 1]] = B
        BY <1>2, <1>13, <1>15
      <4>3. Later(s, j)' = UNION {DOMAIN layout'[bases'[s][k]].names : k \in j + 1 .. n + 1}
        BY <1>13 DEF Later
      <4>4. DOMAIN B.names \subseteq Later(s, j)'
        BY <4>2, <4>3
      <4>5. ASSUME NEW m \in Later(s, j) PROVE m \in Later(s, j)'
        <5>1. PICK k \in j + 1 .. n : m \in DOMAIN layout[bases[s][k]].names
          BY DEF Later
        <5>2. QED
          BY <4>1, <4>3, <5>1
      <4>6. QED
        BY <4>4, <4>5
    <3>  HIDE DEF later2
    <3>4. /\ offsets[s][c] \in Nat /\ Len(proto[c]) \in Nat
          /\ offsets[s][c] + Len(proto[c]) <= Len(proto[s])
      BY <1>1, <3>1, BaseInside
    <3>  HIDE DEF c
    <3>5. BaseSound(A, proto[s], layout[c], proto[c], offsets[s][c], Later(s, j))
      BY <3>1 DEF BaseOK, c
    <3>6. \A i \in 1 .. offsets[s][c] + Len(proto[c]) : p2[i] = proto[s][i]
      <4>1. ASSUME NEW i \in 1 .. offsets[s][c] + Len(proto[c])
            PROVE  i \in 1 .. Len(proto[s]) /\ i \in 1 .. Len(g)
        BY <1>2, <1>5, <2>5, <2>6, <3>4
      <4>2. QED
        BY <1>9, <1>10, <4>1
    <3>7. Len(proto[s]) <= Len(p2)
      BY <1>2, <1>3, <1>5, <2>5, <2>6
    <3>8. BaseSound(A2, p2, layout[c], proto[c], offsets[s][c], later2)
      <4>1. A \in Arrangement /\ proto[s] \in Seq(Byte)
        BY <1>2
      <4>2. Extends(A2, A, DOMAIN B.names) /\ p2 \in Seq(Byte)
        BY <1>5, <1>10
      <4>  HIDE DEF A, B
      <4>3. QED
        BY <3>2, <3>3, <3>5, <3>6, <3>7, <4>1, <4>2, BaseKept
    <3>9. QED
      BY <1>11, <3>1, <3>2, <3>8 DEF BaseOK, later2
  <2>8. BaseOK(s, n + 1)'
    <3>  DEFINE later2 == Later(s, n + 1)'
    <3>  HIDE DEF later2
    <3>1. o + Len(q) <= A2.allocated /\ o + Len(q) <= Len(p2) /\ \A i \in 1 .. Len(q) : p2[o + i] = q[i]
      BY <1>3, <1>5, <1>10, <2>6
    <3>2. BaseSound(A2, p2, B, q, o, later2)
      BY <1>5, <3>1 DEF BaseSound
    <3>3. QED
      BY <1>11, <1>13, <1>15, <2>4, <3>2 DEF BaseOK, later2
  <2>9. Len(p2) <= GetAlignedBytes(A2)
    BY <1>8, <2>6, AlignedFacts
  <2>10. \A j \in 1 .. n + 1 : j \in 1 .. n \/ j = n + 1
    BY <1>2
  <2>11. \A j \in 1 .. n + 1 : BaseOK(s, j)'
    BY <2>7, <2>8, <2>10
  <2>12. QED
    BY <1>11, <1>13, <2>9, <2>11 DEF Found
<1>20. StructOK(s)'
  BY <1>18, <1>19 DEF StructOK
<1>21. QED
  BY <1>12, <1>14, <1>20, StepSound

(* A structure is completed. *)
LEMMA CompleteStructKeeps ==
    ASSUME WidthsDivide, StructInv, CompleteStruct
    PROVE  StructInv'
<1>  SUFFICES ASSUME NEW s, s = defining PROVE StructInv'
  OBVIOUS
<1>  DEFINE A == layout[s]
            p2 == GetBuffer(proto[s], A)
<1>1. /\ s \in Ids /\ proto' = [proto EXCEPT ![s] = p2] /\ defining' = s + 1
      /\ UNCHANGED <<bases, declares, layout, offsets>>
  BY DEF CompleteStruct
<1>2. /\ s \in Nat /\ A \in Arrangement /\ MembersSound(A) /\ proto[s] \in Seq(Byte)
      /\ Len(proto[s]) \in Nat /\ Placed(s) /\ (RegularTo(s) => Found(s))
      /\ Len(bases[s]) \in Nat /\ StructTypeOK /\ bases[s] \in Seq(Ids)
  BY <1>1, StructFacts DEF StructInv
<1>3. GetAlignedBytes(A) \in Nat
  BY <1>2, AlignedFacts
<1>4. /\ p2 \in Seq(Byte) /\ Len(p2) = Larger(Len(proto[s]), GetAlignedBytes(A))
      /\ Len(proto[s]) <= Len(p2) /\ GetAlignedBytes(A) <= Len(p2)
      /\ \A i \in 1 .. Len(proto[s]) : p2[i] = proto[s][i]
  <2>1. /\ p2 \in Seq(Byte) /\ Len(p2) = Larger(Len(proto[s]), GetAlignedBytes(A))
        /\ \A i \in 1 .. Len(proto[s]) : p2[i] = proto[s][i]
    BY <1>2, BufferFacts
  <2>2. QED
    BY <1>2, <1>3, <2>1 DEF Larger
<1>  HIDE DEF p2
<1>5. Extends(A, A, {})
  <2>1. A.allocated \in Nat /\ A.align \in Nat /\ A.align = A.align * 1
    BY <1>2, ArrangementFacts, AlignsNested
  <2>2. Divides(A.align, A.align)
    BY <2>1 DEF Divides
  <2>3. QED
    BY <1>2, <2>1, <2>2 DEF Extends
<1>6. defining' \in 1 .. Structures + 1
  BY <1>1, StructsAssumption DEF Ids
<1>7. proto' \in [Ids -> Seq(Byte)]
  BY <1>1, <1>2, <1>4 DEF StructTypeOK
<1>8. StructTypeOK'
  BY <1>1, <1>2, <1>6, <1>7 DEF StructTypeOK
<1>9. proto'[s] = p2 /\ \A r \in Ids \ {s} : proto'[r] = proto[r]
  BY <1>1, <1>2 DEF StructTypeOK
<1>10. Compiles(s)
  BY <1>1, <1>2, <1>8, <1>9 DEF Compiles
<1>11. ASSUME NEW j \in 1 .. Len(bases[s]), BaseOK(s, j) PROVE BaseOK(s, j)'
  <2>  DEFINE b == bases[s][j]
  <2>1. /\ b \in Ids /\ layout'[b] = layout[b] /\ proto'[b] = proto[b]
        /\ layout[b] \in Arrangement /\ proto[b] \in Seq(Byte)
    BY <1>1, <1>10, BasesElsewhere, StructFacts
  <2>2. /\ offsets[s][b] \in Nat /\ Len(proto[b]) \in Nat
        /\ offsets[s][b] + Len(proto[b]) <= Len(proto[s])
    BY <1>1, <1>11, BaseInside
  <2>3. Later(s, j)' = Later(s, j)
    BY <1>1 DEF Later
  <2>  HIDE DEF b
  <2>4. BaseSound(A, proto[s], layout[b], proto[b], offsets[s][b], Later(s, j))
    BY <1>11 DEF BaseOK, b
  <2>5. \A i \in 1 .. offsets[s][b] + Len(proto[b]) : p2[i] = proto[s][i]
    <3>1. \A i \in 1 .. offsets[s][b] + Len(proto[b]) : i \in 1 .. Len(proto[s])
      BY <1>2, <2>2
    <3>2. QED
      BY <1>4, <3>1
  <2>6. BaseSound(A, p2, layout[b], proto[b], offsets[s][b], Later(s, j))
    <3>1. Later(s, j) \cup {} \subseteq Later(s, j)
      OBVIOUS
    <3>2. /\ A \in Arrangement /\ proto[s] \in Seq(Byte) /\ layout[b] \in Arrangement
          /\ proto[b] \in Seq(Byte) /\ p2 \in Seq(Byte) /\ Len(proto[s]) <= Len(p2)
      BY <1>2, <1>4, <2>1 DEF b
    <3>  HIDE DEF A
    <3>3. QED
      BY <1>5, <2>4, <2>5, <3>1, <3>2, BaseKept
  <2>7. QED
    BY <1>1, <1>9, <2>1, <2>3, <2>6 DEF BaseOK, b
<1>12. LastAligned(s)' <=> LastAligned(s)
  BY <1>1 DEF LastAligned
<1>13. Placed(s)'
  <2>1. /\ DOMAIN offsets[s] = {bases[s][j] : j \in 1 .. Len(bases[s])}
        /\ declares[s] = {} => LastAligned(s)
        /\ \A j \in 1 .. Len(bases[s]) : bases[s][j] < s
    BY <1>2 DEF Placed
  <2>2. ~(s > s + 1) /\ Len(p2) >= GetAlignedBytes(A)
    BY <1>2, <1>3, <1>4
  <2>  HIDE DEF A
  <2>3. layout[s] = A
    BY DEF A
  <2>4. QED
    BY <1>1, <1>2, <1>9, <1>12, <2>1, <2>2, <2>3 DEF Placed
<1>14. Found(s) => Found(s)'
  <2>  SUFFICES ASSUME Found(s) PROVE Found(s)'
    OBVIOUS
  <2>1. Len(proto[s]) <= GetAlignedBytes(A) /\ \A j \in 1 .. Len(bases[s]) : BaseOK(s, j)
    BY DEF Found
  <2>2. Len(p2) <= GetAlignedBytes(A)
    BY <1>2, <1>3, <1>4, <2>1 DEF Larger
  <2>3. \A j \in 1 .. Len(bases[s]) : BaseOK(s, j)'
    BY <1>11, <2>1
  <2>  HIDE DEF A
  <2>4. layout[s] = A
    BY DEF A
  <2>5. QED
    BY <1>1, <1>9, <2>2, <2>3, <2>4 DEF Found
<1>15. RegularTo(s)' => RegularTo(s)
  BY <1>1 DEF RegularTo, Regular
<1>16. StructOK(s)'
  BY <1>2, <1>13, <1>14, <1>15 DEF StructOK
<1>17. QED
  BY <1>8, <1>10, <1>16, StepSound

(* Before the first structure there are only empty ones. *)
LEMMA StructsStart ==
    ASSUME WidthsDivide, StructInit
    PROVE  StructInv
<1>1. StructTypeOK
  <2>1. <<>> \in [{} -> Place] /\ <<>> \in [{} -> Nat]
    OBVIOUS
  <2>2. [names |-> <<>>, allocated |-> 0, align |-> 1] \in Arrangement
    BY <2>1 DEF Arrangement, Aligns
  <2>3. <<>> \in UNION {[D -> Nat] : D \in SUBSET Ids}
    BY <2>1
  <2>4. 1 \in 1 .. Structures + 1
    BY StructsAssumption
  <2>  DEFINE A == [names |-> <<>>, allocated |-> 0, align |-> 1]
  <2>5. /\ defining = 1 /\ bases = [s \in Ids |-> <<>>] /\ declares = [s \in Ids |-> {}]
        /\ layout = [s \in Ids |-> A]
        /\ proto = [s \in Ids |-> <<>>] /\ offsets = [s \in Ids |-> <<>>]
    BY DEF StructInit
  <2>  HIDE DEF A
  <2>6. A \in Arrangement
    BY <2>2 DEF A
  <2>7. <<>> \in Seq(Ids) /\ <<>> \in Seq(Byte)
    OBVIOUS
  <2>8. bases \in [Ids -> Seq(Ids)] /\ proto \in [Ids -> Seq(Byte)]
    BY <2>5, <2>7
  <2>9. layout \in [Ids -> Arrangement] /\ declares \in [Ids -> SUBSET Members]
    BY <2>5, <2>6
  <2>10. offsets \in [Ids -> UNION {[D -> Nat] : D \in SUBSET Ids}]
    BY <2>3, <2>5
  <2>11. QED
    BY <2>4, <2>5, <2>8, <2>9, <2>10 DEF StructTypeOK
<1>2. ASSUME NEW s \in Ids PROVE StructOK(s)
  <2>  DEFINE A == [names |-> <<>>, allocated |-> 0, align |-> 1]
  <2>1. /\ layout[s] = A /\ proto[s] = <<>> /\ bases[s] = <<>> /\ offsets[s] = <<>>
        /\ defining = 1 /\ s >= 1 /\ s \in Nat
    BY StructsAssumption DEF StructInit, Ids
  <2>2. A.names = <<>> /\ A.allocated = 0 /\ A.align = 1 /\ DOMAIN A.names = {}
    OBVIOUS
  <2>3. A \in Arrangement
    BY <1>1, <2>1 DEF StructTypeOK
  <2>4. GetAlignedBytes(A) \in Nat
    BY <2>3, AlignedFacts
  <2>  HIDE DEF A
  <2>5. MembersSound(A)
    BY <2>2 DEF MembersSound
  <2>7. LastAligned(s)
    BY <2>1, <2>2 DEF LastAligned
  <2>8. Len(<<>>) = 0 /\ 1 .. 0 = {} /\ DOMAIN <<>> = {}
    OBVIOUS
  <2>9. {bases[s][j] : j \in 1 .. 0} = {}
    BY <2>8
  <2>10. QED
    BY <2>1, <2>2, <2>4, <2>5, <2>7, <2>8, <2>9 DEF StructOK, Placed, Found
<1>3. QED
  BY <1>1, <1>2 DEF StructInv

(* Members are apart and inside, and completed prototypes have all the bytes, however   *)
(* the bases and the members are chosen; while the bases are regular, they are where    *)
(* their offsets say, with the initial values they bring.                             *)
THEOREM StructsInvariant ==
    ASSUME WidthsDivide
    PROVE  StructSpec => []StructInv
<1>1. StructInit => StructInv
  BY StructsStart
<1>2. StructInv /\ [StructNext]_structVars => StructInv'
  <2>  SUFFICES ASSUME StructInv, [StructNext]_structVars PROVE StructInv'
    OBVIOUS
  <2>1. CASE UNCHANGED structVars
    <3>1. /\ defining' = defining /\ bases' = bases /\ declares' = declares
          /\ layout' = layout /\ proto' = proto /\ offsets' = offsets
      BY <2>1 DEF structVars
    <3>2. StructTypeOK'
      BY <3>1 DEF StructInv, StructTypeOK
    <3>3. ASSUME NEW s \in Ids PROVE StructOK(s)'
      <4>1. StructOK(s)
        BY DEF StructInv
      <4>2. \A j : BaseOK(s, j)' <=> BaseOK(s, j)
        BY <3>1 DEF BaseOK, Later
      <4>3. RegularTo(s)' <=> RegularTo(s)
        BY <3>1 DEF RegularTo, Regular
      <4>4. Placed(s)' <=> Placed(s)
        BY <3>1 DEF Placed, LastAligned
      <4>5. Found(s)' <=> Found(s)
        BY <3>1, <4>2 DEF Found
      <4>6. QED
        BY <4>1, <4>3, <4>4, <4>5 DEF StructOK
    <3>4. QED
      BY <3>2, <3>3 DEF StructInv
  <2>2. CASE \E b \in Ids : AddBase(b)
    BY <2>2, AddBaseKeeps
  <2>3. CASE \E name \in Members, t \in Types : AddMember(name, t)
    BY <2>3, AddMemberKeeps
  <2>4. CASE CompleteStruct
    BY <2>4, CompleteStructKeeps
  <2>5. QED
    BY <2>1, <2>2, <2>3, <2>4 DEF StructNext
<1>3. QED
  BY <1>1, <1>2, PTL DEF StructSpec

(* The inductive invariant tells more than what the runs check. *)
LEMMA InvariantIsSound ==
    ASSUME WidthsDivide, StructInv
    PROVE  LayoutSound
<1>1. ASSUME NEW s \in Ids PROVE MembersApart(s)
  <2>  DEFINE A == layout[s]
  <2>1. A \in Arrangement /\ MembersSound(A)
    BY StructFacts
  <2>  HIDE DEF A
  <2>2. /\ A.allocated \in Nat /\ A.align \in Nat \ {0}
        /\ GetAlignedBytes(A) \in Nat /\ A.allocated <= GetAlignedBytes(A)
    BY <2>1, ArrangementFacts, AlignsNested, AlignedFacts
  <2>3. ASSUME NEW n \in DOMAIN A.names
        PROVE  /\ A.names[n].location % A.names[n].align = 0
               /\ A.align % A.names[n].align = 0
               /\ A.names[n].location + A.names[n].size <= GetAlignedBytes(A)
    <3>1. /\ A.names[n].location \in Nat /\ A.names[n].size \in Nat
          /\ A.names[n].align \in Nat \ {0}
      <4>1. A.names[n] \in Place
        BY <2>1, ArrangementFacts
      <4>2. QED
        BY <4>1, AlignsNested DEF Place
    <3>2. /\ Divides(A.names[n].align, A.names[n].location) /\ Divides(A.names[n].align, A.align)
          /\ A.names[n].location + A.names[n].size <= A.allocated
      BY <2>1 DEF MembersSound
    <3>3. A.names[n].location % A.names[n].align = 0 /\ A.align % A.names[n].align = 0
      BY <2>2, <3>1, <3>2, ModFacts
    <3>4. QED
      BY <2>2, <3>1, <3>2, <3>3
  <2>4. \A m, n \in DOMAIN A.names : m # n =>
           \/ A.names[m].location + A.names[m].size <= A.names[n].location
           \/ A.names[n].location + A.names[n].size <= A.names[m].location
    BY <2>1 DEF MembersSound
  <2>5. QED
    BY <2>3, <2>4 DEF MembersApart, A
<1>2. ASSUME NEW s \in Ids, NEW j \in DOMAIN bases[s], RegularTo(s) PROVE BaseWhereCast(s, j)
  <2>  DEFINE b == bases[s][j]
              p == proto[s]
              q == proto[b]
              o == offsets[s][b]
  <2>1. j \in 1 .. Len(bases[s]) /\ b \in Ids /\ BaseOK(s, j)
    BY <1>2, StructFacts DEF Found
  <2>2. p \in Seq(Byte) /\ q \in Seq(Byte)
    BY <2>1, StructFacts
  <2>3. BaseSound(layout[s], p, layout[b], q, o, Later(s, j))
    BY <2>1 DEF BaseOK
  <2>  HIDE DEF b, p, q, o
  <2>4. \A n \in DOMAIN layout[b].names \ Later(s, j) :
           layout[s].names[n] = [layout[b].names[n] EXCEPT !.location = @ + o]
    BY <2>3 DEF BaseSound
  <2>5. Bytes(p, o, Len(q)) = q
    <3>1. \A i \in 1 .. Len(q) : p[o + i] = q[i]
      BY <2>3 DEF BaseSound
    <3>2. q = [i \in 1 .. Len(q) |-> q[i]]
      BY <2>2
    <3>3. [i \in 1 .. Len(q) |-> p[o + i]] = [i \in 1 .. Len(q) |-> q[i]]
      BY <3>1
    <3>4. QED
      BY <3>2, <3>3 DEF Bytes
  <2>6. QED
    BY <2>4, <2>5 DEF BaseWhereCast, Later, b, p, q, o
<1>3. ASSUME NEW s \in Ids, s < defining
      PROVE  /\ Len(proto[s]) >= GetAlignedBytes(layout[s])
             /\ RegularTo(s) => Len(proto[s]) = GetAlignedBytes(layout[s])
  <2>1. GetAlignedBytes(layout[s]) \in Nat /\ Len(proto[s]) \in Nat
    BY StructFacts, AlignedFacts
  <2>2. QED
    BY <1>3, <2>1, StructFacts DEF Placed, Found
<1>4. QED
  BY <1>1, <1>2, <1>3 DEF LayoutSound

(* The members of a structure lie inside of it and apart, and the prototype of a       *)
(* completed one has the bytes of an instance.  While the bases of a structure and of   *)
(* those before it are regular, a pointer cast to any of its bases finds the members    *)
(* and the initial values of that base, and the prototype is as long as an instance.    *)
THEOREM LayoutIsSound ==
    ASSUME WidthsDivide
    PROVE  StructSpec => []LayoutSound
<1>1. StructInv => LayoutSound
  BY InvariantIsSound
<1>2. QED
  BY <1>1, StructsInvariant, PTL
=============================================================================
