---------------------------- MODULE ClassesProof ----------------------------
(***************************************************************************)
(* VectorsFit and OverridesCalled, for every program: any number of classes,  *)
(* prototypes and functions.                                                *)
(***************************************************************************)
EXTENDS Classes, WellFoundedInduction, TLAPS

Stages == {"undefined", "derived", "body", "completed"}

(* Only completed classes are extended and implemented. *)
BasesCompleted == \A c \in Classes :
    /\ \A b \in Bases(c) \ {NoClass} : b \in Classes /\ stage[b] = "completed"
    /\ stage[c] = "undefined" => Bases(c) = {NoClass}

ClassInv ==
    /\ stage \in [Classes -> Stages]
    /\ super \in [Classes -> Classes \cup {NoClass}]
    /\ implements \in [Classes -> Seq(Classes)]
    /\ vectors = [c \in Classes |-> vectors[c]]
    /\ \A c \in Classes : DOMAIN vectors[c] \subseteq Classes
    /\ BasesCompleted
    /\ VectorsFit

-----------------------------------------------------------------------------
(* Overriding replaces functions by functions of the same prototype. *)
LEMMA OverriddenSlots ==
  ASSUME NEW v, NEW f
  PROVE  SameSlots(Overridden(v, f), v)
  <1>1. DOMAIN Overridden(v, f) = DOMAIN v
    BY DEF Overridden
  <1>2. ASSUME NEW k \in DOMAIN v PROVE Overridden(v, f)[k].proto = v[k].proto
    <2>1. CASE Overridden(v, f)[k] = v[k]
      BY <2>1
    <2>2. CASE Overridden(v, f)[k] = Hidden(v[k])
      BY <2>2 DEF Hidden
    <2>3. CASE k \in SamePrototype(v, f.proto) /\ Overridden(v, f)[k] = f
      BY <2>3 DEF SamePrototype
    <2> QED BY <2>1, <2>2, <2>3 DEF Overridden
  <1> QED BY <1>1, <1>2 DEF SameSlots

LEMMA SlotsTransitive ==
  ASSUME NEW u, NEW v, NEW w, SameSlots(u, v), SameSlots(v, w)
  PROVE  SameSlots(u, w)
  BY DEF SameSlots

LEMMA SlotsReflexive == ASSUME NEW v PROVE SameSlots(v, v)
  BY DEF SameSlots

LEMMA InitClassInv == ClassInit => ClassInv
  <1> SUFFICES ASSUME ClassInit PROVE ClassInv
    OBVIOUS
  <1>1. PICK v \in Natives :
            vectors = [c \in Classes |-> [d \in {c} |-> IF c = Object THEN v ELSE <<>>]]
    BY DEF ClassInit
  <1>2. \A c \in Classes : DOMAIN vectors[c] = {c}
    BY <1>1
  <1>3. /\ super = [c \in Classes |-> NoClass] /\ implements = [c \in Classes |-> <<>>]
        /\ stage = [c \in Classes |-> IF c = Object THEN "completed" ELSE "undefined"]
    BY DEF ClassInit
  <1>4. \A c \in Classes : Bases(c) = {NoClass}
    BY <1>3 DEF Bases
  <1>5. VectorsFit /\ BasesCompleted
    BY <1>2, <1>4 DEF VectorsFit, BasesCompleted
  <1>6. vectors = [c \in Classes |-> vectors[c]]
    BY <1>1
  <1>7. stage \in [Classes -> Stages] /\ super \in [Classes -> Classes \cup {NoClass}]
    <2>1. \A c \in Classes : (IF c = Object THEN "completed" ELSE "undefined") \in Stages
      BY DEF Stages
    <2>2. stage \in [Classes -> Stages]
      BY <1>3, <2>1
    <2> QED BY <1>3, <2>2
  <1>8. implements \in [Classes -> Seq(Classes)]
    <2>1. <<>> \in Seq(Classes)
      OBVIOUS
    <2> QED BY <1>3, <2>1
  <1>9. \A c \in Classes : DOMAIN vectors[c] \subseteq Classes
    BY <1>2
  <1> QED BY <1>5, <1>6, <1>7, <1>8, <1>9 DEF ClassInv

-----------------------------------------------------------------------------
(* A step that changes one class c which is not completed, and no other class refers  *)
(* to: if the vectors of c fit, all do.                                             *)
LEMMA OneClassChanges ==
  ASSUME ClassInv, NEW c \in Classes, NEW fs, NEW s \in Stages,
         stage[c] # "completed", s # "undefined",
         stage' = [stage EXCEPT ![c] = s], vectors' = [vectors EXCEPT ![c] = fs],
         super' \in [Classes -> Classes \cup {NoClass}], implements' \in [Classes -> Seq(Classes)],
         \A e \in Classes \ {c} : super'[e] = super[e] /\ implements'[e] = implements[e],
         DOMAIN fs \subseteq Classes, c \in DOMAIN fs,
         \A b \in Bases(c)' \ {NoClass} : b \in Classes /\ stage[b] = "completed"
                                          /\ DOMAIN vectors[b] \subseteq DOMAIN fs,
         \A d \in DOMAIN fs \ {c} : stage[d] = "completed" /\ SameSlots(fs[d], vectors[d][d])
  PROVE  ClassInv'
  <1>1. /\ stage' \in [Classes -> Stages] /\ vectors' = [e \in Classes |-> vectors'[e]]
        /\ vectors'[c] = fs
        /\ \A e \in Classes \ {c} : vectors'[e] = vectors[e] /\ stage'[e] = stage[e]
    BY DEF ClassInv
  <1>2. \A e \in Classes : DOMAIN vectors'[e] \subseteq Classes
    BY <1>1 DEF ClassInv
  <1>3. ASSUME NEW b \in Classes, stage[b] = "completed"
        PROVE  b # c /\ stage'[b] = "completed" /\ vectors'[b] = vectors[b]
    BY <1>1, <1>3
  <1>4. \A e \in Classes \ {c} : Bases(e)' = Bases(e)
    BY DEF Bases
  <1>5. ASSUME NEW e \in Classes, NEW b \in Bases(e)' \ {NoClass}
        PROVE  b \in Classes /\ stage'[b] = "completed" /\ DOMAIN vectors'[b] \subseteq DOMAIN vectors'[e]
    <2>1. CASE e = c
      BY <1>1, <1>3, <2>1
    <2>2. CASE e # c
      <3>1. b \in Bases(e) \ {NoClass}
        BY <1>4, <2>2
      <3>2. b \in Classes /\ stage[b] = "completed" /\ DOMAIN vectors[b] \subseteq DOMAIN vectors[e]
        BY <3>1 DEF ClassInv, BasesCompleted, VectorsFit
      <3> QED BY <1>1, <1>3, <2>2, <3>2
    <2> QED BY <2>1, <2>2
  <1>6. ASSUME NEW e \in Classes
        PROVE  /\ e \in DOMAIN vectors'[e]
               /\ \A d \in DOMAIN vectors'[e] \ {e} :
                    stage'[d] = "completed" /\ SameSlots(vectors'[e][d], vectors'[d][d])
    <2>1. CASE e = c
      BY <1>1, <1>3, <2>1
    <2>2. CASE e # c
      <3>1. e \in DOMAIN vectors[e] /\ DOMAIN vectors[e] \subseteq Classes
        BY DEF ClassInv, VectorsFit
      <3>2. \A d \in DOMAIN vectors[e] \ {e} :
                stage[d] = "completed" /\ SameSlots(vectors[e][d], vectors[d][d])
        BY DEF ClassInv, VectorsFit
      <3> QED BY <1>1, <1>3, <2>2, <3>1, <3>2
    <2> QED BY <2>1, <2>2
  <1>7. VectorsFit'
    BY <1>5, <1>6 DEF VectorsFit, SameSlots
  <1>8. BasesCompleted'
    <2>1. ASSUME NEW e \in Classes, stage'[e] = "undefined" PROVE Bases(e)' = {NoClass}
      <3>1. e # c /\ stage[e] = "undefined"
        BY <1>1, <2>1 DEF ClassInv
      <3> QED BY <1>4, <3>1 DEF ClassInv, BasesCompleted
    <2> QED BY <1>5, <2>1 DEF BasesCompleted
  <1> QED BY <1>1, <1>2, <1>7, <1>8 DEF ClassInv

LEMMA AddSuperClassInv ==
  ASSUME ClassInv, NEW c \in Classes, NEW s \in Classes, AddSuperClass(c, s)
  PROVE  ClassInv'
  <1> DEFINE fs == [d \in DOMAIN vectors[s] \cup {c} |-> vectors[s][IF d = c THEN s ELSE d]]
  <1>1. /\ stage[c] = "undefined" /\ stage[s] = "completed"
        /\ stage' = [stage EXCEPT ![c] = "derived"]
        /\ super' = [super EXCEPT ![c] = s] /\ implements' = implements
        /\ vectors' = [vectors EXCEPT ![c] = fs]
    BY DEF AddSuperClass
  <1>2. /\ DOMAIN fs = DOMAIN vectors[s] \cup {c}
        /\ DOMAIN vectors[s] \subseteq Classes /\ DOMAIN fs \subseteq Classes
    BY DEF ClassInv
  <1>3. ASSUME NEW d \in DOMAIN fs \ {c}
        PROVE  stage[d] = "completed" /\ SameSlots(fs[d], vectors[d][d])
    <2>1. d \in DOMAIN vectors[s] /\ fs[d] = vectors[s][d]
      BY <1>2
    <2>2. CASE d = s
      BY <1>1, <2>1, <2>2, SlotsReflexive
    <2>3. CASE d # s
      BY <2>1, <2>3 DEF ClassInv, VectorsFit
    <2> QED BY <2>2, <2>3
  <1>4. super'[c] = s /\ \A e \in Classes \ {c} : super'[e] = super[e]
    BY <1>1 DEF ClassInv
  <1>5. super' \in [Classes -> Classes \cup {NoClass}] /\ implements' \in [Classes -> Seq(Classes)]
    BY <1>1 DEF ClassInv
  <1>6. Bases(c)' \subseteq {NoClass, s}
    <2>1. Bases(c) = {NoClass}
      BY <1>1 DEF ClassInv, BasesCompleted
    <2> QED BY <1>1, <1>4, <2>1 DEF Bases
  <1>7. \A b \in Bases(c)' \ {NoClass} : b \in Classes /\ stage[b] = "completed"
                                          /\ DOMAIN vectors[b] \subseteq DOMAIN fs
    BY <1>1, <1>2, <1>6
  <1> DEFINE now == "derived"
  <1>8. /\ now \in Stages /\ now # "undefined" /\ stage[c] # "completed"
        /\ stage' = [stage EXCEPT ![c] = now] /\ c \in DOMAIN fs
        /\ \A e \in Classes \ {c} : super'[e] = super[e] /\ implements'[e] = implements[e]
    BY <1>1, <1>2, <1>4 DEF Stages
  <1> HIDE DEF fs, now
  <1> QED BY <1>1, <1>2, <1>3, <1>5, <1>7, <1>8, OneClassChanges

LEMMA AddImplementClassInv ==
  ASSUME ClassInv, NEW c \in Classes, NEW i \in Classes, AddImplementClass(c, i)
  PROVE  ClassInv'
  <1> DEFINE own == vectors[c]
             fs == [d \in DOMAIN own \cup DOMAIN vectors[i] |->
                        IF d = c THEN ImplementVirtuals(own[c], vectors[i][i])
                        ELSE IF d \in DOMAIN own THEN own[d] ELSE vectors[i][d]]
  <1>1. /\ stage[c] = "derived" /\ stage[i] = "completed" /\ c # i
        /\ super' = super /\ stage' = stage
        /\ implements' = [implements EXCEPT ![c] = Append(implements[c], i)]
        /\ vectors' = [vectors EXCEPT ![c] = fs]
    BY DEF AddImplementClass
  <1>2. /\ DOMAIN fs = DOMAIN own \cup DOMAIN vectors[i] /\ DOMAIN fs \subseteq Classes
        /\ c \in DOMAIN own /\ i \in DOMAIN vectors[i]
    BY DEF ClassInv, VectorsFit
  <1>3. ASSUME NEW d \in DOMAIN fs \ {c}
        PROVE  stage[d] = "completed" /\ SameSlots(fs[d], vectors[d][d])
    <2>1. CASE d \in DOMAIN own
      <3>1. fs[d] = own[d]
        BY <1>2, <2>1
      <3> QED BY <2>1, <3>1 DEF ClassInv, VectorsFit
    <2>2. CASE d \notin DOMAIN own
      <3>1. fs[d] = vectors[i][d] /\ d \in DOMAIN vectors[i]
        BY <1>2, <2>2
      <3>2. CASE d = i
        BY <1>1, <3>1, <3>2, SlotsReflexive
      <3>3. CASE d # i
        BY <3>1, <3>3 DEF ClassInv, VectorsFit
      <3> QED BY <3>2, <3>3
    <2> QED BY <2>1, <2>2
  <1>4. /\ implements[c] \in Seq(Classes) /\ implements'[c] = Append(implements[c], i)
        /\ \A e \in Classes \ {c} : implements'[e] = implements[e]
        /\ implements' \in [Classes -> Seq(Classes)]
    BY <1>1 DEF ClassInv
  <1>5. Bases(c)' \subseteq Bases(c) \cup {i}
    <2> DEFINE w == implements[c]
    <2>1. w \in Seq(Classes) /\ implements'[c] = Append(w, i) /\ super'[c] = super[c]
      BY <1>1, <1>4
    <2> HIDE DEF w
    <2>2. DOMAIN Append(w, i) = 1 .. Len(w) + 1 /\ DOMAIN w = 1 .. Len(w) /\ Len(w) \in Nat
      BY <2>1
    <2>3. ASSUME NEW j \in DOMAIN Append(w, i)
          PROVE  Append(w, i)[j] = i \/ (j \in DOMAIN w /\ Append(w, i)[j] = w[j])
      <3>1. CASE j = Len(w) + 1
        BY <2>1, <3>1
      <3>2. CASE j # Len(w) + 1
        <4>1. j \in 1 .. Len(w)
          BY <2>2, <2>3, <3>2
        <4> QED BY <2>1, <2>2, <4>1
      <3> QED BY <3>1, <3>2
    <2>4. Bases(c)' = {super'[c]} \cup {Append(w, i)[j] : j \in DOMAIN Append(w, i)}
      BY <2>1 DEF Bases
    <2>5. Bases(c) = {super[c]} \cup {w[j] : j \in DOMAIN w}
      BY DEF Bases, w
    <2> QED BY <2>1, <2>3, <2>4, <2>5
  <1> HIDE DEF fs
  <1>6. \A b \in Bases(c)' \ {NoClass} : b \in Classes /\ stage[b] = "completed"
                                          /\ DOMAIN vectors[b] \subseteq DOMAIN fs
    BY <1>1, <1>2, <1>5 DEF ClassInv, BasesCompleted, VectorsFit
  <1> DEFINE now == "derived"
  <1>7. /\ now \in Stages /\ now # "undefined" /\ stage[c] # "completed"
        /\ stage' = [stage EXCEPT ![c] = now] /\ c \in DOMAIN fs
        /\ super' \in [Classes -> Classes \cup {NoClass}]
        /\ \A e \in Classes \ {c} : super'[e] = super[e] /\ implements'[e] = implements[e]
    BY <1>1, <1>2, <1>4 DEF ClassInv, Stages
  <1> HIDE DEF now
  <1> QED BY <1>1, <1>2, <1>3, <1>4, <1>6, <1>7, OneClassChanges

(* OverrideVirtualFunction and CompleteClass keep the classes that c is derived from. *)
LEMMA OverrideVirtualFunctionInv ==
  ASSUME ClassInv, NEW c \in Classes, NEW f, OverrideVirtualFunction(c, f)
  PROVE  ClassInv'
  <1> DEFINE own == vectors[c]
             fs == [d \in DOMAIN own |->
                        IF d = c THEN OverrideFunction(own[d], f) ELSE Overridden(own[d], f)]
  <1>1. /\ stage[c] # "completed" /\ stage' = [stage EXCEPT ![c] = "body"]
        /\ super' = super /\ implements' = implements
        /\ vectors' = [vectors EXCEPT ![c] = fs]
    BY DEF OverrideVirtualFunction
  <1>2. DOMAIN fs = DOMAIN own /\ DOMAIN fs \subseteq Classes /\ c \in DOMAIN fs
    BY DEF ClassInv, VectorsFit
  <1>3. ASSUME NEW d \in DOMAIN fs \ {c}
        PROVE  stage[d] = "completed" /\ SameSlots(fs[d], vectors[d][d])
    <2>1. fs[d] = Overridden(own[d], f)
      BY <1>2
    <2>2. stage[d] = "completed" /\ SameSlots(own[d], vectors[d][d])
      BY <1>2 DEF ClassInv, VectorsFit
    <2> QED BY <2>1, <2>2, OverriddenSlots, SlotsTransitive
  <1> HIDE DEF fs
  <1>4. \A b \in Bases(c)' \ {NoClass} : b \in Classes /\ stage[b] = "completed"
                                          /\ DOMAIN vectors[b] \subseteq DOMAIN fs
    <2>1. Bases(c)' = Bases(c)
      BY <1>1 DEF Bases
    <2> QED BY <1>2, <2>1 DEF ClassInv, BasesCompleted, VectorsFit
  <1>5. /\ super' \in [Classes -> Classes \cup {NoClass}]
        /\ implements' \in [Classes -> Seq(Classes)]
    BY <1>1 DEF ClassInv
  <1> DEFINE now == "body"
  <1>6. /\ now \in Stages /\ now # "undefined" /\ stage' = [stage EXCEPT ![c] = now]
        /\ \A e \in Classes \ {c} : super'[e] = super[e] /\ implements'[e] = implements[e]
    BY <1>1 DEF Stages
  <1> HIDE DEF now
  <1> QED BY <1>1, <1>2, <1>3, <1>4, <1>5, <1>6, OneClassChanges

LEMMA CompleteClassInv ==
  ASSUME ClassInv, NEW c \in Classes, CompleteClass(c)
  PROVE  ClassInv'
  <1>1. /\ stage[c] # "completed" /\ stage' = [stage EXCEPT ![c] = "completed"]
        /\ super' = super /\ implements' = implements /\ vectors' = vectors
    BY DEF CompleteClass
  <1> DEFINE fs == vectors[c]
  <1>2. vectors' = [vectors EXCEPT ![c] = fs]
    BY <1>1 DEF ClassInv
  <1>3. /\ DOMAIN fs \subseteq Classes /\ c \in DOMAIN fs
        /\ \A d \in DOMAIN fs \ {c} : stage[d] = "completed" /\ SameSlots(fs[d], vectors[d][d])
        /\ super' \in [Classes -> Classes \cup {NoClass}]
        /\ implements' \in [Classes -> Seq(Classes)]
    BY <1>1 DEF ClassInv, VectorsFit
  <1>4. \A b \in Bases(c)' \ {NoClass} : b \in Classes /\ stage[b] = "completed"
                                          /\ DOMAIN vectors[b] \subseteq DOMAIN fs
    <2>1. Bases(c)' = Bases(c)
      BY <1>1 DEF Bases
    <2> QED BY <2>1 DEF ClassInv, BasesCompleted, VectorsFit
  <1> HIDE DEF fs
  <1> DEFINE now == "completed"
  <1>5. /\ now \in Stages /\ now # "undefined" /\ stage' = [stage EXCEPT ![c] = now]
        /\ \A e \in Classes \ {c} : super'[e] = super[e] /\ implements'[e] = implements[e]
    BY <1>1 DEF Stages
  <1> HIDE DEF now
  <1> QED BY <1>1, <1>2, <1>3, <1>4, <1>5, OneClassChanges

-----------------------------------------------------------------------------
LEMMA NextClassInv == ClassInv /\ [ClassNext]_classVars => ClassInv'
  <1> SUFFICES ASSUME ClassInv, [ClassNext]_classVars PROVE ClassInv'
    OBVIOUS
  <1>1. CASE ClassNext
    BY <1>1, AddSuperClassInv, AddImplementClassInv, OverrideVirtualFunctionInv, CompleteClassInv
       DEF ClassNext
  <1>2. CASE UNCHANGED classVars
    <2>1. /\ super' = super /\ implements' = implements /\ stage' = stage /\ vectors' = vectors
      BY <1>2 DEF classVars
    <2>2. \A c : Bases(c)' = Bases(c)
      BY <2>1 DEF Bases
    <2>3. VectorsFit'
      BY ZenonT(30), <2>1, <2>2 DEF ClassInv, VectorsFit, SameSlots
    <2>4. BasesCompleted'
      BY <2>1, <2>2 DEF ClassInv, BasesCompleted
    <2> QED BY <2>1, <2>3, <2>4 DEF ClassInv
  <1> QED BY <1>1, <1>2

(* A virtual call finds the function it was compiled for at its place in the vector of *)
(* every class that is an instance of the class of the reference.                     *)
THEOREM VirtualVectorsFit == ClassSpec => []VectorsFit
  <1>1. ClassInv => VectorsFit
    BY DEF ClassInv
  <1> QED BY <1>1, InitClassInv, NextClassInv, PTL DEF ClassSpec

-----------------------------------------------------------------------------
(* Classes, their superclasses, and OverridesCalled. *)
SameArgs(p, q) == p.args = q.args /\ p.const = q.const

(* No function before k in the vector v has its prototype. *)
FirstOf(v, k) == \A j \in DOMAIN v : v[j].proto = v[k].proto => k <= j

(* The classes from c upwards, in a hierarchy sup. *)
Up(sup, c) == {b \in Classes : \A S \in SUBSET Classes :
                (c \in S /\ \A e \in S : sup[e] \in S \cup {NoClass}) => b \in S}

Hierarchies == [Classes -> Classes \cup {NoClass}]

-----------------------------------------------------------------------------
(* The least set with c and the superclass of each of its classes. *)
LEMMA UpOwn == ASSUME NEW sup, NEW c \in Classes PROVE c \in Up(sup, c) /\ Up(sup, c) \subseteq Classes
  BY DEF Up

LEMMA UpLeast ==
  ASSUME NEW sup, NEW c, NEW S \in SUBSET Classes, c \in S, \A e \in S : sup[e] \in S \cup {NoClass}
  PROVE  Up(sup, c) \subseteq S
  BY DEF Up

LEMMA UpClosed ==
  ASSUME NEW sup \in Hierarchies, NEW c \in Classes, NEW e \in Up(sup, c)
  PROVE  sup[e] \in Up(sup, c) \cup {NoClass}
  <1>1. ASSUME sup[e] # NoClass,
               NEW S \in SUBSET Classes, c \in S, \A x \in S : sup[x] \in S \cup {NoClass}
        PROVE  sup[e] \in S
    BY <1>1 DEF Up
  <1>2. sup[e] \in Classes \cup {NoClass}
    BY DEF Up, Hierarchies
  <1> QED BY <1>1, <1>2 DEF Up

(* What is above a class above c is above c. *)
LEMMA UpUp ==
  ASSUME NEW sup \in Hierarchies, NEW c \in Classes, NEW b \in Up(sup, c)
  PROVE  b \in Classes /\ Up(sup, b) \subseteq Up(sup, c)
  BY UpOwn, UpClosed, UpLeast

(* The classes above c are c and the ones above its superclass. *)
LEMMA UpIs ==
  ASSUME NEW sup \in Hierarchies, NEW c \in Classes
  PROVE  Up(sup, c) = {c} \cup IF sup[c] = NoClass THEN {} ELSE Up(sup, sup[c])
  <1> DEFINE S == {c} \cup IF sup[c] = NoClass THEN {} ELSE Up(sup, sup[c])
  <1>1. sup[c] \in Classes \cup {NoClass}
    BY DEF Hierarchies
  <1>2. S \in SUBSET Classes
    BY <1>1, UpOwn
  <1>3. ASSUME NEW e \in S PROVE sup[e] \in S \cup {NoClass}
    <2>1. CASE e = c
      BY <1>1, <2>1, UpOwn
    <2>2. CASE e # c
      <3>1. sup[c] \in Classes /\ e \in Up(sup, sup[c]) /\ Up(sup, sup[c]) \subseteq S
        BY <1>1, <2>2
      <3>2. sup[e] \in Up(sup, sup[c]) \cup {NoClass}
        BY <3>1, UpClosed
      <3> QED BY <3>1, <3>2
    <2> QED BY <2>1, <2>2
  <1>4. Up(sup, c) \subseteq S
    <2>1. c \in S
      OBVIOUS
    <2> HIDE DEF S
    <2> QED BY <1>2, <1>3, <2>1, UpLeast
  <1>5. S \subseteq Up(sup, c)
    <2>1. c \in Up(sup, c)
      BY UpOwn
    <2>2. ASSUME sup[c] # NoClass PROVE Up(sup, sup[c]) \subseteq Up(sup, c)
      <3>1. sup[c] \in Up(sup, c)
        BY <2>1, <2>2, UpClosed
      <3> QED BY <3>1, UpUp
    <2> QED BY <2>1, <2>2
  <1> QED BY <1>4, <1>5

(* The classes above e are the same when c, which is not one of them, is given another   *)
(* superclass.                                                                          *)
LEMMA UpKept ==
  ASSUME NEW sup \in Hierarchies, NEW sup2 \in Hierarchies, NEW c, NEW e \in Classes,
         \A b \in Classes \ {c} : sup2[b] = sup[b], c \notin Up(sup, e)
  PROVE  Up(sup2, e) = Up(sup, e)
  <1>1. Up(sup2, e) \subseteq Up(sup, e)
    <2>1. \A b \in Up(sup, e) : sup2[b] \in Up(sup, e) \cup {NoClass}
      BY UpOwn, UpClosed
    <2> QED BY <2>1, UpOwn, UpLeast
  <1>2. Up(sup, e) \subseteq Up(sup2, e)
    <2>1. \A b \in Up(sup2, e) : sup[b] \in Up(sup2, e) \cup {NoClass}
      BY <1>1, UpOwn, UpClosed
    <2> QED BY <2>1, UpOwn, UpLeast
  <1> QED BY <1>1, <1>2
-----------------------------------------------------------------------------
(* u is the vector v after OverrideFunction has given f its place, if it has one.        *)
Overriding(u, v, f) ==
    /\ u \in Seq(Functions) /\ DOMAIN v \subseteq DOMAIN u
    /\ \A k \in DOMAIN v :
        /\ u[k].proto = v[k].proto
        /\ (u[k] = f /\ FirstOf(v, k)) \/ (u[k].class = v[k].class /\ (v[k].hidden => u[k].hidden))
        /\ v[k].proto = f.proto /\ FirstOf(v, k) => u[k] = f
        /\ u[k].hidden /\ ~v[k].hidden =>
            /\ SameArgs(v[k].proto, f.proto)
            /\ \A j \in DOMAIN v : SameArgs(v[j].proto, v[k].proto) => u[j].hidden
    /\ \A k \in DOMAIN u \ DOMAIN v : u[k] = f /\ FirstOf(u, k) /\ \A j \in DOMAIN v : j < k

(* A set of natural numbers has a smallest one: for proofs by a least counterexample. *)
LEMMA SmallestOf ==
  ASSUME NEW T \in SUBSET Nat, T # {}
  PROVE  \E m \in T : \A n \in T : m <= n
  <1>1. PICK m \in T : \A y \in T : ~(<<y, m>> \in OpToRel(<, Nat))
    BY WFMin, NatLessThanWellFounded
  <1>2. \A y \in T : ~(y < m)
    BY <1>1 DEF OpToRel
  <1> QED BY <1>2

LEMMA HiddenIs ==
  ASSUME NEW f \in Functions
  PROVE  /\ Hidden(f) \in Functions /\ Hidden(f).class = f.class /\ Hidden(f).proto = f.proto
         /\ Hidden(f).hidden
  BY DEF Functions, Hidden

(* OverrideFunction, told to override only. *)
LEMMA OverriddenIs ==
  ASSUME NEW v \in Seq(Functions), NEW f \in Functions, ~f.hidden
  PROVE  Overriding(Overridden(v, f), v, f) /\ DOMAIN Overridden(v, f) = DOMAIN v
  <1> SUFFICES ASSUME NEW u, u = Overridden(v, f)
               PROVE  Overriding(u, v, f) /\ DOMAIN u = DOMAIN v
    OBVIOUS
  <1> DEFINE same == SamePrototype(v, f.proto)
  <1>1. DOMAIN u = DOMAIN v /\ DOMAIN v = 1 .. Len(v) /\ Len(v) \in Nat
    BY DEF Overridden
  <1>2. \A k \in DOMAIN v : v[k] \in Functions
    OBVIOUS
  <1>3. \A k \in DOMAIN v : k \in same <=> v[k].proto = f.proto
    BY DEF SamePrototype
  <1>4. \A k \in DOMAIN v : k \in same /\ (\A j \in same : k <= j) <=> v[k].proto = f.proto /\ FirstOf(v, k)
    <2>1. same \subseteq DOMAIN v
      BY DEF SamePrototype
    <2> QED BY <1>3, <2>1 DEF FirstOf
  <1>5. \A k \in DOMAIN v : k \in SameArguments(v, f.proto) <=> SameArgs(v[k].proto, f.proto)
    BY DEF SameArguments, SameArgs
  <1>6. \A k \in DOMAIN v : u[k] =
            IF k \in same /\ \A j \in same : k <= j THEN f
            ELSE IF same = {} /\ k \in SameArguments(v, f.proto) THEN Hidden(v[k]) ELSE v[k]
    BY DEF Overridden
  <1> HIDE DEF same
  <1>7. ASSUME NEW k \in DOMAIN v
        PROVE  /\ u[k] \in Functions /\ u[k].proto = v[k].proto
               /\ (u[k] = f /\ FirstOf(v, k)) \/ (u[k].class = v[k].class /\ (v[k].hidden => u[k].hidden))
               /\ v[k].proto = f.proto /\ FirstOf(v, k) => u[k] = f
    BY <1>2, <1>4, <1>6, HiddenIs
  <1>8. ASSUME NEW k \in DOMAIN v, u[k].hidden, ~v[k].hidden
        PROVE  /\ SameArgs(v[k].proto, f.proto)
               /\ \A j \in DOMAIN v : SameArgs(v[j].proto, v[k].proto) => u[j].hidden
    <2>1. same = {} /\ SameArgs(v[k].proto, f.proto)
      BY <1>5, <1>6, <1>8
    <2>2. ASSUME NEW j \in DOMAIN v, SameArgs(v[j].proto, v[k].proto) PROVE u[j].hidden
      <3>1. SameArgs(v[j].proto, f.proto)
        BY <2>1, <2>2 DEF SameArgs
      <3>2. u[j] = Hidden(v[j])
        BY <1>5, <1>6, <2>1, <3>1
      <3> QED BY <1>2, <3>2, HiddenIs
    <2> QED BY <2>1, <2>2
  <1>9. u \in Seq(Functions)
    <2>1. u = [k \in 1 .. Len(v) |-> u[k]]
      BY <1>1 DEF Overridden
    <2> QED BY <1>1, <1>7, <2>1
  <1> QED BY <1>1, <1>7, <1>8, <1>9 DEF Overriding

(* OverrideFunction, which appends f when its prototype is new. *)
LEMMA OverrideFunctionIs ==
  ASSUME NEW v \in Seq(Functions), NEW f \in Functions, ~f.hidden
  PROVE  /\ Overriding(OverrideFunction(v, f), v, f)
         /\ \E k \in DOMAIN OverrideFunction(v, f) :
                OverrideFunction(v, f)[k] = f /\ FirstOf(OverrideFunction(v, f), k)
  <1> DEFINE o == Overridden(v, f)
             u == OverrideFunction(v, f)
  <1>1. Overriding(o, v, f) /\ DOMAIN o = DOMAIN v
    BY OverriddenIs
  <1>2. /\ o \in Seq(Functions) /\ DOMAIN v = 1 .. Len(v) /\ Len(v) \in Nat /\ Len(o) = Len(v)
        /\ \A k \in DOMAIN v : o[k].proto = v[k].proto
    BY <1>1 DEF Overriding
  <1>3. CASE SamePrototype(v, f.proto) # {}
    <2>1. u = o
      BY <1>3 DEF OverrideFunction
    <2>2. SamePrototype(v, f.proto) \in SUBSET Nat
      BY <1>2 DEF SamePrototype
    <2>3. PICK k \in SamePrototype(v, f.proto) : \A j \in SamePrototype(v, f.proto) : k <= j
      BY <1>3, <2>2, SmallestOf
    <2>4. k \in DOMAIN v /\ v[k].proto = f.proto /\ FirstOf(v, k)
      BY <2>3 DEF SamePrototype, FirstOf
    <2>5. o[k] = f /\ FirstOf(o, k)
      BY <1>1, <2>4 DEF Overriding, FirstOf
    <2> QED BY <1>1, <2>1, <2>4, <2>5
  <1>4. CASE SamePrototype(v, f.proto) = {}
    <2>1. u = Append(o, f)
      BY <1>4 DEF OverrideFunction
    <2> DEFINE n == Len(v) + 1
    <2>2. /\ u \in Seq(Functions) /\ DOMAIN u = 1 .. n /\ u[n] = f
          /\ \A k \in DOMAIN v : u[k] = o[k]
      BY <1>2, <2>1
    <2> HIDE DEF u, o
    <2>3. \A k \in DOMAIN v : u[k].proto # f.proto
      BY <1>2, <1>4, <2>2 DEF SamePrototype
    <2>4. FirstOf(u, n)
      BY <1>2, <2>2, <2>3 DEF FirstOf
    <2>5. \A k \in DOMAIN u \ DOMAIN v : k = n /\ \A j \in DOMAIN v : j < k
      BY <1>2, <2>2
    <2>6. DOMAIN v \subseteq DOMAIN u /\ n \in DOMAIN u
      BY <1>2, <2>2
    <2>7. Overriding(u, v, f)
      BY <1>1, <2>2, <2>4, <2>5, <2>6 DEF Overriding
    <2> QED BY <2>2, <2>4, <2>6, <2>7 DEF u
  <1> QED BY <1>3, <1>4
-----------------------------------------------------------------------------
(* The vectors that ImplementVirtuals goes through. *)
Implementing(a, v, src) ==
    a = [n \in 0 .. Len(src) |-> IF n = 0 THEN v ELSE AddMissing(a[n - 1], src[n])]

LEMMA ImplementingExists ==
  ASSUME NEW v, NEW src \in Seq(Functions)
  PROVE  \E a : Implementing(a, v, src)
  <1> DEFINE N == Len(src)
             Upto(n, a) == a = [m \in 0 .. n |-> IF m = 0 THEN v ELSE AddMissing(a[m - 1], src[m])]
             T == {n \in 0 .. N : ~\E a : Upto(n, a)}
  <1>1. N \in Nat
    OBVIOUS
  <1>2. T = {}
    <2> SUFFICES ASSUME T # {} PROVE FALSE
      OBVIOUS
    <2>1. T \in SUBSET Nat
      BY <1>1
    <2>2. PICK n \in T : \A m \in T : n <= m
      BY <2>1, SmallestOf
    <2>3. n \in 0 .. N /\ n \in Nat
      BY <1>1
    <2>4. CASE n = 0
      <3> DEFINE a == [m \in 0 .. 0 |-> v]
      <3>1. Upto(0, a)
        OBVIOUS
      <3> QED BY <2>2, <2>4, <3>1
    <2>5. CASE n # 0
      <3>1. n - 1 \in 0 .. N /\ n - 1 \notin T
        <4>1. n - 1 \in 0 .. N /\ ~(n <= n - 1)
          BY <1>1, <2>3, <2>5
        <4> HIDE DEF T
        <4> QED BY <2>2, <4>1
      <3>2. PICK a : Upto(n - 1, a)
        BY <3>1
      <3> DEFINE b == [m \in 0 .. n |-> IF m = n THEN AddMissing(a[n - 1], src[n]) ELSE a[m]]
      <3>3. ASSUME NEW m \in 0 .. n
            PROVE  b[m] = IF m = 0 THEN v ELSE AddMissing(b[m - 1], src[m])
        <4>1. CASE m = n
          <5>1. b[m] = AddMissing(a[n - 1], src[n]) /\ b[m - 1] = a[n - 1] /\ m # 0
            BY <2>3, <2>5, <4>1
          <5> HIDE DEF b
          <5> QED BY <4>1, <5>1
        <4>2. CASE m # n
          <5>1. m \in 0 .. n - 1 /\ b[m] = a[m] /\ (m # 0 => m - 1 \in 0 .. n /\ b[m - 1] = a[m - 1])
            BY <2>3, <4>2
          <5>2. a[m] = IF m = 0 THEN v ELSE AddMissing(a[m - 1], src[m])
            BY <3>2, <5>1
          <5> HIDE DEF b
          <5> QED BY <5>1, <5>2
        <4> QED BY <4>1, <4>2
      <3>4. b = [m \in 0 .. n |-> b[m]]
        OBVIOUS
      <3> HIDE DEF b
      <3>5. Upto(n, b)
        BY <3>3, <3>4
      <3> QED BY <2>2, <3>5
    <2> QED BY <2>4, <2>5
  <1>3. N \in 0 .. N
    BY <1>1
  <1>4. \E a : Upto(N, a)
    BY <1>2, <1>3
  <1> QED BY <1>4 DEF Implementing

(* ImplementVirtuals is the last of them. *)
LEMMA ImplementVirtualsIs ==
  ASSUME NEW v, NEW src \in Seq(Functions)
  PROVE  \E a : Implementing(a, v, src) /\ ImplementVirtuals(v, src) = a[Len(src)]
  <1> DEFINE a == CHOOSE x : Implementing(x, v, src)
  <1>1. Implementing(a, v, src)
    BY ImplementingExists
  <1>2. ImplementVirtuals(v, src) = a[Len(src)]
    BY Zenon DEF ImplementVirtuals, Implementing
  <1> QED BY <1>1, <1>2

LEMMA FirstIs ==
  ASSUME NEW T \in SUBSET Nat, T # {}
  PROVE  First(T) \in T /\ \A j \in T : First(T) <= j
  BY SmallestOf DEF First

(* The vector has grown by f, or has a visible function of its prototype. *)
LEMMA AddMissingIs ==
  ASSUME NEW v \in Seq(Functions), NEW f \in Functions
  PROVE  \/ AddMissing(v, f) = Append(v, f)
         \/ /\ AddMissing(v, f) = v
            /\ \E k \in DOMAIN v : ~v[k].hidden /\ v[k].proto = f.proto
  <1> DEFINE found == {k \in DOMAIN v : Access(v[k]) <= Public /\ v[k].proto.args = f.proto.args}
             k == FindFunction(v, f.proto.args, Public)
  <1>1. k = IF found = {} THEN 0 ELSE First(found)
    BY DEF FindFunction
  <1>2. found \in SUBSET Nat
    OBVIOUS
  <1>3. ASSUME k # 0 PROVE k \in DOMAIN v /\ ~v[k].hidden
    <2>1. found # {} /\ k = First(found)
      BY <1>1, <1>3
    <2>2. k \in found
      BY <1>2, <2>1, FirstIs
    <2>3. k \in DOMAIN v /\ Access(v[k]) <= Public
      BY <2>2
    <2> QED BY <2>3 DEF Access, Public, Invisible
  <1> HIDE DEF k, found
  <1>4. AddMissing(v, f) = IF k # 0 /\ v[k].proto = f.proto THEN v ELSE Append(v, f)
    BY DEF AddMissing, k
  <1> QED BY <1>3, <1>4

(* Of a function that is hidden there is a visible one with the same arguments.           *)
HiddenReplaced(v) == \A j \in DOMAIN v : v[j].hidden =>
    \E m \in DOMAIN v : ~v[m].hidden /\ SameArgs(v[m].proto, v[j].proto)

(* So there is before a function whose prototype another one already has.                *)
RepeatedLater(v) == \A k \in DOMAIN v : ~v[k].hidden /\ ~FirstOf(v, k) =>
    \E m \in DOMAIN v : m < k /\ ~v[m].hidden /\ SameArgs(v[m].proto, v[k].proto)

(* w is the vector v with those of the first n functions of src that it has not.          *)
Added(w, v, src, n) ==
    /\ w \in Seq(Functions) /\ DOMAIN v \subseteq DOMAIN w
    /\ \A k \in DOMAIN v : w[k] = v[k]
    /\ \A k \in DOMAIN w \ DOMAIN v : \E m \in 1 .. n : w[k] = src[m]
    /\ \A m \in 1 .. n : ~src[m].hidden =>
            \E k \in DOMAIN w : ~w[k].hidden /\ w[k].proto = src[m].proto
    /\ RepeatedLater(w)

(* One more function of src. *)
LEMMA AddedNext ==
  ASSUME NEW v \in Seq(Functions), NEW src \in Seq(Functions), HiddenReplaced(v), RepeatedLater(src),
         NEW n \in Nat, n + 1 <= Len(src), NEW w, Added(w, v, src, n)
  PROVE  Added(AddMissing(w, src[n + 1]), v, src, n + 1)
  <1> SUFFICES ASSUME NEW f, f = src[n + 1] PROVE Added(AddMissing(w, f), v, src, n + 1)
    OBVIOUS
  <1>1. /\ n + 1 \in DOMAIN src /\ 1 .. n \subseteq DOMAIN src /\ f \in Functions
        /\ DOMAIN src = 1 .. Len(src) /\ Len(src) \in Nat
    OBVIOUS
  <1>2. \A m \in 1 .. n + 1 : m \in 1 .. n \/ m = n + 1
    OBVIOUS
  <1>3. CASE AddMissing(w, f) = w /\ \E k \in DOMAIN w : ~w[k].hidden /\ w[k].proto = f.proto
    <2>1. Added(w, v, src, n + 1)
      BY <1>2, <1>3 DEF Added
    <2> QED BY <1>3, <2>1
  <1>4. CASE AddMissing(w, f) = Append(w, f)
    <2> SUFFICES ASSUME NEW u, u = Append(w, f) PROVE Added(u, v, src, n + 1)
      BY <1>4
    <2> DEFINE l == Len(w) + 1
    <2>1. /\ w \in Seq(Functions) /\ DOMAIN w = 1 .. Len(w) /\ Len(w) \in Nat
          /\ u \in Seq(Functions) /\ DOMAIN u = 1 .. l /\ u[l] = f
          /\ \A k \in DOMAIN w : u[k] = w[k]
      BY <1>1 DEF Added
    <2>2. /\ DOMAIN u = DOMAIN w \cup {l} /\ \A k \in DOMAIN w : k < l
      BY <2>1
    <2> HIDE DEF l
    <2>3. ASSUME NEW k \in DOMAIN u \ DOMAIN v PROVE \E m \in 1 .. n + 1 : u[k] = src[m]
      <3>1. CASE k = l
        BY <2>1, <3>1
      <3>2. CASE k # l
        BY <2>1, <2>2, <3>2 DEF Added
      <3> QED BY <3>1, <3>2
    <2>4. ASSUME NEW m \in 1 .. n + 1, ~src[m].hidden
          PROVE  \E k \in DOMAIN u : ~u[k].hidden /\ u[k].proto = src[m].proto
      <3>1. CASE m = n + 1
        BY <2>1, <2>2, <2>4, <3>1
      <3>2. CASE m # n + 1
        BY <1>2, <2>1, <2>2, <2>4, <3>2 DEF Added
      <3> QED BY <3>1, <3>2
    <2>5. ASSUME NEW k \in DOMAIN u, ~u[k].hidden, ~FirstOf(u, k)
          PROVE  \E m \in DOMAIN u : m < k /\ ~u[m].hidden /\ SameArgs(u[m].proto, u[k].proto)
      <3>1. PICK j \in DOMAIN u : u[j].proto = u[k].proto /\ ~(k <= j)
        BY <2>5 DEF FirstOf
      <3>2. CASE k \in DOMAIN w
        <4>1. j \in DOMAIN w
          BY <2>1, <2>2, <3>1, <3>2
        <4>2. ~w[k].hidden /\ ~FirstOf(w, k)
          BY <2>1, <2>5, <3>1, <3>2, <4>1 DEF FirstOf
        <4>3. PICK m \in DOMAIN w : m < k /\ ~w[m].hidden /\ SameArgs(w[m].proto, w[k].proto)
          BY <3>2, <4>2 DEF Added, RepeatedLater
        <4> QED BY <2>1, <2>2, <3>2, <4>3
      <3>3. CASE k = l
        <4>1. j \in DOMAIN w /\ w[j].proto = f.proto
          BY <2>1, <2>2, <3>1, <3>3
        <4>2. CASE ~w[j].hidden
          BY <2>1, <2>2, <3>3, <4>1, <4>2 DEF SameArgs
        <4>3. CASE w[j].hidden /\ j \in DOMAIN v
          <5>1. v[j].hidden /\ v[j].proto = f.proto
            BY <4>1, <4>3 DEF Added
          <5>2. PICK m \in DOMAIN v : ~v[m].hidden /\ SameArgs(v[m].proto, v[j].proto)
            BY <4>3, <5>1 DEF HiddenReplaced
          <5>3. m \in DOMAIN w /\ w[m] = v[m]
            BY DEF Added
          <5> QED BY <2>1, <2>2, <3>3, <5>1, <5>2, <5>3
        <4>4. CASE w[j].hidden /\ j \notin DOMAIN v
          <5>1. PICK i \in 1 .. n : w[j] = src[i]
            BY <4>1, <4>4 DEF Added
          <5>2. ~FirstOf(src, n + 1)
            BY <1>1, <4>1, <5>1 DEF FirstOf
          <5>3. ~src[n + 1].hidden
            BY <2>1, <2>5, <3>3
          <5>4. PICK m \in DOMAIN src : m < n + 1 /\ ~src[m].hidden /\ SameArgs(src[m].proto, f.proto)
            BY <1>1, <5>2, <5>3 DEF RepeatedLater
          <5>5. m \in 1 .. n
            BY <1>1, <5>4
          <5>6. PICK x \in DOMAIN w : ~w[x].hidden /\ w[x].proto = src[m].proto
            BY <5>4, <5>5 DEF Added
          <5> QED BY <2>1, <2>2, <3>3, <5>4, <5>6
        <4> QED BY <4>2, <4>3, <4>4
      <3> QED BY <2>2, <3>2, <3>3
    <2>6. RepeatedLater(u)
      BY <2>5 DEF RepeatedLater
    <2>7. DOMAIN v \subseteq DOMAIN u /\ \A k \in DOMAIN v : u[k] = v[k]
      BY <2>1, <2>2 DEF Added
    <2> QED BY <2>1, <2>3, <2>4, <2>6, <2>7 DEF Added
  <1>5. w \in Seq(Functions)
    BY DEF Added
  <1> QED BY <1>1, <1>3, <1>4, <1>5, AddMissingIs

(* All of them. *)
LEMMA ImplementedVector ==
  ASSUME NEW v \in Seq(Functions), NEW src \in Seq(Functions),
         HiddenReplaced(v), RepeatedLater(v), HiddenReplaced(src), RepeatedLater(src)
  PROVE  /\ Added(ImplementVirtuals(v, src), v, src, Len(src))
         /\ HiddenReplaced(ImplementVirtuals(v, src))
  <1>1. PICK a : Implementing(a, v, src) /\ ImplementVirtuals(v, src) = a[Len(src)]
    BY ImplementVirtualsIs
  <1> DEFINE N == Len(src)
             T == {n \in 0 .. N : ~Added(a[n], v, src, n)}
  <1>2. N \in Nat /\ DOMAIN src = 1 .. N
    OBVIOUS
  <1>3. a[0] = v /\ \A n \in 1 .. N : a[n] = AddMissing(a[n - 1], src[n])
    <2>1. \A n \in 0 .. N : a[n] = IF n = 0 THEN v ELSE AddMissing(a[n - 1], src[n])
      BY <1>1 DEF Implementing
    <2> QED BY <1>2, <2>1
  <1>4. T = {}
    <2> SUFFICES ASSUME T # {} PROVE FALSE
      OBVIOUS
    <2>1. PICK n \in T : \A m \in T : n <= m
      <3>1. T \in SUBSET Nat
        BY <1>2
      <3> QED BY <3>1, SmallestOf
    <2>2. n \in 0 .. N /\ ~Added(a[n], v, src, n)
      BY <2>1
    <2>3. n # 0
      BY <1>3, <2>2 DEF Added
    <2>4. n - 1 \in 0 .. N /\ ~(n <= n - 1) /\ n - 1 \in Nat /\ n - 1 + 1 = n /\ n \in 1 .. N
      BY <1>2, <2>2, <2>3
    <2>5. Added(a[n - 1], v, src, n - 1)
      BY <2>1, <2>4
    <2>6. Added(AddMissing(a[n - 1], src[n]), v, src, n)
      BY <1>2, <2>4, <2>5, AddedNext
    <2> QED BY <1>3, <2>2, <2>4, <2>6
  <1> SUFFICES ASSUME NEW u, u = a[N] PROVE Added(u, v, src, N) /\ HiddenReplaced(u)
    BY <1>1
  <1>5. Added(u, v, src, N)
    BY <1>2, <1>4
  <1>6. ASSUME NEW j \in DOMAIN u, u[j].hidden
        PROVE  \E m \in DOMAIN u : ~u[m].hidden /\ SameArgs(u[m].proto, u[j].proto)
    <2>1. CASE j \in DOMAIN v
      <3>1. PICK m \in DOMAIN v : ~v[m].hidden /\ SameArgs(v[m].proto, v[j].proto)
        BY <1>5, <1>6, <2>1 DEF Added, HiddenReplaced
      <3> QED BY <1>5, <2>1, <3>1 DEF Added
    <2>2. CASE j \notin DOMAIN v
      <3>1. PICK i \in 1 .. N : u[j] = src[i]
        BY <1>5, <2>2 DEF Added
      <3>2. PICK m \in 1 .. N : ~src[m].hidden /\ SameArgs(src[m].proto, src[i].proto)
        BY <1>2, <1>6, <3>1 DEF HiddenReplaced
      <3>3. PICK k \in DOMAIN u : ~u[k].hidden /\ u[k].proto = src[m].proto
        BY <1>5, <3>2 DEF Added
      <3> QED BY <3>1, <3>2, <3>3
    <2> QED BY <2>1, <2>2
  <1> QED BY <1>5, <1>6 DEF HiddenReplaced
-----------------------------------------------------------------------------
(* b declares a function with the prototype p. *)
Declares(vs, b, p) ==
    \E k \in DOMAIN vs[b][b] : vs[b][b][k].class = b /\ vs[b][b][k].proto = p

(* Above a class there are only completed ones, each at one place of a line, and there    *)
(* is a vector for each of them.                                                         *)
LineOK(sup, st, vs, c) ==
    /\ \A b \in Up(sup, c) \ {c} : st[b] = "completed"
    /\ \A b \in Up(sup, c) : c \in Up(sup, b) => b = c
    /\ \A T \in SUBSET Up(sup, c) : T # {} => \E b \in T : \A d \in T : d \in Up(sup, b)
    /\ Up(sup, c) \subseteq DOMAIN vs[c]

(* Functions in the vectors of c are declared by c, or by a class that is completed.       *)
FunctionsOK(st, vs, c) == \A d \in DOMAIN vs[c] :
    /\ vs[c][d] \in Seq(Functions)
    /\ \A k \in DOMAIN vs[c][d] :
        /\ vs[c][d][k].class = c \/ st[vs[c][d][k].class] = "completed"
        /\ vs[c][d][k].class = c => st[c] \notin {"undefined", "derived"}
        /\ Declares(vs, vs[c][d][k].class, vs[c][d][k].proto)

(* What c declares stands in each of its vectors where the prototype is first.            *)
OwnFirst(vs, c) ==
    /\ \A d \in DOMAIN vs[c] : \A k \in DOMAIN vs[c][d] :
        FirstOf(vs[c][d], k) /\ Declares(vs, c, vs[c][d][k].proto) => vs[c][d][k].class = c
    /\ \A k \in DOMAIN vs[c][c] : vs[c][c][k].class = c => FirstOf(vs[c][c], k)

(* What c does not declare comes from the same place of its superclass.                   *)
SuperElsewhere(sup, vs, c) == sup[c] # NoClass =>
    \A d \in Up(sup, sup[c]) : \A k \in DOMAIN vs[c][d] :
        ~Declares(vs, c, vs[c][d][k].proto) => vs[c][d][k].class = vs[sup[c]][d][k].class

(* The classes from c to d that declare p. *)
Declaring(sup, vs, c, d, p) == {b \in Up(sup, c) : d \in Up(sup, b) /\ Declares(vs, b, p)}

(* Then the first function of a prototype is that of the nearest class that declares it.   *)
NearestFirst(sup, vs, c) == \A d \in Up(sup, c) : \A k \in DOMAIN vs[d][d] :
    FirstOf(vs[d][d], k) /\ Declaring(sup, vs, c, d, vs[d][d][k].proto) # {} =>
        /\ vs[c][d][k].class \in Declaring(sup, vs, c, d, vs[d][d][k].proto)
        /\ \A b \in Declaring(sup, vs, c, d, vs[d][d][k].proto) : b \in Up(sup, vs[c][d][k].class)

(* A visible function of c or a superclass, with the arguments of p, at or below x.        *)
Covers(sup, vs, c, g, x, p) ==
    ~g.hidden /\ SameArgs(g.proto, p) /\ g.class \in Up(sup, c) /\ x \in Up(sup, g.class)

(* What a class above c declares is covered.                                             *)
DeclaredCovered(sup, vs, c) == \A x \in Up(sup, c) : \A k \in DOMAIN vs[x][x] :
    vs[x][x][k].class = x =>
        \E m \in DOMAIN vs[c][c] : Covers(sup, vs, c, vs[c][c][m], x, vs[x][x][k].proto)

(* A function whose prototype an earlier one has is covered by another class, or before.   *)
RepeatedCovered(sup, vs, c) == \A k \in DOMAIN vs[c][c] :
    ~vs[c][c][k].hidden /\ ~FirstOf(vs[c][c], k) /\ vs[c][c][k].class \in Up(sup, c) =>
        \E m \in DOMAIN vs[c][c] :
            /\ Covers(sup, vs, c, vs[c][c][m], vs[c][c][k].class, vs[c][c][k].proto)
            /\ vs[c][c][m].class = vs[c][c][k].class => m < k

ClassOK(sup, st, vs, c) ==
    /\ LineOK(sup, st, vs, c) /\ FunctionsOK(st, vs, c)
    /\ OwnFirst(vs, c) /\ SuperElsewhere(sup, vs, c) /\ NearestFirst(sup, vs, c)
    /\ HiddenReplaced(vs[c][c]) /\ RepeatedLater(vs[c][c])
    /\ DeclaredCovered(sup, vs, c) /\ RepeatedCovered(sup, vs, c)

(* What VirtualVectorsFit says of the vectors, and more of the superclasses.              *)
Fitting(sup, st, vs) ==
    /\ sup \in Hierarchies
    /\ \A c \in Classes :
        /\ c \in DOMAIN vs[c] /\ DOMAIN vs[c] \subseteq Classes
        /\ \A d \in DOMAIN vs[c] \ {c} : st[d] = "completed" /\ SameSlots(vs[c][d], vs[d][d])
        /\ sup[c] # NoClass => st[sup[c]] = "completed" /\ DOMAIN vs[sup[c]] \subseteq DOMAIN vs[c]

-----------------------------------------------------------------------------
(* A step that gives the class c, which is not completed, other vectors and perhaps a      *)
(* superclass.                                                                           *)
Changes(sup, st, vs, sup2, st2, vs2, c) ==
    /\ st[c] # "completed" /\ sup2 \in Hierarchies
    /\ \A e \in Classes \ {c} : sup2[e] = sup[e] /\ st2[e] = st[e] /\ vs2[e] = vs[e]

(* It changes nothing above the other classes, *)
LEMMA OthersLine ==
  ASSUME NEW sup \in Hierarchies, NEW st, NEW vs, NEW sup2, NEW st2, NEW vs2, NEW c,
         Changes(sup, st, vs, sup2, st2, vs2, c), NEW e \in Classes \ {c}, LineOK(sup, st, vs, e)
  PROVE  /\ Up(sup2, e) = Up(sup, e) /\ c \notin Up(sup, e)
         /\ \A b \in Up(sup, e) : b \in Classes /\ Up(sup2, b) = Up(sup, b)
         /\ LineOK(sup2, st2, vs2, e)
  <1>1. c \notin Up(sup, e)
    BY DEF LineOK, Changes
  <1>2. ASSUME NEW b \in Up(sup, e) PROVE b \in Classes /\ Up(sup2, b) = Up(sup, b)
    <2>1. b \in Classes /\ c \notin Up(sup, b)
      BY <1>1, UpUp
    <2> QED BY <2>1, UpKept DEF Changes
  <1>3. Up(sup2, e) = Up(sup, e)
    BY <1>2, UpOwn
  <1>4. LineOK(sup2, st2, vs2, e)
    BY <1>1, <1>2, <1>3 DEF LineOK, Changes
  <1> QED BY <1>1, <1>2, <1>3, <1>4

(* nor anything said of them. *)
LEMMA OthersKept ==
  ASSUME NEW sup, NEW st, NEW vs, NEW sup2, NEW st2, NEW vs2, NEW c,
         Fitting(sup, st, vs),
         Changes(sup, st, vs, sup2, st2, vs2, c), NEW e \in Classes \ {c}, ClassOK(sup, st, vs, e)
  PROVE  ClassOK(sup2, st2, vs2, e)
  <1>1. /\ Up(sup2, e) = Up(sup, e) /\ c \notin Up(sup, e)
        /\ \A b \in Up(sup, e) : b \in Classes /\ b # c /\ Up(sup2, b) = Up(sup, b)
        /\ LineOK(sup2, st2, vs2, e)
    BY OthersLine DEF ClassOK, Fitting
  <1>2. vs2[e] = vs[e] /\ sup2[e] = sup[e] /\ st2[e] = st[e]
    BY DEF Changes
  <1>3. \A b \in Up(sup, e) : vs2[b] = vs[b]
    BY <1>1 DEF Changes
  <1>4. \A p : \A b \in Up(sup, e) : Declares(vs2, b, p) <=> Declares(vs, b, p)
    BY <1>3 DEF Declares
  <1>5. e \in Up(sup, e) /\ sup[e] \in Up(sup, e) \cup {NoClass}
    BY UpOwn, UpClosed DEF Fitting
  <1>6. FunctionsOK(st2, vs2, e)
    <2>1. ASSUME NEW d \in DOMAIN vs[e], NEW k \in DOMAIN vs[e][d]
          PROVE  LET g == vs[e][d][k] IN
                 /\ g.class = e \/ st2[g.class] = "completed"
                 /\ g.class = e => st2[e] \notin {"undefined", "derived"}
                 /\ Declares(vs2, g.class, g.proto)
      <3> DEFINE g == vs[e][d][k]
      <3>1. /\ g.class = e \/ st[g.class] = "completed"
            /\ g.class = e => st[e] \notin {"undefined", "derived"}
            /\ Declares(vs, g.class, g.proto) /\ vs[e][d] \in Seq(Functions)
        BY DEF ClassOK, FunctionsOK
      <3>2. g.class \in Classes
        <4>1. g \in Functions
          BY <3>1
        <4> QED BY <4>1 DEF Functions
      <3>3. g.class # c
        BY <3>1 DEF Changes
      <3>4. st2[g.class] = st[g.class] /\ vs2[g.class] = vs[g.class]
        BY <3>2, <3>3 DEF Changes
      <3>5. Declares(vs2, g.class, g.proto)
        BY <3>1, <3>4 DEF Declares
      <3> QED BY <1>2, <3>1, <3>4, <3>5
    <2>2. \A d \in DOMAIN vs[e] : vs[e][d] \in Seq(Functions)
      BY DEF ClassOK, FunctionsOK
    <2> QED BY <1>2, <2>1, <2>2 DEF FunctionsOK
  <1>7. OwnFirst(vs2, e)
    BY <1>2, <1>4, <1>5 DEF ClassOK, OwnFirst
  <1>8. SuperElsewhere(sup2, vs2, e)
    <2> SUFFICES ASSUME sup[e] # NoClass PROVE SuperElsewhere(sup2, vs2, e)
      BY <1>2 DEF SuperElsewhere
    <2>1. Up(sup2, sup2[e]) = Up(sup, sup[e]) /\ vs2[sup2[e]] = vs[sup[e]]
      BY <1>1, <1>2, <1>3, <1>5
    <2> QED BY <1>2, <1>4, <1>5, <2>1 DEF ClassOK, SuperElsewhere
  <1>9. NearestFirst(sup2, vs2, e)
    <2>1. \A d, p : Declaring(sup2, vs2, e, d, p) = Declaring(sup, vs, e, d, p)
      BY <1>1, <1>4 DEF Declaring
    <2>2. \A d, p : Declaring(sup, vs, e, d, p) \subseteq Up(sup, e)
      BY DEF Declaring
    <2> SUFFICES ASSUME NEW d \in Up(sup, e), NEW k \in DOMAIN vs[d][d], FirstOf(vs[d][d], k),
                        NEW R, R = Declaring(sup, vs, e, d, vs[d][d][k].proto), R # {}
                 PROVE  vs[e][d][k].class \in R /\ \A b \in R : b \in Up(sup2, vs[e][d][k].class)
      BY <1>1, <1>2, <1>3, <2>1 DEF NearestFirst
    <2>3. vs[e][d][k].class \in R /\ \A b \in R : b \in Up(sup, vs[e][d][k].class)
      BY DEF ClassOK, NearestFirst
    <2> QED BY <1>1, <2>2, <2>3
  <1>10. \A m, x, p : Covers(sup2, vs2, e, vs2[e][e][m], x, p) <=> Covers(sup, vs, e, vs[e][e][m], x, p)
    BY <1>1, <1>2 DEF Covers
  <1>11. DeclaredCovered(sup2, vs2, e)
    BY <1>1, <1>2, <1>3, <1>10 DEF ClassOK, DeclaredCovered
  <1>12. RepeatedCovered(sup2, vs2, e)
    BY <1>1, <1>2, <1>10 DEF ClassOK, RepeatedCovered
  <1> QED BY <1>1, <1>2, <1>6, <1>7, <1>8, <1>9, <1>11, <1>12 DEF ClassOK

(* NearestFirst follows from what is first, along the superclasses. *)
LEMMA NearestFollows ==
  ASSUME NEW sup, NEW st, NEW vs, Fitting(sup, st, vs), NEW c \in Classes,
         LineOK(sup, st, vs, c), OwnFirst(vs, c), SuperElsewhere(sup, vs, c),
         sup[c] # NoClass => NearestFirst(sup, vs, sup[c])
  PROVE  NearestFirst(sup, vs, c)
  <1> SUFFICES ASSUME NEW d \in Up(sup, c), NEW k \in DOMAIN vs[d][d], FirstOf(vs[d][d], k),
                      NEW p, p = vs[d][d][k].proto,
                      NEW R, R = Declaring(sup, vs, c, d, p), R # {}
               PROVE  vs[c][d][k].class \in R /\ \A b \in R : b \in Up(sup, vs[c][d][k].class)
    BY DEF NearestFirst
  <1>1. d \in DOMAIN vs[c] /\ SameSlots(vs[c][d], vs[d][d])
    BY DEF LineOK, Fitting, SameSlots
  <1>2. k \in DOMAIN vs[c][d] /\ vs[c][d][k].proto = p /\ FirstOf(vs[c][d], k)
    BY <1>1 DEF SameSlots, FirstOf
  <1>3. CASE Declares(vs, c, p)
    <2>1. vs[c][d][k].class = c
      BY <1>1, <1>2, <1>3 DEF OwnFirst
    <2>2. c \in R /\ R \subseteq Up(sup, c)
      BY <1>3, UpOwn DEF Declaring
    <2> QED BY <2>1, <2>2
  <1>4. CASE ~Declares(vs, c, p)
    <2> SUFFICES ASSUME NEW s, s = sup[c]
                 PROVE  vs[c][d][k].class \in R /\ \A b \in R : b \in Up(sup, vs[c][d][k].class)
      OBVIOUS
    <2>1. c \notin R /\ R \subseteq Up(sup, c)
      BY <1>4 DEF Declaring
    <2>2. sup \in Hierarchies
      BY DEF Fitting
    <2>3. s # NoClass /\ R \subseteq Up(sup, s) /\ Up(sup, s) \subseteq Up(sup, c)
      BY <2>1, <2>2, UpIs
    <2>4. s \in Classes
      BY <2>2, <2>3 DEF Hierarchies
    <2>5. R = Declaring(sup, vs, s, d, p)
      BY <2>3 DEF Declaring
    <2>6. d \in Up(sup, s)
      <3>1. PICK b \in R : TRUE
        OBVIOUS
      <3>2. b \in Up(sup, s) /\ d \in Up(sup, b)
        BY <2>3, <3>1 DEF Declaring
      <3> QED BY <2>2, <2>4, <3>2, UpUp
    <2>7. vs[s][d][k].class \in R /\ \A b \in R : b \in Up(sup, vs[s][d][k].class)
      BY <2>3, <2>5, <2>6 DEF NearestFirst
    <2>8. vs[c][d][k].class = vs[s][d][k].class
      BY <1>2, <1>4, <2>3, <2>6 DEF SuperElsewhere
    <2> QED BY <2>7, <2>8
  <1> QED BY <1>3, <1>4
-----------------------------------------------------------------------------
(* The functions in the vectors of another completed class are none of c. *)
LEMMA SlotsOfOthers ==
  ASSUME NEW sup, NEW st, NEW vs, NEW sup2, NEW st2, NEW vs2, NEW c,
         Changes(sup, st, vs, sup2, st2, vs2, c),
         NEW e, FunctionsOK(st, vs, e), e = c \/ st[e] = "completed", st[c] \in {"undefined", "derived"},
         NEW d \in DOMAIN vs[e], NEW k \in DOMAIN vs[e][d], NEW g, g = vs[e][d][k]
  PROVE  /\ g \in Functions /\ g.class \in Classes \ {c}
         /\ st[g.class] = "completed" /\ st2[g.class] = "completed"
         /\ Declares(vs, g.class, g.proto) /\ Declares(vs2, g.class, g.proto)
  <1>1. /\ g.class = e \/ st[g.class] = "completed"
        /\ g.class = e => st[e] \notin {"undefined", "derived"}
        /\ Declares(vs, g.class, g.proto) /\ vs[e][d] \in Seq(Functions)
    BY DEF FunctionsOK
  <1>2. g \in Functions /\ g.class \in Classes
    <2>1. g \in Functions
      BY <1>1
    <2> QED BY <2>1 DEF Functions
  <1>3. g.class # c /\ st[g.class] = "completed"
    BY <1>1
  <1>4. st2[g.class] = st[g.class] /\ vs2[g.class] = vs[g.class]
    BY <1>2, <1>3 DEF Changes
  <1> QED BY <1>1, <1>2, <1>3, <1>4 DEF Declares

(* The hypotheses of the lemmas below: a step that changes c, with the vectors fitting.     *)
Step(sup, st, vs, sup2, st2, vs2, c) ==
    /\ c \in Classes /\ Changes(sup, st, vs, sup2, st2, vs2, c)
    /\ Fitting(sup, st, vs) /\ Fitting(sup2, st2, vs2) /\ \A e \in Classes : ClassOK(sup, st, vs, e)

(* c extends s: its vectors are those of s. *)
Derives(sup, st, vs, sup2, st2, vs2, c, s) ==
    /\ Step(sup, st, vs, sup2, st2, vs2, c)
    /\ s \in Classes /\ st[c] = "undefined" /\ st[s] = "completed" /\ sup2[c] = s
    /\ DOMAIN vs2[c] = DOMAIN vs[s] \cup {c} /\ vs2[c][c] = vs[s][s]
    /\ \A d \in DOMAIN vs[s] : vs2[c][d] = vs[s][d]

(* A class that extends s begins with what s has: it declares nothing yet. *)
LEMMA SuperClassOK ==
  ASSUME NEW sup, NEW st, NEW vs, NEW sup2, NEW st2, NEW vs2, NEW c, NEW s,
         Derives(sup, st, vs, sup2, st2, vs2, c, s)
  PROVE  ClassOK(sup2, st2, vs2, c)
  <1> USE DEF Derives, Step
  <1>1. s # c /\ s \in Classes \ {c} /\ vs2[s] = vs[s]
    BY DEF Changes
  <1>2. sup \in Hierarchies /\ sup2 \in Hierarchies /\ s # NoClass /\ ClassOK(sup, st, vs, s)
    BY ClassesAssumption DEF Fitting
  <1>3. /\ Up(sup2, s) = Up(sup, s) /\ c \notin Up(sup, s)
        /\ \A b \in Up(sup, s) : b \in Classes /\ Up(sup2, b) = Up(sup, b)
        /\ LineOK(sup2, st2, vs2, s)
    BY <1>1, <1>2, OthersLine DEF ClassOK
  <1>4. Up(sup2, c) = {c} \cup Up(sup, s) /\ s \in Up(sup, s)
    BY <1>2, <1>3, UpIs, UpOwn
  <1>5. \A b \in Up(sup, s) : st2[b] = "completed" /\ b # c /\ vs2[b] = vs[b] /\ b \in DOMAIN vs[s]
    BY <1>2, <1>3 DEF ClassOK, LineOK, Changes
  <1>6. ASSUME NEW d \in DOMAIN vs2[c], NEW k \in DOMAIN vs2[c][d]
        PROVE  LET g == vs2[c][d][k] IN
               g.class # c /\ st2[g.class] = "completed" /\ Declares(vs2, g.class, g.proto)
    <2>1. s \in DOMAIN vs[s]
      BY DEF Fitting
    <2>2. PICK x \in DOMAIN vs[s] : vs2[c][d] = vs[s][x]
      BY <2>1
    <2>3. FunctionsOK(st, vs, s)
      BY <1>2 DEF ClassOK
    <2> QED BY <2>2, <2>3, SlotsOfOthers
  <1>7. \A p : ~Declares(vs2, c, p)
    <2>1. c \in DOMAIN vs2[c]
      OBVIOUS
    <2> QED BY <1>6, <2>1 DEF Declares
  <1>8. LineOK(sup2, st2, vs2, c)
    <2>1. \A b \in Up(sup2, c) \ {c} : st2[b] = "completed" /\ c \notin Up(sup2, b)
      <3>1. ASSUME NEW b \in Up(sup, s) PROVE c \notin Up(sup2, b)
        BY <1>2, <1>3, UpUp
      <3> QED BY <1>4, <1>5, <3>1
    <2>2. ASSUME NEW T \in SUBSET Up(sup2, c), T # {} PROVE \E b \in T : \A d \in T : d \in Up(sup2, b)
      <3>1. CASE c \in T
        BY <3>1
      <3>2. CASE c \notin T
        <4>1. T \in SUBSET Up(sup, s)
          BY <1>4, <3>2
        <4>2. PICK b \in T : \A d \in T : d \in Up(sup, b)
          BY <1>2, <2>2, <4>1 DEF ClassOK, LineOK
        <4> QED BY <1>3, <4>1, <4>2
      <3> QED BY <3>1, <3>2
    <2>3. Up(sup2, c) \subseteq DOMAIN vs2[c]
      BY <1>4, <1>5
    <2> QED BY <2>1, <2>2, <2>3 DEF LineOK
  <1>9. FunctionsOK(st2, vs2, c)
    <2>1. s \in DOMAIN vs[s] /\ \A d \in DOMAIN vs[s] : vs[s][d] \in Seq(Functions)
      BY <1>2 DEF Fitting, ClassOK, FunctionsOK
    <2>2. \A d \in DOMAIN vs2[c] : vs2[c][d] \in Seq(Functions)
      BY <2>1
    <2> QED BY <1>6, <2>2 DEF FunctionsOK
  <1>10. OwnFirst(vs2, c)
    <2>1. c \in DOMAIN vs2[c]
      OBVIOUS
    <2> QED BY <1>6, <1>7, <2>1 DEF OwnFirst
  <1>11. SuperElsewhere(sup2, vs2, c)
    BY <1>1, <1>3, <1>5 DEF SuperElsewhere
  <1>12. NearestFirst(sup2, vs2, c)
    <2>1. ClassOK(sup2, st2, vs2, s)
      BY <1>1, <1>2, OthersKept
    <2> QED BY <1>8, <1>10, <1>11, <2>1, NearestFollows DEF ClassOK
  <1>13. HiddenReplaced(vs2[c][c]) /\ RepeatedLater(vs2[c][c])
    BY <1>2 DEF ClassOK
  <1>14. \A m, x, p : Covers(sup, vs, s, vs[s][s][m], x, p) => Covers(sup2, vs2, c, vs2[c][c][m], x, p)
    BY <1>3, <1>4 DEF Covers
  <1>15. DeclaredCovered(sup2, vs2, c)
    <2> SUFFICES ASSUME NEW x \in Up(sup2, c), NEW k \in DOMAIN vs2[x][x], vs2[x][x][k].class = x
                 PROVE  \E m \in DOMAIN vs2[c][c] :
                            Covers(sup2, vs2, c, vs2[c][c][m], x, vs2[x][x][k].proto)
      BY DEF DeclaredCovered
    <2>1. x # c
      BY <1>7 DEF Declares
    <2>2. x \in Up(sup, s) /\ vs2[x] = vs[x]
      BY <1>4, <1>5, <2>1
    <2>3. PICK m \in DOMAIN vs[s][s] : Covers(sup, vs, s, vs[s][s][m], x, vs[x][x][k].proto)
      BY <1>2, <2>2 DEF ClassOK, DeclaredCovered
    <2> QED BY <1>14, <2>2, <2>3
  <1>16. RepeatedCovered(sup2, vs2, c)
    <2> SUFFICES ASSUME NEW k \in DOMAIN vs[s][s], ~vs[s][s][k].hidden, ~FirstOf(vs[s][s], k),
                        vs[s][s][k].class \in Up(sup2, c)
                 PROVE  \E m \in DOMAIN vs[s][s] :
                            /\ Covers(sup2, vs2, c, vs2[c][c][m], vs[s][s][k].class, vs[s][s][k].proto)
                            /\ vs[s][s][m].class = vs[s][s][k].class => m < k
      BY DEF RepeatedCovered
    <2>1. vs[s][s][k].class # c
      BY <1>6
    <2>2. PICK m \in DOMAIN vs[s][s] :
                            /\ Covers(sup, vs, s, vs[s][s][m], vs[s][s][k].class, vs[s][s][k].proto)
                            /\ vs[s][s][m].class = vs[s][s][k].class => m < k
      BY <1>2, <1>4, <2>1 DEF ClassOK, RepeatedCovered
    <2> QED BY <1>14, <2>2
  <1> QED BY <1>8, <1>9, <1>10, <1>11, <1>12, <1>13, <1>15, <1>16 DEF ClassOK

(* c implements i. *)
Implements(sup, st, vs, vs2, c, i) ==
    /\ Step(sup, st, vs, sup, st, vs2, c)
    /\ i \in Classes /\ st[c] = "derived" /\ st[i] = "completed"
    /\ DOMAIN vs2[c] = DOMAIN vs[c] \cup DOMAIN vs[i]
    /\ vs2[c][c] = ImplementVirtuals(vs[c][c], vs[i][i])
    /\ \A d \in DOMAIN vs2[c] \ {c} :
            vs2[c][d] = IF d \in DOMAIN vs[c] THEN vs[c][d] ELSE vs[i][d]

(* Implementing i adds functions behind those that c has; what of them a superclass       *)
(* declares was covered before.                                                          *)
LEMMA ImplementClassOK ==
  ASSUME NEW sup, NEW st, NEW vs, NEW vs2, NEW c, NEW i, Implements(sup, st, vs, vs2, c, i)
  PROVE  ClassOK(sup, st, vs2, c)
  <1> USE DEF Implements, Step
  <1> SUFFICES ASSUME NEW v, v = vs[c][c], NEW src, src = vs[i][i], NEW u, u = vs2[c][c]
               PROVE  ClassOK(sup, st, vs2, c)
    OBVIOUS
  <1>1. /\ ClassOK(sup, st, vs, c) /\ ClassOK(sup, st, vs, i) /\ sup \in Hierarchies
        /\ c \in DOMAIN vs[c] /\ i \in DOMAIN vs[i] /\ \A e \in Classes \ {c} : vs2[e] = vs[e]
    BY DEF Fitting, Changes
  <1>2. v \in Seq(Functions) /\ src \in Seq(Functions)
    BY <1>1 DEF ClassOK, FunctionsOK
  <1>3. Added(u, v, src, Len(src)) /\ HiddenReplaced(u) /\ RepeatedLater(u)
    <2>1. HiddenReplaced(v) /\ RepeatedLater(v) /\ HiddenReplaced(src) /\ RepeatedLater(src)
      BY <1>1 DEF ClassOK
    <2>2. Added(u, v, src, Len(src)) /\ HiddenReplaced(u)
      BY <1>2, <2>1, ImplementedVector
    <2> QED BY <2>2 DEF Added
  <1>4. /\ u \in Seq(Functions) /\ DOMAIN u = 1 .. Len(u) /\ Len(u) \in Nat
        /\ DOMAIN v = 1 .. Len(v) /\ Len(v) \in Nat /\ DOMAIN v \subseteq DOMAIN u
        /\ \A k \in DOMAIN v : u[k] = v[k]
        /\ \A k \in DOMAIN u \ DOMAIN v : \E m \in DOMAIN src : u[k] = src[m]
    BY <1>2, <1>3 DEF Added
  <1>5. \A k \in DOMAIN u \ DOMAIN v, j \in DOMAIN v : j < k
    BY <1>4
  <1>6. ASSUME NEW e \in {c, i}, NEW d \in DOMAIN vs[e], NEW k \in DOMAIN vs[e][d]
        PROVE  LET g == vs[e][d][k] IN
               /\ g.class # c /\ st[g.class] = "completed"
               /\ Declares(vs, g.class, g.proto) /\ Declares(vs2, g.class, g.proto)
    <2>1. FunctionsOK(st, vs, e)
      BY <1>1 DEF ClassOK
    <2> QED BY <2>1, SlotsOfOthers
  <1>7. ASSUME NEW d \in DOMAIN vs2[c], NEW k \in DOMAIN vs2[c][d]
        PROVE  LET g == vs2[c][d][k] IN
               g.class # c /\ st[g.class] = "completed" /\ Declares(vs2, g.class, g.proto)
    <2>1. CASE d = c
      <3>1. CASE k \in DOMAIN v
        BY <1>1, <1>4, <1>6, <2>1, <3>1
      <3>2. CASE k \notin DOMAIN v
        BY <1>1, <1>4, <1>6, <2>1, <3>2
      <3> QED BY <3>1, <3>2
    <2>2. CASE d # c
      <3>1. PICK e \in {c, i} : d \in DOMAIN vs[e] /\ vs2[c][d] = vs[e][d]
        BY <2>2
      <3> QED BY <1>6, <3>1
    <2> QED BY <2>1, <2>2
  <1>8. \A p : ~Declares(vs2, c, p) /\ ~Declares(vs, c, p)
    <2>1. c \in DOMAIN vs2[c] /\ c \in DOMAIN vs[c]
      BY <1>1
    <2>2. \A p : ~Declares(vs2, c, p)
      BY <1>7, <2>1 DEF Declares
    <2>3. \A p : ~Declares(vs, c, p)
      <3>1. FunctionsOK(st, vs, c)
        BY <1>1 DEF ClassOK
      <3>2. \A k \in DOMAIN vs[c][c] : vs[c][c][k].class # c
        BY <2>1, <3>1 DEF FunctionsOK
      <3> QED BY <3>2 DEF Declares
    <2> QED BY <2>2, <2>3
  <1>9. LineOK(sup, st, vs2, c)
    BY <1>1 DEF ClassOK, LineOK
  <1>10. FunctionsOK(st, vs2, c)
    <2>1. ASSUME NEW d \in DOMAIN vs2[c] PROVE vs2[c][d] \in Seq(Functions)
      <3>1. FunctionsOK(st, vs, c) /\ FunctionsOK(st, vs, i)
        BY <1>1 DEF ClassOK
      <3>2. CASE d = c
        BY <1>4, <3>2
      <3>3. CASE d # c
        BY <3>1, <3>3 DEF FunctionsOK
      <3> QED BY <3>2, <3>3
    <2>2. \A d \in DOMAIN vs2[c] : \A k \in DOMAIN vs2[c][d] :
            /\ vs2[c][d][k].class # c /\ st[vs2[c][d][k].class] = "completed"
            /\ Declares(vs2, vs2[c][d][k].class, vs2[c][d][k].proto)
      BY <1>7
    <2> QED BY <2>1, <2>2 DEF FunctionsOK
  <1>11. OwnFirst(vs2, c)
    BY <1>1, <1>7, <1>8 DEF OwnFirst
  <1>12. c \in Up(sup, c) /\ \A b \in Up(sup, c) \ {c} : b \in DOMAIN vs[c] /\ vs2[b] = vs[b]
    BY <1>1, UpOwn DEF ClassOK, LineOK
  <1>13. SuperElsewhere(sup, vs2, c) /\ (sup[c] # NoClass => sup[c] \in Classes \ {c})
    <2> SUFFICES ASSUME NEW s, s = sup[c], s # NoClass
                 PROVE  SuperElsewhere(sup, vs2, c) /\ s \in Classes \ {c}
      BY DEF SuperElsewhere
    <2>1. s \in Classes /\ st[s] = "completed" /\ s # c /\ vs2[s] = vs[s]
      BY <1>1 DEF Fitting, Hierarchies
    <2>2. \A b \in Up(sup, s) : b \in Up(sup, c) \ {c}
      <3>1. Up(sup, s) \subseteq Up(sup, c)
        BY <1>1, UpIs
      <3>2. c \notin Up(sup, s)
        BY <1>1, <2>1 DEF ClassOK, LineOK
      <3> QED BY <3>1, <3>2
    <2>3. \A d \in Up(sup, s) : vs2[c][d] = vs[c][d]
      BY <1>12, <2>2
    <2> QED BY <1>1, <1>8, <2>1, <2>3 DEF ClassOK, SuperElsewhere
  <1>14. NearestFirst(sup, vs2, c)
    <2>1. ASSUME sup[c] # NoClass PROVE NearestFirst(sup, vs2, sup[c])
      <3>1. ClassOK(sup, st, vs2, sup[c])
        BY <1>13, <2>1, OthersKept
      <3> QED BY <3>1 DEF ClassOK
    <2> QED BY <1>9, <1>11, <1>13, <2>1, NearestFollows
  <1>15. \A m, x, p : m \in DOMAIN v /\ Covers(sup, vs, c, v[m], x, p) => Covers(sup, vs2, c, u[m], x, p)
    BY <1>4 DEF Covers
  <1>16. DeclaredCovered(sup, vs2, c)
    <2> SUFFICES ASSUME NEW x \in Up(sup, c), NEW k \in DOMAIN vs2[x][x], vs2[x][x][k].class = x
                 PROVE  \E m \in DOMAIN u : Covers(sup, vs2, c, u[m], x, vs2[x][x][k].proto)
      BY DEF DeclaredCovered
    <2>1. x # c
      BY <1>8 DEF Declares
    <2>2. vs2[x] = vs[x]
      BY <1>12, <2>1
    <2>3. PICK m \in DOMAIN v : Covers(sup, vs, c, v[m], x, vs[x][x][k].proto)
      BY <1>1, <2>2 DEF ClassOK, DeclaredCovered
    <2> QED BY <1>4, <1>15, <2>2, <2>3
  <1>17. RepeatedCovered(sup, vs2, c)
    <2> SUFFICES ASSUME NEW k \in DOMAIN u, ~u[k].hidden, ~FirstOf(u, k), u[k].class \in Up(sup, c)
                 PROVE  \E m \in DOMAIN u :
                            /\ Covers(sup, vs2, c, u[m], u[k].class, u[k].proto)
                            /\ u[m].class = u[k].class => m < k
      BY DEF RepeatedCovered
    <2>1. CASE k \in DOMAIN v
      <3>1. ~FirstOf(v, k)
        BY <1>4, <1>5, <2>1 DEF FirstOf
      <3>2. PICK m \in DOMAIN v : /\ Covers(sup, vs, c, v[m], v[k].class, v[k].proto)
                                  /\ v[m].class = v[k].class => m < k
        BY <1>1, <1>4, <2>1, <3>1 DEF ClassOK, RepeatedCovered
      <3> QED BY <1>4, <1>15, <2>1, <3>2
    <2>2. CASE k \notin DOMAIN v
      <3> DEFINE x == u[k].class
                 p == u[k].proto
      <3>1. PICK n \in DOMAIN src : u[k] = src[n]
        BY <1>4, <2>2
      <3>2. Declares(vs, x, p)
        BY <1>1, <1>6, <3>1
      <3>3. PICK l \in DOMAIN vs[x][x] : vs[x][x][l].class = x /\ vs[x][x][l].proto = p
        BY <3>2 DEF Declares
      <3>4. PICK m \in DOMAIN v : Covers(sup, vs, c, v[m], x, vs[x][x][l].proto)
        BY <1>1, <3>3 DEF ClassOK, DeclaredCovered
      <3>5. Covers(sup, vs2, c, u[m], x, p)
        BY <1>15, <3>3, <3>4
      <3> QED BY <1>4, <1>5, <2>2, <3>5
    <2> QED BY <2>1, <2>2
  <1> QED BY <1>3, <1>9, <1>10, <1>11, <1>13, <1>14, <1>16, <1>17 DEF ClassOK
(* c declares f. *)
Overrides(sup, st, vs, st2, vs2, c, f) ==
    /\ Step(sup, st, vs, sup, st2, vs2, c) /\ st2[c] = "body"
    /\ f \in Functions /\ f.class = c /\ ~f.hidden /\ ~Declares(vs, c, f.proto)
    /\ DOMAIN vs2[c] = DOMAIN vs[c] /\ vs2[c][c] = OverrideFunction(vs[c][c], f)
    /\ \A d \in DOMAIN vs[c] \ {c} : vs2[c][d] = Overridden(vs[c][d], f)

(* A function that c declares covers what it hides and replaces. *)
LEMMA OverrideClassOK ==
  ASSUME NEW sup, NEW st, NEW vs, NEW st2, NEW vs2, NEW c, NEW f,
         Overrides(sup, st, vs, st2, vs2, c, f)
  PROVE  ClassOK(sup, st2, vs2, c)
  <1> USE DEF Overrides, Step
  <1> SUFFICES ASSUME NEW v, v = vs[c][c], NEW u, u = vs2[c][c]
               PROVE  ClassOK(sup, st2, vs2, c)
    OBVIOUS
  <1>1. /\ ClassOK(sup, st, vs, c) /\ sup \in Hierarchies /\ c \in DOMAIN vs[c]
        /\ \A e \in Classes \ {c} : vs2[e] = vs[e] /\ st2[e] = st[e]
    BY DEF Fitting, Changes
  <1>2. \A d \in DOMAIN vs[c] : vs[c][d] \in Seq(Functions)
    BY <1>1 DEF ClassOK, FunctionsOK
  <1>3. /\ v \in Seq(Functions) /\ Overriding(u, v, f)
        /\ \E k \in DOMAIN u : u[k] = f /\ FirstOf(u, k)
    BY <1>1, <1>2, OverrideFunctionIs
  <1>4. \A d \in DOMAIN vs[c] : Overriding(vs2[c][d], vs[c][d], f)
    BY <1>2, <1>3, OverriddenIs
  <1>5. PICK own \in DOMAIN u : u[own] = f /\ FirstOf(u, own)
    BY <1>3
  <1>6. ASSUME NEW d \in DOMAIN vs[c], NEW k \in DOMAIN vs[c][d]
        PROVE  /\ k \in DOMAIN vs2[c][d] /\ vs2[c][d][k].proto = vs[c][d][k].proto
               /\ FirstOf(vs2[c][d], k) <=> FirstOf(vs[c][d], k)
    <2> SUFFICES ASSUME NEW x, x = vs[c][d], NEW y, y = vs2[c][d]
                 PROVE  /\ k \in DOMAIN y /\ y[k].proto = x[k].proto
                        /\ FirstOf(y, k) <=> FirstOf(x, k)
      OBVIOUS
    <2>1. /\ DOMAIN x \subseteq DOMAIN y /\ \A j \in DOMAIN x : y[j].proto = x[j].proto
          /\ \A j \in DOMAIN y \ DOMAIN x : k < j
      BY <1>4 DEF Overriding
    <2>2. DOMAIN x \subseteq Int /\ DOMAIN y \subseteq Int
      BY <1>2, <1>4 DEF Overriding
    <2> QED BY <2>1, <2>2 DEF FirstOf
  <1>7. \A p : Declares(vs2, c, p) <=> p = f.proto \/ Declares(vs, c, p)
    <2>1. ASSUME NEW k \in DOMAIN u, u[k].class = c
          PROVE  u[k].proto = f.proto \/ Declares(vs, c, u[k].proto)
      <3>1. CASE k \in DOMAIN v
        BY <1>3, <2>1, <3>1 DEF Overriding, Declares
      <3>2. CASE k \notin DOMAIN v
        BY <1>3, <3>2 DEF Overriding
      <3> QED BY <3>1, <3>2
    <2>2. Declares(vs2, c, f.proto)
      BY <1>5 DEF Declares
    <2>3. ASSUME NEW k \in DOMAIN v, v[k].class = c PROVE Declares(vs2, c, v[k].proto)
      BY <1>3, <2>2, <2>3 DEF Overriding, Declares
    <2> QED BY <2>1, <2>2, <2>3 DEF Declares
  <1>8. ASSUME NEW d \in DOMAIN vs[c], NEW k \in DOMAIN vs2[c][d]
        PROVE  \/ vs2[c][d][k] = f /\ FirstOf(vs2[c][d], k)
               \/ /\ k \in DOMAIN vs[c][d] /\ vs2[c][d][k].class = vs[c][d][k].class
                  /\ vs[c][d][k].hidden => vs2[c][d][k].hidden
    <2>1. CASE k \in DOMAIN vs[c][d]
      BY <1>4, <1>6, <2>1 DEF Overriding
    <2>2. CASE k \notin DOMAIN vs[c][d]
      BY <1>4, <2>2 DEF Overriding
    <2> QED BY <2>1, <2>2
  <1>9. LineOK(sup, st2, vs2, c)
    <2>1. Up(sup, c) \subseteq Classes
      BY UpOwn
    <2> QED BY <1>1, <2>1 DEF ClassOK, LineOK
  <1>10. FunctionsOK(st2, vs2, c)
    <2>1. \A d \in DOMAIN vs2[c] : vs2[c][d] \in Seq(Functions)
      BY <1>4 DEF Overriding
    <2>2. ASSUME NEW d \in DOMAIN vs2[c], NEW k \in DOMAIN vs2[c][d], NEW g, g = vs2[c][d][k]
          PROVE  /\ g.class = c \/ st2[g.class] = "completed"
                 /\ Declares(vs2, g.class, g.proto)
      <3>1. CASE g = f
        BY <1>7, <3>1
      <3>2. CASE g # f
        <4>1. k \in DOMAIN vs[c][d] /\ g.class = vs[c][d][k].class /\ g.proto = vs[c][d][k].proto
          BY <1>6, <1>8, <2>2, <3>2
        <4>2. /\ g.class = c \/ st[g.class] = "completed"
              /\ Declares(vs, g.class, g.proto)
          BY <1>1, <4>1 DEF ClassOK, FunctionsOK
        <4>3. g.class \in Classes
          <5>1. g \in Functions
            BY <2>1, <2>2
          <5> QED BY <5>1 DEF Functions
        <4>4. CASE g.class = c
          BY <1>7, <4>2, <4>4
        <4>5. CASE g.class # c
          BY <1>1, <4>2, <4>3, <4>5 DEF Declares
        <4> QED BY <4>4, <4>5
      <3> QED BY <3>1, <3>2
    <2> QED BY <2>1, <2>2 DEF FunctionsOK
  <1>11. OwnFirst(vs2, c)
    <2>1. ASSUME NEW d \in DOMAIN vs2[c], NEW k \in DOMAIN vs2[c][d], FirstOf(vs2[c][d], k),
                 Declares(vs2, c, vs2[c][d][k].proto)
          PROVE  vs2[c][d][k].class = c
      <3>1. CASE vs2[c][d][k] = f
        BY <3>1
      <3>2. CASE vs2[c][d][k] # f
        <4>1. /\ k \in DOMAIN vs[c][d] /\ vs2[c][d][k].class = vs[c][d][k].class
              /\ FirstOf(vs[c][d], k) /\ vs2[c][d][k].proto = vs[c][d][k].proto
          BY <1>6, <1>8, <2>1, <3>2
        <4>2. vs[c][d][k].proto # f.proto
          BY <1>4, <3>2, <4>1 DEF Overriding
        <4> QED BY <1>1, <1>7, <2>1, <4>1, <4>2 DEF ClassOK, OwnFirst
      <3> QED BY <3>1, <3>2
    <2>2. ASSUME NEW k \in DOMAIN u, u[k].class = c PROVE FirstOf(u, k)
      BY <1>1, <1>6, <1>8, <2>2 DEF ClassOK, OwnFirst
    <2> QED BY <2>1, <2>2 DEF OwnFirst
  <1>12. c \in Up(sup, c) /\ \A b \in Up(sup, c) \ {c} : b \in DOMAIN vs[c] /\ vs2[b] = vs[b]
    BY <1>1, UpOwn DEF ClassOK, LineOK, Fitting
  <1>13. SuperElsewhere(sup, vs2, c) /\ (sup[c] # NoClass => sup[c] \in Classes \ {c})
    <2> SUFFICES ASSUME NEW s, s = sup[c], s # NoClass
                 PROVE  SuperElsewhere(sup, vs2, c) /\ s \in Classes \ {c}
      BY DEF SuperElsewhere
    <2>1. s \in Classes /\ s # c /\ vs2[s] = vs[s]
      BY <1>1 DEF Fitting, Hierarchies, Changes
    <2>2. \A b \in Up(sup, s) : b \in Up(sup, c) \ {c}
      <3>1. Up(sup, s) \subseteq Up(sup, c)
        BY <1>1, UpIs
      <3>2. c \notin Up(sup, s)
        <4>1. s \in Up(sup, c)
          BY <2>1, <3>1, UpOwn
        <4> QED BY <1>1, <2>1, <4>1 DEF ClassOK, LineOK
      <3> QED BY <3>1, <3>2
    <2>3. ASSUME NEW d \in Up(sup, s), NEW k \in DOMAIN vs2[c][d], ~Declares(vs2, c, vs2[c][d][k].proto)
          PROVE  vs2[c][d][k].class = vs[s][d][k].class
      <3>1. d \in DOMAIN vs[c]
        BY <1>12, <2>2
      <3>2. vs2[c][d][k] # f
        BY <1>7, <2>3
      <3>3. /\ k \in DOMAIN vs[c][d] /\ vs2[c][d][k].class = vs[c][d][k].class
            /\ vs2[c][d][k].proto = vs[c][d][k].proto
        BY <1>6, <1>8, <3>1, <3>2
      <3> QED BY <1>1, <1>7, <2>3, <3>3 DEF ClassOK, SuperElsewhere
    <2> QED BY <2>1, <2>3 DEF SuperElsewhere
  <1>14. NearestFirst(sup, vs2, c)
    <2>1. ASSUME sup[c] # NoClass PROVE NearestFirst(sup, vs2, sup[c])
      <3>1. ClassOK(sup, st2, vs2, sup[c])
        BY <1>13, <2>1, OthersKept
      <3> QED BY <3>1 DEF ClassOK
    <2> QED BY <1>9, <1>11, <1>13, <2>1, NearestFollows
  <1>15. ASSUME NEW k \in DOMAIN v, ~v[k].hidden, u[k].hidden
         PROVE  /\ SameArgs(v[k].proto, f.proto)
                /\ \A j \in DOMAIN v : SameArgs(v[j].proto, v[k].proto) => u[j].hidden
    BY <1>3, <1>15 DEF Overriding
  <1>16. HiddenReplaced(u)
    <2> SUFFICES ASSUME NEW j \in DOMAIN u, u[j].hidden
                 PROVE  \E m \in DOMAIN u : ~u[m].hidden /\ SameArgs(u[m].proto, u[j].proto)
      BY DEF HiddenReplaced
    <2>1. j \in DOMAIN v /\ u[j].proto = v[j].proto
      BY <1>1, <1>6, <1>8
    <2>2. CASE ~v[j].hidden
      <3>1. SameArgs(v[j].proto, f.proto)
        BY <1>15, <2>1, <2>2
      <3> QED BY <1>5, <2>1, <3>1 DEF SameArgs
    <2>3. CASE v[j].hidden
      <3>1. PICK m \in DOMAIN v : ~v[m].hidden /\ SameArgs(v[m].proto, v[j].proto)
        BY <1>1, <2>1, <2>3 DEF ClassOK, HiddenReplaced
      <3>2. m \in DOMAIN u /\ u[m].proto = v[m].proto
        BY <1>1, <1>6
      <3>3. CASE ~u[m].hidden
        BY <2>1, <3>1, <3>2, <3>3
      <3>4. CASE u[m].hidden
        <4>1. SameArgs(v[m].proto, f.proto)
          BY <1>15, <3>1, <3>4
        <4> QED BY <1>5, <2>1, <3>1, <4>1 DEF SameArgs
      <3> QED BY <3>3, <3>4
    <2> QED BY <2>2, <2>3
  <1>17. ASSUME NEW k \in DOMAIN u, ~u[k].hidden, ~FirstOf(u, k)
         PROVE  /\ k \in DOMAIN v /\ ~v[k].hidden /\ ~FirstOf(v, k)
                /\ u[k].class = v[k].class /\ u[k].proto = v[k].proto
                /\ \A m \in DOMAIN v : ~v[m].hidden /\ SameArgs(v[m].proto, v[k].proto) => ~u[m].hidden
    <2>1. k \in DOMAIN v /\ u[k].class = v[k].class /\ ~v[k].hidden
      BY <1>1, <1>8, <1>17
    <2>2. u[k].proto = v[k].proto /\ ~FirstOf(v, k)
      BY <1>1, <1>6, <1>17, <2>1
    <2>3. \A m \in DOMAIN v : ~v[m].hidden /\ SameArgs(v[m].proto, v[k].proto) => ~u[m].hidden
      BY <1>15, <1>17, <2>1 DEF SameArgs
    <2> QED BY <2>1, <2>2, <2>3
  <1>18. RepeatedLater(u)
    <2> SUFFICES ASSUME NEW k \in DOMAIN u, ~u[k].hidden, ~FirstOf(u, k)
                 PROVE  \E m \in DOMAIN u : m < k /\ ~u[m].hidden /\ SameArgs(u[m].proto, u[k].proto)
      BY DEF RepeatedLater
    <2>1. PICK m \in DOMAIN v : m < k /\ ~v[m].hidden /\ SameArgs(v[m].proto, v[k].proto)
      BY <1>1, <1>17 DEF ClassOK, RepeatedLater
    <2>2. m \in DOMAIN u /\ u[m].proto = v[m].proto
      BY <1>1, <1>6
    <2> QED BY <1>17, <2>1, <2>2
  <1>19. ASSUME NEW x \in Up(sup, c), NEW p, NEW m \in DOMAIN v, Covers(sup, vs, c, v[m], x, p)
         PROVE  \E n \in DOMAIN u : Covers(sup, vs2, c, u[n], x, p)
    <2>1. m \in DOMAIN u /\ u[m].proto = v[m].proto /\ (u[m] = f \/ u[m].class = v[m].class)
      BY <1>1, <1>6, <1>8
    <2>2. CASE u[m] = f
      BY <1>12, <1>19, <2>1, <2>2 DEF Covers
    <2>3. CASE u[m].hidden
      <3>1. SameArgs(v[m].proto, f.proto)
        BY <1>15, <1>19, <2>3 DEF Covers
      <3>2. SameArgs(f.proto, p)
        BY <1>19, <3>1 DEF Covers, SameArgs
      <3> QED BY <1>5, <1>12, <3>2 DEF Covers
    <2>4. CASE ~u[m].hidden /\ u[m].class = v[m].class
      BY <1>19, <2>1, <2>4 DEF Covers
    <2> QED BY <2>1, <2>2, <2>3, <2>4
  <1>20. DeclaredCovered(sup, vs2, c)
    <2> SUFFICES ASSUME NEW x \in Up(sup, c), NEW k \in DOMAIN vs2[x][x], vs2[x][x][k].class = x,
                        NEW p, p = vs2[x][x][k].proto
                 PROVE  \E m \in DOMAIN u : Covers(sup, vs2, c, u[m], x, p)
      BY DEF DeclaredCovered
    <2>1. CASE x = c /\ u[k] = f
      BY <1>12, <2>1 DEF Covers, SameArgs
    <2>2. CASE ~(x = c /\ u[k] = f)
      <3>1. k \in DOMAIN vs[x][x] /\ vs[x][x][k].class = x /\ vs[x][x][k].proto = p
        <4>1. CASE x = c
          BY <1>1, <1>6, <1>8, <2>2, <4>1
        <4>2. CASE x # c
          BY <1>12, <4>2
        <4> QED BY <4>1, <4>2
      <3>2. PICK m \in DOMAIN v : Covers(sup, vs, c, v[m], x, p)
        BY <1>1, <3>1 DEF ClassOK, DeclaredCovered
      <3> QED BY <1>19, <3>2
    <2> QED BY <2>1, <2>2
  <1>21. RepeatedCovered(sup, vs2, c)
    <2> SUFFICES ASSUME NEW k \in DOMAIN u, ~u[k].hidden, ~FirstOf(u, k), u[k].class \in Up(sup, c)
                 PROVE  \E m \in DOMAIN u :
                            /\ Covers(sup, vs2, c, u[m], u[k].class, u[k].proto)
                            /\ u[m].class = u[k].class => m < k
      BY DEF RepeatedCovered
    <2>1. PICK m \in DOMAIN v : /\ Covers(sup, vs, c, v[m], v[k].class, v[k].proto)
                                /\ v[m].class = v[k].class => m < k
      BY <1>1, <1>17 DEF ClassOK, RepeatedCovered
    <2>2. m \in DOMAIN u /\ u[m].proto = v[m].proto /\ ~u[m].hidden
      BY <1>1, <1>6, <1>17, <2>1 DEF Covers
    <2>3. CASE u[m] = f
      <3>1. u[k].class # c
        BY <1>1, <1>17 DEF ClassOK, OwnFirst
      <3> QED BY <1>12, <1>17, <2>1, <2>2, <2>3, <3>1 DEF Covers
    <2>4. CASE u[m].class = v[m].class
      BY <1>17, <2>1, <2>2, <2>4 DEF Covers
    <2> QED BY <1>1, <1>8, <2>2, <2>3, <2>4
  <1> QED BY <1>9, <1>10, <1>11, <1>13, <1>14, <1>16, <1>18, <1>20, <1>21 DEF ClassOK
-----------------------------------------------------------------------------
(* The inductive invariant of OverridesCalled. *)
HierarchyInv ==
    /\ ClassInv
    /\ \A c \in Classes : ClassOK(super, stage, vectors, c)
    /\ \A f \in invisible : f.access = Private

(* What is known of the vectors already, in the form these lemmas use. *)
LEMMA ClassInvFits == ClassInv => Fitting(super, stage, vectors)
  <1> SUFFICES ASSUME ClassInv PROVE Fitting(super, stage, vectors)
    OBVIOUS
  <1>1. super \in Hierarchies
    BY DEF ClassInv, Hierarchies
  <1>2. ASSUME NEW c \in Classes
        PROVE  /\ c \in DOMAIN vectors[c] /\ DOMAIN vectors[c] \subseteq Classes
               /\ \A d \in DOMAIN vectors[c] \ {c} :
                    stage[d] = "completed" /\ SameSlots(vectors[c][d], vectors[d][d])
               /\ super[c] # NoClass =>
                    stage[super[c]] = "completed" /\ DOMAIN vectors[super[c]] \subseteq DOMAIN vectors[c]
    <2>1. super[c] \in Bases(c)
      BY DEF Bases
    <2> QED BY <2>1 DEF ClassInv, VectorsFit, BasesCompleted
  <1> QED BY <1>1, <1>2 DEF Fitting

(* At first only Object has functions. *)
LEMMA InitHierarchyInv == ClassInit => HierarchyInv
  <1> SUFFICES ASSUME ClassInit PROVE HierarchyInv
    OBVIOUS
  <1>1. PICK v \in Natives :
            vectors = [c \in Classes |-> [d \in {c} |-> IF c = Object THEN v ELSE <<>>]]
    BY DEF ClassInit
  <1>2. /\ super = [c \in Classes |-> NoClass] /\ invisible = {}
        /\ stage = [c \in Classes |-> IF c = Object THEN "completed" ELSE "undefined"]
    BY DEF ClassInit
  <1>3. ClassInv
    BY InitClassInv
  <1>4. super \in Hierarchies /\ stage[Object] = "completed"
    BY <1>2, <1>3 DEF ClassInv, Hierarchies, Classes
  <1>5. ASSUME NEW c \in Classes PROVE ClassOK(super, stage, vectors, c)
    <2> DEFINE w == IF c = Object THEN v ELSE <<>>
    <2>1. super[c] = NoClass /\ vectors[c] = [d \in {c} |-> w]
      BY <1>1, <1>2
    <2>2. Up(super, c) = {c}
      BY <1>4, <2>1, UpIs
    <2>3. /\ w \in Seq(Functions) /\ DOMAIN w \subseteq Int
          /\ \A k \in DOMAIN w : w[k].class = c /\ c = Object /\ ~w[k].hidden /\ FirstOf(w, k)
      <3>1. CASE c = Object
        <4>1. /\ v \in Seq(Functions) /\ \A k \in DOMAIN v : v[k].class = Object /\ ~v[k].hidden
              /\ \A j, k \in DOMAIN v : v[j].proto = v[k].proto => j = k
          BY ClassesAssumption
        <4>2. DOMAIN v \subseteq Int
          BY <4>1
        <4> QED BY <3>1, <4>1, <4>2 DEF FirstOf
      <3>2. CASE c # Object
        BY <3>2
      <3> QED BY <3>1, <3>2
    <2> HIDE DEF w
    <2>4. LineOK(super, stage, vectors, c)
      BY <2>1, <2>2 DEF LineOK
    <2>5. FunctionsOK(stage, vectors, c)
      BY <1>4, <2>1, <2>3 DEF FunctionsOK, Declares
    <2>6. OwnFirst(vectors, c)
      BY <2>1, <2>3 DEF OwnFirst
    <2>7. SuperElsewhere(super, vectors, c)
      BY <2>1 DEF SuperElsewhere
    <2>8. NearestFirst(super, vectors, c)
      BY <1>3, <2>1, <2>4, <2>6, <2>7, ClassInvFits, NearestFollows
    <2>9. HiddenReplaced(vectors[c][c]) /\ RepeatedLater(vectors[c][c]) /\ RepeatedCovered(super, vectors, c)
      BY <2>1, <2>3 DEF HiddenReplaced, RepeatedLater, RepeatedCovered
    <2>10. DeclaredCovered(super, vectors, c)
      BY <2>1, <2>2, <2>3 DEF DeclaredCovered, Covers, SameArgs
    <2> QED BY <2>4, <2>5, <2>6, <2>7, <2>8, <2>9, <2>10 DEF ClassOK
  <1> QED BY <1>2, <1>3, <1>5 DEF HierarchyInv

(* A step that changes the class c alone. *)
LEMMA OneClassOK ==
  ASSUME HierarchyInv, ClassInv', NEW c \in Classes,
         Changes(super, stage, vectors, super', stage', vectors', c),
         ClassOK(super', stage', vectors', c),
         \A f \in invisible' : f.access = Private
  PROVE  HierarchyInv'
  <1>1. Fitting(super, stage, vectors)
    BY ClassInvFits DEF HierarchyInv
  <1>2. ASSUME NEW e \in Classes PROVE ClassOK(super', stage', vectors', e)
    <2>1. CASE e = c
      BY <2>1
    <2>2. CASE e # c
      BY <1>1, <2>2, OthersKept DEF HierarchyInv
    <2> QED BY <2>1, <2>2
  <1> QED BY <1>2 DEF HierarchyInv

(* Each step changes one class; for the others OthersKept has the rest. *)
LEMMA NextHierarchyInv == HierarchyInv /\ [ClassNext]_classVars => HierarchyInv'
  <1> SUFFICES ASSUME HierarchyInv, [ClassNext]_classVars PROVE HierarchyInv'
    OBVIOUS
  <1>1. ClassInv /\ ClassInv' /\ \A e \in Classes : ClassOK(super, stage, vectors, e)
    BY NextClassInv DEF HierarchyInv
  <1>2. Fitting(super, stage, vectors)
    BY <1>1, ClassInvFits
  <1>3. Fitting(super', stage', vectors') /\ super' \in Hierarchies
    <2>1. ClassInv' => Fitting(super, stage, vectors)'
      BY ClassInvFits, PTL
    <2> QED BY <1>1, <2>1 DEF Fitting
  <1>4. /\ stage \in [Classes -> Stages] /\ super \in [Classes -> Classes \cup {NoClass}]
        /\ vectors = [c \in Classes |-> vectors[c]]
        /\ \A c \in Classes : c \in DOMAIN vectors[c] /\ DOMAIN vectors[c] \subseteq Classes
    BY <1>1 DEF ClassInv, VectorsFit
  <1>5. ASSUME NEW c \in Classes, NEW s \in Classes, AddSuperClass(c, s) PROVE HierarchyInv'
    <2>1. /\ stage[c] = "undefined" /\ stage[s] = "completed" /\ c # s
          /\ stage' = [stage EXCEPT ![c] = "derived"] /\ super' = [super EXCEPT ![c] = s]
          /\ vectors' = [vectors EXCEPT ![c] =
                [d \in DOMAIN vectors[s] \cup {c} |-> vectors[s][IF d = c THEN s ELSE d]]]
      BY <1>5 DEF AddSuperClass
    <2>2. Changes(super, stage, vectors, super', stage', vectors', c) /\ super'[c] = s
      BY <1>3, <1>4, <2>1 DEF Changes
    <2>3. c \notin DOMAIN vectors[s]
      BY <1>2, <2>1 DEF Fitting
    <2>4. vectors'[c] = [d \in DOMAIN vectors[s] \cup {c} |-> vectors[s][IF d = c THEN s ELSE d]]
      BY <1>4, <2>1
    <2>5. Derives(super, stage, vectors, super', stage', vectors', c, s)
      BY <1>1, <1>2, <1>3, <2>1, <2>2, <2>3, <2>4 DEF Derives, Step
    <2>6. ClassOK(super', stage', vectors', c)
      BY <2>5, SuperClassOK
    <2>7. ASSUME NEW f \in invisible' PROVE f.access = Private
      <3>1. f \in invisible \/ Access(f) = Private
        BY <1>5 DEF AddSuperClass
      <3>2. Access(f) = Private => f.access = Private
        BY DEF Access, Invisible, Private
      <3> QED BY <3>1, <3>2 DEF HierarchyInv
    <2> QED BY <1>1, <2>2, <2>6, <2>7, OneClassOK
  <1>6. ASSUME NEW c \in Classes, NEW i \in Classes, AddImplementClass(c, i) PROVE HierarchyInv'
    <2> DEFINE fs == [d \in DOMAIN vectors[c] \cup DOMAIN vectors[i] |->
                        IF d = c THEN ImplementVirtuals(vectors[c][c], vectors[i][i])
                        ELSE IF d \in DOMAIN vectors[c] THEN vectors[c][d] ELSE vectors[i][d]]
    <2>1. /\ stage[c] = "derived" /\ stage[i] = "completed"
          /\ stage' = stage /\ super' = super /\ invisible' = invisible
          /\ vectors' = [vectors EXCEPT ![c] = fs]
      BY <1>6 DEF AddImplementClass
    <2>2. vectors'[c] = fs /\ \A e \in Classes \ {c} : vectors'[e] = vectors[e]
      BY <1>4, <2>1
    <2>3. Changes(super, stage, vectors, super, stage, vectors', c)
      BY <1>3, <2>1, <2>2 DEF Changes
    <2>4. Implements(super, stage, vectors, vectors', c, i)
      BY <1>1, <1>2, <1>3, <1>4, <2>1, <2>2, <2>3 DEF Implements, Step
    <2>5. ClassOK(super, stage, vectors', c)
      BY <2>4, ImplementClassOK
    <2> QED BY <1>1, <2>1, <2>3, <2>5, OneClassOK DEF HierarchyInv
  <1>7. ASSUME NEW c \in Classes, NEW f \in Functions, OverrideVirtualFunction(c, f) PROVE HierarchyInv'
    <2> DEFINE fs == [d \in DOMAIN vectors[c] |->
                        IF d = c THEN OverrideFunction(vectors[c][d], f) ELSE Overridden(vectors[c][d], f)]
    <2>1. /\ stage[c] # "completed" /\ stage' = [stage EXCEPT ![c] = "body"]
          /\ super' = super /\ invisible' = invisible /\ f.class = c /\ ~f.hidden
          /\ Own(c, f.proto) = {} /\ vectors' = [vectors EXCEPT ![c] = fs]
      BY <1>7 DEF OverrideVirtualFunction
    <2>2. vectors'[c] = fs /\ \A e \in Classes \ {c} : vectors'[e] = vectors[e]
      BY <1>4, <2>1
    <2>3. Changes(super, stage, vectors, super, stage', vectors', c) /\ stage'[c] = "body"
      BY <1>3, <1>4, <2>1, <2>2 DEF Changes
    <2>4. ~Declares(vectors, c, f.proto)
      BY <2>1 DEF Own, Declares
    <2>5. Overrides(super, stage, vectors, stage', vectors', c, f)
      BY <1>1, <1>2, <1>3, <1>4, <2>1, <2>2, <2>3, <2>4 DEF Overrides, Step
    <2>6. ClassOK(super, stage', vectors', c)
      BY <2>5, OverrideClassOK
    <2> QED BY <1>1, <2>1, <2>3, <2>6, OneClassOK DEF HierarchyInv
  <1>8. ASSUME NEW c \in Classes, CompleteClass(c) PROVE HierarchyInv'
    <2>1. /\ stage[c] # "completed" /\ stage' = [stage EXCEPT ![c] = "completed"]
          /\ super' = super /\ vectors' = vectors /\ invisible' = invisible
      BY <1>8 DEF CompleteClass
    <2>2. Changes(super, stage, vectors, super', stage', vectors', c) /\ stage'[c] = "completed"
      BY <1>3, <1>4, <2>1 DEF Changes
    <2>3. ClassOK(super, stage, vectors, c)
      BY <1>1
    <2>4. LineOK(super, stage', vectors, c)
      BY <2>2, <2>3, UpOwn DEF ClassOK, LineOK, Changes
    <2>5. FunctionsOK(stage', vectors, c)
      <3>1. \A b : stage[b] = "completed" => stage'[b] = "completed"
        BY <1>4, <2>1
      <3> QED BY <2>2, <2>3, <3>1 DEF ClassOK, FunctionsOK
    <2>6. ClassOK(super', stage', vectors', c)
      BY <2>1, <2>3, <2>4, <2>5 DEF ClassOK
    <2> QED BY <1>1, <2>1, <2>2, <2>6, OneClassOK DEF HierarchyInv
  <1>9. CASE UNCHANGED classVars
    BY <1>1, <1>9 DEF HierarchyInv, classVars
  <1>10. CASE ClassNext
    BY <1>5, <1>6, <1>7, <1>8, <1>10 DEF ClassNext
  <1> QED BY <1>9, <1>10
-----------------------------------------------------------------------------
(* Line is read off the superclasses. *)
LEMMA LineIsUp == \A c : Line(c) = Up(super, c)
  <1>1. ASSUME NEW c, NEW b \in Line(c) PROVE b \in Up(super, c)
    <2>1. ASSUME NEW S \in SUBSET Classes, c \in S, \A e \in S : super[e] \in S \cup {NoClass}, b \notin S
          PROVE  FALSE
      <3>1. S \in SUBSET (Classes \ {b})
        BY <2>1
      <3> QED BY <2>1, <3>1 DEF Line
    <2> QED BY <2>1 DEF Line, Up
  <1>2. ASSUME NEW c, NEW b \in Up(super, c) PROVE b \in Line(c)
    <2>1. ASSUME NEW S \in SUBSET (Classes \ {b}), c \in S, \A e \in S : super[e] \in S \cup {NoClass}
          PROVE  FALSE
      <3>1. S \in SUBSET Classes /\ b \notin S
        OBVIOUS
      <3> QED BY <2>1, <3>1 DEF Up
    <2> QED BY <2>1 DEF Line, Up
  <1> QED BY <1>1, <1>2

(* What Suitable finds is the first of the seen functions with its arguments, and it finds *)
(* something wherever one with these arguments is seen.                                   *)
LEMMA SuitableIs ==
  ASSUME NEW v \in Seq(Functions), NEW a, NEW cs, NEW scope,
         NEW k, k = Suitable(v, a, cs, scope), k # 0
  PROVE  /\ k \in DOMAIN v /\ v[k].class \in cs /\ Access(v[k]) <= scope
         /\ \A j \in DOMAIN v : Access(v[j]) <= scope /\ v[j].proto.args = v[k].proto.args =>
                /\ v[j].class \in cs => k <= j
                /\ \A ds : v[j].class \in ds => Suitable(v, a, ds, scope) # 0
  <1> DEFINE Seen(ds) == {j \in DOMAIN v : v[j].class \in ds /\ Access(v[j]) <= scope}
             Exact(ds) == {j \in Seen(ds) : v[j].proto.args = a}
             Fit(ds) == {j \in Seen(ds) : v[j].proto.args \in Accepts[a]}
  <1>1. \A ds : Suitable(v, a, ds, scope) =
            IF Exact(ds) # {} THEN First(Exact(ds)) ELSE IF Fit(ds) # {} THEN First(Fit(ds)) ELSE 0
    BY DEF Suitable
  <1>2. DOMAIN v \in SUBSET Nat /\ 0 \notin DOMAIN v
    OBVIOUS
  <1>3. ASSUME NEW T \in SUBSET DOMAIN v, T # {} PROVE First(T) \in T /\ First(T) # 0 /\ \A j \in T : First(T) <= j
    <2>1. T \in SUBSET Nat /\ 0 \notin T
      BY <1>2
    <2> QED BY <1>3, <2>1, FirstIs
  <1>4. \A ds : Exact(ds) \in SUBSET DOMAIN v /\ Fit(ds) \in SUBSET DOMAIN v
    OBVIOUS
  <1>5. \A ds : Exact(ds) # {} \/ Fit(ds) # {} => Suitable(v, a, ds, scope) # 0
    <2> HIDE DEF Exact, Fit
    <2> QED BY <1>1, <1>3, <1>4
  <1>6. \/ k \in Exact(cs) /\ \A j \in Exact(cs) : k <= j
        \/ k \in Fit(cs) /\ \A j \in Fit(cs) : k <= j
    <2> HIDE DEF Exact, Fit
    <2> QED BY <1>1, <1>3, <1>4
  <1>7. k \in Seen(cs) /\ (v[k].proto.args = a \/ v[k].proto.args \in Accepts[a])
    BY <1>6
  <1>8. ASSUME NEW j \in DOMAIN v, Access(v[j]) <= scope, v[j].proto.args = v[k].proto.args
        PROVE  /\ v[j].class \in cs => k <= j
               /\ \A ds : v[j].class \in ds => Suitable(v, a, ds, scope) # 0
    <2>1. ASSUME v[j].class \in cs PROVE k <= j
      BY <1>6, <1>8, <2>1
    <2>2. ASSUME NEW ds, v[j].class \in ds PROVE Exact(ds) # {} \/ Fit(ds) # {}
      <3>1. j \in Exact(ds) \/ j \in Fit(ds)
        BY <1>7, <1>8, <2>2
      <3> QED BY <3>1
    <2> HIDE DEF Exact, Fit
    <2> QED BY <1>5, <2>1, <2>2
  <1> QED BY <1>7, <1>8

(* What is found at compile time is first: in a vector of public functions. *)
LEMMA FoundIsFirst ==
  ASSUME HierarchyInv, NEW d \in Classes, NEW v, v = vectors[d][d], OnlyPublic(v), NEW a,
         NEW k, k = FindCallableFunction(d, v, a, Public), k # 0
  PROVE  k \in DOMAIN v /\ FirstOf(v, k)
  <1>1. /\ ClassInv /\ Fitting(super, stage, vectors) /\ ClassOK(super, stage, vectors, d)
        /\ super \in Hierarchies /\ d \in DOMAIN vectors[d]
    BY ClassInvFits DEF HierarchyInv, Fitting
  <1>2. v \in Seq(Functions)
    BY <1>1 DEF ClassOK, FunctionsOK
  <1>3. \A j \in DOMAIN v : ~v[j].hidden => Access(v[j]) <= Public
    <2>1. \A j \in DOMAIN v : v[j].access = Public /\ v[j] \notin invisible
      BY DEF OnlyPublic, HierarchyInv, Public, Private
    <2> QED BY <2>1 DEF Access, Public
  <1>4. \A j \in DOMAIN v : Access(v[j]) <= Public => ~v[j].hidden
    BY DEF Access, Public, Invisible
  <1>5. \A j \in DOMAIN v : v[j].class \in Classes
    <2>1. \A j \in DOMAIN v : v[j] \in Functions
      BY <1>2
    <2> QED BY <2>1 DEF Functions
  <1> DEFINE having == {b \in Line(d) : Suitable(v, a, {b}, Public) # 0}
             cs == IF having = {} THEN Classes ELSE {Nearest(having)}
  <1>6. k = Suitable(v, a, cs, Public)
    BY DEF FindCallableFunction
  <1> HIDE DEF cs
  <1>7. /\ k \in DOMAIN v /\ v[k].class \in cs /\ Access(v[k]) <= Public
        /\ \A j \in DOMAIN v : ~v[j].hidden /\ SameArgs(v[j].proto, v[k].proto) =>
                /\ v[j].class \in cs => k <= j
                /\ \A ds : v[j].class \in ds => Suitable(v, a, ds, Public) # 0
    BY <1>2, <1>3, <1>6, SuitableIs DEF SameArgs
  <1>8. ~v[k].hidden
    BY <1>4, <1>7
  <1>9. CASE having = {}
    <2>1. ASSUME ~FirstOf(v, k) PROVE FALSE
      <3>1. PICK m \in DOMAIN v : m < k /\ ~v[m].hidden /\ SameArgs(v[m].proto, v[k].proto)
        BY <1>1, <1>7, <1>8, <2>1 DEF ClassOK, RepeatedLater
      <3>2. k <= m
        BY <1>5, <1>7, <1>9, <3>1 DEF cs
      <3>3. m \in Int /\ k \in Int
        BY <1>2, <1>7
      <3> QED BY <3>1, <3>2, <3>3
    <2> QED BY <1>7, <2>1
  <1>10. CASE having # {}
    <2> SUFFICES ASSUME NEW n, n = Nearest(having), ~FirstOf(v, k) PROVE FALSE
      BY <1>7
    <2>1. having \subseteq Up(super, d) /\ \A b : Line(b) = Up(super, b)
      BY LineIsUp
    <2>2. n \in having /\ \A e \in having : e \in Up(super, n)
      <3>1. \E b \in having : \A e \in having : e \in Line(b)
        BY <1>1, <1>10, <2>1 DEF ClassOK, LineOK
      <3> HIDE DEF having
      <3> QED BY <2>1, <3>1 DEF Nearest
    <2>3. v[k].class = n /\ n \in Up(super, d) /\ cs = {n}
      BY <1>7, <1>10, <2>1, <2>2 DEF cs
    <2>4. PICK m \in DOMAIN v : /\ Covers(super, vectors, d, v[m], n, v[k].proto)
                                /\ v[m].class = n => m < k
      <3>1. RepeatedCovered(super, vectors, d) /\ k \in DOMAIN v
        BY <1>1, <1>7 DEF ClassOK
      <3>2. ~vectors[d][d][k].hidden /\ ~FirstOf(vectors[d][d], k) /\ vectors[d][d][k].class = n
        BY <1>8, <2>3
      <3> HIDE DEF having
      <3> QED BY <2>3, <3>1, <3>2 DEF RepeatedCovered
    <2> DEFINE b == v[m].class
    <2>5. ~v[m].hidden /\ SameArgs(v[m].proto, v[k].proto) /\ b \in Up(super, d) /\ n \in Up(super, b)
      BY <2>4 DEF Covers
    <2>6. b \in having
      BY <1>7, <2>1, <2>5
    <2>7. n \in Classes /\ LineOK(super, stage, vectors, n)
      BY <1>1, <2>3, UpOwn DEF HierarchyInv, ClassOK
    <2>8. b = n
      BY <2>2, <2>5, <2>6, <2>7 DEF LineOK
    <2>9. m < k /\ k <= m
      BY <1>7, <2>3, <2>4, <2>5, <2>8
    <2>10. m \in Int /\ k \in Int
      BY <1>2, <1>7
    <2> QED BY <2>9, <2>10
  <1> QED BY <1>9, <1>10

(* A call finds the first function of its prototype, and there stands the nearest one. *)
LEMMA HierarchyCalls == HierarchyInv => OverridesCalled
  <1> DEFINE Reached(c, d, k, p, R) ==
                /\ (d \in Line(c) /\ R # {}) => vectors[c][d][k].class = Nearest(R)
                /\ Own(c, p) # {} => vectors[c][d][k].class = c
  <1> SUFFICES ASSUME HierarchyInv, NEW c \in Classes, NEW a \in Args, NEW d \in DOMAIN vectors[c],
                      OnlyPublic(vectors[d][d]),
                      NEW k, k = FindCallableFunction(d, vectors[d][d], a, Public), k # 0,
                      NEW p, p = vectors[d][d][k].proto,
                      NEW R, R = {b \in Line(c) : d \in Line(b) /\ Own(b, p) # {}}
               PROVE  Reached(c, d, k, p, R)
    <2> SUFFICES ASSUME HierarchyInv, NEW c \in Classes, NEW a \in Args, stage[c] = "completed",
                        NEW d \in DOMAIN vectors[c], OnlyPublic(vectors[d][d])
                 PROVE  LET k == FindCallableFunction(d, vectors[d][d], a, Public)
                            p == vectors[d][d][k].proto
                            declaring == {b \in Line(c) : d \in Line(b) /\ Own(b, p) # {}}
                        IN  k # 0 => Reached(c, d, k, p, declaring)
      BY DEF OverridesCalled
    <2> HIDE DEF Reached
    <2> QED OBVIOUS
  <1>1. /\ ClassInv /\ Fitting(super, stage, vectors) /\ ClassOK(super, stage, vectors, c)
        /\ super \in Hierarchies /\ d \in Classes
    BY ClassInvFits DEF HierarchyInv, Fitting
  <1>2. k \in DOMAIN vectors[d][d] /\ FirstOf(vectors[d][d], k)
    BY <1>1, FoundIsFirst
  <1>3. \A b : (Own(b, p) # {}) <=> Declares(vectors, b, p)
    BY DEF Own, Declares
  <1>4. ASSUME Own(c, p) # {} PROVE vectors[c][d][k].class = c
    <2>1. SameSlots(vectors[c][d], vectors[d][d])
      BY <1>1 DEF Fitting, SameSlots
    <2>2. k \in DOMAIN vectors[c][d] /\ vectors[c][d][k].proto = p /\ FirstOf(vectors[c][d], k)
      BY <1>2, <2>1 DEF SameSlots, FirstOf
    <2> QED BY <1>1, <1>3, <1>4, <2>2 DEF ClassOK, OwnFirst
  <1>5. ASSUME d \in Line(c), R # {} PROVE vectors[c][d][k].class = Nearest(R)
    <2>1. \A b : Line(b) = Up(super, b)
      BY LineIsUp
    <2>2. R = Declaring(super, vectors, c, d, p)
      BY <1>3, <2>1 DEF Declaring
    <2> SUFFICES ASSUME NEW x, x = vectors[c][d][k].class PROVE x = Nearest(R)
      OBVIOUS
    <2>3. x \in R /\ \A b \in R : b \in Line(x)
      BY <1>1, <1>2, <1>5, <2>1, <2>2 DEF ClassOK, NearestFirst
    <2> SUFFICES ASSUME NEW n, n = Nearest(R) PROVE x = n
      OBVIOUS
    <2>4. n \in R /\ \A b \in R : b \in Line(n)
      <3>1. \E y \in R : \A b \in R : b \in Line(y)
        BY <2>3
      <3> QED BY <3>1 DEF Nearest
    <2>5. n \in Classes /\ LineOK(super, stage, vectors, n)
      <3>1. n \in Line(c)
        BY <2>4
      <3> QED BY <1>1, <2>1, <3>1, UpOwn DEF HierarchyInv, ClassOK
    <2> QED BY <2>1, <2>3, <2>4, <2>5 DEF LineOK
  <1> QED BY <1>4, <1>5

(* Overriding works through every reference to a class whose functions are public, for      *)
(* every program: the call of a virtual function reaches the nearest class, from that of   *)
(* the object upwards, that declares the prototype it was compiled for.                   *)
THEOREM OverridesAreCalled == ClassSpec => []OverridesCalled
  <1> QED BY InitHierarchyInv, NextHierarchyInv, HierarchyCalls, PTL DEF ClassSpec
=============================================================================
