------------------------------ MODULE Classes ------------------------------
(***************************************************************************)
(* Classes of scripts and their virtual functions.  A class has a vector of    *)
(* functions for the references of its own type, and one for each class it is  *)
(* derived from; a virtual call is compiled to the type of the reference and   *)
(* an index into its vector.                                                 *)
(*                                                                         *)
(* The functions are those of one name: functions of different names never     *)
(* meet, they only share the numbers of the vector.  Function bodies are        *)
(* compiled when the source file has been read (ParseDelayFuncImplement), so   *)
(* that a call is compiled in the state that all its classes have left.         *)
(***************************************************************************)
EXTENDS Integers, Sequences, SequencesExt

CONSTANTS Object,       \* the class Object
          Source,       \* the classes of a program, in the order of its source
          NoClass,      \* nullptr
          Args,         \* lists of argument types
          Accepts,      \* the argument lists that each of them may be converted to
          Protos,       \* prototypes: arguments, type of the result, const or not
          Destructor,   \* the prototype of finalize()
          Accesses,     \* the modifiers that scripts use
          Natives,      \* the functions of this name that Object may have
          MaxBases,     \* bound: the classes one class implements
          MaxFunctions  \* bound: the functions of this name in one class

Classes == {Object} \cup {Source[j] : j \in DOMAIN Source}

(* LType::AccessModifier *)
Public == 1
Protected == 2
Private == 3
Invisible == 4

(* An LFunctionObj; "hidden" marks the copy that OverrideFunction makes invisible. *)
Functions == [class : Classes, proto : Protos, access : Accesses, hidden : BOOLEAN]

ASSUME ClassesAssumption ==
    /\ Source \in Seq(Classes \ {Object}) /\ NoClass \notin Classes
    /\ Accesses \subseteq Public .. Private
    /\ Accepts \in [Args -> SUBSET Args]
    /\ \A p \in Protos : p.args \in Args /\ p.const \in BOOLEAN
    /\ Destructor \in Protos
    /\ \A v \in Natives :
        /\ v \in Seq(Functions)
        /\ \A k \in DOMAIN v : v[k].class = Object /\ ~v[k].hidden
        /\ \A j, k \in DOMAIN v : v[j].proto = v[k].proto => j = k

VARIABLES
    super,       \* m_pSuperClass
    implements,  \* m_vecImplements
    stage,       \* how far the compiler is with a class; the last one is m_flagCompleted
    vectors,     \* m_vfvVirtualFuncs at the class itself, m_mapVirtualFuncs elsewhere
    invisible,   \* the functions whose prototype MakePrivateInvisible has changed
    finalizer    \* m_pFuncFinalize

classVars == <<super, implements, stage, vectors, invisible, finalizer>>

NoFunction == <<>>

ClassInit ==
    /\ super = [c \in Classes |-> NoClass]
    /\ implements = [c \in Classes |-> <<>>]
    /\ stage = [c \in Classes |-> IF c = Object THEN "completed" ELSE "undefined"]
    /\ \E v \in Natives :
        vectors = [c \in Classes |-> [d \in {c} |-> IF c = Object THEN v ELSE <<>>]]
    /\ invisible = {}
    /\ finalizer = [c \in Classes |-> NoFunction]

-----------------------------------------------------------------------------
First(S) == CHOOSE k \in S : \A j \in S : k <= j

Access(f) == IF f.hidden \/ f \in invisible THEN Invisible ELSE f.access

(* LVirtualFuncVector::FindFunction: 0 when there is none. *)
FindFunction(v, args, scope) ==
    LET found == {k \in DOMAIN v : Access(v[k]) <= scope /\ v[k].proto.args = args}
    IN  IF found = {} THEN 0 ELSE First(found)

SamePrototype(v, p) == {k \in DOMAIN v : v[k].proto = p}
SameArguments(v, p) == {k \in DOMAIN v : v[k].proto.args = p.args /\ v[k].proto.const = p.const}

Hidden(f) == [class |-> f.class, proto |-> f.proto, access |-> f.access, hidden |-> TRUE]

(* OverrideFunction( f, mustBeOverride = true ): in the vector of another class. *)
Overridden(v, f) ==
    LET same == SamePrototype(v, f.proto)
    IN  [k \in DOMAIN v |->
            IF k \in same /\ \A j \in same : k <= j THEN f
            ELSE IF same = {} /\ k \in SameArguments(v, f.proto) THEN Hidden(v[k])
            ELSE v[k]]

(* OverrideFunction( f, mustBeOverride = false ) *)
OverrideFunction(v, f) ==
    IF SamePrototype(v, f.proto) # {} THEN Overridden(v, f) ELSE Append(Overridden(v, f), f)

-----------------------------------------------------------------------------
(* class c extends s: AddSuperClass.  The vectors of c share the functions of s. *)
AddSuperClass(c, s) ==
    /\ \E j \in DOMAIN Source :
        /\ c = Source[j]
        /\ \A n \in 1 .. j - 1 : stage[Source[n]] = "completed"
    /\ stage[c] = "undefined"
    /\ stage[s] = "completed"
    /\ stage' = [stage EXCEPT ![c] = "derived"]
    /\ super' = [super EXCEPT ![c] = s]
    /\ vectors' = [vectors EXCEPT ![c] =
            [d \in DOMAIN vectors[s] \cup {c} |-> vectors[s][IF d = c THEN s ELSE d]]]
    /\ invisible' = invisible \cup
            UNION {{f \in {v[k] : k \in DOMAIN v} : Access(f) = Private} :
                        v \in {vectors[s][d] : d \in DOMAIN vectors[s]}}
    /\ UNCHANGED <<implements, finalizer>>

AddMissing(v, f) ==
    LET k == FindFunction(v, f.proto.args, Public)
    IN  IF k # 0 /\ v[k].proto = f.proto THEN v ELSE Append(v, f)

(* The functions of an implemented class that v has not are added to it. *)
ImplementVirtuals(v, functions) ==
    LET added[n \in 0 .. Len(functions)] ==
            IF n = 0 THEN v ELSE AddMissing(added[n - 1], functions[n])
    IN  added[Len(functions)]

(* implements i: AddImplementClass *)
AddImplementClass(c, i) ==
    /\ stage[c] = "derived"
    /\ Len(implements[c]) < MaxBases
    /\ stage[i] = "completed"
    /\ implements' = [implements EXCEPT ![c] = Append(@, i)]
    /\ vectors' = [vectors EXCEPT ![c] =
            [d \in DOMAIN @ \cup DOMAIN vectors[i] |->
                IF d = c THEN ImplementVirtuals(@[c], vectors[i][i])
                ELSE IF d \in DOMAIN @ THEN @[d] ELSE vectors[i][d]]]
    /\ UNCHANGED <<super, stage, invisible, finalizer>>

Own(c, p) == {k \in DOMAIN vectors[c][c] : vectors[c][c][k].class = c /\ vectors[c][c][k].proto = p}

(* Mutant: the other vectors are not told to override only. *)
OverrideOrAddFunction(c, f) ==
    /\ stage[c] \in {"derived", "body"}
    /\ f.class = c /\ ~f.hidden
    /\ Own(c, f.proto) = {}
    /\ stage' = [stage EXCEPT ![c] = "body"]
    /\ vectors' = [vectors EXCEPT ![c] = [d \in DOMAIN @ |-> OverrideFunction(@[d], f)]]
    /\ UNCHANGED <<super, implements, invisible, finalizer>>

(* Mutant: the vectors for other classes keep the overridden function. *)
OverrideOwnVector(c, f) ==
    /\ stage[c] \in {"derived", "body"}
    /\ f.class = c /\ ~f.hidden
    /\ Own(c, f.proto) = {}
    /\ stage' = [stage EXCEPT ![c] = "body"]
    /\ vectors' = [vectors EXCEPT ![c][c] = OverrideFunction(@, f)]
    /\ UNCHANGED <<super, implements, invisible, finalizer>>

(* A function in the body of c: ParseMemberFunction, OverrideVirtualFunction. *)
OverrideVirtualFunction(c, f) ==
    /\ stage[c] \in {"derived", "body"}
    /\ f.class = c /\ ~f.hidden
    /\ Own(c, f.proto) = {}
    /\ stage' = [stage EXCEPT ![c] = "body"]
    /\ vectors' = [vectors EXCEPT ![c] =
            [d \in DOMAIN @ |->
                IF d = c THEN OverrideFunction(@[d], f) ELSE Overridden(@[d], f)]]
    /\ UNCHANGED <<super, implements, invisible, finalizer>>

CompleteClass(c) ==
    /\ stage[c] \in {"derived", "body"}
    /\ stage' = [stage EXCEPT ![c] = "completed"]
    /\ LET k == FindFunction(vectors[c][c], Destructor.args, Private)
       IN  finalizer' = [finalizer EXCEPT ![c] =
                IF k # 0 THEN vectors[c][c][k] ELSE NoFunction]
    /\ UNCHANGED <<super, implements, vectors, invisible>>

MayDefine(c) == Cardinality({k \in DOMAIN vectors[c][c] : vectors[c][c][k].class = c}) < MaxFunctions

ClassNext == \E c \in Classes :
    \/ \E s \in Classes : AddSuperClass(c, s)
    \/ \E i \in Classes : AddImplementClass(c, i)
    \/ MayDefine(c) /\ \E f \in Functions : OverrideVirtualFunction(c, f)
    \/ CompleteClass(c)

ClassSpec == ClassInit /\ [][ClassNext]_classVars

-----------------------------------------------------------------------------
(* FindCallableFunction among the functions of the classes in cs: one with the very  *)
(* arguments, otherwise the first one they can be converted to.                     *)
Suitable(v, args, cs, scope) ==
    LET seen == {k \in DOMAIN v : v[k].class \in cs /\ Access(v[k]) <= scope}
        exact == {k \in seen : v[k].proto.args = args}
        fit == {k \in seen : v[k].proto.args \in Accepts[args]}
    IN  IF exact # {} THEN First(exact) ELSE IF fit # {} THEN First(fit) ELSE 0

(* The classes from c up to Object: those that no set of classes leaves out which has c *)
(* and with a class its superclass.                                                    *)
Line(c) == {b \in Classes : \A S \in SUBSET (Classes \ {b}) :
                c \in S => \E e \in S : super[e] \notin S \cup {NoClass}}

Nearest(cs) == CHOOSE b \in cs : \A d \in cs : d \in Line(b)

(* FindCallableFunction: in the class c, then in its superclasses; behind Object any   *)
(* function will do, so that the search of the implemented classes, which comes        *)
(* last, finds nothing more.                                                          *)
FindCallableFunction(c, v, args, scope) ==
    LET having == {b \in Line(c) : Suitable(v, args, {b}, scope) # 0}
    IN  Suitable(v, args, IF having = {} THEN Classes ELSE {Nearest(having)}, scope)

-----------------------------------------------------------------------------
SameSlots(v, w) == DOMAIN v = DOMAIN w /\ \A k \in DOMAIN w : v[k].proto = w[k].proto

(* A virtual call that was compiled for class d finds, in every object that is an      *)
(* instance of d, a vector for d whose functions have, one by one, the prototypes     *)
(* the call was compiled for.                                                        *)
Bases(c) == {super[c]} \cup {implements[c][j] : j \in DOMAIN implements[c]}
VectorsFit == \A c \in Classes :
    /\ c \in DOMAIN vectors[c]
    /\ \A b \in Bases(c) \ {NoClass} : DOMAIN vectors[b] \subseteq DOMAIN vectors[c]
    /\ \A d \in DOMAIN vectors[c] \ {c} :
        stage[d] = "completed" /\ SameSlots(vectors[c][d], vectors[d][d])

(* Overriding works through every reference: a call through a superclass reaches the    *)
(* nearest class, from that of the object upwards, that declares a function of the       *)
(* prototype found at compile time; one through any class reaches the object's own.      *)
(* Only where the functions of the reference's class are public: ImplementVirtuals does   *)
(* not see one that a private or protected one overrides, and adds it again.             *)
OnlyPublic(v) == \A k \in DOMAIN v : v[k].access = Public
OverridesCalled == \A c \in Classes, a \in Args : stage[c] = "completed" =>
    \A d \in DOMAIN vectors[c] : OnlyPublic(vectors[d][d]) =>
        LET k == FindCallableFunction(d, vectors[d][d], a, Public)
            p == vectors[d][d][k].proto
            declaring == {b \in Line(c) : d \in Line(b) /\ Own(b, p) # {}}
        IN  k # 0 =>
            /\ (d \in Line(c) /\ declaring # {}) => vectors[c][d][k].class = Nearest(declaring)
            /\ Own(c, p) # {} => vectors[c][d][k].class = c

=============================================================================
