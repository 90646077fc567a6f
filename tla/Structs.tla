------------------------------- MODULE Structs -------------------------------
(***************************************************************************)
(* The layout of structures: LArrangement places the members, LStructureClass  *)
(* puts the bases of a structure one behind the other in front of its own      *)
(* members, and a prototype buffer holds the bytes a new instance starts with.  *)
(* A pointer to a structure is cast to one of its bases by adding the offset    *)
(* that was recorded when the base was added.                                  *)
(*                                                                         *)
(* A structure that has been declared but not completed may be a member too;    *)
(* here members are of completed ones.  Access modifiers do not move anything.   *)
(***************************************************************************)
EXTENDS Integers, Sequences, SequencesExt

CONSTANTS Structures,  \* how many structures the source has
          Members,     \* the names of members
          Widths,      \* the sizes of the primitive types
          Elements,    \* the lengths of array members
          MaxDerived,  \* bound: the bases of one structure
          MaxMembers   \* bound: the members one structure declares

Ids == 1 .. Structures

ASSUME StructsAssumption ==
    /\ Structures \in Nat
    /\ Widths \subseteq Nat \ {0} /\ Elements \subseteq Nat \ {0}

VARIABLES
    defining,  \* the structure that is compiled; those before it are completed
    bases,     \* the bases of each structure, in the order of extends
    declares,  \* the names of its own members
    layout,    \* LArrangement: names, allocated and align
    proto,     \* m_pBuf: for each byte the member whose initial value it holds
    offsets    \* m_mapArrangement

structVars == <<defining, bases, declares, layout, proto, offsets>>

NoMember == <<>>

StructInit ==
    /\ defining = 1
    /\ bases = [s \in Ids |-> <<>>]
    /\ declares = [s \in Ids |-> {}]
    /\ layout = [s \in Ids |-> [names |-> <<>>, allocated |-> 0, align |-> 1]]
    /\ proto = [s \in Ids |-> <<>>]
    /\ offsets = [s \in Ids |-> <<>>]

-----------------------------------------------------------------------------
Larger(m, n) == IF m < n THEN n ELSE m

CalcAlign(location, align) == ((location + align - 1) \div align) * align

GetAlignedBytes(arrange) == CalcAlign(arrange.allocated, arrange.align)

MakeAlignment(arrange, align) == [arrange EXCEPT !.allocated = CalcAlign(@, align)]

(* A type that may be a member: a primitive type or a structure, or an array of it. *)
Types == [width : Widths, elements : Elements] \cup [struct : Ids, elements : Elements]

IsStructure(t) == "struct" \in DOMAIN t

GetAlignBytes(t) == IF IsStructure(t) THEN layout[t.struct].align ELSE t.width
GetDataBytes(t) ==
    t.elements * (IF IsStructure(t) THEN GetAlignedBytes(layout[t.struct]) ELSE t.width)

AddDesc(arrange, name, align, bytes) ==
    LET location == CalcAlign(arrange.allocated, align)
    IN  [names |-> [n \in DOMAIN arrange.names \cup {name} |->
                        IF n = name THEN [location |-> location, size |-> bytes, align |-> align]
                        ELSE arrange.names[n]],
         allocated |-> location + bytes,
         align |-> Larger(arrange.align, align)]

(* LArrangementBuffer::GetBuffer: the buffer grows with the arrangement. *)
GetBuffer(buffer, arrange) ==
    buffer \o [i \in 1 .. GetAlignedBytes(arrange) - Len(buffer) |-> NoMember]

(* LArrangement::MergeFrom: a name that both have becomes the merged one. *)
MergeFrom(arrange, from) ==
    LET base == CalcAlign(arrange.allocated, from.align)
    IN  [names |-> [n \in DOMAIN arrange.names \cup DOMAIN from.names |->
                        IF n \in DOMAIN from.names
                        THEN [from.names[n] EXCEPT !.location = @ + base]
                        ELSE arrange.names[n]],
         allocated |-> base + GetAlignedBytes(from),
         align |-> Larger(arrange.align, from.align)]

-----------------------------------------------------------------------------
(* Mutant: AddImplementClass forgets to align before it records the offset. *)
AddBaseUnaligned(b) ==
    /\ defining \in Ids
    /\ b < defining
    /\ declares[defining] = {}
    /\ Len(bases[defining]) < MaxDerived
    /\ b \notin DOMAIN offsets[defining]
    /\ LET aligned == MakeAlignment(layout[defining], 1)
       IN  /\ offsets' = [offsets EXCEPT ![defining] =
                    [c \in DOMAIN @ \cup {b} |-> IF c = b THEN GetAlignedBytes(aligned) ELSE @[c]]]
           /\ proto' = [proto EXCEPT ![defining] = GetBuffer(@, aligned) \o proto[b]]
           /\ layout' = [layout EXCEPT ![defining] = MergeFrom(@, layout[b])]
    /\ bases' = [bases EXCEPT ![defining] = Append(@, b)]
    /\ UNCHANGED <<defining, declares>>

(* struct ... extends b: LStructureClass::AddSuperClass for the first base,        *)
(* AddImplementClass for the others.  (A structure that names a base twice is left out.) *)
AddBase(b) ==
    /\ defining \in Ids
    /\ b < defining
    /\ declares[defining] = {}
    /\ Len(bases[defining]) < MaxDerived
    /\ b \notin DOMAIN offsets[defining]
    /\ LET aligned == MakeAlignment(layout[defining], layout[b].align)
       IN  /\ offsets' = [offsets EXCEPT ![defining] =
                    [c \in DOMAIN @ \cup {b} |-> IF c = b THEN GetAlignedBytes(aligned) ELSE @[c]]]
           /\ proto' = [proto EXCEPT ![defining] = GetBuffer(@, aligned) \o proto[b]]
           /\ layout' = [layout EXCEPT ![defining] = MergeFrom(@, layout[b])]
    /\ bases' = [bases EXCEPT ![defining] = Append(@, b)]
    /\ UNCHANGED <<defining, declares>>

(* The bytes at a location of a buffer. *)
Bytes(buffer, location, size) == [i \in 1 .. size |-> buffer[location + i]]

Overwrite(buffer, location, bytes) ==
    [i \in DOMAIN buffer |->
        IF i > location /\ i <= location + Len(bytes) THEN bytes[i - location] ELSE buffer[i]]

(* The initial value: a structure brings its own, an array has none. *)
InitialValue(name, t) ==
    IF t.elements > 1 THEN <<>>
    ELSE IF IsStructure(t) THEN Bytes(proto[t.struct], 0, GetDataBytes(t))
    ELSE [i \in 1 .. GetDataBytes(t) |-> <<defining, name, i>>]

(* DefineVariableOnArrangeBuf *)
AddMember(name, t) ==
    /\ defining \in Ids
    /\ name \notin DOMAIN layout[defining].names
    /\ Cardinality(declares[defining]) < MaxMembers
    /\ IsStructure(t) => t.struct < defining
    /\ LET arrange == AddDesc(layout[defining], name, GetAlignBytes(t), GetDataBytes(t))
       IN  /\ layout' = [layout EXCEPT ![defining] = arrange]
           /\ proto' = [proto EXCEPT ![defining] =
                    Overwrite(GetBuffer(@, arrange), arrange.names[name].location, InitialValue(name, t))]
    /\ declares' = [declares EXCEPT ![defining] = @ \cup {name}]
    /\ UNCHANGED <<defining, bases, offsets>>

(* LClass::CompleteClass allocates the buffer of the prototype. *)
CompleteStruct ==
    /\ defining \in Ids
    /\ proto' = [proto EXCEPT ![defining] = GetBuffer(@, layout[defining])]
    /\ defining' = defining + 1
    /\ UNCHANGED <<bases, declares, layout, offsets>>

StructNext ==
    \/ \E b \in Ids : AddBase(b)
    \/ \E name \in Members, t \in Types : AddMember(name, t)
    \/ CompleteStruct

StructSpec == StructInit /\ [][StructNext]_structVars

-----------------------------------------------------------------------------
(* The members of a structure lie inside of it, at the alignment of their types,    *)
(* and no two of them share a byte.                                                *)
MembersApart(s) ==
    LET place(n) == layout[s].names[n]
    IN  /\ \A n \in DOMAIN layout[s].names :
            /\ place(n).location % place(n).align = 0
            /\ layout[s].align % place(n).align = 0
            /\ place(n).location + place(n).size <= GetAlignedBytes(layout[s])
        /\ \A m, n \in DOMAIN layout[s].names : m # n =>
            \/ place(m).location + place(m).size <= place(n).location
            \/ place(n).location + place(n).size <= place(m).location

(* A pointer cast to the j-th base reaches the members of that base, and a new       *)
(* instance holds their initial values there.                                     *)
BaseWhereCast(s, j) ==
    LET b == bases[s][j]
        later == UNION {DOMAIN layout[bases[s][k]].names : k \in j + 1 .. Len(bases[s])}
    IN  /\ \A n \in DOMAIN layout[b].names \ later : layout[s].names[n] =
            [layout[b].names[n] EXCEPT !.location = @ + offsets[s][b]]
        /\ Bytes(proto[s], offsets[s][b], Len(proto[b])) = proto[b]

(* The alignment of the j-th base, or of the one before it, is the largest so far. *)
Regular(s, j) ==
    LET align(k) == layout[bases[s][k]].align
    IN  \E k \in {j, j - 1} \cap DOMAIN bases[s] : \A i \in 1 .. j - 1 : align(i) <= align(k)

RegularTo(s) == \A r \in 1 .. s : \A j \in DOMAIN bases[r] : Regular(r, j)

(* The members of every structure are apart, and the prototype of a completed one has  *)
(* the bytes that CreateInstance copies of it, as its assertion says.                 *)
(* The members of the bases are where a cast finds them, with their initial values,    *)
(* and the prototype has no byte more, as the assertion of MergeFrom says, while the   *)
(* bases of this structure and of those before it are regular, as every first and      *)
(* second one is.  Any other base is placed at the allocated size, but found, and its   *)
(* values copied, at this size rounded up to the alignment of all                     *)
(* (loquaty_class.cpp:3648).                                                        *)
LayoutSound == \A s \in Ids :
    /\ MembersApart(s)
    /\ s < defining => Len(proto[s]) >= GetAlignedBytes(layout[s])
    /\ RegularTo(s) =>
        /\ \A j \in DOMAIN bases[s] : BaseWhereCast(s, j)
        /\ s < defining => Len(proto[s]) = GetAlignedBytes(layout[s])
=============================================================================
