---------------------------- MODULE MCSentences ----------------------------
(***************************************************************************)
(* The expressions that Expressions compiles: every operator over the plainest  *)
(* operands, and every operator with one such expression as one of its operands. *)
(***************************************************************************)
EXTENDS Expressions

Number2 == Node("number", 2, <<>>)
VarI == Node("variable", "i", <<>>)
VarO == Node("variable", "o", <<>>)
NullObj == Node("null", 0, <<>>)
CallF == Node("call", "f", <<>>)
CallG == Node("call", "g", <<>>)

(* Operators over one, two and three operands. *)
OverOne(op, v, xs) == {Node(op, v, <<x>>) : x \in xs}
OverTwo(op, v, xs, ys) == {Node(op, v, <<x, y>>) : x \in xs, y \in ys}
OverThree(op, v, xs, ys, zs) == {Node(op, v, <<x, y, z>>) : x \in xs, y \in ys, z \in zs}
OnEitherSide(op, v, xs, ys) == OverTwo(op, v, xs, ys) \cup OverTwo(op, v, ys, xs)

(* The expressions of type int, boolean and object with operands from few, one of  *)
(* them from ints, bools or objects.                                             *)
IntsOver(few, ints, bools, objects) == UNION {
    OnEitherSide("add", 0, few, ints), OverOne("negate", 0, ints),
    OverOne("assign", "i", ints), OverOne("addAssign", "i", ints),
    OverOne("call", "f", ints \cup objects), OnEitherSide("call", "f", few, ints),
    OverThree("conditional", 0, ints \cup bools, few, few),
    OverThree("conditional", 0, few, ints, few), OverThree("conditional", 0, few, few, ints),
    OverTwo("sequence", 0, ints \cup bools \cup objects, few),
    OverTwo("sequence", 0, few, ints)}
BoolsOver(few, ints, bools) == UNION {
    OnEitherSide("and", 0, few, ints \cup bools), OnEitherSide("or", 0, few, ints \cup bools)}

(* The first side of ?: has a type, null has none. *)
HasType(e) == e.op # "null" /\ (e.op = "sequence" => e.args[2].op # "null")
ObjectsOver(few, ints, objects) == UNION {
    OverOne("assign", "o", objects), OverOne("call", "g", ints \cup objects),
    OnEitherSide("call", "g", few, objects), OverTwo("sequence", 0, few, objects),
    OverThree("conditional", 0, few, {VarO, CallG}, objects),
    OverThree("conditional", 0, few, {e \in objects : HasType(e)}, {VarO})}

Plainest == {Number2, VarI, CallF}
PlainObjects == {VarO, NullObj, CallG}
Ints1 == {Node("increment", "i", <<>>), Node("incrementPost", "i", <<>>)}
         \cup IntsOver(Plainest, Plainest, {}, PlainObjects)
Bools1 == BoolsOver(Plainest, Plainest, {})
Objects1 == ObjectsOver(Plainest, Plainest, PlainObjects)

OneOfDepthTwo == UNION {
    Plainest, Ints1, Bools1, Objects1,
    IntsOver({VarI, CallF}, Ints1, Bools1, Objects1),
    BoolsOver({VarI, CallF}, Ints1, Bools1),
    ObjectsOver({VarI, CallF}, Ints1, Objects1)}
=============================================================================
