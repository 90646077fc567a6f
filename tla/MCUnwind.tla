------------------------------ MODULE MCUnwind ------------------------------
(***************************************************************************)
(* Programs for Unwind: every way to put one statement into another, to    *)
(* the depth the names of the programs have, around every way to leave.    *)
(* A name is the sequence of the nests from the outside, then the          *)
(* statement inside.                                                       *)
(***************************************************************************)
EXTENDS Compiled

Do == [k |-> "expression"]
Object == [k |-> "object"]
Number == [k |-> "number"]
Leave(k) == [k |-> k]
Loop1(k, body) == [k |-> k, body |-> body]
For(body) == Loop1("for", body)
If(body, otherwise) == [k |-> "if", body |-> body, otherwise |-> otherwise]
Switch(body) == [k |-> "switch", body |-> body]
Case(value) == [k |-> "case", value |-> value]
LabelAt(name) == [k |-> "label", name |-> name]
GoTo(name) == [k |-> "goto", name |-> name]
Call2 == [k |-> "call", func |-> 2]
Try(body, catches, last) ==
    [k |-> "try", body |-> body, catches |-> catches, finally |-> last]
Catch(type, body) == [type |-> type, body |-> body]

(* A nest of the given kind around the statements. *)
Around(kind, ss) ==
    CASE kind = "block" -> [k |-> "block", body |-> ss]
      [] kind \in {"for", "for each", "while", "do"} -> Loop1(kind, ss)
      [] kind = "forever" -> Loop1(kind, <<If(ss, <<Leave("break")>>)>>)
      [] kind = "if" -> If(ss, <<>>)
      [] kind = "else" -> If(<<Do>>, ss)
      [] kind = "with" -> [k |-> "with", body |-> ss]
      [] kind = "switch" ->
            Switch(<<Case("x"), [k |-> "block", body |-> ss], Leave("break"),
                     Leave("default"), Do, Leave("break"), Case("y"), Do>>)
      [] kind = "case" ->
            Switch(<<Case("x"), Do, Leave("break"),
                     Case("y"), [k |-> "block", body |-> ss]>>)
      [] kind = "synchronized" -> [k |-> "synchronized", body |-> ss]
      [] kind = "try-catch" -> Try(ss, <<Catch("A", <<Do>>), Catch("any", <<>>)>>, <<>>)
      [] kind = "try-finally" -> Try(ss, <<>>, <<Do>>)
      [] kind = "try-catch-finally" -> Try(ss, <<Catch("A", <<Do>>)>>, <<Do>>)
      [] kind = "catch" -> Try(<<Do>>, <<Catch("any", ss)>>, <<>>)
      [] kind = "catch-finally" -> Try(<<Do>>, <<Catch("B", <<>>), Catch("A", ss)>>, <<Do>>)
      [] kind = "finally" -> Try(<<Do>>, <<>>, ss)
      [] kind = "catch-then-finally" -> Try(<<Do>>, <<Catch("A", <<>>)>>, ss)

Nestings == <<"block", "for", "synchronized", "try-catch", "try-finally",
             "try-catch-finally", "catch", "catch-finally", "finally",
             "catch-then-finally", "call">>
Handling == <<"try-finally", "catch", "finally", "synchronized">>
Turning == <<"while", "do", "forever", "for each", "if", "else", "switch", "case", "with">>
Exits == <<"expression", "throw", "return", "break", "continue", "out", "again">>

InFinally == {"finally", "catch-then-finally"}
InHandler == InFinally \cup {"catch", "catch-finally"}

(* The statements of the name from its i-th kind on, up to a call. *)
RECURSIVE Build(_, _)
Build(name, i) ==
    IF i = Len(name)
    THEN CASE name[i] = "out" -> <<GoTo("out")>>
           [] name[i] = "again" -> <<If(<<GoTo("again")>>, <<>>)>>
           [] OTHER -> <<Leave(name[i])>>
    ELSE IF name[i] = "call" THEN <<Number, Call2>>
    ELSE <<Object, Around(name[i], Build(name, i + 1)), Do>>

Calls(name) == {i \in DOMAIN name : name[i] = "call"}

(* A loop around the statements, a label in it and one behind it. *)
Labelled(ss) == <<For(<<Number, LabelAt("again")>> \o ss), LabelAt("out"), Do>>

Program(name) ==
    <<Labelled(Build(name, 1))>>
    \o IF Calls(name) = {} THEN <<>>
       ELSE <<<<Number>> \o Labelled(Build(name, 1 + CHOOSE i \in Calls(name) : TRUE))>>

(* The nests of the exit in its own function. *)
Own(name) ==
    IF Calls(name) = {} THEN name
    ELSE SubSeq(name, 1 + CHOOSE i \in Calls(name) : TRUE, Len(name))

(* The names with a nest of each of these kinds, outside first. *)
RECURSIVE Nests(_)
Nests(kinds) ==
    IF kinds = <<>> THEN <<<<>>>>
    ELSE FlattenSeq([i \in DOMAIN Head(kinds) |->
            LET rest == Nests(Tail(kinds))
            IN [j \in DOMAIN rest |-> <<Head(kinds)[i]>> \o rest[j]]])

Names(kinds) == Nests(Append(kinds, Exits))

(* The exits that leave every nest of the function up to the i-th, a loop  *)
(* stops a break and a continue, a switch a break.                         *)
Jumps(name, i) ==
    LET exit == name[Len(name)]
        Inside(kinds) == \E h \in DOMAIN Own(name) : h > i /\ Own(name)[h] \in kinds
        loops == {"for", "for each", "while", "do", "forever"}
    IN \/ exit \in {"out", "again"}
       \/ exit = "continue" /\ ~ Inside(loops)
       \/ exit = "break" /\ ~ Inside(loops \cup {"switch", "case"})

(* A return out of a finally block, with words of its own on the stack. *)
ReturnsFromFinally(name) ==
    /\ name[Len(name)] = "return"
    /\ \E i \in DOMAIN Own(name) : Own(name)[i] \in InFinally

(* A jump out of a catch or finally block inside a finally block. *)
LeavesTwoHandlers(name) ==
    \E i, j \in DOMAIN Own(name) :
        /\ i < j /\ Own(name)[i] \in InFinally /\ Own(name)[j] \in InHandler
        /\ Jumps(name, i)

(* A jump out of a finally block that the catch clauses of its try do not  *)
(* take every exception before.                                            *)
DiscardsRefused(name) ==
    \E i \in DOMAIN Own(name) :
        Own(name)[i] = "catch-then-finally" /\ Jumps(name, i)

Sound(name) ==
    ~ (\/ ReturnsFromFinally(name) \/ LeavesTwoHandlers(name)
       \/ DiscardsRefused(name))

(* Every nest, every pair of nests that open handlers, those with the      *)
(* loops and branches around and inside them, and the triples of those     *)
(* that meet in a descriptor.  A function is called once at most.          *)
AllNames ==
    SelectSeq(Names(<<Nestings>>) \o Names(<<Turning>>)
                \o Names(<<Nestings, Nestings>>) \o Names(<<Turning, Turning>>)
                \o Names(<<Turning, Handling>>) \o Names(<<Handling, Turning>>)
                \o Names(<<Handling, Handling, Handling>>),
              LAMBDA name : Cardinality(Calls(name)) <= 1)
SoundNames == SelectSeq(AllNames, Sound)

SoundSource == LET names == SoundNames IN [i \in DOMAIN names |-> Program(names[i])]

(* Those with a return out of a finally block. *)
FinallyNames == SelectSeq(AllNames, ReturnsFromFinally)
FinallySource == LET names == FinallyNames IN [i \in DOMAIN names |-> Program(names[i])]

(* Two labels of a switch with no break between them, on either side of    *)
(* default.                                                                *)
SwitchSource ==
    <<<<<<Switch(<<Case("x"), Do, Case("y"), Do>>)>>>>,
      <<<<Switch(<<Case("x"), Do, Leave("default"), Do, Case("y"), Do>>)>>>>>>
=============================================================================
