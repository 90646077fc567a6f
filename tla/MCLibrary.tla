----------------------------- MODULE MCLibrary -----------------------------
(***************************************************************************)
(* The parts of the library that share no state, checked side by side: each    *)
(* behaviour runs one of them, and leaves the others in one of their initial    *)
(* states.                                                                   *)
(***************************************************************************)
EXTENDS MCPointers, Maps, Classes, Structs, Calendar, Tasks, MCSentences

CONSTANTS c1, c2, k1, k2, v1, v2,  \* Maps
          A, B, C, none, one, int, double,  \* Classes
          m1, m2,  \* Structs
          t1, t2, d1, d2  \* Tasks

(* Maps that scripts assign. *)
SomeMaps == {<<>>, <<[name |-> k2, value |-> v1]>>,
             <<[name |-> k2, value |-> v1], [name |-> k1, value |-> v2]>>}

(* Classes: no argument may be one (a default argument), and functions differ in the  *)
(* arguments, in the result or in const.                                            *)
ThreeClasses == <<A, B, C>>
DefaultArgument == [a \in Args |-> IF a = none THEN {none, one} ELSE {one}]
Prototype(a, r, c) == [args |-> a, ret |-> r, const |-> c]
Finalize == Prototype(none, int, FALSE)
SomeProtos == {Finalize, Prototype(none, double, FALSE), Prototype(none, int, TRUE),
               Prototype(one, int, FALSE)}
ObjectMayHaveIt ==
    {<<>>, <<[class |-> Object, proto |-> Finalize, access |-> Public, hidden |-> FALSE]>>}

(* One cycle of the calendar. *)
FourHundredYears == 1 .. 400

-----------------------------------------------------------------------------
VARIABLE part

Parts == {"pointers", "maps", "classes", "structs", "calendar", "tasks", "expressions"}

LibraryInit ==
    /\ part \in Parts
    /\ PtrInit /\ MapInit /\ StructInit
    /\ ClassInit /\ (part # "classes" => vectors[Object][Object] = <<>>)
    /\ CalendarInit /\ (part # "calendar" => date.year = 1 /\ date.month = 1)
    /\ TaskInit /\ (part # "tasks" => \A t \in Tasks : context[t] = NewContext("halt"))
    /\ IF part = "expressions" THEN TRUE
       ELSE parity = 0 /\ sentence = [meant |-> Number2, compiled |-> CompileSentence(Number2)]
    /\ ExpressionInit

LibraryNext ==
    /\ UNCHANGED part
    /\ \/ part = "pointers" /\ PtrNext
          /\ UNCHANGED <<mapVars, classVars, structVars, date, taskVars, exprVars>>
       \/ part = "maps" /\ MapNext
          /\ UNCHANGED <<ptrVars, classVars, structVars, date, taskVars, exprVars>>
       \/ part = "classes" /\ ClassNext
          /\ UNCHANGED <<ptrVars, mapVars, structVars, date, taskVars, exprVars>>
       \/ part = "structs" /\ StructNext
          /\ UNCHANGED <<ptrVars, mapVars, classVars, date, taskVars, exprVars>>
       \/ part = "calendar" /\ CalendarNext
          /\ UNCHANGED <<ptrVars, mapVars, classVars, structVars, taskVars, exprVars>>
       \/ part = "tasks" /\ TaskNext
          /\ UNCHANGED <<ptrVars, mapVars, classVars, structVars, date, exprVars>>
       \/ part = "expressions" /\ ExpressionNext
          /\ UNCHANGED <<ptrVars, mapVars, classVars, structVars, date, taskVars>>

libraryVars == <<part, ptrVars, mapVars, classVars, structVars, date, taskVars, exprVars>>

(* The tasks are alike, and so are the pointers, and the names of members. *)
Symmetry == Permutations(Tasks) \cup Permutations(Pointers) \cup Permutations(Members)

LibrarySpec == LibraryInit /\ [][LibraryNext]_libraryVars
=============================================================================
