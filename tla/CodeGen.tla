------------------------------ MODULE CodeGen ------------------------------
(***************************************************************************)
(* What LCompiler emits for the statements that open, close and leave a    *)
(* nest: blocks, loops, if, switch, with, try / catch / finally,           *)
(* synchronized, break, continue, goto, return, throw.                     *)
(*                                                                         *)
(* A program is a sequence of functions, a function a sequence of          *)
(* statements, and a statement a record whose field k names its kind.  The *)
(* statement's place in the program, a sequence of numbers, is its name.   *)
(* Expressions are abstracted to one call of a native function that holds  *)
(* a temporary object while it runs.                                       *)
(*                                                                         *)
(* Jumps go to labels, which Resolve turns into positions at the end; the  *)
(* source emits the jump first and moves it when code is inserted before.  *)
(***************************************************************************)
EXTENDS CodeBuffer, Integers, Sequences, SequencesExt

NoLabel == <<>>

-----------------------------------------------------------------------------
(* Instructions: the operation, a number of words, a position in the code  *)
(* and the statement they belong to.                                       *)

Ins(op) == [op |-> op, n |-> 0, to |-> NoLabel, at |-> <<>>]
Words(op, n) == [Ins(op) EXCEPT !.n = n]
Goto(op, to, n) == [Ins(op) EXCEPT !.to = to, !.n = n]
Label(l) == [Ins("Label") EXCEPT !.to = l]

IsLabel(i) == i.op = "Label"

Resolve(items) ==
    LET Position(l) ==
            IF l = NoLabel THEN NoHandler
            ELSE LET i == CHOOSE i \in DOMAIN items : IsLabel(items[i]) /\ items[i].to = l
                 IN 1 + Len(SelectSeq(SubSeq(items, 1, i),
                                      LAMBDA x : ~IsLabel(x)))
        code == SelectSeq(items, LAMBDA x : ~IsLabel(x))
    IN [i \in DOMAIN code |->
            IF code[i].op = "Call" THEN code[i]
            ELSE [code[i] EXCEPT !.to = Position(@)]]

-----------------------------------------------------------------------------
(* Nests: CodeNest, with the used size of its LLocalVarArray and the       *)
(* labels set in it, each with the words the nest has at that place.       *)

Nest(type, words, id) ==
    [type |-> type, words |-> words, id |-> id, labels |-> {}]

(* A loop, with the words at the place continue jumps to. *)
Loop(type, words, again, id) ==
    [Nest(type, words, id) EXCEPT !.labels = {<<"continue", again>>}]

(* Words the nests keep on the stack, above fp. *)
FrameWords(nests) == FoldLeft(LAMBDA n, x : n + x.words, 0, nests)

Grown(nests, words) == [nests EXCEPT ![Len(nests)].words = @ + words]

(* Words a declaration adds to its nest; an object has the word of its     *)
(* release chain behind it.                                                *)
DeclaredWords(s) ==
    CASE s.k = "object" -> 2
      [] s.k = "number" -> 1
      [] OTHER -> 0

Declared(ss) == FoldLeft(LAMBDA n, s : n + DeclaredWords(s), 0, ss)

(* PutLabel: the labels among the statements. *)
LabelsOf(ss) ==
    {<<ss[j].name, Declared(SubSeq(ss, 1, j))>> :
        j \in {j \in DOMAIN ss : ss[j].k = "label"}}

(* Mutant: a frame of one word stays. *)
FreeFromTwo(words) == IF words > 1 THEN <<Words("FreeStack", words)>> ELSE <<>>

(* PopNest frees the frame of the nest. *)
FreeFrame(words) == IF words > 0 THEN <<Words("FreeStack", words)>> ELSE <<>>

-----------------------------------------------------------------------------
(* Leaving nests.                                                          *)

(* The instructions inserted before a jump from the nests to their prefix  *)
(* of length d.  p is the nest the walk is at and l the frame it counts:   *)
(* a step over a catch or a finally also passes its try, but moves l once. *)
RECURSIVE LeaveBlocks(_, _, _, _, _)
LeaveBlocks(nests, p, l, d, free) ==
    LET count == free + nests[l].words IN
    IF p <= d \/ (nests[p].type = "catch" /\ p - 1 = d) THEN <<>>
    ELSE CASE nests[p].type = "try" ->
                <<Ins("CallFinally")>> \o LeaveBlocks(nests, p - 1, l - 1, d, 0)
           [] nests[p].type = "catch" ->
                <<Ins("CallFinally")>> \o LeaveBlocks(nests, p - 2, l - 1, d, 0)
           [] nests[p].type = "finally" ->
                FreeFrame(count) \o <<Ins("LeaveFinally")>>
                    \o LeaveBlocks(nests, p - 2, l - 1, d, 0)
           [] OTHER -> LeaveBlocks(nests, p - 1, l - 1, d, count)

(* A jump from the nests to a label, which stands in the nests dst; tmp    *)
(* words of the expression are still on the stack.                         *)
JumpOut(op, nests, dst, to, tmp) ==
    LET leave == LeaveBlocks(nests, Len(nests), Len(nests), Len(dst), 0)
        words == FrameWords(dst)
    IN IF leave = <<>> THEN <<Goto(op, to, FrameWords(nests) + tmp - words)>>
       ELSE leave \o <<Words("FreeStackLocal", words), Goto(op, to, 0)>>

(* The instructions a return emits for the nests around it. *)
RECURSIVE ReturnBlocks(_, _)
ReturnBlocks(nests, p) ==
    IF p < 1 THEN <<>>
    ELSE CASE nests[p].type = "try" ->
                <<Ins("CallFinally")>> \o ReturnBlocks(nests, p - 1)
           [] nests[p].type = "finally" ->
                <<Ins("LeaveFinally")>> \o ReturnBlocks(nests, p - 2)
           [] OTHER -> ReturnBlocks(nests, p - 1)

LeaveFunction == <<Ins("LeaveFunc"), Ins("Return")>>

(* The innermost nest that passes the test. *)
Innermost(nests, Test(_)) ==
    CHOOSE i \in DOMAIN nests :
        Test(nests[i]) /\ \A j \in DOMAIN nests : j > i => ~ Test(nests[j])

BreakNest(nests) ==
    Innermost(nests, LAMBDA x : x.type \in {"while", "do", "for", "switch"})

(* continue, goto and break with a label: out to the nest of the label. *)
JumpToLabel(nests, name) ==
    LET d == Innermost(nests, LAMBDA x : \E l \in x.labels : l[1] = name)
        label == CHOOSE l \in nests[d].labels : l[1] = name
    IN JumpOut("Jump", nests,
               Append(SubSeq(nests, 1, d - 1), [nests[d] EXCEPT !.words = label[2]]),
               <<nests[d].id, name>>, 0)

-----------------------------------------------------------------------------
(* Statements.                                                             *)

(* The call of a native function with a temporary object on the stack.     *)
(* n is the stack CountStackOnfCodePoint computes for the place of the     *)
(* call, nest the offsets of the exception descriptors around it: no part  *)
(* of the instruction, but what the compiler takes for granted there.      *)
Expression(id, nests) ==
    <<Ins("NewObject"),
      [op |-> "CallNative", n |-> FrameWords(nests) + 2, to |-> NoLabel,
       at |-> id,
       nest |-> {FrameWords(SubSeq(nests, 1, i - 1)) :
                    i \in {j \in DOMAIN nests : nests[j].type = "try"}}],
      Words("FreeStack", 2)>>

Declaration(s, nests) ==
    IF s.k = "number" THEN <<Words("AllocStack", 1)>>
    ELSE <<Words("AllocStack", 2), Words("MakeObjChain", FrameWords(nests) + 1),
           Words("StoreLocal", FrameWords(nests))>>

(* A condition and the jump that depends on it. *)
Condition(op, nests, dst, to, id) ==
    [JumpOut(op, nests, dst, to, 0) EXCEPT ![1].at = id]

(* Gen emits a statement, StatementList the statements of a nest, Block    *)
(* those in braces, a nest of its own.                                     *)
RECURSIVE Gen(_, _, _), StatementList(_, _, _, _)

StatementList(ss, id, nests, nest) ==
    FlattenSeq([i \in DOMAIN ss |->
        Gen(ss[i], Append(id, i),
            Append(nests, [nest EXCEPT !.words = @ + Declared(SubSeq(ss, 1, i - 1)),
                                       !.labels = @ \cup LabelsOf(ss)]))])

Block(ss, id, nests) ==
    StatementList(ss, id, nests, Nest("list", 0, id)) \o FreeFrame(Declared(ss))

(* for ( number ; condition ; ) { body } *)
GenFor(s, id, nests) ==
    LET inside == Append(nests, Loop("for", 1, 1, id)) IN
    <<Words("AllocStack", 1), Label(<<id, "condition">>)>>
    \o Condition("JumpNonConditional", inside, nests, <<id, "break">>, id)
    \o JumpOut("Jump", inside, inside, <<id, "in">>, 0)
    \o <<Label(<<id, "continue">>)>>
    \o JumpOut("Jump", inside, inside, <<id, "condition">>, 0)
    \o <<Label(<<id, "in">>)>>
    \o Block(s.body, Append(id, 1), inside)
    \o JumpOut("Jump", inside, inside, <<id, "continue">>, 0)
    \o FreeFrame(1)
    \o <<Label(<<id, "break">>)>>

(* for ( element : object ) { body }: the object, @for.i and the element,  *)
(* an object that is loaded in every turn.                                 *)
GenForEach(s, id, nests) ==
    LET inside == Append(nests, Loop("for", 5, 5, id))
        element == FrameWords(nests) + 3
    IN <<Ins("NewObject"), Words("AllocStack", 1),
         Words("AllocStack", 2), Words("MakeObjChain", element + 1)>>
       \o JumpOut("Jump", inside, inside, <<id, "condition">>, 0)
       \o <<Label(<<id, "continue">>), Label(<<id, "condition">>)>>
       \o Condition("JumpNonConditional", inside, nests, <<id, "break">>, id)
       \o <<Words("StoreLocal", element)>>
       \o Block(s.body, Append(id, 1), inside)
       \o JumpOut("Jump", inside, inside, <<id, "continue">>, 0)
       \o FreeFrame(5)
       \o <<Label(<<id, "break">>)>>

GenForever(s, id, nests) ==
    LET inside == Append(nests, Loop("for", 0, 0, id)) IN
    <<Label(<<id, "continue">>)>>
    \o Block(s.body, Append(id, 1), inside)
    \o JumpOut("Jump", inside, inside, <<id, "continue">>, 0)
    \o <<Label(<<id, "break">>)>>

GenWhile(s, id, nests) ==
    LET inside == Append(nests, Loop("while", 0, 0, id)) IN
    <<Label(<<id, "continue">>)>>
    \o Condition("JumpNonConditional", inside, nests, <<id, "break">>, id)
    \o Block(s.body, Append(id, 1), inside)
    \o JumpOut("Jump", inside, inside, <<id, "continue">>, 0)
    \o <<Label(<<id, "break">>)>>

(* Mutant: turning again keeps the variables of the body. *)
TurnAgainKeeping(id, nests, words) ==
    LET nest == Loop("do", words, words, id)
    IN Condition("JumpConditional", Append(nests, nest), Append(nests, nest),
                 <<id, "top">>, id)

(* The jump to the top of a do loop frees the variables of its body, which *)
(* belong to the nest of the loop.                                         *)
TurnAgain(id, nests, words) ==
    LET nest == Loop("do", words, words, id)
    IN Condition("JumpConditional", Append(nests, nest),
                 Append(nests, [nest EXCEPT !.words = 0]), <<id, "top">>, id)

(* do { body } while ( condition ) ; a place before a variable of the body *)
(* cannot continue.                                                        *)
GenDo(s, id, nests) ==
    LET words == Declared(s.body) IN
    <<Label(<<id, "top">>)>>
    \o StatementList(s.body, Append(id, 1), nests, Loop("do", 0, words, id))
    \o <<Label(<<id, "continue">>)>>
    \o TurnAgain(id, nests, words)
    \o FreeFrame(words)
    \o <<Label(<<id, "break">>)>>

(* if ( condition ) { body } else { otherwise } *)
GenIf(s, id, nests) ==
    LET inside == Append(nests, Nest("if", 0, id)) IN
    Condition("JumpNonConditional", inside, inside, <<id, "else">>, id)
    \o Block(s.body, id \o <<1>>, inside)
    \o (IF s.otherwise = <<>> THEN <<Label(<<id, "else">>)>>
        ELSE JumpOut("Jump", inside, inside, <<id, "endif">>, 0)
             \o <<Label(<<id, "else">>)>>
             \o Block(s.otherwise, id \o <<2>>, inside)
             \o <<Label(<<id, "endif">>)>>)

IsCase(s) == s.k = "case"
Cases(ss) == Len(SelectSeq(ss, IsCase))

(* The comparisons of a switch are a chain in the order of the labels: a   *)
(* case is tried at the place where it stands, and the jump to the next    *)
(* one ends at default or behind the switch.                               *)
Numbered(ss) ==
    LET hasDefault == \E i \in DOMAIN ss : ss[i].k = "default"
        no(i) == Cases(SubSeq(ss, 1, i))
    IN [i \in DOMAIN ss |->
            CASE ss[i].k = "case" ->
                    [k |-> "case", value |-> ss[i].value, no |-> no(i),
                     out |-> ~ hasDefault /\ no(i) = Cases(ss)]
              [] ss[i].k = "default" -> [k |-> "default", no |-> 1 + Cases(ss)]
              [] OTHER -> ss[i]]

(* switch ( value ) { body }: the value is a variable of the nest. *)
GenSwitch(s, id, nests) ==
    LET switch == Nest("switch", 1, id)
        inside == Append(nests, switch)
    IN <<[Ins("LoadValue") EXCEPT !.at = id]>>
       \o JumpOut("Jump", inside, inside, <<id, "case", 1>>, 0)
       \o StatementList(Numbered(s.body), Append(id, 1), nests, switch)
       \o JumpOut("Jump", inside, nests, <<id, "break">>, 0)
       \o FreeFrame(1)
       \o <<Label(<<id, "break">>)>>

(* The labels of a switch, whose nest is the last one. *)
GenCase(s, nests) ==
    LET id == Last(nests).id
        value == <<s.value, FrameWords(Front(nests))>>
    IN <<Label(<<id, "case", s.no>>)>>
       \o IF s.out
          THEN Condition("JumpNonEqual", nests, Front(nests), <<id, "break">>, value)
          ELSE Condition("JumpNonEqual", nests, nests, <<id, "case", s.no + 1>>, value)

GenDefault(s, nests) == <<Label(<<Last(nests).id, "case", s.no>>)>>

(* catch ( type ) { body }, tried after the catch clauses before it; a     *)
(* clause without a type takes every exception.                            *)
GenCatch(s, i, id, nests) ==
    LET clause == s.catches[i]
        words == IF clause.type = "any" THEN 0 ELSE 2
        entry == Append(nests, Nest("catch", 0, id))
        inside == Append(nests, Nest("catch", words, id))
    IN <<Label(<<id, "catch", i>>)>>
       \o (IF clause.type = "any" THEN <<>>
           ELSE <<Ins("LoadException"),
                  [JumpOut("CastObject", entry, nests, <<id, "catch", i + 1>>, 1)[1]
                        EXCEPT !.at = clause.type],
                  Ins("PushObjChain")>>)
       \o <<Ins("ClearException")>>
       \o Block(clause.body, id \o <<1, i>>, inside)
       \o JumpOut("Jump", inside, Front(nests), <<id, "end">>, 0)
       \o FreeFrame(words)

(* finally { body }: the nest of the try now also holds what CallFinally   *)
(* pushed.                                                                 *)
GenFinally(s, id, nests) ==
    LET try == Grown(nests, FinallyRetStackSize)
        inside == Append(try, Nest("finally", 0, id))
    IN <<Label(<<id, "finally">>)>>
       \o Block(s.finally, id \o <<2>>, inside)
       \o <<Ins("RetFinally")>>
       \o JumpOut("Jump", inside, Front(nests), <<id, "end">>, 0)

GenTry(s, id, nests) ==
    LET inside == Append(nests, Nest("try", ExceptDescSize, id))
        n == Len(s.catches)
        typed == n > 0 /\ s.catches[n].type # "any"
        hasFinally == s.finally # <<>>
    IN <<Goto("LoadHandler", IF n > 0 THEN <<id, "catch", 1>> ELSE NoLabel, 0),
         Goto("LoadFinally", IF hasFinally THEN <<id, "finally">> ELSE NoLabel, 0),
         Ins("EnterTry")>>
       \o Block(s.body, id \o <<0>>, inside)
       \o JumpOut("Jump", inside, nests, <<id, "end">>, 0)
       \o FlattenSeq([i \in 1..n |-> GenCatch(s, i, id, inside)])
       \o (IF typed THEN <<Label(<<id, "catch", n + 1>>), Ins("LoadException"),
                           Ins("Throw")>>
           ELSE <<>>)
       \o (IF hasFinally THEN GenFinally(s, id, inside) ELSE <<>>)
       \o FreeFrame(ExceptDescSize + IF hasFinally THEN FinallyRetStackSize ELSE 0)
       \o <<Label(<<id, "end">>)>>

(* synchronized ( object ) { body }: the object, then the lock *)
GenSynchronized(s, id, nests) ==
    <<Ins("NewObject"), Words("Synchronize", FrameWords(nests))>>
    \o Block(s.body, Append(id, 1), Append(nests, Nest("synchronized", 4, id)))
    \o FreeFrame(4)

(* with ( object ) { body } *)
GenWith(s, id, nests) ==
    <<Ins("NewObject")>>
    \o Block(s.body, Append(id, 1), Append(nests, Nest("with", 2, id)))
    \o FreeFrame(2)

Gen(s, id, nests) ==
    CASE s.k = "expression" -> Expression(id, nests)
      [] s.k \in {"number", "object"} -> Declaration(s, nests)
      [] s.k = "block" -> Block(s.body, Append(id, 1), nests)
      [] s.k = "for" -> GenFor(s, id, nests)
      [] s.k = "for each" -> GenForEach(s, id, nests)
      [] s.k = "forever" -> GenForever(s, id, nests)
      [] s.k = "while" -> GenWhile(s, id, nests)
      [] s.k = "do" -> GenDo(s, id, nests)
      [] s.k = "if" -> GenIf(s, id, nests)
      [] s.k = "switch" -> GenSwitch(s, id, nests)
      [] s.k = "case" -> GenCase(s, nests)
      [] s.k = "default" -> GenDefault(s, nests)
      [] s.k = "with" -> GenWith(s, id, nests)
      [] s.k = "label" -> <<Label(<<Last(nests).id, s.name>>)>>
      [] s.k = "goto" -> JumpToLabel(nests, s.name)
      [] s.k = "try" -> GenTry(s, id, nests)
      [] s.k = "synchronized" -> GenSynchronized(s, id, nests)
      [] s.k = "call" ->
            <<Ins("NewObject"), [Ins("Call") EXCEPT !.to = s.func],
              Words("FreeStack", 2)>>
      [] s.k = "throw" -> <<[Ins("LoadThrown") EXCEPT !.at = id], Ins("Throw")>>
      [] s.k = "return" ->
            <<Ins("SetRetValue")>> \o ReturnBlocks(nests, Len(nests)) \o LeaveFunction
      [] s.k = "break" ->
            LET d == BreakNest(nests)
            IN JumpOut("Jump", nests, SubSeq(nests, 1, d - 1), <<nests[d].id, "break">>, 0)
      [] s.k = "continue" -> JumpToLabel(nests, "continue")

(* BeginFunctionBlock and EndFunctionBlock *)
GenFunction(body, id) ==
    Resolve(<<Ins("EnterFunc")>>
            \o Block(body, id, <<Nest("function", 0, id)>>)
            \o LeaveFunction)

Compile(program) == [f \in DOMAIN program |-> GenFunction(program[f], <<f>>)]
=============================================================================
