----------------------------- MODULE Expressions -----------------------------
(***************************************************************************)
(* The code of an expression: LCompiler evaluates it while it parses, on a     *)
(* stack of the values the code will have pushed (m_xvaStack), and addresses    *)
(* each of them by its distance to the top.  A value stays on the stack as long  *)
(* as some C++ variable of the compiler holds it (shared_ptr::use_count); what   *)
(* nobody holds any more is freed with the next instruction that can free.      *)
(*                                                                         *)
(* The code runs on the words of LStackBuffer.  Objects are numbered in the     *)
(* order they are made.  The statement stands in a try block: an exception      *)
(* frees the stack down to its descriptor, here down to the bottom.             *)
(*                                                                         *)
(* Left out: members and elements, constructors, pointers, and casts (all        *)
(* integers are of one type).                                                *)
(***************************************************************************)
EXTENDS Integers, Sequences, FiniteSets, SequencesExt

CONSTANTS
    Sentences,  \* the expressions that are compiled
    Flaws       \* the flaws that the compiler may leave in those that run

(* f returns an integer, g an object. *)
Node(op, v, args) == [op |-> op, v |-> v, args |-> args]
TypeOfSymbol(v) == IF v \in {"o", "g"} THEN "object" ELSE "int"

Applied(op, a, b) ==
    CASE op = "add" -> a + b
      [] op = "notEqual" -> IF a # b THEN 1 ELSE 0
      [] op = "increment" -> a + 1
      [] op = "negate" -> - a

-----------------------------------------------------------------------------
(* The compiler: the code so far, the size of m_xvaStack, m_codeBarrier, whether  *)
(* it has reported an error.  held is the highest word that belongs to a value of  *)
(* a caller.                                                                  *)
(*                                                                         *)
(* flaws tells which of two mistakes the code has: "skipped", a value whose code   *)
(* was discarded still counts as one on the stack; "unowned", an object got to its  *)
(* word without a reference of its own.                                         *)

Blank == [code |-> <<>>, size |-> 0, barrier |-> FALSE, error |-> FALSE, flaws |-> {}]

Instr(do, i, j, n, v) == [do |-> do, i |-> i, j |-> j, n |-> n, v |-> v]
AddCode(s, instr) == [s EXCEPT !.code = Append(@, instr), !.barrier = FALSE]
PopValues(s, n) == [s EXCEPT !.size = @ - n]

Constant(v, type) == [at |-> "constant", v |-> v, type |-> type]
Variable(v) == [at |-> "local", v |-> v, type |-> TypeOfSymbol(v)]
Evaluated(s, x) == [s |-> s, x |-> x]

(* An object has a second word, the link of the release chain. *)
WordsOf(type) == IF type = "object" THEN 2 ELSE 1
Holding(held, x) ==
    IF x.at # "stack" \/ x.v + WordsOf(x.type) - 1 < held THEN held
    ELSE x.v + WordsOf(x.type) - 1

BackIndexOf(s, x) == s.size - x.v

(* Mutant: only the operands of the instruction itself are looked at. *)
CountAllTempStack(s, held) == s.size
CountFreeTempStack(s, held) == s.size - held

AddCodes(s, instrs) ==
    [s EXCEPT !.code = @ \o instrs, !.barrier = IF instrs = <<>> THEN @ ELSE FALSE]

(* ExprTreatObjectChain *)
TreatObjectChain(s, type) ==
    IF type # "object" THEN s
    ELSE [AddCode(s, Instr("PushObjChain", 0, 0, 0, 0)) EXCEPT !.size = @ + 1]

(* A value that the instructions push. *)
PushValue(s, instrs, type) ==
    Evaluated(TreatObjectChain([AddCodes(s, instrs) EXCEPT !.size = @ + 1], type),
              [at |-> "stack", v |-> s.size + 1, type |-> type])

(* Mutant: an object that is loaded is not counted. *)
LoadWithoutRef(s, x) ==
    IF x.at = "stack" THEN Evaluated(s, x)
    ELSE PushValue(s, <<Instr(IF x.at = "constant" THEN "LoadImm" ELSE "LoadLocal",
                              0, 0, 0, x.v)>>, x.type)
ExprMakeOnStack(s, x) ==
    IF x.at = "stack" THEN Evaluated(s, x)
    ELSE IF x.at = "constant"
    THEN PushValue(s, <<Instr("LoadImm", 0, 0, 0, x.v)>>, x.type)
    ELSE PushValue(s, <<Instr("LoadLocal", 0, 0, 0, x.v)>> \o
                      IF x.type = "object" THEN <<Instr("RefObject", 0, 0, 0, 0)>> ELSE <<>>,
                   x.type)

EvalMakeInstance(s, x) ==
    IF x.at = "constant" THEN Evaluated(s, x) ELSE ExprMakeOnStack(s, x)

(* A load that nobody uses is taken back, frees behind one another are one. *)
LoadsOnly == {"LoadImm", "LoadLocal", "LoadStack", "LoadRetValue"}
ExprCodeFreeStack(s, n) ==
    LET last == IF s.barrier \/ s.code = <<>> THEN "none" ELSE Last(s.code).do
    IN IF n = 0 THEN s
       ELSE IF n = 1 /\ last \in LoadsOnly
       THEN PopValues([s EXCEPT !.code = Front(@)], n)
       ELSE IF last = "FreeStack"
       THEN PopValues([s EXCEPT !.code[Len(s.code)].n = @ + n], n)
       ELSE PopValues(AddCode(s, Instr("FreeStack", 0, 0, n, 0)), n)
ExprCodeFreeTempStack(s, held) == ExprCodeFreeStack(s, CountFreeTempStack(s, held))

(* EvalCodeBinaryOperate *)
BinaryOperate(op, s, a, b, type, held) ==
    LET first == EvalMakeInstance(s, a)
        second == EvalMakeInstance(first.s, b)
        l == ExprMakeOnStack(second.s, first.x)
        r == ExprMakeOnStack(l.s, second.x)
        n == CountFreeTempStack(r.s, held)
        instr == Instr("BinaryOperate", BackIndexOf(r.s, l.x), BackIndexOf(r.s, r.x), n, op)
    IN IF a.at = "constant" /\ b.at = "constant"
       THEN Evaluated(s, Constant(Applied(op, a.v, b.v), type))
       ELSE PushValue(PopValues(AddCode(r.s, instr), n), <<>>, type)

(* EvalCodeUnaryOperate *)
UnaryOperate(op, s, a, held) ==
    LET v == ExprMakeOnStack(s, a)
        n == CountFreeTempStack(v.s, held)
        instr == Instr("UnaryOperate", BackIndexOf(v.s, v.x), 0, n, op)
    IN IF a.at = "constant" THEN Evaluated(s, Constant(Applied(op, a.v, 0), a.type))
       ELSE PushValue(PopValues(AddCode(v.s, instr), n), <<>>, a.type)

EvalAsBoolean(s, x, held) ==
    LET v == IF x.at = "local" THEN ExprMakeOnStack(s, x) ELSE Evaluated(s, x)
    IN IF x.type = "boolean" THEN Evaluated(s, x)
       ELSE BinaryOperate("notEqual", v.s, v.x, Constant(0, "int"), "boolean", held)

ExprCodeStore(s, dst, src, held) ==
    LET v == ExprMakeOnStack(s, src)
        n == CountFreeTempStack(v.s, held)
        do == IF dst.type = "object" THEN "ExchangeLocal" ELSE "StoreLocal"
    IN PopValues(AddCode(v.s, Instr(do, BackIndexOf(v.s, v.x), 0, n, dst.v)), n)

ExprCodeMove(s, dst, src, held) ==
    LET v == ExprMakeOnStack(s, src)
        free == Instr("FreeObject", BackIndexOf(v.s, dst), 0, 0, 0)
        freed == AddCodes(v.s, IF dst.type = "object" THEN <<free>> ELSE <<>>)
        n == CountFreeTempStack(freed, held)
    IN PopValues(AddCode(freed, Instr("Move", BackIndexOf(v.s, v.x), BackIndexOf(v.s, dst), n, 0)), n)

(* Jumps: both ends must have the same values on the stack.  The value below them   *)
(* stays there, so that a jump has no words of its own to free.                   *)
GetCurrentCodePointer(s, held) ==
    [ExprCodeFreeTempStack(s, held) EXCEPT !.barrier = TRUE]

Jumping(s, instr) ==
    [s |-> AddCode(s, instr), at |-> Len(s.code) + 1, size |-> s.size]

ExprCodeJumpConditional(do, s, x, held) ==
    LET v == ExprMakeOnStack(s, x)
        n == CountFreeTempStack(v.s, held)
    IN Jumping(GetCurrentCodePointer(PopValues(v.s, n), held),
               Instr(do, BackIndexOf(v.s, v.x), 0, n, 0))

FixJumpDestination(s, jump) ==
    IF jump.size # s.size /\ s.size # 0 THEN [s EXCEPT !.error = TRUE]
    ELSE [s EXCEPT !.code[jump.at].v = Len(s.code) + 1]

(* ExprPrepareToPushClone: null is loaded, so that a link belongs to it. *)
PrepareToPush(list, x) ==
    LET v == IF x.at = "constant" /\ x.type = "object" THEN ExprMakeOnStack(list.s, x)
             ELSE Evaluated(list.s, x)
    IN [s |-> v.s, xs |-> Append(list.xs, v.x)]

(* ExprPushClone, without AddRef. *)
PushClone(s, x) ==
    LET load == CASE x.at = "constant" -> Instr("LoadImm", 0, 0, 0, x.v)
                  [] x.at = "local" -> Instr("LoadLocal", 0, 0, 0, x.v)
                  [] OTHER -> Instr("LoadStack", BackIndexOf(s, x), 0, 0, 0)
    IN PushValue(s, <<load>>, "int").s

(* The list of the arguments is held until the function has returned. *)
ExprCallFunction(f, s, xs, held) ==
    LET prepared == FoldLeft(PrepareToPush, [s |-> s, xs |-> <<>>], xs)
        ap == AddCode(prepared.s, Instr("MoveAP", 0, 0, 0, 0))
        pushed == FoldLeft(PushClone, ap, prepared.xs)
        called == ExprCodeFreeTempStack(AddCode(pushed, Instr("Call", 0, 0, 0, f)),
                                       FoldLeft(Holding, held, xs))
    IN PushValue(called, <<Instr("LoadRetValue", 0, 0, 0, 0)>>, TypeOfSymbol(f))

(* Increment of a variable, EvalPrimitiveUnaryOperator. *)
Incremented(x, post, s, held) ==
    LET kept == IF post THEN ExprMakeOnStack(s, x) ELSE Evaluated(s, x)
        inner == Holding(held, kept.x)
        loaded == ExprMakeOnStack(kept.s, x)
        sum == UnaryOperate("increment", loaded.s, loaded.x, inner)
    IN Evaluated(ExprCodeStore(sum.s, x, sum.x, Holding(inner, sum.x)),
                 IF post THEN kept.x ELSE sum.x)

RECURSIVE EvaluateExpression(_, _, _)

RECURSIVE ParseExprList(_, _, _, _)
ParseExprList(es, s, xs, held) ==
    IF es = <<>> THEN [s |-> s, xs |-> xs]
    ELSE LET x == EvaluateExpression(Head(es), s, held)
         IN ParseExprList(Tail(es), x.s, Append(xs, x.x), Holding(held, x.x))

(* The code of an operand that is not wanted is discarded; what it would have left *)
(* on the stack is not.                                                        *)
ParseToSkipExpression(e, s, held) ==
    LET start == GetCurrentCodePointer(s, held)
        skipped == EvaluateExpression(e, start, held).s
    IN [skipped EXCEPT !.code = start.code,
                       !.flaws = start.flaws \cup IF skipped.size = start.size THEN {}
                                                  ELSE {"skipped"}]

ExprMakeBoolean(e, s, held) ==
    LET x == EvaluateExpression(e, s, held) IN EvalAsBoolean(x.s, x.x, held)

(* && and ||, from the moment the left side is on the stack. *)
MoveRightSide(value, jump, right, held) ==
    LET moved == ExprCodeMove(right.s, value.x, right.x, held)
    IN Evaluated(FixJumpDestination(GetCurrentCodePointer(moved, held), jump), value.x)
LogicalAtRuntime(e, value, held) ==
    LET do == IF e.op = "and" THEN "JumpNonConditional" ELSE "JumpConditional"
        jump == ExprCodeJumpConditional(do, value.s, value.x, held)
    IN MoveRightSide(value, jump, ExprMakeBoolean(e.args[2], jump.s, held), held)

LogicalOn(e, cond, held) ==
    LET value == ExprMakeOnStack(cond.s, cond.x)
    IN IF cond.x.at # "constant" THEN LogicalAtRuntime(e, value, Holding(held, value.x))
       ELSE IF (e.op = "and") = (cond.x.v = 0)
       THEN Evaluated(ParseToSkipExpression(e.args[2], cond.s, held), cond.x)
       ELSE ExprMakeBoolean(e.args[2], cond.s, held)

(* The value of the left side before its conversion stays held. *)
ParseOperatorLogical(e, s, held) ==
    LET left == EvaluateExpression(e.args[1], s, held)
        outer == Holding(held, left.x)
    IN LogicalOn(e, EvalAsBoolean(left.s, left.x, outer), outer)

(* ?: the result is a word below both sides, of the type of the first one.  Each    *)
(* side is moved there, and its own words are freed.                             *)
Side(e, s, held) ==
    LET x == EvaluateExpression(e, s, held) IN ExprMakeOnStack(x.s, x.x)
MoveToResult(value, x, held) ==
    GetCurrentCodePointer(ExprCodeFreeTempStack(ExprCodeMove(x.s, value, x.x, held), held), held)

EndOfChoice(value, break, otherwise, held) ==
    LET joined == FixJumpDestination(MoveToResult(value, otherwise, held), break)
        flaw == IF value.type = "object" THEN {"unowned"} ELSE {}
    IN Evaluated(TreatObjectChain([joined EXCEPT !.flaws = @ \cup flaw], value.type), value)
OtherSide(e, value, jump, first, held) ==
    LET break == Jumping(MoveToResult(value, first, held), Instr("Jump", 0, 0, 0, 0))
        start == FixJumpDestination(GetCurrentCodePointer(break.s, held), jump)
    IN EndOfChoice(value, break, Side(e.args[3], start, held), held)
FirstSide(e, temp, jump, held) ==
    LET first == Side(e.args[2], jump.s, held)
    IN OtherSide(e, [temp EXCEPT !.type = first.x.type], jump, first, held)
ChoiceAtRuntime(e, cond, temp, held) ==
    FirstSide(e, temp.x, ExprCodeJumpConditional("JumpNonConditional", temp.s, cond.x, held), held)

ChoiceOn(e, cond, held) ==
    LET temp == PushValue(cond.s, <<Instr("LoadImm", 0, 0, 0, 0)>>, "int")
        chosen == EvaluateExpression(e.args[2], cond.s, held)
    IN IF cond.x.at # "constant" THEN ChoiceAtRuntime(e, cond, temp, Holding(held, temp.x))
       ELSE IF cond.x.v # 0
       THEN Evaluated(ParseToSkipExpression(e.args[3], chosen.s, Holding(held, chosen.x)), chosen.x)
       ELSE EvaluateExpression(e.args[3], ParseToSkipExpression(e.args[2], cond.s, held), held)

ParseOperatorConditionalChoise(e, s, held) ==
    LET test == EvaluateExpression(e.args[1], s, held)
        outer == Holding(held, test.x)
    IN ChoiceOn(e, EvalAsBoolean(test.s, test.x, outer), outer)

(* EvaluateExpression, ParseBinaryOperator and the operators behind it. *)
EvaluateExpression(e, s, held) ==
    LET First == EvaluateExpression(e.args[1], s, held)
        Second == EvaluateExpression(e.args[2], First.s, Holding(held, First.x))
    IN CASE e.op = "number" -> Evaluated(s, Constant(e.v, "int"))
         [] e.op = "null" -> Evaluated(s, Constant(0, "object"))
         [] e.op = "variable" -> Evaluated(s, Variable(e.v))
         [] e.op = "call" ->
                LET list == ParseExprList(e.args, s, <<>>, held)
                IN ExprCallFunction(e.v, list.s, list.xs, held)
         [] e.op = "add" -> BinaryOperate("add", Second.s, First.x, Second.x, "int", held)
         [] e.op = "negate" -> UnaryOperate("negate", First.s, First.x, held)
         [] e.op = "assign" ->
                Evaluated(ExprCodeStore(First.s, Variable(e.v), First.x, held), Variable(e.v))
         [] e.op = "addAssign" ->
                LET left == ExprMakeOnStack(First.s, Variable(e.v))
                    sum == BinaryOperate("add", left.s, left.x, First.x, "int", held)
                IN Evaluated(ExprCodeStore(sum.s, Variable(e.v), sum.x, held), Variable(e.v))
         [] e.op \in {"increment", "incrementPost"} ->
                Incremented(Variable(e.v), e.op = "incrementPost", s, held)
         [] e.op \in {"and", "or"} -> ParseOperatorLogical(e, s, held)
         [] e.op = "conditional" -> ParseOperatorConditionalChoise(e, s, held)
         [] e.op = "sequence" -> Second

(* ParseStatement_expr *)
CompileSentence(e) == ExprCodeFreeTempStack(EvaluateExpression(e, Blank, 0).s, 0)

CompiledSentences ==
    {[meant |-> e, compiled |-> CompileSentence(e)] : e \in Sentences}

-----------------------------------------------------------------------------
(* The machine.  Positions count from 1, yp = 0 is the end of the chain.          *)

VARIABLES
    sentence,  \* the expression that runs, and its code
    parity,    \* the calls of f that return 0: those with even or odd numbers
    mach       \* the context

exprVars == <<sentence, parity, mach>>

(* The value that the call with this number returns; g returns the object it made. *)
ValueReturned(f, number, even, made) ==
    IF f = "g" THEN made ELSE IF (number + even) % 2 = 0 THEN 0 ELSE number + 1

ExprCode == sentence.compiled.code
Fetched == ExprCode[mach.ip]

ExpressionInit ==
    /\ sentence \in CompiledSentences
    /\ sentence.compiled.flaws \subseteq Flaws
    /\ parity \in {0, 1}
    /\ mach = [ip |-> 1, stack |-> <<>>, yp |-> 0, ap |-> 0,
               locals |-> [i |-> 5, o |-> 1], count |-> <<1>>,
               ret |-> Constant(0, "int"), calls |-> <<>>, ended |-> "no"]

(* Words outside of the stack belong to someone else. *)
WordAt(x, k) == IF k \in DOMAIN x.stack THEN x.stack[k] ELSE 0
BackAt(x, i) == WordAt(x, Len(x.stack) - i)
Overwritten(x, i, v) == [x EXCEPT !.stack[Len(x.stack) - i] = v]
Pushed(x, v) == [x EXCEPT !.stack = Append(@, v)]

AddRef(x, obj) == IF obj \in DOMAIN x.count THEN [x EXCEPT !.count[obj] = @ + 1] ELSE x
ReleaseRef(x, obj) == IF obj \in DOMAIN x.count THEN [x EXCEPT !.count[obj] = @ - 1] ELSE x

(* micro_instruction_FreeFor; what is no chain is not followed. *)
RECURSIVE FreeObjectsFor(_, _)
FreeObjectsFor(x, k) ==
    IF x.yp < k \/ x.yp = 0 THEN x
    ELSE LET link == WordAt(x, x.yp + 1)
             freed == ReleaseRef(x, WordAt(x, x.yp))
         IN IF link \in 0 .. x.yp - 1 THEN FreeObjectsFor([freed EXCEPT !.yp = link], k)
            ELSE [freed EXCEPT !.yp = 0, !.ended = "undefined"]

(* micro_instruction_FreeCount; below the bottom are the words of the variables. *)
FreeWords(x, n) ==
    LET left == Len(x.stack) - n
    IN IF n = 0 THEN x
       ELSE IF left < 0 THEN [x EXCEPT !.stack = <<>>, !.yp = 0, !.ended = "undefined"]
       ELSE [FreeObjectsFor(x, left + 1) EXCEPT !.stack = SubSeq(@, 1, left)]

Running(do) == mach.ended = "no" /\ mach.ip <= Len(ExprCode) /\ Fetched.do = do
Becomes(x) == mach' = [x EXCEPT !.ip = @ + 1] /\ UNCHANGED <<sentence, parity>>

LoadWord ==
    \/ Running("LoadImm") /\ Becomes(Pushed(mach, Fetched.v))
    \/ Running("LoadLocal") /\ Becomes(Pushed(mach, mach.locals[Fetched.v]))
    \/ Running("LoadStack") /\ Becomes(Pushed(mach, BackAt(mach, Fetched.i)))

LoadRetValue ==
    /\ Running("LoadRetValue")
    /\ Becomes(Pushed(IF mach.ret.type = "object" THEN AddRef(mach, mach.ret.v) ELSE mach,
                      mach.ret.v))

RefObject ==
    /\ Running("RefObject")
    /\ Becomes(AddRef(mach, BackAt(mach, Fetched.i)))

FreeObject ==
    /\ Running("FreeObject")
    /\ Becomes(ReleaseRef(mach, BackAt(mach, Fetched.i)))

PushObjChain ==
    /\ Running("PushObjChain")
    /\ Becomes([Pushed(mach, mach.yp) EXCEPT !.yp = Len(mach.stack)])

MoveWord ==
    /\ Running("Move")
    /\ Becomes(FreeWords(Overwritten(mach, Fetched.j, BackAt(mach, Fetched.i)),
                         Fetched.n))

StoreLocal ==
    /\ Running("StoreLocal")
    /\ Becomes(FreeWords([mach EXCEPT !.locals[Fetched.v] = BackAt(mach, Fetched.i)], Fetched.n))

ExchangeLocal ==
    /\ Running("ExchangeLocal")
    /\ Becomes(FreeWords([Overwritten(mach, Fetched.i, mach.locals[Fetched.v]) EXCEPT
                             !.locals[Fetched.v] = BackAt(mach, Fetched.i)], Fetched.n))

Operate ==
    /\ Running("BinaryOperate") \/ Running("UnaryOperate")
    /\ Becomes(Pushed(FreeWords(mach, Fetched.n),
                      Applied(Fetched.v, BackAt(mach, Fetched.i), BackAt(mach, Fetched.j))))

Jumps ==
    \E goes \in BOOLEAN :
        /\ \/ Running("Jump") /\ goes
           \/ Running("JumpConditional") /\ goes = (BackAt(mach, Fetched.i) # 0)
           \/ Running("JumpNonConditional") /\ goes = (BackAt(mach, Fetched.i) = 0)
        /\ Becomes([FreeWords(mach, Fetched.n) EXCEPT !.ip = IF goes THEN Fetched.v - 1 ELSE @])

FreeStackWords == Running("FreeStack") /\ Becomes(FreeWords(mach, Fetched.n))

MoveAP == Running("MoveAP") /\ Becomes([mach EXCEPT !.ap = Len(mach.stack)])

(* A native function: f and g take any arguments, and may throw. *)
Recorded == Append(mach.calls, <<Fetched.v, SubSeq(mach.stack, mach.ap + 1, Len(mach.stack))>>)

CallNative ==
    LET made == IF Fetched.v = "g" THEN Append(mach.count, 1) ELSE mach.count
        new == [mach EXCEPT !.count = made]
        released == IF mach.ret.type = "object" THEN ReleaseRef(new, mach.ret.v) ELSE new
        value == ValueReturned(Fetched.v, Len(mach.calls) + 1, parity, Len(made))
    IN /\ Running("Call")
       /\ Becomes([released EXCEPT !.calls = Recorded,
                                   !.ret = Constant(value, TypeOfSymbol(Fetched.v))])

CallThrows ==
    /\ Running("Call")
    /\ Becomes([FreeWords(mach, Len(mach.stack)) EXCEPT !.calls = Recorded, !.ended = "thrown"])

SentenceEnds ==
    /\ mach.ended = "no" /\ mach.ip = Len(ExprCode) + 1
    /\ mach' = [mach EXCEPT !.ended = "done"]
    /\ UNCHANGED <<sentence, parity>>

ExpressionNext ==
    \/ LoadWord \/ LoadRetValue \/ RefObject \/ FreeObject \/ PushObjChain \/ MoveWord
    \/ StoreLocal \/ ExchangeLocal \/ Operate \/ Jumps \/ FreeStackWords
    \/ MoveAP \/ CallNative \/ CallThrows \/ SentenceEnds

ExpressionSpec == ExpressionInit /\ [][ExpressionNext]_exprVars

-----------------------------------------------------------------------------
(* The meaning of an expression: operands from left to right, a variable is read  *)
(* when the operator it belongs to is applied.  The call with number throwAt, if   *)
(* there is one, throws; what would follow has no effect.                        *)

ValueIn(st, d) == IF d.var THEN st.locals[d.v] ELSE d.v
Plain(v) == [var |-> FALSE, v |-> v]

RECURSIVE Meaning(_, _)

RECURSIVE MeaningOfList(_, _, _)
MeaningOfList(es, st, ds) ==
    IF es = <<>> THEN [st |-> st, d |-> ds]
    ELSE LET x == Meaning(Head(es), st) IN MeaningOfList(Tail(es), x.st, Append(ds, x.d))

Assigned(st, v, value) ==
    [st |-> IF Len(st.calls) = st.throwAt THEN st ELSE [st EXCEPT !.locals[v] = value],
     d |-> [var |-> TRUE, v |-> v]]

CallMeant(st, f, ds) ==
    LET args == [k \in DOMAIN ds |-> ValueIn(st, ds[k])]
        made == IF f = "g" THEN st.made + 1 ELSE st.made
    IN IF Len(st.calls) = st.throwAt THEN [st |-> st, d |-> Plain(0)]
       ELSE [st |-> [st EXCEPT !.calls = Append(@, <<f, args>>), !.made = made],
             d |-> Plain(ValueReturned(f, Len(st.calls) + 1, st.parity, made))]

Meaning(e, st) ==
    LET First == Meaning(e.args[1], st)
        Second == Meaning(e.args[2], First.st)
        Third == Meaning(e.args[3], First.st)
        True == ValueIn(First.st, First.d) # 0
        List == MeaningOfList(e.args, st, <<>>)
        Truth(x) == [st |-> x.st, d |-> Plain(Applied("notEqual", ValueIn(x.st, x.d), 0))]
    IN CASE e.op \in {"number", "null"} -> [st |-> st, d |-> Plain(e.v)]
         [] e.op = "variable" -> [st |-> st, d |-> [var |-> TRUE, v |-> e.v]]
         [] e.op = "call" -> CallMeant(List.st, e.v, List.d)
         [] e.op = "add" ->
                [st |-> Second.st,
                 d |-> Plain(ValueIn(Second.st, First.d) + ValueIn(Second.st, Second.d))]
         [] e.op = "negate" -> [st |-> First.st, d |-> Plain(- ValueIn(First.st, First.d))]
         [] e.op = "assign" -> Assigned(First.st, e.v, ValueIn(First.st, First.d))
         [] e.op = "addAssign" ->
                Assigned(First.st, e.v, First.st.locals[e.v] + ValueIn(First.st, First.d))
         [] e.op \in {"increment", "incrementPost"} ->
                [st |-> Assigned(st, e.v, st.locals[e.v] + 1).st,
                 d |-> Plain(st.locals[e.v] + IF e.op = "increment" THEN 1 ELSE 0)]
         [] e.op = "and" -> IF True THEN Truth(Second) ELSE [st |-> First.st, d |-> Plain(0)]
         [] e.op = "or" -> IF True THEN [st |-> First.st, d |-> Plain(1)] ELSE Truth(Second)
         [] e.op = "conditional" -> IF True THEN Second ELSE Third
         [] e.op = "sequence" -> Second

-----------------------------------------------------------------------------
ExprTypeOK ==
    /\ sentence.compiled.flaws \subseteq Flaws /\ parity \in {0, 1}
    /\ mach.yp \in 0 .. Len(mach.stack) /\ mach.ended \in {"no", "done", "thrown", "undefined"}

(* Whatever the compiler keeps on the stack, takes back or frees early, every      *)
(* expression calls the functions it is written with, in their order and with      *)
(* their arguments, leaves in the variables what was assigned to them, and nothing *)
(* on the stack; if a call throws, what was assigned until then.                   *)
CallsAsMeant ==
    /\ ~sentence.compiled.error
    /\ mach.ended # "undefined"
    /\ mach.ended \in {"done", "thrown"} =>
         LET meant == Meaning(sentence.meant,
                              [locals |-> [i |-> 5, o |-> 1], calls |-> <<>>, made |-> 1,
                               parity |-> parity,
                               throwAt |-> IF mach.ended = "thrown" THEN Len(mach.calls) ELSE -1]).st
         IN mach.calls = meant.calls /\ mach.locals = meant.locals /\ mach.stack = <<>>

RECURSIVE ChainFrom(_)
ChainFrom(k) == IF k = 0 THEN {} ELSE {k} \cup ChainFrom(mach.stack[k + 1])

CountsMatch ==
    mach.ended # "no" \/ (mach.ip <= Len(ExprCode) => Fetched.do \notin {"RefObject", "PushObjChain"})
        => \A obj \in DOMAIN mach.count :
            mach.count[obj] =
                Cardinality({k \in ChainFrom(mach.yp) : mach.stack[k] = obj})
                + (IF mach.locals.o = obj THEN 1 ELSE 0)
                + (IF mach.ret.type = "object" /\ mach.ret.v = obj THEN 1 ELSE 0)

(* The count of an object is the number of those that own it: the variable, the    *)
(* value returned last, the words of the release chain; arguments own nothing.      *)
(* So nothing is used after it was freed, or never freed, also when a call throws.   *)
CountsExact == "unowned" \notin sentence.compiled.flaws => CountsMatch

(* The same of ?: with objects, whose result takes over a word of a side while the  *)
(* side's own word releases the object as well.                                   *)
ChoiceOwned == CountsMatch
=============================================================================
