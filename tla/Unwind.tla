------------------------------- MODULE Unwind -------------------------------
(***************************************************************************)
(* The stack machine of LContext where control leaves a block: frames,     *)
(* exception descriptors, finally handlers, the release chain.             *)
(*                                                                         *)
(* A word of the stack carries the meaning it was pushed with.  The        *)
(* machine itself reads words untyped: where it would take one word for    *)
(* another, its behaviour is undefined, and status says so.                *)
(*                                                                         *)
(* A step executes one instruction of Code, whatever compiler wrote it.    *)
(* What the program decides (does the native function throw, does the      *)
(* condition hold, is the object null) is a choice, and trace remembers    *)
(* the choices a reader of the source would see.                           *)
(***************************************************************************)
EXTENDS CodeBuffer, FiniteSets

CONSTANTS
    Code,           \* Code[p][f]: the instructions of function f of program p
    CaseValues,     \* the values a switch may be about
    Thrown,         \* the kinds of exception a native function throws
    MaxThrows,      \* bound: native calls that throw in one run
    MaxTurns        \* bound: turns of the loops in one run

InvalidPtr == -1
NoCode == 0
NoException == "none"

VARIABLES prog, m, trace
vars == <<prog, m, trace>>

-----------------------------------------------------------------------------
(* The stack of a machine x: sp is its length, position 0 its first word.  *)

At(x, pos) == x.stack[pos + 1]
Sp(x) == Len(x.stack)
Push(x, words) == [x EXCEPT !.stack = @ \o words]
Truncate(x, sp) == [x EXCEPT !.stack = SubSeq(@, 1, IF sp < 0 THEN 0 ELSE sp)]
TopIs(x, kinds) ==
    /\ Sp(x) >= Len(kinds)
    /\ \A i \in DOMAIN kinds : At(x, Sp(x) - Len(kinds) + i - 1).is = kinds[i]
Holds(x, pos, kinds) ==
    /\ pos >= 0 /\ pos + Len(kinds) <= Sp(x)
    /\ \A i \in DOMAIN kinds : At(x, pos + i - 1).is = kinds[i]

Undefined(x) == [x EXCEPT !.status = "undefined"]

(* The positions a chain of the stack leads to from top on: next[y] is the *)
(* one behind y, and a chain only goes down.                               *)
Chain(next, top) ==
    LET from[y \in DOMAIN next] ==
            {y} \cup IF next[y] \in DOMAIN next /\ next[y] < y
                      THEN from[next[y]] ELSE {}
    IN IF top \in DOMAIN next THEN from[top] ELSE {}

(* The objects of the release chain, and the exception descriptors.        *)
Chained(x) ==
    Chain([y \in {y \in 0 .. Sp(x) - 1 : Holds(x, y, ReleaserDesc)} |-> At(x, y + 1).v],
          x.yp)
Descriptors(x) ==
    Chain([y \in {y \in 0 .. Sp(x) - 1 : Holds(x, y, ExceptionDesc)} |-> At(x, y + 4).v],
          x.xp)

Lowest(S) == CHOOSE y \in S : \A z \in S : y <= z
Highest(S) == CHOOSE y \in S : \A z \in S : z <= y

(* micro_instruction_FreeFor: release the objects of the chain from        *)
(* position si on.  Only an object that is not null has something to       *)
(* release.                                                                *)
FreeFor(x, si) ==
    LET freed == {y \in Chained(x) : y >= si}
        yp == IF freed = {} THEN x.yp ELSE At(x, Lowest(freed) + 1).v
    IN IF yp >= si THEN Undefined(x)
       ELSE [x EXCEPT !.yp = yp,
                      !.live = @ - Cardinality({y \in freed : At(x, y).v = 1})]

FreeDownTo(x, sp) == Truncate(FreeFor(x, sp), sp)
FreeCount(x, n) == IF n > 0 THEN FreeDownTo(x, Sp(x) - n) ELSE x

(* micro_instruction_LeaveTry *)
LeaveTry(x) ==
    IF ~ Holds(x, x.xp, ExceptionDesc) THEN Undefined(x)
    ELSE [FreeDownTo(x, x.xp) EXCEPT !.fp = At(x, x.xp + 3).v,
                                     !.xp = At(x, x.xp + 4).v]

(* Mutant: the finally handler counts only while there is a catch handler. *)
HasBothHandlers(x) == At(x, x.xp).v # NoHandler /\ At(x, x.xp + 1).v # NoHandler

(* The innermost descriptor has a finally handler that was not called yet. *)
HasFinally(x) == At(x, x.xp + 1).v # NoHandler

(* micro_instruction_CallFinally, with the exception in flight: the        *)
(* handlers are taken off the descriptor, the return value is saved.       *)
CallFinally(x, thrown) ==
    IF ~ Holds(x, x.xp, ExceptionDesc) THEN Undefined(x)
    ELSE IF ~ HasFinally(x) THEN LeaveTry(x)
    ELSE LET freed == [Truncate(FreeFor(x, x.xp), x.xp + ExceptDescSize) EXCEPT
                            !.stack[x.xp + 1].v = NoHandler,
                            !.stack[x.xp + 2].v = NoHandler]
         IN [Push(freed, <<Word("thrown", thrown), Word("value", x.ret),
                           Word("type", 0), Word("ip", x.ip),
                           Word("code", x.code)>>)
                EXCEPT !.code = At(x, x.xp + 2).v,
                       !.ip = At(x, x.xp + 1).v,
                       !.fp = At(x, x.xp + 3).v]

(* micro_instruction_Throw, the exception already popped: the handler of   *)
(* the innermost descriptor that has one left, on the way a finally is     *)
(* called and comes back to the throw.                                     *)
Throw(x, thrown) ==
    LET ds == Descriptors(x)
        handling == {d \in ds : At(x, d).v # NoHandler \/ At(x, d + 1).v # NoHandler}
        end == IF ds = {} THEN x.xp ELSE At(x, Lowest(ds) + 4).v
        xp == Highest(handling)
        y == [x EXCEPT !.xp = xp]
    IN IF handling = {} /\ end # InvalidPtr THEN Undefined(x)
       ELSE IF handling = {}
       THEN [x EXCEPT !.xp = InvalidPtr, !.exception = thrown, !.status = "halt"]
       ELSE IF At(x, xp).v = NoHandler
       THEN CallFinally([y EXCEPT !.ip = @ - 1], thrown)
       ELSE [Truncate(FreeFor(y, xp), xp + ExceptDescSize) EXCEPT
                !.exception = thrown,
                !.stack[xp + 1].v = NoHandler,
                !.code = At(x, xp + 2).v,
                !.ip = At(x, xp).v,
                !.fp = At(x, xp + 3).v]

(* Mutant: the return value of the finally block stays. *)
KeepsReturnValue(x) ==
    IF ~ TopIs(x, FinallyRetStack) THEN Undefined(x)
    ELSE LeaveTry(Truncate(x, Sp(x) - 5))

(* The words CallFinally pushed, taken back: all but the return address    *)
(* and the exception have the same use in RetFinally and LeaveFinally.     *)
PopFinally(x) ==
    IF ~ TopIs(x, FinallyRetStack) THEN Undefined(x)
    ELSE LeaveTry(Truncate([x EXCEPT !.ret = At(x, Sp(x) - 4).v], Sp(x) - 5))

(* Mutant: the exception in flight ends with the finally block. *)
Swallows(x) ==
    IF ~ TopIs(x, FinallyRetStack) THEN Undefined(x)
    ELSE [PopFinally(x) EXCEPT !.code = At(x, Sp(x) - 1).v, !.ip = At(x, Sp(x) - 2).v]

(* micro_instruction_RetFinally *)
RetFinally(x) ==
    LET back == [PopFinally(x) EXCEPT !.code = At(x, Sp(x) - 1).v,
                                      !.ip = At(x, Sp(x) - 2).v]
        thrown == At(x, Sp(x) - 5).v
    IN IF ~ TopIs(x, FinallyRetStack) THEN Undefined(x)
       ELSE IF thrown = NoException \/ back.status = "undefined" THEN back
       ELSE Throw([back EXCEPT !.ip = @ + 1], thrown)

-----------------------------------------------------------------------------
(* Instructions.                                                           *)

Fetched == Code[prog][m.code][m.ip]

(* The machine after the fetch. *)
Fetch == [m EXCEPT !.ip = @ + 1]

Executes(op) ==
    /\ m.status = "running"
    /\ m.code # NoCode
    /\ Fetched.op = op

Silent == UNCHANGED <<prog, trace>>

Happens(what) ==
    /\ trace' = Append(trace, [at |-> Fetched.at, what |-> what])
    /\ UNCHANGED prog

Throws == Cardinality({i \in DOMAIN trace : trace[i].what \in Thrown})
Turns == Cardinality({i \in DOMAIN trace : trace[i].what = "turn"})

EnterFunc ==
    /\ Executes("EnterFunc")
    /\ m' = [Push(Fetch, <<Word("dp", 0), Word("fp", m.fp)>>) EXCEPT
                !.fp = Sp(m) + 2]
    /\ Silent

LeaveFunc ==
    /\ Executes("LeaveFunc")
    /\ m' = IF ~ Holds(m, m.fp - 2, <<"dp", "fp">>) THEN Undefined(m)
            ELSE [Truncate(FreeFor(Fetch, m.fp), m.fp - 2) EXCEPT
                    !.fp = At(m, m.fp - 1).v]
    /\ Silent

Return ==
    /\ Executes("Return")
    /\ m' = IF ~ TopIs(m, <<"ip", "code">>) THEN Undefined(m)
            ELSE [Truncate(m, Sp(m) - 2) EXCEPT !.ip = At(m, Sp(m) - 2).v,
                                                !.code = At(m, Sp(m) - 1).v]
    /\ Silent

Call ==
    /\ Executes("Call")
    /\ m' = [Push(m, <<Word("ip", m.ip + 1), Word("code", m.code)>>) EXCEPT
                !.code = Fetched.to, !.ip = 1]
    /\ Silent

(* codeLoadImm of the two handlers of a try *)
LoadHandler ==
    /\ Executes("LoadHandler")
    /\ m' = Push(Fetch, <<Word("handler", Fetched.to)>>)
    /\ Silent

LoadFinally ==
    /\ Executes("LoadFinally")
    /\ m' = Push(Fetch, <<Word("finally", Fetched.to)>>)
    /\ Silent

(* Mutant: the outer descriptor is not remembered. *)
EnterTryAlone ==
    /\ Executes("EnterTry")
    /\ m' = [Push(Fetch, <<Word("code", m.code), Word("fp", m.fp), Word("xp", InvalidPtr)>>)
                EXCEPT !.xp = Sp(m) + 3 - ExceptDescSize]
    /\ Silent

EnterTry ==
    /\ Executes("EnterTry")
    /\ m' = [Push(Fetch, <<Word("code", m.code), Word("fp", m.fp), Word("xp", m.xp)>>)
                EXCEPT !.xp = Sp(m) + 3 - ExceptDescSize]
    /\ Silent

DoCallFinally ==
    /\ Executes("CallFinally")
    /\ m' = CallFinally(Fetch, NoException)
    /\ Silent

DoRetFinally ==
    /\ Executes("RetFinally")
    /\ m' = RetFinally(Fetch)
    /\ Silent

LeaveFinally ==
    /\ Executes("LeaveFinally")
    /\ m' = PopFinally(Fetch)
    /\ Silent

(* throw expr ; *)
LoadThrown ==
    /\ Executes("LoadThrown")
    /\ \E kind \in Thrown :
        /\ m' = Push(Fetch, <<Word("thrown", kind)>>)
        /\ Happens(kind)

DoThrow ==
    /\ Executes("Throw")
    /\ m' = IF ~ TopIs(m, <<"thrown">>) THEN Undefined(m)
            ELSE Throw(Truncate(Fetch, Sp(m) - 1), At(m, Sp(m) - 1).v)
    /\ Silent

LoadException ==
    /\ Executes("LoadException")
    /\ m' = Push(Fetch, <<Word("thrown", m.exception)>>)
    /\ Silent

(* codeCastObject and the jump to the next catch clause: the exception     *)
(* becomes an object of the type of the clause, or the clause is not its.  *)
CastObject ==
    /\ Executes("CastObject")
    /\ m' = IF ~ TopIs(m, <<"thrown">>) THEN Undefined(m)
            ELSE IF At(m, Sp(m) - 1).v = Fetched.at
            THEN [Push(Truncate(Fetch, Sp(m) - 1), <<Word("object", 1)>>)
                    EXCEPT !.live = @ + 1]
            ELSE FreeCount([m EXCEPT !.ip = Fetched.to], Fetched.n)
    /\ Silent

ClearException ==
    /\ Executes("ClearException")
    /\ m' = [Fetch EXCEPT !.exception = NoException]
    /\ Silent

(* codePushObjChain behind an object *)
PushObjChain ==
    /\ Executes("PushObjChain")
    /\ m' = [Push(Fetch, <<Word("chain", m.yp)>>) EXCEPT !.yp = Sp(m) - 1]
    /\ Silent

(* A temporary object with its chain, or null. *)
NewObject ==
    /\ Executes("NewObject")
    /\ \E refs \in {0, 1} :
        /\ refs = 0 => Code[prog][m.code][m.ip + 1].op = "Synchronize"
        /\ m' = [Push(Fetch, <<Word("object", refs), Word("chain", m.yp)>>)
                    EXCEPT !.yp = Sp(m), !.live = @ + refs]
    /\ Silent

(* Words are cleared when they are allocated: a null object, no chain.     *)
AllocStack ==
    /\ Executes("AllocStack")
    /\ m' = Push(Fetch, IF Fetched.n = 1 THEN <<Word("number", 0)>>
                        ELSE <<Word("object", 0), Word("chain", 0)>>)
    /\ Silent

MakeObjChain ==
    /\ Executes("MakeObjChain")
    /\ LET chain == m.fp + Fetched.n
       IN m' = IF ~ Holds(m, chain - 1, ReleaserDesc) THEN Undefined(m)
               ELSE [Fetch EXCEPT !.stack[chain + 1] = Word("chain", m.yp),
                                  !.yp = chain - 1]
    /\ Silent

StoreLocal ==
    /\ Executes("StoreLocal")
    /\ LET local == m.fp + Fetched.n
       IN m' = IF ~ Holds(m, local, ReleaserDesc) THEN Undefined(m)
               ELSE [Fetch EXCEPT !.stack[local + 1] = Word("object", 1),
                                  !.live = @ + 1 - At(m, local).v]
    /\ Silent

(* Mutant: the locker is not put on the chain. *)
SynchronizeUnchained ==
    /\ Executes("Synchronize")
    /\ LET refs == IF At(m, m.fp + Fetched.n).v = 0 THEN 0 ELSE 1
       IN m' = [Push(Fetch, <<Word("object", refs), Word("chain", m.yp)>>)
                    EXCEPT !.live = @ + refs]
    /\ Silent

(* The lock is taken (Monitor has the waiting); without an object there is *)
(* none, and the two words stay out of the chain.                          *)
Synchronize ==
    /\ Executes("Synchronize")
    /\ m' = IF ~ Holds(m, m.fp + Fetched.n, <<"object">>) THEN Undefined(m)
            ELSE IF At(m, m.fp + Fetched.n).v = 0
            THEN Push(Fetch, <<Word("object", 0), Word("chain", 0)>>)
            ELSE [Push(Fetch, <<Word("object", 1), Word("chain", m.yp)>>)
                    EXCEPT !.yp = Sp(m), !.live = @ + 1]
    /\ Silent

FreeStack ==
    /\ Executes("FreeStack")
    /\ m' = FreeCount(Fetch, Fetched.n)
    /\ Silent

FreeStackLocal ==
    /\ Executes("FreeStackLocal")
    /\ m' = FreeDownTo(Fetch, m.fp + Fetched.n)
    /\ Silent

Jump ==
    /\ Executes("Jump")
    /\ m' = FreeCount([m EXCEPT !.ip = Fetched.to], Fetched.n)
    /\ Silent

JumpNonConditional ==
    /\ Executes("JumpNonConditional")
    /\ \/ /\ Turns < MaxTurns
          /\ m' = Fetch
          /\ Happens("turn")
       \/ /\ m' = FreeCount([m EXCEPT !.ip = Fetched.to], Fetched.n)
          /\ Happens("exit")

JumpConditional ==
    /\ Executes("JumpConditional")
    /\ \/ /\ Turns < MaxTurns
          /\ m' = FreeCount([m EXCEPT !.ip = Fetched.to], Fetched.n)
          /\ Happens("turn")
       \/ /\ m' = Fetch
          /\ Happens("exit")

(* The value of a switch. *)
LoadValue ==
    /\ Executes("LoadValue")
    /\ \E v \in CaseValues :
        /\ m' = Push(Fetch, <<Word("number", v)>>)
        /\ Happens(v)

(* The comparison of a case with the value, a local variable. *)
JumpNonEqual ==
    /\ Executes("JumpNonEqual")
    /\ LET switch == m.fp + Fetched.at[2]
       IN m' = IF ~ Holds(m, switch, <<"number">>) THEN Undefined(m)
               ELSE IF At(m, switch).v = Fetched.at[1] THEN Fetch
               ELSE FreeCount([m EXCEPT !.ip = Fetched.to], Fetched.n)
    /\ Silent

SetRetValue ==
    /\ Executes("SetRetValue")
    /\ m' = [Fetch EXCEPT !.ret = "value"]
    /\ Silent

(* A native function returns a value or throws. *)
CallNative ==
    /\ Executes("CallNative")
    /\ \/ /\ m' = [Fetch EXCEPT !.ret = "native"]
          /\ Happens("done")
       \/ \E kind \in Thrown :
            /\ Throws < MaxThrows
            /\ m' = Throw(Fetch, kind)
            /\ Happens(kind)

(* AsyncRun: no code is left. *)
EndRun ==
    /\ m.status = "running"
    /\ m.code = NoCode
    /\ m' = [m EXCEPT !.status = "halt"]
    /\ Silent

(* FinishFunctionResult takes the result and frees the stack. *)
FinishFunctionResult ==
    /\ m.status = "halt"
    /\ m' = [FreeDownTo(m, 0) EXCEPT !.status = "finished", !.xp = InvalidPtr,
                                     !.fp = 0]
    /\ Silent

Finished == m.status = "finished" /\ UNCHANGED vars

(* AsyncCallFunction: the function is called with no code to return to.    *)
Init ==
    /\ prog \in DOMAIN Code
    /\ m = [code |-> 1, ip |-> 1, fp |-> 0, xp |-> InvalidPtr, yp |-> InvalidPtr,
            stack |-> <<Word("ip", InvalidCodePos), Word("code", NoCode)>>,
            ret |-> "none", exception |-> NoException, live |-> 0,
            status |-> "running"]
    /\ trace = <<>>

Next ==
    \/ EnterFunc \/ LeaveFunc \/ Return \/ Call
    \/ LoadHandler \/ LoadFinally \/ EnterTry
    \/ DoCallFinally \/ DoRetFinally \/ LeaveFinally
    \/ LoadThrown \/ DoThrow \/ LoadException \/ CastObject \/ ClearException
    \/ NewObject \/ PushObjChain \/ AllocStack \/ MakeObjChain \/ StoreLocal
    \/ Synchronize \/ FreeStack \/ FreeStackLocal
    \/ Jump \/ JumpNonConditional \/ JumpConditional \/ LoadValue \/ JumpNonEqual
    \/ SetRetValue \/ CallNative
    \/ EndRun \/ FinishFunctionResult \/ Finished

Spec == Init /\ [][Next]_vars

-----------------------------------------------------------------------------
(* Properties.                                                             *)

AtCall == m.status = "running" /\ m.code # NoCode /\ Fetched.op = "CallNative"

(* Every structure the machine takes off its stack is the one that was put *)
(* there: an exception descriptor, the words CallFinally saved, a return   *)
(* address, an object of the release chain.                                *)
WordsReadAsWritten == m.status # "undefined"

(* Where a statement runs, whatever jump, handler or finally led there:    *)
(* the stack has the words the compiler counted for the place, and the     *)
(* handlers of its function are those of the try statements around it,     *)
(* each at its own place.                                                  *)
FrameAsCompiled ==
    AtCall => /\ Sp(m) = m.fp + Fetched.n
              /\ {xp \in Descriptors(m) : xp >= m.fp}
                    = {m.fp + offset : offset \in Fetched.nest}

(* No object and no lock is lost: where a statement runs and when the run  *)
(* is over, each one not yet released is on the release chain, below sp,   *)
(* and the chain can be released to its end.                               *)
LiveIsChained ==
    AtCall \/ m.status = "halt" =>
        /\ m.live = Cardinality({yp \in Chained(m) : At(m, yp).v = 1})
        /\ FreeFor(m, 0).status # "undefined"

(* A try statement is not left before its finally block has been entered:  *)
(* a descriptor that still has its finally handler stays, or the handler   *)
(* is where execution goes.                                                *)
FinallyEntered ==
    [][m.status = "running" /\ m'.status = "running" =>
        \A xp \in Descriptors(m) \ Descriptors(m') :
            At(m, xp + 1).v = NoHandler]_vars
=============================================================================
