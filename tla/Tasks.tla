------------------------------- MODULE Tasks -------------------------------
(***************************************************************************)
(* Task objects and the driver of their contexts: begin, proceed, finish,  *)
(* throw and rest of a Task, the slices of LContext::AsyncRun, the         *)
(* interrupt signal, and the runs inside a run: a native function of a     *)
(* script may proceed or finish other tasks and its own, and an object     *)
(* that is released runs its finalize() on the context that released it.   *)
(*                                                                         *)
(* An OS thread has a C++ stack of calls of AsyncRun.  An action is what   *)
(* happens between two points where another OS thread may come between:    *)
(* m_mutexRun keeps the others out of a context, but not out of m_signal   *)
(* and m_flagFinished.                                                     *)
(***************************************************************************)
EXTENDS Integers, Sequences, SequencesExt

CONSTANTS Tasks,    \* the LTaskObjs, each with its LContext
          Drivers,  \* the OS threads
          Main,     \* the one that drives the tasks (the timer of the manual)
          Shared,   \* what others do too: "proceed", "finish"; "again": what a task
                    \* does that is called, however indirectly, by itself
          Renewed,  \* bound: the tasks that are begun again
          MaxDepth  \* bound: calls of AsyncRun inside one another

ASSUME TasksAssumption ==
    /\ Main \in Drivers
    /\ Shared \subseteq {"proceed", "finish", "again"}
    /\ Renewed \subseteq Tasks
    /\ MaxDepth \in Nat \ {0}

VARIABLES
    context,   \* what SaveContextState saves
    signal,    \* m_signal
    interrupt, \* m_interrupt
    before,    \* m_state.ctxSave
    result,    \* m_state.valRet and m_state.exception
    finished,  \* m_flagFinished
    calls,     \* the C++ stack of each OS thread
    outcome,   \* history: how the function of the task has ended
    lost       \* history: a signal to abort was cleared before it was seen

taskVars == <<context, signal, interrupt, before, result, finished, calls, outcome, lost>>

(* m_status, m_ip and m_pCodeBuf, m_valReturn, m_exception *)
States == [status : {"aborted", "halt", "running", "awaiting"},
           code : {"none", "function", "leaving", "finalizer"},
           value : {"nothing", "native", "returned"},
           exception : BOOLEAN]

(* The constructor leaves m_status as it is. *)
NewContext(status) ==
    [status |-> status, code |-> "none", value |-> "nothing", exception |-> FALSE]

(* A call of AsyncRun on the context of a task, for AsyncProceed of the task    *)
(* ("proceed", "finish") or for SyncCallFunction ("finalizer"), and where it is. *)
CallFrames == [of : Tasks, by : {"proceed", "finish", "finalizer"},
           pc : {"check", "lock", "loop", "core", "free", "back", "end", "flag"},
           save : States]

TaskInit ==
    /\ \E status \in {"halt", "running"} : context = [t \in Tasks |-> NewContext(status)]
    /\ signal = [t \in Tasks |-> "no"]
    /\ interrupt = [t \in Tasks |-> FALSE]
    /\ before = context
    /\ result = [t \in Tasks |-> [value |-> "nothing", exception |-> FALSE]]
    /\ finished = [t \in Tasks |-> FALSE]
    /\ calls = [d \in Drivers |-> <<>>]
    /\ outcome = [t \in Tasks |-> "none"]
    /\ lost = [t \in Tasks |-> FALSE]

-----------------------------------------------------------------------------
Inner(d) == Last(calls[d])
IsIn(d, pc) == calls[d] # <<>> /\ Inner(d).pc = pc
GoTo(d, pc) == [calls EXCEPT ![d][Len(calls[d])].pc = pc]
Into(d, t, by, pc) ==
    [calls EXCEPT ![d] = Append(@, [of |-> t, by |-> by, pc |-> pc, save |-> NewContext("halt")])]

OnStack(d, t) == \E i \in DOMAIN calls[d] : calls[d][i].of = t

(* Another OS thread holds m_mutexRun of t. *)
Locked(d, t) == \E e \in Drivers \ {d} : \E i \in DOMAIN calls[e] :
    calls[e][i].of = t /\ calls[e][i].pc \in {"loop", "core", "free", "back", "end"}

IsRunning(c) == c.status \in {"running", "awaiting"}

(* Mutant: the last signal wins. *)
LastSignal(old, new) == new

(* SetInterruptSignal: a weaker signal does not replace a stronger one. *)
Stronger(old, new) ==
    LET rank == [no |-> 0, break |-> 1, throw |-> 2, abort |-> 3]
    IN IF rank[old] < rank[new] THEN new ELSE old

(* d executes script: its host, or the core loop of a context. *)
Script(d) ==
    \/ calls[d] = <<>>
    \/ IsIn(d, "core") /\ ~interrupt[Inner(d).of]

(* ... and calls a native function.  After SetRetValue (code "leaving") the      *)
(* function only releases its objects and returns.                              *)
Executes(d) == Script(d) /\ (calls[d] # <<>> => context[Inner(d).of].code # "leaving")

(* The contexts after a native function has returned to its caller, the script  *)
(* that d executes when its calls are cs.                                       *)
WithValue(cs, value, ctx) ==
    IF cs = <<>> \/ ~value THEN ctx ELSE [ctx EXCEPT ![Last(cs).of].value = "native"]
Interrupts(cs, ctx) ==
    [t \in Tasks |-> interrupt[t] \/ (cs # <<>> /\ Last(cs).of = t /\ ctx[t].status # "running")]

-----------------------------------------------------------------------------
(* Methods of a Task that scripts call. *)

Begun(t) == outcome[t] # "none"

(* ResetState, and the call of a script function. *)
ResetState(t, code) ==
    /\ context' = [context EXCEPT ![t].status = "running", ![t].code = code,
                                  ![t].exception = FALSE]
    /\ signal' = [signal EXCEPT ![t] = "no"]

(* begin, of a task that is new or has finished (an assertion). *)
BeginTask(d, t) ==
    /\ Executes(d) /\ d = Main /\ ~Locked(d, t)
    /\ ~Begun(t) \/ (t \in Renewed /\ finished[t] /\ context[t].code = "none")
    /\ finished' = [finished EXCEPT ![t] = FALSE]
    /\ before' = [before EXCEPT ![t] = context[t]]
    /\ ResetState(t, "function")
    /\ outcome' = [outcome EXCEPT ![t] = "pending"]
    /\ lost' = [lost EXCEPT ![t] = FALSE]
    /\ UNCHANGED <<interrupt, result, calls>>

ProceedTask(d, t) ==
    /\ Executes(d) /\ Len(calls[d]) < MaxDepth /\ Begun(t)
    /\ d = Main \/ "proceed" \in Shared
    /\ ~OnStack(d, t) \/ "again" \in Shared
    /\ calls' = Into(d, t, "proceed", "check")
    /\ UNCHANGED <<context, signal, interrupt, before, result, finished, outcome, lost>>

(* SetInterruptSignal( s ) of t *)
Signalled(t, s) ==
    /\ signal' = [signal EXCEPT ![t] = Stronger(@, s)]
    /\ interrupt' = [interrupt EXCEPT ![t] = TRUE]

(* finish: ForceTermination *)
FinishTask(d, t) ==
    /\ Executes(d) /\ Len(calls[d]) < MaxDepth /\ Begun(t) /\ ~finished[t]
    /\ d = Main \/ "finish" \in Shared
    /\ Signalled(t, "abort")
    /\ calls' = Into(d, t, "finish", "check")
    /\ UNCHANGED <<context, before, result, finished, outcome, lost>>

(* throw into another context than the one that d executes *)
ThrowInto(d, t) ==
    /\ Executes(d) /\ Begun(t) /\ ~Locked(d, t)
    /\ calls[d] # <<>> => Inner(d).of # t
    /\ IF IsRunning(context[t]) /\ context[t].code # "none"
       THEN Signalled(t, "throw") /\ UNCHANGED context
       ELSE /\ context' = [context EXCEPT ![t].exception = TRUE]
            /\ UNCHANGED <<signal, interrupt>>
    /\ UNCHANGED <<before, result, finished, calls, outcome, lost>>

-----------------------------------------------------------------------------
(* One call of AsyncRun: d runs the context of t. *)

(* LTaskObj::AsyncProceed looks at m_flagFinished, without a lock. *)
Check(d) ==
    /\ IsIn(d, "check")
    /\ LET t == Inner(d).of
           outer == Front(calls[d])
       IN IF finished[t]
          THEN /\ calls' = [calls EXCEPT ![d] = outer]
               /\ context' = WithValue(outer, Inner(d).by = "proceed", context)
               /\ interrupt' = Interrupts(outer, context)
          ELSE calls' = GoTo(d, "lock") /\ UNCHANGED <<context, interrupt>>
    /\ UNCHANGED <<signal, before, result, finished, outcome, lost>>

(* How an exception that is thrown in the context leaves it: a handler is found, *)
(* or none.                                                                     *)
Thrown(c) ==
    IF IsRunning(c) /\ c.code # "none"
    THEN {[c EXCEPT !.status = "running",
                    !.code = IF @ = "leaving" THEN "function" ELSE @],
          [c EXCEPT !.status = "halt", !.exception = TRUE]}
    ELSE {[c EXCEPT !.exception = TRUE]}

(* ProcessSignal, and where AsyncRun goes on after it; going is where it does so *)
(* without a signal.                                                            *)
ProcessSignal(d, t, going) ==
    \/ /\ signal[t] = "abort"
       /\ context' = [context EXCEPT ![t].status = "aborted", ![t].value = "nothing"]
       /\ outcome' = [outcome EXCEPT ![t] = "aborted"]
       /\ calls' = GoTo(d, "back")
    \/ /\ signal[t] = "throw"
       /\ \E c \in Thrown(context[t]) :
            /\ context' = [context EXCEPT ![t] = c]
            /\ outcome' = IF c.status = "halt" /\ context[t].code \in {"function", "leaving"}
                             /\ outcome[t] = "pending"
                          THEN [outcome EXCEPT ![t] = "thrown"] ELSE outcome
       /\ \E pc \in going : calls' = GoTo(d, pc)
    \/ /\ signal[t] = "break"
       /\ calls' = GoTo(d, "back")
       /\ UNCHANGED <<context, outcome>>

(* The lock, and AsyncRun up to its loop. *)
Enter(d) ==
    LET t == Inner(d).of IN
    /\ IsIn(d, "lock") /\ ~Locked(d, t)
    /\ signal' = [signal EXCEPT ![t] = "no"]
    /\ \/ ProcessSignal(d, t, {"loop"})
       \/ /\ signal[t] = "no"
          /\ \/ /\ context[t].status = "awaiting"
                /\ calls' = GoTo(d, "back") /\ UNCHANGED context
             \/ /\ calls' = GoTo(d, "loop")
                /\ context' = IF context[t].status = "awaiting"
                              THEN [context EXCEPT ![t].status = "running"] ELSE context
          /\ UNCHANGED outcome
    /\ UNCHANGED <<interrupt, before, result, finished, lost>>

(* The head of the loop. *)
Loop(d) ==
    LET t == Inner(d).of IN
    /\ IsIn(d, "loop")
    /\ IF context[t].status = "running" /\ context[t].code # "none"
       THEN /\ interrupt' = [interrupt EXCEPT ![t] = FALSE]
            /\ calls' = GoTo(d, "core")
            /\ UNCHANGED context
       ELSE /\ context' = IF context[t].status = "running"
                          THEN [context EXCEPT ![t].status = "halt"] ELSE context
            /\ calls' = GoTo(d, "back")
            /\ UNCHANGED interrupt
    /\ UNCHANGED <<signal, before, result, finished, outcome, lost>>

(* RunCoreLoop has returned: on to the next turn, unless the time is over. *)
LeaveCore(d) ==
    LET t == Inner(d).of IN
    /\ IsIn(d, "core") /\ interrupt[t]
    /\ signal' = [signal EXCEPT ![t] = "no"]
    /\ \/ ProcessSignal(d, t, {"loop", "back"})
       \/ /\ signal[t] = "no"
          /\ \E pc \in {"loop", "back"} : calls' = GoTo(d, pc)
          /\ UNCHANGED <<context, outcome>>
    /\ UNCHANGED <<interrupt, before, result, finished, lost>>

(* AsyncRun has returned a status: the slice is over, or the function, and       *)
(* FinishFunctionResult takes its value and its exception.  SyncCallFunction     *)
(* goes on with the next slice.                                                  *)
Back(d) ==
    LET t == Inner(d).of
        outer == Front(calls[d])
    IN
    /\ IsIn(d, "back")
    /\ IF ~IsRunning(context[t])
       THEN /\ calls' = GoTo(d, "end")
            /\ result' = IF Inner(d).by = "finalizer" THEN result
                         ELSE [result EXCEPT ![t] = [value |-> context[t].value,
                                                     exception |-> context[t].exception]]
            /\ UNCHANGED <<context, interrupt>>
       ELSE IF Inner(d).by = "finalizer"
       THEN calls' = GoTo(d, "lock") /\ UNCHANGED <<context, interrupt, result>>
       ELSE /\ UNCHANGED result
            /\ calls' = [calls EXCEPT ![d] = outer]
            /\ context' = WithValue(outer, Inner(d).by = "proceed", context)
            /\ interrupt' = Interrupts(outer, context)
    /\ UNCHANGED <<signal, before, finished, outcome, lost>>

(* Mutant: m_signal of an aborted run is not set again. *)
RestoreQuietly(t, save) ==
    /\ context' = [context EXCEPT ![t] = save]
    /\ UNCHANGED signal

(* Mutant: m_valReturn is not restored. *)
RestoreButValue(t, save) ==
    /\ context' = [context EXCEPT ![t] = [save EXCEPT !.value = context[t].value]]
    /\ signal' = IF context[t].status = "aborted"
                 THEN [signal EXCEPT ![t] = "abort"] ELSE signal

(* RestoreContextState: the run around an aborted one is aborted, too. *)
RestoreContextState(t, save) ==
    /\ context' = [context EXCEPT ![t] = save]
    /\ signal' = IF context[t].status = "aborted"
                 THEN [signal EXCEPT ![t] = "abort"] ELSE signal

(* The rest of FinishFunctionResult: the objects of the stack have been released. *)
FinishFunctionResult(d) ==
    LET t == Inner(d).of IN
    /\ IsIn(d, "end")
    /\ IF Inner(d).by = "finalizer"
       THEN /\ RestoreContextState(t, Inner(d).save)
            /\ calls' = [calls EXCEPT ![d] = Front(@)]
       ELSE /\ RestoreContextState(t, before[t])
            /\ calls' = GoTo(d, "flag")
    /\ UNCHANGED <<interrupt, before, result, finished, outcome, lost>>

(* OnFinished, after m_mutexRun has been unlocked. *)
Flag(d) ==
    LET outer == Front(calls[d]) IN
    /\ IsIn(d, "flag")
    /\ finished' = [finished EXCEPT ![Inner(d).of] = TRUE]
    /\ calls' = [calls EXCEPT ![d] = outer]
    /\ context' = WithValue(outer, Inner(d).by = "proceed", context)
    /\ interrupt' = Interrupts(outer, context)
    /\ UNCHANGED <<signal, before, result, outcome, lost>>

-----------------------------------------------------------------------------
(* What the script of a context does besides. *)

(* An instruction makes the core loop return: a call, many jumps ... *)
Interrupt(t) == interrupt' = [interrupt EXCEPT ![t] = TRUE]

Pause(d) ==
    /\ Script(d) /\ calls[d] # <<>>
    /\ Interrupt(Inner(d).of)
    /\ UNCHANGED <<context, signal, before, result, finished, calls, outcome, lost>>

(* Thread.sleep, wait, synchronized: SetAwaiting *)
Await(d) ==
    LET t == Inner(d).of IN
    /\ Executes(d) /\ calls[d] # <<>>
    /\ context' = [context EXCEPT ![t].status = "awaiting"]
    /\ Interrupt(t)
    /\ UNCHANGED <<signal, before, result, finished, calls, outcome, lost>>

(* Task.rest *)
Rest(d) ==
    /\ Executes(d) /\ calls[d] # <<>>
    /\ Signalled(Inner(d).of, "break")
    /\ UNCHANGED <<context, before, result, finished, calls, outcome, lost>>

(* SetRetValue: the function leaves with a value. *)
SetRetValue(d) ==
    LET t == Inner(d).of IN
    /\ Executes(d) /\ calls[d] # <<>> /\ context[t].code = "function"
    /\ context' = [context EXCEPT ![t].code = "leaving", ![t].value = "returned"]
    /\ UNCHANGED <<signal, interrupt, before, result, finished, calls, outcome, lost>>

(* The function of a task ends now, by itself. *)
Ends(t, how) ==
    outcome' = IF context[t].code \in {"function", "leaving"} /\ outcome[t] = "pending"
               THEN [outcome EXCEPT ![t] = how] ELSE outcome

(* return of the outermost function of the run, of a finalizer without a value *)
ReturnFromRun(d) ==
    LET t == Inner(d).of IN
    /\ Script(d) /\ calls[d] # <<>> /\ context[t].code \in {"leaving", "finalizer"}
    /\ context' = [context EXCEPT ![t].code = "none"]
    /\ Ends(t, "returned")
    /\ Interrupt(t)
    /\ UNCHANGED <<signal, before, result, finished, calls, lost>>

(* throw, without a handler in the run *)
ThrowFromRun(d) ==
    LET t == Inner(d).of IN
    /\ Executes(d) /\ calls[d] # <<>>
    /\ context' = [context EXCEPT ![t].status = "halt", ![t].exception = TRUE]
    /\ Ends(t, "thrown")
    /\ Interrupt(t)
    /\ UNCHANGED <<signal, before, result, finished, calls, lost>>

(* The calls of d while an instruction of its core loop releases an object. *)
Releasing(d) == [calls[d] EXCEPT ![Len(calls[d])].pc = IF @ = "core" THEN "free" ELSE @]

(* InvokeFinalizer: an instruction releases the last reference to an object, and *)
(* may release another one after that; so does the end of a run.               *)
InvokeFinalizer(d) ==
    LET t == Inner(d).of IN
    /\ IsIn(d, "end") \/ IsIn(d, "free") \/ (Script(d) /\ calls[d] # <<>>)
    /\ Len(calls[d]) < MaxDepth
    /\ calls' = [calls EXCEPT ![d] =
            Append(Releasing(d), [of |-> t, by |-> "finalizer", pc |-> "lock", save |-> context[t]])]
    /\ ResetState(t, "finalizer")
    /\ lost' = IF signal[t] = "abort" THEN [lost EXCEPT ![t] = TRUE] ELSE lost
    /\ UNCHANGED <<interrupt, before, result, finished, outcome>>

EndInstruction(d) ==
    /\ IsIn(d, "free")
    /\ calls' = GoTo(d, "core")
    /\ UNCHANGED <<context, signal, interrupt, before, result, finished, outcome, lost>>

-----------------------------------------------------------------------------
AsyncRun(d) ==
    Check(d) \/ Enter(d) \/ Loop(d) \/ LeaveCore(d) \/ Back(d) \/ FinishFunctionResult(d) \/ Flag(d)

RunScript(d) ==
    \/ Pause(d) \/ Await(d) \/ Rest(d) \/ SetRetValue(d) \/ ReturnFromRun(d)
    \/ ThrowFromRun(d)
    \/ InvokeFinalizer(d) \/ EndInstruction(d)

TaskMethod(d) ==
    \E t \in Tasks : BeginTask(d, t) \/ ProceedTask(d, t) \/ FinishTask(d, t) \/ ThrowInto(d, t)

TaskNext == \E d \in Drivers : AsyncRun(d) \/ RunScript(d) \/ TaskMethod(d)

TaskSpec == TaskInit /\ [][TaskNext]_taskVars

-----------------------------------------------------------------------------
TaskTypeOK ==
    /\ context \in [Tasks -> States]
    /\ before \in [Tasks -> States]
    /\ calls \in [Drivers -> Seq(CallFrames)]

(* The value and the exception of a finished task are those its function ended   *)
(* with, whatever finalizers, signals and other runs came between.               *)
ResultOfFunction == \A t \in Tasks :
    finished[t] /\ outcome[t] \in {"returned", "thrown"} =>
        IF outcome[t] = "returned" THEN result[t].value = "returned"
        ELSE result[t].exception

(* The function of a task that has been aborted, if only in a finalizer inside of *)
(* it, does not execute another instruction, unless a second finalizer has cleared *)
(* the signal.                                                                   *)
AbortIsFinal == \A d \in Drivers :
    calls[d] # <<>> /\ Script(d) =>
        LET t == Inner(d).of
        IN context[t].code \in {"function", "leaving"} => outcome[t] # "aborted" \/ lost[t]

(* When finish() returns, the task has finished, unless a finalizer has cleared   *)
(* the signal.                                                                   *)
FinishEndsOrLost ==
    [][\A d \in Drivers :
        Len(calls'[d]) < Len(calls[d]) /\ Inner(d).by = "finish" =>
            finished'[Inner(d).of] \/ lost[Inner(d).of]]_taskVars
=============================================================================
