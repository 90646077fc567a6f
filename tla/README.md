# Verification of the Loquaty virtual machine

Loquaty is a statically typed script language with a compiler and a virtual machine in C++
(`src/Loquaty`).  Scripts run in *contexts* (`LContext`, an interpreter with a stack).  A context is
driven either by an OS thread of its own (class `Thread`) or, in slices, by whoever calls
`proceed` on it (class `Task`, a light-weight thread).  Every object can be locked
(`synchronized( obj )`) and waited on (`wait`, `notify`, `notifyAll`), as in Java, but the
implementation is home-made: one process-wide mutex, intrusive lists of monitors, condition
variables that are polled, and locks that move from one call to the next.  That, and the life of
threads and of the objects that represent them, is where this code is hard to test.  So is what the
compiler and the machine take on trust from one another: a stack of words without types, slots of virtual
functions, offsets of structures, addresses of buffers that move.

Line numbers below are those of `src/Loquaty/source/*.cpp` unless a directory is named.

## 1. Inventory

| component | state it keeps | operations | interacts with | what makes it correct |
|---|---|---|---|---|
| **Object monitors** `loquaty_object.cpp:508-1003` | `m_pSynchronized` (owner, count), the chain from `m_pFirstMonitor`, static `s_mutex`; in a context: `LSyncLockerObj`s on the stack, `m_monitor`, `m_awaiting` with an `LAwaitingNotification` | `synchronized`, end of a block, `wait`, `notify`, `notifyAll`, polls | the interpreter (`SetAwaiting`, `FreeFor`, `ProcessSignal`), OS threads through condition variables | mutual exclusion; `wait` gives the whole lock up and takes the whole lock back; no list refers to a destroyed monitor; nobody is stranded |
| **Thread objects and the list of the machine** `loquaty_obj_thread.cpp`, `loquaty_virtual_machine.cpp:908-996` | `m_flagAsync`, `m_flagFinished`, `m_thread`, list links, `m_countRef` | `begin`, `finish`, `throw`, `waitFor`, the thread loop, `TerminateAllThreads` | contexts (signals, `m_mutexRun`), `LVirtualMachine::Release` | the list holds exactly the running threads; counts are exact; after `TerminateAllThreads` no script runs; calls return |
| **Tasks, the asynchronous driver** `loquaty_context.cpp:163-236, 618-710` | `m_status`, `m_signal`, `m_awaiting`, saved `AsyncState` | `AsyncCallFunction`, `AsyncProceed`, `SetInterruptSignal`, `ProcessSignal`, `rest` | everything that awaits; `Task.proceed` from any thread | one driver at a time; a function ends once, with its own result; an abort is final |
| **Exceptions** `loquaty_context.cpp` `EnterTry` ... `Throw`, `FreeFor` | the chains `xp`, `yp` on the stack | `try`, `catch`, `finally`, `throw`, `return` through `finally` | lockers and other temporaries on the stack | every `finally` runs once, every locker is released |
| **Pointers into moving buffers** `loquaty_array_buffer.cpp`, `loquaty_obj_pointer.cpp` | chain of `LPointerObj`s notified by an `LArrayBuffer` | attach, detach, reallocate | native structures, arrays of bytes | no pointer keeps an old address; no access outside the buffer |
| **Reference counts** `include/loquaty_object.h:72-112` | `m_countRef` | `AddRef`, `ReleaseRef`, `FinalizeObject` | everything | freed once, by the last reference |
| **Interpreter** `loquaty_context.cpp`, `loquaty_operator.cpp`, `loquaty_code_buffer.cpp` | stack, `ip`, `sp`, `fp`, `dp` | about 100 instructions | one context only | sequential |
| **Compiler** `loquaty_compiler*.cpp` | source position, code buffer, control stack, the values on the stack (`m_xvaStack`) | expression and statement translation | classes, types | the code does what the source says; every temporary is freed once |
| **Classes, overloads, virtual vectors** `loquaty_class.cpp`, `loquaty_function.cpp`, `loquaty_namespace.cpp`, `loquaty_type.cpp` | tables built while compiling | add, override, select | compiler | an override takes the slot of what it overrides |
| **Structure layout** `include/loquaty_arrangement.h` | offsets, alignment | add member | native classes | members do not overlap; a cast to a base finds its members |
| **Parser, numbers, strings** `loquaty_parser.cpp`, `loquaty_string.cpp` | position in a text | pure text processing | compiler | sequential |
| **Collections and values** `loquaty_obj_array.cpp`, `_map`, `_generic`, `_string`, `loquaty_value.cpp` | elements | get, set, add, remove | scripts of any thread, without lock | names and elements of a map agree; sharing it looks like one dictionary |
| **Date and time** `loquaty_date_time.cpp` | year, month, day | days since the year 1 and back | scripts | no day is lost |
| **Library classes** (`Math`, `Clock`, `Console`, `File`, streams, XML) | files, documents | wrappers | operating system | - |
| **Debugger** `loquaty_debugger.cpp`, **modules and plug-ins** `loquaty_module.cpp`, **command line** `src/build/LoquatyCLI`, **script libraries** `src/Loquaty/bin/library` | - | - | - | - |

### What is hard here

* *Lists that lose members.*  `DetachMonitor` (:806) and `NotifyMonitor` (:724) end the chain at the
  element before the one they remove, so everything behind it silently leaves the list.
  Correctness of waiting then rests on polling alone.
* *A lock that outlives the call that took it.*  `LAwaitingNotification` owns `s_mutex` from
  `AwaitNotification` to the end of `wait()`, between the slices of its context too.
* *Interrupts in the middle of `wait()`.*  `Task.throw` and `Task.finish` destroy the
  `LAwaitingNotification` while the lockers of the enclosing blocks stay on the stack.
* *Flags that OS threads share without a lock* (`m_flagFinished`, `m_flagAsync`): between a check and a
  sleep, between `BeginAsync` and `AttachThread`, between a check and `m_mutexRun`.
* *Structures without a type on one stack.*  Frames, exception descriptors, the words that `finally`
  saves, lockers and temporaries lie on one stack of untyped words.  The compiler counts the words, and
  inserts code before every jump out of a nest; the machine takes what is there for what it expects.
* *Destructors that join*: the last reference to a `Thread` may be released by that thread.
* *Runs inside runs.*  A finalizer runs on the context that released the object, between two
  instructions of another function, with the same registers and the same signal word.
* *Copies that must follow.*  A pointer caches the address of a buffer, a class has copies of the vectors of
  its bases, a structure the offsets of its bases, a map two indexes of the same elements.
* *A C++ variable as a stack slot.*  A value stays on the stack of the compiled expression for as long as some
  variable of the compiler holds it; code that is compiled and thrown away must leave no trace there.

The list `hazards` in `PROJECT.json` has one entry for each of them, at its line, with the properties
that cover it or the reason why none does.

## 2. Modules

| module | what it is |
|---|---|
| `Monitor.tla` | The monitors: `synchronized`, nesting, `wait`, `wait( timeout )`, `notify`, `notifyAll`, polls, throw and finish, for contexts that share OS threads or have their own. |
| `MonitorSpec.tla` | The abstract lock a script may rely on: reentrant, given up and taken back as a whole by `wait()`. `Monitor` implements it (`ImplementsLock`). |
| `MonitorProof.tla` | Proofs: the list operators and the inductive invariant; the action properties and the refinement. |
| `Threads.tla`, `ThreadsProof.tla` | `Thread` objects, their OS threads, the list of the machine, reference counts, `TerminateAllThreads`; the inductive invariant of all that. |
| `Tasks.tla`, `TasksProof.tla` | `Task` objects, the asynchronous driver of their contexts, and runs inside runs; the invariants behind its three properties. |
| `CodeGen.tla` | The compiler's part of leaving a nest: the code for every statement of the language that opens, closes or leaves one. |
| `Structured.tla` | The meaning of these statements without stack or jump. |
| `CodeBuffer.tla` | The records of `LCodeBuffer` that compiler and machine lay on the stack, word by word. |
| `Unwind.tla` | The machine's part: the stack, the chains `xp` and `yp`, one action per instruction; it executes any code. |
| `Frames.tla`, `StackMaps.tla` | Stack maps, which say what words a frame has at each instruction, and `FitsMachine`: code that fits the machine, decided one instruction and its successors at a time, as the verifier of a byte code does. |
| `StackMapOf.tla` | The stack maps of code, found by following it (for TLC). |
| `Compiled.tla` | `Unwind` with the code of `CodeGen`, compared with `Structured`, and the maps of `StackMapOf`. |
| `UnwindProof.tla` | Proofs: `Unwind` with any code that fits. |
| `Expressions.tla` | The compiler of expressions, the machine that runs its code, and what the expressions mean. |
| `Pointers.tla`, `PointersProof.tla` | Pointer objects into buffers that move: the stack of a context and allocated buffers. |
| `Maps.tla`, `Dictionary.tla` | A `Map` that threads share, lock by lock; the dictionary it implements (`IsDictionary`). |
| `Classes.tla`, `ClassesProof.tla` | Derivation, virtual vectors, overriding, overload resolution. |
| `Structs.tla`, `StructsProof.tla` | The layout of structures: members, arrays, bases, initial values. |
| `Calendar.tla` | Days into dates and back. |
| `LibraryProof.tla` | Proofs: maps, and that the divisions of the calendar return the date. |
| `MCMonitor`, `MCConcurrency`, `MCUnwind`, `MCSentences`, `MCPointers`, `MCLibrary` | Instances for TLC. `MCSentences` builds the expressions; `MCLibrary` puts the seven modules that share no state side by side, and `MCConcurrency` does so with `Threads` and `Monitor`: a behaviour runs one of them (`part`). |

### `Monitor` and the code

One action is one critical section of `s_mutex`.

| state | in the code |
|---|---|
| `owner[o]`, `count[o]` | `m_pSynchronized->pContext` and `->countSync` (`NoContext`: null) |
| `chain[o]` | the monitors linked from `m_pFirstMonitor`; a monitor is `<<c, "lock">>` (`LContext::m_monitor`), `<<c, "notify">>` or `<<c, "relock">>` (`m_monNotify`, `m_monSync`) |
| `lockers[c]` | the `LSyncLockerObj`s on the stack of `c`; `pending` is `m_flagLocked = false` |
| `await[c]` | the `LAwaitingNotification`: `saved` is `m_pPrevSync->countSync`, `listening` is `m_flagWaiting` |
| `pc[c]` | running script, `statusAwaiting` in `synchronized` or in `wait()`, inside one of the two condition waits, unwinding, dying, done |
| `hung` | the contexts whose OS thread has locked `s_mutex` twice |

`MutexFree` is derived: between two actions `s_mutex` is locked exactly while some context is
`waiting`, that is in `wait()` but not inside a condition wait.

| action | code |
|---|---|
| `Synchronize`, `WaitSync` | `instruction_Synchronize`, `LockSynchronized`, `WaitSynchronized` |
| `Leave` | `~LSyncLockerObj` with `UnlockSynchronized` or `DetachMonitor`, both under `s_mutex` (`CanUnlock`) |
| `AwaitNotification` | `method_wait0`, `method_wait1`, `AwaitNotification` |
| `WaitPoll`, `WakeUp` | `LAwaitingNotification::Wait` up to the condition wait, and from it |
| `RelockWakeUp`, `RelockPoll` | the second half of `Wait`, after its condition wait and at the next poll |
| `Expire` | time passes in `LTimeoutRemaining::Remaining` |
| `Notify`, `NotifyAll` | the methods, with `NotifyMonitor` and `NotifyAllMonitor` |
| `Throw`, `Abort` | `ProcessSignal` with `interruptThrow` and `interruptAbort`, and `~LAwaitingNotification` |
| `End`, `Begin` | the function of a context ends, `AsyncCallFunction` |
| `Hang` | a context wants `s_mutex` (`WantsMutex`: for a statement, a method, a poll, or to release a locker at the end of a block, in an exception or in `finish`) in an OS thread that keeps it for another one |

Abstractions.  A poll of `synchronized` that finds the lock taken changes nothing and is not a step.
`LObject::WaitNotification` is not modelled: nothing in the sources calls it.  No slice is unlimited
(`proceed( -1 )`).  What a condition wait reports is a choice (`notified` in `WakeUp`): it is entered once and without
predicate (:971-974), so a spurious wake-up counts as a notification and ends `wait()` without cause, and a
notification that `wait_for` reports as a time-out counts as an empty poll.  `woken` only remembers that the
condition variable was notified; no guard reads it.  A locker that lost its lock to a throw
is marked `lost`; the mark is a history variable that no guard of the code reads.

### `Threads` and the code

One action is a critical section of `m_mutexThreads`, one access to a flag that OS threads share
without a lock, or a slice of a context under `m_mutexRun`.

| state | in the code |
|---|---|
| `first`, `prev`, `next` | `m_pFirstThread`, `m_pListPrev`, `m_pListNext` |
| `refs`, `known`, `freed` | `m_countRef`; the objects that script variables refer to; the deleted ones |
| `async`, `finished`, `signal` | `m_flagAsync`, `m_flagFinished`, `m_signal` of the context |
| `running` | contexts that are inside the function given to `begin` |
| `os[t]` | where the loop of `BeginThread` is: before a slice, in it, after the end of the function, between `DetachThread` and `m_flagFinished`, ended |
| `call[a]` | the native function an actor (a thread, or the host `Main`) is in |
| `killer`, `victim` | the host inside `TerminateAllThreads`, and its `pThread` |
| `fault` | a `std::thread` has joined itself: the process is terminated |
| `early` | history: `finish` has ended a function that `begin` was still starting |

`begin` is three steps after `BeginAsync` (`ClearAsync`, `Attach`, `Spawn`), the end of a thread is
three (`Return`/`Abort`, `OnFinished`, `Flag`), `finish` is `Finish` and then, if it sees `m_flagAsync`,
`FinishProceed`, `FinishLeaveList`, `FinishFlag`; `TerminateAllThreads` is one action per line of its loop,
with the check of `m_flagFinished` and the sleep apart (`CheckVictim`, `FallAsleep`), because
`OnFinished` does not take the mutex of that condition wait.

Abstractions.  What scripts compute is a choice among calls; they return when they like and catch what
they like.  Each object is referred to by one variable, which may be cleared while the thread runs (`Drop`).
Any actor may call anything of anybody: threads throw at one another, and `finish` may meet a thread between its
`BeginAsync` and `AttachThread` (:506).  In that case it takes the `m_flagAsync` of the thread for that of a `Task`,
ends the function itself and calls `DetachThread` for a thread that is not in the list, which empties the list
and releases a reference that was not the list's; then the thread is attached all the same.  `ListHoldsAttached`,
`RefsCounted`, `QuietAfterTermination` and `WaitedIsDetached` do not survive that: a list that has lost threads and
counts that are too small are what the other parts rely on.  These four, `SelfJoinIsOrphan`, `AbortEnds`,
`OnlyRingsBlock` and `TerminationEndsOrSleeps` are therefore stated up to this moment, by the history `early`; the
behaviours themselves go on, and `WaitForReturns` is stated of all of them.  `proceed` of a `Thread`, `sleep`, `GetThreadList` and a second `begin` of an object
that has an OS thread (an assertion forbids it, :499) are left out.

### `Tasks` and the code

An OS thread has a C++ stack of calls of `AsyncRun`; an action is what happens between two points where
another OS thread may come between.  `m_mutexRun` keeps the others out of a context, but not out of its
`m_signal` and its task's `m_flagFinished`.

| state | in the code |
|---|---|
| `context[t]` | what `SaveContextState` saves: `m_status`, code and address, `m_valReturn`, `m_exception` |
| `signal[t]`, `interrupt[t]` | `m_signal`, `m_interrupt` |
| `before[t]`, `result[t]`, `finished[t]` | `m_state.ctxSave`, `m_state.valRet` and `.exception`, `m_flagFinished` |
| `calls[d]` | the C++ stack: for each `AsyncRun` the context, the caller (`proceed`, `finish`, a finalizer) and where it is |
| `outcome`, `lost` | history: how the function ended; an abort was cleared before the context saw it |

| action | code |
|---|---|
| `BeginTask`, `ProceedTask`, `FinishTask`, `ThrowInto` | the methods of `LTaskObj`; `finish` sets the signal and then proceeds |
| `Check`, `Enter` | the test of `m_flagFinished` in `AsyncProceed`, locking `m_mutexRun` |
| `Loop`, `LeaveCore`, `Back` | the loop of `AsyncRun` with `ProcessSignal`, its end, the way back to the caller with `RestoreContextState` |
| `FinishFunctionResult`, `Flag` | the end of a function: the result, then `m_flagFinished` |
| `Pause`, `Await`, `Rest`, `SetRetValue`, `ReturnFromRun`, `ThrowFromRun`, `EndInstruction` | what the script may do in a slice |
| `InvokeFinalizer` | `SyncCallFunction` of `finalize()` when an object is released |

One thread drives (the timer of the manual), the others throw.  `Shared` lets them do more.  With `"proceed"`
or `"finish"` shared, or `"again"` (a task that is proceeded by what it calls), `ResultOfFunction` fails: the
second driver has passed `Check` before the first one ends the function, ends it once more and overwrites the
result with what `ctxSave` holds.  So it does with a task in `Renewed`, which is begun again: a run of its
first function may still be on the stack of calls.  `AbortIsFinal` holds in all of them.  A finalizer calls `ResetState`
(`loquaty_context.cpp:417`), which clears `m_signal`: an abort that arrives just before is lost, and `finish()`
returns although the task goes on, which `class.cpp:3886` ("ends the task at once") does not expect.  The
properties exempt such an abort by the history `lost`.

### `CodeGen`, `Unwind`, `Structured` and the code

A run of `Compiled` picks a program, compiles it with `CodeGen` and executes it with `Unwind`, one instruction per
step.

| state | in the code |
|---|---|
| `prog` | the script; `Code[prog]` are its `LCodeBuffer`s, one per function |
| `m.code`, `m.ip`, `m.fp`, `m.xp`, `m.yp` | `m_pCodeBuf`, `m_ip`, `LStackBuffer::m_fp`, `m_xp`, `m_yp` |
| `m.stack` | the words below `m_sp`, each with the meaning it was pushed with (`is`) |
| `m.ret`, `m.exception` | `m_valReturn`, `m_exception`; `m_thrown` is a parameter of `Throw` and `CallFinally` |
| `m.live` | objects and lockers that were created and not released: a history variable |
| `m.status` | `statusRunning`, `statusHalt`, the result was taken; `undefined` once words were read for others |
| `trace` | the choices the script made (a native call returned or threw, a loop turned again): a history variable |

| action | code |
|---|---|
| `EnterFunc` ... `SetRetValue` | the instruction of that name in `loquaty_context.cpp:965-1757` |
| `LoadHandler`, `LoadFinally`, `LoadThrown` | `codeLoadImm` before `codeEnterTry`, the operand of `codeThrow` |
| `CastObject` | `codeCastObject`, the test for null and the jump to the next clause |
| `CallNative` | `micro_instruction_Call` of a native function, and `ThrowException` |
| `EndRun`, `FinishFunctionResult` | the end of `AsyncRun`, `FinishFunctionResult` |

`CodeGen` has one operator per `ParseStatement_...`; `JumpOut` and `LeaveBlocks` are `FixJumpDestination`.
The source emits a jump and inserts codes before it when its destination becomes known; `CodeGen` emits
them in order and turns labels into positions at the end (`Resolve`), which is what `InsertCode` and
`UpdateCodeJumpPoints` come to.  Expressions are one call of a native function that holds a temporary
object; exceptions come from those calls and from `throw`.  A `finish` or `throw` sent by another thread
is in `Monitor`.  The value of a `switch` is one word, nothing is declared directly in its body, and a label stands in
a list of statements around its `goto`.  `throw null` and captured objects are left out, and so
is a catch clause behind one without a type (the later clause would take over its handler).

`Structured` says how a statement completes, given the choices in `trace`: it goes on, leaves by `break`,
`continue`, `return` or `throw`, or is not finished.  `RunsAsWritten` replays the trace in every state, so it says
that the machine executes the statements of the source in their order, each `finally` block once,
however control got there.

The machine checks nothing of what it executes: that `LeaveTry` finds a descriptor is the compiler's promise.
`StackMaps` writes this promise down.  A stack map has the words of the frame at each instruction, with the
positions of handlers and with whether an object is on the release chain yet; `Fits` says what the
machine takes for granted at an instruction and what it leaves for the next ones: that jumps to one place bring
the same words, that a handler starts with the words of its descriptor, a `finally` block with the saved ones on top.
That is all the proofs assume of code.

### `Expressions` and the code

`LCompiler` evaluates an expression while it parses: `m_xvaStack` is the list of the values the code will have
pushed, each is addressed by its distance to the top, and a word is freed with the next instruction that
can free once no C++ variable holds the value (`shared_ptr::use_count`).  In the module the state of the
compiler is a record that each operator takes and returns (code, size of the stack, `m_codeBarrier`, error);
the values a caller still holds are the parameter `held`.  There is one operator per method
(`ExprCodeStore`, `ExprCodeMove`, `ExprCallFunction`, `ParseOperatorLogical`,
`ParseOperatorConditionalChoise`, ...), the methods for `&&`, `||` and `?:` have one per stage.

| state | in the code |
|---|---|
| `sentence` | the expression and its compiled code |
| `mach.stack`, `mach.yp`, `mach.ip`, `mach.ret`, `mach.locals` | the words below `m_sp`, `m_yp`, `m_ip`, `m_valReturn`, the variables `i` (an integer) and `o` (an object) |
| `mach.count` | `m_countRef` of the objects, numbered as they are made |
| `mach.calls` | history: the calls of `f` and `g` with their arguments |
| `parity` | what `f` returns: even or odd numbers, so that both sides of a condition are taken |

`Meaning` evaluates the expression with no stack at all.  `CallsAsMeant` compares the two at the end of the
statement, also when one of the calls threw.  An operand that is a variable is read when the operator it belongs
to is applied, not before: `i + f( i = 3 )` adds the new value.  That is what the compiler does and no
document says otherwise, so `Meaning` does the same.

Two mistakes of the compiler are marked in `flaws` of the compiled code, and left out by the constant
`Flaws` where a property does not hold with them:

* `skipped` (204 of the 4279 expressions of `MCSentences`): when a constant decides `&&`, `||` or `?:`, the
  other operand is compiled and its code discarded, but the value it would have pushed stays on `m_xvaStack`
  (`loquaty_compiler_expression.cpp:4717`).  Everything behind is addressed one word too low.  In the program, a
  variable is overwritten.  `CallsAsMeant` does not hold for these.
* `unowned` (450): the objects of `?:`, see `expressions_choice` in section 3.  `CallsAsMeant` holds, `CountsExact`
  does not.

Left out: members, elements, constructors, pointers, and casts (all integers are of one type, where the
compiler would cast a small literal).

### The other modules

| module | state | actions | granularity |
|---|---|---|---|
| `Pointers` | `place`, `words`: address and size of each buffer; `sp`, `frames`; `ptr[p]`: the fields of an `LPointerObj` with its cached address and size; `chain[b]`: the list from `m_pChainFirst`; `local`: history, the call a pointer's variable belongs to | `AllocStack`, `FreeStack`, `Call`, `Return`, `Throw`, `LoadLocalPtr`, `AllocBuf`, `ResizeBuffer`, `ReserveBuffer`, `Copy`, `Element`, `Destroy` | one instruction, or one native call |
| `Maps` | `array` (`m_array`), `index` (`m_map`), `mtxMap`; per thread `request`, `phase`, `found`, `out` | `Find`, `KeyAt`, `LookUp`, `GetElementAs`, `SetElementAs`, `CloneObject`, `GetElementAt`, `SetElementAt`, `Size`, `FindToRemove`, `TakeOut`, `Erase`, `RemoveElementAt`, `ClearArray`, `ClearMap`, `CloneMap`, `CloneArray` | one section of `m_mtxMap` or `m_mtxArray` |
| `Classes` | `super`, `implements`, `stage`; `vectors[c][d]`: what an object of `c` has for a reference of type `d`; `invisible`, `finalizer` | `AddSuperClass`, `AddImplementClass`, `OverrideVirtualFunction`, `CompleteClass` | one declaration |
| `Structs` | `layout[s]` (`LArrangement`), `proto[s]` (initial bytes), `offsets[s]`, `bases[s]`, `declares[s]` | `AddBase`, `AddMember`, `CompleteStruct` | one declaration |
| `Calendar` | `date` | `CalendarNext`: a date, its count plus one, a date | one day |

`FindCallableFunction` in `Classes` and `Granted` in `Pointers` (`GetPointer`, the check of every access) are
operators that the properties use.  A map's `removeAt`, `removeAs` and `:=` give the locks up between their parts,
where the index does not match the array; `Exclusive` names the operations that scripts have to call under
`synchronized`, and with an empty `Exclusive` neither property of `Maps` holds.

Abstractions.  `Pointers`: one context, offsets in words modulo `Modulus` (`size_t`), the chain as a set.  Raw
addresses (`fetch_addr`) are outside, as the manual declares them unchecked.  A local variable of a call
that an exception has left is not covered by `DeadLocalRefused`: only `Return` tells the pointers, and such
a pointer stays valid while the stack reaches over it.  Sums of offset and size wrap around as `size_t` does, so that an
access that begins before the buffer by no more than its own length is granted, as in the code
(`include/loquaty_obj_pointer.h:92`).  `Classes`: the functions of one name; errors the compiler
reports are guards.  `Structs`: a structure that is named twice as a base, or is a member before it is
complete, is left out; the number of its bases is not limited.  `Maps`: a map is not assigned to itself.

## 3. Runs

| run | instance | what it shows |
|---|---|---|
| `monitor_safety` | 2 tasks on one OS thread (one driven by `proceed( 0 )`) and a thread, 1 object, nesting 2, throw, finish, spurious wake-ups, late time-outs | `Exclusion`, `NoDanglingMonitor`; whoever `notify` and `notifyAll` take off the list is inside its condition wait, since `NotifyMonitor` leaves `m_flagSignaled` alone (`NotifyReachesWaiter`); counters agree with the blocks (`LockMatchesBlocks`); `ImplementsLock`: refinement of `MonitorSpec`; `HangFreezesLocks`: once an OS thread has deadlocked itself no lock of the process moves |
| `concurrency`: threads | 2 threads and the host, all calls of all actors, fair | `ListHoldsAttached`, `RefsCounted`, `QuietAfterTermination`, `WaitedIsDetached`; `SelfJoinIsOrphan`: only a thread nobody refers to joins itself; that calls end: `AbortEnds`, `TerminationEndsOrSleeps`, `WaitForReturns`; `OnlyRingsBlock`: a thread keeps its `m_mutexRun` for ever only in a ring of threads that throw at one another (hazard at :228) |
| `concurrency`: monitors | 2 contexts, 1 object, fair | `FreeLockIsTaken`, `TimedWaitEnds`, `WaitReturns`, although notifications are lost to truncated lists and late time-outs |
| `unwind` | 2238 programs: every nest, pairs of nests, triples of those that meet in a descriptor, around 7 ways to leave | the machine implements the statements (`RunsAsWritten`, `ResultAsWritten`), finds its structures where it put them (`WordsReadAsWritten`), counts words and handlers as the compiler did (`FrameAsCompiled`), loses no object or lock (`LiveIsChained`) and skips no `finally` (`FinallyEntered`); the code of every program fits the machine (`CodeFits`), which is what the theorems about `Unwind` assume |
| `library`: pointers | 2 pointers, stack and 1 buffer, 1 nested call | no pointer misses a reallocation (`PointersFresh`), an access that is granted ends within the vector (`AccessIsAllocated`; `pointers_before` is about where it begins), a dead local stays refused when the stack grows over it again (`DeadLocalRefused`) |
| `library`: maps | 2 threads, 2 names, 2 values | `IsDictionary`: each operation takes effect at one moment; `NamesMatchElements` |
| `library`: classes | 3 classes and `Object`, 4 prototypes, public and private | slots a call is compiled for exist with this prototype in every vector (`VectorsFit`); overriding works through every reference (`OverridesCalled`) |
| `library`: structs | 4 structures, 3 bases | `LayoutSound`: members apart and aligned, completed prototypes with all bytes of an instance; while all bases are regular, where a cast to any base finds them, with their initial values |
| `library`: calendar | 400 years | `DaysFollow`: the day after each date is its successor |
| `library`: tasks | 2 tasks, one driver, one that throws | `ResultOfFunction`, `AbortIsFinal`, `FinishEndsOrLost`, with finalizers and tasks that drive tasks |
| `library`: expressions | 4075 expressions: every operator over every operator | `CallsAsMeant`: the calls, arguments and assignments the expression is written with, and an empty stack; `CountsExact`: every object is owned as often as it is counted |

Eight runs end in a counterexample to a sentence of the documentation or of a comment:

| run | sentence | what happens |
|---|---|---|
| `monitor_notify_all` | `notifyAll` wakes all waiting threads (`doc/system/Object.xhtml:68`) | a timed wait that expired has cut the list: the other thread is not in it |
| `monitor_throw` | the statement runs under exclusive control (`doc/manual.xhtml:2959`) | throw into `wait()`, caught inside the statement: it goes on without the lock |
| `threads_terminate` | terminates the running threads (`loquaty_virtual_machine.cpp:979`) | lost wake-up in `WaitForThread`: it never returns |
| `threads_unreferenced` | a thread nobody refers to is terminated (`doc/manual.xhtml:220`) | it runs on, and at its end deletes its own object, whose destructor joins the calling thread |
| `unwind_finally` | `LeaveFinally` leaves a `finally` block halfway (`include/loquaty_code_buffer.h:98`) | `return` frees no variables of the block first (:3254): it pops them for the saved words |
| `unwind_switch` | a value without label goes to `default` (`doc/manual.xhtml:2702`) | a label is a comparison in the way of the statements that run on into it (:2733); behind a `default`, for ever |
| `pointers_before` | an access out of the range throws, without destroying memory (`doc/manual.xhtml:994`) | the element just before a buffer: `p[-1]` of an `int*` is offset 2^64-4, and 4 bytes more are 0, which is within the bounds (`include/loquaty_obj_pointer.h:92`) |
| `expressions_choice` | released when all references are gone (`doc/manual.xhtml:3053`) | `a ? b : c` with objects owns one reference and releases it twice (:4670) |

`unwind_finally`, `unwind_switch`, `expressions_choice`, `pointers_before` and the `skipped` operands were reproduced
with the program: the first and the third crash, the second prints the statements of two labels, the fourth
damages the heap (`p[-1] = 1` with `new int[10]`, where `p[10]` throws), the last overwrites a variable.

### What the passing runs leave out

A passing run says something of the cases it contains; these are not among them, because a property fails there.

* `unwind`: returns out of a `finally` block (`ReturnsFromFinally`) and labels that statements run on into, the
  subjects of two runs above.
* `unwind`, `LeavesTwoHandlers`: `break` or `continue` out of a `catch` or `finally` block inside a `finally`
  block.  In `FixJumpDestination` (`loquaty_compiler_expression.cpp:8875-8917`) a step over such a block passes its
  `try` as well, while `iLocalNest` moves by one, so that the `FreeStack` before the next `LeaveFinally` has the
  words of another nest, and `LeaveFinally` reads words that are not the saved ones.
* `unwind`, `DiscardsRefused`: `break` or `continue` out of a `finally` block whose typed `catch` refused the
  exception.  `LeaveFinally` discards the exception in flight (`loquaty_context.cpp:2074`), but `m_exception` still
  has it from the dispatch to the clause, and `FinishFunctionResult` reports it although the function returned.
* `unwind`, seen from `CodeFits`: of the 2501 programs of `MCUnwind` TLC finds 161 whose code does not fit the machine: all
  104 of `LeavesTwoHandlers` and 57 of the 95 of `ReturnsFromFinally`.  All others fit, so that `UnwindProof` speaks of
  them; what is wrong with a `switch` or with a refused exception is not a matter of the stack.
* `library`, expressions: the flaws of section 2.
* `library`, structs: a base from the third on is placed at the allocated size of those before it, but found, and its
  initial values copied, at this size rounded up to the alignment of all (`loquaty_class.cpp:3648`).  The run has such
  layouts.  `LayoutSound` asks them to keep members apart and prototypes whole; that casts find the bases, and that
  prototypes are no longer than an instance, it asks only while every base is *regular*, that is while its alignment,
  or that of the base before it, is the largest so far.  Every first and second base is regular; bases of `long`, `byte` and
  `byte` in this order are not, and there the property without this condition fails, although the manual says that
  derivation works as in C++ (`doc/manual.xhtml:2404`).
* `library`, tasks: several drivers of one task, aborts cleared by a finalizer.
* `library`, maps: scripts that remove or assign without `synchronized`.
* `library`, pointers: accesses that begin before the buffer, the subject of a run above: `AccessIsAllocated` says how far
  before it they may begin, `DeadLocalRefused` leaves them out.
* `library`, classes: `OverridesCalled` speaks of references to classes all of whose functions (of the name called)
  are public.  Private ones are made invisible to subclasses (`MakePrivateInvisible`), which may then declare functions of
  their own.  And where `S extends X` overrides a public `p` of `X` by a protected one, `C extends S implements I`, with `I`
  derived from `X`, gets the `p` of `X` a second time: `ImplementVirtuals` looks for a public function
  (`loquaty_class.cpp:305`), does not see that of `S`, and appends that of `X`, which a call of `p` on a `C` then finds.
* `concurrency`: what happens once `finish` has met a `begin` (`early`) or a thread has joined itself (`fault`) is in the run,
  but no safety property is stated of it.  That `throw` returns does not hold: two threads that throw at one another
  wait for ever.
* `monitor_safety`: that `wait()` has a cause (a notification or its time-out) when it ends does not hold, for a condition
  wait may wake spuriously.  That a notified `wait()` ends does not hold either, for its notification may be taken for a
  time-out (:976); a `wait()` without time-out then is off the list and no later `notify` reaches it.  `TimedWaitEnds` is
  what remains.

### Comparison with the program

`Expressions` and `CodeGen` contain a compiler, which could be wrong where the real one is right.  All 4279
expressions of `MCSentences` and all 2501 programs of `MCUnwind`, those left out of the passing run included,
were therefore written as scripts, compiled by the program, and its disassembly (`lqc /DF`) compared with the
code of the modules: the same instructions with the same operands for the expressions, the same control
instructions with the same frames and destinations for the statements.

### Bounds

* *Contexts of monitors.*  The list bug needs two waiters and a notifier: three.  Mutual exclusion between a
  holder, a blocked context and one that returns from `wait()` needs three as well.  The truncation of a
  list can drop one, two or no monitors with three contexts.
* *Objects of monitors.*  One: objects share only `s_mutex`, which every context may hold or want anyway.  A
  context that is in blocks on one object while it waits on another is not covered by the runs; the theorems
  are for any set of objects.
* *Nesting.*  `MaxNest = 2` distinguishes the first from the last `UnlockSynchronized` and makes the saved
  count of `wait()` differ from 1.  `MaxNest` is the only bound of `Monitor` that the code does not have.
* *Threads.*  Two and the host: a victim that begins, finishes or waits for the other one while
  `TerminateAllThreads` runs, two that throw at one another.  That a thread with two neighbours leaves the list correctly is a matter of the
  theorems, which hold for any number.  No counter of `Threads` is bounded: `refs` is what its owners make it.
* *Tasks.*  Two, so that one drives the other, and three calls of `AsyncRun` inside one another: a task in a task
  with a finalizer.  `Renewed` and `Shared` are empty: a task is begun once and driven by one thread.  The theorems
  hold for any number and any depth.
* *Programs.*  A nest meets the nest around it and the one around that, where a step over a `catch` or
  `finally` passes two of them: pairs of all kinds that open a descriptor, a lock or a frame; loops and branches
  in pairs with each other and around and in the handlers; triples of the four kinds that share descriptors or
  the release chain.  Each nest has an object in front of it and a native call behind.
  `MaxThrows = 2`: an exception in flight and one thrown by a handler or `finally`.  `MaxTurns = 2`: a loop
  that is entered again after every way to leave its body.  `CaseValues` has a value for each label and one
  for none.
* *Expressions.*  Each operator over the plainest operands, and with one such expression as an operand: a value
  that is held meets code that wants to free.
* *Pointers.*  Two pointers, so that one is derived from the other; four addresses modulo; one word steps both
  ways; `Places` has two addresses, so that a buffer may come back where it was.
* *Maps.*  Two threads, two entries: the position of the second name changes when the first is removed.
* *Classes, structures.*  A chain of three, a class with a base and an implemented class that share a base; a
  structure with three bases, and one whose two bases have bases.  One function or member per class is enough for two
  functions in a vector and two members in a layout, as they are inherited.
* *Calendar.*  A cycle of 400 years, after which the divisions repeat.
* *Symmetry*: in `library`, of the two tasks, of the two pointers and of the two names of members, which no constant tells
  apart; the run has no liveness property.  The other runs
  have liveness properties, or constants that name contexts and threads.
* `CHECK_DEADLOCK FALSE` appears where the system really stops: after an OS thread has locked `s_mutex` twice
  (`monitor_safety`), after `TerminateAllThreads` (all runs of `Threads`, `concurrency` included), at the end of an expression, a source
  file or the calendar (`library`, `expressions_choice`).  `Unwind` stops in `Finished`, an explicit stutter.

### Fairness

`Monitor`: a context that waits is polled again and again (`LThreadObj::BeginThread` loops on
`AsyncProceed( 10 )`), hence weak fairness of the steps that only need their OS thread (`WaitPoll`,
`RelockPoll`), and strong fairness of those that need `s_mutex` (`GetsMutex`: `WaitSync`, `WakeUp`, `RelockWakeUp`): a
mutex that is released again and again is not refused for ever.  Time passes (`Expire`).  Script is
not fair: it may hold a lock for ever.  In `concurrency` this fairness is the premise of the three properties that need
it (`M!Fairness => ...`).

`Threads`: OS threads run (`Loop`), native calls that can go on do (`Completes`), the host continues its loop: all weak.
One assumption is strong: a slice that polls again and again (the interpreter looks at `m_signal` at least every
0x10000 jumps, and first of all at its start) notices the abort that is pending, or the end of a `waitFor`
(`Notices`).  Nothing is assumed of `m_mutexRun`, a plain `std::mutex` that may starve who asks for it: `finish`,
`waitFor` and `TerminateAllThreads` do not need it.  `OnlyRingsBlock` is the exception.  It has its assumptions as a
premise: slices end (`Yield`, their time is checked every 0x10000 jumps), and a mutex that becomes free again and again is not
refused for ever to a thread in `throw` (`Thrown`).  Scripts need not return.

The other modules have no liveness property: nothing obliges a script to drive a task, and the rest is
sequential or waits only for a lock that its holder gives up in the same call.

## 4. Proofs

The proofs hold for any number of contexts, objects, threads, tasks, pointers, buffers and classes, for maps
with any names and values, and for any code that fits the machine.

| module | theorem | states |
|---|---|---|
| `MonitorProof` | `TypeCorrect` | `TypeOK` of `Monitor` |
| | `LocksMatchBlocks`, `MutualExclusion`, `ListsAreSound` | `LockMatchesBlocks`, `Exclusion`, `NoDanglingMonitor` |
| | `HungFreezes` | `HangFreezesLocks` |
| | `NotificationsArrive` | `NotifyReachesWaiter` |
| | `MonitorsImplementLock` | `ImplementsLock`: `Monitor` implements `MonitorSpec` |
| `ThreadsProof` | `ThreadsTypeCorrect` | `TypeOK` of `Threads` |
| | `ListIsKept`, `CountsAreExact`, `TerminationLeavesQuiet`, `WaitedHasLeft` | `ListHoldsAttached`, `RefsCounted`, `QuietAfterTermination`, `WaitedIsDetached` |
| | `OnlyOrphansJoinThemselves` | `SelfJoinIsOrphan` |
| `PointersProof` | `PtrTypesKept` | `PtrTypeOK` |
| | `NoStaleAddress`, `AccessesAllocated`, `DeadLocalsRefused` | `PointersFresh`, `AccessIsAllocated`, `DeadLocalRefused` |
| `ClassesProof` | `VirtualVectorsFit`, `OverridesAreCalled` | `VectorsFit`, `OverridesCalled` |
| `StructsProof` | `StructsInvariant`, `LayoutIsSound` | `StructInv`, `LayoutSound` |
| `UnwindProof` | `MachineStaysWell` | `Well`, the invariant of the stack |
| | `UnwindWords`, `UnwindFrame`, `UnwindLive` | `WordsReadAsWritten`, `FrameAsCompiled`, `LiveIsChained` |
| | `UnwindFinally` | `FinallyEntered` |
| `LibraryProof` | `DaysAreDates`, `EveryDayFollows` | `SetNumberOfDays` inverts `NumberOfDays`; `DaysFollow` |
| | `MapInvariant`, `NamesFit` | `MapInv`, `NamesMatchElements` |
| | `MapIsDictionary` | `IsDictionary`: `Maps` implements `Dictionary` |
| `TasksProof` | `AbortInvariant`, `AbortStays` | `AbortInv`, `AbortIsFinal` |
| | `FinishEnds`, `ResultStays` | `FinishEndsOrLost`, `ResultOfFunction` |

*Monitor.*  The assumption is `MonitorAssumption`.  The inductive invariant is
`IInv == TypeOK /\ Phases /\ LockMatchesBlocks /\ NoDanglingMonitor`.
`Exclusion` is not inductive: that nobody else is inside when `WaitSync` or `Relock` takes a free lock
is known only because the owner is the only context with live blocks, and that needs the count
(otherwise the end of a nested block frees the lock).  So `LockMatchesBlocks` ties the owner and the
count of every object, and the saved count of every `wait()`, to the lockers on the stacks.  `Phases`
says for each context what its `pc` implies of its `LAwaitingNotification`, of `m_monitor` and of the
newest locker; without it `Leave` could release a locker while the context is in `wait()`.
`NoDanglingMonitor` says that every element of a list is a living monitor and occurs once; `AddMonitor`
keeps it because the monitor it adds was not alive before the step.  There is one lemma per action,
on top of frame lemmas that say what a step of
one context leaves alone (`PhaseStep`, `LockStep`, `ListStep`), and of a first part, where the list
operators of the code are shown to keep lists free of repetitions: detaching and notifying leave a
prefix, `NotifyAllMonitor` a subsequence.

*Refinement.*  `HungFreezes` needs that at most one context keeps `s_mutex` between two polls and that a hung OS
thread waits for one of its own contexts (`MutexInv`): then no step that needs the mutex is possible any more, and whoever takes
or releases a lock, an unwinding or dying context included, needs it.
`NotificationsArrive` follows from the phases and the lists of `IInv`: a monitor in a list is that of a context in
`wait()`, and one between two polls would have kept `s_mutex` from whoever notifies.
`MonitorsImplementLock` maps every action to an action of `MonitorSpec` or to a stutter, with `IInv` on both
sides of the step.

*Threads.*  There is no assumption but the types of the constants.  `EarlyInv` is `early \/ (IInv /\ Orphan)` beside the types:
until `finish` meets a `begin`, `IInv` holds, also for threads that scripts drop while they run; and if a thread has
joined itself, nothing refers to it (`Orphan`).  `IInv` has a part for the flags of a thread
against its OS thread (`Life`), for deleted objects (`Gone`), for the counts (`Counted`: who holds a reference,
added up), for actors inside native calls (`Actor`, `Single`: one actor begins a thread and one deletes it), for
the host in its loop (`HostInv`), and for the list: `Links` (the two links agree, the first has none before
it, exactly the attached threads are linked) and `Acyclic`.  The last one is a rank, only
said to exist, that decreases along `prev`: unlinking an element keeps the rank of the others, and one attached in
front gets 0 while the others move up.  An attached thread of least rank has none before it, so it is the first: when
`m_pFirstThread` is null nobody is attached, and `QuietAfterTermination` follows, because a context runs only between
`Attach` and `DetachThread`.

*Unwind.*  The assumption is `Verified`: the code of each function has a stack map that fits, and no
exception thrown is null.  For the compiler's code `CodeFits` checks it, program by program; the theorems then say that
nothing else is needed, however long the program runs, whatever it throws and whichever way its branches go.  With
`Verified` false they fail: `unwind_finally` is a program that does not fit.

`WordsReadAsWritten` says nothing of words that are not read yet, so it is far from inductive.  In `Well` there is, beside the
stack, a second one, `T`, that has for each word the word of the stack map it stands for, the function it belongs to and where
the frame of this function begins.  The words of the uppermost frame are those of the instruction to be executed
(`Runs`), and `SlotOK` says what is true of the value of a word: a return address leads to an instruction whose map
fits the frame below (`ReturnOK`), a descriptor knows its own frame and the descriptor below it, and its handlers lead to
places whose maps fit the frame up to the descriptor (`TryOK`), or are `NoHandler`, which they are under the words that
`CallFinally` has saved (`SavedOK`); these lead back to where the nest was left, or hold an exception; an object is on the
release chain, or null (`ChainOK`).  None of this speaks of words above, so that it survives a push, and truncating the stack
to a place `LinkX` and `LinkY` describe leaves the chains sound.  There is one lemma per instruction on top of lemmas for what
a step leaves alone; where words are freed, `ChainIs` shows that following a chain finds all of its members, although
`Chain` is a recursive function: on a set of positions each of which leads to the next lower one, by a least counterexample.
`Throw` and `RetFinally` leave frames and nests until a handler takes over; that the stack then is that of the handler is
`TryOK` of its descriptor.

*Pointers.*  `PtrInv`: every pointer is in the chain of its own buffer and in no other (`ChainsComplete`), knows
its address and a size not above the vector's (`Current`), the stack pointer fits the stack (`StackFits`), and a
pointer to a local begins above the frame it belongs to (`LocalsBounded`).  `DeadLocalRefused` is the
consequence that needs the history: after `Return` the bounds of the pointer are empty, and nothing widens bounds.
`AccessIsAllocated` follows from the bounds, with arithmetic modulo `Modulus`: nothing is assumed of the offsets.

*Classes.*  `ClassInv` is `VectorsFit` with the order in which classes are completed (`BasesCompleted`): a vector
is copied from a base only when no function can be added to the base any more.  Overriding changes the functions
of a vector slot by slot and never a prototype (`SameSlots` is an equivalence that `OverrideFunction` keeps).

`OverridesCalled` has two parts.  *Where a prototype is first in a vector, the right function stands*: one that the class
itself declares in each of its vectors (`OwnFirst`), otherwise that of its superclass (`SuperElsewhere`),
and so, along the superclasses, that of the nearest class that declares it (`NearestFirst`).  Only the first one does:
`OverrideFunction` replaces the first function of a prototype, and `ImplementVirtuals` can append a second one, when
the first that fits the arguments has another result or is not `const`.  *A call never finds such a second one*: before it,
or in a class nearer to that of the reference, there is a visible function with the same arguments
(`RepeatedLater`, `RepeatedCovered`).  These would not survive that a function is hidden, without `HiddenReplaced` (there is a
visible one with the arguments of a hidden one) and `DeclaredCovered` (a visible one at or below each class that
declares it).  `ImplementVirtuals` keeps them because both vectors have them; that is an induction along the second vector,
done with a least counterexample (`ImplementedVector`).  The only assumption is `ClassesAssumption`: the functions that
`Object` starts with are its own, not hidden, and have different prototypes.

*Structures.*  The assumption `WidthsDivide` says that of two sizes of primitive types the smaller divides the larger,
which 1, 2, 4 and 8 do.  The number of bases is not limited.  `MembersApart` is kept by every step because an alignment
divides the larger ones, so that the multiple at which a base is placed is one for each member of the base; and a
prototype has the bytes of a whole instance when a structure derives from it, which the `AllocateBuffer` of
`CompleteClass` ensures.  That is `Placed`, and holds of all layouts.  `Found` holds while bases are regular: the offset that
`AddBase` records is the place where `MergeFrom` puts the base, although the first rounds up to the alignment of the whole
structure and the second does not, and the prototype is not longer than the aligned size, or the values of the next base
would be behind its offset.  `OffsetWherePlaced` shows it if the allocated size is a multiple of the alignment of all,
or this alignment is not above that of the base.  The first is so when the base before has the largest alignment
(`LastAligned`: the allocated size is a multiple of the alignment of the last base), the second when the base itself has;
members break the first, and therefore bases come before members.

*Calendar.*  A year less one is 400 a + 100 b + 4 c + e, so that the number of its day k is 146097 a + 36524 b +
1461 c + 365 e + k (`YearParts`).  With k < 365 the divisions of `SetNumberOfDays` return these parts (`CountBack`).
The 366th day is the case of the correction: the divisions find a fifth year, in four or in four hundred
years, and the first day of the year found is the day after.  `DaysBefore` is a recursive function with twelve values; that
it exists and is unique is shown by its table (`DaysBeforeIs`).  The run has one cycle of 400 years, the theorem all years.

*Maps.*  The assumption is `Orderly`: scripts call `removeAt`, `removeAs` and `:=` under `synchronized`; without it
both properties fail.  `MapInv` has the types, what each thread knows in each phase of its
operation (`ClientInv`: which lock it holds, that the position it has found is still the one it looked for), that an
exclusive operation is alone (`Alone`), and `IndexFits`: the names and the positions are in one-to-one
correspondence, between operations with the elements there are, and before the renumbering with the one more there
was.  `NamesMatchElements` is not inductive, because it says nothing of the moments in between.  The
refinement takes `Asked` and `Answered` for the state of the dictionary's clients: each operation has one step at
which the dictionary changes or is read (mostly the one under the lock that answers it), the others are stutters.

*Tasks.*  `AbortInv` needs no assumption.  `Mutex` says that one OS thread at a time is inside a
context; `StackOK` and `RunOK` what the calls of a C++ stack have to do with one another and the uppermost one with
its context; `AbortKnown` that every state in which an aborted function could go on, be it the current one or
one that a finalizer has saved, lies below an aborted one or has the signal to abort waiting for it.
`AbortIsFinal` is the case of the current state.  Steps of other threads change a context
only by its signal, and only upwards (`Calm`).

`FinishEndsOrLost` needs that a task is not begun again (`Renewed = {}`): while a finalizer runs, the abort of the function
exists only in what the finalizer has saved (`Doomed`), and `begin` would replace the function.
`ResultOfFunction` needs that, and one driver (`Shared = {}`); section 2 says how it fails otherwise.
`ResultInv` follows the state of the function through the runs on top of it: while none runs it is the state of the
context, then the one the lowest finalizer has saved (`OfFunction`, `SaveOK`), and from
`FinishFunctionResult` on it is the result (`Told`, `BaseOK`).  Tasks that proceed or finish one another, to any depth, are
included; the two constants only exclude that a task is entered from two sides.

The type invariants are proved and not listed among the invariants of the runs.

Model-checked only: everything about `CodeGen`, `Structured` and `Expressions`: `CodeFits` (the compiler emits code that
fits), `RunsAsWritten`, `ResultAsWritten`, `CallsAsMeant` and `CountsExact`.  A compiler is a recursive operator, which the
proof system does not take, and what it computes for every program is an induction over programs.  And every liveness
property (liveness under fairness is beyond the proof system).

## 5. Plan

Done in the order of importance: monitors with their specification and proofs; threads with their proofs;
exceptions and the code that leaves nests; pointers, maps, classes, structures, calendar; tasks; expressions.
What would come next:

1. `Expressions`: members, elements and constructors, which push pairs of words for a reference; then stack maps for
   them, as for statements.
2. A second `begin` of a `Thread` (:499) and `proceed` of a `Thread` by scripts, in `Threads`.

## 6. Not modelled

* *Parser, numbers, strings* (`loquaty_parser.cpp`, `loquaty_string.cpp`): processing of text character by
  character, without state that survives a call; the interesting part of a parser, its grammar, is what it
  is defined by.  The statements and expressions it recognises are where the modules begin.
* *Values and collections besides maps* (`loquaty_value.cpp`, `loquaty_obj_array.cpp`, `_generic`, `_string`):
  one operation on one object under at most one lock.  Data races on the contents of objects are left to
  `synchronized` by the language.
* *The tables of built-in classes* (`loquaty_class.cpp`, most of `loquaty_virtual_machine.cpp`): lists of
  methods that are registered once.  The native methods behind them convert arguments and call what is modelled.
* *Files, streams, XML, console, clock, plug-ins*: calls of the operating system and of the C++ library.
* *Debugger, command line, script libraries*: a front end the repository only has hooks for, and clients of the
  rest.
* *Arithmetic instructions and typed loads and stores* (`loquaty_operator.cpp`): one C++ operator each.
* *Declarations of functions and classes in the compiler*, templates, name spaces: symbol tables; what they decide
  about calls is in `Classes`.
* *Reference cycles* and the disposal of all objects when the machine ends.
* Of the modelled parts, what section 2 lists as left out, and in `Monitor` the unlimited slice (`proceed( -1 )`).

The modelled lines are the core of `loquaty_object.cpp`, `loquaty_obj_thread.cpp`, `loquaty_context.cpp`,
`loquaty_obj_pointer.cpp`, `loquaty_obj_map.cpp`, and the code-generating half of the two large compiler
files; of all lines of the repository they are a small part, since most of it is the list above.
