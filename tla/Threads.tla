------------------------------ MODULE Threads ------------------------------
(***************************************************************************)
(* The life of the Thread objects of a virtual machine: Thread.begin,       *)
(* finish, throw and waitFor as running scripts call them, the OS thread of  *)
(* each, the list of running threads the machine keeps, the reference counts *)
(* of the objects, and TerminateAllThreads, which the host calls to release  *)
(* the machine.                                                             *)
(*                                                                         *)
(* An action is a stretch of code whose effects no other thread can tell     *)
(* apart: a critical section of m_mutexThreads, a read or a write of one of  *)
(* the flags that several OS threads share without a lock (m_flagAsync,       *)
(* m_flagFinished), or a slice of a context under its m_mutexRun.            *)
(***************************************************************************)
EXTENDS Integers, FiniteSets

CONSTANTS Threads,     \* the LThreadObjs
          Main,        \* the OS thread of the host, which also runs script
          NoThread,    \* nullptr
          Uses         \* what scripts do besides begin: "finish", "throw", "wait", "drop"

ASSUME ThreadsAssumption ==
    /\ NoThread \notin Threads
    /\ Main \notin Threads
    /\ Uses \subseteq {"finish", "throw", "wait", "drop"}

Actors == Threads \cup {Main}

VARIABLES
    first,      \* m_pFirstThread of the machine
    prev, next, \* m_pListPrev, m_pListNext
    refs,       \* m_countRef
    known,      \* the objects that variables of scripts refer to (one reference each)
    freed,      \* the objects that have been deleted
    async,      \* m_flagAsync
    finished,   \* m_flagFinished
    signal,     \* m_signal of the context of the thread
    running,    \* the contexts that are inside the function given to begin
    os,         \* what the OS thread of the object does
    call,       \* the native function that each actor is in, and its object
    killer,     \* where the host is in TerminateAllThreads
    victim,     \* its pThread
    fault,      \* std::terminate: a std::thread has joined itself
    early       \* history: finish() has ended a function that begin() was starting

list == <<first, prev, next>>
flags == <<async, finished, signal>>
vars == <<first, prev, next, refs, known, freed, async, finished, signal,
          running, os, call, killer, victim, fault, early>>

(***************************************************************************)
(* os[t] is "none" (m_thread == nullptr), "check" (at the head of the loop), *)
(* "run" (in AsyncProceed of the context: holds m_mutexRun), "over" (the     *)
(* function has ended), "flag" (between DetachThread and m_flagFinished) or  *)
(* "ended".                                                                *)
(***************************************************************************)
OsStates == {"none", "check", "run", "over", "flag", "ended"}

(* killer is "script" until the host calls TerminateAllThreads. *)
KillerStates == {"script", "lock", "force", "check", "block", "asleep",
                 "release", "join", "done"}

Ops == {"begin1", "begin2", "begin3", "finish", "finish2", "finish3",
        "throw", "wait", "join"}
Idle == [op |-> "none", of |-> NoThread]
Calls == {Idle} \cup [op : Ops, of : Threads]

Init ==
    /\ first = NoThread
    /\ prev = [t \in Threads |-> NoThread]
    /\ next = [t \in Threads |-> NoThread]
    /\ refs = [t \in Threads |-> 1]
    /\ known = Threads
    /\ freed = {}
    /\ async = [t \in Threads |-> FALSE]
    /\ finished = [t \in Threads |-> FALSE]
    /\ signal = [t \in Threads |-> "no"]
    /\ running = {}
    /\ os = [t \in Threads |-> "none"]
    /\ call = [a \in Actors |-> Idle]
    /\ killer = "script"
    /\ victim = NoThread
    /\ fault = FALSE
    /\ early = FALSE

-----------------------------------------------------------------------------
(* a executes script: it may call a native function. *)
Runs(a) == /\ IF a = Main THEN killer = "script" ELSE os[a] = "run" /\ a \in running
           /\ call[a] = Idle

In(a, op) == call[a].op = op
Goes(a, op) == call' = [call EXCEPT ![a].op = op]
Returns(a) == call' = [call EXCEPT ![a] = Idle]

(* Some actor is inside begin of t. *)
Beginning(t) == \E a \in Actors : call[a].of = t /\ call[a].op \in {"begin1", "begin2", "begin3"}

(* m_mutexRun of t is free: its OS thread is between two slices, or not there. *)
RunLockFree(t) == os[t] # "run"

-----------------------------------------------------------------------------
(* The list of threads, under m_mutexThreads. *)

(* Mutant: the link back to the removed thread stays. *)
PrevUnchanged(t) == prev

(* m_pListPrev after DetachThread( t ) *)
PrevWithout(t) == [u \in Threads |->
    IF u = t THEN NoThread ELSE IF u = next[t] THEN prev[t] ELSE prev[u]]

(* m_pListNext after DetachThread( t ) *)
NextWithout(t) == [u \in Threads |->
    IF u = t THEN NoThread ELSE IF u = prev[t] THEN next[t] ELSE next[u]]

(* Mutant: the list takes no reference. *)
AttachUncounted(t) ==
    /\ first' = t
    /\ next' = [next EXCEPT ![t] = first]
    /\ prev' = [u \in Threads |->
            IF u = t THEN NoThread ELSE IF u = first THEN t ELSE prev[u]]
    /\ UNCHANGED refs

(* AttachThread: at the head, with a reference of the list. *)
AttachThread(t) ==
    /\ first' = t
    /\ next' = [next EXCEPT ![t] = first]
    /\ prev' = [u \in Threads |->
            IF u = t THEN NoThread ELSE IF u = first THEN t ELSE prev[u]]
    /\ refs' = [refs EXCEPT ![t] = @ + 1]

(* DetachThread by a, which releases the reference of the list: the last one    *)
(* deletes the object, and its destructor joins the OS thread, under            *)
(* m_mutexThreads and, when a = t, from that very thread.                       *)
DetachThread(a, t) ==
    /\ first' = IF prev[t] = NoThread THEN next[t] ELSE first
    /\ next' = NextWithout(t)
    /\ prev' = PrevWithout(t)
    /\ refs' = [refs EXCEPT ![t] = @ - 1]
    /\ fault' = (refs[t] = 1 /\ a = t)
    /\ freed' = IF refs[t] = 1 /\ a # t THEN freed \cup {t} ELSE freed

-----------------------------------------------------------------------------
(* Thread.begin: BeginThread, by the script of a. *)

(* BeginAsync.  A function without a body finishes at once, and the object keeps *)
(* m_flagAsync.                                                                *)
BeginAsync(a, t) ==
    /\ Runs(a) /\ t \in known
    /\ os[t] = "none" /\ ~Beginning(t)
    /\ async' = [async EXCEPT ![t] = TRUE]
    /\ \/ /\ finished' = [finished EXCEPT ![t] = FALSE]
          /\ signal' = [signal EXCEPT ![t] = "no"]
          /\ running' = running \cup {t}
          /\ call' = [call EXCEPT ![a] = [op |-> "begin1", of |-> t]]
       \/ /\ finished' = [finished EXCEPT ![t] = TRUE]
          /\ UNCHANGED <<signal, running, call>>
    /\ UNCHANGED <<list, refs, known, freed, os, killer, victim, fault, early>>

(* Mutant: m_flagAsync stays set. *)
KeepAsync(a) ==
    /\ In(a, "begin1")
    /\ Goes(a, "begin2")
    /\ UNCHANGED <<list, refs, known, freed, flags, running, os, killer, victim, fault, early>>

(* m_flagAsync = false *)
ClearAsync(a) ==
    /\ In(a, "begin1")
    /\ async' = [async EXCEPT ![call[a].of] = FALSE]
    /\ Goes(a, "begin2")
    /\ UNCHANGED <<list, refs, known, freed, finished, signal, running, os, killer, victim, fault, early>>

Attach(a) ==
    /\ In(a, "begin2")
    /\ AttachThread(call[a].of)
    /\ Goes(a, "begin3")
    /\ UNCHANGED <<known, freed, flags, running, os, killer, victim, fault, early>>

(* m_thread = make_unique<std::thread> *)
Spawn(a) ==
    /\ In(a, "begin3")
    /\ os' = [os EXCEPT ![call[a].of] = "check"]
    /\ Returns(a)
    /\ UNCHANGED <<list, refs, known, freed, flags, running, killer, victim, fault, early>>

-----------------------------------------------------------------------------
(* The OS thread of t: while ( !AsyncProceed( 10 ) ). *)

(* !m_flagFinished: the next slice. *)
Slice(t) ==
    /\ os[t] = "check"
    /\ os' = [os EXCEPT ![t] = IF finished[t] THEN "ended" ELSE "run"]
    /\ UNCHANGED <<list, refs, known, freed, flags, running, call, killer, victim, fault, early>>

(* Mutant: a context that awaits keeps m_mutexRun until its waitFor is over. *)
YieldUnlessWaiting(t) ==
    /\ os[t] = "run" /\ call[t] = Idle
    /\ os' = [os EXCEPT ![t] = "check"]
    /\ UNCHANGED <<list, refs, known, freed, flags, running, call, killer, victim, fault, early>>

(* The slice ends: its time is over, or a poll of waitFor was in vain. *)
Yield(t) ==
    /\ os[t] = "run" /\ t \in running
    /\ call[t].op \in {"none", "wait"}
    /\ os' = [os EXCEPT ![t] = "check"]
    /\ UNCHANGED <<list, refs, known, freed, flags, running, call, killer, victim, fault, early>>

(* The function is over: FinishFunctionResult. *)
FinishFunction(t) ==
    /\ running' = running \ {t}
    /\ os' = [os EXCEPT ![t] = "over"]
    /\ Returns(t)
    /\ UNCHANGED <<list, refs, known, freed, flags, killer, victim, fault, early>>

(* It returns, or no handler of it catches an exception. *)
Return(t) == os[t] = "run" /\ t \in running /\ call[t] = Idle /\ FinishFunction(t)

(* The context is not running: AsyncRun returns at once, and the end is repeated. *)
EndAgain(t) == os[t] = "run" /\ t \notin running /\ FinishFunction(t)

(* Mutant: a context that awaits does not look at its signal. *)
AbortUnlessWaiting(t) ==
    /\ os[t] = "run" /\ call[t] = Idle
    /\ signal[t] = "abort"
    /\ FinishFunction(t)

(* ProcessSignal: interruptAbort.  (It clears m_signal, and RestoreContextState *)
(* sets it again.)                                                             *)
Abort(t) ==
    /\ os[t] = "run" /\ call[t].op \in {"none", "wait"}
    /\ signal[t] = "abort"
    /\ FinishFunction(t)

(* ProcessSignal: interruptThrow, with a handler in the function. *)
Catch(t) ==
    /\ os[t] = "run" /\ call[t].op \in {"none", "wait"}
    /\ signal[t] = "throw"
    /\ signal' = [signal EXCEPT ![t] = "no"]
    /\ Returns(t)
    /\ UNCHANGED <<list, refs, known, freed, async, finished, running, os, killer, victim, fault, early>>

(* LThreadObj::OnFinished, its own part, by a. *)
LeaveList(a, t) ==
    IF async[t] THEN UNCHANGED <<list, refs, freed, fault>> ELSE DetachThread(a, t)

(* LTaskObj::OnFinished: who waits is notified, without m_mutex, if it is asleep. *)
SetFinished(t) ==
    /\ finished' = [finished EXCEPT ![t] = TRUE]
    /\ killer' = IF killer = "asleep" /\ victim = t THEN "check" ELSE killer

OnFinished(t) ==
    /\ os[t] = "over"
    /\ LeaveList(t, t)
    /\ os' = [os EXCEPT ![t] = "flag"]
    /\ UNCHANGED <<known, flags, running, call, killer, victim, early>>

Flag(t) ==
    /\ os[t] = "flag"
    /\ SetFinished(t)
    /\ os' = [os EXCEPT ![t] = "ended"]
    /\ UNCHANGED <<list, refs, known, freed, async, signal, running, call, victim, fault, early>>

-----------------------------------------------------------------------------
(* Thread.finish: ForceTermination, by the script of a (or by the host). *)

ForceTermination(a, t) ==
    /\ signal' = [signal EXCEPT ![t] = "abort"]
    /\ call' = [call EXCEPT ![a] = [op |-> "finish", of |-> t]]

Finish(a, t) ==
    /\ Runs(a) /\ t \in known
    /\ ~finished[t]
    /\ ForceTermination(a, t)
    /\ UNCHANGED <<list, refs, known, freed, async, finished, running, os, killer, victim, fault, early>>

(* if ( m_flagAsync ) AsyncProceed( 0 ): a itself ends the function.  A function   *)
(* that is not over has m_flagAsync only until begin() clears it: finish() has met *)
(* a begin() (early).                                                              *)
FinishProceed(a) ==
    LET t == call[a].of IN
    /\ In(a, "finish")
    /\ IF async[t] /\ ~finished[t]
       THEN /\ RunLockFree(t)
            /\ running' = running \ {t}
            /\ Goes(a, "finish2")
            /\ early' = TRUE
       ELSE Returns(a) /\ UNCHANGED <<running, early>>
    /\ UNCHANGED <<list, refs, known, freed, flags, os, killer, victim, fault>>

FinishLeaveList(a) ==
    /\ In(a, "finish2")
    /\ LeaveList(a, call[a].of)
    /\ Goes(a, "finish3")
    /\ UNCHANGED <<known, flags, running, os, killer, victim, early>>

FinishFlag(a) ==
    /\ In(a, "finish3")
    /\ SetFinished(call[a].of)
    /\ Returns(a)
    /\ UNCHANGED <<list, refs, known, freed, async, signal, running, os, victim, fault, early>>

(* Thread.throw, by a thread other than t: it locks m_mutexRun of t, while the *)
(* slice of a keeps the one of a.                                              *)
Throw(a, t) ==
    /\ Runs(a) /\ t \in known /\ a # t
    /\ call' = [call EXCEPT ![a] = [op |-> "throw", of |-> t]]
    /\ UNCHANGED <<list, refs, known, freed, flags, running, os, killer, victim, fault, early>>

(* Mutant: the last signal wins. *)
ThrownOverAbort(a) ==
    LET t == call[a].of IN
    /\ In(a, "throw") /\ RunLockFree(t)
    /\ signal' = IF t \in running THEN [signal EXCEPT ![t] = "throw"] ELSE signal
    /\ Returns(a)
    /\ UNCHANGED <<list, refs, known, freed, async, finished, running, os, killer, victim, fault, early>>

(* SetInterruptSignal( interruptThrow ), which never replaces interruptAbort. *)
Thrown(a) ==
    LET t == call[a].of IN
    /\ In(a, "throw") /\ RunLockFree(t)
    /\ signal' = IF t \in running /\ signal[t] = "no"
                 THEN [signal EXCEPT ![t] = "throw"] ELSE signal
    /\ Returns(a)
    /\ UNCHANGED <<list, refs, known, freed, async, finished, running, os, killer, victim, fault, early>>

(* Thread.waitFor: the context of a awaits, and polls m_flagFinished. *)
WaitFor(a, t) ==
    /\ Runs(a) /\ t \in known
    /\ ~finished[t]
    /\ call' = [call EXCEPT ![a] = [op |-> "wait", of |-> t]]
    /\ UNCHANGED <<list, refs, known, freed, flags, running, os, killer, victim, fault, early>>

(* Mutant: only a notification that arrives during the wait ends it. *)
NotifiedOnly(a) ==
    /\ In(a, "wait") /\ (a # Main => os[a] = "run")
    /\ finished[call[a].of] /\ os[call[a].of] = "flag"
    /\ Returns(a)
    /\ UNCHANGED <<list, refs, known, freed, flags, running, os, killer, victim, fault, early>>

(* A poll finds m_flagFinished set. *)
WaitedFor(a) ==
    /\ In(a, "wait") /\ (a # Main => os[a] = "run")
    /\ finished[call[a].of]
    /\ Returns(a)
    /\ UNCHANGED <<list, refs, known, freed, flags, running, os, killer, victim, fault, early>>

(* The script of a gives up the last variable that refers to t (a caller of a *)
(* method of t has one).  The last reference deletes t, which joins its OS     *)
(* thread.                                                                    *)
Drop(a, t) ==
    /\ Runs(a) /\ t \in known
    /\ \A b \in Actors : call[b].of = t => b = Main /\ killer # "script"
    /\ known' = known \ {t}
    /\ refs' = [refs EXCEPT ![t] = @ - 1]
    /\ IF refs[t] > 1 THEN UNCHANGED <<call, freed>>
       ELSE IF os[t] = "none" THEN freed' = freed \cup {t} /\ UNCHANGED call
       ELSE call' = [call EXCEPT ![a] = [op |-> "join", of |-> t]] /\ UNCHANGED freed
    /\ UNCHANGED <<list, flags, running, os, killer, victim, fault, early>>

Joined(a) ==
    /\ In(a, "join") /\ os[call[a].of] = "ended"
    /\ freed' = freed \cup {call[a].of}
    /\ Returns(a)
    /\ UNCHANGED <<list, refs, known, flags, running, os, killer, victim, fault, early>>

-----------------------------------------------------------------------------
(* TerminateAllThreads, by the host. *)

Terminate ==
    /\ Runs(Main)
    /\ killer' = "lock"
    /\ UNCHANGED <<list, refs, known, freed, flags, running, os, call, victim, fault, early>>

(* Mutant: the loop goes on with the thread it has found, but no reference to it. *)
VictimUnheld ==
    /\ killer = "lock"
    /\ victim' = first
    /\ killer' = IF first = NoThread THEN "done" ELSE "force"
    /\ UNCHANGED <<list, refs, known, freed, flags, running, os, call, fault, early>>

(* Mutant: one thread is terminated, and the list is not looked at again. *)
OneVictim ==
    /\ killer = "lock"
    /\ victim' = first
    /\ IF first = NoThread \/ victim # NoThread
       THEN killer' = "done" /\ UNCHANGED refs
       ELSE killer' = "force" /\ refs' = [refs EXCEPT ![first] = @ + 1]
    /\ UNCHANGED <<list, known, freed, flags, running, os, call, fault, early>>

(* The head of the loop, under m_mutexThreads. *)
NextVictim ==
    /\ killer = "lock"
    /\ victim' = first
    /\ IF first = NoThread
       THEN killer' = "done" /\ UNCHANGED refs
       ELSE killer' = "force" /\ refs' = [refs EXCEPT ![first] = @ + 1]
    /\ UNCHANGED <<list, known, freed, flags, running, os, call, fault, early>>

ForceVictim ==
    /\ killer = "force"
    /\ killer' = "check"
    /\ IF finished[victim] THEN UNCHANGED <<signal, call>> ELSE ForceTermination(Main, victim)
    /\ UNCHANGED <<list, refs, known, freed, async, finished, running, os, victim, fault, early>>

(* WaitForThread() under m_mutex, which OnFinished does not take. *)
CheckVictim ==
    /\ killer = "check" /\ call[Main] = Idle
    /\ killer' = IF finished[victim] THEN "release" ELSE "block"
    /\ UNCHANGED <<list, refs, known, freed, flags, running, os, call, victim, fault, early>>

FallAsleep ==
    /\ killer = "block"
    /\ killer' = "asleep"
    /\ UNCHANGED <<list, refs, known, freed, flags, running, os, call, victim, fault, early>>

ReleaseVictim ==
    /\ killer = "release"
    /\ refs' = [refs EXCEPT ![victim] = @ - 1]
    /\ killer' = IF refs[victim] = 1 THEN "join" ELSE "lock"
    /\ UNCHANGED <<list, known, freed, flags, running, os, call, victim, fault, early>>

JoinVictim ==
    /\ killer = "join" /\ os[victim] = "ended"
    /\ freed' = freed \cup {victim}
    /\ killer' = "lock"
    /\ UNCHANGED <<list, refs, known, flags, running, os, call, victim, fault, early>>

-----------------------------------------------------------------------------
Begin(a) == ClearAsync(a) \/ Attach(a) \/ Spawn(a)

Finishing(a) == FinishProceed(a) \/ FinishLeaveList(a) \/ FinishFlag(a)

(* The next step of the native function that a is in. *)
Completes(a) == Begin(a) \/ Finishing(a) \/ Thrown(a) \/ WaitedFor(a) \/ Joined(a)

Script(a) == \E t \in Threads :
    \/ BeginAsync(a, t)
    \/ "finish" \in Uses /\ Finish(a, t)
    \/ "throw" \in Uses /\ Throw(a, t)
    \/ "wait" \in Uses /\ WaitFor(a, t)
    \/ "drop" \in Uses /\ Drop(a, t)

Loop(t) == Slice(t) \/ EndAgain(t) \/ OnFinished(t) \/ Flag(t)

TerminateAllThreads ==
    NextVictim \/ ForceVictim \/ CheckVictim \/ FallAsleep \/ ReleaseVictim \/ JoinVictim

Next ==
    /\ ~fault
    /\ \/ \E a \in Actors : Script(a) \/ Completes(a)
       \/ \E t \in Threads : Loop(t) \/ Yield(t) \/ Return(t) \/ Abort(t) \/ Catch(t)
       \/ Terminate
       \/ TerminateAllThreads

Spec == Init /\ [][Next]_vars

(* What the first poll of a slice finds: the interruptAbort that is pending, or else  *)
(* the end of a waitFor.                                                             *)
Notices(t) == Abort(t) \/ (signal[t] # "abort" /\ WaitedFor(t))

(***************************************************************************)
(* Operating system threads run, and a slice polls for what is pending.       *)
(* Nothing strong is assumed of m_mutexRun, which is a plain std::mutex: a     *)
(* thread may ask for it again and again and never get it.                    *)
(* Scripts owe nothing: they may never return, and catch what they like.      *)
(***************************************************************************)
Fairness ==
    /\ \A t \in Threads : WF_vars(Loop(t)) /\ SF_vars(Notices(t))
    /\ \A a \in Actors : WF_vars(Completes(a))
    /\ WF_vars(TerminateAllThreads)

FairSpec == Spec /\ Fairness

-----------------------------------------------------------------------------
(* Every variable keeps the type its C++ counterpart has. *)
TypeOK ==
    /\ first \in Threads \cup {NoThread}
    /\ prev \in [Threads -> Threads \cup {NoThread}]
    /\ next \in [Threads -> Threads \cup {NoThread}]
    /\ refs \in [Threads -> Int]
    /\ known \subseteq Threads
    /\ freed \subseteq Threads
    /\ async \in [Threads -> BOOLEAN]
    /\ finished \in [Threads -> BOOLEAN]
    /\ signal \in [Threads -> {"no", "throw", "abort"}]
    /\ running \subseteq Threads
    /\ os \in [Threads -> OsStates]
    /\ call \in [Actors -> Calls]
    /\ killer \in KillerStates
    /\ victim \in Threads \cup {NoThread}
    /\ fault \in BOOLEAN
    /\ early \in BOOLEAN

(* Some actor is between AttachThread and the start of the OS thread of t. *)
Spawning(t) == \E a \in Actors : call[a].of = t /\ In(a, "begin3")

(* begin has attached t, and its OS thread has not detached it yet. *)
Attached(t) == (os[t] \in {"check", "run", "over"} /\ ~finished[t]) \/ Spawning(t)

(* The links run both ways, from m_pFirstThread through exactly the threads that *)
(* are attached: none is lost when its neighbours leave at the same time.  (When  *)
(* finish() has met a begin(), a thread may leave the list before it enters it,   *)
(* which empties the list, and never leave it afterwards.)                        *)
ListHoldsAttached == ~early =>
    /\ first # NoThread => prev[first] = NoThread
    /\ \A t \in Threads :
        /\ Attached(t) <=> first = t \/ prev[t] # NoThread
        /\ prev[t] # NoThread => next[prev[t]] = t
        /\ next[t] # NoThread => prev[next[t]] = t

(* The host holds a reference to its victim. *)
Held(t) == victim = t /\ killer \in {"force", "check", "block", "asleep", "release"}

(* m_countRef counts the variables, the list and the host, and nobody uses an      *)
(* object that has been deleted.  (A thread that left the list before it entered   *)
(* it has lost a reference that was not the list's.)                               *)
RefsCounted == ~early => \A t \in Threads :
    /\ refs[t] = Cardinality({h \in {"script", "list", "host"} :
            \/ h = "script" /\ t \in known
            \/ h = "list" /\ Attached(t)
            \/ h = "host" /\ Held(t)})
    /\ t \in freed => /\ refs[t] = 0
                      /\ os[t] \in {"none", "ended"}
                      /\ \A a \in Actors : call[a].of # t

(* When TerminateAllThreads has returned, the machine may be torn down: no script *)
(* of it runs any more, nor does one start.  (When finish() has met a begin(), the *)
(* list may have lost threads that run.)                                          *)
QuietAfterTermination == killer = "done" /\ ~early =>
    /\ running = {}
    /\ \A a \in Actors : call[a] = Idle

(* WaitForThread has returned: the host does not find the thread in the list again  *)
(* (but for one that finish() has met in begin(), which is attached afterwards).    *)
WaitedIsDetached == killer = "release" /\ ~early =>
    first # victim /\ prev[victim] = NoThread

(* Only a thread that nobody refers to any more, no variable, no native call and not  *)
(* the host, deletes its own object and joins itself: a reference protects from it.    *)
SelfJoinIsOrphan == fault /\ ~early => \E t \in Threads \ known :
    os[t] = "flag" /\ ~Held(t) /\ \A a \in Actors : call[a].of # t

(* finish() ends a thread, whatever its script does, unless the process is terminated, *)
(* the script never gets out of throw(), or finish() has met a begin().                *)
AbortEnds == \A t \in Threads :
    (os[t] \in {"check", "run"} /\ signal[t] = "abort")
        ~> (os[t] = "ended" \/ fault \/ early \/ []In(t, "throw"))

(* waitFor() returns when the thread it waits for has finished, or its own thread *)
(* is ended, or else the other one has been begun again meanwhile.                *)
WaitForReturns == \A t \in Threads : \A a \in Actors \ {t} :
    (call[a] = [op |-> "wait", of |-> t] /\ finished[t])
        ~> (~In(a, "wait") \/ ~finished[t] \/ fault)

(* t is blocked for ever: it is in throw(), and so is whoever it waits for, each with  *)
(* its own m_mutexRun, which another one wants.                                       *)
InRing(t) == \E S \in SUBSET Threads :
    t \in S /\ \A u \in S : In(u, "throw") /\ call[u].of \in S

(* A thread gives its m_mutexRun back again and again, whatever native functions its   *)
(* script is in and whoever wants it, unless threads throw at one another: no other     *)
(* call blocks it, nor those who throw at it, as long as slices end (their time is      *)
(* checked at least every 0x10000 jumps) and a mutex starves nobody.                    *)
OnlyRingsBlock == (\A t \in Threads : SF_vars(Yield(t)) /\ SF_vars(Thrown(t))) =>
    \A t \in Threads : []<>(RunLockFree(t) \/ InRing(t) \/ fault \/ early)

(* TerminateAllThreads ends, however scripts wait for one another, but for two      *)
(* cases: a thread that finishes between the check of m_flagFinished and the wait    *)
(* wakes nobody, and one that never gets out of throw() does not finish.  (It does   *)
(* not get rid of a thread that finish() has met in begin(), either.)                *)
TerminationEndsOrSleeps ==
    (killer = "lock") ~> (\/ killer = "done" \/ fault \/ early
                          \/ killer = "asleep" /\ finished[victim]
                          \/ \E t \in Threads : []In(t, "throw"))

-----------------------------------------------------------------------------
(* Statements of the documentation and of comments that the code does not keep. *)

(* "WaitForThread waits for the completion of the thread": TerminateAllThreads, *)
(* which waits with it, ends.                                                    *)
TerminationEnds == (killer = "lock") ~> (killer = "done")

(* "The thread is terminated when nobody refers to it any more": it never ends by *)
(* joining itself, which terminates the process.                                  *)
NoSelfJoin == ~fault
=============================================================================
