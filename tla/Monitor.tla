------------------------------ MODULE Monitor ------------------------------
(***************************************************************************)
(* The monitors of LObject: the statement synchronized( obj ), and the      *)
(* methods notify, notifyAll, wait() and wait( timeout ), as contexts that  *)
(* run concurrently see them.                                               *)
(*                                                                         *)
(* One process-wide mutex s_mutex guards every monitor.  Each action is one *)
(* critical section of it.  The exception is LAwaitingNotification: it      *)
(* takes the locked mutex with it (std::move) and keeps it from one poll of *)
(* its context to the next, giving it up only inside a condition wait.      *)
(* Hence s_mutex is locked between two actions exactly while some context   *)
(* is "waiting" (see MutexFree).                                            *)
(*                                                                         *)
(* The monitors of an object form an intrusive list, modelled as the        *)
(* sequence chain[obj], first element = m_pFirstMonitor.                    *)
(***************************************************************************)
EXTENDS Naturals, Sequences, FiniteSets

CONSTANTS Contexts,    \* the LContexts that run script
          Objects,     \* the objects they synchronize on
          NoContext,   \* m_pSynchronized == nullptr
          NoObject,    \* the context is not in wait()
          Host,        \* the OS thread that runs each context
          ZeroSlice,   \* the contexts driven by proceed( 0 )
          Interrupts,  \* which of "throw" and "abort" (Task.throw, Task.finish) occur
          MaxNest      \* bound: nested synchronized blocks of a context

ASSUME MonitorAssumption ==
    /\ NoContext \notin Contexts
    /\ NoObject \notin Objects
    /\ Host \in [Contexts -> Contexts]
    /\ ZeroSlice \subseteq Contexts
    /\ Interrupts \subseteq {"throw", "abort"}
    /\ MaxNest \in Nat

VARIABLES
    owner,      \* owner[o]   : m_pSynchronized->pContext, NoContext for nullptr
    count,      \* count[o]   : m_pSynchronized->countSync
    chain,      \* chain[o]   : the monitors linked from m_pFirstMonitor
    lockers,    \* lockers[c] : the LSyncLockerObjs on the stack of c, oldest first
    ctxMonitor, \* ctxMonitor[c] : m_monitor # nullptr
    await,      \* await[c]   : the LAwaitingNotification of c
    pc,         \* pc[c]      : what c is doing
    target,     \* target[c]  : lockers that remain when the handler of a throw is reached
    hung        \* the contexts whose OS thread locked s_mutex twice

vars == <<owner, count, chain, lockers, ctxMonitor, await, pc, target, hung>>

(***************************************************************************)
(* pc[c] is                                                                *)
(*   "run"      executing script;                                          *)
(*   "blocked"  statusAwaiting in synchronized, polling WaitSync;           *)
(*   "waiting"  statusAwaiting in wait(), between polls: holds s_mutex;     *)
(*   "sleeping" in wait(), inside the condition wait for the notification;  *)
(*   "relock"   in wait(), inside the condition wait for the lock;          *)
(*   "unwind"   releasing the stack down to the handler of an exception;    *)
(*   "dying"    statusAborted or statusHalt, releasing the whole stack;     *)
(*   "done"     not running: AsyncCallFunction may start it again.          *)
(***************************************************************************)
PCs == {"run", "blocked", "waiting", "sleeping", "relock", "unwind", "dying", "done"}

(* The three monitors a context can own: LContext::m_monitor, and m_monNotify *)
(* and m_monSync of LAwaitingNotification.                                    *)
Monitors == Contexts \X {"lock", "notify", "relock"}

(* Monitor::m_type *)
TypeOf(m) == IF m[2] = "notify" THEN "notification" ELSE "synchronized"

(* LSyncLockerObj: the object, and m_flagLocked.  A locker "lost" its lock when *)
(* the wait() that had released it was destroyed: m_flagLocked is still true,   *)
(* but the object is no longer locked on its behalf (a history mark: no guard   *)
(* of the code reads it).                                                       *)
Locker == [obj : Objects, state : {"pending", "locked", "lost"}]

(* LAwaitingNotification.  saved = m_pPrevSync->countSync, zero = the poll in    *)
(* progress waits 0 ms (flagTimeout), woken = m_cvSignal was notified during it  *)
(* (a history mark: what the condition wait reports is another matter, WakeUp).  *)
NotAwaiting == [obj |-> NoObject, saved |-> 0, listening |-> FALSE,
                timed |-> FALSE, expired |-> FALSE, zero |-> FALSE, woken |-> FALSE]
Awaiting == [obj : Objects \cup {NoObject}, saved : Nat, listening : BOOLEAN,
             timed : BOOLEAN, expired : BOOLEAN, zero : BOOLEAN, woken : BOOLEAN]

-----------------------------------------------------------------------------
(* Mutant: LAwaitingNotification gives s_mutex up after each poll for the        *)
(* notification, and keeps it only while it waits for the lock.                  *)
KeptForRelock == \A c \in Contexts : pc[c] = "waiting" => await[c].listening

(* s_mutex is free: no LAwaitingNotification holds it. *)
MutexFree == \A c \in Contexts : pc[c] # "waiting"

(* The OS thread of c can run c: it is not inside a condition wait of another *)
(* of its contexts, nor deadlocked.                                           *)
Scheduled(c) == \A d \in Contexts :
    Host[d] = Host[c] => d \notin hung /\ (d # c => pc[d] \notin {"sleeping", "relock"})

(* c can take s_mutex and run a critical section. *)
CanLock(c) == MutexFree /\ Scheduled(c)

(* Mutant: UnlockSynchronized does not take s_mutex. *)
UnlocksUnguarded(c) == Scheduled(c)

(* ~LSyncLockerObj takes it too, in UnlockSynchronized or for DetachMonitor. *)
CanUnlock(c) == CanLock(c)

Depth(c) == Len(lockers[c])
Top(c) == lockers[c][Depth(c)]

(* The blocks of c that hold o. *)
Held(c, o) == {i \in DOMAIN lockers[c] : lockers[c][i] = [obj |-> o, state |-> "locked"]}

-----------------------------------------------------------------------------
(* The list of monitors. *)

IndexOf(m, ch) == CHOOSE i \in DOMAIN ch : ch[i] = m

(* AddMonitor: at the head. *)
AddMonitor(m, ch) == <<m>> \o ch

(* DetachMonitor: the loop breaks at the monitor it looks for, with pPrev the  *)
(* monitor before it, and ends that one's chain: what followed is dropped too. *)
DetachMonitor(m, ch) ==
    IF \E i \in DOMAIN ch : ch[i] = m THEN SubSeq(ch, 1, IndexOf(m, ch) - 1) ELSE ch

(* NotifyMonitor( typeNotification ): the first notification monitor; the list *)
(* ends before it, as in DetachMonitor.                                        *)
FirstNotify(ch) == CHOOSE i \in DOMAIN ch :
    /\ TypeOf(ch[i]) = "notification"
    /\ \A j \in 1..(i - 1) : TypeOf(ch[j]) # "notification"
HasNotify(ch) == \E i \in DOMAIN ch : TypeOf(ch[i]) = "notification"
NotifyMonitor(ch) == IF HasNotify(ch) THEN SubSeq(ch, 1, FirstNotify(ch) - 1) ELSE ch

(* The elements of ch at the positions in K, in their order. *)
Keep(ch, K) == [j \in 1..Cardinality(K) |->
    ch[CHOOSE i \in K : Cardinality({k \in K : k <= i}) = j]]

(* NotifyAllMonitor: every monitor of the type leaves the list, the others stay. *)
NotifyAllMonitor(t, ch) == Keep(ch, {i \in DOMAIN ch : TypeOf(ch[i]) # t})

(* notify_all on the condition variables of the notification monitors ms: only *)
(* who is inside the condition wait notices.                                   *)
Wake(ms) == [c \in Contexts |->
    IF <<c, "notify">> \in ms /\ pc[c] = "sleeping"
    THEN [await[c] EXCEPT !.woken = TRUE] ELSE await[c]]

-----------------------------------------------------------------------------
Init ==
    /\ owner = [o \in Objects |-> NoContext]
    /\ count = [o \in Objects |-> 0]
    /\ chain = [o \in Objects |-> <<>>]
    /\ lockers = [c \in Contexts |-> <<>>]
    /\ ctxMonitor = [c \in Contexts |-> FALSE]
    /\ await = [c \in Contexts |-> NotAwaiting]
    /\ pc = [c \in Contexts |-> "run"]
    /\ target = [c \in Contexts |-> 0]
    /\ hung = {}

Push(c, o, state) ==
    lockers' = [lockers EXCEPT ![c] = Append(@, [obj |-> o, state |-> state])]

(***************************************************************************)
(* instruction_Synchronize and the constructor of LSyncLockerObj: take the  *)
(* lock (LockSynchronized), or add the monitor of the context and await.    *)
(***************************************************************************)
Synchronize(c, o) ==
    /\ pc[c] = "run" /\ CanLock(c)
    /\ Depth(c) < MaxNest
    /\ \/ /\ owner[o] = NoContext
          /\ owner' = [owner EXCEPT ![o] = c]
          /\ count' = [count EXCEPT ![o] = 1]
          /\ Push(c, o, "locked")
          /\ UNCHANGED <<chain, ctxMonitor, pc>>
       \/ /\ owner[o] = c
          /\ count' = [count EXCEPT ![o] = @ + 1]
          /\ Push(c, o, "locked")
          /\ UNCHANGED <<owner, chain, ctxMonitor, pc>>
       \/ /\ owner[o] \notin {NoContext, c}
          /\ chain' = [chain EXCEPT ![o] = AddMonitor(<<c, "lock">>, @)]
          /\ ctxMonitor' = [ctxMonitor EXCEPT ![c] = TRUE]
          /\ pc' = [pc EXCEPT ![c] = "blocked"]
          /\ Push(c, o, "pending")
          /\ UNCHANGED <<owner, count>>
    /\ UNCHANGED <<await, target, hung>>

(* Mutant: the lock is taken when the condition wait returns, free or not. *)
IgnoreOwner(o) == TRUE

(* m_pSynchronized == nullptr *)
Unlocked(o) == owner[o] = NoContext

(* A poll of WaitSynchronized that finds the lock free.  (One that does not, *)
(* and the condition wait of at most 10 ms in between, change nothing.)      *)
WaitSync(c) ==
    LET o == Top(c).obj IN
    /\ pc[c] = "blocked" /\ CanLock(c)
    /\ Unlocked(o)
    /\ owner' = [owner EXCEPT ![o] = c]
    /\ count' = [count EXCEPT ![o] = 1]
    /\ chain' = [chain EXCEPT ![o] = DetachMonitor(<<c, "lock">>, @)]
    /\ ctxMonitor' = [ctxMonitor EXCEPT ![c] = FALSE]
    /\ lockers' = [lockers EXCEPT ![c][Depth(c)].state = "locked"]
    /\ pc' = [pc EXCEPT ![c] = "run"]
    /\ UNCHANGED <<await, target, hung>>

(* sync->pContext == context *)
Owns(c, o) == owner[o] = c

(* Mutant: the end of any block, also of a nested one, frees the lock. *)
AnyUnlock(c, o) == Owns(c, o)

(* --sync->countSync <= 0 *)
LastUnlock(c, o) == Owns(c, o) /\ count[o] <= 1

(* UnlockSynchronized: the part on m_pSynchronized, then the one on m_monitor. *)
UnlockSynchronized(c, o) ==
    LET ch == IF LastUnlock(c, o)
              THEN NotifyAllMonitor("synchronized", chain[o]) ELSE chain[o]
    IN  /\ owner' = IF LastUnlock(c, o) THEN [owner EXCEPT ![o] = NoContext] ELSE owner
        /\ count' = IF Owns(c, o) THEN [count EXCEPT ![o] = @ - 1] ELSE count
        /\ chain' = [chain EXCEPT ![o] =
                        IF ctxMonitor[c] THEN DetachMonitor(<<c, "lock">>, ch) ELSE ch]
        /\ ctxMonitor' = [ctxMonitor EXCEPT ![c] = FALSE]

(* The newest locker is released (~LSyncLockerObj): the end of its block, or   *)
(* FreeFor on behalf of a throw or of FinishFunctionResult.  A pending locker *)
(* detaches the monitor of the context but does not release it.               *)
Leave(c) ==
    /\ pc[c] \in {"run", "unwind", "dying"} /\ CanUnlock(c)
    /\ Depth(c) > 0
    /\ IF Top(c).state # "pending"
       THEN UnlockSynchronized(c, Top(c).obj)
       ELSE /\ chain' = [chain EXCEPT ![Top(c).obj] = DetachMonitor(<<c, "lock">>, @)]
            /\ UNCHANGED <<owner, count, ctxMonitor>>
    /\ lockers' = [lockers EXCEPT ![c] = SubSeq(@, 1, Depth(c) - 1)]
    /\ IF pc[c] = "unwind" /\ Depth(c) - 1 = target[c]
       THEN /\ pc' = [pc EXCEPT ![c] = "run"]
            /\ target' = [target EXCEPT ![c] = 0]
       ELSE UNCHANGED <<pc, target>>
    /\ UNCHANGED <<await, hung>>

-----------------------------------------------------------------------------
(* Mutant: wait() saves a single level of nesting. *)
OneLevel(o) == 1

(* What m_pPrevSync keeps. *)
SavedCount(o) == count[o]

(* wait() and wait( timeout ): AwaitNotification by the owner of the lock      *)
(* releases it, however often it is held, and keeps s_mutex.  (Any other        *)
(* caller gets an exception, and no monitor changes.)                           *)
AwaitNotification(c, o, timed) ==
    /\ pc[c] = "run" /\ CanLock(c)
    /\ owner[o] = c
    /\ await' = [await EXCEPT ![c] = [NotAwaiting EXCEPT
                    !.obj = o, !.saved = SavedCount(o), !.listening = TRUE, !.timed = timed]]
    /\ owner' = [owner EXCEPT ![o] = NoContext]
    /\ chain' = [chain EXCEPT ![o] =
                    AddMonitor(<<c, "notify">>, NotifyAllMonitor("synchronized", @))]
    /\ pc' = [pc EXCEPT ![c] = "waiting"]
    /\ UNCHANGED <<count, lockers, ctxMonitor, target, hung>>

(* The timeout of wait( timeout ) has elapsed. *)
Expire(c) ==
    /\ await[c].listening /\ await[c].timed /\ ~await[c].expired
    /\ await' = [await EXCEPT ![c].expired = TRUE]
    /\ UNCHANGED <<owner, count, chain, lockers, ctxMonitor, pc, target, hung>>

(* Mutant: Remaining ignores the clock, so that every slice is the whole slice. *)
NoRemaining(c) == c \in ZeroSlice

(* Remaining( timeout ) = 0: the shorter of the slice of c and the time left. *)
NothingRemains(c) == c \in ZeroSlice \/ await[c].expired

(* Mutant: an untimed wait does not give s_mutex up. *)
TimedWaitOnly(c) == await[c].listening /\ await[c].timed

(* m_flagWaiting *)
Listening(c) == await[c].listening

(* LAwaitingNotification::Wait, m_flagWaiting: a poll enters the condition wait. *)
(* (m_flagSignaled is always false then: notifications arrive only inside the    *)
(* condition wait, since s_mutex is held outside it, and Wait clears it after.)  *)
WaitPoll(c) ==
    /\ pc[c] = "waiting" /\ Scheduled(c)
    /\ Listening(c)
    /\ await' = [await EXCEPT ![c].woken = FALSE, ![c].zero = NothingRemains(c)]
    /\ pc' = [pc EXCEPT ![c] = "sleeping"]
    /\ UNCHANGED <<owner, count, chain, lockers, ctxMonitor, target, hung>>

(* Mutant: a wait that timed out takes the lock back only if it was notified too. *)
UnlockedAndNotified(c) == Unlocked(await[c].obj) /\ await[c].woken

(* The object c waits for is not locked. *)
CanRelock(c) == Unlocked(await[c].obj)

(* The second half of Wait: restore m_pSynchronized when the object is free,    *)
(* which finishes the wait and so detaches m_monSync from ch, or sleep again.   *)
Relock(c, o, ch) ==
    IF CanRelock(c)
    THEN /\ owner' = [owner EXCEPT ![o] = c]
         /\ count' = [count EXCEPT ![o] = await[c].saved]
         /\ chain' = [chain EXCEPT ![o] = DetachMonitor(<<c, "relock">>, ch)]
         /\ await' = [await EXCEPT ![c] = NotAwaiting]
         /\ pc' = [pc EXCEPT ![c] = "run"]
    ELSE /\ chain' = [chain EXCEPT ![o] = ch]
         /\ await' = [await EXCEPT ![c].listening = FALSE]
         /\ pc' = [pc EXCEPT ![c] = "relock"]
         /\ UNCHANGED <<owner, count>>

(* m_flagNotified || flagTimeout *)
Resumes(c, notified) == notified \/ await[c].zero

(* The condition wait for the notification returns.  It is entered once, without a *)
(* predicate, so that it may report a notification when there was none (a spurious *)
(* wake-up is not a timeout), and a timeout although there was one (the clock is   *)
(* read after the wait, and m_flagSignaled is cleared unread).                     *)
WakeUp(c) ==
    LET o == await[c].obj
        ch == AddMonitor(<<c, "relock">>, DetachMonitor(<<c, "notify">>, chain[o]))
    IN  /\ pc[c] = "sleeping" /\ CanLock(c)
        /\ \E notified \in BOOLEAN :
             IF Resumes(c, notified)
             THEN Relock(c, o, ch)
             ELSE /\ pc' = [pc EXCEPT ![c] = "waiting"]
                  /\ await' = [await EXCEPT ![c].woken = FALSE]
                  /\ UNCHANGED <<owner, count, chain>>
        /\ UNCHANGED <<lockers, ctxMonitor, target, hung>>

(* The condition wait for the lock returns. *)
RelockWakeUp(c) ==
    /\ pc[c] = "relock" /\ CanLock(c)
    /\ IF CanRelock(c)
       THEN Relock(c, await[c].obj, chain[await[c].obj])
       ELSE /\ pc' = [pc EXCEPT ![c] = "waiting"]
            /\ UNCHANGED <<owner, count, chain, await>>
    /\ UNCHANGED <<lockers, ctxMonitor, target, hung>>

(* The next poll of a context that waits for the lock. *)
RelockPoll(c) ==
    /\ pc[c] = "waiting" /\ Scheduled(c)
    /\ ~await[c].listening
    /\ Relock(c, await[c].obj, chain[await[c].obj])
    /\ UNCHANGED <<lockers, ctxMonitor, target, hung>>

(* Object.notify(): anyone may call it, holding the lock or not. *)
Notify(c, o) ==
    /\ pc[c] = "run" /\ CanLock(c)
    /\ HasNotify(chain[o])
    /\ chain' = [chain EXCEPT ![o] = NotifyMonitor(@)]
    /\ await' = Wake({chain[o][FirstNotify(chain[o])]})
    /\ UNCHANGED <<owner, count, lockers, ctxMonitor, pc, target, hung>>

(* Object.notifyAll() *)
NotifyAll(c, o) ==
    /\ pc[c] = "run" /\ CanLock(c)
    /\ chain[o] # <<>>
    /\ chain' = [chain EXCEPT ![o] = NotifyAllMonitor("notification", @)]
    /\ await' = Wake({chain[o][i] : i \in DOMAIN chain[o]})
    /\ UNCHANGED <<owner, count, lockers, ctxMonitor, pc, target, hung>>

-----------------------------------------------------------------------------
(* Mutant: the destructor leaves its monitor in the list. *)
StayAttached(c) == chain[await[c].obj]

(* ~LAwaitingNotification detaches the monitor of the phase it is in. *)
DetachAwaiting(c) == DetachMonitor(
    <<c, IF await[c].listening THEN "notify" ELSE "relock">>, chain[await[c].obj])

(* m_awaiting = nullptr destroys the LAwaitingNotification of a context that is in *)
(* wait(), which unlocks s_mutex but does not restore m_pSynchronized: the blocks  *)
(* of c lose their lock.                                                           *)
DropAwaiting(c) ==
    LET o == await[c].obj IN
    IF pc[c] = "waiting"
    THEN /\ chain' = [chain EXCEPT ![o] = DetachAwaiting(c)]
         /\ await' = [await EXCEPT ![c] = NotAwaiting]
         /\ lockers' = [lockers EXCEPT ![c] =
                [i \in DOMAIN @ |-> IF i \in Held(c, o)
                                    THEN [obj |-> o, state |-> "lost"] ELSE @[i]]]
    ELSE UNCHANGED <<chain, await, lockers>>

(* interruptThrow, set by Task.throw and handled by ProcessSignal while c        *)
(* awaits: a handler that keeps the k oldest lockers, or none (statusHalt).      *)
(* (A throw by running script is a sequence of Leave.)                           *)
Throw(c) ==
    /\ "throw" \in Interrupts
    /\ pc[c] \in {"blocked", "waiting"} /\ Scheduled(c)
    /\ DropAwaiting(c)
    /\ \/ \E k \in 0..Depth(c) :
            /\ pc[c] = "blocked" => k < Depth(c)
            /\ target' = [target EXCEPT ![c] = IF k = Depth(c) THEN 0 ELSE k]
            /\ pc' = [pc EXCEPT ![c] = IF k = Depth(c) THEN "run" ELSE "unwind"]
       \/ /\ pc' = [pc EXCEPT ![c] = "dying"]
          /\ UNCHANGED target
    /\ UNCHANGED <<owner, count, ctxMonitor, hung>>

(* interruptAbort, set by Task.finish: ProcessSignal, then FinishFunctionResult. *)
Abort(c) ==
    /\ "abort" \in Interrupts
    /\ pc[c] \in {"run", "blocked", "waiting"} /\ Scheduled(c)
    /\ DropAwaiting(c)
    /\ pc' = [pc EXCEPT ![c] = "dying"]
    /\ UNCHANGED <<owner, count, ctxMonitor, target, hung>>

(* The function of the context has returned, or its stack is released. *)
End(c) ==
    /\ pc[c] \in {"run", "dying"} /\ Scheduled(c)
    /\ Depth(c) = 0
    /\ pc' = [pc EXCEPT ![c] = "done"]
    /\ UNCHANGED <<owner, count, chain, lockers, ctxMonitor, await, target, hung>>

(* Task.begin *)
Begin(c) ==
    /\ pc[c] = "done" /\ Scheduled(c)
    /\ pc' = [pc EXCEPT ![c] = "run"]
    /\ UNCHANGED <<owner, count, chain, lockers, ctxMonitor, await, target, hung>>

(* c wants s_mutex, for a statement, a method, a poll or the release of a locker,  *)
(* while another context of the same OS thread keeps it between two polls: the      *)
(* thread waits for itself.                                                        *)
WantsMutex(c) == \/ pc[c] \in {"run", "blocked"}
                 \/ pc[c] \in {"unwind", "dying"} /\ Depth(c) > 0
Hang(c) ==
    /\ WantsMutex(c) /\ Scheduled(c)
    /\ \E d \in Contexts : d # c /\ Host[d] = Host[c] /\ pc[d] = "waiting"
    /\ hung' = hung \cup {c}
    /\ UNCHANGED <<owner, count, chain, lockers, ctxMonitor, await, pc, target>>

-----------------------------------------------------------------------------
Poll(c) == WaitSync(c) \/ WaitPoll(c) \/ WakeUp(c) \/ RelockWakeUp(c) \/ RelockPoll(c)

Script(c) == \E o \in Objects :
    \/ Synchronize(c, o)
    \/ \E timed \in BOOLEAN : AwaitNotification(c, o, timed)
    \/ Notify(c, o)
    \/ NotifyAll(c, o)

Next == \E c \in Contexts :
    \/ Script(c)
    \/ Leave(c)
    \/ Poll(c)
    \/ Expire(c)
    \/ Throw(c)
    \/ Abort(c)
    \/ End(c)
    \/ Begin(c)
    \/ Hang(c)

Spec == Init /\ [][Next]_vars

(* c gets s_mutex, which it waits for in a poll or at the end of a condition wait. *)
GetsMutex(c) == WaitSync(c) \/ WakeUp(c) \/ RelockWakeUp(c)

(***************************************************************************)
(* A thread that has nothing else to do polls (LThreadObj::BeginThread loops *)
(* on AsyncProceed( 10 )), clocks advance, and s_mutex does not starve a     *)
(* thread that asks for it again and again.  The script owes nothing.        *)
(***************************************************************************)
Fairness == \A c \in Contexts :
    /\ SF_vars(GetsMutex(c))
    /\ WF_vars(WaitPoll(c))
    /\ WF_vars(RelockPoll(c))
    /\ WF_vars(Expire(c))

FairSpec == Spec /\ Fairness

-----------------------------------------------------------------------------
(* Every variable keeps the type its C++ counterpart has. *)
TypeOK ==
    /\ owner \in [Objects -> Contexts \cup {NoContext}]
    /\ count \in [Objects -> Nat]
    /\ chain \in [Objects -> Seq(Monitors)]
    /\ lockers \in [Contexts -> Seq(Locker)]
    /\ ctxMonitor \in [Contexts -> BOOLEAN]
    /\ await \in [Contexts -> Awaiting]
    /\ pc \in [Contexts -> PCs]
    /\ target \in [Contexts -> Nat]
    /\ hung \subseteq Contexts

(* The blocks of c on o hold its lock: it is not away in wait() on o. *)
Inside(c, o) == Held(c, o) # {} /\ await[c].obj # o

(* The purpose of synchronized: no two contexts are inside blocks on the same    *)
(* object, through reentrant locking, wait(), its return, throw and finish       *)
(* (except for blocks that lost their lock to a throw, see Locker).               *)
Exclusion == \A c, d \in Contexts, o \in Objects :
    Inside(c, o) /\ Inside(d, o) => c = d

(* countSync is the number of blocks that its context holds on the object, and   *)
(* survives wait() in the saved pointer: the last block to end, no earlier one,  *)
(* unlocks, and an object is never left locked by nobody.                        *)
LockMatchesBlocks == \A c \in Contexts, o \in Objects :
    LET n == Cardinality(Held(c, o)) IN
    /\ owner[o] = c <=> n > 0 /\ await[c].obj # o
    /\ owner[o] = c => count[o] = n
    /\ await[c].obj = o => await[c].saved = n /\ n > 0

(* The list of an object never holds a monitor that has been destroyed (it is an *)
(* intrusive list of members of contexts and of LAwaitingNotifications), nor one *)
(* monitor twice.                                                                *)
Alive(m, o) == LET c == m[1] IN
    CASE m[2] = "lock"   -> /\ ctxMonitor[c] /\ Depth(c) > 0
                            /\ Top(c) = [obj |-> o, state |-> "pending"]
      [] m[2] = "notify" -> await[c].obj = o /\ await[c].listening
      [] m[2] = "relock" -> await[c].obj = o /\ ~await[c].listening
NoDanglingMonitor == \A o \in Objects : \A i \in DOMAIN chain[o] :
    /\ Alive(chain[o][i], o)
    /\ \A j \in DOMAIN chain[o] : chain[o][i] = chain[o][j] => i = j

(* A notification is never spent on a context between two polls: whoever notify() *)
(* or notifyAll() takes off the list is inside its condition wait and is woken.    *)
(* NotifyMonitor leaves m_flagSignaled alone, so that nothing else would tell.     *)
NotifyReachesWaiter == [][\A c, d \in Contexts, o \in Objects :
    \/ Notify(c, o) /\ chain[o][FirstNotify(chain[o])] = <<d, "notify">>
    \/ NotifyAll(c, o) /\ \E i \in DOMAIN chain[o] : chain[o][i] = <<d, "notify">>
    => await'[d].woken]_vars

(* While c waits for a lock that is free, polling alone gets it for c or sees it *)
(* taken by another: a lost or truncated wake-up cannot strand it.               *)
FreeLockIsTaken == \A c \in Contexts, o \in Objects :
    (pc[c] = "blocked" /\ Top(c).obj = o /\ owner[o] = NoContext)
        ~> ~(pc[c] = "blocked" /\ Top(c).obj = o /\ owner[o] = NoContext)

(* wait( timeout ) stops listening for the notification after its timeout. *)
TimedWaitEnds == \A c \in Contexts :
    (await[c].listening /\ await[c].timed) ~> ~await[c].listening

(* A wait() that is over returns to its block once the lock stays free. *)
WaitReturns == \A c \in Contexts, o \in Objects :
    (await[c].obj = o /\ ~await[c].listening /\ owner[o] = NoContext)
        ~> ~(await[c].obj = o /\ ~await[c].listening /\ owner[o] = NoContext)

(* An OS thread that waits for itself keeps s_mutex for ever, because whoever wants *)
(* to take or to give up a lock asks for it: from then on no context of any thread *)
(* does either.                                                                  *)
HangFreezesLocks == [][hung # {} => owner' = owner]_vars

-----------------------------------------------------------------------------
(* The monitors implement the lock a script reasons with (MonitorSpec): the holder *)
(* is m_pSynchronized->pContext, the nesting the number of its live lockers, and   *)
(* a context is parked while it has an LAwaitingNotification.                      *)
Lock == INSTANCE MonitorSpec WITH
    holder <- owner,
    blocks <- [c \in Contexts |-> [o \in Objects |-> Cardinality(Held(c, o))]],
    parked <- [c \in Contexts |-> await[c].obj]
ImplementsLock == Lock!Spec

-----------------------------------------------------------------------------
(* Statements of the documentation that the code does not keep. *)

(* "notifyAll wakes every thread that waits on this object." *)
NotifyAllWakesAll == [][\A c, d \in Contexts, o \in Objects :
    NotifyAll(c, o) /\ await[d].obj = o /\ pc[d] = "sleeping" => await'[d].woken]_vars

(* "The statement runs under exclusive control of the object": two contexts never *)
(* run script inside blocks on one object.                                        *)
StatementExclusion == \A c, d \in Contexts, o \in Objects :
    LET Runs(e) == pc[e] = "run" /\ \E i \in DOMAIN lockers[e] :
                        lockers[e][i].obj = o /\ lockers[e][i].state # "pending"
    IN  Runs(c) /\ Runs(d) => c = d

=============================================================================
