--------------------------- MODULE MCConcurrency ---------------------------
(***************************************************************************)
(* Threads of two objects and the host, and, side by side with them, two      *)
(* contexts that synchronize on one object: each behaviour runs one of the    *)
(* two and leaves the other in its initial state.  The liveness of both.      *)
(***************************************************************************)
EXTENDS Threads

CONSTANTS c1, c2, o1, NoContext, NoObject

VARIABLES part, owner, count, chain, lockers, ctxMonitor, await, pc, target, hung

monitorVars == <<owner, count, chain, lockers, ctxMonitor, await, pc, target, hung>>

(* Every context is a Thread of its own, driven with time slices, and meets all that *)
(* interrupts it.                                                                  *)
M == INSTANCE Monitor WITH
    Contexts <- {c1, c2}, Objects <- {o1}, Host <- [c \in {c1, c2} |-> c],
    ZeroSlice <- {}, Interrupts <- {"throw", "abort"}, MaxNest <- 1

ConcurrencyInit == part \in {"threads", "monitors"} /\ Init /\ M!Init

ConcurrencyNext ==
    /\ UNCHANGED part
    /\ \/ part = "threads" /\ Next /\ UNCHANGED monitorVars
       \/ part = "monitors" /\ M!Next /\ UNCHANGED vars

(* The fairness of the monitors is stated where it is needed.  (In the initial states *)
(* nothing that is fair can happen.)                                                *)
ConcurrencySpec ==
    /\ ConcurrencyInit
    /\ [][ConcurrencyNext]_<<part, vars, monitorVars>>
    /\ Fairness

-----------------------------------------------------------------------------
(* While a context waits for a lock that is free, polling alone gets it for the    *)
(* context or sees it taken by another: a lost or truncated wake-up cannot strand it. *)
FreeLockIsTaken == M!Fairness => M!FreeLockIsTaken

(* wait( timeout ) stops listening for the notification after its timeout. *)
TimedWaitEnds == M!Fairness => M!TimedWaitEnds

(* A wait() that is over returns to its block once the lock stays free. *)
WaitReturns == M!Fairness => M!WaitReturns
=============================================================================
