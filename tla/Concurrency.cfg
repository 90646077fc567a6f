CONSTANTS
    Threads = {t1, t2}
    Main = Main
    NoThread = NoThread
    Uses = {"finish", "throw", "wait", "drop"}
    c1 = c1
    c2 = c2
    o1 = o1
    NoContext = NoContext
    NoObject = NoObject
CHECK_DEADLOCK FALSE
SPECIFICATION ConcurrencySpec
INVARIANTS ListHoldsAttached RefsCounted QuietAfterTermination WaitedIsDetached SelfJoinIsOrphan
PROPERTIES AbortEnds OnlyRingsBlock TerminationEndsOrSleeps WaitForReturns FreeLockIsTaken TimedWaitEnds WaitReturns
