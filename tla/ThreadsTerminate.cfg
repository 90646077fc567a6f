CONSTANTS
    Threads = {t1, t2}
    Main = Main
    NoThread = NoThread
    Uses = {}
CHECK_DEADLOCK FALSE
SPECIFICATION FairSpec
PROPERTIES TerminationEnds
