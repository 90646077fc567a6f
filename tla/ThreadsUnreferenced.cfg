CONSTANTS
    Threads = {t1, t2}
    Main = Main
    NoThread = NoThread
    Uses = {"drop"}
CHECK_DEADLOCK FALSE
SPECIFICATION Spec
INVARIANTS NoSelfJoin
