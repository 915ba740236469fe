SPECIFICATION FairSpec
CONSTANTS
    Threads = {t1, t2}
    NoThread = NoThread
    Sinks <- MCSinks
    Does <- MCDoes
INVARIANTS
    ReplacedIsQuiet
PROPERTIES
    StuckForGood
    MutexComesBack
CHECK_DEADLOCK FALSE
