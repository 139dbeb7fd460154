CONSTANTS
    Thread = {t1, t2}
    Main = t1
    NoThread = none
    POKE_MIN = 1
    POKE_MAX = 3
SPECIFICATION FairSpec
INVARIANTS MutualExclusion NeverBothUnlocked WaitingIsExact
PROPERTIES ImplementsLock AcquireReturns
