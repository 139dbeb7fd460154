CONSTANTS
    Thread = {t1, t2}
    NoThread = none
    MaxCount = 2
    MaxTime = 1
    MaxSignals = 2
    MaxForks = 1
    ForkInHandlers = FALSE
SPECIFICATION LiveSpec
INVARIANTS AssertsHold SemaphoreAccounted
PROPERTIES ImplementsRLock TimedAcquireReturns
