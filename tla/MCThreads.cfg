CONSTANTS
    Thread = {t1, t2, t3}
    Main = t1
    NoThread = none
    Job = {1, 2, 3}
    NoJob = nojob
    MaxForks = 2
    ThreadsInHooks = FALSE
SPECIFICATION LiveSpec
ACTION_CONSTRAINT SmallestJob
INVARIANTS StartupDataKept  SignalsInMainThread
PROPERTIES BootstrapLockReleased
