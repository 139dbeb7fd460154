CONSTANTS
    Thread = {t1, t2}
    Main = t1
    NoThread = none
    Job = {1}
    NoJob = nojob
    MaxForks = 0
    ThreadsInHooks = FALSE
SPECIFICATION Spec
INVARIANTS SentinelReleased
