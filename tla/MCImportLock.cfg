CONSTANTS
    Thread = {t1, t2, t3}
    NoThread = none
    MaxLevels = 4
    MaxForks = 3
SPECIFICATION Spec
SYMMETRY Symmetry
INVARIANTS AssertsHold LevelsKept LockAccounted
