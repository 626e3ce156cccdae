SPECIFICATION Spec
CONSTANTS
    Workloads = {w1}
    Tails = {t1, t2, t3, t4}
    NoTail = NoTail
    Overlong = {}
    MaxChanges = 3
INVARIANTS
    OneTailPerWorkload
\* After a shutdown the tailer has returned for good.
CHECK_DEADLOCK FALSE
