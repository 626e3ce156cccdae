SPECIFICATION FairSpec
CONSTANTS
    Workloads = {w1, w2}
    Tails = {t1, t2, t3, t4}
    NoTail = NoTail
    Overlong = {w2}
    MaxChanges = 3
INVARIANTS
    EntriesAreTails
PROPERTIES
    RunningIsTailed
    StoppedIsLetGo
    ShutdownEndsTails
\* After a shutdown the tailer has returned for good.
CHECK_DEADLOCK FALSE
