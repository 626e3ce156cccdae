SPECIFICATION Spec
CONSTANTS
    NoJob = NoJob
    NoCopy = NoCopy
    d1 = d1
    d2 = d2
    s1 = s1
    s2 = s2
    provision = provision
    stop = stop
    garbage = garbage
    Jobs = {provision, stop}
    Known = {provision, stop}
    Poison = {}
    MaxAttempts <- Attempts
    Daemons = {d1, d2}
    Slots = {s1, s2}
    Owner <- TwoDaemons
    Callers <- MCCallers
    PromoteLimit = 1
    MaxFaults = 2
    MaxCrashes = 1
    MaxShutdowns = 0
INVARIANTS
    TypeOK
    OneLiveCopy
    SettledOnce
    AttemptsAreCounted
    RemovesItsOwnCopy
    StrandedAreAccountedFor
PROPERTIES
    ImplementsLifecycle
