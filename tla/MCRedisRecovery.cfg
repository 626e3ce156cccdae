SPECIFICATION FairSpec
CONSTANTS
    NoJob = NoJob
    NoCopy = NoCopy
    d1 = d1
    d2 = d2
    s1 = s1
    s2 = s2
    provision = provision
    stop = stop
    garbage = garbage
    Jobs = {provision, stop, garbage}
    Known = {provision, garbage}
    Poison = {garbage}
    MaxAttempts <- Attempts
    Daemons = {d1}
    Slots = {s1}
    Owner <- OneDaemon
    Callers <- MCCallers
    PromoteLimit = 1
    MaxFaults = 1
    MaxCrashes = 1
    MaxShutdowns = 1
PROPERTIES
    EveryJobSettles
