SPECIFICATION FairSpec
CONSTANTS
    NoJob = NoJob
    kleffd = kleffd
    s1 = s1
    s2 = s2
    provision = provision
    stop = stop
    mystery = mystery
    Jobs <- MCJobs
    Known <- MCKnown
    MaxAttempts <- MCMaxAttempts
    Daemons = {kleffd}
    Slots = {s1, s2}
    Owner <- MCOwner
INVARIANTS
    OneHolder
    OnePlace
    EndsForCause
    ShutdownLeavesNothingHalfDone
PROPERTIES
    NewcomersAreNotOvertaken
    EveryJobSettles
    ShutdownReturns
    ImplementsLifecycle
\* A dispatcher that has returned from Run stops, and so does the model.
CHECK_DEADLOCK FALSE
