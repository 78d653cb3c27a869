\* One channel, two pushers and two jobs.
SPECIFICATION SessionSpec
CONSTANTS
    Pusher = {p1, p2}
    MaxJobs = 2
    MaxWrites = 2
CHECK_DEADLOCK FALSE
INVARIANTS
    SessionTypeOK
    EnabledPipeValid
    ToldOnce
    EachJobOnceInOrder
    TerminateSettles
PROPERTY SessionSettles
