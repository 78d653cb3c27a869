\* Three sessions and two keepalive calls.
SPECIFICATION LiveSpec
CONSTANTS
    MaxSessions = 3
    MaxCalls = 2
CHECK_DEADLOCK FALSE
INVARIANTS
    TypeOK
    BroadcastsIffAcceptable
    CallsWaitAtActive
PROPERTY RemoteSettles
