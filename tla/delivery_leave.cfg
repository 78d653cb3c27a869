\* One channel is enough: the application leaves the session while the gRPC
\* thread is between the check of the session and the handler.
SPECIFICATION Spec
CONSTANTS
    Channel = {c1}
    MaxQueues = 1
    MaxSerial = 2
    MaxFailed = 0
CHECK_DEADLOCK FALSE
INVARIANT HandlerHasSession
