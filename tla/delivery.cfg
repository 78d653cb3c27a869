\* Two channels, three requests each; as many queues as channels are kept.
\* The system stops when the session is over and every request is answered.
SPECIFICATION LiveSpec
CONSTANTS
    Channel = {c1, c2}
    MaxQueues = 2
    MaxSerial = 3
    MaxFailed = 1
CHECK_DEADLOCK FALSE
INVARIANTS
    TypeOK
    NoStrandedCommand
    EachRequestInOnePlace
PROPERTIES
    ImplementsOrderedExecution
    RequestsSettle
