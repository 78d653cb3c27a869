\* Two channels and one queue kept: the eviction of Session::PushCommand,
\* which takes more than 100 channels in the code, happens with two.
SPECIFICATION Spec
CONSTANTS
    Channel = {c1, c2}
    MaxQueues = 1
    MaxSerial = 2
    MaxFailed = 0
CHECK_DEADLOCK FALSE
INVARIANT NoStrandedCommand
