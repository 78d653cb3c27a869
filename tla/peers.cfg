\* One host that broadcasts and the forwarded port, with the times of the code in
\* ticks of a second: a timer of 4.5 s is due in the fifth tick.
SPECIFICATION LiveSpec
CHECK_DEADLOCK FALSE
CONSTANTS
    Host = {h1}
    LocalHost = localhost
    PeerTimeout = 5
    BroadcastEvery = 1
    RetryAfter = 5
    ProbeEvery = 1
    MaxLost = 3
    MaxPeers = 2
    MaxProbes = 1
INVARIANTS
    TypeOK
    UserSeesPeers
PROPERTIES
    LostOnlyIfQuiet
    GoneIsLost
