\* As a lock of the resource pool is used: one thread that writes and reads
\* (the gRPC thread), two that only read.
SPECIFICATION LockLiveSpec
CONSTANTS
    Reader = {r1, r2, r3, grpc}
    Writer = {grpc}
INVARIANTS
    LockTypeOK
    MutualExclusion
    NoLostWakeUp
PROPERTY WriterGetsIn
