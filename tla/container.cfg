\* Three resources, any interleaving of the two threads.
SPECIFICATION Spec
CONSTANTS
    Id = {v1, v2, v3}
    NoId = NoId
INVARIANTS
    TypeOK
    GetFindsLive
    FrameShowsLive
PROPERTY RemovalForgottenOnlyIfNew
