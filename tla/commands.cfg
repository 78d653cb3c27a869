\* One committing thread (the gRPC thread), one that only releases resources,
\* two renderers: groups of up to five commands, up to six groups.
\* The system stops when the queue is destroyed.
SPECIFICATION LiveSpec
CONSTANTS
    Committer = {grpc}
    Releaser = {app}
    Renderer = {r1, r2}
    Commit = Commit
    None = None
    MaxLog = 6
CHECK_DEADLOCK FALSE
INVARIANTS
    TypeOK
    ExecutorFindsCommit
    ExecutedOnceInOrder
    WholeGroupsExecuted
PROPERTY CommittedIsExecuted
