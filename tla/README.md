# Verification of zen-remote

zen-remote lets an application on a *server* machine draw in a scene that a
*client* machine (a headset) renders.  The server issues gRPC calls that create
and change the client's virtual objects, buffers, shaders and so on; the client
applies them between two frames.  This directory holds TLA+ models of the parts
of zen-remote in which threads and messages meet, TLC configurations that check
them on small instances, and proofs of the main results for every instance.

Paths below are relative to the repository (`src/client/...`, `src/server/...`).

    tlc -workers 2 -config delivery.cfg RequestDelivery     # a model-checking run
    tlapm RequestDeliveryProofs.tla                         # a proof module

`PROJECT.json` lists the components, the runs, what each definition models line
by line, the hazards of the code and the properties that answer them, and the
theorems.

## 1. The system

### How a request travels

1. A user's thread on the server calls a method of a proxy (`VirtualObject`,
   `GlBuffer`, ...).  The proxy pushes a *job* to the `JobQueue` of its `Channel`.
2. The channel's worker thread performs the job: it takes the channel's next
   serial number (`Channel::NewSerial`) and starts a unary gRPC call whose
   metadata hold the session's id, the channel's id and the serial number.  The
   channel's second thread (`AsyncGrpcQueue`) receives the answers.
3. On the client, one gRPC thread (`GrpcServer`) receives the calls, in any
   order.  `AsyncSessionServiceCaller::Proceed` answers ABORTED unless the call
   is for the current session, and else pushes a command to the session's
   `SerialCommandQueue` of that channel.
4. The serial queue executes commands in the order of their numbers; a command
   that came early is held.  Executing a command runs the service's handler on
   the gRPC thread, which finds the resource in the session's `ResourcePool`,
   changes its *pending* state and, for a commit, pushes a command to the
   resource's `AtomicCommandQueue` and commits it.
5. The rendering thread calls `Remote::UpdateScene`, which executes the committed
   groups of the `AtomicCommandQueue`, and then `Remote::Render`, which goes
   through the virtual objects with `ForEach`.

### Components

| Component | State | Operations | Hard behaviour | Correct when | Model |
|---|---|---|---|---|---|
| Request delivery: `server/channel.cc` (serials), the proxies' jobs, `client/service/async-session-service-caller.h`, `client/serial-command-queue.cc`, `client/session.cc` | the channel's counters; the calls under way; per queue `next_serial_`, `list_`; the current session | send, receive, check, push, hold, execute, drain, evict, cancel, leave, clear, replace | calls overtake each other or fail; the session changes between the check and the handler | commands run once, in order of issue, none is lost or silently stuck | `RequestDelivery`, `OrderedExecution` |
| Atomic command queue: `client/atomic-command-queue.cc`, `Remote::UpdateScene` | `queue_`, `commit_count_`, two mutexes | Push, Commit, ExecuteOnce, destruction | a mutex released in mid-group, several producers and renderers | groups are executed whole, in order, after their commit, and eventually | `AtomicCommandQueue` |
| Readers-writer lock: `core/readers-writer-lock.cc` | three counters, one condition variable | Begin/End Read/Write | lost and spurious wake-ups, starvation | exclusion, no lost wake-up, writers get in | `ReadersWriterLock` |
| Resource container: `client/resource-container.h` | `new_resources_`, `resources_`, `remove_set_`, two locks | Add, ScheduleRemove, Get, ForEach | operations composed of several critical sections | lookups and frames find what is live | `ResourceContainer` |
| Job queue: `server/job-queue.cc` | `queue_`, `running_`, a worker | Push, Terminate, the worker's loop | notification after unlock, draining, join | each job once in order or cancelled, Terminate returns | `JobQueue` |
| Channel: `server/channel.cc`, `server/async-grpc-queue.cc` | `enabled_`, the two queues, `pending_count_` | construct, push, disable, answers, destruction | the worker may join itself; a detached thread uses freed state; an unsigned counter below zero | nothing waits for ever, the pipe outlives its writers, busyness counts calls | `ServerSession` (serials in `RequestDelivery`) |
| Client remote: `client/remote.cc`, `client/service/session.cc`, the keepalive caller | the current session, the enabled flag, the keepalive call | Enable, Disable, DisableSession, New, Shutdown, Keepalive | two threads replace one pointer; a server that vanishes | at most one live session; each keepalive call is answered or waits at it | `ClientRemote` (one session's requests in `RequestDelivery`) |
| Discovery broadcast: `client/discovery-broadcast.cc` | a flag, a thread | Start, StopAndWait, broadcast | stop that races with the wait, under the session's mutex | broadcasts run exactly while a session is acceptable; stop returns | `ClientRemote`, in time `PeerManager` |
| Client gRPC server: `client/grpc-server.cc` | a completion queue, a thread | Start, shutdown | callers still in the queue at shutdown | each caller is deleted once | `ClientRemote` (requests in `RequestDelivery`) |
| Server session: `server/session.cc` | connection, control pipe, channels | Connect, control events, create channel, destruction | a notice in the pipe after destruction; a 300 ms timeout on references to the stack; a failed connect | one disconnection told, when all is quiet; nothing used after its end | `ServerSession` (order of requests in `RequestDelivery`) |
| Peer manager: `server/peer-manager.cc`, `server/peer.cc` | the list of peers, their timers, probes | receive a broadcast, refresh, expire, ping | probes' answers that come late; a peer removed inside its own callback | a peer that is there stays; a dead one goes; the user is told of both | `PeerManager` |
| Client resources: `client/virtual-object.cc`, `client/gl-*.cc`, `client/service/*.cc` | pending and rendering state of a graph of resources, damage flags | the setters and commits | dependants that commit a resource, updates while damaged | after a commit the rendering state is the committed one; what is deleted is freed | `Scene` |
| Server proxies and buffers: `server/gl-*.cc`, `server/buffer.cc` | the remote ids; a buffer's reference | one job per method | data released before or after its upload | a request finds what it names, data are read while valid and released in the end, destroyed resources leave the client | `Proxies` |
| Signals, logger, session connection, test client | a list of callbacks; none | | | | not modelled, see section 8 |

## 2. Plan

Modules in the order of writing.  Those marked (+) exist.

1. (+) `OrderedExecution` - the promise of the protocol; (+) `RequestDelivery` -
   the way of a request through server, network and client; it implements the
   former.
2. (+) `AtomicCommandQueue`, (+) `ReadersWriterLock`, (+) `ResourceContainer` -
   the client's shared structures, one module each; (+) `JobQueue` - the server's.
3. (+) `Scene` - the resource graph: pending and rendering state, damage, commits
   pushed to the command queue, deletions.  It uses the command queue as
   `AtomicCommandQueue` shows it to behave: whole groups between frames.
   It is checked on four scenarios.
4. (+) `Proxies` - the server's resource objects: the jobs they push, and the
   release of buffers, whose data must be read before and released once.
5. (+) `ServerSession` - `JobQueue` in its channel, with the gRPC thread that calls
   back, the control pipe and the life of the session.
6. (+) `ClientRemote` - sessions, keepalive calls, discovery broadcasts, start and
   stop of the gRPC server.
7. (+) `PeerManager` - discovery, expiry and probes, in time.

Every component with threads or messages has its module (section 8 says what is left
out of them), and every safety property that a passing run checks has its theorem
(section 7).  The proofs of a component are in a module of their own; those of
`JobQueue` are with those of `ServerSession`, which extends it, and those of
`ReadersWriterLock` with those of `ResourceContainer`, which uses two such locks.

## 3. The modules and the code

### `RequestDelivery`: one session, many channels

*Server.*  `serial` is `Channel::serials_[kRequest]`.  `SendRequest` is a job
performed by the worker: `NewSerial` and the start of the call.  All proxies'
jobs have this form; they differ in the arguments only.  `FailRequest` is
the end of a call without an answer of the client, with the status `UNAVAILABLE` or
`CANCELLED`, and `CallEnded` the callback that every proxy gives its calls: for any
error but `CANCELLED` it calls `Channel::NotifyDisconnection`, which writes to the
control pipe if the channel is enabled (`notice`).  `cancelled` are the calls that
ended without a notice.
`HandleControlEvent` is the session's loop reading the pipe and disabling the
channels, `EndSession` and `DisableChannels` the two halves of `~Session`
between which the workers go on.

*Network.*  `network` is the set of requests the client has not received:
unary calls have no order.

*Client.*  `AcceptRequest` and `RejectRequest` are `Proceed` up to the check of
the session; then the gRPC thread holds a request in `checked`, and the actions
`ExecuteNow` and `Hold` (`SerialCommandQueue::Push`), `ConsumeNext` and
`FinishConsume` (the loop of `Consume`), `ReturnFromPush` (the eviction at the
end of `Session::PushCommand`) follow one by one, with steps of all other threads
in between.  `draining` and `returning` are the thread's program counter.
`ClearSession` and `ReplaceSession` are the client's handlers for Shutdown and
New, `DisableSession` is the application leaving.  When the last
reference to the session goes, `DestroySession` cancels the held commands.
`HandlerFault` is a handler that finds no session.

`executed` is a history of the handlers run, which the refinement of
`OrderedExecution` reads.

### `AtomicCommandQueue`

`log` holds all that was ever pushed, `popped` how much of it has left the queue:
the C++ list is `log` from `popped + 1`.  Each critical section of `mtx_` is one
action; `executor` holds `exec_mtx_` from `BeginExecute` to `ReachCommit`.
`budget` is the number that `UpdateScene` computed from `commit_count()`.
`Destroy` is the destructor.

### `ReadersWriterLock`

Each critical section of the lock's mutex is one action, and `asleep` the set of
threads blocked in the condition variable.  A thread that wants the lock
evaluates its condition (`StartRead`, or `WaitRead` and to sleep); a notification
or a spurious wake-up lets it evaluate again.

### `ResourceContainer`

The loop-intensive container, with the gRPC thread that adds, finds and removes,
and the rendering thread in `ForEach` (`BeginForEach`, `Merge`, `Prune`,
`Visit`, `EndForEach`).  `Get` searches the two vectors in two steps.  `due`,
`added` and `scheduled` are histories.

### `JobQueue`

The pushers' critical section and the notification after it are two steps, and so
are those of `Terminate`, followed by the join.  The worker's positions are
`evaluate`, `asleep`, `perform`, `drain` and `exited`.  A job stays in the queue
while it is performed.  It is checked within `ServerSession`, and its theorems are
carried over to it.

### `ServerSession`

It extends `JobQueue`: the queue is that of the channel the user created, `Perform`
begins a job whose steps (`JobLocks` to `JobReturns`) start a call, and `Terminate`
is what `Channel::Disable` calls.  `enabled` and `mtx` are the channel's; `user`,
and the positions of the threads, tell who refers to it (`Holders`): a weak
reference can be locked while there is a holder, and the last one to let go
runs `~Channel`, the user (`DropChannel`) or the gRPC thread (`Release`,
`GrpcDestroys`).  The gRPC thread finishes a call (`CallCompletes`), notifies of a
failure under the mutex (`Notify`, `Write`) and deletes the caller (`Count`); it goes
on after the channel is gone, as the detached thread does.  A call that ends OK or
`CANCELLED` goes from `CallCompletes` to the deletion of its caller directly.

The main thread is the user's event loop: `HandleControlEvent` disables the
channels, then tells the user; `EndSession`, `ShutdownReturns`, `MainDisables` and
`DisableSessionChannel` are `~Session`.  Of the session's own channel the keepalive
call is modelled, whose end is the usual notice of a disconnection.  The user
creates a channel before or after a disconnection (`"late"`).

### `ClientRemote`

A method of `Remote` is one action for each critical section of
`current_session_mutex_`, and two where it stops the broadcasts and joins their
thread while it holds the mutex (`DisableSession` and `FinishDisable`,
`ResetSession` and `FinishReset`, `Destroy` and `FinishDestroy`).  `keeper[s]` is the
session's `keepalive_caller_` and `active` the set of sessions whose `active_` is
set.  The gRPC thread handles one event at a time: a `Shutdown` and a `Keepalive`
check the session first and act on it in a second step.  `DestroyServer` to
`FinishMembers` are the members' destructors.  `caster` is the broadcaster's
thread, from the opening of its socket to its exit.

### `PeerManager`

All handlers of the event loop are single actions: `AcceptUdpBroadcast`,
`PortForwardedPeerProbe` with the notifier's callback, `Expire`.  `peer` holds all
peers that were created, with their timers in ticks, `peers` the list, `kept` those
the user refers to.  `Probe` starts a probe, `AnswerProbe` is its callback on the
prober's queue, which writes to the notifier's pipe.  The hosts are the clients'
broadcasters (`Start`, `Stop`, `Broadcast`, as in `ClientRemote`), whose datagrams are
received, lost or not sent.  `Tick` lets time pass when all that is due has been
dispatched.

### `Scene`

The client's resources of one session.  `pending[r]` is the `pending_` of resource
`r`, changed by the handlers on the gRPC thread; `rendering[r]` is what its
`rendering_` and its OpenGL object hold, changed by commands.  A command is
`[op |-> "set", to |-> r, set |-> ...]` for a lambda that captured the state to
set, or a deletion; `"commit"` ends a group.  The operators `CommitObject`,
`CommitUnit`, `CommitTechnique`, ... are the methods `Commit` of the classes, as
functions of the pending states and the queue; each locks its weak references with
`Live`; a list of references is gone through with `CommitEach`, a fold over the live
ones.  `commits` is `commit_count_`.  Handlers are actions with the names of the service's methods.
`ExecuteCommand` and `FinishGroup` are the rendering thread in `UpdateScene`,
`Frame` is `Remote::Render`, with the removal of objects that `ForEach` does and
the bindings that `SetupTextures` erases.  A behaviour uses the resources of one
`Scenario`, of which some are `Given`.  `EndSession` destroys the pool; the
queue survives.  References are looked up where the code does so: ids when a handler runs
(`Get`), shaders and buffers of vertex arrays when the command runs
(`LinkResult`, `PointedAt`), everything else when a frame is drawn (`Drawn`); a vertex array is drawn with once
its first command has made the OpenGL object (`exists`).

The histories `content`, `newest` and `shown` say what each commit asked for: a
*picture* of the whole scene, taken when the commit is made, from what was
uploaded and, but for when a uniform is sent, a mipmap made or an attribute bound,
not from the damage flags.  `newest` is the picture of the last commit ordered; it
travels with the commit through the queue and becomes `shown` when the commit is
executed.  `CommitIsShown` compares the rendering state with `shown`.

### `Proxies`

The user's side of the server.  A proxy is `"new"`, `"alive"` or `"gone"`; each of
its methods has a definition of its own, which says what it names (`expects`) and
which buffer it takes, and ends in `PushJob`, as every method in the code
does.  `Create...` stands for the constructor and `Init`, `Destroy...` for the
destructor.  A worker locks its job's weak reference to the channel (`BeginJob`),
sends the request and destroys the job (`EndJob`), or cancels it (`CancelJob`).
`DropChannel` is the user dropping the last reference to a channel, after which
proxies drop their jobs and the worker sends nothing; `Disable` is the
termination of the channel's queue, by its destructor or by the session.  A buffer goes
from the user to a job (`"held"`); with the job it is destroyed and writes
to the pipe (`"notified"`), upon which the user's loop calls `on_release`
(`"released"`).  The client is reduced to the ids in its pool and handles the
requests of a channel in order, as `RequestDelivery` shows, up to the first whose
call was cancelled before it arrived (`CancelCall`, `cut`); `JobQueue` shows
what is taken here in one step.

## 4. What the runs show

| Run | Instance | Result |
|---|---|---|
| `delivery` | 2 channels, 3 requests each, at most 1 failed call, as many queues kept as channels | Handlers run in order of issue without gap or repetition and only while the client is in the session (`ImplementsOrderedExecution`); every request is in one place (`EachRequestInOnePlace`); a held command waits for an earlier one that is missing (`NoStrandedCommand`); every request is executed, aborted or failed in the end, or the server's user is told, or the request waits behind a call that was cancelled before it arrived (`RequestsSettle`) |
| `delivery_evicted` | 2 channels, 1 queue kept | finding: `NoStrandedCommand` fails |
| `delivery_leave` | 1 channel | finding: `HandlerHasSession` fails |
| `commands` | 1 committing and 1 releasing thread, 2 renderers, 6 entries | Commands run once, in order, in whole groups between frames; the executor always finds a commit; committed commands are executed in the end |
| `lock` | 3 readers, 1 thread that reads and writes | Exclusion, no lost wake-up, no deadlock, the writer gets in |
| `container` | 3 resources | Lookups find what is live although it moves between the vectors (`GetFindsLive`); a frame shows all that was live throughout (`FrameShowsLive`); a removal takes effect at the next frame, except in the one case below (`RemovalForgottenOnlyIfNew`) |
| `scene` | an object, unit and technique given, with a vertex array to get its buffer, a program its shader, or a texture its sampler; or all from nothing; two contents, 6 requests | After each commit the rendering state is what was committed, whatever was changed, moved or deleted meanwhile, with the exceptions below (`CommitIsShown`); a deleted resource's OpenGL object is freed and not made again (`DeletedIsFreed`) |
| `scene_race` | one program and shader | finding: `CommittedProgramIsLinked` fails |
| `proxies` | one proxy of each class, 2 channels, 1 buffer, 2 calls | When a request is handled, its resource and all it names that were alive and of the same channel at the call are in the pool, and new ids are not (`FindsResources`); data to be read are held, by one job (`DataHeldWhileQueued`), and released in the end also when the channel is gone (`DataReleased`); a destroyed resource leaves the client for good, unless its channel ends or one of the channel's calls is cancelled (`DestroyReaches`) |
| `session` | 1 channel, 2 pushers, 2 jobs, 2 messages in the pipe | A channel that is enabled and referred to, and a thread about to write, have an open pipe (`EnabledPipeValid`); the user is told of the disconnection once, when nothing of the channel is at work any more (`ToldOnce`); jobs run once and in order or are cancelled, and none is left when the queue is terminated (`EachJobOnceInOrder`, `TerminateSettles`); `pending_count_` is exact but for the call just started (`SessionTypeOK`); a lost client is noticed and no thread waits for ever (`SessionSettles`) |
| `remote` | 3 sessions, 2 keepalive calls | The client broadcasts if and only if it would accept a session (`BroadcastsIffAcceptable`); a keepalive call waits at one active session or is answered and its caller deleted once (`CallsWaitAtActive`); the methods return although they join threads under the mutex (`RemoteSettles`) |
| `peers` | 1 host and the forwarded port, 2 peers | What the user was told is the list, one peer for each host (`UserSeesPeers`); a host is lost only if it stopped or failed to send (`LostOnlyIfQuiet`); a client that is gone leaves the list (`GoneIsLost`) |

`PROJECT.json` has, for each property of a passing run, a plausible bug in the
code (a mutant) that makes TLC find the property violated.

### Findings

* **Eviction forgets the serial number** (`src/client/session.cc`,
  `PushCommand`).  With more than 100 command queues every empty one is erased,
  with its `next_serial_`.  The channel's next command meets a new queue that
  waits for number 0, and is held for ever.
* **A handler without a session** (`src/client/service/async-session-service-caller.h`).
  The session is checked and kept alive by `Proceed`, but the handlers ask
  `remote->current()` again.  `Remote::DisableSession` on the application's thread
  makes that a null pointer.
* **A shader deleted too early** (`src/client/gl-program.cc`).  The command that
  links a program captures its shaders as weak references.  A shader that is
  deleted after the commit, but before the rendering thread executes it, is
  missing, and the program does not link.

`CommitIsShown` has exceptions, each a field of the pictures, for behaviour of
the code that one would not expect but that nothing in the repository rules out:
new data of a buffer are not committed through a vertex array that has no change
of its own (`reached`); an attribute committed before its buffer had data stays
unbound (`bound`); uniform variables sent for a program that is not linked are
dropped (`applied`).

Other behaviour of that kind, which the properties state exactly:

* Every callback of a proxy's call skips the status `CANCELLED`
  (`src/server/virtual-object.cc`, line 37, and all others alike).  Such a call has
  used up its serial number.  If the request has not reached the client, the number
  never comes: the later requests of the channel are held for ever, the channel stays
  enabled and nobody is told, until something else fails.  The server itself never
  cancels a call; the status comes from gRPC, for instance when the client's gRPC
  server is shut down.  `RequestsSettle` has this exception (`Lost`) and no other, and
  so has `DestroyReaches` (`CutOff`).
* A resource added and scheduled for removal between the two critical sections of
  `ForEach` (the merge of `new_resources_` and the pruning with `remove_set_`) loses
  its removal: it is not in `resources_` yet when `remove_set_` is cleared.
  `RemovalForgottenOnlyIfNew` says that no other removal is lost.
* `pending_count_` is incremented after the call was started.  If the call
  completes first the count is -1 for a moment, and `GetBusyness` 4294967295
  (`SessionTypeOK`).
* A peer that a failed probe removed, and that the user still holds, is told lost a
  second time when its timer expires (`UserSeesPeers`).
* A client whose send failed pauses 5 s, more than the 4.5 s after which the server
  loses it (`LostOnlyIfQuiet`).
* A session that is replaced is not shut down; its keepalive call is never
  answered (`CallsWaitAtActive`).
* `~Remote` terminates the process if the gRPC server's thread is still building the
  server (`RemoteSettles` admits it).

## 5. Bounds

* `MaxSerial = 3` with two channels: a request can be early by one or by two, the
  held list can have two entries in either order of arrival, and a drain can
  execute several commands while another channel is active.  `MaxFailed = 1`: one
  failed call, with either status, already leaves the gap that stops a channel, and can
  hit before or after the request was received.
* `MaxQueues` stands for the constant 100.  Only the comparison of the number of
  queues with it matters: `delivery` has as many queues as are kept,
  `delivery_evicted` one more.
* `MaxLog = 6` holds two groups of two commands, or six groups; two renderers
  contend for one group.
* `lock`: three sleeping readers and a writer are enough for every combination of
  who sleeps and who is woken; the proofs cover any finite set.
* `container`: with three resources, one can be in each vector and one in none.
* `scene`: one resource of each kind suffices for the order of commands and damage,
  since `Commit` treats resources of a kind alike.  A creation
  only adds to the pool, so what every behaviour of a scenario would begin with is
  `Given`; the fourth scenario gives nothing.  What a scenario is about takes 4 or 5
  of its 6 requests to build and commit, which leaves the others to change, commit
  again or delete.  Branches of the technique do not share state, hence a scenario for
  each.  So no run has a technique that is drawn, with a vertex array and a program
  that links at once, or a resource that two others refer to; `CommitsAreShown` is
  proved for these as well.  One commit waits at a time (`MaxCommits`).  Contents are interchangeable,
  hence the symmetry.  `CommitsAreShown` and `DeletedAreFreed` are proved for any
  resources, requests and commits waiting.
* `proxies`: the user starts with nothing, with an object and a unit, or with one
  proxy of each class (`Early`), so that two further calls reach every method with
  everything that it names, followed by any other call: the violation of an order
  takes two calls.  The channels are alike, so what a behaviour starts with is on the
  first (`Home`).
* `session`: two pushers and two jobs are enough for a job to be performed, one to
  be queued or cancelled, and a push to be refused, at every point of the
  disconnection; two messages for a second notice when the first is handled.  The
  proofs cover any number of jobs and pushers for the queue's properties.
* `remote`: with three sessions one can be current, one replaced and one shut down;
  with two calls one waits while another is refused.
* `peers`: a tick is 1 s; the timer of 4.5 s is due in the fifth tick, broadcasts and
  probes come every tick, the pause after an error is 5.  `MaxLost = 3` datagrams in
  a row is the most that this timeout bears.  One host and the forwarded port use
  both ways into the list; two peers let a host be lost and found again.
  `MaxProbes = 1` of each outcome in flight suffices for answers in either order.
  `OnlyQuietAreLost` proves the bound of losses for all periods.

`CHECK_DEADLOCK FALSE` is given where the system stops rightly: when the session
is over and every request answered (`delivery*`), when the queue is destroyed
(`commands`), when the user has made all calls (`proxies`), when session and channel
are gone (`session`), `Remote` is destroyed (`remote`) or the manager is (`peers`).  In
`lock`, `container`, `scene` and `scene_race` deadlock is checked.

## 6. Fairness

* `RequestDelivery`: the gRPC thread goes on (its loop ends only with the gRPC
  server), and receives each request or sees the session rejected; a request
  in the network arrives or its call fails or is cancelled (the connection has a
  keepalive).  Nothing obliges the server to send, the application to leave, or a
  call to fail.
* `AtomicCommandQueue`: a renderer finishes the `UpdateScene` it is in and calls
  it again for the next frame.  Producers need not push or commit.
* `ReadersWriterLock`: a thread that waits evaluates its condition when awake, one
  that holds the lock releases it: the guards are scopes without a wait for
  the same lock in them.  No thread has to ask, no spurious wake-up has to come.
* `JobQueue`: the worker goes on, pushers and `Terminate` finish what they began;
  jobs return because each only starts an asynchronous call.
* `ServerSession`: every thread goes on with what it began.  Calls end when the client
  is lost, because the connections ping it every second; while it answers they need
  not.  The user need not create, push, drop or end anything.
* `ClientRemote`: threads go on.  The gRPC thread, when it waits for
  `current_session_mutex_`, gets it although the application takes it again and
  again, and each event of the completion queue has its turn (both strong
  fairness).  The application need not call anything, no server need connect.
* `PeerManager`: the loop dispatches what is due, the prober goes on, a host that
  broadcasts goes on until it stops, and time passes (strong fairness, for nobody
  takes infinitely many steps at one time).  Probes need not be answered.
* `Proxies`: workers and the user's loop go on, the client handles the requests
  of a channel that is not disabled, and a destructor of a channel that began
  disables it.  Requests of a disabled channel may be lost, and any call may be
  cancelled.

## 7. What is proved

All proofs hold for every value of the constants under the assumptions named in
the modules: finite sets of channels and threads, naturals as bounds, `None`,
`NoId` and `Commit` distinct from threads and ids.  In `ServerSession` no
pusher has the name of another thread (`PusherAssumption`); `Proxies` starts with
sets of its own proxies on its own channels (`EarlyAssumption`), and no buffer is called `None`;
`PeerManager` has positive periods, `LocalHost` is not a host that broadcasts,
and the client pauses no less after an error than between two broadcasts (5 s and
1 s in the code).  In `Scene` the resources are finitely many, no two kinds share
one (the server draws all ids from one counter) and `None` is not one of them
(`ResourceAssumption`).

* **`RequestDeliveryProofs`**: `TypeCorrect`, `RequestsInOnePlace`,
  `OrderIsKept` (`Spec` implements `OrderedExecution`), `NoCommandStranded`.
  Order is not inductive by itself.  The invariant adds that a queue's
  `next_serial_` is the number of commands executed, or 0 after an eviction,
  in which case the queue is empty or can only hold numbers above 0 and
  executes nothing of the past again: all numbers executed form the interval from
  0, all requests not yet executed have higher numbers, and the places a request can
  be in (network, checked, held, executed, aborted) are disjoint and cover what was
  sent.  Order then holds **with** evictions: an evicted queue is stuck, never
  disordered.  `NoCommandStranded` needs the assumption
  `Cardinality(Channel) <= MaxQueues`, under which nothing is evicted;
  `delivery_evicted` shows that it is needed.
* **`AtomicCommandQueueProofs`**: `TypeCorrect`, `ExecutorNeverStuck`,
  `CommittedFirst`, `CommandsOnceInOrder`, `GroupsAreAtomic`.  The invariant:
  `commit_count_` is the number of commits in the queue, an executor has a
  positive budget and count (so that a commit is ahead of it), and the commands
  executed are those before the place reached, in increasing order.
* **`ResourceContainerProofs`**, first of the lock: `CountersCorrect`, `LockExcludes`,
  `LockWakes` for any finite set of threads, also with several writers.  The
  conjunction of the properties is inductive: exclusion needs the counters, the
  counters the types.
  Then of the container: `TypeCorrect`, `LookupFindsLive`, `FrameIsComplete`,
  `RemovalsTakeEffect`.  The invariant says where a live resource can be at each stage
  of `ForEach` and of a lookup; the last, an action property, follows from it and
  from `FreshStaysNew`, that what was added since the merge is still in
  `new_resources_`.
* **`ServerSessionProofs`**, first of the queue: `TypeCorrect`, `JobsOnceInOrder`,
  `TerminateIsFinal`.  The invariant places every job by its number: performed, then
  cancelled, then queued.
  Then `SessionUsesQueue`: each step of a session is a step of `JobQueue` or leaves
  the queue alone, hence `SessionKeepsOrder` and `DisableIsFinal`: the theorems of
  the queue hold in the session, whichever thread disables the channel, and whenever.
  Last the session's own: `SessionTypesCorrect`, `PipeOutlivesWriters`,
  `ToldOnceWhenQuiet`.  They rest on one another and on who may refer to the channel:
  the main thread goes on from `DisableChannels` because it saw the channel disabled
  or found its weak reference dead, and neither changes back.  `SessionInv` says so
  (`Life`), with who holds the channel's mutex (`Mutex`), that only one thread destroys
  the channel, after the last reference went (`Destruction`), and that the worker has
  no job left when `Disable` has joined it (`Jobs`, from the queue's invariant).
* **`ProxiesProofs`**: `TypesCorrect`, `LookupsSucceed`, `BuffersOutliveJobs`.  What a
  handler finds depends on all that is under way on its channel, so the invariant is
  about the *pipeline* of a channel: the requests sent and not handled, and after
  them those the queued jobs will become.  In it, what an item names exists or is
  made by an earlier item, and is deleted by none before; what is alive on a channel
  that accepts calls will be there at the end of the pipeline (`PipeInv`).  A call
  appends to the pipeline, the worker moves its boundary only, the client takes its
  front, and whatever cuts a channel off shortens it; each has its lemma.  `DataInv`
  says that one job at most reads a buffer, which is held then.
* **`ClientRemoteProofs`**: `RemoteTypesCorrect`, `BroadcastsFollowSession`,
  `CallersAtActiveSessions`.  The properties speak of moments at which nobody is in a
  critical section.  `RemoteInv` adds what holds inside: which thread holds the mutex
  and that no handler runs once `~GrpcServer` has joined its thread (`Threads`), that
  broadcasts stopped under the mutex stay stopped until it is free (`Broadcasts`), and
  that a call is at one session at most and the one about to be attached at none
  (`Calls`).
* **`PeerManagerProofs`**: `PeerTypesCorrect`, `UserIsToldOfPeers`, `OnlyQuietAreLost`.
  For the second, `Told` says what the timer of a peer can still do after it was lost:
  nothing if the timer removed it, once more if a failed probe did.  The third, an
  action property, has a hypothesis on the periods, `TimeoutBearsLosses`:
  `MaxLost + 1` pauses are shorter than the timeout (in the code 4 s and 4.5 s, that
  is 4 and 5 ticks).  Its invariant `Heard` relates the timer of a host's peer to the
  sender's own: unless a datagram waits, what is left of the timeout is longer than
  the sender's pause and the pauses of all further losses the network may cause.

* **`SceneProofs`**: `TypeCorrect`, `DeletedAreFreed`, `CommitsAreShown`, for any
  number of resources of each kind, vertex attributes, contents, requests and
  commits waiting in the queue.  That the end of a group finds the rendering state
  right depends on the commands that are still in the queue, and that a commit,
  which sends only what was changed, suffices depends on what earlier commits sent.
  The invariant `Inv` therefore has, beside the types, these parts: `Aims`, that the
  entries up to each commit lead from the rendering state to the picture of that
  commit, those before the place reached to `shown` and all of them to `newest`;
  `Coherence`, that a part of a pending state that is not marked as changed is what
  `newest` says; `Freed`, that the last entry for a resource that is gone is its
  deletion, or it holds nothing any more; `Counted`, that `commit_count_` counts
  the commits in the queue, so that the executor never runs into an empty list.
  "Lead to" is `Match`: by the last command in the queue that sets a field, or the
  rendering state if none does.  So it need not follow the states in between, and
  takes in turn what a command captures (`Shows`) and what it looks up when it runs:
  the shaders of a program, the buffers of an attribute, the program of a uniform.
  The proof has two halves.  A commit walks down the graph, and may reach a
  resource several times: in `Progress` each resource is `Fresh`, as the commit found
  it, or `Finished`, its commands in the queue and its marks cleared; every method
  `Commit` moves forward (`Onward`), and in the end what is below the object is
  finished (`CommitDone`).  The rendering thread takes the head of the queue:
  `SetTakes` says what a command does to the rendering state, the `Shift` lemmas that
  what is left of the queue still leads to the same pictures (`MatchShift`).  Creation,
  deletion and the end of the session change which references are alive: `Match` asks
  less then, or nothing of what is new.  The folds over sets of references are taken
  apart with `RemovalInduction`, induction over a finite set, which rests on the
  least number (`WFMin`) instead of an induction theorem with an operator.

`CommittedFirst` (`OnlyCommittedExecuted`) is proved and needs no run.

Only model-checked: the liveness properties (`RequestsSettle`,
`CommittedIsExecuted`, `WriterGetsIn`, `DataReleased`, `DestroyReaches`,
`SessionSettles`, `RemoteSettles`, `GoneIsLost`), which need fairness, a kind of
reasoning the prover does not support; and the three violations.

## 8. Abstractions and what is not modelled

* A critical section of a mutex is one step.  `Remote::current()` copies a
  shared pointer in one step; in the code the copy is not protected against a
  writer on another thread.
* What a handler does is abstracted, in `RequestDelivery`, to the fact and order
  of its execution.  Request contents, logging and formatting are left out.
* Whether the server's keepalive call has reached the client when a session is
  shut down is left open (both happen).
* Serial numbers do not wrap: they have 64 bits.  Resource ids are not reused;
  the server draws them from a 64-bit counter.
* `Terminate` has one caller, as the channel's mutex and flag make sure
  (`ServerSession` has both).
* The find-by-id container is a map under one `ReadersWriterLock`; the lock's
  module covers it.
* The lookup of an id in neither vector is followed to its outcome
  (`"dangling"`: the end of a vector is dereferenced) and not judged by a
  property, as the repository says nothing of such lookups.
* `Scene`: a frame is one step, and so is a command; data, parameters and
  draw arguments are opaque, and a technique has one texture binding and one
  uniform variable.  Shaders compile, and a program links if all its shaders
  are there.  Binding a buffer without data leaves the attribute unbound.  Requests
  name owners (the object of a unit, the unit of a technique) that are
  alive; for others the handlers dereference null.
* `Proxies`: one thread of the user calls the proxies, which have no lock.  The user
  drops a channel only while no job of it runs: the job holds a reference too, and
  the worker would join itself.  Resources of
  another channel may be named, but nothing is promised of them: requests of two
  channels are not ordered.
* `ServerSession`: one channel beside the session's own.  The user lets go of an
  enabled channel only when it has no job left; else the worker, dropping the last
  reference in its job, would join itself, which no code prevents.  What a
  Shutdown call that is answered after 300 ms does to the stack of `~Session`, and the
  second close of the descriptors of a failed `Connect`, are undefined behaviour
  outside the model's state.
* `ClientRemote`: the race of `current()` with its writers yields the old or the
  new pointer.  A port in use, whose server is null, and callers that the
  completion queue cancels at shutdown are not modelled.
* `PeerManager`: the user holds a peer at least until it is told that it is lost.
  If nobody held it, its `on_expired` would free the closure it runs in.  What an
  answer to a probe does to the notifier, and a kept peer's timer to the manager,
  after the manager is destroyed, is not followed.  Errors of the socket, foreign
  packets and a timer that cannot be armed are left out.
* A server that vanishes without a word leaves its session current on the client:
  nothing in the code ends it, so there is nothing to check.
* Not modelled: the logger and common macros (no state), `Signal` (a list of
  callbacks; the calls are within the actions of its users), `SessionConnection` (only
  its message type is used), the test client (an example), OpenGL itself, and gRPC
  and asio except for how the code uses them.
