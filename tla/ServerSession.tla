---------------------------- MODULE ServerSession ----------------------------
(***************************************************************************)
(* A session of the server with its channels (server/session.cc,           *)
(* channel.cc, async-grpc-queue.cc, async-grpc-caller.h).  Four threads    *)
(* meet here: the main thread, which runs the event loop and owns the      *)
(* session; the threads that push jobs; the worker of the channel, whose   *)
(* queue is JobQueue; and the channel's gRPC thread, which calls back.     *)
(*                                                                         *)
(* The channel the user created is modelled in full: every job locks the   *)
(* weak reference to it, starts a call and lets go.  Of the session's own  *)
(* channel the keepalive call and enabled_ are modelled.                   *)
(*                                                                         *)
(* The user lets go of a channel that is enabled only when it has no job   *)
(* left: else the worker may drop the last reference and would join itself.*)
(***************************************************************************)
EXTENDS JobQueue, FiniteSets

CONSTANTS MaxWrites     \* bound of the model: messages in the control pipe

ASSUME WritesAssumption == MaxWrites \in Nat \ {0}

\* The pushers are none of the other threads that may hold the channel.
ASSUME PusherAssumption == Pusher \cap {"user", "main", "worker", "grpc"} = {}

VARIABLES
    session,    \* "new", "connected" (connected_), "disconnected", "failed", "gone"
    pipe,       \* pipe_: "closed" or "open"
    messages,   \* how many messages the control pipe holds
    told,       \* history: how often on_disconnect was called
    main,       \* main thread: "loop", or in HandleControlEvent ("disconnect"),
                \* ~Session ("end") or ~Channel ("drop")
    at,         \* and where it is there
    keepalive,  \* where the keepalive call of the session's channel is
    sEnabled,   \* enabled_ of the session's channel
    user,       \* the user's reference: "none", "holds", "late" (created after
                \* the disconnection) or "dropped"
    enabled,    \* enabled_ of the user's channel
    mtx,        \* who holds its mtx_: "free", "main" or "grpc"
    job,        \* where the worker is in the job it performs
    inflight,   \* calls started and not completed
    pending,    \* pending_count_
    grpc,       \* the gRPC thread of the user's channel
    clientUp    \* environment: the client answers

queueVars == <<running, queue, worker, notifying, closer, accepted, refused,
               performed, cancelled>>
sessionVars == <<session, pipe, messages, told>>
keepaliveVars == <<keepalive, sEnabled>>
channelVars == <<user, enabled, mtx>>
callVars == <<job, inflight, pending, grpc>>
mainVars == <<main, at>>
allVars == <<queueVars, sessionVars, mainVars, keepaliveVars, channelVars, callVars,
             clientUp>>

SessionInit ==
    /\ Init
    /\ session = "new"
    /\ pipe = "closed"
    /\ messages = 0
    /\ told = 0
    /\ main = "loop"
    /\ at = "idle"
    /\ keepalive = "none"
    /\ sEnabled = FALSE
    /\ user = "none"
    /\ enabled = FALSE
    /\ mtx = "free"
    /\ job = "none"
    /\ inflight = 0
    /\ pending = 0
    /\ grpc = "next"
    /\ clientUp = TRUE

Created == user # "none"

(* Who holds a shared_ptr of the user's channel. *)
Holders ==
    (IF user \in {"holds", "late"} THEN {"user"} ELSE {}) \cup notifying
    \cup (IF main \in {"disconnect", "end"} /\ at \in {"lock", "join"}
            THEN {"main"} ELSE {})
    \cup (IF job \in {"start", "count", "release"} THEN {"worker"} ELSE {})
    \cup (IF grpc \in {"locked", "write", "release"} THEN {"grpc"} ELSE {})

-----------------------------------------------------------------------------
(* Session::Connect *)

(* The session exists on the client; its own channel starts the keepalive.  *)
Connect ==
    /\ session = "new"
    /\ clientUp
    /\ session' = "connected"
    /\ pipe' = "open"
    /\ keepalive' = "queued"
    /\ sEnabled' = TRUE
    /\ UNCHANGED <<queueVars, messages, told, mainVars, channelVars, callVars,
                   clientUp>>

(* The call of New failed: the pipe is closed and the channel dropped. *)
ConnectFails ==
    /\ session = "new"
    /\ session' = "failed"
    /\ UNCHANGED <<queueVars, pipe, messages, told, mainVars, keepaliveVars,
                   channelVars, callVars, clientUp>>

(* CreateChannel, AddChannel: Channel's constructor starts both threads. *)
CreateChannel ==
    /\ main = "loop"
    /\ user = "none"
    /\ session \in {"connected", "disconnected"}
    /\ user' = IF session = "connected" THEN "holds" ELSE "late"
    /\ enabled' = TRUE
    /\ UNCHANGED <<queueVars, sessionVars, mainVars, keepaliveVars, mtx, callVars,
                   clientUp>>

-----------------------------------------------------------------------------
(* The worker and the pushers of the user's channel *)

QueueOnly == UNCHANGED <<sessionVars, mainVars, keepaliveVars, channelVars,
                         callVars, clientUp>>

(* The user's threads push jobs through the channel the user holds. *)
PushJob(p) ==
    /\ user \in {"holds", "late"}
    /\ Push(p) \/ PushRefused(p)
    /\ QueueOnly

PushReturns(p) == NotifyPush(p) /\ QueueOnly

WorkerLoops ==
    /\ Created
    /\ Sleep \/ StopLoop \/ CancelFront \/ Exit
    /\ QueueOnly

WakesUp == SpuriousWakeUp /\ QueueOnly

PerformJob ==
    /\ Created
    /\ Perform
    /\ job' = "lock"
    /\ UNCHANGED <<sessionVars, mainVars, keepaliveVars, channelVars, inflight,
                   pending, grpc, clientUp>>

JobStep(from, to) ==
    /\ job = from
    /\ job' = to
    /\ UNCHANGED <<queueVars, sessionVars, mainVars, keepaliveVars, channelVars,
                   grpc, clientUp>>

(* channel_weak.lock(): a channel that is being destroyed has no reference. *)
JobLocks ==
    /\ JobStep("lock", IF Holders # {} THEN "start" ELSE "done")
    /\ UNCHANGED <<inflight, pending>>

(* AsyncGrpcQueue::Push starts the call, *)
JobStartsCall ==
    /\ JobStep("start", "count")
    /\ inflight' = inflight + 1
    /\ UNCHANGED pending

(* Mutant of JobCounts: the call is not counted. *)
JobCounts_Not ==
    /\ JobStep("count", "release")
    /\ UNCHANGED <<inflight, pending>>

(* and counts it afterwards. *)
JobCounts ==
    /\ JobStep("count", "release")
    /\ pending' = pending + 1
    /\ UNCHANGED inflight

JobReleases == JobStep("release", "done") /\ UNCHANGED <<inflight, pending>>

JobReturns ==
    /\ job = "done"
    /\ Pop
    /\ job' = "none"
    /\ UNCHANGED <<sessionVars, mainVars, keepaliveVars, channelVars, inflight,
                   pending, grpc, clientUp>>

-----------------------------------------------------------------------------
(* The gRPC thread of the user's channel; it goes on when the channel is    *)
(* disabled and when it is destroyed.                                       *)

GrpcStep(from, to) ==
    /\ grpc = from
    /\ grpc' = to
    /\ UNCHANGED <<queueVars, session, pipe, told, mainVars, keepaliveVars, user,
                   enabled, job, clientUp>>

(* A call completed (Next, Finish): its callback notifies of a failure if   *)
(* it can lock the channel.  It is silent for OK and for CANCELLED, which a *)
(* call may end with when the client is lost, too.                          *)
CallCompletes ==
    /\ inflight > 0
    /\ inflight' = inflight - 1
    /\ \/ GrpcStep("next", "finished")
       \/ Holders # {} /\ GrpcStep("next", "locked")
    /\ UNCHANGED <<messages, mtx, pending>>

(* Mutant of Notify: enabled_ is tested before the mutex is locked. *)
Notify_TestsFirst ==
    /\ \/ enabled /\ GrpcStep("locked", "write")
       \/ ~enabled /\ GrpcStep("locked", "release")
    /\ UNCHANGED <<messages, mtx, inflight, pending>>

(* Channel::NotifyDisconnection locks mtx_ and tests enabled_. *)
Notify ==
    /\ mtx = "free"
    /\ \/ enabled /\ GrpcStep("locked", "write") /\ mtx' = "grpc"
       \/ ~enabled /\ GrpcStep("locked", "release") /\ UNCHANGED mtx
    /\ UNCHANGED <<messages, inflight, pending>>

(* It writes to the pipe, whose bound stands for any number of messages. *)
Write ==
    /\ GrpcStep("write", "release")
    /\ messages' = IF messages < MaxWrites THEN messages + 1 ELSE messages
    /\ mtx' = "free"
    /\ UNCHANGED <<inflight, pending>>

(* The callback drops its reference; with the last one goes the channel. *)
Release ==
    /\ IF Holders = {"grpc"} /\ enabled
         THEN GrpcStep("release", "destroy")
         ELSE GrpcStep("release", "finished")
    /\ UNCHANGED <<messages, mtx, inflight, pending>>

(* The caller is deleted; the count may be of a queue that is destroyed. *)
Count ==
    /\ GrpcStep("finished", "next")
    /\ pending' = pending - 1
    /\ UNCHANGED <<messages, mtx, inflight>>

-----------------------------------------------------------------------------
(* Channel::Disable, by the main thread or, from ~Channel, the gRPC thread  *)

(* It locks mtx_; what is enabled is disabled, and the worker joined under  *)
(* the mutex.                                                               *)
LockAndTerminate(thread) ==
    /\ mtx = "free"
    /\ enabled
    /\ Terminate
    /\ mtx' = thread
    /\ UNCHANGED <<user, enabled>>

Terminating ==
    /\ NotifyTermination \/ Join
    /\ QueueOnly

(* The worker has exited, and the gRPC queue is shut down and detached. *)
Disabled(thread) ==
    /\ closer = "returned"
    /\ mtx = thread
    /\ mtx' = "free"
    /\ enabled' = FALSE
    /\ UNCHANGED <<queueVars, user>>

GrpcDestroys ==
    /\ \/ LockAndTerminate("grpc") /\ grpc = "destroy" /\ UNCHANGED grpc
       \/ Disabled("grpc") /\ grpc = "destroy" /\ grpc' = "finished"
    /\ UNCHANGED <<sessionVars, mainVars, keepaliveVars, job, inflight, pending,
                   clientUp>>

(* Where the main thread goes when the channel is disabled. *)
Onward == IF main = "drop" THEN main' = "loop" /\ at' = "idle"
                           ELSE main' = main /\ at' = "session"

MainDisables ==
    /\ \/ at = "lock" /\ LockAndTerminate("main") /\ at' = "join" /\ main' = main
       \/ at = "join" /\ Disabled("main") /\ Onward
       \/ /\ at = "lock" /\ mtx = "free" /\ ~enabled /\ Onward
          /\ UNCHANGED <<queueVars, channelVars>>
    /\ UNCHANGED <<sessionVars, keepaliveVars, callVars, clientUp>>

-----------------------------------------------------------------------------
(* The main thread *)

(* DisableChannels locks the weak reference to the user's channel. *)
StartDisabling == at' = IF Holders # {} THEN "lock" ELSE "session"

(* Mutant of HandleControlEvent: connected_ is not tested. *)
HandleControlEvent_Again ==
    /\ main = "loop"
    /\ session \in {"connected", "disconnected"}
    /\ messages > 0
    /\ messages' = messages - 1
    /\ session' = "disconnected"
    /\ main' = "disconnect"
    /\ StartDisabling
    /\ UNCHANGED <<queueVars, pipe, told, keepaliveVars, channelVars, callVars,
                   clientUp>>

(* The loop reads a message from the pipe. *)
HandleControlEvent ==
    /\ main = "loop"
    /\ session \in {"connected", "disconnected"}
    /\ messages > 0
    /\ messages' = messages - 1
    /\ IF session = "connected"
         THEN session' = "disconnected" /\ main' = "disconnect" /\ StartDisabling
         ELSE UNCHANGED <<session, mainVars>>
    /\ UNCHANGED <<queueVars, pipe, told, keepaliveVars, channelVars, callVars,
                   clientUp>>

(* The user releases the session: ~Session first asks the client to shut it *)
(* down, if it was ever connected, ...                                      *)
EndSession ==
    /\ main = "loop"
    /\ session # "gone"
    /\ main' = "end"
    /\ IF session \in {"connected", "disconnected"}
         THEN at' = "shutdown"
         ELSE StartDisabling
    /\ UNCHANGED <<queueVars, sessionVars, keepaliveVars, channelVars, callVars,
                   clientUp>>

(* ... for 300 ms at most. *)
ShutdownReturns ==
    /\ at = "shutdown"
    /\ StartDisabling
    /\ UNCHANGED <<queueVars, sessionVars, main, keepaliveVars, channelVars,
                   callVars, clientUp>>

(* The session's own channel is disabled (its NotifyDisconnection holds the *)
(* mutex while it writes).  Then the user is told, or the pipe is closed    *)
(* and the session gone.                                                    *)
DisableSessionChannel ==
    /\ at = "session"
    /\ keepalive # "write"
    /\ sEnabled' = FALSE
    /\ keepalive' = IF keepalive = "queued" THEN "done" ELSE keepalive
    /\ main' = "loop"
    /\ at' = "idle"
    /\ IF main = "disconnect"
         THEN told' = told + 1 /\ UNCHANGED <<session, pipe, messages>>
         ELSE session' = "gone" /\ pipe' = "closed" /\ messages' = 0
              /\ UNCHANGED told
    /\ UNCHANGED <<queueVars, channelVars, callVars, clientUp>>

(* The user releases the channel; if nothing else holds it, ~Channel runs. *)
DropChannel ==
    /\ main = "loop"
    /\ user \in {"holds", "late"}
    /\ enabled => queue = <<>> /\ notifying = {}
    /\ user' = "dropped"
    /\ IF Holders = {"user"} /\ enabled
         THEN main' = "drop" /\ at' = "lock"
         ELSE UNCHANGED mainVars
    /\ UNCHANGED <<queueVars, sessionVars, keepaliveVars, enabled, mtx, callVars,
                   clientUp>>

-----------------------------------------------------------------------------
(* The keepalive call of the session's channel *)

KeepaliveStep(from, to) ==
    /\ keepalive = from
    /\ keepalive' = to
    /\ UNCHANGED <<queueVars, session, pipe, told, mainVars, sEnabled,
                   channelVars, callVars, clientUp>>

StartKeepalive == KeepaliveStep("queued", "calling") /\ UNCHANGED messages

(* The client ends the call, or it fails.  The callback locks the channel.  *)
KeepaliveEnds ==
    /\ \/ session # "gone" /\ KeepaliveStep("calling", "locked")
       \/ session = "gone" /\ KeepaliveStep("calling", "done")
    /\ UNCHANGED messages

KeepaliveNotifies ==
    /\ \/ sEnabled /\ KeepaliveStep("locked", "write")
       \/ ~sEnabled /\ KeepaliveStep("locked", "done")
    /\ UNCHANGED messages

KeepaliveWrites ==
    /\ KeepaliveStep("write", "done")
    /\ messages' = IF messages < MaxWrites THEN messages + 1 ELSE messages

ClientLost ==
    /\ clientUp
    /\ clientUp' = FALSE
    /\ UNCHANGED <<queueVars, sessionVars, mainVars, keepaliveVars, channelVars,
                   callVars>>

-----------------------------------------------------------------------------
WorkerThread == WorkerLoops \/ PerformJob \/ JobLocks \/ JobStartsCall
                \/ JobCounts \/ JobReleases \/ JobReturns
GrpcThread == Notify \/ Write \/ Release \/ Count \/ GrpcDestroys
Main == HandleControlEvent \/ ShutdownReturns \/ MainDisables
        \/ DisableSessionChannel
KeepaliveThread == StartKeepalive \/ KeepaliveNotifies \/ KeepaliveWrites
UserStep == Connect \/ ConnectFails \/ CreateChannel \/ EndSession \/ DropChannel

SessionNext ==
    \/ \E p \in Pusher : PushJob(p) \/ PushReturns(p)
    \/ WorkerThread \/ WakesUp \/ Terminating
    \/ GrpcThread \/ CallCompletes
    \/ Main \/ UserStep
    \/ KeepaliveThread \/ KeepaliveEnds
    \/ ClientLost

(* Threads go on.  The calls end when the client is lost (the channel pings *)
(* it every second); while it answers, they need not.                       *)
SessionFairness ==
    /\ WF_allVars(WorkerThread)
    /\ \A p \in Pusher : WF_allVars(PushReturns(p))
    /\ WF_allVars(Terminating)
    /\ WF_allVars(GrpcThread)
    /\ WF_allVars(~clientUp /\ CallCompletes)
    /\ WF_allVars(Main)
    /\ WF_allVars(KeepaliveThread)
    /\ WF_allVars(~clientUp /\ KeepaliveEnds)

SessionSpec == SessionInit /\ [][SessionNext]_allVars /\ SessionFairness

-----------------------------------------------------------------------------
(* Properties *)

(* Types; and pending_count_ counts the calls that are started and whose    *)
(* callers are not deleted, but for the call just started.  It is -1 when   *)
(* that one completes first: GetBusyness is then 4294967295.                *)
SessionTypeOK ==
    /\ session \in {"new", "connected", "disconnected", "failed", "gone"}
    /\ pipe \in {"closed", "open"}
    /\ messages \in 0..MaxWrites
    /\ told \in Nat
    /\ <<main, at>> \in {<<"loop", "idle">>, <<"end", "shutdown">>}
         \cup ({"disconnect", "end", "drop"} \X {"lock", "join"})
         \cup ({"disconnect", "end"} \X {"session"})
    /\ keepalive \in {"none", "queued", "calling", "locked", "write", "done"}
    /\ sEnabled \in BOOLEAN
    /\ user \in {"none", "holds", "late", "dropped"}
    /\ enabled \in BOOLEAN
    /\ mtx \in {"free", "main", "grpc"}
    /\ job \in {"none", "lock", "start", "count", "release", "done"}
    /\ grpc \in {"next", "locked", "write", "release", "destroy", "finished"}
    /\ inflight \in Nat
    /\ clientUp \in BOOLEAN
    /\ pending = inflight + (IF grpc = "next" THEN 0 ELSE 1)
                          - (IF job = "count" THEN 1 ELSE 0)

(* "if enabled_ then control_fd_ is valid": a channel that something still  *)
(* refers to is disabled before the session closes the pipe, also while     *)
(* another thread disables it or is in NotifyDisconnection, which writes    *)
(* only to an open pipe.                                                    *)
EnabledPipeValid ==
    \/ enabled /\ Holders # {}
    \/ sEnabled
    \/ grpc = "write"
    \/ keepalive = "write"
    => pipe = "open"

(* The user is told of the disconnection once, and then nothing of the      *)
(* channel it created before is at work: the worker is gone, no job starts  *)
(* another call.                                                            *)
ToldOnce ==
    /\ told <= 1
    /\ told = 1 =>
          /\ ~sEnabled
          /\ user = "holds" => ~enabled /\ worker = "exited" /\ job = "none"

(* A client that is lost is noticed: the user is told or ends the session.  *)
(* The main thread always comes back to its loop, although Disable joins    *)
(* the worker under the mutex that the callbacks want; so does the gRPC     *)
(* thread when it destroys the channel; and every job settles.              *)
SessionSettles ==
    /\ session = "connected" /\ ~clientUp ~> told = 1 \/ session = "gone"
    /\ main # "loop" ~> main = "loop"
    /\ grpc # "next" ~> grpc = "next"
    /\ EveryJobSettles
=============================================================================
