---------------------------- MODULE ClientRemote ----------------------------
(***************************************************************************)
(* The client's Remote and what it owns: the current session, the thread   *)
(* of the discovery broadcasts, the gRPC server (client/remote.cc,         *)
(* session.cc, discovery-broadcast.cc, grpc-server.cc, service/session.cc, *)
(* service/async-session-keepalive-caller.h).                              *)
(*                                                                         *)
(* Three threads: the application's, the gRPC server's and the broadcaster.*)
(* A method of Remote is one action for each critical section of           *)
(* current_session_mutex_, or two where it joins the broadcaster while it  *)
(* holds the mutex.  thread_mutex_ is always taken under that mutex.       *)
(* current() copies a pointer that other threads assign without a common   *)
(* mutex: the copy is the old or the new pointer.                          *)
(***************************************************************************)
EXTENDS Integers, FiniteSets

CONSTANTS
    MaxSessions,    \* bound of the model: sessions created
    MaxCalls        \* bound of the model: keepalive calls received

ASSUME BoundAssumption == {MaxSessions, MaxCalls} \subseteq Nat

VARIABLES
    enabled,     \* session_is_enabled_
    current,     \* current_session_, 0 if null
    mutex,       \* who holds current_session_mutex_: "free", "app" or "grpc"
    app,         \* the application thread
    active,      \* the sessions whose active_ is set
    keeper,      \* keepalive_caller_ of each session, 0 if null
    created,     \* next_id_ - 1
    replaced,    \* history: the sessions that ResetSession replaced
    running,     \* running_ of the broadcasts
    caster,      \* the broadcaster thread
    server,      \* the gRPC server
    grpc,        \* what the gRPC thread does
    call         \* the keepalive calls received

vars == <<enabled, current, mutex, app, active, keeper, created, replaced,
          running, caster, server, grpc, call>>
sessionVars == <<active, keeper, created, replaced>>
casterVars == <<running, caster>>

Ids == 1..MaxSessions
Idle == [at |-> "idle", id |-> 0, call |-> 0]

Init == /\ enabled = FALSE
        /\ current = 0
        /\ mutex = "free"
        /\ app = "idle"
        /\ active = {}
        /\ keeper = [s \in Ids |-> 0]
        /\ created = 0
        /\ replaced = {}
        /\ running = FALSE
        /\ caster = "none"
        /\ server = "none"
        /\ grpc = Idle
        /\ call = [c \in 1..MaxCalls |-> "none"]

-----------------------------------------------------------------------------
(* Session and DiscoveryBroadcasts *)

(* Session::Shutdown answers the keepalive call, if there is one. *)
Shutdown(s) ==
    /\ active' = active \ {s}
    /\ keeper' = [keeper EXCEPT ![s] = 0]
    /\ call' = [c \in DOMAIN call |-> IF c = keeper[s] THEN "answered" ELSE call[c]]

(* Shutdown and reset of the current session. *)
ShutdownCurrent ==
    /\ current' = 0
    /\ IF current # 0 THEN Shutdown(current) ELSE UNCHANGED <<active, keeper, call>>

StartIfNotRunning ==
    /\ running' = TRUE
    /\ caster' = IF running THEN caster ELSE "open"

(* StopAndWait: first running_ is cleared, then the thread joined. *)
StopBroadcasts == running' = FALSE
JoinBroadcaster ==
    /\ caster \in {"none", "exited"}
    /\ caster' = "none"

-----------------------------------------------------------------------------
(* The application thread *)

EnableSession ==
    /\ app = "idle"
    /\ mutex = "free"
    /\ enabled' = TRUE
    /\ IF current = 0 THEN StartIfNotRunning ELSE UNCHANGED casterVars
    /\ UNCHANGED <<current, mutex, app, sessionVars, server, grpc, call>>

DisableSession ==
    /\ app = "idle"
    /\ mutex = "free"
    /\ mutex' = "app"
    /\ app' = "disable"
    /\ enabled' = FALSE
    /\ StopBroadcasts
    /\ UNCHANGED <<current, sessionVars, caster, server, grpc, call>>

FinishDisable ==
    /\ app = "disable"
    /\ JoinBroadcaster
    /\ ShutdownCurrent
    /\ mutex' = "free"
    /\ app' = "idle"
    /\ UNCHANGED <<enabled, created, replaced, running, server, grpc>>

StartGrpcServer ==
    /\ app = "idle"
    /\ server = "none"
    /\ server' = "starting"
    /\ UNCHANGED <<enabled, current, mutex, app, sessionVars, casterVars, grpc, call>>

(* ~Remote shuts the session down and stops the broadcasts ... *)
Destroy ==
    /\ app = "idle"
    /\ mutex = "free"
    /\ mutex' = "app"
    /\ app' = "destroy"
    /\ ShutdownCurrent
    /\ StopBroadcasts
    /\ UNCHANGED <<enabled, created, replaced, caster, server, grpc>>

(* Mutant of FinishDestroy: the mutex is held until the members are gone. *)
FinishDestroy_Locked ==
    /\ app = "destroy"
    /\ JoinBroadcaster
    /\ app' = "members"
    /\ UNCHANGED <<enabled, current, mutex, sessionVars, running, server, grpc,
                   call>>

FinishDestroy ==
    /\ app = "destroy"
    /\ JoinBroadcaster
    /\ mutex' = "free"
    /\ app' = "members"
    /\ UNCHANGED <<enabled, current, sessionVars, running, server, grpc, call>>

(* ... and then destroys the members, ~GrpcServer first.  A server that has *)
(* not been built yet is not joined: its thread terminates the process.     *)
DestroyServer ==
    /\ app = "members"
    /\ IF server = "starting"
         THEN app' = "terminated" /\ UNCHANGED server
         ELSE app' = "join" /\ server' = "down"
    /\ UNCHANGED <<enabled, current, mutex, sessionVars, casterVars, grpc, call>>

JoinServer ==
    /\ app = "join"
    /\ grpc.at = "idle"
    /\ app' = "broadcasts"
    /\ StopBroadcasts
    /\ UNCHANGED <<enabled, current, mutex, sessionVars, caster, server, grpc, call>>

(* ~DiscoveryBroadcasts. *)
FinishMembers ==
    /\ app = "broadcasts"
    /\ JoinBroadcaster
    /\ app' = "gone"
    /\ UNCHANGED <<enabled, current, mutex, sessionVars, running, server, grpc, call>>

-----------------------------------------------------------------------------
(* The gRPC thread: one event at a time *)

BuildServer ==
    /\ server = "starting"
    /\ app # "terminated"
    /\ server' = "up"
    /\ UNCHANGED <<enabled, current, mutex, app, sessionVars, casterVars, grpc, call>>

(* Mutant of ResetSession: next_id_ is not advanced. *)
ResetSession_SameId ==
    /\ server = "up"
    /\ grpc = Idle
    /\ mutex = "free"
    /\ enabled
    /\ created < MaxSessions
    /\ current' = created + 1
    /\ active' = active \cup {created + 1}
    /\ replaced' = replaced \cup ({current} \ {0})
    /\ mutex' = "grpc"
    /\ grpc' = [Idle EXCEPT !.at = "new"]
    /\ StopBroadcasts
    /\ UNCHANGED <<enabled, app, keeper, created, caster, server, call>>

(* New, ResetSession: it does not ask whether there is a session, which it  *)
(* replaces without shutting it down.  While disabled it refuses.           *)
ResetSession ==
    /\ server = "up"
    /\ grpc = Idle
    /\ mutex = "free"
    /\ enabled
    /\ created < MaxSessions
    /\ current' = created + 1
    /\ created' = created + 1
    /\ active' = active \cup {created + 1}
    /\ replaced' = replaced \cup ({current} \ {0})
    /\ mutex' = "grpc"
    /\ grpc' = [Idle EXCEPT !.at = "new"]
    /\ StopBroadcasts
    /\ UNCHANGED <<enabled, app, keeper, caster, server, call>>

FinishReset ==
    /\ grpc.at = "new"
    /\ JoinBroadcaster
    /\ mutex' = "free"
    /\ grpc' = Idle
    /\ UNCHANGED <<enabled, current, app, sessionVars, running, server, call>>

(* Shutdown of any session ... *)
ReceiveShutdown(id) ==
    /\ server = "up"
    /\ grpc = Idle
    /\ id <= created
    /\ grpc' = [at |-> "shutdown", id |-> id, call |-> 0]
    /\ UNCHANGED <<enabled, current, mutex, app, sessionVars, casterVars, server, call>>

(* Mutant of ClearSession: the broadcasts are not started again. *)
ClearSession_Quiet(id) ==
    /\ grpc = [at |-> "shutdown", id |-> id, call |-> 0]
    /\ mutex = "free"
    /\ grpc' = Idle
    /\ IF current = id THEN ShutdownCurrent ELSE UNCHANGED <<current, active, keeper, call>>
    /\ UNCHANGED <<enabled, mutex, app, created, replaced, casterVars, server>>

(* ... clears the current one if it has this id. *)
ClearSession(id) ==
    /\ grpc = [at |-> "shutdown", id |-> id, call |-> 0]
    /\ mutex = "free"
    /\ grpc' = Idle
    /\ IF current = id THEN ShutdownCurrent ELSE UNCHANGED <<current, active, keeper, call>>
    /\ IF current' = 0 /\ enabled THEN StartIfNotRunning ELSE UNCHANGED casterVars
    /\ UNCHANGED <<enabled, mutex, app, created, replaced, server>>

(* A keepalive call copies current() and compares the id, ... *)
ReceiveKeepalive(c, id) ==
    /\ server = "up"
    /\ grpc = Idle
    /\ call[c] = "none"
    /\ id <= created
    /\ IF current = id
         THEN /\ grpc' = [at |-> "attach", id |-> id, call |-> c]
              /\ UNCHANGED call
         ELSE /\ call' = [call EXCEPT ![c] = "aborted"]
              /\ UNCHANGED grpc
    /\ UNCHANGED <<enabled, current, mutex, app, sessionVars, casterVars, server>>

(* Mutant of SetKeepaliveCaller: active_ is not tested. *)
SetKeepaliveCaller_Any ==
    /\ grpc.at = "attach"
    /\ grpc' = Idle
    /\ IF keeper[grpc.id] = 0
         THEN /\ keeper' = [keeper EXCEPT ![grpc.id] = grpc.call]
              /\ call' = [call EXCEPT ![grpc.call] = "waiting"]
         ELSE /\ call' = [call EXCEPT ![grpc.call] = "aborted"]
              /\ UNCHANGED keeper
    /\ UNCHANGED <<enabled, current, mutex, app, active, created, replaced,
                   casterVars, server>>

(* ... and is attached to the session unless it was shut down meanwhile or  *)
(* has a keepalive call.                                                    *)
SetKeepaliveCaller ==
    /\ grpc.at = "attach"
    /\ grpc' = Idle
    /\ IF grpc.id \in active /\ keeper[grpc.id] = 0
         THEN /\ keeper' = [keeper EXCEPT ![grpc.id] = grpc.call]
              /\ call' = [call EXCEPT ![grpc.call] = "waiting"]
         ELSE /\ call' = [call EXCEPT ![grpc.call] = "aborted"]
              /\ UNCHANGED keeper
    /\ UNCHANGED <<enabled, current, mutex, app, active, created, replaced,
                   casterVars, server>>

(* The answer was sent: the caller deletes itself. *)
DeleteCaller(c) ==
    /\ server \in {"up", "down"}
    /\ app \notin {"broadcasts", "gone"}
    /\ grpc = Idle
    /\ call[c] \in {"answered", "aborted"}
    /\ call' = [call EXCEPT ![c] = "deleted"]
    /\ UNCHANGED <<enabled, current, mutex, app, sessionVars, casterVars, server, grpc>>

-----------------------------------------------------------------------------
(* The broadcaster thread *)

CasterStep(from, to) ==
    /\ caster = from
    /\ caster' \in to
    /\ UNCHANGED <<enabled, current, mutex, app, sessionVars, running, server, grpc,
                   call>>

(* The socket is opened, or that is tried again in 5 s. *)
Open == CasterStep("open", {"send", "reopen"})

(* A datagram is sent, and the next one in 1 s, or after an error in 5 s. *)
SendBroadcast == CasterStep("send", {"pause"})

(* The pause is over, or it was told to stop. *)
Awake == \/ CasterStep("reopen", IF running THEN {"open"} ELSE {"exited"})
         \/ CasterStep("pause", IF running THEN {"send"} ELSE {"exited"})

-----------------------------------------------------------------------------
Application == EnableSession \/ DisableSession \/ StartGrpcServer \/ Destroy
AppGoesOn == FinishDisable \/ FinishDestroy \/ DestroyServer \/ JoinServer
             \/ FinishMembers
GrpcGoesOn == BuildServer \/ FinishReset \/ SetKeepaliveCaller
              \/ \E id \in Ids : ClearSession(id)
Receive == \/ ResetSession
           \/ \E id \in Ids : \/ ReceiveShutdown(id)
                              \/ \E c \in DOMAIN call : ReceiveKeepalive(c, id)
Broadcaster == Open \/ SendBroadcast \/ Awake

Next == \/ Application \/ AppGoesOn
        \/ GrpcGoesOn \/ Receive \/ \E c \in DOMAIN call : DeleteCaller(c)
        \/ Broadcaster

Spec == Init /\ [][Next]_vars

(* Each thread goes on with what it has begun.  A thread that waits for the *)
(* mutex gets it, although the other takes it again and again, and every    *)
(* event of the completion queue has its turn.                              *)
Fairness ==
    /\ WF_vars(AppGoesOn)
    /\ SF_vars(GrpcGoesOn)
    /\ \A c \in 1..MaxCalls : SF_vars(DeleteCaller(c))
    /\ WF_vars(Broadcaster)

LiveSpec == Spec /\ Fairness

-----------------------------------------------------------------------------
(* Properties *)

(* Types. *)
TypeOK ==
    /\ enabled \in BOOLEAN
    /\ current \in 0..created
    /\ created \in 0..MaxSessions
    /\ mutex \in {"free", "app", "grpc"}
    /\ app \in {"idle", "disable", "destroy", "members", "join", "broadcasts",
                "gone", "terminated"}
    /\ active \subseteq 1..created
    /\ keeper \in [Ids -> 0..MaxCalls]
    /\ replaced \subseteq 1..created
    /\ running \in BOOLEAN
    /\ caster \in {"none", "open", "reopen", "send", "pause", "exited"}
    /\ server \in {"none", "starting", "up", "down"}
    /\ grpc \in [at : {"idle", "new", "shutdown", "attach"}, id : 0..created,
                 call : 0..MaxCalls]
    /\ call \in [1..MaxCalls -> {"none", "waiting", "answered", "aborted", "deleted"}]

(* Remote::IsNewSessionAcceptable, what the client answers to a probe. *)
Acceptable == current = 0 /\ enabled

(* Whenever the mutex is free the client broadcasts if and only if it would *)
(* accept a session, with one thread; while sessions are disabled there is  *)
(* none, whichever thread was last.                                         *)
BroadcastsIffAcceptable ==
    mutex = "free" =>
       /\ app = "idle" => (running <=> Acceptable)
       /\ app # "broadcasts" => (running <=> caster # "none")
       /\ app = "idle" /\ ~enabled => current = 0
       /\ app = "gone" => ~running

(* A keepalive call waits at one session, which is active, whether it came  *)
(* before, during or after the Shutdown; so nothing refers to a caller that *)
(* deleted itself.  Only a session that was replaced, or that a server      *)
(* opened while Remote was destroyed, is not shut down any more.            *)
CallsWaitAtActive ==
    /\ \A s \in Ids : keeper[s] # 0 => s \in active /\ call[keeper[s]] = "waiting"
    /\ \A c \in DOMAIN call :
          call[c] = "waiting" => Cardinality({s \in Ids : keeper[s] = c}) = 1
    /\ active \subseteq replaced \cup {current}

(* EnableSession, DisableSession, ~Remote and the handlers return, although *)
(* they join threads under the mutex those may want; every call that is not *)
(* waiting at a session is answered and its caller deleted.                 *)
RemoteSettles ==
    /\ app \in {"disable", "destroy"} ~> app \in {"idle", "gone", "terminated"}
    /\ grpc # Idle ~> grpc = Idle
    /\ \A c \in 1..MaxCalls :
          call[c] \in {"answered", "aborted"}
             ~> call[c] = "deleted" \/ app \in {"broadcasts", "gone", "terminated"}
=============================================================================
