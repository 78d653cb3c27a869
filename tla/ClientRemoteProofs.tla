-------------------------- MODULE ClientRemoteProofs --------------------------
(***************************************************************************)
(* Proofs about the client's Remote, for any number of sessions and of     *)
(* keepalive calls.  The properties hold only while nobody is inside a     *)
(* critical section; the inductive invariant says what holds within them:  *)
(* who holds the mutex is doing what (Threads), the broadcasts stopped     *)
(* there stay stopped (Broadcasts), and a caller is at one session (Calls).*)
(***************************************************************************)
EXTENDS ClientRemote, FiniteSetTheorems, TLAPS

(* The threads that hold the mutex, and those that the destruction has     *)
(* joined: no handler runs once ~GrpcServer has returned.                  *)
Threads ==
    /\ mutex = "app" <=> app \in {"disable", "destroy"}
    /\ mutex = "grpc" <=> grpc.at = "new"
    /\ grpc.at # "idle" => server \in {"up", "down"}
    /\ server = "down" <=> app \in {"join", "broadcasts", "gone"}
    /\ app \in {"broadcasts", "gone"} => grpc.at = "idle"

(* Every critical section leaves the broadcasts as the current session and *)
(* session_is_enabled_ demand; one that joins the thread has stopped it.   *)
Broadcasts ==
    /\ app = "idle" /\ mutex = "free" => (running <=> Acceptable)
    /\ mutex = "free" /\ app # "broadcasts" => (running <=> caster # "none")
    /\ mutex # "free" \/ app \in {"broadcasts", "gone"} => ~running
    /\ app = "gone" => caster = "none"
    /\ app = "disable" => ~enabled
    /\ app = "idle" /\ ~enabled => current = 0
    /\ grpc.at = "new" => enabled /\ current # 0

(* A caller that waits is the caller of one session, which is active; the  *)
(* one that the gRPC thread is about to attach is at none.                 *)
Calls ==
    /\ \A s \in Ids : keeper[s] # 0 => s \in active /\ call[keeper[s]] = "waiting"
    /\ \A c \in 1..MaxCalls : call[c] = "waiting" => \E s \in Ids : keeper[s] = c
    /\ \A s, t \in Ids : keeper[s] = keeper[t] /\ keeper[s] # 0 => s = t
    /\ active \subseteq replaced \cup {current}
    /\ grpc.at = "attach" =>
          grpc.id \in Ids /\ grpc.call \in 1..MaxCalls /\ call[grpc.call] = "none"

RemoteInv == TypeOK /\ Threads /\ Broadcasts /\ Calls

-----------------------------------------------------------------------------
(* The threads *)

LEMMA ThreadsKept == TypeOK /\ Threads /\ [Next]_vars => Threads'
<1>. SUFFICES ASSUME TypeOK, Threads, [Next]_vars
              PROVE  Threads'
  OBVIOUS
<1>0. grpc.at \in {"idle", "new", "shutdown", "attach"}
  BY DEF TypeOK
<1>. USE <1>0 DEF Threads
<1>1. CASE EnableSession
  BY <1>1 DEF EnableSession
<1>2. CASE DisableSession
  BY <1>2 DEF DisableSession
<1>3. CASE FinishDisable
  BY <1>3 DEF FinishDisable
<1>4. CASE StartGrpcServer
  BY <1>4 DEF StartGrpcServer
<1>5. CASE Destroy
  BY <1>5 DEF Destroy
<1>6. CASE FinishDestroy
  BY <1>6 DEF FinishDestroy
<1>7. CASE DestroyServer
  BY <1>7 DEF DestroyServer
<1>8. CASE JoinServer
  BY <1>8 DEF JoinServer
<1>9. CASE FinishMembers
  BY <1>9 DEF FinishMembers
<1>10. CASE BuildServer
  BY <1>10 DEF BuildServer
<1>11. CASE ResetSession
  BY <1>11 DEF ResetSession, Idle
<1>12. CASE FinishReset
  BY <1>12 DEF FinishReset, Idle
<1>13. ASSUME NEW id \in Ids, ReceiveShutdown(id)
       PROVE  Threads'
  BY <1>13 DEF ReceiveShutdown, Idle
<1>14. ASSUME NEW id \in Ids, ClearSession(id)
       PROVE  Threads'
  BY <1>14 DEF ClearSession, Idle
<1>15. ASSUME NEW id \in Ids, NEW c \in DOMAIN call, ReceiveKeepalive(c, id)
       PROVE  Threads'
  BY <1>15 DEF ReceiveKeepalive, Idle
<1>16. CASE SetKeepaliveCaller
  BY <1>16 DEF SetKeepaliveCaller, Idle
<1>17. ASSUME NEW c \in DOMAIN call, DeleteCaller(c)
       PROVE  Threads'
  BY <1>17 DEF DeleteCaller
<1>18. CASE Broadcaster
  BY <1>18 DEF Broadcaster, Open, SendBroadcast, Awake, CasterStep
<1>19. CASE UNCHANGED vars
  BY <1>19 DEF vars
<1>. QED
  BY <1>1, <1>2, <1>3, <1>4, <1>5, <1>6, <1>7, <1>8, <1>9, <1>10, <1>11,
     <1>12, <1>13, <1>14, <1>15, <1>16, <1>17, <1>18, <1>19
     DEF Next, Application, AppGoesOn, GrpcGoesOn, Receive
-----------------------------------------------------------------------------
(* The broadcasts *)

LEMMA BroadcastsKept ==
    TypeOK /\ Threads /\ Broadcasts /\ [Next]_vars => Broadcasts'
<1>. SUFFICES ASSUME TypeOK, Threads, Broadcasts, [Next]_vars
              PROVE  Broadcasts'
  OBVIOUS
<1>0. /\ grpc.at \in {"idle", "new", "shutdown", "attach"}
      /\ {current, created} \subseteq Nat
      /\ mutex \in {"free", "app", "grpc"}
      /\ running \in BOOLEAN /\ enabled \in BOOLEAN
  BY BoundAssumption DEF TypeOK
<1>. USE <1>0 DEF Threads, Broadcasts, Acceptable
<1>1. CASE EnableSession
  BY <1>1 DEF EnableSession, StartIfNotRunning, casterVars, sessionVars
<1>2. CASE DisableSession
  BY <1>2 DEF DisableSession, StopBroadcasts, sessionVars
<1>3. CASE FinishDisable
  BY <1>3 DEF FinishDisable, ShutdownCurrent, JoinBroadcaster
<1>4. CASE StartGrpcServer
  BY <1>4 DEF StartGrpcServer, casterVars, sessionVars
<1>5. CASE Destroy
  BY <1>5 DEF Destroy, ShutdownCurrent, StopBroadcasts
<1>6. CASE FinishDestroy
  BY <1>6 DEF FinishDestroy, JoinBroadcaster, sessionVars
<1>7. CASE DestroyServer
  BY <1>7 DEF DestroyServer, casterVars, sessionVars
<1>8. CASE JoinServer
  BY <1>8 DEF JoinServer, StopBroadcasts, sessionVars
<1>9. CASE FinishMembers
  BY <1>9 DEF FinishMembers, JoinBroadcaster, sessionVars
<1>10. CASE BuildServer
  BY <1>10 DEF BuildServer, casterVars, sessionVars
<1>11. CASE ResetSession
  BY <1>11 DEF ResetSession, Idle, StopBroadcasts
<1>12. CASE FinishReset
  BY <1>12 DEF FinishReset, Idle, JoinBroadcaster, sessionVars
<1>13. ASSUME NEW id \in Ids, ReceiveShutdown(id)
       PROVE  Broadcasts'
  BY <1>13 DEF ReceiveShutdown, Idle, casterVars, sessionVars
<1>14. ASSUME NEW id \in Ids, ClearSession(id)
       PROVE  Broadcasts'
  BY <1>14 DEF ClearSession, Idle, ShutdownCurrent, StartIfNotRunning, casterVars
<1>15. ASSUME NEW id \in Ids, NEW c \in DOMAIN call, ReceiveKeepalive(c, id)
       PROVE  Broadcasts'
  BY <1>15 DEF ReceiveKeepalive, Idle, casterVars, sessionVars
<1>16. CASE SetKeepaliveCaller
  BY <1>16 DEF SetKeepaliveCaller, Idle, casterVars
<1>17. ASSUME NEW c \in DOMAIN call, DeleteCaller(c)
       PROVE  Broadcasts'
  BY <1>17 DEF DeleteCaller, casterVars, sessionVars
<1>18. CASE Broadcaster
  BY <1>18 DEF Broadcaster, Open, SendBroadcast, Awake, CasterStep
<1>19. CASE UNCHANGED vars
  BY <1>19 DEF vars
<1>. QED
  BY <1>1, <1>2, <1>3, <1>4, <1>5, <1>6, <1>7, <1>8, <1>9, <1>10, <1>11,
     <1>12, <1>13, <1>14, <1>15, <1>16, <1>17, <1>18, <1>19
     DEF Next, Application, AppGoesOn, GrpcGoesOn, Receive

-----------------------------------------------------------------------------
(* The keepalive calls *)

(* Shutdown of the current session answers the call that waits at it, and  *)
(* no other.                                                               *)
LEMMA ShutdownKeeps ==
    ASSUME TypeOK, Calls, ShutdownCurrent, UNCHANGED <<created, replaced>>,
           grpc' = grpc \/ grpc' = Idle
    PROVE  /\ current' = 0
           /\ active' \subseteq 1..created
           /\ keeper' \in [Ids -> 0..MaxCalls]
           /\ call' \in [1..MaxCalls ->
                           {"none", "waiting", "answered", "aborted", "deleted"}]
           /\ Calls'
<1>0. /\ current \in 0..created /\ created \in 0..MaxSessions
      /\ keeper \in [Ids -> 0..MaxCalls]
      /\ active \subseteq 1..created
      /\ call \in [1..MaxCalls -> {"none", "waiting", "answered", "aborted", "deleted"}]
      /\ MaxSessions \in Nat /\ MaxCalls \in Nat
  BY BoundAssumption DEF TypeOK
<1>1. grpc'.at = "attach" => grpc' = grpc
  BY DEF Idle
<1>2. CASE current = 0
  <2>1. UNCHANGED <<current, active, keeper, call>>
    BY <1>2 DEF ShutdownCurrent
  <2>. QED
    BY <1>0, <1>1, <1>2, <2>1 DEF Calls, Ids
<1>3. CASE current # 0
  <2>0. current \in Ids
    BY <1>0, <1>3 DEF Ids
  <2>1. /\ current' = 0
        /\ active' = active \ {current}
        /\ keeper' = [keeper EXCEPT ![current] = 0]
        /\ call' = [c \in 1..MaxCalls |->
                      IF c = keeper[current] THEN "answered" ELSE call[c]]
    BY <1>0, <1>3 DEF ShutdownCurrent, Shutdown
  <2>2. /\ active' \subseteq 1..created
        /\ keeper' \in [Ids -> 0..MaxCalls]
        /\ \A s \in Ids : keeper'[s] = IF s = current THEN 0 ELSE keeper[s]
    BY <1>0, <2>0, <2>1
  <2>3. /\ call' \in [1..MaxCalls ->
                        {"none", "waiting", "answered", "aborted", "deleted"}]
        /\ \A c \in 1..MaxCalls :
              call'[c] = IF c = keeper[current] THEN "answered" ELSE call[c]
    BY <1>0, <2>1
  <2>4. \A s \in Ids : keeper'[s] # 0 => s \in active' /\ call'[keeper'[s]] = "waiting"
    <3>. SUFFICES ASSUME NEW s \in Ids, keeper'[s] # 0
                  PROVE  s \in active' /\ call'[keeper'[s]] = "waiting"
      OBVIOUS
    <3>1. s # current /\ keeper'[s] = keeper[s] /\ keeper[s] # 0
      BY <2>2
    <3>2. keeper[s] \in 1..MaxCalls /\ keeper[s] # keeper[current]
      BY <1>0, <2>0, <3>1 DEF Calls
    <3>. QED
      BY <2>1, <2>3, <3>1, <3>2 DEF Calls
  <2>5. \A c \in 1..MaxCalls : call'[c] = "waiting" => \E s \in Ids : keeper'[s] = c
    <3>. SUFFICES ASSUME NEW c \in 1..MaxCalls, call'[c] = "waiting"
                  PROVE  \E s \in Ids : keeper'[s] = c
      OBVIOUS
    <3>1. c # keeper[current] /\ call[c] = "waiting"
      BY <2>3
    <3>2. PICK s \in Ids : keeper[s] = c
      BY <3>1 DEF Calls
    <3>. QED
      BY <2>2, <3>1, <3>2
  <2>6. \A s, t \in Ids : keeper'[s] = keeper'[t] /\ keeper'[s] # 0 => s = t
    BY <2>2 DEF Calls
  <2>7. active' \subseteq replaced' \cup {current'}
    BY <2>1 DEF Calls
  <2>8. grpc'.at = "attach" =>
           /\ grpc'.id \in Ids
           /\ grpc'.call \in 1..MaxCalls
           /\ call'[grpc'.call] = "none"
    <3>. SUFFICES ASSUME grpc'.at = "attach"
                  PROVE  /\ grpc.id \in Ids /\ grpc.call \in 1..MaxCalls
                         /\ call'[grpc.call] = "none"
      BY <1>1
    <3>1. grpc.id \in Ids /\ grpc.call \in 1..MaxCalls /\ call[grpc.call] = "none"
      BY <1>1 DEF Calls
    <3>2. keeper[current] # grpc.call
      BY <1>0, <2>0, <3>1 DEF Calls
    <3>. QED
      BY <2>3, <3>1, <3>2
  <2>9. Ids' = Ids /\ (1..MaxCalls)' = 1..MaxCalls
    BY DEF Ids
  <2>. QED
    BY <2>1, <2>2, <2>3, <2>4, <2>5, <2>6, <2>7, <2>8, <2>9 DEF Calls, Ids
<1>. QED
  BY <1>2, <1>3

LEMMA CallsKept == TypeOK /\ Threads /\ Calls /\ [Next]_vars => Calls'
<1>. SUFFICES ASSUME TypeOK, Threads, Calls, [Next]_vars
              PROVE  Calls'
  OBVIOUS
<1>0. /\ grpc.at \in {"idle", "new", "shutdown", "attach"}
      /\ current \in 0..created /\ created \in 0..MaxSessions
      /\ keeper \in [Ids -> 0..MaxCalls]
      /\ active \subseteq 1..created
      /\ call \in [1..MaxCalls -> {"none", "waiting", "answered", "aborted", "deleted"}]
      /\ MaxSessions \in Nat /\ MaxCalls \in Nat
  BY BoundAssumption DEF TypeOK
<1>20. ASSUME NEW id \in Ids, ClearSession(id), current = id
       PROVE  Calls'
  <2>1. ShutdownCurrent /\ UNCHANGED <<created, replaced>> /\ grpc' = Idle
    BY <1>20 DEF ClearSession
  <2>. QED
    BY <2>1, ShutdownKeeps
<1>3. CASE FinishDisable
  BY <1>3, ShutdownKeeps DEF FinishDisable
<1>5. CASE Destroy
  BY <1>5, ShutdownKeeps DEF Destroy
<1>. USE <1>0 DEF Calls, Ids
<1>1. CASE EnableSession
  BY <1>1 DEF EnableSession, StartIfNotRunning, casterVars, sessionVars
<1>2. CASE DisableSession
  BY <1>2 DEF DisableSession, StopBroadcasts, sessionVars
<1>4. CASE StartGrpcServer
  BY <1>4 DEF StartGrpcServer, casterVars, sessionVars
<1>6. CASE FinishDestroy
  BY <1>6 DEF FinishDestroy, JoinBroadcaster, sessionVars
<1>7. CASE DestroyServer
  BY <1>7 DEF DestroyServer, casterVars, sessionVars
<1>8. CASE JoinServer
  BY <1>8 DEF JoinServer, StopBroadcasts, sessionVars
<1>9. CASE FinishMembers
  BY <1>9 DEF FinishMembers, JoinBroadcaster, sessionVars
<1>10. CASE BuildServer
  BY <1>10 DEF BuildServer, casterVars, sessionVars
<1>11. CASE ResetSession
  BY <1>11 DEF ResetSession, Idle, StopBroadcasts
<1>12. CASE FinishReset
  BY <1>12 DEF FinishReset, Idle, JoinBroadcaster, sessionVars
<1>13. ASSUME NEW id \in Ids, ReceiveShutdown(id)
       PROVE  Calls'
  BY <1>13 DEF ReceiveShutdown, Idle, casterVars, sessionVars
<1>14. ASSUME NEW id \in Ids, ClearSession(id)
       PROVE  Calls'
  <2>1. UNCHANGED <<created, replaced>> /\ grpc' = Idle
    BY <1>14 DEF ClearSession
  <2>2. CASE current = id
    BY <1>14, <2>2, <1>20
  <2>3. CASE current # id
    <3>1. UNCHANGED <<current, active, keeper, call>>
      BY <1>14, <2>3 DEF ClearSession
    <3>. QED
      BY <2>1, <3>1 DEF Idle
  <2>. QED
    BY <2>2, <2>3
<1>15. ASSUME NEW id \in Ids, NEW c \in DOMAIN call, ReceiveKeepalive(c, id)
       PROVE  Calls'
  BY <1>15 DEF ReceiveKeepalive, Idle, casterVars, sessionVars
<1>16. CASE SetKeepaliveCaller
  <2>1. /\ grpc.id \in Ids /\ grpc.call \in 1..MaxCalls /\ grpc.call # 0
        /\ call[grpc.call] = "none"
        /\ grpc'.at = "idle"
        /\ UNCHANGED <<current, active, replaced>>
    BY <1>16 DEF SetKeepaliveCaller, Idle
  <2>2. CASE grpc.id \in active /\ keeper[grpc.id] = 0
    <3>1. /\ \A s \in Ids : keeper'[s] = IF s = grpc.id THEN grpc.call ELSE keeper[s]
          /\ \A c \in 1..MaxCalls :
                call'[c] = IF c = grpc.call THEN "waiting" ELSE call[c]
      BY <1>16, <2>1, <2>2 DEF SetKeepaliveCaller
    <3>2. \A s \in Ids : keeper[s] \in 0..MaxCalls /\ keeper[s] # grpc.call
      BY <2>1
    <3>3. \A s \in Ids : keeper'[s] # 0 => s \in active' /\ call'[keeper'[s]] = "waiting"
      <4>. SUFFICES ASSUME NEW s \in Ids, keeper'[s] # 0
                    PROVE  s \in active' /\ call'[keeper'[s]] = "waiting"
        OBVIOUS
      <4>1. CASE s = grpc.id
        BY <2>1, <2>2, <3>1, <4>1
      <4>2. CASE s # grpc.id
        <5>1. keeper'[s] = keeper[s] /\ keeper[s] \in 1..MaxCalls
          BY <3>1, <3>2, <4>2
        <5>. QED
          BY <2>1, <3>1, <3>2, <5>1
      <4>. QED
        BY <4>1, <4>2
    <3>4. \A c \in 1..MaxCalls : call'[c] = "waiting" => \E s \in Ids : keeper'[s] = c
      <4>. SUFFICES ASSUME NEW c \in 1..MaxCalls, call'[c] = "waiting"
                    PROVE  \E s \in Ids : keeper'[s] = c
        OBVIOUS
      <4>1. CASE c = grpc.call
        <5>1. keeper'[grpc.id] = c
          BY <2>1, <3>1, <4>1
        <5>. QED
          BY <2>1, <5>1
      <4>2. CASE c # grpc.call
        <5>1. PICK s \in Ids : keeper[s] = c
          BY <3>1, <4>2
        <5>2. keeper'[s] = c
          BY <2>2, <3>1, <5>1
        <5>. QED
          BY <5>2
      <4>. QED
        BY <4>1, <4>2
    <3>5. \A s, t \in Ids : keeper'[s] = keeper'[t] /\ keeper'[s] # 0 => s = t
      BY <3>1, <3>2
    <3>. QED
      BY <2>1, <3>3, <3>4, <3>5
  <2>3. CASE ~(grpc.id \in active /\ keeper[grpc.id] = 0)
    <3>1. /\ keeper' = keeper
          /\ \A c \in 1..MaxCalls :
                call'[c] = IF c = grpc.call THEN "aborted" ELSE call[c]
      BY <1>16, <2>1, <2>3 DEF SetKeepaliveCaller
    <3>2. \A s \in Ids : keeper[s] \in 0..MaxCalls /\ keeper[s] # grpc.call
      BY <2>1
    <3>3. \A s \in Ids : keeper'[s] # 0 => s \in active' /\ call'[keeper'[s]] = "waiting"
      <4>. SUFFICES ASSUME NEW s \in Ids, keeper[s] # 0
                    PROVE  s \in active /\ call'[keeper[s]] = "waiting"
        BY <2>1, <3>1
      <4>. QED
        BY <3>1, <3>2
    <3>4. \A c \in 1..MaxCalls : call'[c] = "waiting" => \E s \in Ids : keeper'[s] = c
      BY <3>1
    <3>. QED
      BY <2>1, <3>1, <3>3, <3>4
  <2>. QED
    BY <2>2, <2>3
<1>17. ASSUME NEW c \in DOMAIN call, DeleteCaller(c)
       PROVE  Calls'
  BY <1>17 DEF DeleteCaller, casterVars, sessionVars
<1>18. CASE Broadcaster
  <2>1. UNCHANGED <<current, active, keeper, replaced, grpc, call>>
    BY <1>18 DEF Broadcaster, Open, SendBroadcast, Awake, CasterStep, sessionVars
  <2>. QED
    BY <2>1
<1>19. CASE UNCHANGED vars
  BY <1>19 DEF vars, sessionVars
<1>. QED
  BY <1>1, <1>2, <1>3, <1>4, <1>5, <1>6, <1>7, <1>8, <1>9, <1>10, <1>11,
     <1>12, <1>13, <1>14, <1>15, <1>16, <1>17, <1>18, <1>19
     DEF Next, Application, AppGoesOn, GrpcGoesOn, Receive

-----------------------------------------------------------------------------
(* Types *)

LEMMA TypesKept == TypeOK /\ Calls /\ [Next]_vars => TypeOK'
<1>. SUFFICES ASSUME TypeOK, Calls, [Next]_vars
              PROVE  TypeOK'
  OBVIOUS
<1>0. MaxSessions \in Nat /\ MaxCalls \in Nat
  BY BoundAssumption
<1>20. ASSUME \/ FinishDisable \/ Destroy
              \/ \E id \in Ids : ClearSession(id) /\ current = id
       PROVE  /\ current' = 0
              /\ active' \subseteq 1..created
              /\ keeper' \in [Ids -> 0..MaxCalls]
              /\ call' \in [1..MaxCalls ->
                              {"none", "waiting", "answered", "aborted", "deleted"}]
  <2>1. ShutdownCurrent /\ UNCHANGED <<created, replaced>>
        /\ (grpc' = grpc \/ grpc' = Idle)
    BY <1>20 DEF FinishDisable, Destroy, ClearSession
  <2>. QED
    BY <2>1, ShutdownKeeps
<1>. USE <1>0 DEF TypeOK, Ids
<1>1. CASE EnableSession
  BY <1>1 DEF EnableSession, StartIfNotRunning, casterVars, sessionVars
<1>2. CASE DisableSession
  BY <1>2 DEF DisableSession, StopBroadcasts, sessionVars
<1>3. CASE FinishDisable
  <2>1. /\ caster' = "none" /\ mutex' = "free" /\ app' = "idle"
        /\ UNCHANGED <<enabled, created, replaced, running, server, grpc>>
    BY <1>3 DEF FinishDisable, JoinBroadcaster
  <2>2. /\ current' = 0
        /\ active' \subseteq 1..created
        /\ keeper' \in [Ids -> 0..MaxCalls]
        /\ call' \in [1..MaxCalls ->
                        {"none", "waiting", "answered", "aborted", "deleted"}]
    BY <1>3, <1>20
  <2>. QED
    BY <2>1, <2>2
<1>4. CASE StartGrpcServer
  BY <1>4 DEF StartGrpcServer, casterVars, sessionVars
<1>5. CASE Destroy
  <2>1. /\ mutex' = "app" /\ app' = "destroy" /\ running' = FALSE
        /\ UNCHANGED <<enabled, created, replaced, caster, server, grpc>>
    BY <1>5 DEF Destroy, StopBroadcasts
  <2>2. /\ current' = 0
        /\ active' \subseteq 1..created
        /\ keeper' \in [Ids -> 0..MaxCalls]
        /\ call' \in [1..MaxCalls ->
                        {"none", "waiting", "answered", "aborted", "deleted"}]
    BY <1>5, <1>20
  <2>3. grpc' \in [at : {"idle", "new", "shutdown", "attach"}, id : 0..created',
                   call : 0..MaxCalls]
    BY <2>1
  <2>4. created' \in 0..MaxSessions /\ current' \in 0..created'
        /\ active' \subseteq 1..created' /\ replaced' \subseteq 1..created'
    BY <2>1, <2>2
  <2>5. /\ enabled' \in BOOLEAN /\ server' \in {"none", "starting", "up", "down"}
        /\ caster' \in {"none", "open", "reopen", "send", "pause", "exited"}
    BY <2>1
  <2>. QED
    BY <2>1, <2>2, <2>3, <2>4, <2>5
<1>6. CASE FinishDestroy
  BY <1>6 DEF FinishDestroy, JoinBroadcaster, sessionVars
<1>7. CASE DestroyServer
  BY <1>7 DEF DestroyServer, casterVars, sessionVars
<1>8. CASE JoinServer
  BY <1>8 DEF JoinServer, StopBroadcasts, sessionVars
<1>9. CASE FinishMembers
  BY <1>9 DEF FinishMembers, JoinBroadcaster, sessionVars
<1>10. CASE BuildServer
  BY <1>10 DEF BuildServer, casterVars, sessionVars
<1>11. CASE ResetSession
  <2>1. /\ created' = created + 1 /\ current' = created + 1 /\ created < MaxSessions
        /\ active' = active \cup {created + 1}
        /\ replaced' = replaced \cup ({current} \ {0})
        /\ mutex' = "grpc" /\ running' = FALSE
        /\ grpc' = [Idle EXCEPT !.at = "new"]
        /\ UNCHANGED <<enabled, app, keeper, caster, server, call>>
    BY <1>11 DEF ResetSession, StopBroadcasts
  <2>2. created \in Nat /\ created' \in 0..MaxSessions /\ current' \in 0..created'
    BY <2>1
  <2>3. active' \subseteq 1..created' /\ replaced' \subseteq 1..created'
    BY <2>1, <2>2
  <2>4. grpc' \in [at : {"idle", "new", "shutdown", "attach"}, id : 0..created',
                   call : 0..MaxCalls]
    BY <2>1, <2>2 DEF Idle
  <2>. QED
    BY <2>1, <2>2, <2>3, <2>4
<1>12. CASE FinishReset
  BY <1>12 DEF FinishReset, Idle, JoinBroadcaster, sessionVars
<1>13. ASSUME NEW id \in Ids, ReceiveShutdown(id)
       PROVE  TypeOK'
  BY <1>13 DEF ReceiveShutdown, Idle, casterVars, sessionVars
<1>14. ASSUME NEW id \in Ids, ClearSession(id)
       PROVE  TypeOK'
  <2>1. /\ UNCHANGED <<enabled, mutex, app, created, replaced, server>>
        /\ grpc' = Idle
        /\ running' \in BOOLEAN
        /\ caster' \in {"none", "open", "reopen", "send", "pause", "exited"}
    BY <1>14 DEF ClearSession, StartIfNotRunning, casterVars
  <2>2. CASE current = id
    <3>1. /\ current' = 0
          /\ active' \subseteq 1..created
          /\ keeper' \in [Ids -> 0..MaxCalls]
          /\ call' \in [1..MaxCalls ->
                          {"none", "waiting", "answered", "aborted", "deleted"}]
      BY <1>14, <2>2, <1>20
    <3>. QED
      BY <2>1, <3>1 DEF Idle
  <2>3. CASE current # id
    <3>1. UNCHANGED <<current, active, keeper, call>>
      BY <1>14, <2>3 DEF ClearSession
    <3>. QED
      BY <2>1, <3>1 DEF Idle
  <2>. QED
    BY <2>2, <2>3
<1>15. ASSUME NEW id \in Ids, NEW c \in DOMAIN call, ReceiveKeepalive(c, id)
       PROVE  TypeOK'
  BY <1>15 DEF ReceiveKeepalive, Idle, casterVars, sessionVars
<1>16. CASE SetKeepaliveCaller
  <2>1. /\ grpc.id \in Ids /\ grpc.call \in 1..MaxCalls
        /\ UNCHANGED <<enabled, current, mutex, app, active, created, replaced,
                        running, caster, server>>
        /\ grpc' = Idle
    BY <1>16 DEF SetKeepaliveCaller, Calls, casterVars
  <2>2. /\ keeper' \in [Ids -> 0..MaxCalls]
        /\ call' \in [1..MaxCalls ->
                          {"none", "waiting", "answered", "aborted", "deleted"}]
    BY <1>16, <2>1 DEF SetKeepaliveCaller
  <2>. QED
    BY <2>1, <2>2 DEF Idle
<1>17. ASSUME NEW c \in DOMAIN call, DeleteCaller(c)
       PROVE  TypeOK'
  BY <1>17 DEF DeleteCaller, casterVars, sessionVars
<1>18. CASE Broadcaster
  <2>1. /\ UNCHANGED <<enabled, current, mutex, app, sessionVars, running, server,
                        grpc, call>>
        /\ caster' \in {"none", "open", "reopen", "send", "pause", "exited"}
    BY <1>18 DEF Broadcaster, Open, SendBroadcast, Awake, CasterStep
  <2>. QED
    BY <2>1 DEF sessionVars
<1>19. CASE UNCHANGED vars
  BY <1>19 DEF vars, sessionVars, casterVars
<1>. QED
  BY <1>1, <1>2, <1>3, <1>4, <1>5, <1>6, <1>7, <1>8, <1>9, <1>10, <1>11,
     <1>12, <1>13, <1>14, <1>15, <1>16, <1>17, <1>18, <1>19
     DEF Next, Application, AppGoesOn, GrpcGoesOn, Receive

-----------------------------------------------------------------------------
(* The theorems *)

LEMMA RemoteInvInit == Init => RemoteInv
<1>. SUFFICES ASSUME Init PROVE RemoteInv
  OBVIOUS
<1>0. MaxSessions \in Nat /\ MaxCalls \in Nat
  BY BoundAssumption
<1>. USE DEF Init, Idle
<1>1. TypeOK
  <2>1. keeper \in [Ids -> 0..MaxCalls]
    BY <1>0
  <2>2. current \in 0..created /\ created \in 0..MaxSessions
    BY <1>0
  <2>3. grpc \in [at : {"idle", "new", "shutdown", "attach"}, id : 0..created,
                  call : 0..MaxCalls]
    BY <1>0
  <2>. QED
    BY <2>1, <2>2, <2>3 DEF TypeOK
<1>2. Threads
  BY DEF Threads
<1>3. Broadcasts
  BY DEF Broadcasts, Acceptable
<1>4. Calls
  BY DEF Calls, Ids
<1>. QED
  BY <1>1, <1>2, <1>3, <1>4 DEF RemoteInv

LEMMA RemoteInvNext == RemoteInv /\ [Next]_vars => RemoteInv'
  BY ThreadsKept, BroadcastsKept, CallsKept, TypesKept DEF RemoteInv

LEMMA AlwaysRemoteInv == Spec => []RemoteInv
  BY RemoteInvInit, RemoteInvNext, PTL DEF Spec

(* The types of the state hold always; in particular no session is current *)
(* or active, and none is named in a Shutdown or a keepalive call that the *)
(* gRPC thread handles, before it was created.                             *)
THEOREM RemoteTypesCorrect == Spec => []TypeOK
<1>1. RemoteInv => TypeOK
  BY DEF RemoteInv
<1>. QED
  BY <1>1, AlwaysRemoteInv, PTL

(* Whenever nobody is in a critical section of current_session_mutex_ the  *)
(* client broadcasts exactly if it would accept a session, with one thread:*)
(* EnableSession, DisableSession, New, Shutdown and ~Remote, in any order, *)
(* neither leave it silent nor leave a broadcaster behind.                 *)
THEOREM BroadcastsFollowSession == Spec => []BroadcastsIffAcceptable
<1>1. RemoteInv => BroadcastsIffAcceptable
  BY DEF RemoteInv, Threads, Broadcasts, BroadcastsIffAcceptable
<1>. QED
  BY <1>1, AlwaysRemoteInv, PTL

(* A keepalive call waits at exactly one session, which is active, however *)
(* its attachment, which uses a session id read earlier, is interleaved    *)
(* with the Shutdown or the replacement of that session.                   *)
THEOREM CallersAtActiveSessions == Spec => []CallsWaitAtActive
<1>1. ASSUME TypeOK, Calls
      PROVE  CallsWaitAtActive
  <2>0. DOMAIN call = 1..MaxCalls
    BY <1>1 DEF TypeOK
  <2>1. ASSUME NEW c \in DOMAIN call, call[c] = "waiting"
        PROVE  Cardinality({s \in Ids : keeper[s] = c}) = 1
    <3>1. PICK s \in Ids : keeper[s] = c
      BY <1>1, <2>0, <2>1 DEF Calls
    <3>2. c # 0
      BY <2>0, BoundAssumption
    <3>3. {t \in Ids : keeper[t] = c} = {s}
      BY <1>1, <3>1, <3>2 DEF Calls
    <3>. QED
      BY <3>3, FS_Singleton
  <2>. QED
    BY <1>1, <2>1 DEF CallsWaitAtActive, Calls
<1>2. RemoteInv => CallsWaitAtActive
  BY <1>1 DEF RemoteInv
<1>. QED
  BY <1>2, AlwaysRemoteInv, PTL
===============================================================================
