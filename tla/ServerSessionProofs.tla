------------------------- MODULE ServerSessionProofs -------------------------
(***************************************************************************)
(* Proofs about the job queue of a channel, for any set of pushers and any *)
(* number of jobs, and about the session that uses it.                     *)
(*                                                                         *)
(* The queue: every accepted job is performed or cancelled exactly once    *)
(* and in order, and all of them are when Terminate returns.  Inv says     *)
(* which job each place of the three sequences holds, and which stages of  *)
(* the worker and of the closer go together.                               *)
(*                                                                         *)
(* The session uses the queue as JobQueue says: each of its steps is a step*)
(* of the queue or leaves the queue alone.  So what is proved of the queue *)
(* holds in the session, whichever thread disables the channel and when.   *)
(***************************************************************************)
EXTENDS ServerSession, SequenceTheorems, TLAPS

-----------------------------------------------------------------------------
(* The job queue *)

(* The jobs in each sequence, by place. *)
Places ==
    /\ accepted = Len(performed) + Len(cancelled) + Len(queue) - InHand
    /\ \A i \in 1..Len(performed) : performed[i] = i - 1
    /\ \A i \in 1..Len(cancelled) : cancelled[i] = Len(performed) + i - 1
    /\ \A i \in 1..Len(queue) :
          queue[i] = Len(performed) - InHand + Len(cancelled) + i - 1

(* The stages: the worker leaves its loop only after the stop, and cancels  *)
(* only after its loop.                                                     *)
Stages ==
    /\ running <=> closer = "idle"
    /\ worker \in {"drain", "exited"} => ~running
    /\ cancelled # <<>> => worker \in {"drain", "exited"}
    /\ worker = "exited" => queue = <<>>
    /\ closer = "returned" => worker = "exited"

Inv == TypeOK /\ Places /\ Stages

LEMMA Initially == Init => Inv
  BY DEF Init, Inv, TypeOK, Places, Stages, InHand

(* What the worker's front and the rest of a sequence are. *)
LEMMA TailPlaces ==
    ASSUME NEW s \in Seq(Nat), s # <<>>
    PROVE  /\ Len(s) \in Nat \ {0}
           /\ Head(s) = s[1] /\ Head(s) \in Nat
           /\ Tail(s) \in Seq(Nat) /\ Len(Tail(s)) = Len(s) - 1
           /\ \A i \in 1..Len(Tail(s)) : Tail(s)[i] = s[i + 1]
  BY HeadTailProperties, EmptySeq

LEMMA PushSteps ==
    ASSUME Inv, NEW p \in Pusher, Push(p) \/ NotifyPush(p) \/ PushRefused(p)
    PROVE  Inv'
<1>. USE DEF Inv
<1>1. CASE Push(p)
  <2>1. cancelled = <<>> /\ worker \in {"evaluate", "asleep", "perform"}
    BY <1>1 DEF Push, TypeOK, Stages
  <2>2. TypeOK' /\ Stages'
    BY <1>1, <2>1 DEF Push, TypeOK, Stages
  <2>3. /\ queue' \in Seq(Nat) /\ Len(queue') = Len(queue) + 1
        /\ \A i \in 1..Len(queue) : queue'[i] = queue[i]
        /\ queue'[Len(queue) + 1] = accepted
    BY <1>1, AppendProperties DEF Push, TypeOK
  <2>4. /\ accepted' = accepted + 1 /\ InHand' = InHand /\ InHand \in {0, 1}
        /\ performed' = performed /\ cancelled' = cancelled
        /\ Len(performed) \in Nat /\ Len(cancelled) = 0 /\ Len(queue) \in Nat
    BY <1>1, <2>1, LenProperties DEF Push, TypeOK, InHand
  <2>5. accepted = Len(performed) + Len(queue) - InHand
    BY <2>4 DEF Places
  <2>6. ASSUME NEW i \in 1..Len(queue')
        PROVE  queue'[i] = Len(performed) - InHand + i - 1
    <3>1. CASE i \in 1..Len(queue)
      BY <2>3, <2>4, <3>1 DEF Places
    <3>2. CASE i = Len(queue) + 1
      BY <2>3, <2>4, <2>5, <3>2
    <3>. QED
      BY <2>3, <2>4, <3>1, <3>2
  <2>7. Places'
    BY <2>1, <2>3, <2>4, <2>5, <2>6 DEF Places
  <2>. QED
    BY <2>2, <2>7
<1>2. CASE NotifyPush(p)
  BY <1>2 DEF NotifyPush, NotifyOne, histories, TypeOK, Stages, Places, InHand
<1>3. CASE PushRefused(p)
  BY <1>3 DEF PushRefused, TypeOK, Stages, Places, InHand
<1>. QED
  BY <1>1, <1>2, <1>3

LEMMA WorkerSteps ==
    ASSUME Inv, Worker \/ SpuriousWakeUp
    PROVE  Inv'
<1>. USE DEF Inv
<1>1. CASE Sleep \/ StopLoop \/ Exit \/ SpuriousWakeUp
  <2>1. /\ UNCHANGED <<running, queue, notifying, closer, histories>>
        /\ worker # "perform" /\ worker' # "perform"
    BY <1>1 DEF Sleep, StopLoop, Exit, SpuriousWakeUp
  <2>2. Places'
    BY <2>1 DEF Places, InHand, histories
  <2>3. TypeOK'
    BY <1>1, <2>1 DEF TypeOK, histories, Sleep, StopLoop, Exit, SpuriousWakeUp
  <2>4. Stages'
    BY <1>1, <2>1 DEF TypeOK, Stages, histories, Sleep, StopLoop, Exit,
                      SpuriousWakeUp
  <2>. QED
    BY <2>2, <2>3, <2>4
<1>2. CASE Perform
  <2>1. cancelled = <<>>
    BY <1>2 DEF Perform, Stages
  <2>2. Head(queue) = Len(performed) /\ Head(queue) \in Nat
    BY <1>2, <2>1, TailPlaces DEF Perform, TypeOK, Places, InHand
  <2>3. TypeOK' /\ Stages'
    BY <1>2, <2>2 DEF Perform, TypeOK, Stages
  <2>4. Places'
    BY <1>2, <2>1, <2>2 DEF Perform, TypeOK, Places, InHand
  <2>. QED
    BY <2>3, <2>4
<1>3. CASE Pop
  <2>1. queue # <<>> /\ cancelled = <<>>
    BY <1>3 DEF Pop, TypeOK, Stages
  <2>2. TypeOK' /\ Stages'
    BY <1>3, <2>1, TailPlaces DEF Pop, histories, TypeOK, Stages
  <2>3. Places'
    BY <1>3, <2>1, TailPlaces DEF Pop, histories, TypeOK, Places, InHand
  <2>. QED
    BY <2>2, <2>3
<1>4. CASE CancelFront
  <2>1. Head(queue) = Len(performed) + Len(cancelled) /\ Head(queue) \in Nat
    BY <1>4, TailPlaces DEF CancelFront, TypeOK, Places, InHand
  <2>2. TypeOK' /\ Stages'
    BY <1>4, <2>1, TailPlaces DEF CancelFront, TypeOK, Stages
  <2>3. /\ Len(queue) \in Nat \ {0} /\ Len(queue') = Len(queue) - 1
        /\ \A i \in 1..Len(queue') : queue'[i] = queue[i + 1]
    BY <1>4, TailPlaces DEF CancelFront, TypeOK
  <2>4. /\ Len(cancelled) \in Nat /\ Len(cancelled') = Len(cancelled) + 1
        /\ \A i \in 1..Len(cancelled) : cancelled'[i] = cancelled[i]
        /\ cancelled'[Len(cancelled) + 1] = Len(performed) + Len(cancelled)
    BY <1>4, <2>1, AppendProperties, LenProperties DEF CancelFront, TypeOK
  <2>5. /\ InHand = 0 /\ InHand' = 0 /\ Len(performed) \in Nat
        /\ performed' = performed /\ accepted' = accepted
    BY <1>4, LenProperties DEF CancelFront, TypeOK, InHand
  <2>6. accepted' = Len(performed') + Len(cancelled') + Len(queue') - InHand'
    BY <2>3, <2>4, <2>5 DEF Places
  <2>7. ASSUME NEW i \in 1..Len(cancelled')
        PROVE  cancelled'[i] = Len(performed) + i - 1
    <3>1. CASE i \in 1..Len(cancelled)
      BY <2>4, <3>1 DEF Places
    <3>2. CASE i = Len(cancelled) + 1
      BY <2>4, <2>5, <3>2
    <3>. QED
      BY <2>4, <3>1, <3>2
  <2>8. ASSUME NEW i \in 1..Len(queue')
        PROVE  queue'[i] = Len(performed) + Len(cancelled') + i - 1
    <3>1. i + 1 \in 1..Len(queue) /\ queue'[i] = queue[i + 1]
      BY <2>3
    <3>2. queue[i + 1] = Len(performed) - InHand + Len(cancelled) + (i + 1) - 1
      BY <3>1 DEF Places
    <3>. QED
      BY <2>3, <2>4, <2>5, <3>1, <3>2
  <2>9. Places'
    BY <2>5, <2>6, <2>7, <2>8 DEF Places
  <2>. QED
    BY <2>2, <2>9
<1>. QED
  BY <1>1, <1>2, <1>3, <1>4 DEF Worker

LEMMA CloserSteps ==
    ASSUME Inv, Closer
    PROVE  Inv'
<1>. USE DEF Inv
<1>1. CASE Terminate
  BY <1>1 DEF Terminate, histories, TypeOK, Stages, Places, InHand
<1>2. CASE NotifyTermination
  BY <1>2 DEF NotifyTermination, NotifyOne, histories, TypeOK, Stages, Places,
              InHand
<1>3. CASE Join
  BY <1>3 DEF Join, histories, TypeOK, Stages, Places, InHand
<1>. QED
  BY <1>1, <1>2, <1>3 DEF Closer

LEMMA InvStep == Inv /\ [Next]_vars => Inv'
<1>1. Inv /\ UNCHANGED vars => Inv'
  BY DEF Inv, vars, TypeOK, Stages, Places, InHand
<1>. QED
  BY <1>1, PushSteps, WorkerSteps, CloserSteps DEF Next

LEMMA Invariance == Spec => []Inv
  BY Initially, InvStep, PTL DEF Spec

(* The worker's reference to the front of the queue is never dangling. *)
THEOREM TypeCorrect == Spec => []TypeOK
<1>1. Inv => TypeOK
  BY DEF Inv
<1>. QED
  BY <1>1, Invariance, PTL

(* Two sequences that number their members on from n, one after the other. *)
LEMMA NumberedOn ==
    ASSUME NEW s \in Seq(Nat), NEW t \in Seq(Nat),
           \A i \in 1..Len(s) : s[i] = i - 1,
           \A i \in 1..Len(t) : t[i] = Len(s) + i - 1
    PROVE  /\ s \o t \in Seq(Nat)
           /\ Len(s \o t) = Len(s) + Len(t)
           /\ \A i \in 1..Len(s \o t) : (s \o t)[i] = i - 1
<1>1. Len(s) \in Nat /\ Len(t) \in Nat
  BY LenProperties
<1>2. /\ s \o t \in Seq(Nat)
      /\ Len(s \o t) = Len(s) + Len(t)
      /\ \A i \in 1..Len(s) + Len(t) :
            (s \o t)[i] = IF i <= Len(s) THEN s[i] ELSE t[i - Len(s)]
  BY ConcatProperties
<1>3. ASSUME NEW i \in 1..Len(s) + Len(t) PROVE (s \o t)[i] = i - 1
  <2>1. CASE i <= Len(s)
    BY <1>1, <1>2, <2>1
  <2>2. CASE i > Len(s)
    <3>1. i - Len(s) \in 1..Len(t)
      BY <1>1, <2>2
    <3>2. (s \o t)[i] = t[i - Len(s)]
      BY <1>1, <1>2, <2>2
    <3>. QED
      BY <1>1, <3>1, <3>2
  <2>. QED
    BY <1>1, <2>1, <2>2
<1>. QED
  BY <1>2, <1>3

(* The queue without the job in hand. *)
LEMMA RestOfQueue ==
    ASSUME Inv
    PROVE  LET rest == SubSeq(queue, 1 + InHand, Len(queue))
           IN  /\ rest \in Seq(Nat)
               /\ Len(rest) = Len(queue) - InHand
               /\ \A i \in 1..Len(rest) :
                     rest[i] = Len(performed) + Len(cancelled) + i - 1
<1>. USE DEF Inv
<1>1. /\ InHand \in {0, 1} /\ InHand <= Len(queue)
      /\ Len(queue) \in Nat
      /\ Len(performed) \in Nat /\ Len(cancelled) \in Nat
  BY EmptySeq DEF TypeOK, InHand
<1>2. 1 + InHand \in Int /\ \A i \in (1 + InHand)..Len(queue) : queue[i] \in Nat
  BY <1>1, ElementOfSeq DEF TypeOK
<1>. DEFINE rest == SubSeq(queue, 1 + InHand, Len(queue))
<1>3. /\ rest \in Seq(Nat)
      /\ Len(rest) = IF 1 + InHand <= Len(queue)
                        THEN Len(queue) - (1 + InHand) + 1 ELSE 0
      /\ \A i \in 1..Len(queue) - (1 + InHand) + 1 :
            rest[i] = queue[(1 + InHand) + i - 1]
  BY <1>1, <1>2, SubSeqProperties
<1>. HIDE DEF rest
<1>4. Len(rest) = Len(queue) - InHand
  BY <1>1, <1>3
<1>5. ASSUME NEW i \in 1..Len(rest)
      PROVE  rest[i] = Len(performed) + Len(cancelled) + i - 1
  <2>1. rest[i] = queue[i + InHand] /\ i + InHand \in 1..Len(queue)
    BY <1>1, <1>3, <1>4
  <2>2. queue[i + InHand]
          = Len(performed) - InHand + Len(cancelled) + (i + InHand) - 1
    BY <2>1 DEF Places
  <2>. QED
    BY <1>1, <1>4, <2>1, <2>2
<1>. QED
  BY <1>3, <1>4, <1>5 DEF rest

(* Jobs are performed in the order they are pushed, and each is performed   *)
(* or cancelled at most once.                                               *)
THEOREM JobsOnceInOrder == Spec => []EachJobOnceInOrder
<1>1. Inv => EachJobOnceInOrder
  <2>. SUFFICES ASSUME Inv PROVE EachJobOnceInOrder
    OBVIOUS
  <2>. DEFINE rest == SubSeq(queue, 1 + InHand, Len(queue))
              done == performed \o cancelled
  <2>1. /\ performed \in Seq(Nat) /\ cancelled \in Seq(Nat)
        /\ Len(performed) \in Nat /\ Len(cancelled) \in Nat
        /\ \A i \in 1..Len(performed) : performed[i] = i - 1
        /\ \A i \in 1..Len(cancelled) : cancelled[i] = Len(performed) + i - 1
    BY LenProperties DEF Inv, TypeOK, Places
  <2>2. /\ done \in Seq(Nat) /\ Len(done) = Len(performed) + Len(cancelled)
        /\ \A i \in 1..Len(done) : done[i] = i - 1
    BY <2>1, NumberedOn
  <2>3. /\ rest \in Seq(Nat) /\ Len(rest) = Len(queue) - InHand
        /\ \A i \in 1..Len(rest) : rest[i] = Len(done) + i - 1
    BY <2>2, RestOfQueue
  <2>. HIDE DEF done, rest
  <2>4. /\ Len(done \o rest) = Len(done) + Len(rest)
        /\ \A i \in 1..Len(done \o rest) : (done \o rest)[i] = i - 1
    BY <2>2, <2>3, NumberedOn
  <2>5. Len(done \o rest) = accepted
    <3>1. Len(queue) \in Nat /\ InHand \in {0, 1}
      BY LenProperties DEF Inv, TypeOK, InHand
    <3>. QED
      BY <2>1, <2>2, <2>3, <2>4, <3>1 DEF Inv, Places
  <2>. QED
    BY <2>4, <2>5 DEF EachJobOnceInOrder, done, rest
<1>. QED
  BY <1>1, Invariance, PTL

(* When Terminate returns the worker is gone and no accepted job is left. *)
THEOREM TerminateIsFinal == Spec => []TerminateSettles
<1>1. Inv => TerminateSettles
  BY DEF Inv, TypeOK, Places, Stages, TerminateSettles, InHand
<1>. QED
  BY <1>1, Invariance, PTL

-----------------------------------------------------------------------------
(* The session implements the queue *)

LEMMA StepsOfTheQueue == SessionNext => [Next]_vars
<1>. SUFFICES ASSUME SessionNext PROVE Next \/ UNCHANGED vars
  OBVIOUS
<1>. USE DEF vars, queueVars
<1>1. ASSUME NEW p \in Pusher, PushJob(p) \/ PushReturns(p) PROVE Next
  BY <1>1 DEF PushJob, PushReturns, Next
<1>2. ASSUME WorkerLoops \/ PerformJob \/ JobReturns \/ WakesUp PROVE Next
  BY <1>2 DEF WorkerLoops, PerformJob, JobReturns, WakesUp, Next, Worker
<1>3. ASSUME JobLocks \/ JobStartsCall \/ JobCounts \/ JobReleases
      PROVE  UNCHANGED vars
  BY <1>3 DEF JobLocks, JobStartsCall, JobCounts, JobReleases, JobStep
<1>4. ASSUME NEW thread, LockAndTerminate(thread) PROVE Next
  BY <1>4 DEF LockAndTerminate, Next, Closer
<1>5. ASSUME Terminating PROVE Next
  BY <1>5 DEF Terminating, Next, Closer
<1>6. ASSUME GrpcThread \/ CallCompletes PROVE Next \/ UNCHANGED vars
  BY <1>4, <1>6
  DEF GrpcThread, CallCompletes, Notify, Write, Release, Count, GrpcStep,
      GrpcDestroys, Disabled
<1>7. ASSUME Main PROVE Next \/ UNCHANGED vars
  BY <1>4, <1>7
  DEF Main, HandleControlEvent, ShutdownReturns, MainDisables, Disabled,
      DisableSessionChannel
<1>8. ASSUME UserStep \/ KeepaliveThread \/ KeepaliveEnds \/ ClientLost
      PROVE  UNCHANGED vars
  BY <1>8
  DEF UserStep, Connect, ConnectFails, CreateChannel, EndSession, DropChannel,
      KeepaliveThread, StartKeepalive, KeepaliveNotifies, KeepaliveWrites,
      KeepaliveEnds, KeepaliveStep, ClientLost
<1>. QED
  BY <1>1, <1>2, <1>3, <1>5, <1>6, <1>7, <1>8 DEF SessionNext, WorkerThread

(* A session with its channels implements the job queue.                    *)
THEOREM SessionUsesQueue == SessionSpec => Spec
<1>1. SessionInit => Init
  BY DEF SessionInit
<1>2. [SessionNext]_allVars => [Next]_vars
  BY StepsOfTheQueue DEF allVars, queueVars, vars
<1>. QED
  BY <1>1, <1>2, PTL DEF SessionSpec, Spec

(* In a session every job is performed or cancelled once, in the order of   *)
(* the pushes, whatever becomes of the session, the channel and the client. *)
THEOREM SessionKeepsOrder == SessionSpec => []EachJobOnceInOrder
  BY SessionUsesQueue, JobsOnceInOrder, PTL

(* When Disable has joined the worker, no job of the channel is left.       *)
THEOREM DisableIsFinal == SessionSpec => []TerminateSettles
  BY SessionUsesQueue, TerminateIsFinal, PTL

-----------------------------------------------------------------------------
(* The session itself.  That an enabled channel has an open pipe, and that *)
(* all is quiet when the user is told, depends on who may still refer to   *)
(* the channel: once nobody does, nobody can again, since weak references  *)
(* no longer lock.                                                         *)

(* Where the worker is in a job, and how the two queues of names agree.    *)
Jobs ==
    /\ job # "none" <=> worker = "perform"
    /\ user = "none" => ~enabled /\ worker # "perform" /\ notifying = {}
    /\ Created /\ ~enabled => closer = "returned"

(* The mutex: who holds it, and what is not changed meanwhile.             *)
Mutex ==
    /\ mtx = "main" <=> at = "join"
    /\ mtx = "grpc" => grpc \in {"write", "destroy"}
    /\ grpc = "write" => mtx = "grpc" /\ enabled
    /\ at = "join" => enabled

(* A channel is destroyed by one thread, after the last reference went.    *)
Destruction ==
    /\ grpc = "destroy" => Created /\ Holders = {} /\ enabled /\ main # "drop"
    /\ main = "drop" => Created /\ Holders = {} /\ enabled

(* The life of the session, and what its main thread relies on after it    *)
(* looked for the channel.                                                 *)
Life ==
    /\ pipe = "open" <=> session \in {"connected", "disconnected"}
    /\ session \in {"new", "failed"} => user = "none"
    /\ session \in {"new", "connected", "failed"} => told = 0
    /\ main = "disconnect" => session = "disconnected" /\ told = 0
    /\ main = "end" => session # "gone"
    /\ at = "shutdown" => pipe = "open"
    /\ at = "session" => ~(enabled /\ Holders # {})

SessionInv ==
    /\ SessionTypeOK
    /\ EnabledPipeValid
    /\ ToldOnce
    /\ Jobs
    /\ Mutex
    /\ Destruction
    /\ Life

(* Nobody refers to the channel, by place.                                 *)
Unheld ==
    /\ user \notin {"holds", "late"}
    /\ notifying = {}
    /\ ~(main \in {"disconnect", "end"} /\ at \in {"lock", "join"})
    /\ job \notin {"start", "count", "release"}
    /\ grpc \notin {"locked", "write", "release"}

LEMMA HoldersByPlace == /\ Holders = {} <=> Unheld
                        /\ Holders' = {} <=> Unheld'
  BY DEF Holders, Unheld

(* The last holder lets go.                                                *)
LEMMA LastHolder ==
    ASSUME notifying \subseteq Pusher
    PROVE  /\ Holders = {"grpc"} =>
                 /\ user \notin {"holds", "late"}
                 /\ notifying = {}
                 /\ ~(main \in {"disconnect", "end"} /\ at \in {"lock", "join"})
                 /\ job \notin {"start", "count", "release"}
           /\ Holders = {"user"} =>
                 /\ notifying = {}
                 /\ ~(main \in {"disconnect", "end"} /\ at \in {"lock", "join"})
                 /\ job \notin {"start", "count", "release"}
                 /\ grpc \notin {"locked", "write", "release"}
  BY PusherAssumption DEF Holders

(* What pending_count_ counts. *)
Counted == pending = inflight + (IF grpc = "next" THEN 0 ELSE 1)
                              - (IF job = "count" THEN 1 ELSE 0)

(* The types, with the places of the main thread spelled out. *)
Types ==
    /\ session \in {"new", "connected", "disconnected", "failed", "gone"}
    /\ pipe \in {"closed", "open"}
    /\ messages \in 0..MaxWrites
    /\ told \in Nat
    /\ \/ main = "loop" /\ at = "idle"
       \/ main = "end" /\ at \in {"shutdown", "lock", "join", "session"}
       \/ main = "disconnect" /\ at \in {"lock", "join", "session"}
       \/ main = "drop" /\ at \in {"lock", "join"}
    /\ keepalive \in {"none", "queued", "calling", "locked", "write", "done"}
    /\ sEnabled \in BOOLEAN
    /\ user \in {"none", "holds", "late", "dropped"}
    /\ enabled \in BOOLEAN
    /\ mtx \in {"free", "main", "grpc"}
    /\ job \in {"none", "lock", "start", "count", "release", "done"}
    /\ grpc \in {"next", "locked", "write", "release", "destroy", "finished"}
    /\ inflight \in Nat
    /\ clientUp \in BOOLEAN
    /\ Counted

LEMMA PlacesOfMain ==
    ASSUME NEW m, NEW a
    PROVE  <<m, a>> \in {<<"loop", "idle">>, <<"end", "shutdown">>}
             \cup ({"disconnect", "end", "drop"} \X {"lock", "join"})
             \cup ({"disconnect", "end"} \X {"session"})
           <=> \/ m = "loop" /\ a = "idle"
               \/ m = "end" /\ a \in {"shutdown", "lock", "join", "session"}
               \/ m = "disconnect" /\ a \in {"lock", "join", "session"}
               \/ m = "drop" /\ a \in {"lock", "join"}
  OBVIOUS

LEMMA TypesSpelledOut == /\ SessionTypeOK <=> Types
                         /\ SessionTypeOK' <=> Types'
<1>1. SessionTypeOK <=> Types
  BY PlacesOfMain, Zenon DEF SessionTypeOK, Types, Counted
<1>2. SessionTypeOK' <=> Types'
  BY PlacesOfMain, Zenon DEF SessionTypeOK, Types, Counted
<1>. QED
  BY <1>1, <1>2

LEMMA SessionInitially == SessionInit => SessionInv
<1>. SUFFICES ASSUME SessionInit PROVE SessionInv
  OBVIOUS
<1>1. SessionTypeOK
  <2>1. Counted
    BY DEF SessionInit, Counted
  <2>2. messages \in 0..MaxWrites
    BY WritesAssumption DEF SessionInit
  <2>3. Types
    BY <2>1, <2>2 DEF SessionInit, Types
  <2>. QED
    BY <2>3, TypesSpelledOut
<1>2. Jobs /\ Mutex /\ Life /\ Destruction
  BY DEF SessionInit, Init, Jobs, Mutex, Life, Destruction, Created
<1>3. EnabledPipeValid /\ ToldOnce
  BY DEF SessionInit, EnabledPipeValid, ToldOnce
<1>. QED
  BY <1>1, <1>2, <1>3 DEF SessionInv

(* The pushers and the wake-ups. *)
LEMMA PushesKeep ==
    ASSUME Inv, SessionInv, NEW p \in Pusher,
           PushJob(p) \/ PushReturns(p)
    PROVE  SessionInv'
<1>. USE HoldersByPlace, TypesSpelledOut
     DEF SessionInv, Types, Counted, EnabledPipeValid, ToldOnce, Jobs, Mutex, Destruction,
         Life, Unheld, Created
<1>1. CASE PushJob(p)
  BY <1>1 DEF PushJob, Push, PushRefused, QueueOnly, sessionVars, mainVars,
             keepaliveVars, channelVars, callVars
<1>2. CASE PushReturns(p)
  BY <1>2 DEF PushReturns, NotifyPush, NotifyOne, QueueOnly, histories,
             sessionVars, mainVars, keepaliveVars, channelVars, callVars
<1>. QED
  BY <1>1, <1>2

LEMMA WakeUpsKeep ==
    ASSUME Inv, SessionInv, WakesUp
    PROVE  SessionInv'
  BY HoldersByPlace, TypesSpelledOut
  DEF SessionInv, Types, Counted, EnabledPipeValid, ToldOnce, Jobs, Mutex, Destruction,
      Life, Unheld, Created, WakesUp, SpuriousWakeUp, QueueOnly, histories,
      sessionVars, mainVars, keepaliveVars, channelVars, callVars

(* The worker, in its loop and in a job. *)
LEMMA WorkerKeeps ==
    ASSUME Inv, SessionInv, WorkerThread
    PROVE  SessionInv'
<1>. USE HoldersByPlace, TypesSpelledOut
     DEF SessionInv, Types, Counted, EnabledPipeValid, ToldOnce, Jobs, Mutex, Destruction,
         Life, Unheld, Created
<1>1. CASE WorkerLoops
  BY <1>1 DEF WorkerLoops, Sleep, StopLoop, CancelFront, Exit, QueueOnly,
             histories, sessionVars, mainVars, keepaliveVars, channelVars, callVars
<1>2. CASE PerformJob
  BY <1>2 DEF PerformJob, Perform, sessionVars, mainVars, keepaliveVars,
             channelVars
<1>3. CASE JobLocks
  BY <1>3 DEF JobLocks, JobStep, queueVars, sessionVars, mainVars, keepaliveVars,
             channelVars
<1>4. CASE JobStartsCall
  BY <1>4 DEF JobStartsCall, JobStep, queueVars, sessionVars, mainVars, keepaliveVars,
             channelVars
<1>5. CASE JobCounts
  BY <1>5 DEF JobCounts, JobStep, queueVars, sessionVars, mainVars, keepaliveVars,
             channelVars
<1>6. CASE JobReleases
  BY <1>6 DEF JobReleases, JobStep, queueVars, sessionVars, mainVars, keepaliveVars,
             channelVars
<1>7. CASE JobReturns
  BY <1>7 DEF JobReturns, Pop, histories, sessionVars, mainVars,
             keepaliveVars, channelVars
<1>. QED
  BY <1>1, <1>2, <1>3, <1>4, <1>5, <1>6, <1>7 DEF WorkerThread

(* The gRPC thread; the last reference may be its own. *)
LEMMA GrpcKeeps ==
    ASSUME Inv, SessionInv, GrpcThread \/ CallCompletes
    PROVE  SessionInv'
<1>. USE HoldersByPlace, TypesSpelledOut
     DEF SessionInv, Types, Counted, EnabledPipeValid, ToldOnce, Jobs, Mutex, Destruction,
         Life, Unheld, Created
<1>1. CASE CallCompletes
  BY <1>1 DEF CallCompletes, GrpcStep, queueVars, mainVars, keepaliveVars
<1>2. CASE Notify
  BY <1>2 DEF Notify, GrpcStep, queueVars, mainVars, keepaliveVars
<1>3. CASE Write
  BY <1>3, WritesAssumption DEF Write, GrpcStep, queueVars, mainVars, keepaliveVars
<1>4. CASE Release
  <2>. USE DEF Release, GrpcStep, queueVars, mainVars, keepaliveVars
  <2>1. Types'
    <3>. USE <1>4
    <3>1. Counted'
      OBVIOUS
    <3>2. messages' \in 0..MaxWrites
      BY WritesAssumption
    <3>. HIDE DEF Counted
    <3>. QED
      BY <3>1, <3>2
  <2>2. CASE Holders = {"grpc"} /\ enabled
    <3>1. Unheld'
      BY <1>4, <2>2, LastHolder DEF Inv, TypeOK
    <3>2. Destruction'
      BY <1>4, <2>2, <3>1
    <3>3. EnabledPipeValid' /\ ToldOnce' /\ Jobs' /\ Mutex' /\ Life'
      BY <1>4, <2>2
    <3>. QED
      BY <2>1, <3>2, <3>3
  <2>3. CASE ~(Holders = {"grpc"} /\ enabled)
    <3>1. Destruction'
      BY <1>4, <2>3
    <3>3. EnabledPipeValid' /\ ToldOnce' /\ Jobs' /\ Mutex' /\ Life'
      BY <1>4, <2>3
    <3>. QED
      BY <2>1, <3>1, <3>3
  <2>. QED
    BY <2>2, <2>3
<1>5. CASE Count
  BY <1>5 DEF Count, GrpcStep, queueVars, mainVars, keepaliveVars
<1>6. CASE GrpcDestroys
  <2>. USE DEF GrpcDestroys, LockAndTerminate, Disabled, Terminate, queueVars,
             histories, sessionVars, mainVars, keepaliveVars, channelVars
  <2>1. Types'
    <3>. USE <1>6
    <3>1. Counted'
      OBVIOUS
    <3>2. messages' \in 0..MaxWrites
      BY WritesAssumption
    <3>. HIDE DEF Counted
    <3>3. /\ session' \in {"new", "connected", "disconnected", "failed", "gone"}
          /\ pipe' \in {"closed", "open"}
          /\ told' \in Nat
          /\ sEnabled' \in BOOLEAN
          /\ enabled' \in BOOLEAN
          /\ clientUp' \in BOOLEAN
          /\ inflight' \in Nat
      OBVIOUS
    <3>4. /\ mtx' \in {"free", "main", "grpc"}
          /\ job' \in {"none", "lock", "start", "count", "release", "done"}
          /\ grpc' \in {"next", "locked", "write", "release", "destroy", "finished"}
          /\ user' \in {"none", "holds", "late", "dropped"}
      OBVIOUS
    <3>. QED
      BY <3>1, <3>2, <3>3, <3>4
  <2>2. Unheld' <=> Unheld
    BY <1>6
  <2>3. Jobs' /\ Mutex'
    BY <1>6
  <2>4. Destruction'
    BY <1>6, <2>2
  <2>5. Life'
    BY <1>6, <2>2
  <2>6. EnabledPipeValid' /\ ToldOnce'
    BY <1>6, <2>2
  <2>. QED
    BY <2>1, <2>3, <2>4, <2>5, <2>6
<1>. QED
  BY <1>1, <1>2, <1>3, <1>4, <1>5, <1>6 DEF GrpcThread

(* Channel::Disable on the main thread, and the join of the worker. *)
LEMMA DisablingKeeps ==
    ASSUME Inv, SessionInv, Terminating \/ MainDisables
    PROVE  SessionInv'
<1>. USE HoldersByPlace, TypesSpelledOut
     DEF SessionInv, Types, Counted, EnabledPipeValid, ToldOnce, Jobs, Mutex, Destruction,
         Life, Unheld, Created
<1>1. CASE Terminating
  BY <1>1 DEF Terminating, NotifyTermination, NotifyOne, Join, QueueOnly, histories,
             sessionVars, mainVars, keepaliveVars, channelVars, callVars
<1>2. CASE /\ at = "lock" /\ LockAndTerminate("main") /\ at' = "join"
           /\ main' = main
           /\ UNCHANGED <<sessionVars, keepaliveVars, callVars, clientUp>>
  BY <1>2 DEF LockAndTerminate, Terminate, histories, sessionVars, keepaliveVars, callVars
<1>3. CASE /\ at = "join" /\ Disabled("main") /\ Onward
           /\ UNCHANGED <<sessionVars, keepaliveVars, callVars, clientUp>>
  <2>. USE DEF Disabled, Onward, queueVars, sessionVars, keepaliveVars, callVars
  <2>1. Types'
    <3>. USE <1>3
    <3>1. Counted'
      OBVIOUS
    <3>2. messages' \in 0..MaxWrites
      BY WritesAssumption
    <3>. HIDE DEF Counted
    <3>3. /\ mtx' \in {"free", "main", "grpc"}
          /\ enabled' \in BOOLEAN
          /\ user' \in {"none", "holds", "late", "dropped"}
      OBVIOUS
    <3>. QED
      BY <3>1, <3>2, <3>3
  <2>2. Jobs' /\ Mutex'
    BY <1>3 DEF Inv, Stages
  <2>3. Destruction'
    BY <1>3 DEF Inv, Stages
  <2>4. Life'
    BY <1>3 DEF Inv, Stages
  <2>5. EnabledPipeValid'
    BY <1>3 DEF Inv, Stages
  <2>6. ToldOnce'
    BY <1>3 DEF Inv, Stages
  <2>. QED
    BY <2>1, <2>2, <2>3, <2>4, <2>5, <2>6
<1>4. CASE /\ at = "lock" /\ mtx = "free" /\ ~enabled /\ Onward
           /\ UNCHANGED <<queueVars, channelVars>>
           /\ UNCHANGED <<sessionVars, keepaliveVars, callVars, clientUp>>
  BY <1>4 DEF Onward, queueVars, channelVars, sessionVars, keepaliveVars, callVars
<1>. QED
  BY <1>1, <1>2, <1>3, <1>4 DEF MainDisables

(* The other steps of the main thread. *)
LEMMA MainKeeps ==
    ASSUME Inv, SessionInv, HandleControlEvent \/ ShutdownReturns \/ DisableSessionChannel
    PROVE  SessionInv'
<1>. USE HoldersByPlace, TypesSpelledOut
     DEF SessionInv, Types, Counted, EnabledPipeValid, ToldOnce, Jobs, Mutex, Destruction,
         Life, Unheld, Created
<1>1. CASE HandleControlEvent
  <2>. USE DEF HandleControlEvent, StartDisabling, queueVars, mainVars, keepaliveVars,
             channelVars, callVars
  <2>1. Types'
    <3>. USE <1>1
    <3>1. Counted'
      OBVIOUS
    <3>2. messages' \in 0..MaxWrites
      BY WritesAssumption
    <3>. HIDE DEF Counted
    <3>. QED
      BY <3>1, <3>2
  <2>2. Jobs' /\ Mutex'
    BY <1>1
  <2>3. Destruction'
    BY <1>1
  <2>4. Life'
    BY <1>1
  <2>5. EnabledPipeValid'
    BY <1>1
  <2>6. ToldOnce'
    BY <1>1
  <2>. QED
    BY <2>1, <2>2, <2>3, <2>4, <2>5, <2>6
<1>2. CASE ShutdownReturns
  BY <1>2 DEF ShutdownReturns, StartDisabling, queueVars, sessionVars,
             keepaliveVars, channelVars, callVars
<1>3. CASE DisableSessionChannel
  <2>. USE DEF DisableSessionChannel, queueVars, channelVars, callVars
  <2>1. Types'
    <3>. USE <1>3
    <3>1. Counted'
      OBVIOUS
    <3>2. messages' \in 0..MaxWrites
      BY WritesAssumption
    <3>. HIDE DEF Counted
    <3>3. session' \in {"new", "connected", "disconnected", "failed", "gone"}
      OBVIOUS
    <3>5. pipe' \in {"closed", "open"} /\ told' \in Nat
      OBVIOUS
    <3>6. sEnabled' \in BOOLEAN
      OBVIOUS
    <3>7. enabled' = enabled /\ clientUp' = clientUp /\ inflight' = inflight
      OBVIOUS
    <3>4. /\ mtx' \in {"free", "main", "grpc"}
          /\ job' \in {"none", "lock", "start", "count", "release", "done"}
          /\ grpc' \in {"next", "locked", "write", "release", "destroy", "finished"}
          /\ user' \in {"none", "holds", "late", "dropped"}
      OBVIOUS
    <3>. QED
      BY <3>1, <3>2, <3>3, <3>4, <3>5, <3>6, <3>7
  <2>2. Jobs' /\ Mutex'
    BY <1>3 DEF Inv, Stages
  <2>3. Destruction'
    BY <1>3 DEF Inv, Stages
  <2>4. Life'
    BY <1>3 DEF Inv, Stages
  <2>5. EnabledPipeValid'
    BY <1>3 DEF Inv, Stages
  <2>6. ToldOnce'
    BY <1>3 DEF Inv, Stages
  <2>. QED
    BY <2>1, <2>2, <2>3, <2>4, <2>5, <2>6
<1>. QED
  BY <1>1, <1>2, <1>3

(* What the user does. *)
LEMMA UserKeeps ==
    ASSUME Inv, SessionInv, UserStep
    PROVE  SessionInv'
<1>. USE HoldersByPlace, TypesSpelledOut
     DEF SessionInv, Types, Counted, EnabledPipeValid, ToldOnce, Jobs, Mutex, Destruction,
         Life, Unheld, Created
<1>1. CASE Connect
  BY <1>1 DEF Connect, queueVars, mainVars, channelVars, callVars
<1>2. CASE ConnectFails
  BY <1>2 DEF ConnectFails, queueVars, mainVars, keepaliveVars, channelVars,
             callVars
<1>3. CASE CreateChannel
  BY <1>3 DEF CreateChannel, queueVars, sessionVars, mainVars, keepaliveVars,
             callVars
<1>4. CASE EndSession
  BY <1>4 DEF EndSession, StartDisabling, queueVars, sessionVars, keepaliveVars,
             channelVars, callVars
<1>5. CASE DropChannel
  BY <1>5, LastHolder DEF DropChannel, Inv, TypeOK, queueVars, sessionVars, mainVars,
             keepaliveVars, callVars
<1>. QED
  BY <1>1, <1>2, <1>3, <1>4, <1>5 DEF UserStep

(* The keepalive call, and the loss of the client. *)
LEMMA KeepaliveKeeps ==
    ASSUME Inv, SessionInv, KeepaliveThread \/ KeepaliveEnds \/ ClientLost
    PROVE  SessionInv'
<1>. USE HoldersByPlace, TypesSpelledOut
     DEF SessionInv, Types, Counted, EnabledPipeValid, ToldOnce, Jobs, Mutex, Destruction,
         Life, Unheld, Created
<1>1. CASE StartKeepalive
  BY <1>1 DEF StartKeepalive, KeepaliveStep, queueVars, mainVars, channelVars, callVars
<1>2. CASE KeepaliveEnds
  BY <1>2 DEF KeepaliveEnds, KeepaliveStep, queueVars, mainVars, channelVars, callVars
<1>3. CASE KeepaliveNotifies
  BY <1>3 DEF KeepaliveNotifies, KeepaliveStep, queueVars, mainVars, channelVars, callVars
<1>4. CASE KeepaliveWrites
  BY <1>4, WritesAssumption DEF KeepaliveWrites, KeepaliveStep, queueVars, mainVars, channelVars, callVars
<1>5. CASE ClientLost
  <2>1. Types'
    <3>. USE <1>5 DEF ClientLost, queueVars, sessionVars, mainVars, keepaliveVars,
             channelVars, callVars
    <3>1. Counted'
      OBVIOUS
    <3>2. messages' \in 0..MaxWrites
      BY WritesAssumption
    <3>3. /\ session' \in {"new", "connected", "disconnected", "failed", "gone"}
          /\ pipe' \in {"closed", "open"}
          /\ told' \in Nat
          /\ sEnabled' \in BOOLEAN
          /\ enabled' \in BOOLEAN
          /\ clientUp' \in BOOLEAN
          /\ inflight' \in Nat
      OBVIOUS
    <3>4. /\ mtx' \in {"free", "main", "grpc"}
          /\ job' \in {"none", "lock", "start", "count", "release", "done"}
          /\ grpc' \in {"next", "locked", "write", "release", "destroy", "finished"}
          /\ user' \in {"none", "holds", "late", "dropped"}
      OBVIOUS
    <3>. QED
      BY <3>1, <3>2, <3>3, <3>4
  <2>2. Unheld' <=> Unheld
    BY <1>5 DEF ClientLost, queueVars, sessionVars, mainVars, keepaliveVars,
             channelVars, callVars
  <2>. HIDE DEF Unheld, Types
  <2>3. Jobs' /\ Mutex' /\ Destruction' /\ Life'
    BY <1>5, <2>2 DEF ClientLost, queueVars, sessionVars, mainVars, keepaliveVars,
             channelVars, callVars
  <2>4. EnabledPipeValid' /\ ToldOnce'
    BY <1>5, <2>2 DEF ClientLost, queueVars, sessionVars, mainVars, keepaliveVars,
             channelVars, callVars
  <2>. QED
    BY <2>1, <2>3, <2>4
<1>. QED
  BY <1>1, <1>2, <1>3, <1>4, <1>5 DEF KeepaliveThread

LEMMA SessionInvStep == Inv /\ SessionInv /\ [SessionNext]_allVars => SessionInv'
<1>. SUFFICES ASSUME Inv, SessionInv, [SessionNext]_allVars PROVE SessionInv'
  OBVIOUS
<1>1. CASE UNCHANGED allVars
  BY <1>1, HoldersByPlace, TypesSpelledOut
  DEF allVars, queueVars, sessionVars, mainVars, keepaliveVars, channelVars, callVars,
      SessionInv, Types, Counted, EnabledPipeValid, ToldOnce, Jobs, Mutex, Destruction,
      Life, Unheld, Created
<1>2. CASE SessionNext
  <2>1. ASSUME NEW p \in Pusher, PushJob(p) \/ PushReturns(p) PROVE SessionInv'
    BY <2>1, PushesKeep
  <2>2. CASE WakesUp
    BY <2>2, WakeUpsKeep
  <2>3. CASE WorkerThread
    BY <2>3, WorkerKeeps
  <2>4. CASE GrpcThread \/ CallCompletes
    BY <2>4, GrpcKeeps
  <2>5. CASE Terminating \/ MainDisables
    BY <2>5, DisablingKeeps
  <2>6. CASE HandleControlEvent \/ ShutdownReturns \/ DisableSessionChannel
    BY <2>6, MainKeeps
  <2>7. CASE UserStep
    BY <2>7, UserKeeps
  <2>8. CASE KeepaliveThread \/ KeepaliveEnds \/ ClientLost
    BY <2>8, KeepaliveKeeps
  <2>. QED
    BY <1>2, <2>1, <2>2, <2>3, <2>4, <2>5, <2>6, <2>7, <2>8 DEF SessionNext, Main
<1>. QED
  BY <1>1, <1>2

LEMMA SessionInvariance == SessionSpec => []SessionInv
<1>1. SessionSpec => []Inv
  BY SessionUsesQueue, Invariance, PTL
<1>. QED
  BY <1>1, SessionInitially, SessionInvStep, PTL DEF SessionSpec

(* pending_count_ counts the calls under way, but for the one just started, *)
(* and the callers of calls that ended; the types are right.                *)
THEOREM SessionTypesCorrect == SessionSpec => []SessionTypeOK
<1>1. SessionInv => SessionTypeOK
  BY DEF SessionInv
<1>. QED
  BY <1>1, SessionInvariance, PTL

(* NotifyDisconnection writes only to an open pipe, and an enabled channel  *)
(* that anything still refers to has one, whichever thread destroys it.     *)
THEOREM PipeOutlivesWriters == SessionSpec => []EnabledPipeValid
<1>1. SessionInv => EnabledPipeValid
  BY DEF SessionInv
<1>. QED
  BY <1>1, SessionInvariance, PTL

(* on_disconnect is called once, when the worker of the channel the user    *)
(* held at the time has been joined and starts no call any more.            *)
THEOREM ToldOnceWhenQuiet == SessionSpec => []ToldOnce
<1>1. SessionInv => ToldOnce
  BY DEF SessionInv
<1>. QED
  BY <1>1, SessionInvariance, PTL
=============================================================================
