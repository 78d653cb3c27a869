----------------------- MODULE ResourceContainerProofs -----------------------
(***************************************************************************)
(* The container of the virtual objects and the lock of its vectors.       *)
(*                                                                         *)
(* The lock excludes and loses no wake-up, for any finite sets of readers  *)
(* and writers, however many threads write.  Its four invariants are       *)
(* inductive together: exclusion needs the counters to count the threads   *)
(* they are about, and the counters stay right because of exclusion.       *)
(*                                                                         *)
(* For any set of resources a lookup in the container finds what is live,  *)
(* and a frame shows it, although neither takes both locks at once.  The   *)
(* strengthening follows a live resource through the two vectors: it is in *)
(* one of them, a lookup that has passed the first finds it in the second, *)
(* and the resources a frame owes move towards being visited.              *)
(***************************************************************************)
EXTENDS ResourceContainer, ReadersWriterLock, FiniteSetTheorems, TLAPS

-----------------------------------------------------------------------------
(* The readers-writer lock *)

LockInv == LockTypeOK /\ CountersAgree /\ MutualExclusion /\ NoLostWakeUp

(* A set of threads is finite and has a natural number of members. *)
LEMMA ThreadsFinite ==
    ASSUME NEW S, S \subseteq Thread
    PROVE  IsFiniteSet(S) /\ Cardinality(S) \in Nat /\ (Cardinality(S) = 0 <=> S = {})
<1>1. IsFiniteSet(S)
  BY ThreadAssumption, FS_Subset
<1>. QED
  BY <1>1, FS_CardinalityType, FS_EmptySet

(* How the number of members changes when one thread joins or leaves. *)
LEMMA Joins ==
    ASSUME NEW S, S \subseteq Thread, NEW t \in Thread, t \notin S
    PROVE  Cardinality(S \cup {t}) = Cardinality(S) + 1
  BY ThreadsFinite, FS_AddElement

LEMMA Leaves ==
    ASSUME NEW S, S \subseteq Thread, NEW t \in S
    PROVE  Cardinality(S \ {t}) = Cardinality(S) - 1
  BY ThreadsFinite, FS_RemoveElement

LEMMA LockInitially == LockInit => LockInv
<1>. SUFFICES ASSUME LockInit PROVE LockInv
  OBVIOUS
<1>1. LockTypeOK
  BY DEF LockInit, LockTypeOK
<1>2. Reading = {} /\ WantWrite = {} /\ Writing = {}
  BY DEF LockInit, Reading, WantWrite, Writing
<1>3. CountersAgree
  BY <1>2, FS_EmptySet DEF LockInit, CountersAgree
<1>4. MutualExclusion /\ NoLostWakeUp
  BY DEF LockInit, MutualExclusion, NoLostWakeUp
<1>. QED
  BY <1>1, <1>3, <1>4 DEF LockInv

(* The readers and writers there are, when the counters say there are none. *)
LEMMA NoReaders == ASSUME LockInv, readers = 0 PROVE Reading = {}
<1>1. Reading \subseteq Thread
  BY DEF Reading
<1>. QED
  BY <1>1, ThreadsFinite DEF LockInv, CountersAgree

LEMMA ReadSteps ==
    ASSUME LockInv, NEW t \in Thread, Read(t)
    PROVE  LockInv'
<1>. USE DEF LockInv
<1>0. /\ Reading \subseteq Thread /\ WantWrite \subseteq Thread
      /\ Writing \subseteq Thread
  BY DEF Reading, WantWrite, Writing
<1>1. CASE StartRead(t)
  <2>1. LockTypeOK'
    BY <1>1 DEF LockTypeOK, StartRead
  <2>2. Reading' = Reading \cup {t} /\ t \notin Reading
    BY <1>1 DEF LockTypeOK, StartRead, Evaluates, Reading
  <2>3. WantWrite' = WantWrite /\ Writing' = Writing
    BY <1>1 DEF LockTypeOK, StartRead, Evaluates, WantWrite, Writing
  <2>4. CountersAgree'
    BY <1>0, <1>1, <2>2, <2>3, Joins DEF CountersAgree, StartRead
  <2>5. Writing = {}
    BY <1>1 DEF StartRead, CanRead, CountersAgree
  <2>6. MutualExclusion'
    BY <2>3, <2>5 DEF MutualExclusion, Writing
  <2>7. NoLostWakeUp'
    BY <1>1 DEF LockTypeOK, NoLostWakeUp, StartRead, CanRead, CanWrite, Evaluates
  <2>. QED
    BY <2>1, <2>4, <2>6, <2>7
<1>2. CASE WaitRead(t)
  <2>1. LockTypeOK'
    BY <1>2 DEF LockTypeOK, WaitRead
  <2>2. Reading' = Reading /\ WantWrite' = WantWrite /\ Writing' = Writing
    BY <1>2 DEF LockTypeOK, WaitRead, Evaluates, Reading, WantWrite, Writing
  <2>3. CountersAgree'
    BY <1>2, <2>2 DEF CountersAgree, WaitRead
  <2>4. MutualExclusion'
    BY <1>2 DEF LockTypeOK, MutualExclusion, WaitRead
  <2>5. NoLostWakeUp'
    BY <1>2 DEF LockTypeOK, NoLostWakeUp, WaitRead, CanRead, CanWrite, Evaluates
  <2>. QED
    BY <2>1, <2>3, <2>4, <2>5
<1>3. CASE EndRead(t)
  <2>1. t \in Reading
    BY <1>3 DEF EndRead, Reading
  <2>2. readers \in Nat \ {0}
    BY <1>0, <2>1, ThreadsFinite DEF CountersAgree
  <2>3. LockTypeOK'
    BY <1>3, <2>2 DEF LockTypeOK, EndRead, NotifyAllIf
  <2>4. Reading' = Reading \ {t}
    BY <1>3 DEF LockTypeOK, EndRead, Reading
  <2>5. WantWrite' = WantWrite /\ Writing' = Writing
    BY <1>3 DEF LockTypeOK, EndRead, WantWrite, Writing
  <2>6. CountersAgree'
    BY <1>0, <1>3, <2>1, <2>4, <2>5, Leaves DEF CountersAgree, EndRead
  <2>7. MutualExclusion'
    BY <1>3 DEF LockTypeOK, MutualExclusion, EndRead
  <2>8. NoLostWakeUp'
    BY <1>3, <2>2 DEF LockTypeOK, NoLostWakeUp, EndRead, NotifyAllIf, CanRead,
                      CanWrite
  <2>. QED
    BY <2>3, <2>6, <2>7, <2>8
<1>. QED
  BY <1>1, <1>2, <1>3 DEF Read

LEMMA WriteSteps ==
    ASSUME LockInv, NEW t \in Thread, Write(t)
    PROVE  LockInv'
<1>. USE DEF LockInv
<1>0. /\ Reading \subseteq Thread /\ WantWrite \subseteq Thread
      /\ Writing \subseteq Thread
  BY DEF Reading, WantWrite, Writing
<1>1. CASE StartWrite(t)
  <2>1. Reading = {} /\ Writing = {}
    BY <1>1, NoReaders DEF StartWrite, CanWrite, CountersAgree
  <2>2. Reading' = Reading
    BY <1>1 DEF LockTypeOK, StartWrite, Evaluates, Reading
  <2>3. Writing' = {t}
    BY <1>1, <2>1 DEF LockTypeOK, StartWrite, Writing
  <2>4. /\ waiting' = Cardinality(WantWrite')
        /\ waiting' \in Nat
    <3>1. CASE pc[t] = "wantWrite"
      <4>1. t \in WantWrite /\ WantWrite' = WantWrite \ {t}
        BY <1>1, <3>1 DEF LockTypeOK, StartWrite, WantWrite
      <4>2. Cardinality(WantWrite) # 0
        BY <1>0, <4>1, ThreadsFinite
      <4>. QED
        BY <1>0, <1>1, <3>1, <4>1, <4>2, Leaves
        DEF LockTypeOK, CountersAgree, StartWrite
    <3>2. CASE pc[t] # "wantWrite"
      <4>1. WantWrite' = WantWrite
        BY <1>1, <3>2 DEF LockTypeOK, StartWrite, WantWrite
      <4>. QED
        BY <1>1, <3>2, <4>1 DEF LockTypeOK, CountersAgree, StartWrite
    <3>. QED
      BY <3>1, <3>2
  <2>5. LockTypeOK'
    BY <1>1, <2>4 DEF LockTypeOK, StartWrite
  <2>6. CountersAgree'
    BY <1>1, <2>2, <2>3, <2>4 DEF CountersAgree, StartWrite
  <2>7. MutualExclusion'
    BY <2>1, <2>2, <2>3 DEF MutualExclusion, Reading, Writing
  <2>8. NoLostWakeUp'
    BY <1>1 DEF LockTypeOK, NoLostWakeUp, StartWrite, CanRead, CanWrite, Evaluates
  <2>. QED
    BY <2>5, <2>6, <2>7, <2>8
<1>2. CASE WaitWrite(t)
  <2>1. Reading' = Reading /\ Writing' = Writing
    BY <1>2 DEF LockTypeOK, WaitWrite, Evaluates, Reading, Writing
  <2>2. /\ waiting' = Cardinality(WantWrite')
        /\ waiting' \in Nat
    <3>1. CASE pc[t] = "out"
      <4>1. t \notin WantWrite /\ WantWrite' = WantWrite \cup {t}
        BY <1>2, <3>1 DEF LockTypeOK, WaitWrite, WantWrite
      <4>. QED
        BY <1>0, <1>2, <3>1, <4>1, Joins DEF LockTypeOK, CountersAgree, WaitWrite
    <3>2. CASE pc[t] # "out"
      <4>1. WantWrite' = WantWrite
        BY <1>2, <3>2 DEF LockTypeOK, WaitWrite, Evaluates, WantWrite
      <4>. QED
        BY <1>2, <3>2, <4>1 DEF LockTypeOK, CountersAgree, WaitWrite
    <3>. QED
      BY <3>1, <3>2
  <2>3. LockTypeOK'
    BY <1>2, <2>2 DEF LockTypeOK, WaitWrite
  <2>4. CountersAgree'
    BY <1>2, <2>1, <2>2 DEF CountersAgree, WaitWrite
  <2>5. MutualExclusion'
    BY <1>2 DEF LockTypeOK, MutualExclusion, WaitWrite
  <2>6. NoLostWakeUp'
    BY <1>2 DEF LockTypeOK, NoLostWakeUp, WaitWrite, CanRead, CanWrite, Evaluates
  <2>. QED
    BY <2>3, <2>4, <2>5, <2>6
<1>3. CASE EndWrite(t)
  <2>1. LockTypeOK'
    BY <1>3 DEF LockTypeOK, EndWrite, NotifyAllIf
  <2>2. Reading' = Reading /\ WantWrite' = WantWrite
    BY <1>3 DEF LockTypeOK, EndWrite, Reading, WantWrite
  <2>3. Writing' = {}
    BY <1>3 DEF LockTypeOK, EndWrite, MutualExclusion, Writing
  <2>4. CountersAgree'
    BY <1>3, <2>2, <2>3 DEF CountersAgree, EndWrite
  <2>5. MutualExclusion'
    BY <2>3 DEF MutualExclusion, Writing
  <2>6. NoLostWakeUp'
    BY <1>3 DEF NoLostWakeUp, EndWrite, NotifyAllIf
  <2>. QED
    BY <2>1, <2>4, <2>5, <2>6
<1>. QED
  BY <1>1, <1>2, <1>3 DEF Write

LEMMA WakeUpStep ==
    ASSUME LockInv, NEW t \in Thread, SpuriousWakeUp(t)
    PROVE  LockInv'
  BY DEF LockInv, SpuriousWakeUp, LockTypeOK, CountersAgree, MutualExclusion,
         NoLostWakeUp, Reading, WantWrite, Writing, CanRead, CanWrite

LEMMA Stutters == LockInv /\ UNCHANGED lockVars => LockInv'
  BY DEF LockInv, lockVars, LockTypeOK, CountersAgree, MutualExclusion, NoLostWakeUp,
         Reading, WantWrite, Writing, CanRead, CanWrite

LEMMA LockStep == LockInv /\ [LockNext]_lockVars => LockInv'
<1>1. Reader \subseteq Thread /\ Writer \subseteq Thread
  BY DEF Thread
<1>. QED
  BY <1>1, ReadSteps, WriteSteps, WakeUpStep, Stutters DEF LockNext

(* The invariant holds in every reachable state of the lock. *)
LEMMA LockInvariance == LockSpec => []LockInv
  BY LockInitially, LockStep, PTL DEF LockSpec

(* The counters the conditions are computed from count the threads that     *)
(* read and that wait to write.                                             *)
THEOREM CountersCorrect == LockSpec => [](LockTypeOK /\ CountersAgree)
<1>1. LockInv => LockTypeOK /\ CountersAgree
  BY DEF LockInv
<1>. QED
  BY <1>1, LockInvariance, PTL

(* A writer has the lock alone: what a container does under its write lock  *)
(* is one step for every other thread.                                      *)
THEOREM LockExcludes == LockSpec => []MutualExclusion
<1>1. LockInv => MutualExclusion
  BY DEF LockInv
<1>. QED
  BY <1>1, LockInvariance, PTL

(* No thread sleeps while the condition it waits for holds, although only   *)
(* EndRead of the last reader and EndWrite notify.                          *)
THEOREM LockWakes == LockSpec => []NoLostWakeUp
<1>1. LockInv => NoLostWakeUp
  BY DEF LockInv
<1>. QED
  BY <1>1, LockInvariance, PTL

-----------------------------------------------------------------------------
(* The container *)

Live == added \ scheduled

Stored == Live \subseteq fresh \cup resident

Searched == lookup \in Live => lookup \in resident

Owed == due \ scheduled \subseteq CASE frame = "idle"  -> visited
                                    [] frame = "merge" -> fresh \cup resident
                                    [] OTHER           -> resident

Inv == TypeOK /\ Stored /\ Searched /\ Owed /\ GetFindsLive

LEMMA InitInv == Init => Inv
  BY IdAssumption
  DEF Init, Inv, TypeOK, Stored, Searched, Owed, GetFindsLive, Live, NoAnswer

LEMMA NextInv == Inv /\ [Next]_vars => Inv'
<1>. SUFFICES ASSUME Inv, [Next]_vars PROVE Inv'
  OBVIOUS
<1>. USE IdAssumption DEF Inv
<1>1. ASSUME NEW id \in Id, Add(id) PROVE Inv'
  <2>1. TypeOK'
    BY <1>1 DEF Add, TypeOK, NoAnswer, renderVars
  <2>2. Stored' /\ Searched' /\ GetFindsLive'
    BY <1>1, <2>1 DEF Add, TypeOK, Stored, Searched, GetFindsLive, Live,
                      NoAnswer
  <2>3. Owed'
    BY <1>1 DEF Add, Owed, renderVars
  <2>. QED
    BY <2>1, <2>2, <2>3
<1>2. ASSUME NEW id \in Id, ScheduleRemove(id) PROVE Inv'
  <2>1. TypeOK'
    BY <1>2 DEF ScheduleRemove, TypeOK, NoAnswer, renderVars
  <2>2. Stored' /\ Searched' /\ GetFindsLive'
    BY <1>2, <2>1 DEF ScheduleRemove, TypeOK, Stored, Searched, GetFindsLive,
                      Live, NoAnswer
  <2>3. Owed'
    BY <1>2 DEF ScheduleRemove, Owed, renderVars
  <2>. QED
    BY <2>1, <2>2, <2>3
<1>3. ASSUME NEW id \in Id, GetFromFirst(id) PROVE Inv'
  <2>1. UNCHANGED <<fresh, resident, removeSet, frame, visited, due, added,
                    scheduled>>
    BY <1>3 DEF GetFromFirst, containerVars, renderVars, historyVars
  <2>2. \/ answer' = <<id, "found">> /\ lookup' = lookup
        \/ id \notin fresh /\ lookup' = id /\ answer' = NoAnswer
    BY <1>3 DEF GetFromFirst, SearchOrder
  <2>3. TypeOK'
    BY <2>1, <2>2 DEF TypeOK, NoAnswer
  <2>4. Stored' /\ Searched' /\ GetFindsLive'
    BY <2>1, <2>2, <2>3 DEF TypeOK, Stored, Searched, GetFindsLive, Live,
                            NoAnswer
  <2>5. Owed'
    BY <2>1 DEF Owed
  <2>. QED
    BY <2>3, <2>4, <2>5
<1>4. CASE GetFromSecond
  <2>1. UNCHANGED <<fresh, resident, removeSet, frame, visited, due, added,
                    scheduled>> /\ lookup' = NoId
    BY <1>4 DEF GetFromSecond, containerVars, renderVars, historyVars
  <2>2. answer' = <<lookup, IF lookup \in resident THEN "found"
                                                   ELSE "dangling">>
    BY <1>4 DEF GetFromSecond, SearchOrder
  <2>3. TypeOK'
    BY <2>1, <2>2 DEF TypeOK
  <2>4. Stored' /\ Searched' /\ GetFindsLive'
    BY <2>1, <2>2, <2>3 DEF TypeOK, Stored, Searched, GetFindsLive, Live
  <2>5. Owed'
    BY <2>1 DEF Owed
  <2>. QED
    BY <2>3, <2>4, <2>5
<1>5. ASSUME BeginForEach \/ Merge \/ Prune \/ EndForEach
                \/ \E id \in Id : Visit(id)
      PROVE  Inv'
  <2>1. UNCHANGED <<lookup, answer, added, scheduled>>
    BY <1>5 DEF BeginForEach, Merge, Prune, EndForEach, Visit, historyVars
  <2>2. CASE BeginForEach
    BY <2>1, <2>2 DEF BeginForEach, containerVars, TypeOK, Stored, Searched,
                      Owed, GetFindsLive, Live
  <2>3. CASE Merge
    BY <2>1, <2>3 DEF Merge, TypeOK, Stored, Searched, Owed, GetFindsLive, Live
  <2>4. CASE Prune
    BY <2>1, <2>4 DEF Prune, TypeOK, Stored, Searched, Owed, GetFindsLive, Live
  <2>5. CASE EndForEach
    BY <2>1, <2>5 DEF EndForEach, containerVars, TypeOK, Stored, Searched,
                      Owed, GetFindsLive, Live
  <2>6. ASSUME NEW id \in Id, Visit(id) PROVE Inv'
    BY <2>1, <2>6 DEF Visit, containerVars, TypeOK, Stored, Searched, Owed,
                      GetFindsLive, Live
  <2>. QED
    BY <1>5, <2>2, <2>3, <2>4, <2>5, <2>6
<1>6. CASE UNCHANGED vars
  BY <1>6 DEF vars, TypeOK, Stored, Searched, Owed, GetFindsLive, Live
<1>. QED
  BY <1>1, <1>2, <1>3, <1>4, <1>5, <1>6 DEF Next

LEMMA Invariance == Spec => []Inv
  BY InitInv, NextInv, PTL DEF Spec

(* The variables keep their types, and no resource is in both vectors.      *)
THEOREM TypeCorrect == Spec => []TypeOK
<1>1. Inv => TypeOK
  BY DEF Inv
<1>. QED
  BY <1>1, Invariance, PTL

(* A resource that was added and not removed is found, whichever step of    *)
(* ForEach falls between the two searches of Get.                           *)
THEOREM LookupFindsLive == Spec => []GetFindsLive
<1>1. Inv => GetFindsLive
  BY DEF Inv
<1>. QED
  BY <1>1, Invariance, PTL

(* A frame passes every resource that was live all along to the renderer.   *)
THEOREM FrameIsComplete == Spec => []FrameShowsLive
<1>1. Inv => FrameShowsLive
  BY DEF Inv, Owed, FrameShowsLive
<1>. QED
  BY <1>1, Invariance, PTL

(* After the merge, what new_resources_ holds was added since the frame     *)
(* began.                                                                   *)
FreshIsNew == frame = "prune" => fresh \cap due = {}

LEMMA FreshStaysNew == Spec => []FreshIsNew
<1>1. Init => FreshIsNew
  BY DEF Init, FreshIsNew
<1>2. Inv /\ FreshIsNew /\ [Next]_vars => FreshIsNew'
  <2>. SUFFICES ASSUME Inv, FreshIsNew, [Next]_vars PROVE FreshIsNew'
    OBVIOUS
  <2>1. ASSUME NEW id \in Id, Add(id) PROVE FreshIsNew'
    BY <2>1 DEF Add, FreshIsNew, Inv, TypeOK, renderVars
  <2>2. ASSUME NEW id \in Id, ScheduleRemove(id) \/ GetFromFirst(id)
        PROVE  FreshIsNew'
    BY <2>2 DEF ScheduleRemove, GetFromFirst, FreshIsNew, containerVars, renderVars
  <2>3. CASE GetFromSecond \/ UNCHANGED vars
    BY <2>3 DEF GetFromSecond, FreshIsNew, containerVars, renderVars, vars
  <2>4. CASE BeginForEach \/ Merge \/ Prune \/ EndForEach
    BY <2>4 DEF BeginForEach, Merge, Prune, EndForEach, FreshIsNew
  <2>5. ASSUME NEW id \in Id, Visit(id) PROVE FreshIsNew'
    BY <2>5 DEF Visit, FreshIsNew
  <2>. QED
    BY <2>1, <2>2, <2>3, <2>4, <2>5 DEF Next
<1>. QED
  BY <1>1, <1>2, Invariance, PTL DEF Spec

(* A removal is forgotten only for a resource added and removed between the *)
(* two critical sections of ForEach; every other one takes the resource out.*)
THEOREM RemovalsTakeEffect == Spec => RemovalForgottenOnlyIfNew
<1>. DEFINE TakesEffect == \A id \in removeSet \ removeSet' :
                 id \in fresh' \cup resident' => id \in fresh' \ due'
<1>1. Inv /\ FreshIsNew /\ [Next]_vars => [TakesEffect]_vars
  <2>. SUFFICES ASSUME Inv, FreshIsNew, Next PROVE TakesEffect
    OBVIOUS
  <2>1. CASE Prune
    BY <2>1 DEF Prune, FreshIsNew
  <2>2. ASSUME NEW id \in Id,
               Add(id) \/ ScheduleRemove(id) \/ GetFromFirst(id) \/ Visit(id)
        PROVE  TakesEffect
    BY <2>2 DEF Add, ScheduleRemove, GetFromFirst, Visit, containerVars
  <2>3. CASE GetFromSecond \/ BeginForEach \/ Merge \/ EndForEach
    BY <2>3 DEF GetFromSecond, BeginForEach, Merge, EndForEach, containerVars
  <2>. QED
    BY <2>1, <2>2, <2>3 DEF Next
<1>. QED
  BY <1>1, Invariance, FreshStaysNew, PTL DEF Spec, RemovalForgottenOnlyIfNew
=============================================================================
