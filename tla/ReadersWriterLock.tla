-------------------------- MODULE ReadersWriterLock --------------------------
(***************************************************************************)
(* core/readers-writer-lock.cc: a "writer-preferring readers-writer lock"  *)
(* made of a mutex and one condition variable.  Every critical section of  *)
(* the mutex is one action.  A thread that finds its condition false sleeps*)
(* on the condition variable until a notify_all, or a spurious wake-up,    *)
(* lets it look again.                                                     *)
(***************************************************************************)
EXTENDS Integers, FiniteSets

CONSTANTS
    Reader,     \* threads that take the lock for reading
    Writer      \* threads that take it for writing; may overlap Reader

Thread == Reader \cup Writer

ASSUME ThreadAssumption == IsFiniteSet(Thread)

VARIABLES
    readers,    \* active_reader_count_
    waiting,    \* waiting_writer_count_
    writing,    \* writer_active_
    pc,         \* what each thread does with the lock
    asleep      \* the threads blocked in cond_.wait

lockVars == <<readers, waiting, writing, pc, asleep>>

LockInit == /\ readers = 0
            /\ waiting = 0
            /\ writing = FALSE
            /\ pc = [t \in Thread |-> "out"]
            /\ asleep = {}

(* Mutant of CanRead: no preference for writers. *)
CanRead_NoPreference == ~writing

(* Mutant of CanWrite: readers are not waited for. *)
CanWrite_IgnoresReaders == ~writing

(* The conditions the threads wait for. *)
CanRead == waiting = 0 /\ ~writing
CanWrite == readers = 0 /\ ~writing

(* The thread is about to evaluate its condition: for the first time, or    *)
(* again after it was woken.                                                *)
Evaluates(t, want) == pc[t] = "out" \/ (pc[t] = want /\ t \notin asleep)

(* Mutant of StartRead: the reader is not counted. *)
StartRead_NotCounted(t) ==
    /\ Evaluates(t, "wantRead")
    /\ CanRead
    /\ pc' = [pc EXCEPT ![t] = "reading"]
    /\ UNCHANGED <<readers, waiting, writing, asleep>>

StartRead(t) ==
    /\ Evaluates(t, "wantRead")
    /\ CanRead
    /\ readers' = readers + 1
    /\ pc' = [pc EXCEPT ![t] = "reading"]
    /\ UNCHANGED <<waiting, writing, asleep>>

WaitRead(t) ==
    /\ Evaluates(t, "wantRead")
    /\ ~CanRead
    /\ pc' = [pc EXCEPT ![t] = "wantRead"]
    /\ asleep' = asleep \cup {t}
    /\ UNCHANGED <<readers, waiting, writing>>

(* Mutant of NotifyAllIf: nobody is woken. *)
NotifyAllIf_Forgotten(condition) == asleep' = asleep

NotifyAllIf(condition) == asleep' = IF condition THEN {} ELSE asleep

EndRead(t) ==
    /\ pc[t] = "reading"
    /\ readers' = readers - 1
    /\ NotifyAllIf(readers = 1)
    /\ pc' = [pc EXCEPT ![t] = "out"]
    /\ UNCHANGED <<waiting, writing>>

StartWrite(t) ==
    /\ Evaluates(t, "wantWrite")
    /\ CanWrite
    /\ waiting' = IF pc[t] = "wantWrite" THEN waiting - 1 ELSE waiting
    /\ writing' = TRUE
    /\ pc' = [pc EXCEPT ![t] = "writing"]
    /\ UNCHANGED <<readers, asleep>>

WaitWrite(t) ==
    /\ Evaluates(t, "wantWrite")
    /\ ~CanWrite
    /\ waiting' = IF pc[t] = "out" THEN waiting + 1 ELSE waiting
    /\ pc' = [pc EXCEPT ![t] = "wantWrite"]
    /\ asleep' = asleep \cup {t}
    /\ UNCHANGED <<readers, writing>>

EndWrite(t) ==
    /\ pc[t] = "writing"
    /\ writing' = FALSE
    /\ NotifyAllIf(TRUE)
    /\ pc' = [pc EXCEPT ![t] = "out"]
    /\ UNCHANGED <<readers, waiting>>

(* A condition variable may wake a thread without a notification. *)
SpuriousWakeUp(t) ==
    /\ t \in asleep
    /\ asleep' = asleep \ {t}
    /\ UNCHANGED <<readers, waiting, writing, pc>>

Read(t) == StartRead(t) \/ WaitRead(t) \/ EndRead(t)
Write(t) == StartWrite(t) \/ WaitWrite(t) \/ EndWrite(t)

LockNext == \/ \E t \in Reader : Read(t)
            \/ \E t \in Writer : Write(t)
            \/ \E t \in Thread : SpuriousWakeUp(t)

LockSpec == LockInit /\ [][LockNext]_lockVars

(* A thread that asked for the lock evaluates its condition once it is      *)
(* woken, and lets the lock go in the end: the guards are scopes around a   *)
(* search, an update or a frame, and the mutexes taken inside are never     *)
(* held while waiting for this lock.  No thread has to ask for the lock,    *)
(* and no spurious wake-up has to happen.                                   *)
LockFairness ==
    /\ \A t \in Reader :
          WF_lockVars(pc[t] \in {"wantRead", "reading"} /\ Read(t))
    /\ \A t \in Writer :
          WF_lockVars(pc[t] \in {"wantWrite", "writing"} /\ Write(t))

LockLiveSpec == LockSpec /\ LockFairness

-----------------------------------------------------------------------------
(* Properties *)

Reading == {t \in Thread : pc[t] = "reading"}
Writing == {t \in Thread : pc[t] = "writing"}
WantWrite == {t \in Thread : pc[t] = "wantWrite"}

(* Types; a counter of the lock is never decremented below zero. *)
LockTypeOK ==
    /\ readers \in Nat
    /\ waiting \in Nat
    /\ writing \in BOOLEAN
    /\ pc \in [Thread -> {"out", "wantRead", "reading", "wantWrite", "writing"}]
    /\ asleep \subseteq Thread

(* active_reader_count_ and waiting_writer_count_ count the threads that    *)
(* read and that wait to write, however often these were woken in vain.     *)
CountersAgree ==
    /\ readers = Cardinality(Reading)
    /\ waiting = Cardinality(WantWrite)
    /\ writing <=> Writing # {}

(* While a thread writes, no other thread reads or writes: the containers'  *)
(* vectors and maps are never read while they are changed.                  *)
MutualExclusion ==
    \A t, u \in Thread :
       pc[t] = "writing" /\ u # t => pc[u] \notin {"reading", "writing"}

(* No wake-up is lost: a thread sleeps only while its condition is false,   *)
(* although EndRead notifies only when the last reader leaves and BeginWrite*)
(* changes what readers wait for without notifying anyone.                  *)
NoLostWakeUp ==
    \A t \in asleep : \/ pc[t] = "wantRead" /\ ~CanRead
                      \/ pc[t] = "wantWrite" /\ ~CanWrite

(* Readers that keep coming do not keep a lone writer out: it is "writer-   *)
(* preferring".  Every lock of the client has one writing thread.           *)
WriterGetsIn == \A t \in Writer : pc[t] = "wantWrite" ~> pc[t] = "writing"
=============================================================================
