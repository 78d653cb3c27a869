------------------------------ MODULE JobQueue ------------------------------
(***************************************************************************)
(* server/job-queue.cc: the queue of one server-side channel and its worker*)
(* thread.  The user's threads push jobs; Channel::Disable terminates the  *)
(* queue and joins the worker, which cancels what is left.                 *)
(*                                                                         *)
(* Each critical section of queue_mtx_ is one action.  The notification    *)
(* that follows a push or a termination is an action of its own, because   *)
(* the mutex is released before it.  A job is named by the number of jobs  *)
(* accepted before it.                                                     *)
(***************************************************************************)
EXTENDS Integers, Sequences

CONSTANTS
    Pusher,     \* threads that push jobs
    MaxJobs     \* bound of the model: jobs pushed

ASSUME BoundAssumption == MaxJobs \in Nat

VARIABLES
    running,    \* running_
    queue,      \* queue_
    worker,     \* where the worker thread is
    notifying,  \* the pushers between queue_.push and cond_.notify_one
    closer,     \* where the thread that calls Terminate is
    accepted,   \* history: how many jobs entered the queue
    refused,    \* history: how many jobs Push cancelled
    performed,  \* history: the jobs performed, in order
    cancelled   \* history: the jobs the worker cancelled, in order

vars == <<running, queue, worker, notifying, closer, accepted, refused,
          performed, cancelled>>
histories == <<accepted, refused, performed, cancelled>>

(* The constructor of Channel starts the worker before anyone can push. *)
Init == /\ running = TRUE
        /\ queue = <<>>
        /\ worker = "evaluate"
        /\ notifying = {}
        /\ closer = "idle"
        /\ accepted = 0
        /\ refused = 0
        /\ performed = <<>>
        /\ cancelled = <<>>

-----------------------------------------------------------------------------
(* Mutant of NotifyOne: the notification is forgotten. *)
NotifyOne_Forgotten == worker' = worker

(* cond_.notify_one: only the worker waits on cond_. *)
NotifyOne == worker' = IF worker = "asleep" THEN "evaluate" ELSE worker

(* Push enqueues the job; the notification follows. *)
Push(p) ==
    /\ p \notin notifying
    /\ accepted + refused < MaxJobs
    /\ running
    /\ queue' = Append(queue, accepted)
    /\ accepted' = accepted + 1
    /\ notifying' = notifying \cup {p}
    /\ UNCHANGED <<running, worker, closer, refused, performed, cancelled>>

NotifyPush(p) ==
    /\ p \in notifying
    /\ notifying' = notifying \ {p}
    /\ NotifyOne
    /\ UNCHANGED <<running, queue, closer, histories>>

(* After the termination Push cancels the job itself.  The worker keeps the *)
(* mutex while it drains the queue.                                         *)
PushRefused(p) ==
    /\ p \notin notifying
    /\ accepted + refused < MaxJobs
    /\ ~running
    /\ worker # "drain"
    /\ refused' = refused + 1
    /\ UNCHANGED <<running, queue, worker, notifying, closer, accepted,
                   performed, cancelled>>

-----------------------------------------------------------------------------
(* The worker evaluates the condition of its wait, holding the mutex. *)
Sleep ==
    /\ worker = "evaluate"
    /\ queue = <<>>
    /\ running
    /\ worker' = "asleep"
    /\ UNCHANGED <<running, queue, notifying, closer, histories>>

(* It takes the front of the queue and performs it with the mutex released; *)
(* the job stays in the queue until it is done.                             *)
Perform ==
    /\ worker = "evaluate"
    /\ queue # <<>>
    /\ running
    /\ worker' = "perform"
    /\ performed' = Append(performed, Head(queue))
    /\ UNCHANGED <<running, queue, notifying, closer, accepted, refused,
                   cancelled>>

(* Mutant of Pop: the job that was performed stays in front. *)
Pop_Keeps ==
    /\ worker = "perform"
    /\ worker' = "evaluate"
    /\ UNCHANGED <<running, queue, notifying, closer, histories>>

Pop ==
    /\ worker = "perform"
    /\ queue' = Tail(queue)
    /\ worker' = "evaluate"
    /\ UNCHANGED <<running, notifying, closer, histories>>

StopLoop ==
    /\ worker = "evaluate"
    /\ ~running
    /\ worker' = "drain"
    /\ UNCHANGED <<running, queue, notifying, closer, histories>>

CancelFront ==
    /\ worker = "drain"
    /\ queue # <<>>
    /\ cancelled' = Append(cancelled, Head(queue))
    /\ queue' = Tail(queue)
    /\ UNCHANGED <<running, worker, notifying, closer, accepted, refused,
                   performed>>

Exit ==
    /\ worker = "drain"
    /\ queue = <<>>
    /\ worker' = "exited"
    /\ UNCHANGED <<running, queue, notifying, closer, histories>>

SpuriousWakeUp ==
    /\ worker = "asleep"
    /\ worker' = "evaluate"
    /\ UNCHANGED <<running, queue, notifying, closer, histories>>

-----------------------------------------------------------------------------
(* Terminate.  Channel::Disable calls it under Channel::mtx_ and at most    *)
(* once with an effect, so one caller is enough here.                       *)
Terminate ==
    /\ closer = "idle"
    /\ worker # "drain"
    /\ running' = FALSE
    /\ closer' = "notify"
    /\ UNCHANGED <<queue, worker, notifying, histories>>

NotifyTermination ==
    /\ closer = "notify"
    /\ closer' = "join"
    /\ NotifyOne
    /\ UNCHANGED <<running, queue, notifying, histories>>

(* Mutant of Join: the worker is not waited for. *)
Join_NoWait ==
    /\ closer = "join"
    /\ closer' = "returned"
    /\ UNCHANGED <<running, queue, worker, notifying, histories>>

Join ==
    /\ closer = "join"
    /\ worker = "exited"
    /\ closer' = "returned"
    /\ UNCHANGED <<running, queue, worker, notifying, histories>>

-----------------------------------------------------------------------------
Worker == Sleep \/ Perform \/ Pop \/ StopLoop \/ CancelFront \/ Exit
Closer == Terminate \/ NotifyTermination \/ Join

Next == \/ \E p \in Pusher : Push(p) \/ NotifyPush(p) \/ PushRefused(p)
        \/ Worker \/ SpuriousWakeUp \/ Closer

Spec == Init /\ [][Next]_vars

(* The worker and the threads that are inside Push or Terminate go on; jobs *)
(* return (each starts an asynchronous call).  Nobody has to push or to     *)
(* terminate, and no spurious wake-up has to happen.                        *)
Fairness ==
    /\ WF_vars(Worker)
    /\ \A p \in Pusher : WF_vars(NotifyPush(p))
    /\ WF_vars(NotifyTermination \/ Join)

LiveSpec == Spec /\ Fairness

-----------------------------------------------------------------------------
(* Properties *)

(* Types, and the worker's reference to the front of queue_ stays valid     *)
(* while it performs the job with the mutex released.                       *)
TypeOK ==
    /\ running \in BOOLEAN
    /\ queue \in Seq(Nat)
    /\ worker \in {"evaluate", "asleep", "perform", "drain", "exited"}
    /\ notifying \subseteq Pusher
    /\ closer \in {"idle", "notify", "join", "returned"}
    /\ accepted \in Nat
    /\ refused \in Nat
    /\ performed \in Seq(Nat)
    /\ cancelled \in Seq(Nat)
    /\ worker = "perform" => queue # <<>>

(* The job the worker performs, which is still in the queue's front. *)
InHand == IF worker = "perform" THEN 1 ELSE 0

(* "Jobs are performed in the order they are pushed" (job.h), each at most  *)
(* once, and a job is cancelled only if it was not performed: the jobs      *)
(* performed, the jobs cancelled and the rest of the queue are, in this     *)
(* order, all the jobs accepted.                                            *)
EachJobOnceInOrder ==
    LET rest == SubSeq(queue, 1 + InHand, Len(queue))
        all == performed \o cancelled \o rest
    IN  /\ Len(all) = accepted
        /\ \A i \in 1..accepted : all[i] = i - 1

(* When Terminate returns, every accepted job was performed or cancelled    *)
(* ("any jobs remaining in the queue are canceled"), and the worker, which  *)
(* uses the queue's memory, is gone: Channel may be destroyed.              *)
TerminateSettles ==
    closer = "returned" =>
       /\ worker = "exited"
       /\ Len(performed) + Len(cancelled) = accepted

(* No notification is lost between the release of the mutex and notify_one: *)
(* every job pushed is performed or cancelled, and Terminate returns.       *)
EveryJobSettles ==
    /\ \A n \in 1..MaxJobs :
          accepted >= n ~> Len(performed) + Len(cancelled) >= n
    /\ closer = "notify" ~> closer = "returned"
=============================================================================
