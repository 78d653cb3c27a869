------------------------- MODULE AtomicCommandQueue -------------------------
(***************************************************************************)
(* The queue between the threads that change the client's resources and    *)
(* the thread that renders them (client/atomic-command-queue.h).  Commands *)
(* are pushed one by one and committed as a group; Remote::UpdateScene     *)
(* executes the groups committed so far, one by one, releasing the queue's *)
(* mutex around every command.                                             *)
(*                                                                         *)
(* `log` is everything ever put into queue_, and the queue is what follows *)
(* the first `popped` entries.  A command is named by its place in `log`.  *)
(* The mutex mtx_ makes each of its critical sections one action; exec_mtx_*)
(* is held over several, by `executor`.                                    *)
(***************************************************************************)
EXTENDS Integers, Sequences, FiniteSets

CONSTANTS
    Committer,  \* threads that push commands and commit them
    Releaser,   \* threads that only push: a resource's destructor
    Renderer,   \* threads that call UpdateScene
    Commit,     \* the entry of a commit (is_commit_command)
    None,       \* no thread
    MaxLog      \* bound of the model: entries ever queued

ASSUME ThreadAssumption == /\ None \notin Renderer
                           /\ Commit \notin Committer \cup Releaser
ASSUME BoundAssumption == MaxLog \in Nat

VARIABLES
    log,            \* the entries pushed: a commit, or who pushed a command
    popped,         \* how many entries have left the queue
    commitCount,    \* commit_count_
    executor,       \* who holds exec_mtx_
    running,        \* the executor is between Execute and pop_front
    budget,         \* per renderer, the groups its UpdateScene has left
    executed,       \* history: the commands executed
    cancelled,      \* history: the commands cancelled by the destructor
    destroyed       \* the queue is gone

vars == <<log, popped, commitCount, executor, running, budget, executed,
          cancelled, destroyed>>

Producer == Committer \cup Releaser
Entry == Producer \cup {Commit}

IsCommit(i) == log[i] = Commit
Commands == {i \in 1..Len(log) : ~IsCommit(i)}
Queued == (popped + 1)..Len(log)
QueuedCommits == {i \in Queued : IsCommit(i)}
Front == popped + 1

Init == /\ log = <<>>
        /\ popped = 0
        /\ commitCount = 0
        /\ executor = None
        /\ running = FALSE
        /\ budget = [r \in Renderer |-> 0]
        /\ executed = <<>>
        /\ cancelled = {}
        /\ destroyed = FALSE

-----------------------------------------------------------------------------
Push(p) == /\ ~destroyed
           /\ Len(log) < MaxLog
           /\ log' = Append(log, p)
           /\ UNCHANGED <<popped, commitCount, executor, running, budget,
                          executed, cancelled, destroyed>>

(* Mutant of CommitGroup: the count is forgotten. *)
CommitGroup_NoCount ==
    /\ ~destroyed
    /\ Len(log) < MaxLog
    /\ log' = Append(log, Commit)
    /\ UNCHANGED <<popped, commitCount, executor, running, budget, executed,
                   cancelled, destroyed>>

(* AtomicCommandQueue::Commit.  Only a committer calls it, after its pushes. *)
CommitGroup ==
    /\ ~destroyed
    /\ Len(log) < MaxLog
    /\ log' = Append(log, Commit)
    /\ commitCount' = commitCount + 1
    /\ UNCHANGED <<popped, executor, running, budget, executed, cancelled,
                   destroyed>>

(* Remote::UpdateScene reads commit_count() once, so that commits made while *)
(* it works do not keep it from returning.                                   *)
BeginUpdate(r) ==
    /\ ~destroyed
    /\ budget[r] = 0
    /\ commitCount > 0
    /\ budget' = [budget EXCEPT ![r] = commitCount]
    /\ UNCHANGED <<log, popped, commitCount, executor, running, executed,
                   cancelled, destroyed>>

(* Mutant of LockExecution: the count is not read under exec_mtx_. *)
LockExecution_NoCheck(r) == budget[r] > 0 /\ executor = None

(* ExecuteOnce takes exec_mtx_ and finds a group to execute ... *)
LockExecution(r) == budget[r] > 0 /\ executor = None /\ commitCount > 0

BeginExecute(r) ==
    /\ LockExecution(r)
    /\ executor' = r
    /\ UNCHANGED <<log, popped, commitCount, running, budget, executed,
                   cancelled, destroyed>>

(* ... or returns false, which ends UpdateScene: another renderer was first. *)
GiveUp(r) ==
    /\ budget[r] > 0
    /\ executor = None
    /\ commitCount = 0
    /\ budget' = [budget EXCEPT ![r] = 0]
    /\ UNCHANGED <<log, popped, commitCount, executor, running, executed,
                   cancelled, destroyed>>

(* The front of the queue is a command: it runs with mtx_ released. *)
ExecuteFront(r) ==
    /\ executor = r
    /\ ~running
    /\ Front \in Commands
    /\ executed' = Append(executed, Front)
    /\ running' = TRUE
    /\ UNCHANGED <<log, popped, commitCount, executor, budget, cancelled,
                   destroyed>>

(* Mutant of PopFront: the command is left in the queue. *)
PopFront_Keeps(r) ==
    /\ executor = r
    /\ running
    /\ running' = FALSE
    /\ UNCHANGED <<log, popped, commitCount, executor, budget, executed,
                   cancelled, destroyed>>

PopFront(r) ==
    /\ executor = r
    /\ running
    /\ popped' = popped + 1
    /\ running' = FALSE
    /\ UNCHANGED <<log, commitCount, executor, budget, executed, cancelled,
                   destroyed>>

(* Mutant of ReachCommit: the marker stays in the queue's front. *)
ReachCommit_NoPop(r) ==
    /\ executor = r
    /\ ~running
    /\ Front \in QueuedCommits
    /\ commitCount' = commitCount - 1
    /\ executor' = None
    /\ budget' = [budget EXCEPT ![r] = @ - 1]
    /\ UNCHANGED <<log, popped, running, executed, cancelled, destroyed>>

(* The front of the queue is a commit: ExecuteOnce returns true. *)
ReachCommit(r) ==
    /\ executor = r
    /\ ~running
    /\ Front \in QueuedCommits
    /\ commitCount' = commitCount - 1
    /\ popped' = popped + 1
    /\ executor' = None
    /\ budget' = [budget EXCEPT ![r] = @ - 1]
    /\ UNCHANGED <<log, running, executed, cancelled, destroyed>>

(* Mutant of Destroy: one entry too many is popped. *)
Destroy_PopsTooMany ==
    /\ ~destroyed
    /\ \A r \in Renderer : budget[r] = 0
    /\ cancelled' = Queued \cap Commands
    /\ popped' = Len(log) + 1
    /\ destroyed' = TRUE
    /\ UNCHANGED <<log, commitCount, executor, running, budget, executed>>

(* The destructor: the remote's other threads are done with the queue. *)
Destroy ==
    /\ ~destroyed
    /\ \A r \in Renderer : budget[r] = 0
    /\ cancelled' = Queued \cap Commands
    /\ popped' = Len(log)
    /\ destroyed' = TRUE
    /\ UNCHANGED <<log, commitCount, executor, running, budget, executed>>

-----------------------------------------------------------------------------
Execution(r) == \/ BeginExecute(r) \/ GiveUp(r)
                \/ ExecuteFront(r) \/ PopFront(r) \/ ReachCommit(r)

Next == \/ \E p \in Producer : Push(p)
        \/ Committer # {} /\ CommitGroup
        \/ \E r \in Renderer : BeginUpdate(r) \/ Execution(r)
        \/ Destroy

Spec == Init /\ [][Next]_vars

(* Renderers finish the UpdateScene they are in, and call it for every frame. *)
Fairness == \A r \in Renderer : WF_vars(BeginUpdate(r) \/ Execution(r))

LiveSpec == Spec /\ Fairness

-----------------------------------------------------------------------------
(* Properties *)

TypeOK ==
    /\ log \in Seq(Entry)
    /\ popped \in 0..Len(log)
    /\ commitCount \in Nat
    /\ executor \in Renderer \cup {None}
    /\ running \in BOOLEAN
    /\ budget \in [Renderer -> Nat]
    /\ executed \in Seq(Nat)
    /\ cancelled \subseteq 1..Len(log)
    /\ destroyed \in BOOLEAN

(* commit_count_ counts the commits still in the queue, so a thread inside  *)
(* ExecuteOnce always has a commit ahead of it: ExecuteOnce never looks at  *)
(* the front of an empty list, though others push and commit between its    *)
(* critical sections and other renderers wait to execute.                   *)
ExecutorFindsCommit ==
    executor # None => QueuedCommits # {} /\ (running => Front \in Commands)

(* "The pushed commands will not be executed until they are committed":     *)
(* every command executed was followed by a commit when it ran.             *)
OnlyCommittedExecuted ==
    \A i \in 1..Len(executed) :
       \E j \in 1..Len(log) : executed[i] < j /\ IsCommit(j)

(* The commands are executed in the order they were pushed, each once: the  *)
(* commands executed so far are those that left the queue, plus the one     *)
(* whose executor has not popped it yet.  Nothing cancelled was executed.   *)
ExecutedOnceInOrder ==
    LET ran == {executed[i] : i \in 1..Len(executed)}
    IN  /\ \A i, j \in 1..Len(executed) : i < j => executed[i] < executed[j]
        /\ ran = {i \in Commands : i <= popped + IF running THEN 1 ELSE 0}
                   \ cancelled
        /\ ran \cap cancelled = {}

(* "This handles those commands atomically": whenever no thread is inside   *)
(* ExecuteOnce, that is whenever a scene can be rendered, the commands      *)
(* executed are whole groups.                                               *)
WholeGroupsExecuted ==
    executor = None /\ ~destroyed => popped = 0 \/ IsCommit(popped)

(* A committed command is executed, however many pushes and commits of      *)
(* other threads fall between its executor's critical sections, or the      *)
(* queue is destroyed.                                                      *)
CommittedIsExecuted ==
    \A i \in 1..MaxLog :
       (i <= Len(log) /\ \E j \in i..Len(log) : IsCommit(j))
         ~> (i <= popped \/ destroyed)
=============================================================================
