---------------------- MODULE AtomicCommandQueueProofs ----------------------
(***************************************************************************)
(* For any number of threads and entries: AtomicCommandQueue executes each *)
(* committed command once, in order, in whole groups, and its executor     *)
(* never meets an empty queue.                                             *)
(*                                                                         *)
(* The strengthening says what commit_count_ counts, and that a thread that*)
(* is inside ExecuteOnce is inside UpdateScene and has a commit left.      *)
(***************************************************************************)
EXTENDS AtomicCommandQueue, FiniteSetTheorems, SequenceTheorems, TLAPS

Ran == {executed[i] : i \in 1..Len(executed)}

(* The entries executed so far, or being executed, have these places. *)
Reached == popped + IF running THEN 1 ELSE 0

Counted == ~destroyed => commitCount = Cardinality(QueuedCommits)

Busy == /\ executor # None => budget[executor] > 0 /\ commitCount > 0
        /\ running => executor # None /\ Front \in Commands

Ended == /\ destroyed => \A r \in Renderer : budget[r] = 0
         /\ ~destroyed => cancelled = {}

InOrder == \A i, j \in 1..Len(executed) : i < j => executed[i] < executed[j]

Exact == /\ Ran = {i \in Commands : i <= Reached} \ cancelled
         /\ Ran \cap cancelled = {}

Inv == TypeOK /\ Counted /\ Busy /\ Ended /\ OnlyCommittedExecuted /\ InOrder
         /\ Exact /\ WholeGroupsExecuted

-----------------------------------------------------------------------------
LEMMA QueueFacts ==
    ASSUME TypeOK
    PROVE  /\ Len(log) \in Nat /\ popped \in Nat /\ popped <= Len(log)
           /\ Len(executed) \in Nat
           /\ Front \in Nat \ {0}
           /\ IsFiniteSet(QueuedCommits)
           /\ Cardinality(QueuedCommits) \in Nat
           /\ QueuedCommits # {} <=> Cardinality(QueuedCommits) > 0
           /\ Ran \subseteq Nat
           /\ \A i \in 1..Len(executed) : executed[i] \in Ran
<1>1. /\ Len(log) \in Nat /\ popped \in Nat /\ popped <= Len(log)
      /\ Len(executed) \in Nat /\ Front \in Nat \ {0}
  BY LenProperties DEF TypeOK, Front
<1>2. IsFiniteSet(Queued)
  BY <1>1, FS_Interval DEF Queued
<1>3. IsFiniteSet(QueuedCommits)
  BY <1>2, FS_Subset DEF QueuedCommits
<1>4. /\ Cardinality(QueuedCommits) \in Nat
      /\ Cardinality(QueuedCommits) = 0 <=> QueuedCommits = {}
  BY <1>3, FS_CardinalityType, FS_EmptySet
<1>5. \A i \in 1..Len(executed) : executed[i] \in Ran /\ executed[i] \in Nat
  BY ElementOfSeq DEF TypeOK, Ran
<1>. QED
  BY <1>1, <1>3, <1>4, <1>5 DEF Ran

(* A new entry at the end of the log changes nothing before it. *)
LEMMA AppendEntry ==
    ASSUME TypeOK, NEW e \in Entry, log' = Append(log, e), popped' = popped
    PROVE  /\ log' \in Seq(Entry)
           /\ Len(log') = Len(log) + 1
           /\ \A i \in 1..Len(log) : log'[i] = log[i]
           /\ log'[Len(log) + 1] = e
           /\ e = Commit =>
                 /\ Commands' = Commands
                 /\ QueuedCommits' = QueuedCommits \cup {Len(log) + 1}
           /\ e # Commit =>
                 /\ Commands' = Commands \cup {Len(log) + 1}
                 /\ QueuedCommits' = QueuedCommits
           /\ Len(log) + 1 \notin QueuedCommits
           /\ Front' = Front
<1>1. /\ log \in Seq(Entry) /\ Len(log) \in Nat /\ popped \in Nat
      /\ popped <= Len(log)
  BY QueueFacts DEF TypeOK
<1>2. /\ log' \in Seq(Entry)
      /\ Len(log') = Len(log) + 1
      /\ \A i \in 1..Len(log) : log'[i] = log[i]
      /\ log'[Len(log) + 1] = e
  BY <1>1, AppendProperties
<1>3. Commands' = IF e = Commit THEN Commands ELSE Commands \cup {Len(log) + 1}
  <2>1. 1..Len(log') = 1..Len(log) \cup {Len(log) + 1}
    BY <1>1, <1>2
  <2>2. Commands' = {i \in 1..Len(log') : ~(log'[i] = Commit)}
    BY DEF Commands, IsCommit
  <2>. QED
    BY <1>2, <2>1, <2>2 DEF Commands, IsCommit
<1>4. QueuedCommits' = IF e = Commit THEN QueuedCommits \cup {Len(log) + 1}
                                     ELSE QueuedCommits
  <2>1. Queued' = Queued \cup {Len(log) + 1} /\ Queued \subseteq 1..Len(log)
    BY <1>1, <1>2 DEF Queued
  <2>. QED
    BY <1>2, <2>1 DEF QueuedCommits, IsCommit
<1>5. Len(log) + 1 \notin QueuedCommits
  BY <1>1 DEF QueuedCommits, Queued
<1>. QED
  BY <1>2, <1>3, <1>4, <1>5 DEF Front

LEMMA InitInv == Init => Inv
<1>. SUFFICES ASSUME Init PROVE Inv
  OBVIOUS
<1>1. Len(<<>>) = 0 /\ <<>> \in Seq(Entry) /\ <<>> \in Seq(Nat)
  BY EmptySeq
<1>2. TypeOK
  <2>1. popped \in 0..Len(log) /\ log \in Seq(Entry) /\ executed \in Seq(Nat)
    BY <1>1 DEF Init
  <2>2. commitCount \in Nat /\ budget \in [Renderer -> Nat]
    BY DEF Init
  <2>. QED
    BY <2>1, <2>2 DEF Init, TypeOK
<1>3. QueuedCommits = {} /\ Commands = {} /\ Ran = {}
  BY <1>1 DEF Init, QueuedCommits, Queued, Commands, Ran
<1>4. Counted
  BY <1>3, FS_EmptySet DEF Init, Counted
<1>. QED
  BY <1>1, <1>2, <1>3, <1>4
  DEF Init, Inv, Busy, Ended, OnlyCommittedExecuted, InOrder, Exact,
      WholeGroupsExecuted

(* Pushing an entry, of either kind. *)
LEMMA AppendInv ==
    ASSUME Inv, NEW e \in Entry, log' = Append(log, e), ~destroyed,
           commitCount' = IF e = Commit THEN commitCount + 1 ELSE commitCount,
           UNCHANGED <<popped, executor, running, budget, executed, cancelled,
                       destroyed>>
    PROVE  Inv'
<1>1. TypeOK
  BY DEF Inv
<1>2. /\ log' \in Seq(Entry)
      /\ Len(log') = Len(log) + 1
      /\ \A i \in 1..Len(log) : log'[i] = log[i]
      /\ e = Commit =>
            /\ Commands' = Commands
            /\ QueuedCommits' = QueuedCommits \cup {Len(log) + 1}
      /\ e # Commit =>
            /\ Commands' = Commands \cup {Len(log) + 1}
            /\ QueuedCommits' = QueuedCommits
      /\ Len(log) + 1 \notin QueuedCommits
      /\ Front' = Front
  BY <1>1, AppendEntry
<1>3. /\ Len(log) \in Nat /\ popped \in Nat /\ popped <= Len(log)
      /\ IsFiniteSet(QueuedCommits) /\ Cardinality(QueuedCommits) \in Nat
      /\ Front \in Nat
  BY <1>1, QueueFacts
<1>4. commitCount' \in Nat /\ commitCount' >= commitCount
  BY <1>1 DEF TypeOK
<1>5. TypeOK'
  BY <1>1, <1>2, <1>3, <1>4 DEF TypeOK
<1>6. Counted'
  <2>1. CASE e = Commit
    BY <1>2, <1>3, <2>1, FS_AddElement DEF Inv, Counted
  <2>2. CASE e # Commit
    BY <1>2, <2>2 DEF Inv, Counted
  <2>. QED
    BY <2>1, <2>2
<1>7. Busy'
  <2>1. Front \in Commands => Front' \in Commands'
    BY <1>2
  <2>2. commitCount > 0 => commitCount' > 0
    BY <1>1, <1>4 DEF TypeOK
  <2>. QED
    BY <2>1, <2>2 DEF Inv, Busy
<1>8. Ended' /\ InOrder'
  BY DEF Inv, Ended, InOrder
<1>9. OnlyCommittedExecuted'
  <2>. SUFFICES ASSUME NEW i \in 1..Len(executed)
                PROVE  \E j \in 1..Len(log') : executed[i] < j /\ IsCommit(j)'
    BY DEF OnlyCommittedExecuted
  <2>1. PICK j \in 1..Len(log) : executed[i] < j /\ IsCommit(j)
    BY DEF Inv, OnlyCommittedExecuted
  <2>2. j \in 1..Len(log') /\ IsCommit(j)'
    BY <1>2, <1>3, <2>1 DEF IsCommit
  <2>. QED
    BY <2>1, <2>2
<1>10. Exact'
  <2>1. Ran' = Ran /\ Reached' = Reached
    BY DEF Ran, Reached
  <2>2. Reached \in Nat /\ Reached <= Len(log)
    BY <1>1, <1>3 DEF TypeOK, Reached, Inv, Busy, Commands, Front
  <2>3. ~(Len(log) + 1 <= Reached)
    BY <1>3, <2>2
  <2>4. {i \in Commands' : i <= Reached} = {i \in Commands : i <= Reached}
    BY <1>2, <2>3
  <2>. QED
    BY <2>1, <2>4 DEF Inv, Exact
<1>11. WholeGroupsExecuted'
  BY <1>2, <1>3 DEF Inv, WholeGroupsExecuted, IsCommit
<1>. QED
  BY <1>5, <1>6, <1>7, <1>8, <1>9, <1>10, <1>11 DEF Inv

-----------------------------------------------------------------------------
(* The steps of a renderer and the destructor *)

(* Taking exec_mtx_, or the bookkeeping of UpdateScene. *)
LEMMA RendererInv ==
    ASSUME Inv, NEW r \in Renderer,
           BeginUpdate(r) \/ BeginExecute(r) \/ GiveUp(r)
    PROVE  Inv'
<1>1. /\ UNCHANGED <<log, popped, commitCount, running, executed, cancelled,
                     destroyed>>
      /\ TypeOK /\ r # None
  BY ThreadAssumption DEF BeginUpdate, BeginExecute, GiveUp, Inv
<1>2. /\ budget' \in [Renderer -> Nat] /\ executor' \in Renderer \cup {None}
      /\ executor' # None => budget'[executor'] > 0 /\ commitCount > 0
      /\ running => executor' # None
      /\ executor' = None => executor = None
      /\ destroyed => \A q \in Renderer : budget'[q] = 0
  <2>1. CASE BeginUpdate(r)
    BY <1>1, <2>1 DEF BeginUpdate, TypeOK, Inv, Busy, Ended
  <2>2. CASE BeginExecute(r)
    BY <1>1, <2>2 DEF BeginExecute, LockExecution, TypeOK, Inv, Busy, Ended
  <2>3. CASE GiveUp(r)
    BY <1>1, <2>3 DEF GiveUp, TypeOK, Inv, Busy, Ended
  <2>. QED
    BY <2>1, <2>2, <2>3
<1>3. TypeOK'
  BY <1>1, <1>2 DEF TypeOK
<1>4. /\ QueuedCommits' = QueuedCommits /\ Commands' = Commands
      /\ Front' = Front /\ Ran' = Ran /\ Reached' = Reached
  BY <1>1 DEF QueuedCommits, Queued, IsCommit, Commands, Front, Ran, Reached
<1>5. Counted' /\ Busy' /\ Ended'
  BY <1>1, <1>2, <1>4 DEF Inv, Counted, Busy, Ended
<1>6. OnlyCommittedExecuted' /\ InOrder' /\ Exact'
  BY <1>1, <1>4 DEF Inv, OnlyCommittedExecuted, IsCommit, InOrder, Exact
<1>7. WholeGroupsExecuted'
  BY <1>1, <1>2 DEF Inv, WholeGroupsExecuted, IsCommit
<1>. QED
  BY <1>3, <1>5, <1>6, <1>7 DEF Inv

(* The executor has a commit ahead of it. *)
LEMMA CommitAhead ==
    ASSUME Inv, executor # None
    PROVE  /\ QueuedCommits # {} /\ ~destroyed /\ executor \in Renderer
           /\ budget[executor] \in Nat \ {0} /\ commitCount \in Nat \ {0}
           /\ cancelled = {}
<1>1. TypeOK
  BY DEF Inv
<1>2. /\ executor \in Renderer /\ budget[executor] \in Nat \ {0}
      /\ commitCount \in Nat \ {0}
  BY <1>1 DEF TypeOK, Inv, Busy
<1>3. ~destroyed
  BY <1>2 DEF Inv, Ended
<1>4. QueuedCommits # {}
  BY <1>1, <1>2, <1>3, QueueFacts DEF Inv, Counted
<1>. QED
  BY <1>2, <1>3, <1>4 DEF Inv, Ended

LEMMA ExecuteFrontInv ==
    ASSUME Inv, NEW r \in Renderer, ExecuteFront(r)
    PROVE  Inv'
<1>1. /\ executor = r /\ ~running /\ Front \in Commands /\ running'
      /\ executed' = Append(executed, Front)
      /\ UNCHANGED <<log, popped, commitCount, executor, budget, cancelled,
                     destroyed>>
      /\ executor # None /\ TypeOK
  BY ThreadAssumption DEF ExecuteFront, Inv
<1>2. QueuedCommits # {} /\ ~destroyed /\ cancelled = {}
  BY <1>1, CommitAhead
<1>3. /\ Len(log) \in Nat /\ popped \in Nat /\ popped <= Len(log)
      /\ Len(executed) \in Nat /\ Front \in Nat /\ executed \in Seq(Nat)
      /\ \A i \in 1..Len(executed) : executed[i] \in Ran
  BY <1>1, QueueFacts DEF TypeOK
<1>4. /\ executed' \in Seq(Nat) /\ Len(executed') = Len(executed) + 1
      /\ \A i \in 1..Len(executed) : executed'[i] = executed[i]
      /\ executed'[Len(executed) + 1] = Front
  BY <1>1, <1>3, AppendProperties
<1>5. TypeOK'
  BY <1>1, <1>4 DEF TypeOK, ExecuteFront
<1>6. /\ QueuedCommits' = QueuedCommits /\ Commands' = Commands
      /\ Front' = Front
  BY <1>1 DEF QueuedCommits, Queued, IsCommit, Commands, Front
<1>7. Counted' /\ Busy' /\ Ended'
  BY <1>1, <1>6 DEF Inv, Counted, Busy, Ended
<1>8. \A i \in 1..Len(executed) : executed[i] < Front
  <2>1. \A n \in Ran : n <= popped
    BY <1>1, <1>2, <1>3 DEF Inv, Exact, Reached
  <2>2. \A i \in 1..Len(executed) : executed[i] \in Nat
    BY <1>3, ElementOfSeq
  <2>. QED
    BY <1>3, <2>1, <2>2 DEF Front
<1>9. InOrder'
  <2>. SUFFICES ASSUME NEW i \in 1..Len(executed'), NEW j \in 1..Len(executed'),
                       i < j
                PROVE  executed'[i] < executed'[j]
    BY DEF InOrder
  <2>1. i \in 1..Len(executed)
    BY <1>3, <1>4
  <2>2. CASE j = Len(executed) + 1
    BY <1>4, <1>8, <2>1, <2>2
  <2>3. CASE j \in 1..Len(executed)
    BY <1>4, <2>1, <2>3 DEF Inv, InOrder
  <2>4. j \in 1..(Len(executed) + 1)
    BY <1>4
  <2>5. j = Len(executed) + 1 \/ j \in 1..Len(executed)
    BY <1>3, <2>4
  <2>. QED
    BY <2>2, <2>3, <2>5
<1>10. OnlyCommittedExecuted'
  <2>. SUFFICES ASSUME NEW i \in 1..Len(executed')
                PROVE  \E j \in 1..Len(log) : executed'[i] < j /\ IsCommit(j)
    BY <1>1 DEF OnlyCommittedExecuted, IsCommit
  <2>1. CASE i \in 1..Len(executed)
    BY <1>4, <2>1 DEF Inv, OnlyCommittedExecuted
  <2>2. CASE i = Len(executed) + 1
    <3>1. PICK j \in QueuedCommits : TRUE
      BY <1>2
    <3>2. /\ j \in 1..Len(log) /\ IsCommit(j) /\ Front <= j
      BY <1>3, <3>1 DEF QueuedCommits, Queued, Front
    <3>3. j # Front
      BY <1>1, <3>2 DEF Commands
    <3>4. Front < j
      BY <1>3, <3>2, <3>3
    <3>. QED
      BY <1>4, <2>2, <3>2, <3>4
  <2>. QED
    BY <1>3, <1>4, <2>1, <2>2
<1>11. Exact'
  <2>1. Ran' = Ran \cup {Front}
    <3>1. 1..Len(executed') = 1..Len(executed) \cup {Len(executed) + 1}
      BY <1>3, <1>4
    <3>2. Ran' = {executed'[i] : i \in 1..Len(executed')}
      BY DEF Ran
    <3>. QED
      BY <1>4, <3>1, <3>2 DEF Ran
  <2>2. Reached' = Front /\ Reached = popped
    BY <1>1, <1>3 DEF Reached, Front
  <2>3. {i \in Commands : i <= Front}
           = {i \in Commands : i <= popped} \cup {Front}
    BY <1>1, <1>3 DEF Commands, Front
  <2>. QED
    BY <1>1, <1>2, <1>6, <2>1, <2>2, <2>3 DEF Inv, Exact
<1>12. WholeGroupsExecuted'
  BY <1>1 DEF WholeGroupsExecuted
<1>. QED
  BY <1>5, <1>7, <1>9, <1>10, <1>11, <1>12 DEF Inv

LEMMA PopFrontInv ==
    ASSUME Inv, NEW r \in Renderer, PopFront(r)
    PROVE  Inv'
<1>1. /\ executor = r /\ running /\ ~running' /\ popped' = popped + 1
      /\ UNCHANGED <<log, commitCount, executor, budget, executed, cancelled,
                     destroyed>>
      /\ executor # None /\ TypeOK /\ running' \in BOOLEAN
      /\ Front \in Commands
  BY ThreadAssumption DEF PopFront, Inv, Busy
<1>2. Len(log) \in Nat /\ popped \in Nat /\ popped <= Len(log)
  BY <1>1, QueueFacts
<1>3. popped + 1 <= Len(log) /\ popped + 1 \in Nat
  BY <1>1, <1>2 DEF Commands, Front
<1>4. TypeOK'
  BY <1>1, <1>2, <1>3 DEF TypeOK
<1>5. Commands' = Commands /\ Ran' = Ran /\ Reached' = Reached
  BY <1>1, <1>2 DEF Commands, IsCommit, Ran, Reached
<1>6. QueuedCommits' = QueuedCommits
  <2>1. Queued' = Queued \ {Front} /\ ~IsCommit(Front)
    BY <1>1, <1>2, <1>3 DEF Queued, Front, Commands
  <2>. QED
    BY <1>1, <2>1 DEF QueuedCommits, IsCommit
<1>7. Counted' /\ Busy' /\ Ended'
  BY <1>1, <1>6 DEF Inv, Counted, Busy, Ended
<1>8. OnlyCommittedExecuted' /\ InOrder' /\ Exact' /\ WholeGroupsExecuted'
  BY <1>1, <1>5 DEF Inv, OnlyCommittedExecuted, IsCommit, InOrder, Exact,
                    WholeGroupsExecuted
<1>. QED
  BY <1>4, <1>7, <1>8 DEF Inv

LEMMA ReachCommitInv ==
    ASSUME Inv, NEW r \in Renderer, ReachCommit(r)
    PROVE  Inv'
<1>1. /\ executor = r /\ ~running /\ popped' = popped + 1
      /\ executor' = None /\ commitCount' = commitCount - 1
      /\ budget' = [budget EXCEPT ![r] = @ - 1]
      /\ UNCHANGED <<log, running, executed, cancelled, destroyed>>
      /\ executor # None /\ TypeOK /\ Front \in QueuedCommits
  BY ThreadAssumption DEF ReachCommit, Inv
<1>2. /\ ~destroyed /\ budget[r] \in Nat \ {0} /\ commitCount \in Nat \ {0}
  BY <1>1, CommitAhead
<1>3. /\ Len(log) \in Nat /\ popped \in Nat /\ popped <= Len(log)
      /\ IsFiniteSet(QueuedCommits)
  BY <1>1, QueueFacts
<1>4. popped + 1 <= Len(log) /\ popped + 1 \in Nat /\ Front \notin Commands
  BY <1>1, <1>3 DEF QueuedCommits, Queued, Front, Commands
<1>5. TypeOK'
  BY <1>1, <1>2, <1>3, <1>4 DEF TypeOK
<1>6. QueuedCommits' = QueuedCommits \ {Front}
  <2>1. Queued' = Queued \ {Front}
    BY <1>1, <1>3, <1>4 DEF Queued, Front
  <2>. QED
    BY <1>1, <2>1 DEF QueuedCommits, IsCommit
<1>7. Counted'
  <2>1. Cardinality(QueuedCommits \ {Front}) = Cardinality(QueuedCommits) - 1
    BY <1>1, <1>3, FS_RemoveElement
  <2>. QED
    BY <1>1, <1>2, <1>6, <2>1 DEF Inv, Counted
<1>8. Busy' /\ Ended'
  BY <1>1, <1>2 DEF Inv, Busy, Ended
<1>9. OnlyCommittedExecuted' /\ InOrder'
  BY <1>1 DEF Inv, OnlyCommittedExecuted, IsCommit, InOrder
<1>10. Exact'
  <2>1. Commands' = Commands /\ Ran' = Ran
    BY <1>1 DEF Commands, IsCommit, Ran
  <2>2. Reached = popped /\ Reached' = popped + 1
    BY <1>1, <1>3 DEF Reached
  <2>3. {i \in Commands : i <= popped + 1} = {i \in Commands : i <= popped}
    <3>1. ASSUME NEW i \in Commands PROVE i <= popped + 1 <=> i <= popped
      <4>1. i \in Nat /\ i # popped + 1
        BY <1>3, <1>4 DEF Commands, Front
      <4>. QED
        BY <1>3, <4>1
    <3>. QED
      BY <3>1
  <2>. QED
    BY <1>1, <2>1, <2>2, <2>3 DEF Inv, Exact
<1>11. WholeGroupsExecuted'
  BY <1>1 DEF WholeGroupsExecuted, QueuedCommits, IsCommit, Front
<1>. QED
  BY <1>5, <1>7, <1>8, <1>9, <1>10, <1>11 DEF Inv

LEMMA DestroyInv ==
    ASSUME Inv, Destroy
    PROVE  Inv'
<1>1. /\ ~destroyed /\ destroyed' /\ popped' = Len(log)
      /\ cancelled' = Queued \cap Commands
      /\ \A r \in Renderer : budget[r] = 0
      /\ UNCHANGED <<log, commitCount, executor, running, budget, executed>>
      /\ TypeOK /\ destroyed' \in BOOLEAN
  BY DEF Destroy, Inv
<1>2. executor = None /\ ~running
  <2>1. executor = None
    <3>. SUFFICES ASSUME executor # None PROVE FALSE
      OBVIOUS
    <3>. QED
      BY <1>1, CommitAhead
  <2>. QED
    BY <2>1 DEF Inv, Busy
<1>3. Len(log) \in Nat /\ popped \in Nat /\ popped <= Len(log)
  BY <1>1, QueueFacts
<1>4. TypeOK'
  BY <1>1, <1>3 DEF TypeOK, Queued, Commands
<1>5. Counted' /\ Busy' /\ Ended' /\ WholeGroupsExecuted'
  BY <1>1, <1>2 DEF Counted, Busy, Ended, WholeGroupsExecuted
<1>6. OnlyCommittedExecuted' /\ InOrder'
  BY <1>1 DEF Inv, OnlyCommittedExecuted, IsCommit, InOrder
<1>7. Exact'
  <2>1. Commands' = Commands /\ Ran' = Ran /\ Commands \subseteq 1..Len(log)
    BY <1>1 DEF Commands, IsCommit, Ran
  <2>2. Reached = popped /\ Reached' = Len(log)
    BY <1>1, <1>2, <1>3 DEF Reached
  <2>3. Ran = {i \in Commands : i <= popped}
    BY <1>1, <2>2 DEF Inv, Exact, Ended
  <2>4. Ran = {i \in Commands : i <= Len(log)} \ (Queued \cap Commands)
    <3>1. ASSUME NEW i \in Commands
          PROVE  i <= popped <=> i <= Len(log) /\ i \notin Queued
      <4>1. i \in 1..Len(log)
        BY <2>1
      <4>. QED
        BY <1>3, <4>1 DEF Queued
    <3>. QED
      BY <2>3, <3>1
  <2>5. Ran \cap (Queued \cap Commands) = {}
    BY <1>3, <2>3 DEF Queued
  <2>. QED
    BY <1>1, <2>1, <2>2, <2>4, <2>5 DEF Exact
<1>. QED
  BY <1>4, <1>5, <1>6, <1>7 DEF Inv

-----------------------------------------------------------------------------
LEMMA NextInv == Inv /\ [Next]_vars => Inv'
<1>. SUFFICES ASSUME Inv, [Next]_vars PROVE Inv'
  OBVIOUS
<1>1. ASSUME NEW p \in Producer, Push(p) PROVE Inv'
  <2>1. p \in Entry /\ p # Commit
    BY ThreadAssumption DEF Entry, Producer
  <2>. QED
    BY <1>1, <2>1, AppendInv DEF Push
<1>2. CASE CommitGroup
  <2>1. Commit \in Entry
    BY DEF Entry
  <2>. QED
    BY <1>2, <2>1, AppendInv DEF CommitGroup
<1>3. ASSUME NEW r \in Renderer, BeginUpdate(r) \/ Execution(r) PROVE Inv'
  BY <1>3, RendererInv, ExecuteFrontInv, PopFrontInv, ReachCommitInv
  DEF Execution
<1>4. CASE Destroy
  BY <1>4, DestroyInv
<1>5. CASE UNCHANGED vars
  BY <1>5 DEF vars, Inv, TypeOK, Counted, Busy, Ended, OnlyCommittedExecuted,
              InOrder, Exact, WholeGroupsExecuted, QueuedCommits, Queued,
              Commands, IsCommit, Front, Ran, Reached
<1>. QED
  BY <1>1, <1>2, <1>3, <1>4, <1>5 DEF Next

LEMMA Invariance == Spec => []Inv
  BY InitInv, NextInv, PTL DEF Spec

(* The variables keep their types; at most the whole log has left the queue.*)
THEOREM TypeCorrect == Spec => []TypeOK
<1>1. Inv => TypeOK
  BY DEF Inv
<1>. QED
  BY <1>1, Invariance, PTL

(* ExecuteOnce never looks at the front of an empty list.                   *)
THEOREM ExecutorNeverStuck == Spec => []ExecutorFindsCommit
<1>1. Inv => ExecutorFindsCommit
  BY CommitAhead DEF ExecutorFindsCommit, Inv, Busy
<1>. QED
  BY <1>1, Invariance, PTL

(* No command runs before it is committed.                                  *)
THEOREM CommittedFirst == Spec => []OnlyCommittedExecuted
<1>1. Inv => OnlyCommittedExecuted
  BY DEF Inv
<1>. QED
  BY <1>1, Invariance, PTL

(* Every command runs at most once and in the order pushed, and the         *)
(* destructor cancels exactly those that did not run.                       *)
THEOREM CommandsOnceInOrder == Spec => []ExecutedOnceInOrder
<1>1. Inv => ExecutedOnceInOrder
  BY DEF Inv, ExecutedOnceInOrder, InOrder, Exact, Ran, Reached
<1>. QED
  BY <1>1, Invariance, PTL

(* A scene rendered between two ExecuteOnce shows whole groups.             *)
THEOREM GroupsAreAtomic == Spec => []WholeGroupsExecuted
<1>1. Inv => WholeGroupsExecuted
  BY DEF Inv
<1>. QED
  BY <1>1, Invariance, PTL
=============================================================================
