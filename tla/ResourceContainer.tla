-------------------------- MODULE ResourceContainer --------------------------
(***************************************************************************)
(* The loop-intensive container that holds the client's virtual objects    *)
(* (client/resource-container.h).  The gRPC thread adds, looks up and      *)
(* removes them while the rendering thread goes through them; additions    *)
(* and removals are set aside and applied at the start of ForEach.         *)
(*                                                                         *)
(* Each critical section of the two mutexes is one action, and so is the   *)
(* search under the read lock.  ForEach holds the write lock over two      *)
(* actions: ReadersWriterLock shows that nothing reads resources_ then.    *)
(* A resource is named by its id, which is never used twice.               *)
(***************************************************************************)
EXTENDS FiniteSets

CONSTANTS
    Id,     \* the ids of resources
    NoId    \* no resource

ASSUME IdAssumption == NoId \notin Id

VARIABLES
    fresh,      \* new_resources_
    resident,   \* resources_
    removeSet,  \* remove_set_
    frame,      \* rendering thread: where ForEach is
    visited,    \* rendering thread: the resources ForEach passed to func
    due,        \* history: the resources added when ForEach began
    lookup,     \* gRPC thread: the id Get searches for in resources_
    answer,     \* gRPC thread: the id and outcome of the Get just finished
    added,      \* history: the resources added
    scheduled   \* history: the resources whose removal was scheduled

vars == <<fresh, resident, removeSet, frame, visited, due, lookup, answer,
          added, scheduled>>
containerVars == <<fresh, resident, removeSet>>
renderVars == <<frame, visited, due>>
historyVars == <<added, scheduled>>

NoAnswer == <<NoId, "null">>

Init == /\ fresh = {}
        /\ resident = {}
        /\ removeSet = {}
        /\ frame = "idle"
        /\ visited = {}
        /\ due = {}
        /\ lookup = NoId
        /\ answer = NoAnswer
        /\ added = {}
        /\ scheduled = {}

-----------------------------------------------------------------------------
(* The gRPC thread: one operation at a time *)

Add(id) ==
    /\ lookup = NoId
    /\ id \notin added
    /\ fresh' = fresh \cup {id}
    /\ added' = added \cup {id}
    /\ answer' = NoAnswer
    /\ UNCHANGED <<resident, removeSet, renderVars, lookup, scheduled>>

ScheduleRemove(id) ==
    /\ lookup = NoId
    /\ id \in added \ scheduled
    /\ removeSet' = removeSet \cup {id}
    /\ scheduled' = scheduled \cup {id}
    /\ answer' = NoAnswer
    /\ UNCHANGED <<fresh, resident, renderVars, lookup, added>>

(* Mutant of SearchOrder: resources_ first. *)
SearchOrder_Swapped == <<resident, fresh>>

(* "Search new_resources_ first, then resources_." *)
SearchOrder == <<fresh, resident>>

GetFromFirst(id) ==
    /\ lookup = NoId
    /\ IF id \in SearchOrder[1]
         THEN answer' = <<id, "found">> /\ UNCHANGED lookup
         ELSE lookup' = id /\ answer' = NoAnswer
    /\ UNCHANGED <<containerVars, renderVars, historyVars>>

(* The write lock is held from BeginWrite to the end of Prune. *)
WriteLocked == frame \in {"merge", "prune"}

(* An id that is not there: the iterator is compared with the end of the    *)
(* wrong vector, and the end of resources_ is dereferenced.                 *)
GetFromSecond ==
    /\ lookup # NoId
    /\ ~WriteLocked
    /\ answer' = <<lookup, IF lookup \in SearchOrder[2] THEN "found"
                                                        ELSE "dangling">>
    /\ lookup' = NoId
    /\ UNCHANGED <<containerVars, renderVars, historyVars>>

-----------------------------------------------------------------------------
(* The rendering thread *)

BeginForEach ==
    /\ frame = "idle"
    /\ frame' = "merge"
    /\ due' = added
    /\ visited' = {}
    /\ UNCHANGED <<containerVars, lookup, answer, historyVars>>

(* Mutants of Merge: new_resources_ is not cleared, or replaces resources_. *)
Merge_Copies ==
    /\ frame = "merge"
    /\ resident' = resident \cup fresh
    /\ frame' = "prune"
    /\ UNCHANGED <<fresh, removeSet, visited, due, lookup, answer, historyVars>>

Merge_Replaces ==
    /\ frame = "merge"
    /\ resident' = fresh
    /\ fresh' = {}
    /\ frame' = "prune"
    /\ UNCHANGED <<removeSet, visited, due, lookup, answer, historyVars>>

Merge ==
    /\ frame = "merge"
    /\ resident' = resident \cup fresh
    /\ fresh' = {}
    /\ frame' = "prune"
    /\ UNCHANGED <<removeSet, visited, due, lookup, answer, historyVars>>

(* Mutant of Prune: remove_set_ is cleared before it is applied. *)
Prune_ClearsFirst ==
    /\ frame = "prune"
    /\ removeSet' = {}
    /\ frame' = "visit"
    /\ UNCHANGED <<fresh, resident, visited, due, lookup, answer, historyVars>>

Prune ==
    /\ frame = "prune"
    /\ resident' = resident \ removeSet
    /\ removeSet' = {}
    /\ frame' = "visit"
    /\ UNCHANGED <<fresh, visited, due, lookup, answer, historyVars>>

(* std::for_each under the read lock: nothing takes the write lock of this  *)
(* container but ForEach itself.                                            *)
Visit(id) ==
    /\ frame = "visit"
    /\ id \in resident \ visited
    /\ visited' = visited \cup {id}
    /\ UNCHANGED <<containerVars, frame, due, lookup, answer, historyVars>>

EndForEach ==
    /\ frame = "visit"
    /\ resident \subseteq visited
    /\ frame' = "idle"
    /\ UNCHANGED <<containerVars, visited, due, lookup, answer, historyVars>>

-----------------------------------------------------------------------------
Next == \/ \E id \in Id : Add(id) \/ ScheduleRemove(id) \/ GetFromFirst(id)
        \/ GetFromSecond
        \/ BeginForEach \/ Merge \/ Prune \/ EndForEach
        \/ \E id \in Id : Visit(id)

Spec == Init /\ [][Next]_vars

-----------------------------------------------------------------------------
(* Properties *)

(* Types; a resource is in one of the two vectors, and in none before it is *)
(* added.                                                                   *)
TypeOK ==
    /\ fresh \subseteq added
    /\ resident \subseteq added \ fresh
    /\ removeSet \subseteq scheduled
    /\ frame \in {"idle", "merge", "prune", "visit"}
    /\ visited \subseteq added
    /\ due \subseteq added
    /\ lookup \in Id \cup {NoId}
    /\ answer \in (Id \cup {NoId}) \X {"null", "found", "dangling"}
    /\ added \subseteq Id
    /\ scheduled \subseteq added

(* Get finds every resource that was added and not removed, although it     *)
(* searches the two vectors under two locks while ForEach moves resources   *)
(* from one to the other: "Elements are only moved from new_resources_ to   *)
(* resources_, so there is no need to lock both at the same time."          *)
GetFindsLive ==
    answer[1] \in added \ scheduled => answer[2] = "found"

(* A frame shows every resource that was added before it began and not      *)
(* removed until it ended.                                                  *)
FrameShowsLive == frame = "idle" => due \ scheduled \subseteq visited

(* A removal leaves remove_set_ when the resource leaves the container.  It *)
(* is forgotten, and the resource stays for ever, only if the resource was  *)
(* added after the frame began and is still in new_resources_: that is, if  *)
(* it was added and removed while ForEach was between its two critical      *)
(* sections.                                                                *)
RemovalForgottenOnlyIfNew ==
    [][\A id \in removeSet \ removeSet' :
          id \in fresh' \cup resident' => id \in fresh' \ due']_vars
=============================================================================
