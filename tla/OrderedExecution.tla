-------------------------- MODULE OrderedExecution --------------------------
(***************************************************************************)
(* What the remote protocol promises to the user of a server-side channel, *)
(* with no network, thread or queue in it: the requests a channel issues   *)
(* are applied to the client's resources in the order of issue, each at    *)
(* most once, and none is applied after the client has left the session.   *)
(*                                                                         *)
(* serial-command-queue.h states the order ("executed in the order of      *)
(* their serial numbers, starting with number 0"), and                     *)
(* async-session-service-caller.h the rest ("called only when the current  *)
(* session exists and the request is for the session").                    *)
(***************************************************************************)
EXTENDS Integers, Sequences

CONSTANT Channel

VARIABLES
    issued,     \* issued[c]: how many requests channel c has issued
    applied,    \* applied[c]: the serial numbers applied, oldest first
    inSession   \* the client is in the session

vars == <<issued, applied, inSession>>

Init == /\ issued = [c \in Channel |-> 0]
        /\ applied = [c \in Channel |-> <<>>]
        /\ inSession = TRUE

Issue(c) == /\ issued' = [issued EXCEPT ![c] = @ + 1]
            /\ UNCHANGED <<applied, inSession>>

Apply(c) == /\ inSession
            /\ Len(applied[c]) < issued[c]
            /\ applied' = [applied EXCEPT ![c] = Append(@, Len(@))]
            /\ UNCHANGED <<issued, inSession>>

Leave == /\ inSession
         /\ inSession' = FALSE
         /\ UNCHANGED <<issued, applied>>

Next == Leave \/ \E c \in Channel : Issue(c) \/ Apply(c)

Spec == Init /\ [][Next]_vars
=============================================================================
