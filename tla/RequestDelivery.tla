--------------------------- MODULE RequestDelivery ---------------------------
(***************************************************************************)
(* The way of a request from a server-side channel to the client's         *)
(* resources, for one session.                                             *)
(*                                                                         *)
(* Server: a channel's worker thread gives each request the channel's next *)
(* serial number and starts a unary RPC for it.  Unary RPCs are not        *)
(* ordered: `network` is a set.  An RPC that fails, or that the client     *)
(* aborts, makes the channel report a disconnection, except for one that   *)
(* ends with the status CANCELLED, of which nobody is told.                *)
(*                                                                         *)
(* Client: one gRPC thread takes requests in any order, checks that their  *)
(* session is the current one, and pushes a command to the session's queue *)
(* of that channel, which puts the commands back in the order of their     *)
(* serial numbers.  A command that runs calls the handler, which looks the *)
(* current session up again.  The application's thread may leave the       *)
(* session at any moment; a session nobody refers to any more cancels the  *)
(* commands it still holds.                                                *)
(***************************************************************************)
EXTENDS Integers, Sequences, FiniteSets

CONSTANTS
    Channel,    \* the server-side channels of the session
    MaxQueues,  \* queues kept before empty ones are evicted: 100 in the code
    MaxSerial,  \* bound of the model: requests a channel issues
    MaxFailed   \* bound of the model: requests whose RPC fails

ASSUME ChannelAssumption == IsFiniteSet(Channel)
ASSUME BoundAssumption == {MaxQueues, MaxSerial, MaxFailed} \subseteq Nat

VARIABLES
    serial,     \* server: Channel::serials_[kRequest]
    ended,      \* server: ~Session sent its Shutdown call
    closed,     \* server: the session's channels are disabled
    notice,     \* server: a channel wrote kDisconnect to the control pipe
    failed,     \* server: requests whose RPC ended without the client's answer
    cancelled,  \* server: those of them whose status was CANCELLED
    network,    \* requests on their way to the client
    current,    \* client: Remote::current_session_ is this session
    checked,    \* gRPC thread: the request found current and not yet pushed
    draining,   \* gRPC thread: the channel whose queue it consumes
    returning,  \* gRPC thread: at the end of Session::PushCommand
    open,       \* session: the keys of command_queues_
    next,       \* session: next_serial_ of each queue
    list,       \* session: list_ of each queue (the commands held)
    executed,   \* history: per channel, serial numbers whose handler ran
    aborted,    \* client: requests answered with ABORTED
    crashed     \* client: a handler dereferenced a null session

serverVars == <<serial, ended, closed, notice, failed, cancelled>>
threadVars == <<checked, draining, returning>>
queueVars == <<open, next, list>>
vars == <<serverVars, network, current, threadVars, queueVars, executed,
          aborted, crashed>>

Serial == 0..(MaxSerial - 1)
Request == Channel \X Serial

Sent == {r \in Request : r[2] < serial[r[1]]}
Members(s) == {s[i] : i \in 1..Len(s)}
Held == {r \in Request : r[2] \in Members(list[r[1]])}
Executed == {r \in Request : r[2] \in Members(executed[r[1]])}

(* The gRPC thread waits in cq->Next and holds no reference to the session. *)
ThreadIdle == checked = {} /\ draining = {} /\ ~returning

Init == /\ serial = [c \in Channel |-> 0]
        /\ ended = FALSE
        /\ closed = FALSE
        /\ notice = FALSE
        /\ failed = {}
        /\ cancelled = {}
        /\ network = {}
        /\ current = TRUE
        /\ checked = {}
        /\ draining = {}
        /\ returning = FALSE
        /\ open = {}
        /\ next = [c \in Channel |-> 0]
        /\ list = [c \in Channel |-> <<>>]
        /\ executed = [c \in Channel |-> <<>>]
        /\ aborted = {}
        /\ crashed = FALSE

-----------------------------------------------------------------------------
(* The server and the connection *)

(* A job of the channel's worker: NewSerial(kRequest), then an RPC started  *)
(* with the number in its metadata.  One thread runs the jobs of a channel. *)
SendRequest(c) ==
    /\ ~closed
    /\ serial[c] < MaxSerial
    /\ serial' = [serial EXCEPT ![c] = @ + 1]
    /\ network' = network \cup {<<c, serial[c]>>}
    /\ UNCHANGED <<ended, closed, notice, failed, cancelled, current,
                   threadVars, queueVars, executed, aborted, crashed>>

(* Mutant of NotifyDisconnection: the write is forgotten. *)
NotifyDisconnection_Silent == UNCHANGED notice

(* NotifyDisconnection writes to the control pipe of an enabled channel. *)
NotifyDisconnection == notice' = (notice \/ ~closed)

(* The callback that every proxy gives its calls is silent for OK and for   *)
(* CANCELLED.                                                               *)
CallEnded(status) == IF status \in {"OK", "CANCELLED"} THEN UNCHANGED notice
                                                       ELSE NotifyDisconnection

(* The RPC ends before the client answers it, because the connection fails  *)
(* or a gRPC server that is shut down cancels the call: the request may have*)
(* reached the client or not.                                               *)
FailRequest(r, status) ==
    /\ r \in Sent \ (Executed \cup aborted \cup failed)
    /\ Cardinality(failed) < MaxFailed
    /\ failed' = failed \cup {r}
    /\ cancelled' = IF status = "CANCELLED" THEN cancelled \cup {r}
                                            ELSE cancelled
    /\ network' = network \ {r}
    /\ CallEnded(status)
    /\ UNCHANGED <<serial, ended, closed, current, threadVars, queueVars,
                   executed, aborted, crashed>>

(* The session's loop reads the notice: it disables every channel and tells *)
(* the user, once.                                                          *)
HandleControlEvent ==
    /\ notice
    /\ ~ended
    /\ ~closed
    /\ closed' = TRUE
    /\ UNCHANGED <<serial, ended, notice, failed, cancelled, network, current,
                   threadVars, queueVars, executed, aborted, crashed>>

(* The server's user drops the session, after a notice or of its own accord.*)
(* ~Session sends a Shutdown call and waits for the answer, for 300 ms at   *)
(* most; the channels' workers go on meanwhile ...                          *)
EndSession ==
    /\ ~ended
    /\ ended' = TRUE
    /\ UNCHANGED <<serial, closed, notice, failed, cancelled, network, current,
                   threadVars, queueVars, executed, aborted, crashed>>

(* ... and disables every channel. *)
DisableChannels ==
    /\ ended
    /\ ~closed
    /\ closed' = TRUE
    /\ UNCHANGED <<serial, ended, notice, failed, cancelled, network, current,
                   threadVars, queueVars, executed, aborted, crashed>>

-----------------------------------------------------------------------------
(* The client's gRPC thread *)

(* AsyncSessionServiceCaller::Proceed up to the check of the session. *)
AcceptRequest(r) ==
    /\ ThreadIdle
    /\ r \in network
    /\ current
    /\ network' = network \ {r}
    /\ checked' = {r}
    /\ UNCHANGED <<serverVars, current, draining, returning, queueVars,
                   executed, aborted, crashed>>

RejectRequest(r) ==
    /\ ThreadIdle
    /\ r \in network
    /\ ~current
    /\ network' = network \ {r}
    /\ aborted' = aborted \cup {r}
    /\ CallEnded("ABORTED")
    /\ UNCHANGED <<serial, ended, closed, failed, cancelled, current,
                   threadVars, queueVars, executed, crashed>>

(* The handler of a command looks the current session up again and uses its *)
(* resource pool without a check.                                           *)
Handle(c, s) == /\ current
                /\ executed' = [executed EXCEPT ![c] = Append(@, s)]

(* SerialCommandQueue::Push of a command that is due.  A number below       *)
(* next_serial_ is executed too, without advancing it.                      *)
ExecuteNow(c, s) ==
    /\ <<c, s>> \in checked
    /\ s <= next[c]
    /\ Handle(c, s)
    /\ open' = open \cup {c}
    /\ next' = [next EXCEPT ![c] = IF s = @ THEN @ + 1 ELSE @]
    /\ checked' = {}
    /\ draining' = IF s = next[c] THEN {c} ELSE {}
    /\ returning' = (s # next[c])
    /\ UNCHANGED <<serverVars, network, current, list, aborted, crashed>>

(* Mutant of Hold: the command stays with the caller after the move. *)
Hold_KeepsCommand(c, s) ==
    /\ <<c, s>> \in checked
    /\ s > next[c]
    /\ list' = [list EXCEPT ![c] = Append(@, s)]
    /\ open' = open \cup {c}
    /\ returning' = TRUE
    /\ UNCHANGED <<serverVars, network, current, checked, draining, next,
                   executed, aborted, crashed>>

(* Where Insert's scan from the end of the list stops. *)
ScanStopsAt(l, s, k) == /\ k > 0 => l[k] <= s
                        /\ \A i \in (k + 1)..Len(l) : l[i] > s

InsertAfter(l, s, k) ==
    [i \in 1..(Len(l) + 1) |-> IF i <= k THEN l[i]
                               ELSE IF i = k + 1 THEN s
                               ELSE l[i - 1]]

(* SerialCommandQueue::Push of a command that came too early. *)
Hold(c, s) ==
    /\ <<c, s>> \in checked
    /\ s > next[c]
    /\ \E k \in 0..Len(list[c]) :
          /\ ScanStopsAt(list[c], s, k)
          /\ list' = [list EXCEPT ![c] = InsertAfter(@, s, k)]
    /\ open' = open \cup {c}
    /\ checked' = {}
    /\ returning' = TRUE
    /\ UNCHANGED <<serverVars, network, current, draining, next, executed,
                   aborted, crashed>>

(* Mutants of HeadIsDue: the comparison is dropped, or made the wrong way. *)
HeadIsDue_AnyHead(c) == list[c] # <<>>
HeadIsDue_Below(c) == list[c] # <<>> /\ Head(list[c]) < next[c]

(* The head of the list is the next command to run. *)
HeadIsDue(c) == list[c] # <<>> /\ Head(list[c]) = next[c]

(* One turn of the loop of SerialCommandQueue::Consume. *)
ConsumeNext(c) ==
    /\ c \in draining
    /\ HeadIsDue(c)
    /\ Handle(c, Head(list[c]))
    /\ next' = [next EXCEPT ![c] = @ + 1]
    /\ list' = [list EXCEPT ![c] = Tail(@)]
    /\ UNCHANGED <<serverVars, network, current, threadVars, open, aborted,
                   crashed>>

FinishConsume(c) ==
    /\ c \in draining
    /\ ~HeadIsDue(c)
    /\ draining' = {}
    /\ returning' = TRUE
    /\ UNCHANGED <<serverVars, network, current, checked, queueVars, executed,
                   aborted, crashed>>

(* Session::PushCommand evicts every empty queue once there are too many. *)
Evicted == IF Cardinality(open) > MaxQueues
             THEN {c \in open : list[c] = <<>>}
             ELSE {}

ReturnFromPush ==
    /\ returning
    /\ current
    /\ returning' = FALSE
    /\ open' = open \ Evicted
    /\ next' = [c \in Channel |-> IF c \in Evicted THEN 0 ELSE next[c]]
    /\ UNCHANGED <<serverVars, network, current, checked, draining, list,
                   executed, aborted, crashed>>

(* Mutant of DestroySession: the queues are deleted without a Cancel. *)
DestroySession_NoCancel ==
    /\ open' = {}
    /\ next' = [c \in Channel |-> 0]
    /\ list' = [c \in Channel |-> <<>>]
    /\ UNCHANGED aborted

(* The last reference to the session goes away: ~SerialCommandQueue cancels *)
(* the commands held, which answers their requests with ABORTED.            *)
DestroySession ==
    /\ aborted' = aborted \cup Held
    /\ open' = {}
    /\ next' = [c \in Channel |-> 0]
    /\ list' = [c \in Channel |-> <<>>]

(* An answer reaches the server unless its RPC has failed. *)
AnswerHeld == IF Held \ failed # {} THEN CallEnded("ABORTED")
                                   ELSE UNCHANGED notice

(* Proceed was the last to refer to a session left in the meantime. *)
ReturnFromPushLast ==
    /\ returning
    /\ ~current
    /\ returning' = FALSE
    /\ DestroySession
    /\ AnswerHeld
    /\ UNCHANGED <<serial, ended, closed, failed, cancelled, network, current,
                   checked, draining, executed, crashed>>

(* The handler of a command that is due finds no current session. *)
HandlerFault ==
    /\ ~current
    /\ \/ \E r \in checked : r[2] <= next[r[1]]
       \/ \E c \in draining : HeadIsDue(c)
    /\ crashed' = TRUE
    /\ UNCHANGED <<serverVars, network, current, threadVars, queueVars,
                   executed, aborted>>

(* Session::Shutdown finishes the server's keepalive call if it has arrived *)
(* (whether it has is left open), which is a notice to the server, too.     *)
FinishKeepalive(answers) == answers \/ NotifyDisconnection

(* Two handlers of SessionService run on the gRPC thread between requests.  *)
(* The server's Shutdown call makes the remote shut the session down and    *)
(* clear it; the call may be lost with the connection, and nothing else     *)
(* tells the client that the server has gone.                               *)
ClearSession ==
    /\ ThreadIdle
    /\ ended
    /\ current
    /\ current' = FALSE
    /\ DestroySession
    /\ FinishKeepalive(AnswerHeld)
    /\ UNCHANGED <<serial, ended, closed, failed, cancelled, network,
                   threadVars, executed, crashed>>

(* Another server asks for a new session: it replaces the current one,      *)
(* which is not shut down.                                                  *)
ReplaceSession ==
    /\ ThreadIdle
    /\ current
    /\ current' = FALSE
    /\ DestroySession
    /\ AnswerHeld
    /\ UNCHANGED <<serial, ended, closed, failed, cancelled, network,
                   threadVars, executed, crashed>>

(* The application's thread: Remote::DisableSession.  The gRPC thread keeps *)
(* the session alive while it is in Proceed.                                *)
DisableSession ==
    /\ current
    /\ current' = FALSE
    /\ IF ThreadIdle
         THEN DestroySession /\ FinishKeepalive(AnswerHeld)
         ELSE /\ FinishKeepalive(UNCHANGED notice)
              /\ UNCHANGED <<queueVars, aborted>>
    /\ UNCHANGED <<serial, ended, closed, failed, cancelled, network,
                   threadVars, executed, crashed>>

-----------------------------------------------------------------------------
(* What a call may end with when the client does not answer *)
Failure == {"UNAVAILABLE", "CANCELLED"}

ServerNext == \/ HandleControlEvent \/ EndSession \/ DisableChannels
              \/ \E c \in Channel : SendRequest(c)
              \/ \E r \in Request, status \in Failure : FailRequest(r, status)

PushNext == \/ \E r \in Request : ExecuteNow(r[1], r[2]) \/ Hold(r[1], r[2])
            \/ \E c \in Channel : ConsumeNext(c) \/ FinishConsume(c)
            \/ ReturnFromPush
            \/ ReturnFromPushLast
            \/ HandlerFault

ReceiveNext == \E r \in Request : AcceptRequest(r) \/ RejectRequest(r)

ClientNext == /\ ~crashed
              /\ \/ PushNext \/ ReceiveNext
                 \/ ClearSession \/ ReplaceSession \/ DisableSession

Next == ServerNext \/ ClientNext

Spec == Init /\ [][Next]_vars

(* The gRPC thread keeps running; a request on its way is received or its   *)
(* RPC fails (the channel's gRPC keepalive fails the calls of a dead        *)
(* connection).  Nothing is assumed of the application, of the server's     *)
(* user, of the Shutdown call, or of an RPC whose command is held: it has   *)
(* no deadline.                                                             *)
Fairness ==
    /\ WF_vars(~crashed /\ PushNext)
    /\ \A r \in Request :
          WF_vars(/\ r \in network
                  /\ \/ ~crashed /\ (AcceptRequest(r) \/ RejectRequest(r))
                     \/ \E status \in Failure : FailRequest(r, status))

LiveSpec == Spec /\ Fairness

-----------------------------------------------------------------------------
(* Properties *)

(* Types, and the gRPC thread is in one place of Proceed at a time. *)
TypeOK ==
    /\ serial \in [Channel -> 0..MaxSerial]
    /\ ended \in BOOLEAN
    /\ closed \in BOOLEAN
    /\ notice \in BOOLEAN
    /\ failed \subseteq Request
    /\ cancelled \subseteq failed
    /\ network \subseteq Request
    /\ current \in BOOLEAN
    /\ checked \subseteq Request
    /\ draining \subseteq Channel
    /\ returning \in BOOLEAN
    /\ open \subseteq Channel
    /\ next \in [Channel -> Nat]
    /\ list \in [Channel -> Seq(Serial)]
    /\ executed \in [Channel -> Seq(Serial)]
    /\ aborted \subseteq Request
    /\ crashed \in BOOLEAN
    /\ \A r, q \in checked : r = q
    /\ \A c, d \in draining : c = d
    /\ checked = {} \/ draining = {}
    /\ returning => checked = {} /\ draining = {}

(* Once every earlier command of its channel has run, a command is not left *)
(* in the queue: "C2, C3, and C4 are executed when C2 is pushed"            *)
(* (serial-command-queue.h).  A command that is left waits for a serial     *)
(* number that will never come again, and so do all those after it.         *)
NoStrandedCommand ==
    ThreadIdle => \A c \in Channel :
                    list[c] # <<>> => Head(list[c]) > Len(executed[c])

(* Between the worker thread that numbers a request and its answer, a       *)
(* request is in one place and stays reachable: a command is deleted, and   *)
(* its call answered, by exactly one Execute or Cancel                      *)
(* (AsyncSessionServiceCaller's command finishes the call), unless its RPC  *)
(* failed on the way.                                                       *)
EachRequestInOnePlace ==
    /\ Sent \subseteq network \cup checked \cup Held \cup Executed
                       \cup aborted \cup failed
    /\ network \cap (checked \cup Held \cup Executed \cup aborted) = {}
    /\ checked \cap (Held \cup Executed \cup aborted) = {}
    /\ Held \cap (Executed \cup aborted) = {}
    /\ Executed \cap aborted = {}
    /\ \A c \in Channel : \A i, j \in 1..Len(list[c]) :
          list[c][i] = list[c][j] => i = j

(* Whatever order the network delivers the requests in, the handlers see    *)
(* the order of issue, without a gap or a repetition, and none runs after   *)
(* the client left the session.                                             *)
Ordered == INSTANCE OrderedExecution
             WITH issued <- serial, applied <- executed, inSession <- current

ImplementsOrderedExecution == Ordered!Spec

(* A handler finds the session its command was accepted for: "the session   *)
(* that has a command queue for the command is still alive and current one" *)
(* (async-session-service-caller.h).                                        *)
HandlerHasSession == ~crashed

(* Requests that will not be executed although nobody was told: their calls*)
(* were cancelled before they reached the client.                           *)
Lost == cancelled \ (checked \cup Held \cup Executed \cup aborted)

(* A request that waits is executed, aborted or failed in the end, or the   *)
(* server's user is told of a disconnection, or has ended the session.  A   *)
(* request that was lost leaves a gap in the serial numbers that holds back *)
(* all later ones of its channel; the notice of its failure is their only   *)
(* way out.  The proxies give none for a call that was CANCELLED: behind    *)
(* such a gap, and nowhere else, requests wait for ever.                    *)
RequestsSettle ==
    \A r \in Request :
       r \in network \cup checked \cup Held
         ~> \/ r \in Executed \cup aborted \cup failed
            \/ notice \/ ended
            \/ \E q \in Lost : q[1] = r[1] /\ q[2] < r[2]
            \/ crashed
=============================================================================
