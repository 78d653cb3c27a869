----------------------------- MODULE PeerManager -----------------------------
(***************************************************************************)
(* The server's peer manager (server/peer-manager.cc, peer.cc and          *)
(* loop-notifier.cc).  A client is a peer while its host's broadcasts, or  *)
(* the probes of the port forwarded to it, renew the timer of the peer.    *)
(*                                                                         *)
(* All handlers run on the thread of the event loop, so each is one action;*)
(* the prober and the thread that gets its answers reach them only through *)
(* the pipe of the notifier.  Time passes in ticks, no faster than the loop*)
(* dispatches what is due.  Arming the timer of a peer (a valid descriptor *)
(* and deadline) does not fail.                                            *)
(*                                                                         *)
(* The user holds (Get) every peer it is told of at least until it is told *)
(* that the peer is lost, and lets go of it at some time after that.       *)
(***************************************************************************)
EXTENDS Integers, Sequences

CONSTANTS
    Host,            \* the hosts that broadcast
    LocalHost,       \* kPortForwardedPeerHost
    PeerTimeout,     \* kPeerPingTimeoutMsec, in ticks
    BroadcastEvery,  \* the client's pause between two broadcasts
    RetryAfter,      \* its pause after a broadcast that it failed to send
    ProbeEvery,      \* the prober's pause between two probes
    MaxLost,         \* bound of the network: datagrams of a host lost in a row
    MaxPeers,        \* bound of the model: peers created
    MaxProbes        \* bound of the model: probes told apart in flight

ASSUME HostAssumption == LocalHost \notin Host
ASSUME TimeAssumption ==
    /\ {PeerTimeout, BroadcastEvery, RetryAfter, ProbeEvery} \subseteq Nat \ {0}
    /\ BroadcastEvery <= RetryAfter
    /\ {MaxLost, MaxPeers, MaxProbes} \subseteq Nat

VARIABLES
    manager,     \* is the PeerManager running, or destroyed
    peers,       \* peers_: the ids in the list
    peer,        \* the Peer objects ever created, by id
    kept,        \* the ids of the peers the user holds
    told,        \* history: how often the user was told that an id is lost
    datagrams,   \* the hosts whose broadcast waits in udp_socket_
    probePause,  \* prober_: ticks until the next probe
    answers,     \* probes in flight: how many will succeed, how many fail
    signals,     \* the notifier's pipe
    forwarded,   \* environment: does a client answer the forwarded port
    sender,      \* the hosts: do they broadcast, when next, how many were lost
    quiet        \* history: the hosts that stopped, or failed to send, since
                 \* their last datagram was received

vars == <<manager, peers, peer, kept, told, datagrams, probePause, answers,
          signals, forwarded, sender, quiet>>
peerVars == <<peers, peer, kept, told>>
proberVars == <<probePause, answers, signals>>
environment == <<forwarded, sender>>

Silent == [h \in Host |-> [on |-> FALSE, pause |-> 0, lost |-> 0]]

Init == /\ manager = "running"
        /\ peers = {}
        /\ peer = <<>>
        /\ kept = {}
        /\ told = <<>>
        /\ datagrams = {}
        /\ probePause = 0
        /\ answers = [success |-> 0, failure |-> 0]
        /\ signals = <<>>
        /\ forwarded = FALSE
        /\ sender = Silent
        /\ quiet = Host

Off == -1   \* a timer that has fired, or whose peer is destroyed

Exists(id) == id \in peers \cup kept

-----------------------------------------------------------------------------
(* Mutants of Ping: the timer keeps the deadline it has; a second too many  *)
(* is carried into it.                                                      *)
Ping_Keeps(id) == peer' = peer

Ping_Late(id) == peer' = [peer EXCEPT ![id].timer = PeerTimeout + 1]

(* Peer::Ping: a peer in the list has not expired. *)
Ping(id) == peer' = [peer EXCEPT ![id].timer = PeerTimeout]

(* Mutant of Welcome: the peer is not pinged. *)
Welcome_NoPing(host) ==
    /\ Len(peer) < MaxPeers
    /\ peer' = Append(peer, [host |-> host, timer |-> Off])
    /\ peers' = peers \cup {Len(peer) + 1}
    /\ kept' = kept \cup {Len(peer) + 1}
    /\ told' = Append(told, 0)

(* CreatePeer, on_expired, Ping, push_back, on_peer_discover; or no peer,   *)
(* when the process is out of descriptors (MaxPeers).                       *)
Welcome(host) ==
    /\ Len(peer) < MaxPeers
    /\ peer' = Append(peer, [host |-> host, timer |-> PeerTimeout])
    /\ peers' = peers \cup {Len(peer) + 1}
    /\ kept' = kept \cup {Len(peer) + 1}
    /\ told' = Append(told, 0)

PeersOf(host) == {id \in peers : peer[id].host = host}

(* A client of the host is there: renew its peer or create one. *)
Hear(host) ==
    \/ \E id \in PeersOf(host) : Ping(id) /\ UNCHANGED <<peers, kept, told>>
    \/ PeersOf(host) = {} /\ Welcome(host)
    \/ PeersOf(host) = {} /\ UNCHANGED peerVars

(* peers_ without these peers, and on_peer_lost of each. *)
Lose(ids) ==
    /\ peers' = peers \ ids
    /\ told' = [id \in DOMAIN told |-> told[id] + IF id \in ids THEN 1 ELSE 0]

-----------------------------------------------------------------------------
(* The handlers of the event loop *)

AcceptUdpBroadcast(h) ==
    /\ manager = "running"
    /\ h \in datagrams
    /\ datagrams' = datagrams \ {h}
    /\ quiet' = IF sender[h].on THEN quiet \ {h} ELSE quiet
    /\ Hear(h)
    /\ UNCHANGED <<manager, proberVars, environment>>

(* LoopNotifier::Callback, Notify and PortForwardedPeerProbe. *)
PortForwardedPeerProbe ==
    /\ manager = "running"
    /\ signals # <<>>
    /\ signals' = Tail(signals)
    /\ IF Head(signals)
         THEN Hear(LocalHost)
         ELSE Lose(PeersOf(LocalHost)) /\ UNCHANGED <<peer, kept>>
    /\ UNCHANGED <<manager, datagrams, probePause, answers, environment, quiet>>

TimerDue(id) == Exists(id) /\ peer[id].timer = 0

(* Mutant of Expire: alive_ is not checked, and the timer's descriptor      *)
(* stays readable.                                                          *)
Expire_Again(id) ==
    /\ manager = "running"
    /\ TimerDue(id)
    /\ Lose({id})
    /\ told[id] < 3
    /\ UNCHANGED <<manager, peer, kept, datagrams, proberVars, environment,
                   quiet>>

(* Peer::Expire and on_expired, whether or not the peer is in the list. *)
Expire(id) ==
    /\ manager = "running"
    /\ TimerDue(id)
    /\ peer' = [peer EXCEPT ![id].timer = Off]
    /\ Lose({id})
    /\ UNCHANGED <<manager, kept, datagrams, proberVars, environment, quiet>>

-----------------------------------------------------------------------------
(* The prober's threads and the user *)

(* Probes without a deadline may stay unanswered: beyond MaxProbes they are *)
(* not told apart.                                                          *)
Send(outcome) ==
    answers' = [answers EXCEPT ![outcome] = IF @ < MaxProbes THEN @ + 1 ELSE @]

Probe ==
    /\ manager = "running"
    /\ probePause = 0
    /\ probePause' = ProbeEvery
    /\ Send("failure") \/ (forwarded /\ Send("success"))
    /\ UNCHANGED <<manager, peerVars, datagrams, signals, environment, quiet>>

(* The callback of a probe, in any order.  The thread of the queue outlives *)
(* the manager, and then writes to the notifier that was destroyed with it. *)
AnswerProbe(outcome) ==
    /\ answers[outcome] > 0
    /\ Len(signals) < MaxProbes
    /\ answers' = [answers EXCEPT ![outcome] = @ - 1]
    /\ signals' = IF manager = "running"
                    THEN Append(signals, outcome = "success")
                    ELSE signals
    /\ UNCHANGED <<manager, peerVars, datagrams, probePause, environment, quiet>>

(* The user lets go of a peer it was told is lost (when its timer is off    *)
(* this has no effect).                                                     *)
Drop(id) ==
    /\ id \in kept
    /\ peer[id].timer # Off
    /\ told[id] > 0
    /\ kept' = kept \ {id}
    /\ UNCHANGED <<manager, peers, peer, told, datagrams, proberVars,
                   environment, quiet>>

(* ~PeerManager: the socket's source is removed, the prober joined, its     *)
(* queue terminated, the pipe closed and the list destroyed.  The probes in *)
(* flight remain; the rest is no longer followed and gets fixed values.     *)
Destroy ==
    /\ manager = "running"
    /\ manager' = "destroyed"
    /\ peers' = {}
    /\ signals' = <<>>
    /\ datagrams' = {}
    /\ probePause' = 0
    /\ sender' = Silent
    /\ forwarded' = FALSE
    /\ quiet' = Host
    /\ UNCHANGED <<peer, kept, told, answers>>

-----------------------------------------------------------------------------
(* The clients, the network and time, while there is a manager *)

(* The client starts its broadcasts, or stops them (it has a session); it   *)
(* does not start them again within the same tick.                          *)
Start(h) ==
    /\ manager = "running"
    /\ ~sender[h].on
    /\ sender[h].pause = 0
    /\ sender' = [sender EXCEPT ![h].on = TRUE]
    /\ UNCHANGED <<manager, peerVars, datagrams, proberVars, forwarded, quiet>>

Stop(h) ==
    /\ manager = "running"
    /\ sender[h].on
    /\ sender' = [sender EXCEPT ![h] = [on |-> FALSE, pause |-> 1, lost |-> 0]]
    /\ quiet' = quiet \cup {h}
    /\ UNCHANGED <<manager, peerVars, datagrams, proberVars, forwarded>>

Broadcast(h) ==
    /\ manager = "running"
    /\ sender[h].on
    /\ sender[h].pause = 0
    /\ \/ /\ datagrams' = datagrams \cup {h}
          /\ sender' = [sender EXCEPT ![h].pause = BroadcastEvery, ![h].lost = 0]
          /\ UNCHANGED quiet
       \/ /\ sender[h].lost < MaxLost
          /\ sender' = [sender EXCEPT ![h].pause = BroadcastEvery, ![h].lost = @ + 1]
          /\ UNCHANGED <<datagrams, quiet>>
       \/ /\ sender' = [sender EXCEPT ![h].pause = RetryAfter]
          /\ quiet' = quiet \cup {h}
          /\ UNCHANGED datagrams
    /\ UNCHANGED <<manager, peerVars, proberVars, forwarded>>

Forward ==
    /\ manager = "running"
    /\ forwarded' = ~forwarded
    /\ UNCHANGED <<manager, peerVars, datagrams, proberVars, sender, quiet>>

Busy ==
    \/ datagrams # {}
    \/ signals # <<>>
    \/ \E id \in DOMAIN peer : TimerDue(id)
    \/ probePause = 0
    \/ \E h \in Host : sender[h].on /\ sender[h].pause = 0

Less(n) == IF n > 0 THEN n - 1 ELSE 0

Tick ==
    /\ manager = "running"
    /\ ~Busy
    /\ peer' = [id \in DOMAIN peer |->
                  [peer[id] EXCEPT !.timer = IF Exists(id) /\ @ # Off
                                               THEN @ - 1 ELSE Off]]
    /\ probePause' = Less(probePause)
    /\ sender' = [h \in Host |-> [sender[h] EXCEPT !.pause = Less(@)]]
    /\ UNCHANGED <<manager, peers, kept, told, datagrams, answers, signals,
                   forwarded, quiet>>

-----------------------------------------------------------------------------
Dispatch == \/ \E h \in Host : AcceptUdpBroadcast(h)
            \/ PortForwardedPeerProbe
            \/ \E id \in DOMAIN peer : Expire(id)

Next == \/ Dispatch
        \/ Probe
        \/ \E outcome \in {"success", "failure"} : AnswerProbe(outcome)
        \/ \E id \in DOMAIN peer : Drop(id)
        \/ Destroy
        \/ \E h \in Host : Start(h) \/ Stop(h) \/ Broadcast(h)
        \/ Forward
        \/ Tick

Spec == Init /\ [][Next]_vars

(* The loop dispatches what is due, the prober and the clients' broadcasts  *)
(* go on, and time passes (strongly: nobody takes infinitely many steps in  *)
(* one tick).  No probe has to be answered.                                 *)
Fairness ==
    /\ WF_vars(Dispatch)
    /\ WF_vars(Probe)
    /\ \A h \in Host : WF_vars(Broadcast(h))
    /\ SF_vars(Tick)

LiveSpec == Spec /\ Fairness

-----------------------------------------------------------------------------
(* Properties *)

(* Types. *)
TypeOK ==
    /\ manager \in {"running", "destroyed"}
    /\ peers \subseteq DOMAIN peer
    /\ peer \in Seq([host : Host \cup {LocalHost}, timer : Off..PeerTimeout])
    /\ kept \subseteq DOMAIN peer
    /\ told \in Seq(Nat) /\ Len(told) = Len(peer)
    /\ datagrams \subseteq Host
    /\ probePause \in 0..ProbeEvery
    /\ answers \in [{"success", "failure"} -> 0..MaxProbes]
    /\ signals \in Seq(BOOLEAN)
    /\ forwarded \in BOOLEAN
    /\ sender \in [Host -> [on : BOOLEAN, pause : 0..RetryAfter,
                             lost : 0..MaxLost]]
    /\ quiet \subseteq Host

(* What the user was told, discoveries less losses, is the list, whichever  *)
(* of broadcast, probe and timer came first.  The list holds one peer of a  *)
(* host, whose timer runs: no host is shut out by a dead peer.  A peer is   *)
(* told lost once; a second time only if a failed probe removed it and the  *)
(* user held it until its timer, which goes on, expired.                    *)
UserSeesPeers ==
    /\ manager = "running" =>
          /\ peers = {id \in DOMAIN peer : told[id] = 0}
          /\ \A id \in peers : /\ PeersOf(peer[id].host) = {id}
                               /\ peer[id].timer # Off
    /\ \A id \in DOMAIN peer :
          \/ told[id] <= 1
          \/ told[id] = 2 /\ peer[id].host = LocalHost /\ peer[id].timer = Off

(* The timeout bears MaxLost datagrams lost in a row: a host's peer is lost *)
(* only if the host stopped since it was last heard, or one of its sends    *)
(* failed, after which it pauses for longer than the timeout.               *)
LostOnlyIfQuiet ==
    [][\A id \in DOMAIN peer :
          (peer[id].host \in Host /\ told'[id] > told[id])
             => peer[id].host \in quiet]_vars

(* A client that is gone is lost: a host that does not broadcast, and a     *)
(* forwarded port that nobody answers even if its probes fail to return,    *)
(* leave the list.                                                          *)
GoneIsLost ==
    /\ \A h \in Host :
          ~sender[h].on ~> sender[h].on \/ PeersOf(h) = {}
    /\ ~forwarded ~> forwarded \/ PeersOf(LocalHost) = {}
=============================================================================
