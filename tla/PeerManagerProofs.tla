--------------------------- MODULE PeerManagerProofs ---------------------------
(***************************************************************************)
(* Proofs about the peer manager, for any hosts, periods and numbers of    *)
(* peers: the user is told of the peers that are in the list, and, if the  *)
(* timeout is longer than MaxLost + 1 broadcasts take, a host's peer is    *)
(* lost only when the host was quiet.                                      *)
(*                                                                         *)
(* Told says what a peer that was lost can still do: nothing if its timer  *)
(* removed it; if a failed probe did, its timer may fire once more.  Heard *)
(* relates the timer of a host's peer to the sender's own timer: what is   *)
(* left covers the pause and as many more lost datagrams as the network    *)
(* may lose.                                                               *)
(***************************************************************************)
EXTENDS PeerManager, SequenceTheorems, TLAPS

Peer == [host : Host \cup {LocalHost}, timer : Off..PeerTimeout]

(* What happened to the peers. *)
Told ==
    /\ manager = "running" => peers = {id \in DOMAIN peer : told[id] = 0}
    /\ manager = "destroyed" => peers = {}
    /\ \A id \in peers : peer[id].timer # Off
    /\ \A id, other \in peers : peer[id].host = peer[other].host => id = other
    /\ \A id \in DOMAIN peer :
          /\ told[id] <= 2
          /\ told[id] >= 1 /\ peer[id].host \in Host => peer[id].timer = Off
          /\ told[id] = 2 => peer[id].timer = Off /\ peer[id].host = LocalHost

(* The ticks that n broadcasts take. *)
Span(n) == n * BroadcastEvery

(* How long a host that is not quiet can still be unheard.  The prime is   *)
(* inside, where a step moves it.                                          *)
Covered(timer, s) == timer > s.pause + Span(MaxLost - s.lost)

Heard ==
    /\ \A h \in Host : ~sender[h].on => h \in quiet
    /\ \A h \in datagrams :
          /\ sender[h].pause > 0
          /\ sender[h].on => sender[h].pause = BroadcastEvery /\ sender[h].lost = 0
    /\ \A id \in peers :
          peer[id].host \in Host \ quiet =>
             /\ peer[id].timer > 0
             /\ \/ peer[id].host \in datagrams
                \/ Covered(peer[id].timer, sender[peer[id].host])

-----------------------------------------------------------------------------
(* Lemmas about the operators *)

LEMMA Constants ==
    /\ PeerTimeout \in Nat \ {0} /\ BroadcastEvery \in Nat \ {0}
    /\ RetryAfter \in Nat \ {0} /\ ProbeEvery \in Nat \ {0}
    /\ BroadcastEvery <= RetryAfter
    /\ MaxLost \in Nat /\ MaxPeers \in Nat /\ MaxProbes \in Nat
  BY TimeAssumption

LEMMA Spans ==
    \A n \in Nat : /\ Span(n) \in Nat
                   /\ Span(n + 1) = Span(n) + BroadcastEvery
                   /\ Span(0) = 0
  BY Constants DEF Span

(* A sender, and one that begins a pause. *)
Sending == [on : BOOLEAN, pause : 0..RetryAfter, lost : 0..MaxLost]
Waits(s, pause, lost) == [s EXCEPT !.pause = pause, !.lost = lost]

LEMMA WaitsType ==
    ASSUME NEW s \in Sending, NEW p \in 0..RetryAfter, NEW n \in 0..MaxLost
    PROVE  Waits(s, p, n) \in Sending
  BY DEF Sending, Waits

(* The peers and what was told of them are as long. *)
LEMMA Domains ==
    ASSUME TypeOK
    PROVE  /\ DOMAIN peer = 1..Len(peer) /\ Len(peer) \in Nat
           /\ DOMAIN told = DOMAIN peer
           /\ \A id \in DOMAIN peer :
                 /\ peer[id] \in Peer /\ told[id] \in Nat
                 /\ peer[id].host \in Host \cup {LocalHost}
                 /\ peer[id].timer \in Off..PeerTimeout
           /\ peers \subseteq DOMAIN peer /\ kept \subseteq DOMAIN peer
<1>1. peer \in Seq(Peer) /\ told \in Seq(Nat) /\ Len(told) = Len(peer)
  BY DEF TypeOK, Peer
<1>2. /\ DOMAIN peer = 1..Len(peer) /\ Len(peer) \in Nat
      /\ DOMAIN told = DOMAIN peer
      /\ \A id \in DOMAIN peer : peer[id] \in Peer /\ told[id] \in Nat
  BY <1>1
<1>3. \A p \in Peer : p.host \in Host \cup {LocalHost} /\ p.timer \in Off..PeerTimeout
  BY DEF Peer
<1>. QED
  BY <1>2, <1>3 DEF TypeOK

(* What Hear does to the list: the host's peer, old or new, has its full   *)
(* time, and the other peers are as they were.                             *)
LEMMA HearEffects ==
    ASSUME TypeOK, Told, manager = "running", manager' = manager,
           NEW host \in Host \cup {LocalHost}, Hear(host)
    PROVE  /\ peer' \in Seq(Peer) /\ peers' \subseteq DOMAIN peer'
           /\ kept' \subseteq DOMAIN peer'
           /\ told' \in Seq(Nat) /\ Len(told') = Len(peer')
           /\ DOMAIN peer \subseteq DOMAIN peer'
           /\ \A id \in DOMAIN peer :
                 told'[id] = told[id] /\ peer'[id].host = peer[id].host
           /\ \A id \in peers' :
                 \/ peer'[id].host = host /\ peer'[id].timer = PeerTimeout
                 \/ id \in peers /\ peer'[id].host # host /\ peer'[id] = peer[id]
           /\ Told'
<1>. USE DEF Off
<1>0. /\ peer \in Seq(Peer) /\ told \in Seq(Nat) /\ Len(told) = Len(peer)
      /\ peers \subseteq DOMAIN peer /\ kept \subseteq DOMAIN peer
      /\ DOMAIN peer = 1..Len(peer) /\ Len(peer) \in Nat /\ DOMAIN told = DOMAIN peer
      /\ PeerTimeout \in Nat \ {0}
      /\ \A id \in DOMAIN peer : peer[id] \in Peer /\ told[id] \in Nat
  BY Domains, Constants DEF TypeOK, Peer
<1>1. ASSUME NEW id \in PeersOf(host), Ping(id), UNCHANGED <<peers, kept, told>>
      PROVE  /\ peer' \in Seq(Peer) /\ DOMAIN peer' = DOMAIN peer
             /\ Len(peer') = Len(peer)
             /\ id \in peers /\ peer[id].host = host
             /\ peer'[id].host = host /\ peer'[id].timer = PeerTimeout
             /\ \A other \in DOMAIN peer \ {id} : peer'[other] = peer[other]
             /\ \A other \in peers \ {id} : peer[other].host # host
  <2>1. id \in peers /\ id \in DOMAIN peer /\ peer[id].host = host
    BY <1>0, <1>1 DEF PeersOf
  <2>2. [peer[id] EXCEPT !.timer = PeerTimeout] \in Peer
    <3>1. peer[id] \in Peer /\ PeerTimeout \in Off..PeerTimeout
      BY <1>0, <2>1
    <3>. QED
      BY <3>1, Zenon DEF Peer
  <2>3. peer' = [peer EXCEPT ![id] = [peer[id] EXCEPT !.timer = PeerTimeout]]
    BY <1>1 DEF Ping
  <2>4. /\ peer' \in Seq(Peer) /\ DOMAIN peer' = DOMAIN peer
        /\ Len(peer') = Len(peer)
        /\ peer'[id] = [peer[id] EXCEPT !.timer = PeerTimeout]
        /\ \A other \in DOMAIN peer \ {id} : peer'[other] = peer[other]
    BY <1>0, <2>1, <2>2, <2>3
  <2>5. peer'[id].host = host /\ peer'[id].timer = PeerTimeout
    BY <1>0, <2>1, <2>4 DEF Peer
  <2>6. \A other \in peers \ {id} : peer[other].host # host
    BY <2>1 DEF Told
  <2>. QED
    BY <2>1, <2>4, <2>5, <2>6
<1>2. ASSUME PeersOf(host) = {}, Welcome(host)
      PROVE  /\ peer' \in Seq(Peer) /\ told' \in Seq(Nat)
             /\ Len(peer') = Len(peer) + 1 /\ Len(told') = Len(peer) + 1
             /\ DOMAIN peer' = DOMAIN peer \cup {Len(peer) + 1}
             /\ peers' = peers \cup {Len(peer) + 1}
             /\ kept' = kept \cup {Len(peer) + 1}
             /\ peer'[Len(peer) + 1].host = host
             /\ peer'[Len(peer) + 1].timer = PeerTimeout
             /\ told'[Len(peer) + 1] = 0
             /\ \A id \in DOMAIN peer : peer'[id] = peer[id] /\ told'[id] = told[id]
             /\ \A id \in peers : peer[id].host # host
  <2>. DEFINE new == [host |-> host, timer |-> PeerTimeout]
  <2>1. new \in Peer /\ new.host = host /\ new.timer = PeerTimeout
    BY <1>0 DEF Peer
  <2>2. peer' = Append(peer, new) /\ told' = Append(told, 0)
        /\ peers' = peers \cup {Len(peer) + 1} /\ kept' = kept \cup {Len(peer) + 1}
    BY <1>2 DEF Welcome
  <2>. HIDE DEF new
  <2>3. /\ peer' \in Seq(Peer) /\ Len(peer') = Len(peer) + 1
        /\ peer'[Len(peer) + 1] = new
        /\ \A id \in 1..Len(peer) : peer'[id] = peer[id]
    BY <1>0, <2>1, <2>2
  <2>4. /\ told' \in Seq(Nat) /\ Len(told') = Len(peer) + 1
        /\ told'[Len(peer) + 1] = 0
        /\ \A id \in 1..Len(peer) : told'[id] = told[id]
    BY <1>0, <2>2
  <2>5. DOMAIN peer' = DOMAIN peer \cup {Len(peer) + 1}
    BY <1>0, <2>3
  <2>6. \A id \in peers : peer[id].host # host
    BY <1>2 DEF PeersOf
  <2>. QED
    BY <1>0, <2>1, <2>2, <2>3, <2>4, <2>5, <2>6
<1>3. CASE \E id \in PeersOf(host) : Ping(id) /\ UNCHANGED <<peers, kept, told>>
  <2>. PICK id \in PeersOf(host) : Ping(id) /\ UNCHANGED <<peers, kept, told>>
    BY <1>3
  <2>0. UNCHANGED <<peers, kept, told>>
    OBVIOUS
  <2>1. /\ peer' \in Seq(Peer) /\ DOMAIN peer' = DOMAIN peer
        /\ Len(peer') = Len(peer)
        /\ id \in peers /\ peer[id].host = host
        /\ peer'[id].host = host /\ peer'[id].timer = PeerTimeout
        /\ \A other \in DOMAIN peer \ {id} : peer'[other] = peer[other]
        /\ \A other \in peers \ {id} : peer[other].host # host
    BY <1>1
  <2>2. \A other \in DOMAIN peer : peer'[other].host = peer[other].host
    BY <2>1
  <2>3. \A other \in peers' :
           \/ peer'[other].host = host /\ peer'[other].timer = PeerTimeout
           \/ other \in peers /\ peer'[other].host # host /\ peer'[other] = peer[other]
    BY <1>0, <2>0, <2>1
  <2>4. told[id] = 0
    BY <1>0, <2>1 DEF Told
  <2>5. Told'
    <3>1. peers' = {other \in DOMAIN peer' : told'[other] = 0}
      BY <2>0, <2>1 DEF Told
    <3>2. \A other \in peers' : peer'[other].timer # Off
      BY <1>0, <2>0, <2>1 DEF Told
    <3>3. \A i, j \in peers' : peer'[i].host = peer'[j].host => i = j
      BY <1>0, <2>0, <2>2 DEF Told
    <3>4. \A other \in DOMAIN peer' :
             /\ told'[other] <= 2
             /\ told'[other] >= 1 /\ peer'[other].host \in Host
                   => peer'[other].timer = Off
             /\ told'[other] = 2 => /\ peer'[other].timer = Off
                                    /\ peer'[other].host = LocalHost
      <4>. SUFFICES ASSUME NEW other \in DOMAIN peer
                    PROVE  /\ told[other] <= 2
                           /\ told[other] >= 1 /\ peer'[other].host \in Host
                                 => peer'[other].timer = Off
                           /\ told[other] = 2 => /\ peer'[other].timer = Off
                                                 /\ peer'[other].host = LocalHost
        BY <2>0, <2>1
      <4>1. CASE other = id
        BY <2>4, <4>1
      <4>2. CASE other # id
        BY <2>1, <4>2 DEF Told
      <4>. QED
        BY <4>1, <4>2
    <3>. QED
      BY <3>1, <3>2, <3>3, <3>4 DEF Told
  <2>. QED
    BY <1>0, <2>0, <2>1, <2>2, <2>3, <2>5
<1>4. CASE PeersOf(host) = {} /\ Welcome(host)
  <2>1. /\ peer' \in Seq(Peer) /\ told' \in Seq(Nat)
        /\ Len(peer') = Len(peer) + 1 /\ Len(told') = Len(peer) + 1
        /\ DOMAIN peer' = DOMAIN peer \cup {Len(peer) + 1}
        /\ peers' = peers \cup {Len(peer) + 1}
        /\ kept' = kept \cup {Len(peer) + 1}
        /\ peer'[Len(peer) + 1].host = host
        /\ peer'[Len(peer) + 1].timer = PeerTimeout
        /\ told'[Len(peer) + 1] = 0
        /\ \A id \in DOMAIN peer : peer'[id] = peer[id] /\ told'[id] = told[id]
        /\ \A id \in peers : peer[id].host # host
    BY <1>2, <1>4
  <2>2. Len(peer) + 1 \notin DOMAIN peer
    BY <1>0
  <2>3. \A id \in peers' :
           \/ peer'[id].host = host /\ peer'[id].timer = PeerTimeout
           \/ id \in peers /\ peer'[id].host # host /\ peer'[id] = peer[id]
    BY <1>0, <2>1
  <2>4. Told'
    <3>1. peers' = {id \in DOMAIN peer' : told'[id] = 0}
      BY <1>0, <2>1, <2>2 DEF Told
    <3>2. \A id \in peers' : peer'[id].timer # Off
      BY <1>0, <2>3 DEF Told
    <3>3. \A i, j \in peers' : peer'[i].host = peer'[j].host => i = j
      BY <1>0, <2>1 DEF Told
    <3>4. \A id \in DOMAIN peer' :
             /\ told'[id] <= 2
             /\ told'[id] >= 1 /\ peer'[id].host \in Host => peer'[id].timer = Off
             /\ told'[id] = 2 => peer'[id].timer = Off /\ peer'[id].host = LocalHost
      BY <1>0, <2>1 DEF Told
    <3>. QED
      BY <3>1, <3>2, <3>3, <3>4 DEF Told
  <2>. QED
    BY <1>0, <2>1, <2>3, <2>4
<1>5. CASE PeersOf(host) = {} /\ UNCHANGED peerVars
  <2>1. UNCHANGED <<peers, peer, kept, told>>
    BY <1>5 DEF peerVars
  <2>2. \A id \in peers : peer[id].host # host
    BY <1>5 DEF PeersOf
  <2>3. Told'
    BY <2>1 DEF Told
  <2>. QED
    BY <1>0, <2>1, <2>2, <2>3
<1>. QED
  BY <1>3, <1>4, <1>5 DEF Hear

(* What Lose does to the list. *)
LEMMA LoseEffects ==
    ASSUME TypeOK, NEW ids, ids \subseteq DOMAIN peer, Lose(ids)
    PROVE  /\ peers' = peers \ ids
           /\ told' \in Seq(Nat) /\ Len(told') = Len(peer)
           /\ DOMAIN told' = DOMAIN peer
           /\ \A id \in DOMAIN peer :
                 told'[id] = told[id] + IF id \in ids THEN 1 ELSE 0
<1>1. /\ told \in Seq(Nat) /\ Len(told) = Len(peer) /\ Len(peer) \in Nat
      /\ DOMAIN told = DOMAIN peer /\ DOMAIN peer = 1..Len(peer)
      /\ \A id \in DOMAIN peer : told[id] \in Nat
  BY Domains DEF TypeOK
<1>2. told' = [id \in 1..Len(peer) |-> told[id] + IF id \in ids THEN 1 ELSE 0]
  BY <1>1 DEF Lose
<1>3. \A id \in 1..Len(peer) : told[id] + (IF id \in ids THEN 1 ELSE 0) \in Nat
  BY <1>1
<1>4. told' \in [1..Len(peer) -> Nat]
  BY <1>2, <1>3
<1>5. told' \in Seq(Nat) /\ Len(told') = Len(peer)
  BY <1>1, <1>4
<1>. QED
  BY <1>1, <1>2, <1>5 DEF Lose

-----------------------------------------------------------------------------
(* Types *)

LEMMA TypesInitially == Init => TypeOK
<1>. SUFFICES ASSUME Init PROVE TypeOK
  OBVIOUS
<1>. USE DEF Init
<1>1. sender \in [Host -> [on : BOOLEAN, pause : 0..RetryAfter, lost : 0..MaxLost]]
  BY Constants DEF Silent
<1>2. answers \in [{"success", "failure"} -> 0..MaxProbes]
  BY Constants
<1>3. /\ peer \in Seq([host : Host \cup {LocalHost}, timer : Off..PeerTimeout])
      /\ told \in Seq(Nat) /\ Len(told) = Len(peer)
      /\ signals \in Seq(BOOLEAN)
  OBVIOUS
<1>4. /\ manager \in {"running", "destroyed"}
      /\ peers \subseteq DOMAIN peer /\ kept \subseteq DOMAIN peer
      /\ datagrams \subseteq Host /\ quiet \subseteq Host
      /\ forwarded \in BOOLEAN
  OBVIOUS
<1>5. probePause \in 0..ProbeEvery
  BY Constants
<1>. HIDE DEF Init
<1>. QED
  BY <1>1, <1>2, <1>3, <1>4, <1>5, Zenon DEF TypeOK

LEMMA TypesKept == TypeOK /\ Told /\ [Next]_vars => TypeOK'
<1>. SUFFICES ASSUME TypeOK, Told, [Next]_vars
              PROVE  TypeOK'
  OBVIOUS
<1>. DEFINE Other == /\ manager \in {"running", "destroyed"}
                     /\ datagrams \subseteq Host
                     /\ probePause \in 0..ProbeEvery
                     /\ answers \in [{"success", "failure"} -> 0..MaxProbes]
                     /\ signals \in Seq(BOOLEAN)
                     /\ forwarded \in BOOLEAN
                     /\ sender \in [Host -> [on : BOOLEAN, pause : 0..RetryAfter,
                                             lost : 0..MaxLost]]
                     /\ quiet \subseteq Host
            List == /\ peers \subseteq DOMAIN peer
                    /\ peer \in Seq(Peer)
                    /\ kept \subseteq DOMAIN peer
                    /\ told \in Seq(Nat) /\ Len(told) = Len(peer)
<1>0. Other /\ List
  BY DEF TypeOK, Peer
<1>00. Other' /\ List' => TypeOK'
  BY DEF TypeOK, Peer
<1>01. UNCHANGED peerVars => List'
  BY <1>0 DEF peerVars
<1>02. ASSUME NEW s \in [on : BOOLEAN, pause : 0..RetryAfter, lost : 0..MaxLost]
       PROVE  /\ s.on \in BOOLEAN /\ s.pause \in 0..RetryAfter
              /\ s.lost \in 0..MaxLost
  OBVIOUS
<1>. HIDE DEF List
<1>1. ASSUME NEW h \in Host, AcceptUdpBroadcast(h)
      PROVE  TypeOK'
  <2>1. Other'
    BY <1>0, <1>1 DEF AcceptUdpBroadcast, proberVars, environment
  <2>2. List'
    BY <1>1, HearEffects DEF AcceptUdpBroadcast, List
  <2>. QED
    BY <1>00, <2>1, <2>2
<1>2. CASE PortForwardedPeerProbe
  <2>0. signals' \in Seq(BOOLEAN)
    <3>1. Tail(signals) \in Seq(BOOLEAN)
      BY <1>0, <1>2, HeadTailProperties, Zenon DEF PortForwardedPeerProbe
    <3>. QED
      BY <1>2, <3>1, Zenon DEF PortForwardedPeerProbe
  <2>1. Other'
    BY <1>0, <1>2, <2>0 DEF PortForwardedPeerProbe, environment
  <2>2. CASE Hear(LocalHost)
    BY <1>00, <1>2, <2>1, <2>2, HearEffects DEF PortForwardedPeerProbe, List
  <2>3. CASE Lose(PeersOf(LocalHost)) /\ UNCHANGED <<peer, kept>>
    <3>1. PeersOf(LocalHost) \subseteq DOMAIN peer
      BY <1>0 DEF PeersOf, List
    <3>2. List'
      BY <1>0, <2>3, <3>1, LoseEffects DEF List
    <3>. QED
      BY <1>00, <2>1, <3>2
  <2>. QED
    BY <1>2, <2>2, <2>3 DEF PortForwardedPeerProbe
<1>3. ASSUME NEW id \in DOMAIN peer, Expire(id)
      PROVE  TypeOK'
  <2>1. Other'
    BY <1>0, <1>3 DEF Expire, proberVars, environment
  <2>2. /\ Lose({id}) /\ kept' = kept
        /\ peer' = [peer EXCEPT ![id] = [peer[id] EXCEPT !.timer = Off]]
    BY <1>3 DEF Expire
  <2>3. [peer[id] EXCEPT !.timer = Off] \in Peer
    <3>1. peer[id] \in Peer /\ Off \in Off..PeerTimeout
      BY Domains, Constants DEF Off
    <3>. QED
      BY <3>1, Zenon DEF Peer
  <2>4. peer' \in Seq(Peer) /\ Len(peer') = Len(peer) /\ DOMAIN peer' = DOMAIN peer
    BY <1>0, <2>2, <2>3 DEF List
  <2>5. List'
    BY <1>0, <2>2, <2>4, LoseEffects DEF List
  <2>. QED
    BY <1>00, <2>1, <2>5
<1>4. CASE Probe
  <2>1. Other'
    BY <1>0, <1>4, Constants DEF Probe, Send, environment
  <2>. QED
    BY <1>00, <1>01, <1>4, <2>1 DEF Probe
<1>5. ASSUME NEW outcome \in {"success", "failure"}, AnswerProbe(outcome)
      PROVE  TypeOK'
  <2>1. (outcome = "success") \in BOOLEAN
    OBVIOUS
  <2>2. signals' \in Seq(BOOLEAN)
    <3>1. ASSUME NEW b \in BOOLEAN PROVE Append(signals, b) \in Seq(BOOLEAN)
      BY <1>0
    <3>2. Append(signals, outcome = "success") \in Seq(BOOLEAN)
      BY <2>1, <3>1, Zenon
    <3>. QED
      BY <1>0, <1>5, <3>2, Zenon DEF AnswerProbe
  <2>3. answers' \in [{"success", "failure"} -> 0..MaxProbes]
    BY <1>0, <1>5, Constants DEF AnswerProbe
  <2>4. Other'
    BY <1>0, <1>5, <2>2, <2>3 DEF AnswerProbe, environment
  <2>. QED
    BY <1>00, <1>01, <1>5, <2>4 DEF AnswerProbe
<1>6. ASSUME NEW id \in DOMAIN peer, Drop(id)
      PROVE  TypeOK'
  <2>1. Other'
    BY <1>0, <1>6 DEF Drop, proberVars, environment
  <2>2. List'
    BY <1>0, <1>6 DEF Drop, List
  <2>. QED
    BY <1>00, <2>1, <2>2
<1>7. CASE Destroy
  <2>0. /\ sender' \in [Host -> [on : BOOLEAN, pause : 0..RetryAfter, lost : 0..MaxLost]]
        /\ signals' \in Seq(BOOLEAN)
    BY <1>7, Constants DEF Destroy, Silent
  <2>1. Other'
    <3>1. probePause' \in 0..ProbeEvery
      BY <1>7, Constants DEF Destroy
    <3>. QED
      BY <1>0, <1>7, <2>0, <3>1, Zenon DEF Destroy
  <2>2. List'
    BY <1>0, <1>7 DEF Destroy, List
  <2>. QED
    BY <1>00, <2>1, <2>2
<1>8. ASSUME NEW h \in Host, Start(h) \/ Stop(h) \/ Broadcast(h)
      PROVE  TypeOK'
  <2>1. sender' \in [Host -> [on : BOOLEAN, pause : 0..RetryAfter, lost : 0..MaxLost]]
    <3>1. CASE Start(h)
      BY <1>0, <3>1 DEF Start
    <3>2. CASE Stop(h)
      BY <1>0, <3>2, Constants DEF Stop
    <3>3. CASE Broadcast(h)
      <4>1. /\ sender[h] \in Sending /\ sender[h].lost \in 0..MaxLost
            /\ BroadcastEvery \in 0..RetryAfter /\ RetryAfter \in 0..RetryAfter
            /\ 0 \in 0..MaxLost
            /\ sender[h].lost < MaxLost => sender[h].lost + 1 \in 0..MaxLost
        BY <1>0, <1>02, Constants DEF Sending
      <4>2. \A s \in Sending : [sender EXCEPT ![h] = s] \in [Host -> Sending]
        BY <1>0 DEF Sending
      <4>3. \/ sender' = [sender EXCEPT ![h] = Waits(sender[h], BroadcastEvery, 0)]
            \/ /\ sender[h].lost < MaxLost
               /\ sender' = [sender EXCEPT ![h] =
                               Waits(sender[h], BroadcastEvery, sender[h].lost + 1)]
            \/ sender' = [sender EXCEPT ![h] =
                            Waits(sender[h], RetryAfter, sender[h].lost)]
        <5>1. [sender[h] EXCEPT !.pause = RetryAfter]
                 = Waits(sender[h], RetryAfter, sender[h].lost)
          BY <4>1 DEF Sending, Waits
        <5>. QED
          BY <3>3, <5>1 DEF Broadcast, Waits
      <4>4. sender' \in [Host -> Sending]
        BY <4>1, <4>2, <4>3, WaitsType
      <4>. QED
        BY <4>4 DEF Sending
    <3>. QED
      BY <1>8, <3>1, <3>2, <3>3
  <2>2. Other'
    BY <1>0, <1>8, <2>1 DEF Start, Stop, Broadcast, proberVars
  <2>3. UNCHANGED peerVars
    BY <1>8 DEF Start, Stop, Broadcast
  <2>. QED
    BY <1>00, <1>01, <2>2, <2>3
<1>9. CASE Forward
  <2>1. Other'
    BY <1>0, <1>9 DEF Forward, proberVars
  <2>. QED
    BY <1>00, <1>01, <1>9, <2>1 DEF Forward
<1>10. CASE Tick
  <2>1. sender' \in [Host -> [on : BOOLEAN, pause : 0..RetryAfter, lost : 0..MaxLost]]
    <3>1. ASSUME NEW h \in Host
          PROVE  [sender[h] EXCEPT !.pause = Less(@)]
                    \in [on : BOOLEAN, pause : 0..RetryAfter, lost : 0..MaxLost]
      <4>1. sender[h] \in [on : BOOLEAN, pause : 0..RetryAfter, lost : 0..MaxLost]
        BY <1>0
      <4>2. Less(sender[h].pause) \in 0..RetryAfter
        BY <1>02, <4>1, Constants DEF Less
      <4>. QED
        BY <4>1, <4>2, Zenon
    <3>. QED
      BY <1>10, <3>1 DEF Tick
  <2>2. probePause' \in 0..ProbeEvery
    BY <1>0, <1>10, Constants DEF Tick, Less
  <2>3. Other'
    BY <1>0, <1>10, <2>1, <2>2 DEF Tick
  <2>4. peer' \in Seq(Peer) /\ Len(peer') = Len(peer) /\ DOMAIN peer' = DOMAIN peer
    <3>. DEFINE aged(id) == [peer[id] EXCEPT !.timer =
                               IF Exists(id) /\ @ # Off THEN @ - 1 ELSE Off]
    <3>1. ASSUME NEW id \in DOMAIN peer PROVE aged(id) \in Peer
      <4>1. /\ peer[id] \in Peer
            /\ peer[id].timer \in Off..PeerTimeout
            /\ Exists(id) => peer[id].timer # 0
        BY <1>10, Domains DEF Tick, Busy, TimerDue
      <4>2. (IF Exists(id) /\ peer[id].timer # Off THEN peer[id].timer - 1 ELSE Off)
               \in Off..PeerTimeout
        BY <4>1, Constants DEF Off
      <4>. QED
        BY <4>1, <4>2, Zenon DEF Peer
    <3>2. DOMAIN peer = 1..Len(peer) /\ Len(peer) \in Nat
      BY Domains
    <3>3. peer' = [id \in 1..Len(peer) |-> aged(id)]
      BY <1>10, <3>2 DEF Tick
    <3>. HIDE DEF aged
    <3>. QED
      BY <3>1, <3>2, <3>3
  <2>5. List'
    BY <1>0, <1>10, <2>4 DEF Tick, List
  <2>. QED
    BY <1>00, <2>3, <2>5
<1>11. CASE UNCHANGED vars
  BY <1>0, <1>00, <1>01, <1>11 DEF vars, peerVars
<1>. QED
  BY <1>1, <1>2, <1>3, <1>4, <1>5, <1>6, <1>7, <1>8, <1>9, <1>10, <1>11
     DEF Next, Dispatch

-----------------------------------------------------------------------------
(* What the user was told *)

LEMMA ToldKept == TypeOK /\ Told /\ [Next]_vars => Told'
<1>. SUFFICES ASSUME TypeOK, Told, [Next]_vars
              PROVE  Told'
  OBVIOUS
<1>0. /\ DOMAIN peer = 1..Len(peer) /\ DOMAIN told = DOMAIN peer
      /\ peers \subseteq DOMAIN peer
      /\ \A id \in DOMAIN peer :
            /\ peer[id] \in Peer /\ told[id] \in Nat
            /\ peer[id].host \in Host \cup {LocalHost}
            /\ peer[id].timer \in Off..PeerTimeout
      /\ peer \in Seq(Peer)
      /\ LocalHost \notin Host
      /\ manager \in {"running", "destroyed"}
  BY Domains, HostAssumption DEF TypeOK, Peer
<1>01. ASSUME UNCHANGED <<manager, peers, peer, told>> PROVE Told'
  BY <1>01 DEF Told
<1>1. ASSUME NEW h \in Host, AcceptUdpBroadcast(h)
      PROVE  Told'
  BY <1>1, HearEffects DEF AcceptUdpBroadcast
<1>2. CASE PortForwardedPeerProbe
  <2>0. manager = "running" /\ manager' = manager
    BY <1>2 DEF PortForwardedPeerProbe
  <2>1. CASE Hear(LocalHost)
    BY <2>0, <2>1, HearEffects
  <2>2. CASE Lose(PeersOf(LocalHost)) /\ UNCHANGED <<peer, kept>>
    <3>. DEFINE ids == PeersOf(LocalHost)
    <3>1. /\ peers' = peers \ ids
          /\ DOMAIN told' = DOMAIN peer
          /\ \A id \in DOMAIN peer :
                told'[id] = told[id] + IF id \in ids THEN 1 ELSE 0
      BY <1>0, <2>2, LoseEffects DEF PeersOf
    <3>2. \A id \in ids : id \in peers /\ peer[id].host = LocalHost /\ told[id] = 0
      BY <2>0 DEF PeersOf, Told
    <3>. HIDE DEF ids
    <3>3. peer' = peer
      BY <2>2
    <3>4. peers' = {id \in DOMAIN peer' : told'[id] = 0}
      BY <1>0, <2>0, <3>1, <3>3 DEF Told
    <3>5. \A id \in DOMAIN peer' :
             /\ told'[id] <= 2
             /\ told'[id] >= 1 /\ peer'[id].host \in Host => peer'[id].timer = Off
             /\ told'[id] = 2 => peer'[id].timer = Off /\ peer'[id].host = LocalHost
      <4>. SUFFICES ASSUME NEW id \in DOMAIN peer
                    PROVE  /\ told'[id] <= 2
                           /\ told'[id] >= 1 /\ peer[id].host \in Host
                                 => peer[id].timer = Off
                           /\ told'[id] = 2 => /\ peer[id].timer = Off
                                               /\ peer[id].host = LocalHost
        BY <3>3
      <4>1. CASE id \in ids
        BY <1>0, <3>1, <3>2, <4>1
      <4>2. CASE id \notin ids
        BY <1>0, <3>1, <4>2 DEF Told
      <4>. QED
        BY <4>1, <4>2
    <3>6. /\ \A id \in peers' : peer'[id].timer # Off
          /\ \A id, other \in peers' : peer'[id].host = peer'[other].host => id = other
      BY <3>1, <3>3 DEF Told
    <3>. QED
      BY <2>0, <3>4, <3>5, <3>6 DEF Told
  <2>. QED
    BY <1>2, <2>1, <2>2 DEF PortForwardedPeerProbe
<1>3. ASSUME NEW id \in DOMAIN peer, Expire(id)
      PROVE  Told'
  <2>0. /\ manager = "running" /\ manager' = manager
        /\ peer[id].timer = 0 /\ Lose({id})
        /\ peer' = [peer EXCEPT ![id] = [peer[id] EXCEPT !.timer = Off]]
    BY <1>3 DEF Expire, TimerDue
  <2>1. /\ peers' = peers \ {id}
        /\ DOMAIN told' = DOMAIN peer
        /\ \A other \in DOMAIN peer :
              told'[other] = told[other] + IF other \in {id} THEN 1 ELSE 0
    BY <2>0, LoseEffects
  <2>2. /\ DOMAIN peer' = DOMAIN peer
        /\ peer'[id].host = peer[id].host /\ peer'[id].timer = Off
        /\ \A other \in DOMAIN peer \ {id} : peer'[other] = peer[other]
    BY <1>0, <2>0 DEF Peer
  <2>3. told[id] \in {0, 1} /\ (told[id] = 1 => peer[id].host = LocalHost)
    BY <1>0, <2>0 DEF Told, Off
  <2>4. peers' = {other \in DOMAIN peer' : told'[other] = 0}
    BY <1>0, <2>0, <2>1, <2>2, <2>3 DEF Told
  <2>5. \A other \in DOMAIN peer' :
           /\ told'[other] <= 2
           /\ told'[other] >= 1 /\ peer'[other].host \in Host => peer'[other].timer = Off
           /\ told'[other] = 2 => /\ peer'[other].timer = Off
                                  /\ peer'[other].host = LocalHost
    <3>. SUFFICES ASSUME NEW other \in DOMAIN peer
                  PROVE  /\ told'[other] <= 2
                         /\ told'[other] >= 1 /\ peer'[other].host \in Host
                               => peer'[other].timer = Off
                         /\ told'[other] = 2 => /\ peer'[other].timer = Off
                                                /\ peer'[other].host = LocalHost
      BY <2>2
    <3>1. CASE other = id
      BY <2>1, <2>2, <2>3, <3>1
    <3>2. CASE other # id
      <4>1. told'[other] = told[other] /\ peer'[other] = peer[other]
        BY <1>0, <2>1, <2>2, <3>2
      <4>. QED
        BY <4>1 DEF Told
    <3>. QED
      BY <3>1, <3>2
  <2>6. /\ \A other \in peers' : peer'[other].timer # Off
        /\ \A i, j \in peers' : peer'[i].host = peer'[j].host => i = j
    <3>1. \A other \in peers' : /\ other \in peers /\ other \in DOMAIN peer \ {id}
                                /\ peer'[other] = peer[other]
      BY <1>0, <2>1, <2>2
    <3>. QED
      BY <3>1 DEF Told
  <2>. QED
    BY <2>0, <2>4, <2>5, <2>6 DEF Told
<1>4. CASE Probe
  BY <1>4, <1>01 DEF Probe, peerVars
<1>5. ASSUME NEW outcome \in {"success", "failure"}, AnswerProbe(outcome)
      PROVE  Told'
  BY <1>5, <1>01 DEF AnswerProbe, peerVars
<1>6. ASSUME NEW id \in DOMAIN peer, Drop(id)
      PROVE  Told'
  BY <1>6, <1>01 DEF Drop
<1>7. CASE Destroy
  <2>1. manager' = "destroyed" /\ peers' = {} /\ UNCHANGED <<peer, told>>
    BY <1>7 DEF Destroy
  <2>. QED
    BY <2>1 DEF Told
<1>8. ASSUME NEW h \in Host, Start(h) \/ Stop(h) \/ Broadcast(h)
      PROVE  Told'
  BY <1>8, <1>01 DEF Start, Stop, Broadcast, peerVars
<1>9. CASE Forward
  BY <1>9, <1>01 DEF Forward, peerVars
<1>10. CASE Tick
  <2>0. UNCHANGED <<manager, peers, told>>
    BY <1>10 DEF Tick
  <2>1. DOMAIN peer' = DOMAIN peer
    BY <1>10 DEF Tick
  <2>2. ASSUME NEW id \in DOMAIN peer
        PROVE  /\ peer'[id].host = peer[id].host
               /\ peer[id].timer = Off => peer'[id].timer = Off
               /\ id \in peers => peer'[id].timer # Off
    <3>1. peer'[id] = [peer[id] EXCEPT !.timer =
                         IF Exists(id) /\ peer[id].timer # Off
                           THEN peer[id].timer - 1 ELSE Off]
      BY <1>10 DEF Tick
    <3>2. /\ peer'[id].host = peer[id].host
          /\ peer'[id].timer = IF Exists(id) /\ peer[id].timer # Off
                                 THEN peer[id].timer - 1 ELSE Off
      BY <1>0, <3>1 DEF Peer
    <3>3. id \in peers => /\ Exists(id) /\ peer[id].timer # 0
                          /\ peer[id].timer # Off
      BY <1>10 DEF Tick, Busy, TimerDue, Exists, Told
    <3>. QED
      BY <1>0, <3>2, <3>3 DEF Off
  <2>3. /\ \A id \in peers : peer'[id].timer # Off
        /\ \A i, j \in peers : peer'[i].host = peer'[j].host => i = j
    BY <1>0, <2>2 DEF Told
  <2>4. \A id \in DOMAIN peer' :
           /\ told'[id] <= 2
           /\ told'[id] >= 1 /\ peer'[id].host \in Host => peer'[id].timer = Off
           /\ told'[id] = 2 => peer'[id].timer = Off /\ peer'[id].host = LocalHost
    BY <2>0, <2>1, <2>2 DEF Told
  <2>5. /\ manager' = "running" => peers' = {id \in DOMAIN peer' : told'[id] = 0}
        /\ manager' = "destroyed" => peers' = {}
    BY <2>0, <2>1 DEF Told
  <2>. QED
    BY <2>0, <2>3, <2>4, <2>5 DEF Told
<1>11. CASE UNCHANGED vars
  BY <1>11, <1>01 DEF vars
<1>. QED
  BY <1>1, <1>2, <1>3, <1>4, <1>5, <1>6, <1>7, <1>8, <1>9, <1>10, <1>11
     DEF Next, Dispatch

-----------------------------------------------------------------------------
(* When a host was last heard *)

(* The time that MaxLost lost datagrams, and the one that comes, may take. *)
(* In the code the pause is 1 s and the timeout 4.5 s: MaxLost is 3.       *)
TimeoutBearsLosses == (MaxLost + 1) * BroadcastEvery < PeerTimeout

LEMMA HeardKept ==
    ASSUME TimeoutBearsLosses
    PROVE  TypeOK /\ Told /\ Heard /\ [Next]_vars => Heard'
<1>. SUFFICES ASSUME TypeOK, Told, Heard, [Next]_vars
              PROVE  Heard'
  OBVIOUS
<1>0. /\ peers \subseteq DOMAIN peer
      /\ \A id \in DOMAIN peer :
            /\ peer[id] \in Peer
            /\ peer[id].host \in Host \cup {LocalHost}
            /\ peer[id].timer \in Int
      /\ datagrams \subseteq Host /\ quiet \subseteq Host
      /\ LocalHost \notin Host
      /\ sender \in [Host -> Sending]
  <2>1. \A id \in DOMAIN peer : /\ peer[id] \in Peer
                                /\ peer[id].host \in Host \cup {LocalHost}
                                /\ peer[id].timer \in Off..PeerTimeout
    BY Domains
  <2>2. \A id \in DOMAIN peer : peer[id].timer \in Int
    BY <2>1, Constants DEF Off
  <2>3. sender \in [Host -> Sending] /\ datagrams \subseteq Host /\ quiet \subseteq Host
        /\ peers \subseteq DOMAIN peer
    BY DEF TypeOK, Sending
  <2>. QED
    BY <2>1, <2>2, <2>3, HostAssumption
<1>00. \A h \in Host : /\ sender[h] \in Sending /\ sender[h].on \in BOOLEAN
                       /\ sender[h].pause \in Nat /\ sender[h].lost \in Nat
                       /\ sender[h].lost <= MaxLost
  BY <1>0, Constants DEF Sending
<1>01. PeerTimeout > BroadcastEvery + Span(MaxLost)
  <2>1. PeerTimeout > Span(MaxLost + 1)
    BY Spans, Constants DEF Span, TimeoutBearsLosses
  <2>. QED
    BY <2>1, Spans, Constants
<1>02. \A h \in Host : Span(MaxLost - sender[h].lost) \in Nat
  <2>1. \A h \in Host : MaxLost - sender[h].lost \in Nat
    BY <1>00, Constants
  <2>. QED
    BY <2>1, Spans
<1>03. ASSUME peers' \subseteq peers, UNCHANGED <<datagrams, sender, quiet>>,
              \A id \in peers' : peer'[id] = peer[id]
       PROVE  Heard'
  BY <1>03 DEF Heard, Covered
(* A host that is heard has just begun its pause. *)
<1>04. ASSUME NEW host \in Host \cup {LocalHost}, manager = "running", manager' = manager,
              Hear(host), sender' = sender,
              \/ host \in datagrams /\ datagrams' = datagrams \ {host}
                 /\ quiet' = IF sender[host].on THEN quiet \ {host} ELSE quiet
              \/ host = LocalHost /\ UNCHANGED <<datagrams, quiet>>
       PROVE  Heard'
  <2>1. \A h \in Host : ~sender'[h].on => h \in quiet'
    BY <1>0, <1>04 DEF Heard
  <2>2. \A h \in datagrams' :
           /\ sender'[h].pause > 0
           /\ sender'[h].on => sender'[h].pause = BroadcastEvery /\ sender'[h].lost = 0
    BY <1>04 DEF Heard
  <2>3. ASSUME NEW id \in peers', peer'[id].host \in Host \ quiet'
        PROVE  /\ peer'[id].timer > 0
               /\ \/ peer'[id].host \in datagrams'
                  \/ Covered(peer'[id].timer, sender'[peer'[id].host])
    <3>1. CASE peer'[id].host = host /\ peer'[id].timer = PeerTimeout
      <4>1. host \in datagrams /\ sender[host].on
        BY <1>0, <1>04, <2>3, <3>1 DEF Heard
      <4>2. sender[host].pause = BroadcastEvery /\ sender[host].lost = 0
        BY <4>1 DEF Heard
      <4>3. MaxLost - 0 = MaxLost
        BY Constants
      <4>4. Covered(PeerTimeout, sender[host])
        BY <1>01, <4>2, <4>3 DEF Covered
      <4>. QED
        BY <1>04, <3>1, <4>4, Constants
    <3>2. CASE id \in peers /\ peer'[id].host # host /\ peer'[id] = peer[id]
      <4>1. peer[id].host \in Host \ quiet
        BY <1>04, <2>3, <3>2
      <4>. QED
        BY <1>04, <3>2, <4>1 DEF Heard
    <3>. QED
      BY <1>04, <3>1, <3>2, HearEffects
  <2>. QED
    BY <2>1, <2>2, <2>3 DEF Heard
<1>1. ASSUME NEW h \in Host, AcceptUdpBroadcast(h)
      PROVE  Heard'
  BY <1>1, <1>04 DEF AcceptUdpBroadcast, environment
<1>2. CASE PortForwardedPeerProbe
  <2>1. CASE Hear(LocalHost)
    BY <1>2, <1>04, <2>1 DEF PortForwardedPeerProbe, environment
  <2>2. CASE Lose(PeersOf(LocalHost)) /\ UNCHANGED <<peer, kept>>
    BY <1>2, <1>03, <2>2 DEF PortForwardedPeerProbe, environment, Lose
  <2>. QED
    BY <1>2, <2>1, <2>2 DEF PortForwardedPeerProbe
<1>3. ASSUME NEW id \in DOMAIN peer, Expire(id)
      PROVE  Heard'
  <2>1. /\ peers' = peers \ {id} /\ UNCHANGED <<datagrams, sender, quiet>>
        /\ peer' = [peer EXCEPT ![id] = [peer[id] EXCEPT !.timer = Off]]
    BY <1>3 DEF Expire, environment, Lose
  <2>2. \A other \in peers' : peer'[other] = peer[other]
    BY <1>0, <2>1
  <2>. QED
    BY <1>03, <2>1, <2>2
<1>4. CASE Probe
  BY <1>4, <1>03 DEF Probe, peerVars, environment
<1>5. ASSUME NEW outcome \in {"success", "failure"}, AnswerProbe(outcome)
      PROVE  Heard'
  BY <1>5, <1>03 DEF AnswerProbe, peerVars, environment
<1>6. ASSUME NEW id \in DOMAIN peer, Drop(id)
      PROVE  Heard'
  BY <1>6, <1>03 DEF Drop, environment
<1>7. CASE Destroy
  BY <1>7 DEF Destroy, Heard
<1>8. ASSUME NEW h \in Host, Start(h)
      PROVE  Heard'
  <2>1. /\ ~sender[h].on /\ sender[h].pause = 0
        /\ UNCHANGED <<peers, peer, datagrams, quiet>>
        /\ \A other \in Host \ {h} : sender'[other] = sender[other]
    BY <1>0, <1>8 DEF Start, peerVars
  <2>2. h \in quiet /\ h \notin datagrams
    BY <2>1 DEF Heard
  <2>3. \A other \in Host : ~sender'[other].on => other \in quiet'
    BY <2>1, <2>2 DEF Heard
  <2>4. \A other \in datagrams' :
           /\ sender'[other].pause > 0
           /\ sender'[other].on => /\ sender'[other].pause = BroadcastEvery
                                   /\ sender'[other].lost = 0
    BY <1>0, <2>1, <2>2 DEF Heard
  <2>5. \A id \in peers' : peer'[id].host \in Host \ quiet' =>
                sender'[peer'[id].host] = sender[peer[id].host]
    BY <2>1, <2>2
  <2>. QED
    BY <2>1, <2>3, <2>4, <2>5 DEF Heard
<1>9. ASSUME NEW h \in Host, Stop(h)
      PROVE  Heard'
  <2>1. /\ quiet' = quiet \cup {h} /\ UNCHANGED <<peers, peer, datagrams>>
        /\ sender'[h] = [on |-> FALSE, pause |-> 1, lost |-> 0]
        /\ \A other \in Host \ {h} : sender'[other] = sender[other]
    BY <1>0, <1>9 DEF Stop, peerVars
  <2>2. \A other \in Host : ~sender'[other].on => other \in quiet'
    BY <2>1 DEF Heard
  <2>3. \A other \in datagrams' :
           /\ sender'[other].pause > 0
           /\ sender'[other].on => /\ sender'[other].pause = BroadcastEvery
                                   /\ sender'[other].lost = 0
    BY <1>0, <2>1 DEF Heard
  <2>4. \A id \in peers' : peer'[id].host \in Host \ quiet' =>
           /\ peer[id].host \in Host \ quiet
           /\ sender'[peer'[id].host] = sender[peer[id].host]
    BY <2>1
  <2>. QED
    BY <2>1, <2>2, <2>3, <2>4 DEF Heard
<1>10. ASSUME NEW h \in Host, Broadcast(h)
       PROVE  Heard'
  <2>1. /\ sender[h].on /\ sender[h].pause = 0
        /\ UNCHANGED <<peers, peer>>
        /\ \A other \in Host \ {h} : sender'[other] = sender[other]
        /\ sender'[h].on
    BY <1>0, <1>00, <1>10 DEF Broadcast, peerVars, Sending
  <2>2. h \notin datagrams
    BY <2>1 DEF Heard
  <2>3. \/ /\ datagrams' = datagrams \cup {h} /\ quiet' = quiet
           /\ sender'[h].pause = BroadcastEvery /\ sender'[h].lost = 0
        \/ /\ UNCHANGED <<datagrams, quiet>>
           /\ sender[h].lost < MaxLost
           /\ sender'[h].pause = BroadcastEvery
           /\ sender'[h].lost = sender[h].lost + 1
        \/ quiet' = quiet \cup {h} /\ datagrams' = datagrams
    BY <1>0, <1>00, <1>10 DEF Broadcast, Sending
  <2>4. \A other \in Host : ~sender'[other].on => other \in quiet'
    BY <2>1, <2>3 DEF Heard
  <2>5. \A other \in datagrams' :
           /\ sender'[other].pause > 0
           /\ sender'[other].on => /\ sender'[other].pause = BroadcastEvery
                                   /\ sender'[other].lost = 0
    BY <1>0, <2>1, <2>2, <2>3, Constants DEF Heard
  <2>6. ASSUME NEW id \in peers, peer[id].host \in Host \ quiet'
        PROVE  /\ peer[id].timer > 0
               /\ \/ peer[id].host \in datagrams'
                  \/ Covered(peer[id].timer, sender'[peer[id].host])
    <3>0. peer[id].timer > 0 /\ peer[id].host \in Host \ quiet
      BY <2>3, <2>6 DEF Heard
    <3>1. CASE peer[id].host # h
      BY <2>1, <2>3, <3>0, <3>1 DEF Heard
    <3>2. CASE peer[id].host = h
      <4>1. peer[id].timer > Span(MaxLost - sender[h].lost)
        BY <1>00, <1>02, <2>1, <2>2, <3>0, <3>2 DEF Heard, Covered
      <4>2. CASE h \in datagrams'
        BY <3>0, <3>2, <4>2
      <4>3. CASE h \notin datagrams'
        <5>1. /\ sender[h].lost < MaxLost
              /\ sender'[h].pause = BroadcastEvery
              /\ sender'[h].lost = sender[h].lost + 1
          BY <2>3, <2>6, <3>2, <4>3
        <5>2. /\ MaxLost - sender'[h].lost \in Nat
              /\ MaxLost - sender[h].lost = (MaxLost - sender'[h].lost) + 1
          BY <1>00, <5>1, Constants
        <5>3. Span(MaxLost - sender[h].lost)
                 = Span(MaxLost - sender'[h].lost) + BroadcastEvery
          BY <5>2, Spans
        <5>4. Span(MaxLost - sender'[h].lost) \in Nat
          BY <5>2, Spans
        <5>. QED
          BY <1>0, <3>0, <3>2, <4>1, <5>1, <5>3, <5>4, Constants DEF Covered
      <4>. QED
        BY <4>2, <4>3
    <3>. QED
      BY <3>1, <3>2
  <2>. QED
    BY <2>1, <2>4, <2>5, <2>6 DEF Heard
<1>11. CASE Forward
  BY <1>11, <1>03 DEF Forward, peerVars
<1>12. CASE Tick
  <2>0. /\ UNCHANGED <<peers, datagrams, quiet>>
        /\ datagrams = {}
        /\ \A h \in Host : sender[h].on => sender[h].pause > 0
    BY <1>00, <1>12 DEF Tick, Busy
  <2>1. \A h \in Host : /\ sender'[h].on = sender[h].on
                        /\ sender'[h].lost = sender[h].lost
                        /\ sender'[h].pause = Less(sender[h].pause)
    BY <1>00, <1>12 DEF Tick, Sending
  <2>2. \A h \in Host : ~sender'[h].on => h \in quiet'
    BY <2>0, <2>1 DEF Heard
  <2>3. ASSUME NEW id \in peers', peer'[id].host \in Host \ quiet'
        PROVE  /\ peer'[id].timer > 0
               /\ Covered(peer'[id].timer, sender'[peer'[id].host])
    <3>1. /\ id \in peers /\ id \in DOMAIN peer /\ Exists(id)
          /\ peer[id].timer # Off
      BY <1>0, <2>0 DEF Exists, Told
    <3>2. peer'[id] = [peer[id] EXCEPT !.timer = peer[id].timer - 1]
      BY <1>12, <3>1 DEF Tick
    <3>3. peer'[id].host = peer[id].host /\ peer'[id].timer = peer[id].timer - 1
      BY <1>0, <3>1, <3>2 DEF Peer
    <3>. DEFINE h == peer[id].host
    <3>4. h \in Host \ quiet
      BY <2>0, <2>3, <3>3
    <3>5. sender[h].on /\ sender[h].pause > 0
      BY <2>0, <3>4 DEF Heard
    <3>6. peer[id].timer > sender[h].pause + Span(MaxLost - sender[h].lost)
      BY <2>0, <3>1, <3>4 DEF Heard, Covered
    <3>7. sender'[h].pause = sender[h].pause - 1 /\ sender'[h].lost = sender[h].lost
      BY <1>00, <2>1, <3>4, <3>5 DEF Less
    <3>8. /\ sender[h].pause \in Nat /\ peer[id].timer \in Int
          /\ Span(MaxLost - sender[h].lost) \in Nat
      BY <1>0, <1>00, <1>02, <3>1, <3>4
    <3>9. Covered(peer[id].timer - 1, sender'[h])
      BY <3>5, <3>6, <3>7, <3>8 DEF Covered
    <3>10. peer[id].timer - 1 > 0
      BY <3>5, <3>6, <3>8
    <3>. QED
      BY <3>3, <3>9, <3>10
  <2>. QED
    BY <2>0, <2>2, <2>3 DEF Heard
<1>13. CASE UNCHANGED vars
  BY <1>13, <1>03 DEF vars
<1>. QED
  BY <1>1, <1>2, <1>3, <1>4, <1>5, <1>6, <1>7, <1>8, <1>9, <1>10, <1>11,
     <1>12, <1>13
     DEF Next, Dispatch

-----------------------------------------------------------------------------
(* The theorems *)

PeersInv == TypeOK /\ Told

LEMMA AlwaysPeersInv == Spec => []PeersInv
<1>1. Init => PeersInv
  <2>1. Init => Told
    BY DEF Init, Told
  <2>. QED
    BY <2>1, TypesInitially DEF PeersInv
<1>2. PeersInv /\ [Next]_vars => PeersInv'
  BY TypesKept, ToldKept DEF PeersInv
<1>. QED
  BY <1>1, <1>2, PTL DEF Spec

(* The types of the state hold always: no timer is armed beyond the        *)
(* timeout, and a timer that is due is handled before it could run further.*)
THEOREM PeerTypesCorrect == Spec => []TypeOK
<1>1. PeersInv => TypeOK
  BY DEF PeersInv
<1>. QED
  BY <1>1, AlwaysPeersInv, PTL

(* What the user was told, discoveries less losses, is the list, with one  *)
(* peer of a host whose timer runs; a second loss is told only of a peer   *)
(* of the forwarded port that a failed probe removed and the user held.    *)
THEOREM UserIsToldOfPeers == Spec => []UserSeesPeers
<1>1. ASSUME TypeOK, Told
      PROVE  UserSeesPeers
  <2>0. /\ peers \subseteq DOMAIN peer
        /\ \A id \in DOMAIN peer : /\ told[id] \in Nat
                                   /\ peer[id].host \in Host \cup {LocalHost}
    BY <1>1, Domains
  <2>1. ASSUME NEW id \in peers
        PROVE  PeersOf(peer[id].host) = {id}
    BY <1>1 DEF Told, PeersOf
  <2>2. ASSUME NEW id \in DOMAIN peer
        PROVE  \/ told[id] <= 1
               \/ told[id] = 2 /\ peer[id].host = LocalHost /\ peer[id].timer = Off
    <3>0. told[id] \in Nat /\ told[id] <= 2
      BY <1>1, <2>0 DEF Told
    <3>. QED
      BY <1>1, <2>0, <3>0 DEF Told
  <2>. QED
    BY <1>1, <2>1, <2>2 DEF UserSeesPeers, Told
<1>2. PeersInv => UserSeesPeers
  BY <1>1 DEF PeersInv
<1>. QED
  BY <1>2, AlwaysPeersInv, PTL
(* If the timeout bears MaxLost lost datagrams, a host's peer is lost only *)
(* when the host stopped or failed to send since it was last heard: no     *)
(* order of datagrams, timers, probes and losses loses a client that goes  *)
(* on broadcasting.                                                        *)
THEOREM OnlyQuietAreLost ==
    ASSUME TimeoutBearsLosses
    PROVE  Spec => LostOnlyIfQuiet
<1>1. Init => Heard
  BY DEF Init, Heard, Silent
<1>2. PeersInv /\ Heard /\ [Next]_vars => Heard'
  BY HeardKept DEF PeersInv
<1>3. Spec => []Heard
  BY <1>1, <1>2, AlwaysPeersInv, PTL DEF Spec
<1>. DEFINE Step == \A id \in DOMAIN peer :
                       (peer[id].host \in Host /\ told'[id] > told[id])
                          => peer[id].host \in quiet
<1>4. PeersInv /\ Heard /\ [Next]_vars => [Step]_vars
  <2>. SUFFICES ASSUME TypeOK, Told, Heard, Next, NEW id \in DOMAIN peer,
                       peer[id].host \in Host, told'[id] > told[id]
                PROVE  peer[id].host \in quiet
    BY DEF PeersInv
  <2>0. /\ told[id] \in Nat
        /\ peer[id].timer \in Off..PeerTimeout
        /\ LocalHost \notin Host
        /\ peers \subseteq DOMAIN peer
    BY Domains, HostAssumption
  <2>1. CASE \E h \in Host : AcceptUdpBroadcast(h)
    <3>1. told'[id] = told[id]
      BY <2>1, HearEffects DEF AcceptUdpBroadcast
    <3>. QED
      BY <2>0, <3>1
  <2>2. CASE PortForwardedPeerProbe
    <3>1. CASE Hear(LocalHost)
      <4>1. told'[id] = told[id]
        BY <2>2, <3>1, HearEffects DEF PortForwardedPeerProbe
      <4>. QED
        BY <2>0, <4>1
    <3>2. CASE Lose(PeersOf(LocalHost))
      <4>1. PeersOf(LocalHost) \subseteq DOMAIN peer /\ id \notin PeersOf(LocalHost)
        BY <2>0 DEF PeersOf
      <4>2. told'[id] = told[id] + 0
        BY <3>2, <4>1, LoseEffects
      <4>. QED
        BY <2>0, <4>2
    <3>. QED
      BY <2>2, <3>1, <3>2 DEF PortForwardedPeerProbe
  <2>3. ASSUME NEW other \in DOMAIN peer, Expire(other)
        PROVE  peer[id].host \in quiet
    <3>1. /\ \A i \in DOMAIN peer :
                told'[i] = told[i] + IF i \in {other} THEN 1 ELSE 0
          /\ peer[other].timer = 0 /\ manager = "running"
      BY <2>3, LoseEffects DEF Expire, TimerDue
    <3>2. id = other /\ peer[id].timer = 0
      BY <2>0, <3>1
    <3>3. id \in peers
      BY <2>0, <3>1, <3>2 DEF Told, Off
    <3>. QED
      BY <3>2, <3>3 DEF Heard
  <2>4. CASE told' = told
    BY <2>0, <2>4
  <2>. QED
    BY <2>1, <2>2, <2>3, <2>4
       DEF Next, Dispatch, Probe, AnswerProbe, Drop, Destroy, Start, Stop,
           Broadcast, Forward, Tick, peerVars
<1>. HIDE DEF Step
<1>5. Spec => [][Step]_vars
  BY <1>3, <1>4, AlwaysPeersInv, PTL DEF Spec
<1>. QED
  BY <1>5 DEF LostOnlyIfQuiet, Step
===============================================================================
