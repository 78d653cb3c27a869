------------------------ MODULE RequestDeliveryProofs ------------------------
(***************************************************************************)
(* For any finite set of channels, any number of queues kept and any number*)
(* of requests: RequestDelivery implements OrderedExecution, keeps every   *)
(* request in one place, and strands no command unless a queue is evicted. *)
(*                                                                         *)
(* The strengthening relates the two counters of a channel.  The queue's   *)
(* next_serial_ is the number of requests executed, or 0 for a queue that  *)
(* is new after an eviction; every request that could still be executed    *)
(* has a serial number that was not executed.  So a command that is due is *)
(* always the next one in order, with or without evictions.                *)
(***************************************************************************)
EXTENDS RequestDelivery, FiniteSetTheorems, SequenceTheorems, TLAPS

Sorted(l) == \A i, j \in 1..Len(l) : i < j => l[i] < l[j]

(* The requests that were issued and whose handler has not run. *)
Unexecuted == network \cup checked \cup Held \cup aborted

Counters ==
    \A c \in Channel :
       /\ Len(executed[c]) <= serial[c]
       /\ \A i \in 1..Len(executed[c]) : executed[c][i] = i - 1
       /\ next[c] \in {0, Len(executed[c])}
       /\ Sorted(list[c])

Ahead == \A r \in Unexecuted : /\ Len(executed[r[1]]) <= r[2]
                               /\ r[2] < serial[r[1]]

Apart == /\ network \cap (checked \cup Held \cup aborted) = {}
         /\ checked \cap (Held \cup aborted) = {}
         /\ Held \cap aborted = {}

Covered == Sent \subseteq Unexecuted \cup Executed \cup failed

Inv == TypeOK /\ Counters /\ Ahead /\ Apart /\ Covered

-----------------------------------------------------------------------------
(* Lemmas about the data *)

LEMMA RequestParts ==
    /\ \A r \in Request : r[1] \in Channel /\ r[2] \in Serial /\ r = <<r[1], r[2]>>
    /\ \A c \in Channel, s \in Serial :
          <<c, s>> \in Request /\ <<c, s>>[1] = c /\ <<c, s>>[2] = s
    /\ Serial \subseteq Nat
  BY BoundAssumption DEF Request, Serial

LEMMA EmptyMembers == Members(<<>>) = {}
  BY DEF Members

(* Appending adds one member and leaves the others in their places. *)
LEMMA AppendMembers ==
    ASSUME NEW l \in Seq(Serial), NEW s \in Serial
    PROVE  /\ Append(l, s) \in Seq(Serial)
           /\ Len(Append(l, s)) = Len(l) + 1
           /\ \A i \in 1..Len(l) : Append(l, s)[i] = l[i]
           /\ Append(l, s)[Len(l) + 1] = s
           /\ Members(Append(l, s)) = Members(l) \cup {s}
<1>1. /\ Append(l, s) \in Seq(Serial)
      /\ Len(Append(l, s)) = Len(l) + 1
      /\ \A i \in 1..Len(l) : Append(l, s)[i] = l[i]
      /\ Append(l, s)[Len(l) + 1] = s
      /\ Len(l) \in Nat
  BY AppendProperties, LenProperties
<1>2. Members(Append(l, s)) \subseteq Members(l) \cup {s}
  BY <1>1 DEF Members
<1>3. Members(l) \cup {s} \subseteq Members(Append(l, s))
  BY <1>1 DEF Members
<1>. QED
  BY <1>1, <1>2, <1>3

(* The head of a sorted list is its least member, and only the head goes    *)
(* when the list is cut to its tail.                                        *)
LEMMA TailMembers ==
    ASSUME NEW l \in Seq(Serial), l # <<>>, Sorted(l)
    PROVE  /\ Head(l) \in Members(l) /\ Head(l) \in Serial
           /\ Tail(l) \in Seq(Serial)
           /\ Sorted(Tail(l))
           /\ Members(Tail(l)) = Members(l) \ {Head(l)}
<1>1. /\ Len(l) \in Nat \ {0} /\ Head(l) = l[1] /\ l[1] \in Serial
      /\ Tail(l) \in Seq(Serial) /\ Len(Tail(l)) = Len(l) - 1
      /\ \A i \in 1..Len(Tail(l)) : Tail(l)[i] = l[i + 1]
      /\ \A i \in 1..Len(l) : l[i] \in Nat
  BY HeadTailProperties, EmptySeq, ElementOfSeq, RequestParts
<1>2. Head(l) \in Members(l)
  BY <1>1 DEF Members
<1>3. Sorted(Tail(l))
  BY <1>1 DEF Sorted
<1>4. Members(Tail(l)) \subseteq Members(l) \ {Head(l)}
  <2>. SUFFICES ASSUME NEW i \in 1..Len(Tail(l))
                PROVE  l[i + 1] \in Members(l) /\ l[i + 1] # l[1]
    BY <1>1 DEF Members
  <2>1. i + 1 \in 1..Len(l) /\ 1 \in 1..Len(l) /\ 1 < i + 1
    BY <1>1
  <2>. QED
    BY <1>1, <2>1 DEF Members, Sorted
<1>5. Members(l) \ {Head(l)} \subseteq Members(Tail(l))
  <2>. SUFFICES ASSUME NEW i \in 1..Len(l), l[i] # l[1]
                PROVE  l[i] \in Members(Tail(l))
    BY <1>1 DEF Members
  <2>1. i - 1 \in 1..Len(Tail(l)) /\ Tail(l)[i - 1] = l[i]
    BY <1>1
  <2>. QED
    BY <2>1 DEF Members
<1>. QED
  BY <1>1, <1>2, <1>3, <1>4, <1>5

(* Insert keeps the list sorted when the number is not in it. *)
LEMMA InsertMembers ==
    ASSUME NEW l \in Seq(Serial), NEW s \in Serial, NEW k \in 0..Len(l),
           ScanStopsAt(l, s, k), Sorted(l), s \notin Members(l)
    PROVE  /\ InsertAfter(l, s, k) \in Seq(Serial)
           /\ InsertAfter(l, s, k) # <<>>
           /\ Sorted(InsertAfter(l, s, k))
           /\ Members(InsertAfter(l, s, k)) = Members(l) \cup {s}
           /\ \/ Head(InsertAfter(l, s, k)) = s
              \/ l # <<>> /\ Head(InsertAfter(l, s, k)) = Head(l)
<1>. DEFINE m == InsertAfter(l, s, k)
<1>1. /\ Len(l) \in Nat
      /\ \A i \in 1..Len(l) : l[i] \in Serial /\ l[i] \in Nat
      /\ s \in Nat /\ k \in Nat /\ k <= Len(l)
  BY LenProperties, ElementOfSeq, RequestParts
<1>2. m = [i \in 1..(Len(l) + 1) |->
              IF i <= k THEN l[i] ELSE IF i = k + 1 THEN s ELSE l[i - 1]]
  BY DEF InsertAfter
<1>3. \A i \in 1..(Len(l) + 1) :
         (IF i <= k THEN l[i] ELSE IF i = k + 1 THEN s ELSE l[i - 1]) \in Serial
  BY <1>1
<1>. HIDE DEF m
<1>4. m \in Seq(Serial) /\ Len(m) = Len(l) + 1 /\ m # <<>>
  <2>1. m \in [1..(Len(l) + 1) -> Serial]
    BY <1>2, <1>3
  <2>2. Len(l) + 1 \in Nat
    BY <1>1
  <2>3. m \in Seq(Serial)
    BY <2>1, <2>2, SeqDef
  <2>4. DOMAIN m = 1..Len(m) /\ DOMAIN m = 1..(Len(l) + 1) /\ Len(m) \in Nat
    BY <2>1, <2>3, LenProperties
  <2>5. Len(m) = Len(l) + 1
    <3>1. Len(l) + 1 \in 1..(Len(l) + 1)
      BY <1>1
    <3>2. Len(l) + 1 <= Len(m)
      BY <2>2, <2>4, <3>1
    <3>3. Len(m) \in 1..Len(m)
      BY <2>2, <2>4, <3>2
    <3>4. Len(m) <= Len(l) + 1
      BY <2>2, <2>4, <3>3
    <3>5. \A x, y \in Nat : x <= y + 1 /\ y + 1 <= x => x = y + 1
      OBVIOUS
    <3>6. Len(m) \in Nat /\ Len(l) \in Nat
      BY <1>1, <2>4
    <3>. QED
      BY <3>2, <3>4, <3>5, <3>6, Zenon
  <2>. QED
    BY <1>1, <2>3, <2>5, EmptySeq
<1>5. /\ \A i \in 1..k : m[i] = l[i]
      /\ m[k + 1] = s
      /\ \A i \in (k + 2)..(Len(l) + 1) : m[i] = l[i - 1]
  BY <1>1, <1>2
<1>6. /\ \A i \in 1..k : l[i] < s
      /\ \A i \in (k + 1)..Len(l) : s < l[i]
  <2>1. \A i \in (k + 1)..Len(l) : s < l[i]
    BY <1>1 DEF ScanStopsAt
  <2>2. ASSUME NEW i \in 1..k PROVE l[i] < s
    <3>1. k \in 1..Len(l) /\ l[k] <= s /\ l[k] # s
      BY <1>1 DEF ScanStopsAt, Members
    <3>2. i \in 1..Len(l) /\ (i < k => l[i] < l[k])
      BY <1>1, <3>1 DEF Sorted
    <3>. QED
      BY <1>1, <3>1, <3>2
  <2>. QED
    BY <2>1, <2>2
<1>7. Sorted(m)
  <2>. SUFFICES ASSUME NEW i \in 1..Len(m), NEW j \in 1..Len(m), i < j
                PROVE  m[i] < m[j]
    BY DEF Sorted
  <2>1. CASE j <= k
    <3>1. /\ i \in 1..k /\ j \in 1..k
          /\ i \in 1..Len(l) /\ j \in 1..Len(l)
      BY <1>1, <1>4, <2>1
    <3>. QED
      BY <1>5, <3>1 DEF Sorted
  <2>2. CASE j = k + 1
    <3>1. i \in 1..k
      BY <1>1, <1>4, <2>2
    <3>. QED
      BY <1>5, <1>6, <2>2, <3>1
  <2>3. CASE j > k + 1 /\ i = k + 1
    <3>1. j \in (k + 2)..(Len(l) + 1) /\ j - 1 \in (k + 1)..Len(l)
      BY <1>1, <1>4, <2>3
    <3>. QED
      BY <1>5, <1>6, <2>3, <3>1
  <2>4. CASE j > k + 1 /\ i <= k
    <3>1. j \in (k + 2)..(Len(l) + 1) /\ j - 1 \in 1..Len(l)
      BY <1>1, <1>4, <2>4
    <3>2. i \in 1..k /\ i \in 1..Len(l) /\ i < j - 1
      BY <1>1, <1>4, <2>4
    <3>. QED
      BY <1>5, <3>1, <3>2 DEF Sorted
  <2>5. CASE j > k + 1 /\ i > k + 1
    <3>1. /\ j \in (k + 2)..(Len(l) + 1) /\ j - 1 \in 1..Len(l)
          /\ i \in (k + 2)..(Len(l) + 1) /\ i - 1 \in 1..Len(l)
          /\ i - 1 < j - 1
      BY <1>1, <1>4, <2>5
    <3>. QED
      BY <1>5, <3>1 DEF Sorted
  <2>. QED
    BY <1>1, <1>4, <2>1, <2>2, <2>3, <2>4, <2>5
<1>8. Members(m) \subseteq Members(l) \cup {s}
  <2>. SUFFICES ASSUME NEW i \in 1..Len(m)
                PROVE  m[i] \in Members(l) \cup {s}
    BY DEF Members
  <2>1. CASE i <= k
    BY <1>1, <1>4, <1>5, <2>1 DEF Members
  <2>2. CASE i = k + 1
    BY <1>5, <2>2
  <2>3. CASE i > k + 1
    <3>1. i \in (k + 2)..(Len(l) + 1) /\ i - 1 \in 1..Len(l)
      BY <1>1, <1>4, <2>3
    <3>. QED
      BY <1>5, <3>1 DEF Members
  <2>. QED
    BY <1>1, <1>4, <2>1, <2>2, <2>3
<1>9. Members(l) \cup {s} \subseteq Members(m)
  <2>1. s \in Members(m)
    <3>1. k + 1 \in 1..Len(m)
      BY <1>1, <1>4
    <3>. QED
      BY <1>5, <3>1 DEF Members
  <2>2. ASSUME NEW i \in 1..Len(l) PROVE l[i] \in Members(m)
    <3>1. CASE i <= k
      <4>1. i \in 1..k /\ i \in 1..Len(m)
        BY <1>1, <1>4, <3>1
      <4>. QED
        BY <1>5, <4>1 DEF Members
    <3>2. CASE i > k
      <4>1. i + 1 \in (k + 2)..(Len(l) + 1) /\ i + 1 \in 1..Len(m)
        BY <1>1, <1>4, <3>2
      <4>2. m[i + 1] = l[i]
        BY <1>1, <1>5, <4>1
      <4>. QED
        BY <4>1, <4>2 DEF Members
    <3>. QED
      BY <1>1, <3>1, <3>2
  <2>. QED
    BY <2>1, <2>2 DEF Members
<1>10. Head(m) = s \/ (l # <<>> /\ Head(m) = Head(l))
  <2>1. Head(m) = m[1]
    BY <1>4, HeadTailProperties
  <2>2. CASE k = 0
    BY <1>5, <2>1, <2>2
  <2>3. CASE k > 0
    <3>1. l # <<>> /\ 1 \in 1..k
      BY <1>1, <2>3, EmptySeq
    <3>2. Head(l) = l[1]
      BY <3>1, HeadTailProperties
    <3>. QED
      BY <1>5, <2>1, <3>1, <3>2
  <2>. QED
    BY <1>1, <2>2, <2>3
<1>. QED
  BY <1>4, <1>7, <1>8, <1>9, <1>10 DEF m

-----------------------------------------------------------------------------
(* Init and the steps of the server *)

LEMMA InitInv == Init => Inv
<1>. SUFFICES ASSUME Init PROVE Inv
  OBVIOUS
<1>1. <<>> \in Seq(Serial) /\ Len(<<>>) = 0
  BY EmptySeq
<1>2. TypeOK
  <2>1. 0 \in 0..MaxSerial /\ 0 \in Nat
    BY BoundAssumption
  <2>2. /\ serial \in [Channel -> 0..MaxSerial]
        /\ next \in [Channel -> Nat]
    BY <2>1 DEF Init
  <2>3. list \in [Channel -> Seq(Serial)] /\ executed \in [Channel -> Seq(Serial)]
    BY <1>1 DEF Init
  <2>. QED
    BY <2>2, <2>3 DEF Init, TypeOK
<1>3. Held = {} /\ Executed = {} /\ Sent = {}
  BY EmptyMembers, RequestParts DEF Init, Held, Executed, Sent
<1>4. Counters
  BY <1>1 DEF Init, Counters, Sorted
<1>5. Ahead /\ Apart /\ Covered
  BY <1>3 DEF Init, Ahead, Apart, Covered, Unexecuted
<1>. QED
  BY <1>2, <1>4, <1>5 DEF Inv

(* The new request is the only one with its serial number. *)
LEMMA SendRequestInv ==
    ASSUME Inv, NEW c \in Channel, SendRequest(c)
    PROVE  Inv'
<1>1. /\ serial[c] \in Serial /\ serial[c] \in Nat
      /\ serial' = [serial EXCEPT ![c] = @ + 1]
      /\ network' = network \cup {<<c, serial[c]>>}
      /\ serial'[c] = serial[c] + 1
      /\ \A d \in Channel : /\ serial[d] \in Nat
                            /\ serial[d] <= serial'[d] /\ serial'[d] \in Nat
                            /\ d # c => serial'[d] = serial[d]
                            /\ Len(executed[d]) \in Nat
  BY BoundAssumption, LenProperties DEF Inv, TypeOK, SendRequest, Serial
<1>2. <<c, serial[c]>> \in Request
  BY <1>1, RequestParts
<1>3. /\ Held' = Held /\ Executed' = Executed /\ failed' = failed
      /\ checked' = checked /\ aborted' = aborted /\ executed' = executed
      /\ next' = next /\ list' = list
  BY DEF SendRequest, queueVars, threadVars, Held, Executed
<1>4. TypeOK'
  <2>1. serial' \in [Channel -> 0..MaxSerial]
    BY BoundAssumption DEF Inv, TypeOK, SendRequest
  <2>. QED
    BY <1>1, <1>2, <2>1 DEF Inv, TypeOK, SendRequest, queueVars, threadVars
<1>5. Counters'
  BY <1>1, <1>3 DEF Inv, Counters, Sorted
<1>6. Unexecuted' = Unexecuted \cup {<<c, serial[c]>>}
  BY <1>1, <1>3 DEF Unexecuted
<1>7. <<c, serial[c]>> \notin Unexecuted
  BY <1>1, RequestParts DEF Inv, Ahead
<1>8. Unexecuted \subseteq Request
  BY DEF Unexecuted, Inv, TypeOK, Held
<1>9. Ahead'
  <2>. SUFFICES ASSUME NEW r \in Unexecuted'
                PROVE  Len(executed[r[1]]) <= r[2] /\ r[2] < serial'[r[1]]
    BY <1>3 DEF Ahead
  <2>1. CASE r \in Unexecuted
    BY <1>1, <1>8, <2>1, RequestParts DEF Inv, Ahead
  <2>2. CASE r = <<c, serial[c]>>
    BY <1>1, <2>2 DEF Inv, Counters
  <2>. QED
    BY <1>6, <2>1, <2>2
<1>10. Apart'
  BY <1>1, <1>3, <1>7 DEF Inv, Apart, Unexecuted
<1>11. Sent' \subseteq Sent \cup {<<c, serial[c]>>}
  <2>. SUFFICES ASSUME NEW r \in Request, r[2] < serial'[r[1]],
                       ~ (r[2] < serial[r[1]])
                PROVE  r = <<c, serial[c]>>
    BY DEF Sent
  <2>. QED
    BY <1>1, RequestParts
<1>12. Covered'
  BY <1>3, <1>6, <1>11 DEF Inv, Covered
<1>. QED
  BY <1>4, <1>5, <1>9, <1>10, <1>12 DEF Inv

LEMMA FailRequestInv ==
    ASSUME Inv, NEW r \in Request, NEW status \in Failure,
           FailRequest(r, status)
    PROVE  Inv'
<1>1. /\ Held' = Held /\ Executed' = Executed /\ Sent' = Sent
      /\ checked' = checked /\ aborted' = aborted /\ executed' = executed
      /\ next' = next /\ list' = list /\ serial' = serial
      /\ network' = network \ {r} /\ failed' = failed \cup {r}
  BY DEF FailRequest, queueVars, threadVars, Held, Executed, Sent
<1>2. TypeOK'
  BY <1>1 DEF Inv, TypeOK, FailRequest, CallEnded, NotifyDisconnection, queueVars,
              threadVars
<1>3. Counters'
  BY <1>1 DEF Inv, Counters, Sorted
<1>4. Unexecuted' \subseteq Unexecuted /\ Unexecuted \subseteq Unexecuted' \cup {r}
  BY <1>1 DEF Unexecuted
<1>5. Ahead'
  BY <1>1, <1>4 DEF Inv, Ahead
<1>6. Apart' /\ Covered'
  BY <1>1, <1>4 DEF Inv, Apart, Covered
<1>. QED
  BY <1>2, <1>3, <1>5, <1>6 DEF Inv

(* Steps that move no request: only the thread's place or a flag changes. *)
LEMMA QuietInv ==
    ASSUME Inv, TypeOK', UNCHANGED <<serial, failed, network, checked, next,
                                     list, executed, aborted>>
    PROVE  Inv'
<1>1. Held' = Held /\ Executed' = Executed /\ Sent' = Sent
  BY DEF Held, Executed, Sent
<1>2. Unexecuted' = Unexecuted
  BY <1>1 DEF Unexecuted
<1>3. Counters' /\ Ahead'
  BY <1>2 DEF Inv, Counters, Sorted, Ahead
<1>4. Apart' /\ Covered'
  BY <1>1, <1>2 DEF Inv, Apart, Covered
<1>. QED
  BY <1>3, <1>4 DEF Inv

-----------------------------------------------------------------------------
(* The steps of the client *)

LEMMA AcceptRequestInv ==
    ASSUME Inv, NEW r \in Request, AcceptRequest(r)
    PROVE  Inv'
<1>1. /\ Held' = Held /\ Executed' = Executed /\ Sent' = Sent
      /\ failed' = failed /\ aborted' = aborted /\ executed' = executed
      /\ next' = next /\ list' = list /\ serial' = serial
      /\ network' = network \ {r} /\ checked' = {r} /\ checked = {}
      /\ r \in network
  BY DEF AcceptRequest, ThreadIdle, serverVars, queueVars, Held, Executed, Sent
<1>2. TypeOK'
  BY <1>1 DEF Inv, TypeOK, AcceptRequest, ThreadIdle, serverVars, queueVars
<1>3. Unexecuted' = Unexecuted
  BY <1>1 DEF Unexecuted
<1>4. Counters' /\ Ahead'
  BY <1>1, <1>3 DEF Inv, Counters, Sorted, Ahead
<1>5. Apart' /\ Covered'
  BY <1>1, <1>3 DEF Inv, Apart, Covered
<1>. QED
  BY <1>2, <1>4, <1>5 DEF Inv

LEMMA RejectRequestInv ==
    ASSUME Inv, NEW r \in Request, RejectRequest(r)
    PROVE  Inv'
<1>1. /\ Held' = Held /\ Executed' = Executed /\ Sent' = Sent
      /\ failed' = failed /\ checked' = checked /\ executed' = executed
      /\ next' = next /\ list' = list /\ serial' = serial
      /\ network' = network \ {r} /\ aborted' = aborted \cup {r}
      /\ r \in network
  BY DEF RejectRequest, threadVars, queueVars, Held, Executed, Sent
<1>2. TypeOK'
  BY <1>1 DEF Inv, TypeOK, RejectRequest, CallEnded, NotifyDisconnection,
              threadVars, queueVars
<1>3. Unexecuted' = Unexecuted
  BY <1>1 DEF Unexecuted
<1>4. Counters' /\ Ahead'
  BY <1>1, <1>3 DEF Inv, Counters, Sorted, Ahead
<1>5. Apart' /\ Covered'
  BY <1>1, <1>3 DEF Inv, Apart, Covered
<1>. QED
  BY <1>2, <1>4, <1>5 DEF Inv

(* What one run of a handler does to the history of its channel, when the   *)
(* command is the next in order.                                            *)
LEMMA HandleNext ==
    ASSUME Inv, NEW c \in Channel, NEW s \in Serial, Handle(c, s),
           s = Len(executed[c])
    PROVE  /\ executed' \in [Channel -> Seq(Serial)]
           /\ Len(executed'[c]) = s + 1
           /\ \A i \in 1..Len(executed'[c]) : executed'[c][i] = i - 1
           /\ \A d \in Channel \ {c} : executed'[d] = executed[d]
           /\ Executed' = Executed \cup {<<c, s>>}
<1>1. /\ executed \in [Channel -> Seq(Serial)]
      /\ executed' = [executed EXCEPT ![c] = Append(@, s)]
  BY DEF Handle, Inv, TypeOK
<1>2. /\ executed[c] \in Seq(Serial) /\ executed'[c] = Append(executed[c], s)
      /\ \A d \in Channel \ {c} : executed'[d] = executed[d]
  BY <1>1
<1>3. /\ Append(executed[c], s) \in Seq(Serial)
      /\ Len(Append(executed[c], s)) = Len(executed[c]) + 1
      /\ \A i \in 1..Len(executed[c]) :
            Append(executed[c], s)[i] = executed[c][i]
      /\ Append(executed[c], s)[Len(executed[c]) + 1] = s
      /\ Members(Append(executed[c], s)) = Members(executed[c]) \cup {s}
  BY <1>2, AppendMembers
<1>4. executed' \in [Channel -> Seq(Serial)]
  BY <1>1, <1>3
<1>5. Len(executed'[c]) = s + 1
  BY <1>2, <1>3
<1>6. ASSUME NEW i \in 1..Len(executed'[c]) PROVE executed'[c][i] = i - 1
  <2>1. Len(executed[c]) \in Nat
    BY <1>2, LenProperties
  <2>2. CASE i = Len(executed[c]) + 1
    BY <1>2, <1>3, <2>1, <2>2
  <2>3. CASE i \in 1..Len(executed[c])
    BY <1>2, <1>3, <2>3 DEF Inv, Counters
  <2>. QED
    BY <1>5, <2>1, <2>2, <2>3
<1>7. ASSUME NEW r \in Request
      PROVE  r \in Executed' <=> r \in Executed \cup {<<c, s>>}
  <2>1. r = <<c, s>> <=> r[1] = c /\ r[2] = s
    BY RequestParts
  <2>2. CASE r[1] = c
    <3>1. executed'[r[1]] = Append(executed[c], s) /\ executed[r[1]] = executed[c]
      BY <1>2, <2>2
    <3>2. r[2] \in Members(executed'[r[1]])
             <=> r[2] \in Members(executed[r[1]]) \cup {s}
      BY <1>3, <3>1
    <3>. QED
      BY <2>1, <2>2, <3>2 DEF Executed
  <2>3. CASE r[1] # c
    BY <1>2, <2>1, <2>3, RequestParts DEF Executed
  <2>. QED
    BY <2>2, <2>3
<1>8. Executed' = Executed \cup {<<c, s>>}
  <2>1. Executed' \subseteq Request /\ Executed \subseteq Request
    BY DEF Executed
  <2>2. <<c, s>> \in Request
    BY RequestParts
  <2>. QED
    BY <1>7, <2>1, <2>2
<1>. QED
  BY <1>2, <1>4, <1>5, <1>6, <1>8

(* A command that is due is the next one in order. *)
LEMMA DueIsNext ==
    ASSUME Inv, NEW c \in Channel, NEW s \in Serial,
           <<c, s>> \in Unexecuted, s <= next[c]
    PROVE  s = Len(executed[c]) /\ s = next[c]
<1>1. Len(executed[c]) <= s
  BY RequestParts DEF Inv, Ahead
<1>2. next[c] = 0 \/ next[c] = Len(executed[c])
  BY DEF Inv, Counters
<1>3. Len(executed[c]) \in Nat /\ s \in Nat
  BY RequestParts, LenProperties DEF Inv, TypeOK
<1>. QED
  BY <1>1, <1>2, <1>3

LEMMA ExecuteNowInv ==
    ASSUME Inv, NEW c \in Channel, NEW s \in Serial, ExecuteNow(c, s)
    PROVE  Inv'
<1>1. /\ <<c, s>> \in checked /\ s <= next[c] /\ Handle(c, s)
      /\ next' = [next EXCEPT ![c] = IF s = @ THEN @ + 1 ELSE @]
      /\ checked' = {} /\ list' = list /\ serial' = serial
      /\ network' = network /\ failed' = failed /\ aborted' = aborted
  BY DEF ExecuteNow, serverVars
<1>2. /\ s = Len(executed[c]) /\ s = next[c] /\ <<c, s>> \in Unexecuted
      /\ s \in Nat
  <2>1. <<c, s>> \in Unexecuted
    BY <1>1 DEF Unexecuted
  <2>. QED
    BY <1>1, <2>1, DueIsNext, RequestParts
<1>3. /\ executed' \in [Channel -> Seq(Serial)]
      /\ Len(executed'[c]) = s + 1
      /\ \A i \in 1..Len(executed'[c]) : executed'[c][i] = i - 1
      /\ \A d \in Channel \ {c} : executed'[d] = executed[d]
      /\ Executed' = Executed \cup {<<c, s>>}
  BY <1>1, <1>2, HandleNext
<1>4. /\ next' \in [Channel -> Nat] /\ next'[c] = s + 1
      /\ \A d \in Channel \ {c} : next'[d] = next[d]
  BY <1>1, <1>2 DEF Inv, TypeOK
<1>5. checked = {<<c, s>>} /\ draining = {} /\ ~returning
  BY <1>1 DEF Inv, TypeOK
<1>6. TypeOK'
  BY <1>1, <1>3, <1>4, <1>5 DEF Inv, TypeOK, ExecuteNow, serverVars
<1>7. Held' = Held /\ Sent' = Sent
  BY <1>1 DEF Held, Sent
<1>8. Unexecuted' = Unexecuted \ {<<c, s>>}
  BY <1>1, <1>5, <1>7 DEF Unexecuted, Inv, Apart
<1>9. Counters'
  <2>. SUFFICES ASSUME NEW d \in Channel
                PROVE  /\ Len(executed'[d]) <= serial[d]
                       /\ \A i \in 1..Len(executed'[d]) : executed'[d][i] = i - 1
                       /\ next'[d] \in {0, Len(executed'[d])}
                       /\ Sorted(list[d])
    BY <1>1 DEF Counters, Sorted
  <2>1. CASE d = c
    <3>1. s < serial[c] /\ serial[c] \in Nat
      BY <1>2, RequestParts, BoundAssumption DEF Inv, Ahead, TypeOK
    <3>2. Len(executed'[c]) <= serial[c]
      BY <1>2, <1>3, <3>1
    <3>. QED
      BY <1>3, <1>4, <2>1, <3>2 DEF Inv, Counters
  <2>2. CASE d # c
    BY <1>3, <1>4, <2>2 DEF Inv, Counters
  <2>. QED
    BY <2>1, <2>2
<1>10. Ahead'
  <2>. SUFFICES ASSUME NEW r \in Unexecuted, r # <<c, s>>
                PROVE  Len(executed'[r[1]]) <= r[2] /\ r[2] < serial[r[1]]
    BY <1>1, <1>8 DEF Ahead
  <2>1. /\ r \in Request /\ Len(executed[r[1]]) <= r[2] /\ r[2] < serial[r[1]]
    BY DEF Inv, TypeOK, Ahead, Unexecuted, Held
  <2>2. CASE r[1] = c
    <3>1. r[2] # s /\ r[2] \in Nat
      BY <2>1, <2>2, RequestParts
    <3>2. Len(executed'[r[1]]) = s + 1 /\ s <= r[2]
      BY <1>2, <1>3, <2>1, <2>2
    <3>3. s + 1 <= r[2]
      BY <1>2, <3>1, <3>2
    <3>. QED
      BY <2>1, <3>2, <3>3
  <2>3. CASE r[1] # c
    BY <1>3, <2>1, <2>3, RequestParts
  <2>. QED
    BY <2>2, <2>3
<1>11. Apart'
  BY <1>1, <1>7 DEF Inv, Apart
<1>12. Covered'
  BY <1>1, <1>3, <1>7, <1>8 DEF Inv, Covered
<1>. QED
  BY <1>6, <1>9, <1>10, <1>11, <1>12 DEF Inv

(* Replacing the list of one channel changes the set held accordingly. *)
LEMMA HeldAfter ==
    ASSUME TypeOK, NEW c \in Channel, NEW l \in Seq(Serial),
           list' = [list EXCEPT ![c] = l]
    PROVE  /\ list' \in [Channel -> Seq(Serial)]
           /\ list'[c] = l
           /\ \A d \in Channel \ {c} : list'[d] = list[d]
           /\ \A r \in Request :
                 r \in Held' <=> IF r[1] = c THEN r[2] \in Members(l)
                                             ELSE r \in Held
           /\ Held' \subseteq Request
<1>1. /\ list' \in [Channel -> Seq(Serial)]
      /\ list'[c] = l
      /\ \A d \in Channel \ {c} : list'[d] = list[d]
  BY DEF TypeOK
<1>2. ASSUME NEW r \in Request
      PROVE  r \in Held' <=> IF r[1] = c THEN r[2] \in Members(l)
                                         ELSE r \in Held
  <2>1. r[1] \in Channel
    BY RequestParts
  <2>2. CASE r[1] = c
    <3>1. list'[r[1]] = l
      BY <1>1, <2>2
    <3>. QED
      BY <2>2, <3>1 DEF Held
  <2>3. CASE r[1] # c
    <3>1. list'[r[1]] = list[r[1]]
      BY <1>1, <2>1, <2>3
    <3>. QED
      BY <2>3, <3>1 DEF Held
  <2>. QED
    BY <2>2, <2>3
<1>. QED
  BY <1>1, <1>2 DEF Held

LEMMA HoldInv ==
    ASSUME Inv, NEW c \in Channel, NEW s \in Serial, Hold(c, s)
    PROVE  Inv'
<1>1. /\ <<c, s>> \in checked /\ s > next[c]
      /\ checked' = {} /\ next' = next /\ serial' = serial
      /\ executed' = executed
      /\ network' = network /\ failed' = failed /\ aborted' = aborted
  BY DEF Hold, serverVars
<1>2. PICK k \in 0..Len(list[c]) :
         /\ ScanStopsAt(list[c], s, k)
         /\ list' = [list EXCEPT ![c] = InsertAfter(list[c], s, k)]
  BY DEF Hold
<1>3. list[c] \in Seq(Serial) /\ Sorted(list[c])
  BY DEF Inv, TypeOK, Counters
<1>4. s \notin Members(list[c])
  BY <1>1, RequestParts DEF Inv, Apart, Held
<1>5. /\ InsertAfter(list[c], s, k) \in Seq(Serial)
      /\ Sorted(InsertAfter(list[c], s, k))
      /\ Members(InsertAfter(list[c], s, k)) = Members(list[c]) \cup {s}
  BY <1>2, <1>3, <1>4, InsertMembers
<1>6. /\ list' \in [Channel -> Seq(Serial)]
      /\ list'[c] = InsertAfter(list[c], s, k)
      /\ \A d \in Channel \ {c} : list'[d] = list[d]
      /\ \A r \in Request :
            r \in Held' <=> IF r[1] = c
                              THEN r[2] \in Members(InsertAfter(list[c], s, k))
                              ELSE r \in Held
      /\ Held' \subseteq Request
  BY <1>2, <1>5, HeldAfter DEF Inv
<1>7. checked = {<<c, s>>} /\ draining = {} /\ ~returning
  BY <1>1 DEF Inv, TypeOK
<1>8. TypeOK'
  BY <1>1, <1>6, <1>7 DEF Inv, TypeOK, Hold, serverVars
<1>9. Held' = Held \cup {<<c, s>>}
  <2>1. ASSUME NEW r \in Request
        PROVE  r \in Held' <=> r \in Held \/ r = <<c, s>>
    <3>1. r = <<c, s>> <=> r[1] = c /\ r[2] = s
      BY RequestParts
    <3>. QED
      BY <1>5, <1>6, <3>1 DEF Held
  <2>2. <<c, s>> \in Request /\ Held \subseteq Request
    BY RequestParts DEF Held
  <2>. QED
    BY <1>6, <2>1, <2>2
<1>10. Sent' = Sent /\ Executed' = Executed
  BY <1>1 DEF Sent, Executed
<1>11. Unexecuted' = Unexecuted
  BY <1>1, <1>7, <1>9 DEF Unexecuted
<1>12. \A d \in Channel : Sorted(list'[d])
  BY <1>5, <1>6 DEF Inv, Counters
<1>13. Counters' /\ Ahead'
  BY <1>1, <1>11, <1>12 DEF Inv, Counters, Ahead, Sorted
<1>14. Apart' /\ Covered'
  BY <1>1, <1>7, <1>9, <1>10, <1>11 DEF Inv, Apart, Covered
<1>. QED
  BY <1>8, <1>13, <1>14 DEF Inv

(* The head of a list that runs is the least command held for its channel.  *)
LEMMA ConsumeNextInv ==
    ASSUME Inv, NEW c \in Channel, ConsumeNext(c)
    PROVE  Inv'
<1>. DEFINE s == Head(list[c])
<1>1. /\ c \in draining /\ list[c] # <<>> /\ s = next[c] /\ Handle(c, s)
      /\ next' = [next EXCEPT ![c] = @ + 1]
      /\ list' = [list EXCEPT ![c] = Tail(list[c])]
      /\ serial' = serial /\ checked' = checked /\ current' = current
      /\ network' = network /\ failed' = failed /\ aborted' = aborted
  BY DEF ConsumeNext, HeadIsDue, serverVars, threadVars
<1>2. list[c] \in Seq(Serial) /\ Sorted(list[c])
  BY DEF Inv, TypeOK, Counters
<1>3. /\ s \in Members(list[c]) /\ s \in Serial
      /\ Tail(list[c]) \in Seq(Serial) /\ Sorted(Tail(list[c]))
      /\ Members(Tail(list[c])) = Members(list[c]) \ {s}
  BY <1>1, <1>2, TailMembers
<1>. HIDE DEF s
<1>4. <<c, s>> \in Held
  BY <1>3, RequestParts DEF Held
<1>5. /\ s = Len(executed[c]) /\ s = next[c] /\ <<c, s>> \in Unexecuted
      /\ s \in Nat
  <2>1. <<c, s>> \in Unexecuted
    BY <1>4 DEF Unexecuted
  <2>2. s \in Nat /\ s <= next[c]
    BY <1>1, <1>3, RequestParts
  <2>. QED
    BY <1>3, <2>1, <2>2, DueIsNext
<1>6. /\ executed' \in [Channel -> Seq(Serial)]
      /\ Len(executed'[c]) = s + 1
      /\ \A i \in 1..Len(executed'[c]) : executed'[c][i] = i - 1
      /\ \A d \in Channel \ {c} : executed'[d] = executed[d]
      /\ Executed' = Executed \cup {<<c, s>>}
  BY <1>1, <1>3, <1>5, HandleNext
<1>7. /\ next' \in [Channel -> Nat] /\ next'[c] = s + 1
      /\ \A d \in Channel \ {c} : next'[d] = next[d]
  BY <1>1, <1>5 DEF Inv, TypeOK
<1>8. /\ list' \in [Channel -> Seq(Serial)]
      /\ list'[c] = Tail(list[c])
      /\ \A d \in Channel \ {c} : list'[d] = list[d]
      /\ \A r \in Request :
            r \in Held' <=> IF r[1] = c THEN r[2] \in Members(Tail(list[c]))
                                        ELSE r \in Held
      /\ Held' \subseteq Request
  BY <1>1, <1>3, HeldAfter DEF Inv
<1>9. TypeOK'
  BY <1>1, <1>6, <1>7, <1>8 DEF Inv, TypeOK, ConsumeNext, serverVars, threadVars
<1>10. Held' = Held \ {<<c, s>>}
  <2>1. ASSUME NEW r \in Request
        PROVE  r \in Held' <=> r \in Held /\ r # <<c, s>>
    <3>1. r = <<c, s>> <=> r[1] = c /\ r[2] = s
      BY RequestParts
    <3>. QED
      BY <1>3, <1>8, <3>1 DEF Held
  <2>2. Held \subseteq Request
    BY DEF Held
  <2>. QED
    BY <1>8, <2>1, <2>2
<1>11. Sent' = Sent
  BY <1>1 DEF Sent
<1>12. Unexecuted' = Unexecuted \ {<<c, s>>}
  BY <1>1, <1>4, <1>10 DEF Unexecuted, Inv, Apart
<1>13. Counters'
  <2>. SUFFICES ASSUME NEW d \in Channel
                PROVE  /\ Len(executed'[d]) <= serial[d]
                       /\ \A i \in 1..Len(executed'[d]) : executed'[d][i] = i - 1
                       /\ next'[d] \in {0, Len(executed'[d])}
                       /\ Sorted(list'[d])
    BY <1>1 DEF Counters, Sorted
  <2>1. CASE d = c
    <3>1. s < serial[c] /\ serial[c] \in Nat
      BY <1>3, <1>5, RequestParts, BoundAssumption DEF Inv, Ahead, TypeOK
    <3>2. Len(executed'[c]) <= serial[c]
      BY <1>5, <1>6, <3>1
    <3>. QED
      BY <1>3, <1>6, <1>7, <1>8, <2>1, <3>2
  <2>2. CASE d # c
    <3>1. /\ executed'[d] = executed[d] /\ next'[d] = next[d]
          /\ list'[d] = list[d]
      BY <1>6, <1>7, <1>8, <2>2
    <3>. QED
      BY <3>1 DEF Inv, Counters
  <2>. QED
    BY <2>1, <2>2
<1>14. Ahead'
  <2>. SUFFICES ASSUME NEW r \in Unexecuted, r # <<c, s>>
                PROVE  Len(executed'[r[1]]) <= r[2] /\ r[2] < serial[r[1]]
    BY <1>1, <1>12 DEF Ahead
  <2>1. /\ r \in Request /\ Len(executed[r[1]]) <= r[2] /\ r[2] < serial[r[1]]
    BY DEF Inv, TypeOK, Ahead, Unexecuted, Held
  <2>2. CASE r[1] = c
    <3>1. r[2] # s /\ r[2] \in Nat
      BY <2>1, <2>2, RequestParts
    <3>2. Len(executed'[r[1]]) = s + 1 /\ s <= r[2]
      BY <1>5, <1>6, <2>1, <2>2
    <3>3. s + 1 <= r[2]
      BY <1>5, <3>1, <3>2
    <3>. QED
      BY <2>1, <3>2, <3>3
  <2>3. CASE r[1] # c
    BY <1>6, <2>1, <2>3, RequestParts
  <2>. QED
    BY <2>2, <2>3
<1>15. Apart'
  BY <1>1, <1>10 DEF Inv, Apart
<1>16. Covered'
  BY <1>1, <1>6, <1>11, <1>12 DEF Inv, Covered
<1>. QED
  BY <1>9, <1>13, <1>14, <1>15, <1>16 DEF Inv

(* An eviction or the end of the session forgets the counters of queues:    *)
(* next_serial_ is 0 again.                                                 *)
LEMMA ReturnFromPushInv ==
    ASSUME Inv, ReturnFromPush
    PROVE  Inv'
<1>1. /\ next' = [c \in Channel |-> IF c \in Evicted THEN 0 ELSE next[c]]
      /\ list' = list /\ serial' = serial /\ executed' = executed
      /\ checked' = checked /\ network' = network /\ failed' = failed
      /\ aborted' = aborted
  BY DEF ReturnFromPush, serverVars
<1>2. next' \in [Channel -> Nat]
  BY <1>1 DEF Inv, TypeOK
<1>3. TypeOK'
  BY <1>1, <1>2 DEF Inv, TypeOK, ReturnFromPush, serverVars
<1>4. Held' = Held /\ Executed' = Executed /\ Sent' = Sent
  BY <1>1 DEF Held, Executed, Sent
<1>5. Unexecuted' = Unexecuted
  BY <1>1, <1>4 DEF Unexecuted
<1>6. Counters'
  <2>1. \A c \in Channel : next'[c] \in {0, next[c]}
    BY <1>1
  <2>. QED
    BY <1>1, <2>1 DEF Inv, Counters, Sorted
<1>7. Ahead'
  BY <1>1, <1>5 DEF Inv, Ahead
<1>8. Apart' /\ Covered'
  BY <1>1, <1>4, <1>5 DEF Inv, Apart, Covered
<1>. QED
  BY <1>3, <1>6, <1>7, <1>8 DEF Inv

LEMMA DestroySessionInv ==
    ASSUME Inv, DestroySession, current' \in BOOLEAN, notice' \in BOOLEAN,
           returning' \in BOOLEAN, returning' => returning,
           UNCHANGED <<serial, ended, closed, failed, cancelled, network, checked,
                       draining, executed, crashed>>
    PROVE  Inv'
<1>1. /\ aborted' = aborted \cup Held /\ open' = {}
      /\ next' = [c \in Channel |-> 0]
      /\ list' = [c \in Channel |-> <<>>]
  BY DEF DestroySession
<1>2. <<>> \in Seq(Serial) /\ Len(<<>>) = 0
  BY EmptySeq
<1>3. TypeOK'
  <2>1. next' \in [Channel -> Nat] /\ list' \in [Channel -> Seq(Serial)]
    BY <1>1, <1>2
  <2>2. aborted' \subseteq Request
    BY <1>1 DEF Inv, TypeOK, Held
  <2>. QED
    BY <1>1, <2>1, <2>2 DEF Inv, TypeOK
<1>4. Held' = {} /\ Executed' = Executed /\ Sent' = Sent
  BY <1>1, EmptyMembers, RequestParts DEF Held, Executed, Sent
<1>5. Unexecuted' = Unexecuted
  BY <1>1, <1>4 DEF Unexecuted
<1>6. Counters'
  <2>1. \A c \in Channel : next'[c] = 0 /\ list'[c] = <<>>
    BY <1>1
  <2>2. \A c \in Channel : Sorted(list'[c])
    BY <1>2, <2>1 DEF Sorted
  <2>. QED
    BY <2>1, <2>2 DEF Inv, Counters, Sorted
<1>7. Ahead'
  BY <1>5 DEF Inv, Ahead
<1>8. Apart' /\ Covered'
  BY <1>1, <1>4, <1>5 DEF Inv, Apart, Covered
<1>. QED
  BY <1>3, <1>6, <1>7, <1>8 DEF Inv

-----------------------------------------------------------------------------
(* The invariant, and the theorems that follow from it *)

LEMMA NextInv == Inv /\ [Next]_vars => Inv'
<1>. SUFFICES ASSUME Inv, [Next]_vars PROVE Inv'
  OBVIOUS
<1>1. CASE HandleControlEvent \/ EndSession \/ DisableChannels
  <2>1. /\ ended' \in BOOLEAN /\ closed' \in BOOLEAN
        /\ UNCHANGED <<serial, notice, failed, cancelled, network, current,
                       threadVars, queueVars, executed, aborted, crashed>>
    BY <1>1 DEF Inv, TypeOK, HandleControlEvent, EndSession, DisableChannels
  <2>2. TypeOK'
    BY <2>1 DEF Inv, TypeOK, threadVars, queueVars
  <2>. QED
    BY <2>1, <2>2, QuietInv DEF threadVars, queueVars
<1>2. ASSUME NEW c \in Channel, SendRequest(c) PROVE Inv'
  BY <1>2, SendRequestInv
<1>3. ASSUME NEW r \in Request, NEW status \in Failure, FailRequest(r, status)
      PROVE  Inv'
  BY <1>3, FailRequestInv
<1>4. ASSUME NEW r \in Request, ExecuteNow(r[1], r[2]) PROVE Inv'
  BY <1>4, ExecuteNowInv, RequestParts
<1>5. ASSUME NEW r \in Request, Hold(r[1], r[2]) PROVE Inv'
  BY <1>5, HoldInv, RequestParts
<1>6. ASSUME NEW c \in Channel, ConsumeNext(c) PROVE Inv'
  BY <1>6, ConsumeNextInv
<1>7. ASSUME NEW c \in Channel, FinishConsume(c) PROVE Inv'
  <2>1. checked = {}
    BY <1>7 DEF FinishConsume, Inv, TypeOK
  <2>2. TypeOK'
    BY <1>7, <2>1 DEF Inv, TypeOK, FinishConsume, serverVars, queueVars
  <2>. QED
    BY <1>7, <2>2, QuietInv DEF FinishConsume, serverVars, queueVars
<1>8. CASE ReturnFromPush
  BY <1>8, ReturnFromPushInv
<1>9. CASE ReturnFromPushLast
  <2>1. /\ DestroySession /\ current' \in BOOLEAN /\ returning' = FALSE
        /\ UNCHANGED <<serial, ended, closed, failed, cancelled, network, checked,
                       draining, executed, crashed>>
        /\ notice' \in BOOLEAN
    BY <1>9 DEF ReturnFromPushLast, AnswerHeld, CallEnded, NotifyDisconnection,
                 Inv, TypeOK
  <2>. QED
    BY <2>1, DestroySessionInv
<1>10. CASE HandlerFault
  <2>1. TypeOK'
    BY <1>10 DEF Inv, TypeOK, HandlerFault, serverVars, threadVars, queueVars
  <2>. QED
    BY <1>10, <2>1, QuietInv DEF HandlerFault, serverVars, threadVars, queueVars
<1>11. ASSUME NEW r \in Request, AcceptRequest(r) PROVE Inv'
  BY <1>11, AcceptRequestInv
<1>12. ASSUME NEW r \in Request, RejectRequest(r) PROVE Inv'
  BY <1>12, RejectRequestInv
<1>13. CASE ClearSession \/ ReplaceSession
  <2>1. /\ DestroySession /\ current' = FALSE /\ returning' = returning
        /\ UNCHANGED <<serial, ended, closed, failed, cancelled, network, checked,
                       draining, executed, crashed>>
        /\ notice' \in BOOLEAN
    BY <1>13 DEF ClearSession, ReplaceSession, threadVars, FinishKeepalive,
                 AnswerHeld, CallEnded, NotifyDisconnection,
                 Inv, TypeOK
  <2>2. returning \in BOOLEAN
    BY DEF Inv, TypeOK
  <2>. QED
    BY <2>1, <2>2, DestroySessionInv
<1>14. CASE DisableSession
  <2>1. /\ current' = FALSE /\ returning' = returning
        /\ UNCHANGED <<serial, ended, closed, failed, cancelled, network, checked,
                       draining, executed, crashed>>
        /\ notice' \in BOOLEAN
    BY <1>14 DEF DisableSession, threadVars, FinishKeepalive, AnswerHeld, CallEnded,
                 NotifyDisconnection, Inv, TypeOK
  <2>2. returning \in BOOLEAN
    BY DEF Inv, TypeOK
  <2>3. CASE ThreadIdle
    <3>1. DestroySession
      BY <1>14, <2>3 DEF DisableSession
    <3>. QED
      BY <2>1, <2>2, <3>1, DestroySessionInv
  <2>4. CASE ~ThreadIdle
    <3>1. UNCHANGED <<queueVars, aborted>>
      BY <1>14, <2>4 DEF DisableSession
    <3>2. TypeOK'
      BY <2>1, <3>1 DEF Inv, TypeOK, queueVars
    <3>. QED
      BY <2>1, <3>1, <3>2, QuietInv DEF queueVars
  <2>. QED
    BY <2>3, <2>4
<1>15. CASE UNCHANGED vars
  <2>1. TypeOK'
    BY <1>15 DEF Inv, TypeOK, vars, serverVars, threadVars, queueVars
  <2>. QED
    BY <1>15, <2>1, QuietInv DEF vars, serverVars, threadVars, queueVars
<1>. QED
  BY <1>1, <1>2, <1>3, <1>4, <1>5, <1>6, <1>7, <1>8, <1>9, <1>10, <1>11,
     <1>12, <1>13, <1>14, <1>15
  DEF Next, ServerNext, ClientNext, PushNext, ReceiveNext

LEMMA Invariance == Spec => []Inv
  BY InitInv, NextInv, PTL DEF Spec

(* The variables keep their types, and the gRPC thread is in one place of   *)
(* AsyncSessionServiceCaller::Proceed at a time.                            *)
THEOREM TypeCorrect == Spec => []TypeOK
<1>1. Inv => TypeOK
  BY DEF Inv
<1>. QED
  BY <1>1, Invariance, PTL

(* No request is lost between the worker thread that numbers it and its     *)
(* answer, and no command is executed and cancelled, or executed twice.     *)
THEOREM RequestsInOnePlace == Spec => []EachRequestInOnePlace
<1>1. ASSUME Inv PROVE EachRequestInOnePlace
  <2>1. Executed \cap Unexecuted = {}
    <3>. SUFFICES ASSUME NEW r \in Executed, r \in Unexecuted PROVE FALSE
      OBVIOUS
    <3>1. r \in Request /\ r[1] \in Channel /\ r[2] \in Nat
      BY RequestParts DEF Executed
    <3>2. PICK i \in 1..Len(executed[r[1]]) : r[2] = executed[r[1]][i]
      BY DEF Executed, Members
    <3>3. r[2] = i - 1 /\ Len(executed[r[1]]) <= r[2]
      BY <1>1, <3>1, <3>2 DEF Inv, Counters, Ahead
    <3>4. Len(executed[r[1]]) \in Nat
      BY <1>1, <3>1, LenProperties DEF Inv, TypeOK
    <3>. QED
      BY <3>3, <3>4
  <2>2. ASSUME NEW c \in Channel, NEW i \in 1..Len(list[c]),
               NEW j \in 1..Len(list[c]), list[c][i] = list[c][j]
        PROVE  i = j
    <3>1. list[c] \in Seq(Serial) /\ Sorted(list[c])
      BY <1>1 DEF Inv, TypeOK, Counters
    <3>2. /\ Len(list[c]) \in Nat /\ list[c][i] \in Nat
          /\ i \in Nat /\ j \in Nat
      BY <3>1, LenProperties, ElementOfSeq, RequestParts
    <3>3. ~(i < j) /\ ~(j < i)
      BY <3>1, <3>2, <2>2 DEF Sorted
    <3>. QED
      BY <3>2, <3>3
  <2>. QED
    BY <1>1, <2>1, <2>2
    DEF Inv, Apart, Covered, Unexecuted, EachRequestInOnePlace
<1>. QED
  BY <1>1, Invariance, PTL

-----------------------------------------------------------------------------
(* The client side implements the abstract specification *)

LEMMA ApplyStep ==
    ASSUME Inv, NEW c \in Channel, NEW s \in Serial, Handle(c, s),
           <<c, s>> \in Unexecuted, s <= next[c],
           serial' = serial, current' = current
    PROVE  Ordered!Apply(c)
<1>1. s = Len(executed[c])
  BY DueIsNext
<1>2. s < serial[c]
  BY RequestParts DEF Inv, Ahead
<1>3. executed' = [executed EXCEPT ![c] = Append(@, Len(@))]
  BY <1>1 DEF Handle
<1>. QED
  BY <1>1, <1>2, <1>3 DEF Ordered!Apply, Handle

LEMMA OrderedStep ==
    ASSUME Inv, [Next]_vars
    PROVE  [Ordered!Next]_(Ordered!vars)
<1>1. ASSUME NEW c \in Channel, SendRequest(c) PROVE Ordered!Issue(c)
  BY <1>1 DEF SendRequest, Ordered!Issue
<1>2. ASSUME NEW r \in Request, ExecuteNow(r[1], r[2])
      PROVE  Ordered!Apply(r[1])
  <2>1. <<r[1], r[2]>> \in Unexecuted
    BY <1>2 DEF ExecuteNow, Unexecuted
  <2>. QED
    BY <1>2, <2>1, ApplyStep, RequestParts DEF ExecuteNow, serverVars
<1>3. ASSUME NEW c \in Channel, ConsumeNext(c) PROVE Ordered!Apply(c)
  <2>1. list[c] \in Seq(Serial) /\ Sorted(list[c]) /\ list[c] # <<>>
    BY <1>3 DEF Inv, TypeOK, Counters, ConsumeNext, HeadIsDue
  <2>2. Head(list[c]) \in Members(list[c]) /\ Head(list[c]) \in Serial
    BY <2>1, TailMembers
  <2>3. <<c, Head(list[c])>> \in Unexecuted
    BY <2>2, RequestParts DEF Unexecuted, Held
  <2>4. Head(list[c]) <= next[c] /\ Handle(c, Head(list[c]))
    BY <1>3, <2>2, RequestParts DEF ConsumeNext, HeadIsDue
  <2>. QED
    BY <1>3, <2>2, <2>3, <2>4, ApplyStep DEF ConsumeNext, serverVars
<1>4. CASE ClearSession \/ ReplaceSession \/ DisableSession
  BY <1>4 DEF ClearSession, ReplaceSession, DisableSession, Ordered!Next,
              Ordered!Leave
<1>5. ASSUME \/ HandleControlEvent \/ EndSession \/ DisableChannels
             \/ \E r \in Request, status \in Failure : FailRequest(r, status)
             \/ \E r \in Request : Hold(r[1], r[2])
             \/ \E r \in Request : AcceptRequest(r) \/ RejectRequest(r)
             \/ \E c \in Channel : FinishConsume(c)
             \/ ReturnFromPush \/ ReturnFromPushLast \/ HandlerFault
             \/ UNCHANGED vars
      PROVE  UNCHANGED Ordered!vars
  BY <1>5 DEF HandleControlEvent, EndSession, DisableChannels, FailRequest, Hold,
              AcceptRequest, RejectRequest, FinishConsume, ReturnFromPush,
              ReturnFromPushLast, HandlerFault, serverVars, vars, Ordered!vars
<1>. QED
  BY <1>1, <1>2, <1>3, <1>4, <1>5, RequestParts
  DEF Next, ServerNext, ClientNext, PushNext, ReceiveNext, Ordered!Next

(* Whatever order the network delivers requests in and whichever queues are *)
(* evicted, the handlers of a channel see the order of issue, and none runs *)
(* after the client left the session.                                       *)
THEOREM OrderIsKept == Spec => ImplementsOrderedExecution
<1>1. Init => Ordered!Init
  BY DEF Init, Ordered!Init
<1>. QED
  BY <1>1, OrderedStep, Invariance, PTL
  DEF Spec, ImplementsOrderedExecution, Ordered!Spec

-----------------------------------------------------------------------------
(* Without evictions no command is stranded *)

(* While the queues live, next_serial_ counts the commands executed, and    *)
(* the head of a queue that nobody drains is not due.                       *)
Kept == IF current \/ ~ThreadIdle
          THEN \A c \in Channel : next[c] = Len(executed[c])
          ELSE \A c \in Channel : list[c] = <<>>

Waiting == \A c \in Channel \ draining :
              list[c] # <<>> => Head(list[c]) # next[c]

QueueInv == Inv /\ Kept /\ Waiting

LEMMA NoEviction ==
    ASSUME TypeOK, Cardinality(Channel) <= MaxQueues
    PROVE  Evicted = {}
<1>1. /\ IsFiniteSet(open) /\ Cardinality(open) <= Cardinality(Channel)
      /\ Cardinality(open) \in Nat /\ Cardinality(Channel) \in Nat
  BY ChannelAssumption, FS_Subset, FS_CardinalityType DEF TypeOK
<1>. QED
  BY <1>1, BoundAssumption DEF Evicted

(* A step that leaves the queues alone, and does not take the thread from   *)
(* work to rest or back when there is no session.                           *)
LEMMA SameQueues ==
    ASSUME Kept, Waiting, UNCHANGED <<next, list, executed, draining>>,
           (current \/ ~ThreadIdle) = (current \/ ~ThreadIdle)'
    PROVE  Kept' /\ Waiting'
<1>1. Waiting'
  BY DEF Waiting
<1>2. Kept'
  BY DEF Kept
<1>. QED
  BY <1>1, <1>2

LEMMA ExecuteNowQueues ==
    ASSUME Inv, Kept, Waiting, NEW c \in Channel, NEW s \in Serial,
           ExecuteNow(c, s)
    PROVE  Kept' /\ Waiting'
<1>1. /\ Handle(c, s) /\ s <= next[c] /\ <<c, s>> \in Unexecuted
      /\ next' = [next EXCEPT ![c] = IF s = @ THEN @ + 1 ELSE @]
      /\ draining' = (IF s = next[c] THEN {c} ELSE {}) /\ list' = list
      /\ draining = {} /\ current /\ current' = current
  BY DEF ExecuteNow, Unexecuted, Handle, Inv, TypeOK
<1>2. s = Len(executed[c]) /\ s = next[c]
  BY <1>1, DueIsNext
<1>3. /\ Len(executed'[c]) = s + 1
      /\ \A d \in Channel \ {c} : executed'[d] = executed[d]
  BY <1>1, <1>2, HandleNext
<1>4. /\ next'[c] = s + 1
      /\ \A d \in Channel \ {c} : next'[d] = next[d]
  BY <1>1, <1>2 DEF Inv, TypeOK
<1>5. \A d \in Channel : next'[d] = Len(executed'[d])
  BY <1>1, <1>3, <1>4 DEF Kept
<1>6. Kept'
  BY <1>1, <1>5 DEF Kept
<1>7. Waiting'
  BY <1>1, <1>2, <1>4 DEF Waiting
<1>. QED
  BY <1>6, <1>7

LEMMA HoldQueues ==
    ASSUME Inv, Kept, Waiting, NEW c \in Channel, NEW s \in Serial, Hold(c, s)
    PROVE  Kept' /\ Waiting'
<1>1. /\ <<c, s>> \in checked /\ s > next[c] /\ draining' = draining
      /\ next' = next /\ executed' = executed /\ current' = current
      /\ draining = {} /\ returning'
  BY DEF Hold, Inv, TypeOK
<1>2. PICK k \in 0..Len(list[c]) :
         /\ ScanStopsAt(list[c], s, k)
         /\ list' = [list EXCEPT ![c] = InsertAfter(list[c], s, k)]
  BY DEF Hold
<1>3. list[c] \in Seq(Serial) /\ Sorted(list[c]) /\ s \notin Members(list[c])
  BY <1>1, RequestParts DEF Inv, TypeOK, Counters, Apart, Held
<1>4. /\ InsertAfter(list[c], s, k) \in Seq(Serial)
      /\ \/ Head(InsertAfter(list[c], s, k)) = s
         \/ list[c] # <<>> /\ Head(InsertAfter(list[c], s, k)) = Head(list[c])
  BY <1>2, <1>3, InsertMembers
<1>5. /\ list'[c] = InsertAfter(list[c], s, k)
      /\ \A d \in Channel \ {c} : list'[d] = list[d]
  BY <1>2, <1>4, HeldAfter DEF Inv
<1>6. next[c] \in Nat /\ s \in Nat /\ s # next[c]
  BY <1>1, RequestParts DEF Inv, TypeOK
<1>7. Kept'
  <2>1. current \/ ~ThreadIdle
    BY <1>1 DEF ThreadIdle
  <2>2. (current \/ ~ThreadIdle)'
    BY <1>1 DEF ThreadIdle
  <2>. QED
    BY <1>1, <2>1, <2>2 DEF Kept
<1>8. Waiting'
  <2>. SUFFICES ASSUME NEW d \in Channel, d \notin draining, list'[d] # <<>>
                PROVE  Head(list'[d]) # next[d]
    BY <1>1 DEF Waiting
  <2>1. CASE d = c
    BY <1>4, <1>5, <1>6, <2>1 DEF Waiting
  <2>2. CASE d # c
    BY <1>5, <2>2 DEF Waiting
  <2>. QED
    BY <2>1, <2>2
<1>. QED
  BY <1>7, <1>8

LEMMA ConsumeNextQueues ==
    ASSUME Inv, Kept, Waiting, NEW c \in Channel, ConsumeNext(c)
    PROVE  Kept' /\ Waiting'
<1>. DEFINE s == Head(list[c])
<1>1. /\ Handle(c, s) /\ s = next[c] /\ list[c] # <<>> /\ c \in draining
      /\ next' = [next EXCEPT ![c] = @ + 1]
      /\ list' = [list EXCEPT ![c] = Tail(@)]
      /\ draining' = draining /\ current /\ current' = current
  BY DEF ConsumeNext, HeadIsDue, Handle, threadVars
<1>2. s \in Serial /\ s = Len(executed[c])
  <2>1. list[c] \in Seq(Serial) /\ Sorted(list[c])
    BY DEF Inv, TypeOK, Counters
  <2>. QED
    BY <1>1, <2>1, TailMembers DEF Kept
<1>. HIDE DEF s
<1>3. /\ Len(executed'[c]) = s + 1
      /\ \A d \in Channel \ {c} : executed'[d] = executed[d]
  BY <1>1, <1>2, HandleNext
<1>4. /\ next'[c] = s + 1
      /\ \A d \in Channel \ {c} : next'[d] = next[d] /\ list'[d] = list[d]
  BY <1>1 DEF Inv, TypeOK
<1>5. \A d \in Channel : next'[d] = Len(executed'[d])
  BY <1>1, <1>3, <1>4 DEF Kept
<1>6. Kept'
  BY <1>1, <1>5 DEF Kept
<1>7. Waiting'
  BY <1>1, <1>4 DEF Waiting
<1>. QED
  BY <1>6, <1>7

LEMMA DestroySessionQueues ==
    ASSUME DestroySession, ~current', ThreadIdle'
    PROVE  Kept' /\ Waiting'
<1>1. \A c \in Channel : list'[c] = <<>>
  BY DEF DestroySession
<1>. QED
  BY <1>1 DEF Kept, Waiting

LEMMA QueueNext ==
    ASSUME Cardinality(Channel) <= MaxQueues, QueueInv, [Next]_vars
    PROVE  QueueInv'
<1>1. Inv /\ Kept /\ Waiting /\ Inv'
  BY NextInv DEF QueueInv
<1>2. CASE \/ HandleControlEvent \/ EndSession \/ DisableChannels
           \/ HandlerFault \/ UNCHANGED vars
           \/ \E c \in Channel : SendRequest(c)
           \/ \E r \in Request, status \in Failure : FailRequest(r, status)
           \/ \E r \in Request : RejectRequest(r)
  <2>1. UNCHANGED <<next, list, executed, draining, checked, returning, current>>
    BY <1>2 DEF HandleControlEvent, EndSession, DisableChannels, HandlerFault,
                vars, SendRequest, FailRequest, RejectRequest, serverVars, threadVars, queueVars
  <2>2. ThreadIdle' = ThreadIdle
    BY <2>1 DEF ThreadIdle
  <2>. QED
    BY <1>1, <2>1, <2>2, SameQueues DEF QueueInv
<1>3. ASSUME NEW r \in Request, AcceptRequest(r) PROVE Kept' /\ Waiting'
  <2>1. UNCHANGED <<next, list, executed, draining, current>> /\ current
    BY <1>3 DEF AcceptRequest, queueVars
  <2>. QED
    BY <1>1, <2>1, SameQueues
<1>4. ASSUME NEW r \in Request, ExecuteNow(r[1], r[2]) PROVE Kept' /\ Waiting'
  BY <1>1, <1>4, ExecuteNowQueues, RequestParts
<1>5. ASSUME NEW r \in Request, Hold(r[1], r[2]) PROVE Kept' /\ Waiting'
  BY <1>1, <1>5, HoldQueues, RequestParts
<1>6. ASSUME NEW c \in Channel, ConsumeNext(c) PROVE Kept' /\ Waiting'
  BY <1>1, <1>6, ConsumeNextQueues
<1>7. ASSUME NEW c \in Channel, FinishConsume(c) PROVE Kept' /\ Waiting'
  <2>1. /\ UNCHANGED <<next, list, executed, current>> /\ ~HeadIsDue(c)
        /\ draining = {c} /\ draining' = {} /\ returning'
    BY <1>1, <1>7 DEF FinishConsume, queueVars, Inv, TypeOK
  <2>2. Waiting'
    BY <1>1, <2>1 DEF Waiting, HeadIsDue
  <2>3. Kept'
    BY <1>1, <2>1 DEF Kept, ThreadIdle
  <2>. QED
    BY <2>2, <2>3
<1>8. CASE ReturnFromPush
  <2>1. Evicted = {}
    BY <1>1, NoEviction DEF Inv
  <2>2. next' = [c \in Channel |-> next[c]]
    BY <1>8, <2>1 DEF ReturnFromPush
  <2>3. next' = next
    BY <1>1, <2>2 DEF Inv, TypeOK
  <2>4. UNCHANGED <<list, executed, draining, current>> /\ current
    BY <1>8 DEF ReturnFromPush
  <2>. QED
    BY <1>1, <2>3, <2>4, SameQueues DEF QueueInv
<1>9. CASE ReturnFromPushLast
  <2>1. DestroySession /\ ~current' /\ ThreadIdle'
    BY <1>1, <1>9 DEF ReturnFromPushLast, ThreadIdle, Inv, TypeOK
  <2>. QED
    BY <1>1, <2>1, DestroySessionQueues DEF QueueInv
<1>10. CASE ClearSession \/ ReplaceSession
  <2>1. DestroySession /\ ~current' /\ ThreadIdle'
    BY <1>10 DEF ClearSession, ReplaceSession, ThreadIdle, threadVars
  <2>. QED
    BY <1>1, <2>1, DestroySessionQueues DEF QueueInv
<1>11. CASE DisableSession
  <2>1. ~current' /\ UNCHANGED <<executed, draining, checked, returning>>
    BY <1>11 DEF DisableSession, threadVars
  <2>2. CASE ThreadIdle
    <3>1. DestroySession /\ ThreadIdle'
      BY <1>11, <2>1, <2>2 DEF DisableSession, ThreadIdle
    <3>. QED
      BY <1>1, <2>1, <3>1, DestroySessionQueues DEF QueueInv
  <2>3. CASE ~ThreadIdle
    <3>1. UNCHANGED <<next, list>> /\ ~ThreadIdle'
      BY <1>11, <2>1, <2>3 DEF DisableSession, ThreadIdle, queueVars
    <3>. QED
      BY <1>1, <2>1, <2>3, <3>1, SameQueues DEF QueueInv
  <2>. QED
    BY <2>2, <2>3
<1>12. CASE ServerNext \/ UNCHANGED vars
  BY <1>2, <1>12 DEF ServerNext
<1>13. CASE ReceiveNext
  BY <1>1, <1>2, <1>3, <1>13 DEF ReceiveNext, QueueInv
<1>14. CASE PushNext
  <2>1. CASE \E r \in Request : ExecuteNow(r[1], r[2]) \/ Hold(r[1], r[2])
    BY <1>1, <1>4, <1>5, <2>1 DEF QueueInv
  <2>2. CASE \E c \in Channel : ConsumeNext(c) \/ FinishConsume(c)
    BY <1>1, <1>6, <1>7, <2>2 DEF QueueInv
  <2>. QED
    BY <1>2, <1>8, <1>9, <1>14, <2>1, <2>2 DEF PushNext
<1>. QED
  BY <1>10, <1>11, <1>12, <1>13, <1>14 DEF Next, ClientNext

(* A session of no more channels than PushCommand keeps queues (100) never  *)
(* leaves a command that is due in its queue.                               *)
THEOREM NoCommandStranded ==
    ASSUME Cardinality(Channel) <= MaxQueues
    PROVE  Spec => []NoStrandedCommand
<1>1. Init => QueueInv
  <2>. SUFFICES ASSUME Init PROVE QueueInv
    OBVIOUS
  <2>1. Kept /\ Waiting
    BY EmptySeq DEF Init, Kept, Waiting
  <2>. QED
    BY <2>1, InitInv DEF QueueInv
<1>2. QueueInv /\ [Next]_vars => QueueInv'
  BY QueueNext
<1>3. ASSUME QueueInv PROVE NoStrandedCommand
  <2>. SUFFICES ASSUME ThreadIdle, NEW c \in Channel, list[c] # <<>>
                PROVE  Head(list[c]) > Len(executed[c])
    BY DEF NoStrandedCommand
  <2>1. Inv /\ Kept /\ Waiting
    BY <1>3 DEF QueueInv
  <2>2. next[c] = Len(executed[c])
    BY <2>1 DEF Kept
  <2>3. Head(list[c]) # next[c]
    BY <2>1 DEF Waiting, ThreadIdle
  <2>4. list[c] \in Seq(Serial) /\ Sorted(list[c])
    BY <2>1 DEF Inv, TypeOK, Counters
  <2>5. Head(list[c]) \in Members(list[c]) /\ Head(list[c]) \in Serial
    BY <2>4, TailMembers
  <2>6. <<c, Head(list[c])>> \in Unexecuted
    BY <2>5, RequestParts DEF Unexecuted, Held
  <2>7. Len(executed[c]) <= Head(list[c]) /\ Head(list[c]) \in Nat
    BY <2>1, <2>5, <2>6, RequestParts DEF Inv, Ahead
  <2>8. Len(executed[c]) \in Nat
    BY <2>1, LenProperties DEF Inv, TypeOK
  <2>. QED
    BY <2>2, <2>3, <2>7, <2>8
<1>. QED
  BY <1>1, <1>2, <1>3, PTL DEF Spec
=============================================================================
