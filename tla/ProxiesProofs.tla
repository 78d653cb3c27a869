---------------------------- MODULE ProxiesProofs ----------------------------
(***************************************************************************)
(* The client finds what a request names, and a buffer is not given back   *)
(* as long as a job will read it, for any number of channels, proxies,     *)
(* buffers and calls, and whatever is called, destroyed or cut off when.   *)
(*                                                                         *)
(* The strengthening looks at the pipeline of each channel: the requests   *)
(* that are sent and not yet handled, followed by those that the queued    *)
(* jobs will still become.  The steps of the worker do not change it, a    *)
(* call appends to it, the client takes its first, and what cuts a channel *)
(* off shortens it.                                                        *)
(***************************************************************************)
EXTENDS Proxies, SequenceTheorems, FiniteSetTheorems, TLAPS

accepting == {c \in Channel : Accepts(c)}

(* How long the pipeline of a channel is: a job becomes a request unless   *)
(* its queue was terminated before it began, or the channel dropped.       *)
Coming(c) == IF c \in dropped THEN 0
             ELSE IF running[c] THEN Len(jobs[c])
             ELSE IF c \in busy THEN 1 ELSE 0

total == [c \in Channel |-> Len(sent[c]) + Coming(c)]

Request(j) == [kind |-> j.kind, to |-> j.to, expects |-> j.expects]

item == [c \in Channel |->
           [n \in 1..total[c] |-> IF n <= Len(sent[c]) THEN sent[c][n]
                                  ELSE Request(jobs[c][n - Len(sent[c])])]]

(* The resources that the handler of a request looks up, or creates. *)
Names(q) == {q.to} \cup q.expects

(* The n-th in the pipeline of c creates the resource, or deletes it. *)
Makes(q, r) == q.kind = "New" /\ q.to = r
Deletes(q, r) == q.kind = "Delete" /\ q.to = r

(* A request names proxies of its own channel. *)
Owned ==
    \A c \in Channel : \A n \in 1..total[c] : \A r \in Names(item[c][n]) :
       channel[r] = c /\ proxy[r] # "new"

(* What a request names is there when its turn comes, and was not deleted   *)
(* before; what it creates is new.                                          *)
Ordered ==
    \A c \in Channel : \A n \in 1..total[c] : \A r \in Names(item[c][n]) :
       /\ \A m \in 1..n - 1 : ~Deletes(item[c][m], r)
       /\ Makes(item[c][n], r) =>
             /\ r \notin pool /\ r \notin item[c][n].expects
             /\ \A m \in 1..n - 1 : r \notin Names(item[c][m])
       /\ \/ Makes(item[c][n], r)
          \/ r \in pool
          \/ \E m \in 1..n - 1 : Makes(item[c][m], r)

Unused == \A r \in Proxy : proxy[r] = "new" => r \notin pool

(* What is alive on a channel that accepts calls is there, or will be, and *)
(* nothing is to delete it.                                                *)
Alive ==
    \A r \in Proxy : proxy[r] = "alive" =>
       /\ channel[r] \in Channel
       /\ \A c \in accepting : channel[r] = c =>
             /\ r \in pool \/ \E n \in 1..total[c] : Makes(item[c][n], r)
             /\ \A n \in 1..total[c] : ~Deletes(item[c][n], r)

PipeInv == Owned /\ Ordered /\ Unused /\ Alive

-----------------------------------------------------------------------------
(* How the pipelines change.                                               *)

(* Nothing is added, and no channel that accepts calls loses anything.     *)
LEMMA Shortened ==
    ASSUME PipeInv, UNCHANGED <<proxy, channel, pool>>,
           accepting' \subseteq accepting, accepting \subseteq Channel,
           \A c \in Channel :
              /\ total[c] \in Nat /\ total'[c] \in Nat /\ total'[c] <= total[c]
              /\ c \in accepting' => total'[c] = total[c]
              /\ \A n \in 1..total'[c] : item'[c][n] = item[c][n]
    PROVE  PipeInv'
<1>1. Owned'
  BY DEF PipeInv, Owned, Names
<1>2. Ordered'
  <2>. SUFFICES ASSUME NEW c \in Channel, NEW n \in 1..total'[c],
                       NEW r \in Names(item'[c][n])
                PROVE  /\ \A m \in 1..n - 1 : ~Deletes(item'[c][m], r)
                       /\ Makes(item'[c][n], r) =>
                             /\ r \notin pool /\ r \notin item'[c][n].expects
                             /\ \A m \in 1..n - 1 : r \notin Names(item'[c][m])
                       /\ \/ Makes(item'[c][n], r)
                          \/ r \in pool
                          \/ \E m \in 1..n - 1 : Makes(item'[c][m], r)
    BY DEF Ordered, Names, Makes, Deletes
  <2>1. /\ n \in 1..total[c] /\ item'[c][n] = item[c][n]
        /\ \A m \in 1..n - 1 : item'[c][m] = item[c][m]
    OBVIOUS
  <2>. QED
    BY <2>1 DEF PipeInv, Ordered
<1>3. Unused' /\ Alive'
  BY DEF PipeInv, Unused, Alive, Makes, Deletes
<1>. QED
  BY <1>1, <1>2, <1>3 DEF PipeInv

(* The client takes the first request of channel c0.                       *)
LEMMA FirstTaken ==
    ASSUME PipeInv, UNCHANGED <<proxy, channel>>,
           accepting' = accepting, accepting \subseteq Channel,
           NEW c0 \in Channel, total[c0] # 0,
           pool' = CASE item[c0][1].kind = "New" -> pool \cup {item[c0][1].to}
                     [] item[c0][1].kind = "Delete" -> pool \ {item[c0][1].to}
                     [] OTHER -> pool,
           item[c0][1].to \in Proxy,
           \A c \in Channel : total[c] \in Nat,
           total'[c0] = total[c0] - 1,
           \A n \in 1..total'[c0] : item'[c0][n] = item[c0][n + 1],
           \A c \in Channel \ {c0} : total'[c] = total[c] /\ item'[c] = item[c]
    PROVE  PipeInv'
<1>. DEFINE q == item[c0][1]
<1>1. Owned'
  BY DEF PipeInv, Owned, Names
<1>2. \A r : r \in pool' <=> Makes(q, r) \/ (r \in pool /\ ~Deletes(q, r))
  BY DEF Makes, Deletes
<1>3. \A r : Makes(q, r) \/ Deletes(q, r) => channel[r] = c0 /\ proxy[r] # "new"
  BY DEF PipeInv, Owned, Names, Makes, Deletes
<1>. HIDE DEF q
<1>4. Ordered'
  <2>. SUFFICES ASSUME NEW c \in Channel, NEW n \in 1..total'[c],
                       NEW r \in Names(item'[c][n])
                PROVE  /\ \A m \in 1..n - 1 : ~Deletes(item'[c][m], r)
                       /\ Makes(item'[c][n], r) =>
                             /\ r \notin pool' /\ r \notin item'[c][n].expects
                             /\ \A m \in 1..n - 1 : r \notin Names(item'[c][m])
                       /\ \/ Makes(item'[c][n], r)
                          \/ r \in pool'
                          \/ \E m \in 1..n - 1 : Makes(item'[c][m], r)
    BY DEF Ordered, Names, Makes, Deletes
  <2>1. CASE c # c0
    <3>1. channel[r] = c /\ ~Makes(q, r) /\ ~Deletes(q, r)
      BY <1>3, <2>1 DEF PipeInv, Owned
    <3>2. r \in pool' <=> r \in pool
      BY <1>2, <3>1
    <3>3. total'[c] = total[c] /\ item'[c] = item[c]
      BY <2>1
    <3>. QED
      BY <3>2, <3>3 DEF PipeInv, Ordered
  <2>2. CASE c = c0
    <3>1. /\ n + 1 \in 1..total[c] /\ item'[c][n] = item[c][n + 1]
          /\ r \in Names(item[c][n + 1]) /\ n \in Nat
          /\ 1 \in 1..(n + 1) - 1
          /\ \A m \in 1..n - 1 : /\ m + 1 \in 1..(n + 1) - 1
                                 /\ item'[c][m] = item[c][m + 1]
      BY <2>2
    <3>2. /\ \A m \in 1..(n + 1) - 1 : ~Deletes(item[c][m], r)
          /\ Makes(item[c][n + 1], r) =>
                /\ r \notin pool /\ r \notin item[c][n + 1].expects
                /\ \A m \in 1..(n + 1) - 1 : r \notin Names(item[c][m])
          /\ \/ Makes(item[c][n + 1], r)
             \/ r \in pool
             \/ \E m \in 1..(n + 1) - 1 : Makes(item[c][m], r)
      BY <3>1 DEF PipeInv, Ordered
    <3>3. ~Deletes(q, r)
      BY <2>2, <3>1, <3>2 DEF q
    <3>4. Makes(item[c][n + 1], r) => ~Makes(q, r)
      BY <2>2, <3>1, <3>2 DEF q, Makes, Names
    <3>5. ASSUME NEW m \in 1..(n + 1) - 1, Makes(item[c][m], r)
          PROVE  r \in pool' \/ \E k \in 1..n - 1 : Makes(item'[c][k], r)
      <4>1. CASE m = 1
        BY <1>2, <2>2, <3>5, <4>1 DEF q
      <4>2. CASE m # 1
        <5>1. m - 1 \in 1..n - 1 /\ (m - 1) + 1 = m
          BY <3>1, <4>2
        <5>. QED
          BY <3>1, <3>5, <5>1
      <4>. QED
        BY <4>1, <4>2
    <3>. QED
      BY <1>2, <3>1, <3>2, <3>3, <3>4, <3>5
  <2>. QED
    BY <2>1, <2>2
<1>5. Unused'
  BY <1>2, <1>3 DEF PipeInv, Unused
<1>6. Alive'
  <2>. SUFFICES ASSUME NEW r \in Proxy, proxy[r] = "alive", NEW c \in accepting,
                       channel[r] = c
                PROVE  /\ r \in pool' \/ \E n \in 1..total'[c] : Makes(item'[c][n], r)
                       /\ \A n \in 1..total'[c] : ~Deletes(item'[c][n], r)
    BY DEF Alive, PipeInv
  <2>1. /\ r \in pool \/ \E n \in 1..total[c] : Makes(item[c][n], r)
        /\ \A n \in 1..total[c] : ~Deletes(item[c][n], r)
    BY DEF PipeInv, Alive
  <2>2. CASE c # c0
    BY <1>2, <1>3, <2>1, <2>2
  <2>3. CASE c = c0
    <3>1. ~Deletes(q, r)
      BY <2>1, <2>3 DEF q
    <3>2. ASSUME NEW n \in 1..total[c], Makes(item[c][n], r)
          PROVE  r \in pool' \/ \E m \in 1..total'[c] : Makes(item'[c][m], r)
      <4>1. CASE n = 1
        BY <1>2, <2>3, <3>2, <4>1 DEF q
      <4>2. CASE n # 1
        <5>1. n - 1 \in 1..total'[c] /\ (n - 1) + 1 = n
          BY <2>3, <4>2
        <5>. QED
          BY <2>3, <3>2, <5>1
      <4>. QED
        BY <4>1, <4>2
    <3>3. \A n \in 1..total'[c] : n + 1 \in 1..total[c]
      BY <2>3
    <3>. QED
      BY <1>2, <2>1, <2>3, <3>1, <3>2, <3>3
  <2>. QED
    BY <2>2, <2>3
<1>. QED
  BY <1>1, <1>4, <1>5, <1>6 DEF PipeInv

(* A request is appended to the pipeline of channel c0.                    *)
Appended(c0, q) ==
    /\ total'[c0] = total[c0] + 1
    /\ \A n \in 1..total[c0] : item'[c0][n] = item[c0][n]
    /\ item'[c0][total[c0] + 1] = q
    /\ \A c \in Channel \ {c0} : total'[c] = total[c] /\ item'[c] = item[c]

LEMMA LastAppended ==
    ASSUME Owned, Ordered, UNCHANGED pool,
           \A c \in Channel : total[c] \in Nat,
           \A c \in Channel : \A n \in 1..total[c] : \A r \in Names(item[c][n]) :
              proxy[r] # "new" => proxy'[r] # "new" /\ channel'[r] = channel[r],
           NEW c0 \in Channel, NEW q, Appended(c0, q),
           \A r \in Names(q) :
              /\ channel'[r] = c0 /\ proxy'[r] # "new"
              /\ \A m \in 1..total[c0] : ~Deletes(item[c0][m], r)
              /\ Makes(q, r) =>
                    /\ r \notin pool /\ r \notin q.expects
                    /\ \A m \in 1..total[c0] : r \notin Names(item[c0][m])
              /\ \/ Makes(q, r)
                 \/ r \in pool
                 \/ \E m \in 1..total[c0] : Makes(item[c0][m], r)
    PROVE  Owned' /\ Ordered'
<1>1. ASSUME NEW c \in Channel, NEW n \in 1..total'[c]
      PROVE  \/ /\ n \in 1..total[c] /\ item'[c][n] = item[c][n]
                /\ \A m \in 1..n - 1 : item'[c][m] = item[c][m]
             \/ /\ c = c0 /\ n = total[c0] + 1 /\ item'[c][n] = q
                /\ n - 1 = total[c0]
                /\ \A m \in 1..n - 1 : item'[c][m] = item[c][m]
  BY DEF Appended
<1>2. Owned'
  <2>. SUFFICES ASSUME NEW c \in Channel, NEW n \in 1..total'[c],
                       NEW r \in Names(item'[c][n])
                PROVE  channel'[r] = c /\ proxy'[r] # "new"
    BY DEF Owned, Names
  <2>. QED
    BY <1>1 DEF Owned
<1>3. Ordered'
  <2>. SUFFICES ASSUME NEW c \in Channel, NEW n \in 1..total'[c],
                       NEW r \in Names(item'[c][n])
                PROVE  /\ \A m \in 1..n - 1 : ~Deletes(item'[c][m], r)
                       /\ Makes(item'[c][n], r) =>
                             /\ r \notin pool' /\ r \notin item'[c][n].expects
                             /\ \A m \in 1..n - 1 : r \notin Names(item'[c][m])
                       /\ \/ Makes(item'[c][n], r)
                          \/ r \in pool'
                          \/ \E m \in 1..n - 1 : Makes(item'[c][m], r)
    BY DEF Ordered, Names, Makes, Deletes
  <2>1. CASE /\ n \in 1..total[c] /\ item'[c][n] = item[c][n]
             /\ \A m \in 1..n - 1 : item'[c][m] = item[c][m]
    BY <2>1 DEF Ordered
  <2>2. CASE /\ c = c0 /\ n = total[c0] + 1 /\ item'[c][n] = q
             /\ n - 1 = total[c0]
             /\ \A m \in 1..n - 1 : item'[c][m] = item[c][m]
    BY <2>2
  <2>. QED
    BY <1>1, <2>1, <2>2
<1>. QED
  BY <1>2, <1>3

(* What a call may expect when it reaches the client. *)
LEMMA AliveIsFound ==
    ASSUME PipeInv, NEW c \in Channel, c \in accepting,
           NEW r \in Proxy, proxy[r] = "alive", channel[r] = c
    PROVE  /\ \A m \in 1..total[c] : ~Deletes(item[c][m], r)
           /\ r \in pool \/ \E m \in 1..total[c] : Makes(item[c][m], r)
  BY DEF PipeInv, Alive

(* A call is made, in the pipelines: it is dropped, or appended.           *)
Called(c, q) ==
    /\ UNCHANGED <<pool, accepting>>
    /\ c \notin accepting => UNCHANGED <<total, item>>
    /\ c \in accepting => Appended(c, q)

(* What the lemmas need of the types. *)
Sizes ==
    /\ proxy \in [Proxy -> {"new", "alive", "gone"}]
    /\ channel \in [Proxy -> Channel \cup {None}]
    /\ accepting \subseteq Channel
    /\ \A c \in Channel : total[c] \in Nat
    /\ \A c \in Channel : \A n \in 1..total[c] : Names(item[c][n]) \subseteq Proxy

LEMMA SameOrder ==
    ASSUME Ordered, UNCHANGED <<pool, total, item>>
    PROVE  Ordered'
  BY DEF Ordered, Names, Makes, Deletes

LEMMA CreationKeeps ==
    ASSUME PipeInv, Sizes, NEW r0 \in Proxy, NEW c0 \in Channel,
           NEW ids \in SUBSET Proxy,
           proxy[r0] = "new",
           proxy' = [proxy EXCEPT ![r0] = "alive"],
           channel' = [channel EXCEPT ![r0] = c0],
           Called(c0, [kind |-> "New", to |-> r0, expects |-> Expected(c0, ids)])
    PROVE  PipeInv'
<1>. DEFINE q == [kind |-> "New", to |-> r0, expects |-> Expected(c0, ids)]
<1>1. /\ q.expects = Expected(c0, ids)
      /\ \A r : Makes(q, r) <=> r = r0
      /\ \A r : ~Deletes(q, r)
      /\ Names(q) = {r0} \cup Expected(c0, ids)
      /\ r0 \notin Expected(c0, ids)
  BY DEF Makes, Deletes, Names, Expected
<1>2. Called(c0, q)
  OBVIOUS
<1>. HIDE DEF q
<1>3. \A r \in Proxy \ {r0} : proxy'[r] = proxy[r] /\ channel'[r] = channel[r]
  BY DEF Sizes
<1>4. proxy'[r0] = "alive" /\ channel'[r0] = c0
  BY DEF Sizes
<1>5. \A c \in Channel : \A n \in 1..total[c] : r0 \notin Names(item[c][n])
  BY DEF PipeInv, Owned
<1>6. r0 \notin pool
  BY DEF PipeInv, Unused
<1>7. Unused'
  BY <1>3, <1>4 DEF PipeInv, Unused, Called
<1>8. CASE c0 \in accepting
  <2>1. Appended(c0, q)
    BY <1>2, <1>8 DEF Called
  <2>2. ASSUME NEW r \in Expected(c0, ids)
        PROVE  /\ r \in Proxy /\ r # r0
               /\ proxy[r] = "alive" /\ channel[r] = c0
               /\ \A m \in 1..total[c0] : ~Deletes(item[c0][m], r)
               /\ r \in pool \/ \E m \in 1..total[c0] : Makes(item[c0][m], r)
    BY <1>8, AliveIsFound DEF Expected
  <2>3. \A m \in 1..total[c0] : ~Deletes(item[c0][m], r0)
    BY <1>5 DEF Names, Deletes
  <2>4. Owned' /\ Ordered'
    <3>1. /\ UNCHANGED pool /\ Owned /\ Ordered
          /\ \A c \in Channel : total[c] \in Nat
      BY DEF Called, PipeInv, Sizes
    <3>2. \A c \in Channel : \A n \in 1..total[c] : \A r \in Names(item[c][n]) :
             proxy[r] # "new" => proxy'[r] # "new" /\ channel'[r] = channel[r]
      BY <1>3, <1>5 DEF Sizes
    <3>3. \A r \in Names(q) :
             /\ channel'[r] = c0 /\ proxy'[r] # "new"
             /\ \A m \in 1..total[c0] : ~Deletes(item[c0][m], r)
             /\ Makes(q, r) =>
                   /\ r \notin pool /\ r \notin q.expects
                   /\ \A m \in 1..total[c0] : r \notin Names(item[c0][m])
             /\ \/ Makes(q, r)
                \/ r \in pool
                \/ \E m \in 1..total[c0] : Makes(item[c0][m], r)
      BY <1>1, <1>3, <1>4, <1>5, <1>6, <2>2, <2>3
    <3>. QED
      BY <2>1, <3>1, <3>2, <3>3, LastAppended
  <2>5. Alive'
    <3>. SUFFICES ASSUME NEW r \in Proxy, proxy'[r] = "alive"
                  PROVE  /\ channel'[r] \in Channel
                         /\ \A c \in accepting' : channel'[r] = c =>
                              /\ r \in pool'
                                 \/ \E n \in 1..total'[c] : Makes(item'[c][n], r)
                              /\ \A n \in 1..total'[c] : ~Deletes(item'[c][n], r)
      BY DEF Alive, Makes, Deletes
    <3>1. CASE r = r0
      <4>1. /\ total[c0] + 1 \in 1..total'[c0]
            /\ Makes(item'[c0][total[c0] + 1], r0)
            /\ \A n \in 1..total'[c0] : ~Deletes(item'[c0][n], r0)
        BY <1>1, <2>1, <2>3 DEF Appended, Sizes
      <4>. QED
        BY <1>4, <3>1, <4>1
    <3>2. CASE r # r0
      <4>1. /\ proxy[r] = "alive" /\ channel'[r] = channel[r]
            /\ channel[r] \in Channel
        BY <1>3, <3>2 DEF PipeInv, Alive
      <4>. SUFFICES ASSUME NEW c \in accepting, channel[r] = c
                    PROVE  /\ r \in pool
                              \/ \E n \in 1..total'[c] : Makes(item'[c][n], r)
                           /\ \A n \in 1..total'[c] : ~Deletes(item'[c][n], r)
        BY <4>1 DEF Called
      <4>2. /\ \A m \in 1..total[c] : ~Deletes(item[c][m], r)
            /\ r \in pool \/ \E m \in 1..total[c] : Makes(item[c][m], r)
        BY <4>1, AliveIsFound DEF Sizes
      <4>3. \A n \in 1..total[c] : n \in 1..total'[c] /\ item'[c][n] = item[c][n]
        BY <2>1 DEF Appended, Sizes
      <4>4. \A n \in 1..total'[c] : n \in 1..total[c] \/ item'[c][n] = q
        BY <2>1 DEF Appended, Sizes
      <4>. QED
        BY <1>1, <4>2, <4>3, <4>4
    <3>. QED
      BY <3>1, <3>2
  <2>. QED
    BY <1>7, <2>4, <2>5 DEF PipeInv
<1>9. CASE c0 \notin accepting
  <2>1. UNCHANGED <<pool, accepting, total, item>>
    BY <1>9 DEF Called
  <2>2. Owned'
    BY <1>3, <1>5, <2>1 DEF PipeInv, Owned, Sizes, Names
  <2>3. Ordered'
    BY <2>1, SameOrder DEF PipeInv
  <2>4. Alive'
    BY <1>3, <1>4, <1>9, <2>1 DEF PipeInv, Alive, Makes, Deletes
  <2>. QED
    BY <1>7, <2>2, <2>3, <2>4 DEF PipeInv
<1>. QED
  BY <1>8, <1>9

(* A method, or a destructor, of a proxy that is alive.                    *)
LEMMA UseKeeps ==
    ASSUME PipeInv, Sizes, NEW r0 \in Proxy, NEW c0, c0 = channel[r0],
           NEW ids \in SUBSET Proxy, NEW kind \in {"call", "Delete"},
           proxy[r0] = "alive",
           proxy' = [proxy EXCEPT ![r0] = IF kind = "Delete" THEN "gone" ELSE "alive"],
           channel' = channel,
           Called(c0, [kind |-> kind, to |-> r0, expects |-> Expected(c0, ids)])
    PROVE  PipeInv'
<1>. DEFINE q == [kind |-> kind, to |-> r0, expects |-> Expected(c0, ids)]
<1>1. /\ \A r : ~Makes(q, r)
      /\ \A r : Deletes(q, r) => r = r0 /\ kind = "Delete"
      /\ Names(q) = {r0} \cup Expected(c0, ids)
  BY DEF Makes, Deletes, Names
<1>2. Called(c0, q)
  OBVIOUS
<1>. HIDE DEF q
<1>3. \A r \in Proxy \ {r0} : proxy'[r] = proxy[r]
  BY DEF Sizes
<1>4. proxy'[r0] = IF kind = "Delete" THEN "gone" ELSE "alive"
  BY DEF Sizes
<1>5. c0 \in Channel
  BY DEF PipeInv, Alive
<1>6. \A r \in Proxy : /\ proxy[r] # "new" => proxy'[r] # "new"
                       /\ proxy'[r] = "new" => proxy[r] = "new"
                       /\ proxy'[r] = "alive" => proxy[r] = "alive"
  BY <1>3, <1>4
<1>7. Unused'
  BY <1>6 DEF PipeInv, Unused, Called
<1>8. CASE c0 \in accepting
  <2>1. Appended(c0, q)
    BY <1>2, <1>8 DEF Called
  <2>2. ASSUME NEW r \in Names(q)
        PROVE  /\ r \in Proxy /\ proxy[r] = "alive" /\ channel[r] = c0
               /\ \A m \in 1..total[c0] : ~Deletes(item[c0][m], r)
               /\ r \in pool \/ \E m \in 1..total[c0] : Makes(item[c0][m], r)
    <3>1. r \in Proxy /\ proxy[r] = "alive" /\ channel[r] = c0
      BY <1>1, <2>2 DEF Expected
    <3>. QED
      BY <1>5, <1>8, <3>1, AliveIsFound
  <2>4. Owned' /\ Ordered'
    <3>1. /\ UNCHANGED pool /\ Owned /\ Ordered
          /\ \A c \in Channel : total[c] \in Nat
      BY DEF Called, PipeInv, Sizes
    <3>2. \A c \in Channel : \A n \in 1..total[c] : \A r \in Names(item[c][n]) :
             proxy[r] # "new" => proxy'[r] # "new" /\ channel'[r] = channel[r]
      BY <1>6 DEF Sizes
    <3>3. \A r \in Names(q) :
             /\ channel'[r] = c0 /\ proxy'[r] # "new"
             /\ \A m \in 1..total[c0] : ~Deletes(item[c0][m], r)
             /\ Makes(q, r) =>
                   /\ r \notin pool /\ r \notin q.expects
                   /\ \A m \in 1..total[c0] : r \notin Names(item[c0][m])
             /\ \/ Makes(q, r)
                \/ r \in pool
                \/ \E m \in 1..total[c0] : Makes(item[c0][m], r)
      BY <1>1, <1>6, <2>2
    <3>. QED
      BY <1>5, <2>1, <3>1, <3>2, <3>3, LastAppended
  <2>5. Alive'
    <3>. SUFFICES ASSUME NEW r \in Proxy, proxy'[r] = "alive"
                  PROVE  /\ channel'[r] \in Channel
                         /\ \A c \in accepting' : channel'[r] = c =>
                              /\ r \in pool'
                                 \/ \E n \in 1..total'[c] : Makes(item'[c][n], r)
                              /\ \A n \in 1..total'[c] : ~Deletes(item'[c][n], r)
      BY DEF Alive, Makes, Deletes
    <3>1. /\ proxy[r] = "alive" /\ channel[r] \in Channel
          /\ ~Deletes(q, r)
      BY <1>1, <1>4, <1>6 DEF PipeInv, Alive
    <3>. SUFFICES ASSUME NEW c \in accepting, channel[r] = c
                  PROVE  /\ r \in pool
                            \/ \E n \in 1..total'[c] : Makes(item'[c][n], r)
                         /\ \A n \in 1..total'[c] : ~Deletes(item'[c][n], r)
      BY <3>1 DEF Called
    <3>2. /\ \A m \in 1..total[c] : ~Deletes(item[c][m], r)
          /\ r \in pool \/ \E m \in 1..total[c] : Makes(item[c][m], r)
      BY <3>1, AliveIsFound DEF Sizes
    <3>3. \A n \in 1..total[c] : n \in 1..total'[c] /\ item'[c][n] = item[c][n]
      BY <2>1 DEF Appended, Sizes
    <3>4. \A n \in 1..total'[c] : n \in 1..total[c] \/ item'[c][n] = q
      BY <2>1 DEF Appended, Sizes
    <3>. QED
      BY <3>1, <3>2, <3>3, <3>4
  <2>. QED
    BY <1>7, <2>4, <2>5 DEF PipeInv
<1>9. CASE c0 \notin accepting
  <2>1. UNCHANGED <<pool, accepting, total, item>>
    BY <1>9 DEF Called
  <2>2. Owned'
    <3>. SUFFICES ASSUME NEW c \in Channel, NEW n \in 1..total[c],
                         NEW r \in Names(item[c][n])
                  PROVE  channel'[r] = c /\ proxy'[r] # "new"
      BY <2>1 DEF Owned, Names
    <3>. QED
      BY <1>6 DEF PipeInv, Owned, Sizes
  <2>3. Ordered'
    BY <2>1, SameOrder DEF PipeInv
  <2>4. Alive'
    BY <1>6, <2>1 DEF PipeInv, Alive, Makes, Deletes
  <2>. QED
    BY <1>7, <2>2, <2>3, <2>4 DEF PipeInv
<1>. QED
  BY <1>8, <1>9

-----------------------------------------------------------------------------
(* The steps, in the pipelines.                                            *)

(* What the pipelines consist of. *)
Pipelines ==
    /\ Sizes
    /\ \A c \in Channel :
          /\ total[c] \in Nat
          /\ Len(sent[c]) \in Nat /\ Len(jobs[c]) \in Nat
          /\ Coming(c) \in 0..Len(jobs[c])
          /\ total[c] = Len(sent[c]) + Coming(c)
          /\ \A n \in 1..Len(sent[c]) :
                n \in 1..total[c] /\ item[c][n] = sent[c][n]
          /\ \A n \in 1..total[c] :
                /\ item[c][n] \in SentRequest
                /\ n > Len(sent[c]) =>
                      /\ n - Len(sent[c]) \in 1..Len(jobs[c])
                      /\ item[c][n] = Request(jobs[c][n - Len(sent[c])])

LEMMA PipelinesHold == TypeOK => Pipelines
<1>. SUFFICES ASSUME TypeOK PROVE Pipelines
  OBVIOUS
<1>1. ASSUME NEW c \in Channel
      PROVE  /\ total[c] \in Nat
             /\ Len(sent[c]) \in Nat /\ Len(jobs[c]) \in Nat
             /\ Coming(c) \in 0..Len(jobs[c])
             /\ total[c] = Len(sent[c]) + Coming(c)
  <2>1. Len(sent[c]) \in Nat /\ Len(jobs[c]) \in Nat
    BY DEF TypeOK
  <2>2. c \in busy => Len(jobs[c]) >= 1
    BY <2>1, EmptySeq DEF TypeOK
  <2>3. Coming(c) \in 0..Len(jobs[c])
    BY <2>1, <2>2 DEF Coming, TypeOK
  <2>. QED
    BY <2>1, <2>3 DEF total
<1>2. ASSUME NEW c \in Channel, NEW n \in 1..total[c]
      PROVE  item[c][n] = IF n <= Len(sent[c]) THEN sent[c][n]
                          ELSE Request(jobs[c][n - Len(sent[c])])
  BY DEF item
<1>3. ASSUME NEW c \in Channel, NEW n \in 1..total[c], n > Len(sent[c])
      PROVE  /\ n - Len(sent[c]) \in 1..Len(jobs[c])
             /\ item[c][n] = Request(jobs[c][n - Len(sent[c])])
  BY <1>1, <1>2, <1>3
<1>4. ASSUME NEW c \in Channel, NEW n \in 1..Len(sent[c])
      PROVE  n \in 1..total[c] /\ item[c][n] = sent[c][n]
  <2>1. n \in 1..total[c]
    BY <1>1
  <2>. QED
    BY <1>1, <1>2, <2>1
<1>5. ASSUME NEW c \in Channel, NEW n \in 1..total[c]
      PROVE  item[c][n] \in SentRequest
  <2>1. CASE n <= Len(sent[c])
    <3>1. item[c][n] = sent[c][n] /\ n \in 1..Len(sent[c])
      BY <1>1, <1>2, <2>1
    <3>2. sent[c][n] \in SentRequest
      BY <3>1, ElementOfSeq DEF TypeOK
    <3>. QED
      BY <3>1, <3>2
  <2>2. CASE n > Len(sent[c])
    <3>1. /\ n - Len(sent[c]) \in 1..Len(jobs[c])
          /\ item[c][n] = Request(jobs[c][n - Len(sent[c])])
      BY <1>3, <2>2
    <3>2. jobs[c][n - Len(sent[c])] \in Job
      BY <3>1, ElementOfSeq DEF TypeOK
    <3>3. Request(jobs[c][n - Len(sent[c])]) \in SentRequest
      BY <3>2 DEF Request, Job, SentRequest
    <3>. QED
      BY <3>1, <3>3
  <2>. QED
    BY <1>1, <2>1, <2>2
<1>6. Sizes
  BY <1>1, <1>5 DEF Sizes, TypeOK, accepting, Names, SentRequest
<1>. QED
  BY <1>1, <1>3, <1>4, <1>5, <1>6 DEF Pipelines

LEMMA PipelinesHoldNext == TypeOK' => Pipelines'
  BY PipelinesHold, PTL

(* The first of a sequence, and the rest. *)
LEMMA FirstAndRest ==
    ASSUME NEW S, NEW s \in Seq(S), s # <<>>
    PROVE  /\ Len(s) \in Nat \ {0}
           /\ Head(s) = s[1] /\ Head(s) \in S
           /\ Tail(s) \in Seq(S) /\ Len(Tail(s)) = Len(s) - 1
           /\ \A i \in 1..Len(Tail(s)) : Tail(s)[i] = s[i + 1]
  BY HeadTailProperties, EmptySeq

(* What a call does to the queue of its channel. *)
LEMMA PushTypes ==
    ASSUME TypeOK, NEW c \in Channel, NEW kind \in {"New", "call", "Delete"},
           NEW r \in Proxy, NEW ids \in SUBSET Proxy, NEW d \in Data \cup {None},
           PushJob(c, kind, r, ids, d)
    PROVE  /\ UNCHANGED <<dropped, running, busy, sent, cut, pool>>
           /\ jobs' \in [Channel -> Seq(Job)]
           /\ data' \in [Data -> {"user", "held", "notified", "released"}]
           /\ calls' \in 0..MaxCalls
           /\ \A e \in busy : jobs'[e] # <<>>
           /\ \A e \in Channel \ {c} : jobs'[e] = jobs[e]
           /\ ~Accepts(c) => jobs' = jobs
           /\ Accepts(c) =>
                 /\ Len(jobs'[c]) = Len(jobs[c]) + 1
                 /\ \A i \in 1..Len(jobs[c]) : jobs'[c][i] = jobs[c][i]
                 /\ jobs'[c][Len(jobs[c]) + 1]
                      = [kind |-> kind, to |-> r, expects |-> Expected(c, ids),
                         data |-> d]
<1>. DEFINE j == [kind |-> kind, to |-> r, expects |-> Expected(c, ids), data |-> d]
<1>1. j \in Job
  BY DEF Job, Expected
<1>2. /\ UNCHANGED <<dropped, running, busy, sent, cut, pool>>
      /\ calls < MaxCalls /\ calls' = calls + 1
      /\ jobs' = IF Accepts(c) THEN [jobs EXCEPT ![c] = Append(@, j)] ELSE jobs
      /\ data' = [e \in Data |-> IF e # d THEN data[e]
                                  ELSE IF Accepts(c) THEN "held" ELSE "notified"]
  BY DEF PushJob
<1>. HIDE DEF j
<1>3. /\ jobs \in [Channel -> Seq(Job)] /\ jobs[c] \in Seq(Job)
      /\ Len(jobs[c]) \in Nat /\ \A e \in busy : e \in Channel /\ jobs[e] # <<>>
  BY LenProperties DEF TypeOK
<1>4. /\ Append(jobs[c], j) \in Seq(Job)
      /\ Len(Append(jobs[c], j)) = Len(jobs[c]) + 1
      /\ \A i \in 1..Len(jobs[c]) : Append(jobs[c], j)[i] = jobs[c][i]
      /\ Append(jobs[c], j)[Len(jobs[c]) + 1] = j
  BY <1>1, <1>3, AppendProperties
<1>5. Append(jobs[c], j) # <<>>
  BY <1>3, <1>4, EmptySeq
<1>6. calls' \in 0..MaxCalls
  BY <1>2, CallsAssumption DEF TypeOK
<1>7. data' \in [Data -> {"user", "held", "notified", "released"}]
  BY <1>2 DEF TypeOK
<1>8. /\ jobs' \in [Channel -> Seq(Job)]
      /\ \A e \in busy : jobs'[e] # <<>>
      /\ \A e \in Channel \ {c} : jobs'[e] = jobs[e]
      /\ Accepts(c) => jobs'[c] = Append(jobs[c], j)
  BY <1>2, <1>3, <1>4, <1>5
<1>. QED
  BY <1>2, <1>4, <1>6, <1>7, <1>8 DEF j

(* What the end of a job, or its cancellation, does to it. *)
LEMMA PopTypes ==
    ASSUME TypeOK, NEW c \in Channel, jobs[c] # <<>>, PopJob(c)
    PROVE  /\ jobs' \in [Channel -> Seq(Job)]
           /\ data' \in [Data -> {"user", "held", "notified", "released"}]
           /\ Head(jobs[c]) = jobs[c][1] /\ Head(jobs[c]) \in Job
           /\ \A e \in Channel \ {c} : jobs'[e] = jobs[e]
           /\ Len(jobs[c]) \in Nat \ {0}
           /\ Len(jobs'[c]) = Len(jobs[c]) - 1
           /\ \A i \in 1..Len(jobs'[c]) : jobs'[c][i] = jobs[c][i + 1]
<1>1. jobs \in [Channel -> Seq(Job)] /\ jobs[c] \in Seq(Job)
  BY DEF TypeOK
<1>2. /\ Len(jobs[c]) \in Nat \ {0}
      /\ Head(jobs[c]) = jobs[c][1] /\ Head(jobs[c]) \in Job
      /\ Tail(jobs[c]) \in Seq(Job) /\ Len(Tail(jobs[c])) = Len(jobs[c]) - 1
      /\ \A i \in 1..Len(Tail(jobs[c])) : Tail(jobs[c])[i] = jobs[c][i + 1]
  BY <1>1, FirstAndRest
<1>3. jobs' = [jobs EXCEPT ![c] = Tail(@)]
  BY DEF PopJob
<1>4. data' \in [Data -> {"user", "held", "notified", "released"}]
  BY DEF PopJob, TypeOK
<1>. QED
  BY <1>1, <1>2, <1>3, <1>4

(* The proxies' methods differ in what they name, and in whether they take *)
(* a buffer from the user.                                                 *)
Creates(r, c, ids) == r \in Proxy /\ c \in Channel /\ ids \subseteq Proxy
                      /\ Create(r, c, ids)
Uses(r, ids, d) == /\ r \in Proxy /\ ids \subseteq Proxy /\ d \in Data \cup {None}
                   /\ d \in Data => data[d] = "user"
                   /\ Call(r, ids, d)

LEMMA CreationsAre == Creation => \E r, c, ids : Creates(r, c, ids)
<1>. SUFFICES ASSUME NEW c \in Channel,
                     \/ \E o \in Object : CreateVirtualObject(o, c)
                     \/ \E u \in Unit, o \in Object : CreateRenderingUnit(u, c, o)
                     \/ \E t \in Technique, u \in Unit : CreateGlBaseTechnique(t, c, u)
                     \/ \E v \in VertexArray : CreateGlVertexArray(v, c)
                     \/ \E b \in Buffer : CreateGlBuffer(b, c)
                     \/ \E p \in Program : CreateGlProgram(p, c)
                     \/ \E h \in Shader : CreateGlShader(h, c)
                     \/ \E x \in Texture : CreateGlTexture(x, c)
                     \/ \E m \in Sampler : CreateGlSampler(m, c)
              PROVE  \E r, ids : Creates(r, c, ids)
  BY DEF Creation
<1>1. ASSUME NEW r \in Proxy, Create(r, c, {}) PROVE Creates(r, c, {})
  BY <1>1 DEF Creates
<1>2. ASSUME NEW u \in Unit, NEW o \in Object, CreateRenderingUnit(u, c, o)
      PROVE  Creates(u, c, {o})
  BY <1>2 DEF Creates, CreateRenderingUnit, Proxy
<1>3. ASSUME NEW t \in Technique, NEW u \in Unit, CreateGlBaseTechnique(t, c, u)
      PROVE  Creates(t, c, {u})
  BY <1>3 DEF Creates, CreateGlBaseTechnique, Proxy
<1>4. Object \cup VertexArray \cup Buffer \cup Program \cup Shader \cup Texture
        \cup Sampler \subseteq Proxy
  BY DEF Proxy
<1>. QED
  BY <1>1, <1>2, <1>3, <1>4
  DEF CreateVirtualObject, CreateGlVertexArray, CreateGlBuffer, CreateGlProgram,
      CreateGlShader, CreateGlTexture, CreateGlSampler

LEMMA DestructionsAre == Destruction => \E r \in Proxy : Destroy(r)
  BY DEF Destruction, Proxy, DestroyVirtualObject, DestroyRenderingUnit,
     DestroyGlBaseTechnique, DestroyGlVertexArray, DestroyGlBuffer,
     DestroyGlProgram, DestroyGlShader, DestroyGlTexture, DestroyGlSampler

LEMMA MethodsAre == Method => \E r, ids, d : Uses(r, ids, d)
<1>0. /\ Object \subseteq Proxy /\ Technique \subseteq Proxy
      /\ VertexArray \subseteq Proxy /\ Program \subseteq Proxy
      /\ Buffer \subseteq Proxy /\ Texture \subseteq Proxy
      /\ Sampler \subseteq Proxy /\ Shader \subseteq Proxy
  BY DEF Proxy
<1>1. ASSUME NEW r \in Proxy, NEW ids \in SUBSET Proxy, Call(r, ids, None)
      PROVE  Uses(r, ids, None)
  BY <1>1, NoneAssumption DEF Uses
<1>2. ASSUME NEW r \in Proxy, NEW d \in Data, data[d] = "user", Call(r, {}, d)
      PROVE  Uses(r, {}, d)
  BY <1>2 DEF Uses
<1>3. ASSUME NEW r \in Proxy, Call(r, {}, None) PROVE Uses(r, {}, None)
  BY <1>1, <1>3
<1>4. ASSUME NEW o \in Object, Commit(o) \/ Move(o) PROVE Uses(o, {}, None)
  BY <1>0, <1>3, <1>4 DEF Commit, Move
<1>5. ASSUME NEW t \in Technique,
             \/ \E p \in Program : BindProgram(t, p)
             \/ \E v \in VertexArray : BindVertexArray(t, v)
             \/ \E x \in Texture, m \in Sampler : BindTexture(t, x, m)
             \/ GlUniform(t) \/ GlDrawArrays(t)
             \/ \E b \in Buffer : GlDrawElements(t, b)
      PROVE  \E r, ids, d : Uses(r, ids, d)
  <2>1. ASSUME NEW p \in Program, BindProgram(t, p) PROVE Uses(t, {p}, None)
    BY <1>0, <1>1, <2>1 DEF BindProgram
  <2>2. ASSUME NEW v \in VertexArray, BindVertexArray(t, v) PROVE Uses(t, {v}, None)
    BY <1>0, <1>1, <2>2 DEF BindVertexArray
  <2>3. ASSUME NEW x \in Texture, NEW m \in Sampler, BindTexture(t, x, m)
        PROVE  Uses(t, {x, m}, None)
    BY <1>0, <1>1, <2>3 DEF BindTexture
  <2>4. ASSUME NEW b \in Buffer, GlDrawElements(t, b) PROVE Uses(t, {b}, None)
    BY <1>0, <1>1, <2>4 DEF GlDrawElements
  <2>5. ASSUME GlUniform(t) \/ GlDrawArrays(t) PROVE Uses(t, {}, None)
    BY <1>0, <1>3, <2>5 DEF GlUniform, GlDrawArrays
  <2>. QED
    BY <1>5, <2>1, <2>2, <2>3, <2>4, <2>5
<1>6. ASSUME NEW v \in VertexArray,
             \/ GlEnableVertexAttribArray(v) \/ GlDisableVertexAttribArray(v)
             \/ \E b \in Buffer : GlVertexAttribPointer(v, b)
      PROVE  \E r, ids, d : Uses(r, ids, d)
  <2>1. ASSUME NEW b \in Buffer, GlVertexAttribPointer(v, b) PROVE Uses(v, {b}, None)
    BY <1>0, <1>1, <2>1 DEF GlVertexAttribPointer
  <2>2. ASSUME GlEnableVertexAttribArray(v) \/ GlDisableVertexAttribArray(v)
        PROVE  Uses(v, {}, None)
    BY <1>0, <1>3, <2>2 DEF GlEnableVertexAttribArray, GlDisableVertexAttribArray
  <2>. QED
    BY <1>6, <2>1, <2>2
<1>7. ASSUME NEW p \in Program,
             GlLinkProgram(p) \/ \E h \in Shader : GlAttachShader(p, h)
      PROVE  \E r, ids, d : Uses(r, ids, d)
  <2>1. ASSUME NEW h \in Shader, GlAttachShader(p, h) PROVE Uses(p, {h}, None)
    BY <1>0, <1>1, <2>1 DEF GlAttachShader
  <2>2. ASSUME GlLinkProgram(p) PROVE Uses(p, {}, None)
    BY <1>0, <1>3, <2>2 DEF GlLinkProgram
  <2>. QED
    BY <1>7, <2>1, <2>2
<1>8. ASSUME NEW b \in Buffer, NEW d \in Data, GlBufferData(b, d)
      PROVE  Uses(b, {}, d)
  BY <1>0, <1>2, <1>8 DEF GlBufferData
<1>9. ASSUME NEW x \in Texture,
             \/ \E d \in Data : GlTexImage2D(x, d) \/ GlTexSubImage2D(x, d)
             \/ GlGenerateMipmap(x)
      PROVE  \E r, ids, d : Uses(r, ids, d)
  <2>1. ASSUME NEW d \in Data, GlTexImage2D(x, d) \/ GlTexSubImage2D(x, d)
        PROVE  Uses(x, {}, d)
    BY <1>0, <1>2, <2>1 DEF GlTexImage2D, GlTexSubImage2D
  <2>2. ASSUME GlGenerateMipmap(x) PROVE Uses(x, {}, None)
    BY <1>0, <1>3, <2>2 DEF GlGenerateMipmap
  <2>. QED
    BY <1>9, <2>1, <2>2
<1>10. ASSUME NEW m \in Sampler,
              \/ GlSamplerParameterf(m) \/ GlSamplerParameteri(m)
              \/ GlSamplerParameterfv(m) \/ GlSamplerParameteriv(m)
              \/ GlSamplerParameterIiv(m) \/ GlSamplerParameterIuiv(m)
       PROVE  Uses(m, {}, None)
  BY <1>0, <1>3, <1>10
  DEF GlSamplerParameterf, GlSamplerParameteri, GlSamplerParameterfv,
      GlSamplerParameteriv, GlSamplerParameterIiv, GlSamplerParameterIuiv
<1>. QED
  BY <1>4, <1>5, <1>6, <1>7, <1>8, <1>9, <1>10 DEF Method

LEMMA TypesInitially == Init => TypeOK
<1>. SUFFICES ASSUME Init PROVE TypeOK
  OBVIOUS
<1>1. PICK early \in Early, home \in Home :
        /\ proxy = [r \in Proxy |-> IF r \in early THEN "alive" ELSE "new"]
        /\ channel = [r \in Proxy |-> IF r \in early THEN home ELSE None]
        /\ pool = early
  BY DEF Init
<1>2. proxy \in [Proxy -> {"new", "alive", "gone"}]
  BY <1>1
<1>3. channel \in [Proxy -> Channel \cup {None}] /\ pool \subseteq Proxy
  BY <1>1, EarlyAssumption
<1>4. jobs \in [Channel -> Seq(Job)] /\ sent \in [Channel -> Seq(SentRequest)]
  BY DEF Init
<1>5. calls \in 0..MaxCalls
  BY CallsAssumption DEF Init
<1>. QED
  BY <1>2, <1>3, <1>4, <1>5 DEF Init, TypeOK

LEMMA TypesKept == TypeOK /\ Alive /\ [Next]_vars => TypeOK'
<1>. SUFFICES ASSUME TypeOK, Alive, [Next]_vars PROVE TypeOK'
  OBVIOUS
<1>1. ASSUME NEW r, NEW c, NEW ids, Creates(r, c, ids) PROVE TypeOK'
  <2>1. /\ r \in Proxy /\ c \in Channel /\ PushJob(c, "New", r, ids, None)
        /\ ids \in SUBSET Proxy
        /\ proxy' = [proxy EXCEPT ![r] = "alive"]
        /\ channel' = [channel EXCEPT ![r] = c]
    BY <1>1 DEF Creates, Create
  <2>. QED
    BY <2>1, PushTypes DEF TypeOK
<1>2. ASSUME NEW r, NEW ids, NEW d, Uses(r, ids, d)
      PROVE  TypeOK'
  <2>1. /\ r \in Proxy /\ PushJob(channel[r], "call", r, ids, d)
        /\ ids \in SUBSET Proxy /\ d \in Data \cup {None}
        /\ UNCHANGED <<proxy, channel>> /\ channel[r] \in Channel
    BY <1>2 DEF Uses, Call, Alive
  <2>. QED
    BY <2>1, PushTypes DEF TypeOK
<1>3. ASSUME NEW r \in Proxy, Destroy(r) PROVE TypeOK'
  <2>1. /\ PushJob(channel[r], "Delete", r, {}, None)
        /\ proxy' = [proxy EXCEPT ![r] = "gone"]
        /\ UNCHANGED channel /\ channel[r] \in Channel
    BY <1>3 DEF Destroy, Alive
  <2>. QED
    BY <2>1, PushTypes DEF TypeOK
<1>4. ASSUME NEW c \in Channel, BeginJob(c) PROVE TypeOK'
  BY <1>4 DEF BeginJob, userVars, TypeOK
<1>5. ASSUME NEW c \in Channel, EndJob(c) PROVE TypeOK'
  <2>1. jobs[c] # <<>> /\ PopJob(c)
    BY <1>5 DEF EndJob, TypeOK
  <2>2. /\ jobs' \in [Channel -> Seq(Job)]
        /\ data' \in [Data -> {"user", "held", "notified", "released"}]
        /\ Head(jobs[c]) \in Job
        /\ \A e \in Channel \ {c} : jobs'[e] = jobs[e]
    BY <2>1, PopTypes
  <2>3. sent' \in [Channel -> Seq(SentRequest)]
    <3>. DEFINE q == Request(Head(jobs[c]))
    <3>1. q \in SentRequest
      BY <2>2 DEF Request, Job, SentRequest
    <3>2. sent' = IF c \in dropped THEN sent ELSE [sent EXCEPT ![c] = Append(@, q)]
      BY <1>5 DEF EndJob, Request
    <3>. HIDE DEF q
    <3>3. Append(sent[c], q) \in Seq(SentRequest)
      BY <3>1, AppendProperties DEF TypeOK
    <3>. QED
      BY <3>2, <3>3 DEF TypeOK
  <2>4. busy' = busy \ {c} /\ UNCHANGED <<userVars, running, cut, pool>>
    BY <1>5 DEF EndJob
  <2>. QED
    BY <2>2, <2>3, <2>4 DEF TypeOK, userVars
<1>6. ASSUME NEW c \in Channel, CancelJob(c) PROVE TypeOK'
  <2>1. /\ jobs[c] # <<>> /\ PopJob(c) /\ c \notin busy
        /\ UNCHANGED <<userVars, running, busy, sent, cut, pool>>
    BY <1>6 DEF CancelJob
  <2>2. /\ jobs' \in [Channel -> Seq(Job)]
        /\ data' \in [Data -> {"user", "held", "notified", "released"}]
        /\ \A e \in Channel \ {c} : jobs'[e] = jobs[e]
    BY <2>1, PopTypes
  <2>. QED
    BY <2>1, <2>2 DEF TypeOK, userVars
<1>7. ASSUME NEW c \in Channel, Disable(c) \/ DropChannel(c) \/ CancelCall(c)
      PROVE  TypeOK'
  BY <1>7 DEF Disable, DropChannel, CancelCall, userVars, TypeOK
<1>8. ASSUME NEW c \in Channel, Handle(c) PROVE TypeOK'
  <2>1. /\ sent' = [sent EXCEPT ![c] = Tail(@)]
        /\ UNCHANGED <<userVars, running, jobs, busy, cut, data>>
        /\ sent[c] # <<>> /\ sent[c] \in Seq(SentRequest)
    BY <1>8 DEF Handle, TypeOK
  <2>2. Head(sent[c]) \in SentRequest /\ Tail(sent[c]) \in Seq(SentRequest)
    BY <2>1, FirstAndRest
  <2>3. pool' \subseteq Proxy
    BY <1>8, <2>2 DEF Handle, TypeOK, SentRequest
  <2>. QED
    BY <2>1, <2>2, <2>3 DEF TypeOK, userVars
<1>9. ASSUME NEW d \in Data, Release(d) PROVE TypeOK'
  BY <1>9 DEF Release, userVars, TypeOK
<1>10. CASE UNCHANGED vars
  BY <1>10 DEF vars, TypeOK
<1>. QED
  BY <1>1, <1>2, <1>3, <1>4, <1>5, <1>6, <1>7, <1>8, <1>9, <1>10,
     CreationsAre, DestructionsAre, MethodsAre DEF Next, Worker

-----------------------------------------------------------------------------
(* Every step is one of the changes of the pipelines.                      *)

LEMMA PushCalls ==
    ASSUME TypeOK, TypeOK', NEW c \in Channel,
           NEW kind \in {"New", "call", "Delete"}, NEW r \in Proxy,
           NEW ids \in SUBSET Proxy, NEW d \in Data \cup {None},
           PushJob(c, kind, r, ids, d)
    PROVE  Called(c, [kind |-> kind, to |-> r, expects |-> Expected(c, ids)])
<1>. DEFINE q == [kind |-> kind, to |-> r, expects |-> Expected(c, ids)]
            j == [kind |-> kind, to |-> r, expects |-> Expected(c, ids), data |-> d]
<1>1. /\ UNCHANGED <<dropped, running, busy, sent, pool>>
      /\ \A e \in Channel \ {c} : jobs'[e] = jobs[e]
      /\ ~Accepts(c) => jobs' = jobs
      /\ Accepts(c) =>
            /\ Len(jobs'[c]) = Len(jobs[c]) + 1
            /\ \A i \in 1..Len(jobs[c]) : jobs'[c][i] = jobs[c][i]
            /\ jobs'[c][Len(jobs[c]) + 1] = j
  BY PushTypes
<1>2. Request(j) = q
  BY DEF Request
<1>. HIDE DEF j, q
<1>3. accepting' = accepting /\ (c \in accepting <=> Accepts(c))
  BY <1>1 DEF accepting, Accepts
<1>4. c \notin accepting => UNCHANGED <<total, item>>
  BY <1>1, <1>3 DEF total, item, Coming
<1>6. /\ jobs \in [Channel -> Seq(Job)] /\ sent \in [Channel -> Seq(SentRequest)]
      /\ DOMAIN total = Channel /\ DOMAIN total' = Channel
      /\ DOMAIN item = Channel /\ DOMAIN item' = Channel
      /\ jobs' \in [Channel -> Seq(Job)]
  BY DEF TypeOK, total, item
<1>5. CASE c \in accepting
  <2>1. /\ Len(sent[c]) \in Nat /\ Len(jobs[c]) \in Nat
        /\ total[c] = Len(sent[c]) + Len(jobs[c])
        /\ total'[c] = Len(sent[c]) + Len(jobs[c]) + 1
        /\ total'[c] \in Nat
    <3>1. Coming(c) = Len(jobs[c]) /\ total'[c] = Len(sent[c]) + Len(jobs'[c])
      BY <1>1, <1>3, <1>5 DEF total, Coming, Accepts
    <3>2. /\ Len(sent[c]) \in Nat /\ Len(jobs[c]) \in Nat
          /\ total[c] = Len(sent[c]) + Coming(c)
      BY PipelinesHold DEF Pipelines
    <3>3. Len(jobs'[c]) = Len(jobs[c]) + 1
      BY <1>1, <1>3, <1>5, Zenon
    <3>. QED
      BY <1>6, <3>1, <3>2, <3>3
  <2>0. /\ \A i \in 1..Len(jobs[c]) : jobs'[c][i] = jobs[c][i]
        /\ jobs'[c][Len(jobs[c]) + 1] = j
    BY <1>1, <1>3, <1>5
  <2>2. \A n \in 1..total'[c] :
           item'[c][n] = IF n <= Len(sent[c]) THEN sent[c][n]
                         ELSE Request(jobs'[c][n - Len(sent[c])])
    BY <1>1 DEF item
  <2>3. item'[c][total[c] + 1] = q
    <3>1. /\ total[c] + 1 \in 1..total'[c] /\ ~(total[c] + 1 <= Len(sent[c]))
          /\ (total[c] + 1) - Len(sent[c]) = Len(jobs[c]) + 1
      BY <1>6, <2>1
    <3>2. item'[c][total[c] + 1] = Request(jobs'[c][(total[c] + 1) - Len(sent[c])])
      BY <2>2, <3>1
    <3>. QED
      BY <1>2, <2>0, <3>1, <3>2, Zenon
  <2>5. \A n \in 1..total[c] : item'[c][n] = item[c][n]
    <3>. SUFFICES ASSUME NEW n \in 1..total[c] PROVE item'[c][n] = item[c][n]
      OBVIOUS
    <3>1. /\ n \in 1..total'[c]
          /\ ~(n <= Len(sent[c])) => n - Len(sent[c]) \in 1..Len(jobs[c])
      BY <1>6, <2>1
    <3>2. item[c][n] = IF n <= Len(sent[c]) THEN sent[c][n]
                       ELSE Request(jobs[c][n - Len(sent[c])])
      BY DEF item
    <3>3. item'[c][n] = IF n <= Len(sent[c]) THEN sent[c][n]
                        ELSE Request(jobs'[c][n - Len(sent[c])])
      BY <2>2, <3>1, Zenon
    <3>4. CASE n <= Len(sent[c])
      BY <3>2, <3>3, <3>4, Zenon
    <3>5. CASE ~(n <= Len(sent[c]))
      <4>1. jobs'[c][n - Len(sent[c])] = jobs[c][n - Len(sent[c])]
        BY <2>0, <3>1, <3>5, Zenon
      <4>. QED
        BY <3>2, <3>3, <3>5, <4>1, Zenon
    <3>. QED
      BY <3>4, <3>5
  <2>4. ASSUME NEW e \in Channel \ {c}
        PROVE  total'[e] = total[e] /\ item'[e] = item[e]
    <3>1. total'[e] = total[e]
      BY <1>1 DEF total, Coming
    <3>. QED
      BY <1>1, <3>1 DEF item
  <2>. QED
    BY <1>1, <1>3, <1>5, <2>1, <2>3, <2>4, <2>5 DEF Called, Appended, q
<1>. QED
  BY <1>1, <1>3, <1>4, <1>5 DEF Called, q

(* Where the functions are defined, before and after a step. *)
LEMMA Domains ==
    ASSUME TypeOK, TypeOK'
    PROVE  /\ jobs \in [Channel -> Seq(Job)] /\ jobs' \in [Channel -> Seq(Job)]
           /\ sent \in [Channel -> Seq(SentRequest)]
           /\ sent' \in [Channel -> Seq(SentRequest)]
           /\ running \in [Channel -> BOOLEAN] /\ running' \in [Channel -> BOOLEAN]
           /\ DOMAIN total = Channel /\ DOMAIN total' = Channel
           /\ DOMAIN item = Channel /\ DOMAIN item' = Channel
           /\ \A c \in Channel :
                 /\ total[c] \in Nat /\ total'[c] \in Nat
                 /\ Len(sent[c]) \in Nat /\ Len(jobs[c]) \in Nat
                 /\ Len(sent'[c]) \in Nat /\ Len(jobs'[c]) \in Nat
           /\ accepting \subseteq Channel
<1>1. /\ jobs \in [Channel -> Seq(Job)] /\ jobs' \in [Channel -> Seq(Job)]
      /\ sent \in [Channel -> Seq(SentRequest)]
      /\ sent' \in [Channel -> Seq(SentRequest)]
      /\ running \in [Channel -> BOOLEAN] /\ running' \in [Channel -> BOOLEAN]
  BY DEF TypeOK
<1>2. /\ DOMAIN total = Channel /\ DOMAIN total' = Channel
      /\ DOMAIN item = Channel /\ DOMAIN item' = Channel
      /\ accepting \subseteq Channel
  BY DEF total, item, accepting
<1>3. \A c \in Channel :
         /\ total[c] \in Nat /\ Len(sent[c]) \in Nat /\ Len(jobs[c]) \in Nat
  BY PipelinesHold DEF Pipelines
<1>4. \A c \in Channel :
         /\ total'[c] \in Nat /\ Len(sent'[c]) \in Nat /\ Len(jobs'[c]) \in Nat
  BY PipelinesHoldNext DEF Pipelines
<1>. QED
  BY <1>1, <1>2, <1>3, <1>4

(* The parts of a pipeline. *)
LEMMA Parts ==
    ASSUME TypeOK, TypeOK', NEW c \in Channel
    PROVE  /\ total[c] = Len(sent[c]) + Coming(c)
           /\ Coming(c) \in 0..Len(jobs[c])
           /\ \A n \in 1..total[c] :
                 /\ n <= Len(sent[c]) => item[c][n] = sent[c][n]
                 /\ ~(n <= Len(sent[c])) =>
                       /\ n - Len(sent[c]) \in 1..Len(jobs[c])
                       /\ item[c][n] = Request(jobs[c][n - Len(sent[c])])
           /\ total'[c] = Len(sent'[c])
                + (IF c \in dropped' THEN 0
                   ELSE IF running'[c] THEN Len(jobs'[c])
                   ELSE IF c \in busy' THEN 1 ELSE 0)
           /\ \A n \in 1..total'[c] :
                 /\ n <= Len(sent'[c]) => item'[c][n] = sent'[c][n]
                 /\ ~(n <= Len(sent'[c])) =>
                       item'[c][n] = Request(jobs'[c][n - Len(sent'[c])])
<1>1. /\ total[c] = Len(sent[c]) + Coming(c)
      /\ Coming(c) \in 0..Len(jobs[c])
  BY PipelinesHold DEF Pipelines
<1>2. ASSUME NEW n \in 1..total[c]
      PROVE  /\ n <= Len(sent[c]) => item[c][n] = sent[c][n]
             /\ ~(n <= Len(sent[c])) =>
                   /\ n - Len(sent[c]) \in 1..Len(jobs[c])
                   /\ item[c][n] = Request(jobs[c][n - Len(sent[c])])
  <2>1. item[c][n] = IF n <= Len(sent[c]) THEN sent[c][n]
                     ELSE Request(jobs[c][n - Len(sent[c])])
    BY DEF item
  <2>2. ~(n <= Len(sent[c])) => n - Len(sent[c]) \in 1..Len(jobs[c])
    BY <1>1, Domains
  <2>. QED
    BY <2>1, <2>2, Zenon
<1>3. total'[c] = Len(sent'[c])
          + (IF c \in dropped' THEN 0
             ELSE IF running'[c] THEN Len(jobs'[c])
             ELSE IF c \in busy' THEN 1 ELSE 0)
  BY DEF total, Coming
<1>4. ASSUME NEW n \in 1..total'[c]
      PROVE  /\ n <= Len(sent'[c]) => item'[c][n] = sent'[c][n]
             /\ ~(n <= Len(sent'[c])) =>
                   item'[c][n] = Request(jobs'[c][n - Len(sent'[c])])
  <2>1. item'[c][n] = IF n <= Len(sent'[c]) THEN sent'[c][n]
                      ELSE Request(jobs'[c][n - Len(sent'[c])])
    BY DEF item
  <2>. QED
    BY <2>1, Zenon
<1>. QED
  BY <1>1, <1>2, <1>3, <1>4

(* A channel whose queues, and whose part of the variables, stay the same. *)
LEMMA Untouched ==
    ASSUME NEW c \in Channel,
           jobs'[c] = jobs[c], sent'[c] = sent[c], running'[c] = running[c],
           c \in busy' <=> c \in busy, c \in dropped' <=> c \in dropped
    PROVE  total'[c] = total[c] /\ item'[c] = item[c]
<1>1. total'[c] = total[c]
  BY DEF total, Coming
<1>. QED
  BY <1>1 DEF item

LEMMA SameQueues ==
    ASSUME TypeOK, TypeOK', PipeInv,
           UNCHANGED <<proxy, channel, pool, sent, jobs>>,
           \A c \in Channel :
              /\ c \in dropped => c \in dropped'
              /\ running'[c] => running[c]
              /\ c \in busy' => c \in busy \/ running[c]
              /\ c \in busy /\ ~running'[c] => c \in busy'
    PROVE  PipeInv'
<1>1. accepting' \subseteq accepting
  BY DEF accepting, Accepts
<1>2. ASSUME NEW c \in Channel
      PROVE  /\ total'[c] <= total[c]
             /\ c \in accepting' => total'[c] = total[c]
             /\ \A n \in 1..total'[c] : item'[c][n] = item[c][n]
  <2>0. /\ Len(sent[c]) \in Nat /\ Len(jobs[c]) \in Nat
        /\ running[c] \in BOOLEAN /\ running'[c] \in BOOLEAN
        /\ c \in busy => Len(jobs[c]) >= 1
        /\ c \in busy' => Len(jobs[c]) >= 1
    BY Domains, EmptySeq DEF TypeOK
  <2>1. /\ total[c] = Len(sent[c]) + Coming(c)
        /\ total'[c] = Len(sent'[c])
                + (IF c \in dropped' THEN 0
                   ELSE IF running'[c] THEN Len(jobs'[c])
                   ELSE IF c \in busy' THEN 1 ELSE 0)
    BY Parts
  <2>2. total'[c] <= total[c] /\ (c \in accepting' => total'[c] = total[c])
    BY <2>0, <2>1, Domains DEF Coming, accepting, Accepts
  <2>3. ASSUME NEW n \in 1..total'[c] PROVE item'[c][n] = item[c][n]
    <3>1. n \in 1..total[c]
      BY <2>2, Domains
    <3>2. /\ n <= Len(sent[c]) => item[c][n] = sent[c][n]
          /\ ~(n <= Len(sent[c])) => item[c][n] = Request(jobs[c][n - Len(sent[c])])
      BY <3>1, Parts, Zenon
    <3>3. /\ n <= Len(sent'[c]) => item'[c][n] = sent'[c][n]
          /\ ~(n <= Len(sent'[c])) =>
                item'[c][n] = Request(jobs'[c][n - Len(sent'[c])])
      BY Parts, Zenon
    <3>4. sent' = sent /\ jobs' = jobs
      OBVIOUS
    <3>. QED
      BY <3>2, <3>3, <3>4, Zenon
  <2>. QED
    BY <2>2, <2>3
<1>. QED
  BY <1>1, <1>2, Domains, Shortened

(* A job that is cancelled, or whose channel is dropped, was not in the    *)
(* pipeline any more.                                                      *)
LEMMA CancelKeeps ==
    ASSUME TypeOK, TypeOK', PipeInv, NEW c \in Channel,
           UNCHANGED <<proxy, channel, pool, sent, running, dropped>>,
           \A e \in Channel \ {c} : jobs'[e] = jobs[e] /\ (e \in busy' <=> e \in busy),
           c \notin busy',
           c \in dropped \/ (~running[c] /\ c \notin busy)
    PROVE  PipeInv'
<1>1. accepting' = accepting /\ c \notin accepting
  BY DEF accepting, Accepts
<1>2. /\ total[c] = Len(sent[c]) /\ total'[c] = Len(sent[c])
      /\ \A n \in 1..total'[c] : item'[c][n] = item[c][n]
  <2>1. Coming(c) = 0
    BY DEF Coming
  <2>2. total[c] = Len(sent[c]) /\ total'[c] = Len(sent[c])
    BY <2>1, Parts, Domains
  <2>3. ASSUME NEW n \in 1..total'[c] PROVE item'[c][n] = item[c][n]
    <3>1. n \in 1..total[c] /\ n <= Len(sent[c]) /\ n <= Len(sent'[c])
      BY <2>2, Domains
    <3>2. item[c][n] = sent[c][n] /\ item'[c][n] = sent'[c][n]
      BY <3>1, Parts, Zenon
    <3>. QED
      BY <3>2
  <2>. QED
    BY <2>2, <2>3
<1>3. \A e \in Channel \ {c} : total'[e] = total[e] /\ item'[e] = item[e]
  BY Untouched
<1>4. ASSUME NEW e \in Channel
      PROVE  /\ total'[e] <= total[e]
             /\ e \in accepting' => total'[e] = total[e]
             /\ \A n \in 1..total'[e] : item'[e][n] = item[e][n]
  <2>1. CASE e = c
    <3>1. total'[c] = total[c] /\ total[c] <= total[c]
      BY <1>2, Domains
    <3>. QED
      BY <2>1, <3>1, <1>2
  <2>2. CASE e # c
    <3>1. total'[e] = total[e] /\ item'[e] = item[e]
      BY <1>3, <2>2, Zenon
    <3>2. total[e] <= total[e]
      BY Domains
    <3>. QED
      BY <3>1, <3>2
  <2>. QED
    BY <2>1, <2>2
<1>5. /\ UNCHANGED <<proxy, channel, pool>>
      /\ accepting' \subseteq accepting /\ accepting \subseteq Channel
      /\ \A e \in Channel : total[e] \in Nat /\ total'[e] \in Nat
  BY <1>1, Domains
<1>6. \A e \in Channel :
         /\ total[e] \in Nat /\ total'[e] \in Nat /\ total'[e] <= total[e]
         /\ e \in accepting' => total'[e] = total[e]
         /\ \A n \in 1..total'[e] : item'[e][n] = item[e][n]
  BY <1>4, <1>5, Zenon
<1>. QED
  BY <1>5, <1>6, Shortened, Zenon

(* A job that ends becomes a request, in its place.                        *)
LEMMA EndKeeps ==
    ASSUME TypeOK, TypeOK', PipeInv, NEW c \in Channel, EndJob(c)
    PROVE  PipeInv'
<1>1. /\ c \in busy /\ jobs[c] # <<>> /\ PopJob(c) /\ busy' = busy \ {c}
      /\ UNCHANGED <<proxy, channel, pool, running, dropped>>
      /\ sent' = IF c \in dropped THEN sent
                 ELSE [sent EXCEPT ![c] = Append(@, Request(Head(jobs[c])))]
  BY DEF EndJob, TypeOK, userVars, Request
<1>2. /\ Head(jobs[c]) = jobs[c][1] /\ Head(jobs[c]) \in Job
      /\ \A e \in Channel \ {c} : jobs'[e] = jobs[e]
      /\ Len(jobs[c]) \in Nat \ {0}
      /\ Len(jobs'[c]) = Len(jobs[c]) - 1
      /\ \A i \in 1..Len(jobs'[c]) : jobs'[c][i] = jobs[c][i + 1]
  BY <1>1, PopTypes
<1>3. CASE c \in dropped
  BY <1>1, <1>2, <1>3, CancelKeeps
<1>4. CASE c \notin dropped
  <2>. DEFINE q == Request(Head(jobs[c]))
  <2>1. q \in SentRequest /\ q = Request(jobs[c][1])
    BY <1>2 DEF Request, Job, SentRequest
  <2>2. sent' = [sent EXCEPT ![c] = Append(@, q)]
    BY <1>1, <1>4
  <2>. HIDE DEF q
  <2>3. /\ sent'[c] = Append(sent[c], q)
        /\ \A e \in Channel \ {c} : sent'[e] = sent[e]
    BY <2>2, Domains
  <2>4. /\ Len(sent'[c]) = Len(sent[c]) + 1
        /\ \A n \in 1..Len(sent[c]) : sent'[c][n] = sent[c][n]
        /\ sent'[c][Len(sent[c]) + 1] = q
    <3>1. sent[c] \in Seq(SentRequest)
      BY Domains
    <3>. QED
      BY <2>1, <2>3, <3>1, AppendProperties
  <2>5. total'[c] = total[c]
    <3>1. running[c] \in BOOLEAN /\ running'[c] = running[c]
      BY <1>1, Domains
    <3>2. Coming(c) = IF running[c] THEN Len(jobs[c]) ELSE 1
      BY <1>1, <1>4 DEF Coming
    <3>3. total'[c] = Len(sent'[c]) + IF running[c] THEN Len(jobs'[c]) ELSE 0
      BY <1>1, <1>4, <3>1, Parts
    <3>4. total[c] = Len(sent[c]) + Coming(c)
      BY Parts
    <3>5. /\ Len(jobs'[c]) = Len(jobs[c]) - 1 /\ Len(sent'[c]) = Len(sent[c]) + 1
          /\ Len(sent[c]) \in Nat /\ Len(jobs[c]) \in Nat
      BY <1>2, <2>4, Domains, Zenon
    <3>6. CASE running[c]
      <4>1. total'[c] = Len(sent'[c]) + Len(jobs'[c])
        BY <3>3, <3>6
      <4>2. total[c] = Len(sent[c]) + Len(jobs[c])
        BY <3>2, <3>4, <3>6
      <4>. QED
        BY <3>5, <4>1, <4>2, Domains
    <3>7. CASE ~running[c]
      <4>1. total'[c] = Len(sent'[c]) + 0
        BY <3>3, <3>7
      <4>2. total[c] = Len(sent[c]) + 1
        BY <3>2, <3>4, <3>7
      <4>. QED
        BY <3>5, <4>1, <4>2, Domains
    <3>. QED
      BY <3>1, <3>6, <3>7
  <2>6. ASSUME NEW n \in 1..total'[c] PROVE item'[c][n] = item[c][n]
    <3>0. /\ n \in 1..total[c]
          /\ n <= Len(sent[c]) => n \in 1..Len(sent[c]) /\ n <= Len(sent'[c])
          /\ n = Len(sent[c]) + 1 =>
                /\ n <= Len(sent'[c]) /\ ~(n <= Len(sent[c]))
                /\ n - Len(sent[c]) = 1
          /\ n > Len(sent[c]) + 1 =>
                /\ ~(n <= Len(sent[c])) /\ ~(n <= Len(sent'[c]))
                /\ (n - Len(sent'[c])) + 1 = n - Len(sent[c])
      BY <2>4, <2>5, Domains
    <3>1. CASE n <= Len(sent[c])
      <4>1. item[c][n] = sent[c][n] /\ item'[c][n] = sent'[c][n]
        BY <3>0, <3>1, Parts, Zenon
      <4>. QED
        BY <2>4, <3>0, <3>1, <4>1, Zenon
    <3>2. CASE n = Len(sent[c]) + 1
      <4>1. item[c][n] = Request(jobs[c][n - Len(sent[c])])
        BY <3>0, <3>2, Parts, Zenon
      <4>2. item'[c][n] = sent'[c][n]
        BY <3>0, <3>2, Parts, Zenon
      <4>. QED
        BY <2>1, <2>4, <3>0, <3>2, <4>1, <4>2, Zenon
    <3>3. CASE n > Len(sent[c]) + 1
      <4>1. /\ item[c][n] = Request(jobs[c][n - Len(sent[c])])
            /\ n - Len(sent[c]) \in 1..Len(jobs[c])
        BY <3>0, <3>3, Parts, Zenon
      <4>2. item'[c][n] = Request(jobs'[c][n - Len(sent'[c])])
        BY <3>0, <3>3, Parts, Zenon
      <4>3. n - Len(sent'[c]) \in 1..Len(jobs'[c])
        BY <1>2, <2>4, <3>3, <4>1, Domains
      <4>4. jobs'[c][n - Len(sent'[c])] = jobs[c][(n - Len(sent'[c])) + 1]
        BY <1>2, <4>3, Zenon
      <4>. QED
        BY <3>0, <3>3, <4>1, <4>2, <4>4, Zenon
    <3>. QED
      BY <3>1, <3>2, <3>3, Domains
  <2>7. \A e \in Channel \ {c} : total'[e] = total[e] /\ item'[e] = item[e]
    BY <1>1, <1>2, <2>3, Untouched
  <2>8. accepting' = accepting
    BY <1>1 DEF accepting, Accepts
  <2>9. ASSUME NEW e \in Channel
        PROVE  /\ total[e] \in Nat /\ total'[e] \in Nat /\ total'[e] <= total[e]
               /\ e \in accepting' => total'[e] = total[e]
               /\ \A n \in 1..total'[e] : item'[e][n] = item[e][n]
    <3>1. total'[e] = total[e] /\ total[e] \in Nat
      BY <2>5, <2>7, Domains, Zenon
    <3>2. \A n \in 1..total'[e] : item'[e][n] = item[e][n]
      BY <2>6, <2>7, Zenon
    <3>. QED
      BY <3>1, <3>2, Domains
  <2>. QED
    BY <1>1, <2>8, <2>9, Domains, Shortened
<1>. QED
  BY <1>3, <1>4

(* The client handles a request: its pipeline loses its first.             *)
LEMMA HandleKeeps ==
    ASSUME TypeOK, TypeOK', PipeInv, NEW c \in Channel, Handle(c)
    PROVE  PipeInv'
<1>1. /\ sent[c] # <<>> /\ sent[c] \in Seq(SentRequest)
      /\ sent' = [sent EXCEPT ![c] = Tail(@)]
      /\ UNCHANGED <<proxy, channel, dropped, running, jobs, busy>>
  BY DEF Handle, userVars, TypeOK
<1>2. /\ Len(sent[c]) \in Nat \ {0}
      /\ Head(sent[c]) = sent[c][1] /\ Head(sent[c]) \in SentRequest
      /\ Len(Tail(sent[c])) = Len(sent[c]) - 1
      /\ \A i \in 1..Len(Tail(sent[c])) : Tail(sent[c])[i] = sent[c][i + 1]
  BY <1>1, FirstAndRest
<1>3. /\ sent'[c] = Tail(sent[c])
      /\ \A e \in Channel \ {c} : sent'[e] = sent[e]
  BY <1>1, Domains
<1>4. accepting' = accepting
  BY <1>1 DEF accepting, Accepts
<1>5. /\ Coming(c) \in 0..Len(jobs[c]) /\ total[c] = Len(sent[c]) + Coming(c)
      /\ total'[c] = Len(sent'[c]) + Coming(c)
  BY <1>1, Parts, Domains DEF Coming
<1>6. total'[c] = total[c] - 1 /\ total[c] # 0 /\ 1 \in 1..total[c]
  BY <1>2, <1>3, <1>5, Domains
<1>7. item[c][1] = Head(sent[c])
  <2>1. 1 <= Len(sent[c])
    BY <1>2, Domains
  <2>. QED
    BY <1>2, <1>6, <2>1, Parts, Zenon
<1>8. ASSUME NEW n \in 1..total'[c] PROVE item'[c][n] = item[c][n + 1]
  <2>1. /\ n + 1 \in 1..total[c]
        /\ n <= Len(sent'[c]) => n + 1 <= Len(sent[c]) /\ n \in 1..Len(sent'[c])
        /\ ~(n <= Len(sent'[c])) =>
              /\ ~(n + 1 <= Len(sent[c]))
              /\ (n + 1) - Len(sent[c]) = n - Len(sent'[c])
    BY <1>2, <1>3, <1>6, Domains
  <2>2. CASE n <= Len(sent'[c])
    <3>1. item'[c][n] = sent'[c][n] /\ item[c][n + 1] = sent[c][n + 1]
      BY <2>1, <2>2, Parts, Zenon
    <3>. QED
      BY <1>2, <1>3, <2>1, <2>2, <3>1, Zenon
  <2>3. CASE ~(n <= Len(sent'[c]))
    <3>1. /\ item'[c][n] = Request(jobs'[c][n - Len(sent'[c])])
          /\ item[c][n + 1] = Request(jobs[c][(n + 1) - Len(sent[c])])
      BY <2>1, <2>3, Parts, Zenon
    <3>2. jobs' = jobs
      BY <1>1
    <3>. QED
      BY <2>1, <2>3, <3>1, <3>2, Zenon
  <2>. QED
    BY <2>2, <2>3
<1>9. \A e \in Channel \ {c} : total'[e] = total[e] /\ item'[e] = item[e]
  BY <1>1, <1>3, Untouched
<1>10. /\ pool' = CASE item[c][1].kind = "New" -> pool \cup {item[c][1].to}
                    [] item[c][1].kind = "Delete" -> pool \ {item[c][1].to}
                    [] OTHER -> pool
       /\ item[c][1].to \in Proxy
  BY <1>2, <1>7 DEF Handle, SentRequest
<1>. QED
  BY <1>1, <1>4, <1>6, <1>8, <1>9, <1>10, Domains, FirstTaken

-----------------------------------------------------------------------------
(* The buffers.  A job owns its buffer, and two jobs never the same.       *)
Reads(c, i, d) == i \in 1..Len(jobs[c]) /\ jobs[c][i].data = d

DataInv ==
    \A d \in Data : \A c \in Channel : \A i \in Nat :
       Reads(c, i, d) =>
          /\ data[d] = "held"
          /\ \A e \in Channel : \A k \in Nat : Reads(e, k, d) => e = c /\ k = i

(* A call that hands over a buffer has it from the user. *)
LEMMA PushKeepsData ==
    ASSUME TypeOK, TypeOK', DataInv, NEW c \in Channel,
           NEW kind \in {"New", "call", "Delete"}, NEW r \in Proxy,
           NEW ids \in SUBSET Proxy, NEW d \in Data \cup {None},
           d \in Data => data[d] = "user",
           PushJob(c, kind, r, ids, d)
    PROVE  DataInv'
<1>. DEFINE j == [kind |-> kind, to |-> r, expects |-> Expected(c, ids), data |-> d]
<1>1. /\ \A e \in Channel \ {c} : jobs'[e] = jobs[e]
      /\ ~Accepts(c) => jobs' = jobs
      /\ Accepts(c) =>
            /\ Len(jobs'[c]) = Len(jobs[c]) + 1
            /\ \A i \in 1..Len(jobs[c]) : jobs'[c][i] = jobs[c][i]
            /\ jobs'[c][Len(jobs[c]) + 1] = j
  BY PushTypes
<1>2. /\ \A e \in Data : e # d => data'[e] = data[e]
      /\ d \in Data /\ Accepts(c) => data'[d] = "held"
  BY DEF PushJob
<1>3. j.data = d
  OBVIOUS
<1>. HIDE DEF j
<1>4. \A b \in Data : data[b] = "user" => \A e \in Channel : \A k \in Nat : ~Reads(e, k, b)
  BY DEF DataInv
<1>5. ASSUME NEW e \in Channel, NEW k \in Nat, NEW b, k \in 1..Len(jobs'[e]),
             jobs'[e][k].data = b
      PROVE  \/ Reads(e, k, b)
             \/ Accepts(c) /\ e = c /\ k = Len(jobs[c]) + 1 /\ b = d
  <2>1. CASE e = c /\ Accepts(c)
    <3>1. k \in 1..Len(jobs[c]) \/ k = Len(jobs[c]) + 1
      BY <1>1, <1>5, <2>1, Domains
    <3>. QED
      BY <1>1, <1>3, <1>5, <2>1, <3>1 DEF Reads
  <2>2. CASE ~(e = c /\ Accepts(c))
    BY <1>1, <1>5, <2>2 DEF Reads
  <2>. QED
    BY <2>1, <2>2
<1>. SUFFICES ASSUME NEW b \in Data, NEW e \in Channel, NEW k \in Nat,
                     k \in 1..Len(jobs'[e]), jobs'[e][k].data = b
              PROVE  /\ data'[b] = "held"
                     /\ \A f \in Channel : \A i \in Nat :
                          i \in 1..Len(jobs'[f]) /\ jobs'[f][i].data = b
                             => f = e /\ i = k
  BY DEF DataInv, Reads
<1>6. CASE b = d
  <2>1. Accepts(c) /\ e = c /\ k = Len(jobs[c]) + 1
    BY <1>4, <1>5, <1>6
  <2>2. \A f \in Channel : \A i \in Nat :
           i \in 1..Len(jobs'[f]) /\ jobs'[f][i].data = b
             => f = c /\ i = Len(jobs[c]) + 1
    BY <1>4, <1>5, <1>6
  <2>. QED
    BY <1>2, <1>6, <2>1, <2>2
<1>7. CASE b # d
  <2>1. Reads(e, k, b)
    BY <1>5, <1>7
  <2>2. \A f \in Channel : \A i \in Nat :
           i \in 1..Len(jobs'[f]) /\ jobs'[f][i].data = b => Reads(f, i, b)
    BY <1>5, <1>7
  <2>. QED
    BY <1>2, <1>7, <2>1, <2>2 DEF DataInv
<1>. QED
  BY <1>6, <1>7

(* The end of a job, or its cancellation, gives back what only it had.     *)
LEMMA PopKeepsData ==
    ASSUME TypeOK, TypeOK', DataInv, NEW c \in Channel, jobs[c] # <<>>, PopJob(c)
    PROVE  DataInv'
<1>1. /\ Head(jobs[c]) = jobs[c][1]
      /\ \A e \in Channel \ {c} : jobs'[e] = jobs[e]
      /\ Len(jobs[c]) \in Nat \ {0}
      /\ Len(jobs'[c]) = Len(jobs[c]) - 1
      /\ \A i \in 1..Len(jobs'[c]) : jobs'[c][i] = jobs[c][i + 1]
  BY PopTypes
<1>2. \A e \in Data : e # jobs[c][1].data => data'[e] = data[e]
  BY <1>1 DEF PopJob
<1>3. 1 \in 1..Len(jobs[c]) /\ 1 \in Nat
  BY <1>1
<1>4. ASSUME NEW e \in Channel, NEW k \in Nat, NEW b, k \in 1..Len(jobs'[e]),
             jobs'[e][k].data = b
      PROVE  IF e = c THEN Reads(c, k + 1, b) /\ k + 1 \in Nat /\ k + 1 # 1
                      ELSE Reads(e, k, b)
  <2>1. CASE e = c
    <3>1. k + 1 \in 1..Len(jobs[c]) /\ k + 1 \in Nat /\ k + 1 # 1
      BY <1>1, <1>4, <2>1, Domains
    <3>. QED
      BY <1>1, <1>4, <2>1, <3>1 DEF Reads
  <2>2. CASE e # c
    BY <1>1, <1>4, <2>2 DEF Reads
  <2>. QED
    BY <2>1, <2>2
<1>. SUFFICES ASSUME NEW b \in Data, NEW e \in Channel, NEW k \in Nat,
                     k \in 1..Len(jobs'[e]), jobs'[e][k].data = b
              PROVE  /\ data'[b] = "held"
                     /\ \A f \in Channel : \A i \in Nat :
                          i \in 1..Len(jobs'[f]) /\ jobs'[f][i].data = b
                             => f = e /\ i = k
  BY DEF DataInv, Reads
<1>5. b # jobs[c][1].data
  <2>1. b = jobs[c][1].data => Reads(c, 1, b)
    BY <1>3 DEF Reads
  <2>. QED
    BY <1>3, <1>4, <2>1 DEF DataInv
<1>6. ASSUME NEW f \in Channel, NEW i \in Nat, i \in 1..Len(jobs'[f]),
             jobs'[f][i].data = b
      PROVE  f = e /\ i = k
  <2>1. IF e = c THEN Reads(c, k + 1, b) /\ k + 1 \in Nat ELSE Reads(e, k, b)
    BY <1>4
  <2>2. IF f = c THEN Reads(c, i + 1, b) /\ i + 1 \in Nat ELSE Reads(f, i, b)
    BY <1>4, <1>6
  <2>3. CASE e = c /\ f = c
    <3>1. i + 1 = k + 1
      BY <2>1, <2>2, <2>3, Zenon DEF DataInv
    <3>. QED
      BY <2>3, <3>1
  <2>4. CASE e = c /\ f # c
    BY <2>1, <2>2, <2>4, Zenon DEF DataInv
  <2>5. CASE e # c /\ f = c
    <3>1. Reads(e, k, b) /\ Reads(c, i + 1, b) /\ i + 1 \in Nat
      BY <2>1, <2>2, <2>5
    <3>2. c = e
      BY <3>1, Zenon DEF DataInv
    <3>. QED
      BY <2>5, <3>2
  <2>6. CASE e # c /\ f # c
    <3>1. Reads(e, k, b) /\ Reads(f, i, b)
      BY <2>1, <2>2, <2>6
    <3>. QED
      BY <3>1 DEF DataInv
  <2>. QED
    BY <2>3, <2>4, <2>5, <2>6
<1>7. data'[b] = "held"
  BY <1>2, <1>4, <1>5 DEF DataInv
<1>. QED
  BY <1>6, <1>7

-----------------------------------------------------------------------------
Inv == TypeOK /\ PipeInv /\ DataInv

LEMMA Initially == Init => Inv
<1>. SUFFICES ASSUME Init PROVE Inv
  OBVIOUS
<1>1. PICK early \in Early, home \in Home :
        /\ proxy = [r \in Proxy |-> IF r \in early THEN "alive" ELSE "new"]
        /\ channel = [r \in Proxy |-> IF r \in early THEN home ELSE None]
        /\ pool = early
  BY DEF Init
<1>2. /\ sent = [c \in Channel |-> <<>>] /\ jobs = [c \in Channel |-> <<>>]
      /\ busy = {} /\ dropped = {} /\ running = [c \in Channel |-> TRUE]
  BY DEF Init
<1>3. \A c \in Channel : total[c] = 0
  BY <1>2 DEF total, Coming
<1>4. Owned /\ Ordered
  BY <1>3 DEF Owned, Ordered
<1>5. Unused
  BY <1>1 DEF Unused
<1>6. Alive
  BY <1>1, <1>3, EarlyAssumption DEF Alive
<1>7. DataInv
  BY <1>2 DEF DataInv, Reads
<1>. QED
  BY <1>4, <1>5, <1>6, <1>7, TypesInitially DEF Inv, PipeInv

LEMMA CallSteps ==
    ASSUME Inv, TypeOK', Creation \/ Destruction \/ Method
    PROVE  PipeInv' /\ DataInv'
<1>. USE DEF Inv
<1>0. Sizes
  BY PipelinesHold DEF Pipelines
<1>1. ASSUME NEW r, NEW c, NEW ids, Creates(r, c, ids) PROVE PipeInv' /\ DataInv'
  <2>1. /\ r \in Proxy /\ c \in Channel /\ PushJob(c, "New", r, ids, None)
        /\ ids \in SUBSET Proxy /\ proxy[r] = "new"
        /\ proxy' = [proxy EXCEPT ![r] = "alive"]
        /\ channel' = [channel EXCEPT ![r] = c]
    BY <1>1 DEF Creates, Create
  <2>2. Called(c, [kind |-> "New", to |-> r, expects |-> Expected(c, ids)])
    BY <2>1, PushCalls
  <2>3. DataInv'
    BY <2>1, PushKeepsData, NoneAssumption
  <2>. QED
    BY <1>0, <2>1, <2>2, <2>3, CreationKeeps
<1>2. ASSUME NEW r, NEW ids, NEW d, Uses(r, ids, d) PROVE PipeInv' /\ DataInv'
  <2>1. /\ r \in Proxy /\ PushJob(channel[r], "call", r, ids, d)
        /\ ids \in SUBSET Proxy /\ d \in Data \cup {None}
        /\ d \in Data => data[d] = "user"
        /\ UNCHANGED <<proxy, channel>> /\ channel[r] \in Channel
        /\ proxy[r] = "alive"
    BY <1>2 DEF Uses, Call, Alive, PipeInv
  <2>2. Called(channel[r], [kind |-> "call", to |-> r,
                            expects |-> Expected(channel[r], ids)])
    BY <2>1, PushCalls
  <2>3. DataInv'
    BY <2>1, PushKeepsData
  <2>4. proxy' = [proxy EXCEPT ![r] = IF "call" = "Delete" THEN "gone" ELSE "alive"]
    BY <1>0, <2>1 DEF Sizes
  <2>. QED
    BY <1>0, <2>1, <2>2, <2>3, <2>4, UseKeeps
<1>3. ASSUME NEW r \in Proxy, Destroy(r) PROVE PipeInv' /\ DataInv'
  <2>1. /\ PushJob(channel[r], "Delete", r, {}, None) /\ proxy[r] = "alive"
        /\ proxy' = [proxy EXCEPT ![r] = IF "Delete" = "Delete" THEN "gone"
                                         ELSE "alive"]
        /\ channel' = channel /\ channel[r] \in Channel
    BY <1>3 DEF Destroy, Alive, PipeInv
  <2>2. Called(channel[r], [kind |-> "Delete", to |-> r,
                            expects |-> Expected(channel[r], {})])
    BY <2>1, PushCalls
  <2>3. DataInv'
    BY <2>1, PushKeepsData, NoneAssumption
  <2>. QED
    BY <1>0, <2>1, <2>2, <2>3, UseKeeps
<1>. QED
  BY <1>1, <1>2, <1>3, CreationsAre, DestructionsAre, MethodsAre

LEMMA OtherSteps ==
    ASSUME Inv, TypeOK', NEW c \in Channel,
           \/ Worker(c) \/ Disable(c) \/ DropChannel(c)
           \/ Handle(c) \/ CancelCall(c)
    PROVE  PipeInv' /\ DataInv'
<1>. USE DEF Inv
<1>1. CASE BeginJob(c)
  <2>1. PipeInv'
    BY <1>1, SameQueues DEF BeginJob, userVars
  <2>2. DataInv'
    BY <1>1 DEF BeginJob, DataInv, Reads
  <2>. QED
    BY <2>1, <2>2
<1>2. CASE EndJob(c)
  <2>1. jobs[c] # <<>> /\ PopJob(c)
    BY <1>2 DEF EndJob, TypeOK
  <2>. QED
    BY <1>2, <2>1, EndKeeps, PopKeepsData
<1>3. CASE CancelJob(c)
  <2>1. /\ jobs[c] # <<>> /\ PopJob(c) /\ ~running[c] /\ c \notin busy
        /\ UNCHANGED <<proxy, channel, pool, sent, running, dropped, busy>>
    BY <1>3 DEF CancelJob, userVars
  <2>2. \A e \in Channel \ {c} : jobs'[e] = jobs[e]
    BY <2>1, PopTypes
  <2>3. PipeInv'
    BY <2>1, <2>2, CancelKeeps
  <2>. QED
    BY <2>1, <2>3, PopKeepsData
<1>4. CASE Disable(c)
  <2>1. PipeInv'
    BY <1>4, SameQueues DEF Disable, userVars, TypeOK
  <2>2. DataInv'
    BY <1>4 DEF Disable, DataInv, Reads
  <2>. QED
    BY <2>1, <2>2
<1>5. CASE DropChannel(c)
  <2>1. PipeInv'
    BY <1>5, SameQueues DEF DropChannel
  <2>2. DataInv'
    BY <1>5 DEF DropChannel, DataInv, Reads
  <2>. QED
    BY <2>1, <2>2
<1>6. CASE Handle(c)
  <2>1. DataInv'
    BY <1>6 DEF Handle, DataInv, Reads
  <2>. QED
    BY <1>6, <2>1, HandleKeeps
<1>7. CASE CancelCall(c)
  <2>1. PipeInv'
    BY <1>7, SameQueues DEF CancelCall, userVars
  <2>2. DataInv'
    BY <1>7 DEF CancelCall, DataInv, Reads
  <2>. QED
    BY <2>1, <2>2
<1>. QED
  BY <1>1, <1>2, <1>3, <1>4, <1>5, <1>6, <1>7 DEF Worker

LEMMA InvStep == Inv /\ [Next]_vars => Inv'
<1>. SUFFICES ASSUME Inv, [Next]_vars PROVE Inv'
  OBVIOUS
<1>0. TypeOK /\ TypeOK'
  BY TypesKept DEF Inv, PipeInv
<1>1. ASSUME NEW d \in Data, Release(d) PROVE PipeInv' /\ DataInv'
  <2>1. PipeInv'
    BY <1>0, <1>1, SameQueues DEF Inv, Release, userVars
  <2>2. data[d] = "notified" /\ data' = [data EXCEPT ![d] = "released"] /\ jobs' = jobs
    BY <1>1 DEF Release
  <2>3. DataInv'
    BY <1>0, <2>2 DEF Inv, DataInv, Reads, TypeOK
  <2>. QED
    BY <2>1, <2>3
<1>2. CASE UNCHANGED vars
  <2>1. PipeInv'
    BY <1>0, <1>2, SameQueues DEF Inv, vars
  <2>2. DataInv'
    <3>1. data' = data /\ jobs' = jobs
      BY <1>2 DEF vars
    <3>2. DataInv
      BY DEF Inv
    <3>. SUFFICES ASSUME NEW d \in Data, NEW c \in Channel, NEW i \in Nat,
                         i \in 1..Len(jobs'[c]), jobs'[c][i].data = d
                  PROVE  /\ data'[d] = "held"
                         /\ \A e \in Channel : \A k \in Nat :
                              k \in 1..Len(jobs'[e]) /\ jobs'[e][k].data = d
                                => e = c /\ k = i
      BY DEF DataInv, Reads
    <3>3. /\ Reads(c, i, d)
          /\ \A e \in Channel : \A k \in Nat :
                k \in 1..Len(jobs'[e]) /\ jobs'[e][k].data = d => Reads(e, k, d)
      BY <3>1, Zenon DEF Reads
    <3>4. /\ data[d] = "held"
          /\ \A e \in Channel : \A k \in Nat : Reads(e, k, d) => e = c /\ k = i
      BY <3>2, <3>3, Zenon DEF DataInv
    <3>. QED
      BY <3>1, <3>3, <3>4, Zenon
  <2>. QED
    BY <1>0, <2>1, <2>2 DEF Inv
<1>. QED
  BY <1>0, <1>1, <1>2, CallSteps, OtherSteps DEF Next, Inv

LEMMA Invariance == Spec => []Inv
  BY Initially, InvStep, PTL DEF Spec

-----------------------------------------------------------------------------
(* The queue of a channel owns the job that its worker performs, and the    *)
(* types are right.                                                         *)
THEOREM TypesCorrect == Spec => []TypeOK
<1>1. Inv => TypeOK
  BY DEF Inv
<1>. QED
  BY <1>1, Invariance, PTL

(* The client's handlers find what they look up without a test, for any     *)
(* number of proxies and channels: what was alive on the channel when the   *)
(* user made the call is there when the call is handled, and a new id is    *)
(* not in use.                                                              *)
THEOREM LookupsSucceed == Spec => []FindsResources
<1>1. Inv => FindsResources
  <2>. SUFFICES ASSUME Inv, NEW c \in Channel, sent[c] # <<>>
                PROVE  /\ Head(sent[c]).kind = "New" <=> Head(sent[c]).to \notin pool
                       /\ Head(sent[c]).expects \subseteq pool
    BY DEF FindsResources
  <2>. USE DEF Inv
  <2>1. sent[c] \in Seq(SentRequest)
    BY DEF TypeOK
  <2>2. Len(sent[c]) \in Nat \ {0} /\ Head(sent[c]) = sent[c][1]
    BY <2>1, FirstAndRest
  <2>3. 1 \in 1..total[c] /\ item[c][1] = Head(sent[c])
    BY <2>2, PipelinesHold DEF Pipelines
  <2>4. \A m \in 1..1 - 1 : FALSE
    OBVIOUS
  <2>5. \A r \in Names(item[c][1]) :
           /\ Makes(item[c][1], r) => r \notin pool /\ r \notin item[c][1].expects
           /\ Makes(item[c][1], r) \/ r \in pool
    BY <2>3, <2>4 DEF PipeInv, Ordered
  <2>. QED
    BY <2>3, <2>5 DEF Names, Makes
<1>. QED
  BY <1>1, Invariance, PTL

(* A buffer is held as long as a job will read it, and no two jobs read the *)
(* same one: on_release is not called, nor caused, before.                  *)
THEOREM BuffersOutliveJobs == Spec => []DataHeldWhileQueued
<1>1. Inv => DataHeldWhileQueued
  <2>. SUFFICES ASSUME Inv, NEW d \in Data
                PROVE  LET reads(c, i) == i <= Len(jobs[c]) /\ jobs[c][i].data = d
                           readers == {k \in Channel \X (1..MaxCalls) : reads(k[1], k[2])}
                       IN  /\ readers # {} => data[d] = "held"
                           /\ Cardinality(readers) <= 1
    BY DEF DataHeldWhileQueued
  <2>. DEFINE readers == {k \in Channel \X (1..MaxCalls) :
                            k[2] <= Len(jobs[k[1]]) /\ jobs[k[1]][k[2]].data = d}
  <2>1. ASSUME NEW k \in readers
        PROVE  /\ k = <<k[1], k[2]>> /\ k[1] \in Channel /\ k[2] \in Nat
               /\ Reads(k[1], k[2], d)
    <3>1. k \in Channel \X (1..MaxCalls) /\ k[2] <= Len(jobs[k[1]])
      OBVIOUS
    <3>2. k[1] \in Channel /\ k[2] \in 1..MaxCalls /\ k = <<k[1], k[2]>>
      BY <3>1
    <3>3. Len(jobs[k[1]]) \in Nat
      BY <3>2, PipelinesHold DEF Inv, Pipelines
    <3>4. k[2] \in 1..Len(jobs[k[1]])
      BY <3>1, <3>2, <3>3
    <3>. QED
      BY <3>2, <3>4 DEF Reads
  <2>2. readers # {} => data[d] = "held"
    BY <2>1 DEF Inv, DataInv
  <2>3. \A k, l \in readers : k = l
    BY <2>1 DEF Inv, DataInv
  <2>. HIDE DEF readers
  <2>4. Cardinality(readers) <= 1
    <3>1. CASE readers = {}
      <4>1. Cardinality(readers) = 0
        BY <3>1, FS_EmptySet, Zenon
      <4>. QED
        BY <4>1
    <3>2. CASE readers # {}
      <4>1. PICK k : readers = {k}
        BY <2>3, <3>2
      <4>2. Cardinality(readers) = 1
        BY <4>1, FS_Singleton, Zenon
      <4>. QED
        BY <4>2
    <3>. QED
      BY <3>1, <3>2
  <2>. QED
    BY <2>2, <2>4 DEF readers
<1>. QED
  BY <1>1, Invariance, PTL
=============================================================================
