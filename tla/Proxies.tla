------------------------------ MODULE Proxies ------------------------------
(***************************************************************************)
(* The server's proxies of the client's resources (server/gl-*.cc,         *)
(* rendering-unit.cc, virtual-object.cc), the buffers that hold data to    *)
(* upload (buffer.cc), and the client's pool as seen through them.         *)
(*                                                                         *)
(* A proxy belongs to a channel.  Its constructor, its methods and its     *)
(* destructor each push one job; the channel's worker turns a job into a   *)
(* request.  The client handles the requests of a channel in the order in  *)
(* which they were sent (OrderedExecution, which RequestDelivery shows), and*)
(* those of different channels in any order.  The steps of pushing, waking *)
(* up and terminating are those of JobQueue, taken together.               *)
(***************************************************************************)
EXTENDS Integers, Sequences, FiniteSets

CONSTANTS
    Channel,        \* the channels of a session
    Object, Unit, Technique, VertexArray, Buffer, Program, Shader, Texture,
    Sampler,        \* the proxies of each class, named by their ids
    Data,           \* the IBuffers a user may hand over
    Early,          \* sets of proxies a model may start with
    Home,           \* the channels they may be on
    None,           \* no channel; no data
    MaxCalls        \* bound of the model: the user's calls

Proxy == UNION {Object, Unit, Technique, VertexArray, Buffer, Program, Shader,
                Texture, Sampler}

ASSUME EarlyAssumption == Early \subseteq SUBSET Proxy /\ Home \subseteq Channel
ASSUME NoneAssumption == None \notin Data
ASSUME CallsAssumption == MaxCalls \in Nat

VARIABLES
    proxy,      \* "new", "alive" or "gone"
    channel,    \* the channel of each proxy
    dropped,    \* the channels that the user has destroyed
    running,    \* running_ of each channel's job queue
    jobs,       \* queue_ of each channel's job queue
    busy,       \* the channels whose worker performs the front job
    sent,       \* the requests of each channel that are not yet handled
    cut,        \* the channels of which a request was lost without a notice
    pool,       \* the client's resources that are not to be removed
    data,       \* "user", "held", "notified" or "released"
    calls       \* the user's calls so far

vars == <<proxy, channel, dropped, running, jobs, busy, sent, cut, pool, data,
          calls>>
userVars == <<proxy, channel, dropped, calls>>

(* The user has not called yet, or has created some of the proxies on one   *)
(* channel and the client has handled those requests.                       *)
Init == \E early \in Early, home \in Home :
        /\ proxy = [r \in Proxy |-> IF r \in early THEN "alive" ELSE "new"]
        /\ channel = [r \in Proxy |-> IF r \in early THEN home ELSE None]
        /\ dropped = {}
        /\ running = [c \in Channel |-> TRUE]
        /\ jobs = [c \in Channel |-> <<>>]
        /\ busy = {}
        /\ sent = [c \in Channel |-> <<>>]
        /\ cut = {}
        /\ pool = early
        /\ data = [d \in Data |-> "user"]
        /\ calls = 0

-----------------------------------------------------------------------------
(* A request carries ids.  Those that must be found are the ids of proxies  *)
(* that are alive at the time of the call and of the same channel.          *)
Expected(c, ids) == {r \in ids : proxy[r] = "alive" /\ channel[r] = c}

(* The user's call pushes a job.  A proxy whose channel is gone drops it,   *)
(* and a queue that has been terminated cancels it: the job is destroyed,   *)
(* and with it the buffer it owns.                                          *)
Accepts(c) == c \notin dropped /\ running[c]

PushJob(c, kind, r, ids, d) ==
    /\ calls < MaxCalls
    /\ calls' = calls + 1
    /\ jobs' = IF Accepts(c)
               THEN [jobs EXCEPT ![c] = Append(@,
                       [kind |-> kind, to |-> r, expects |-> Expected(c, ids),
                        data |-> d])]
               ELSE jobs
    /\ data' = [e \in Data |-> IF e # d THEN data[e]
                               ELSE IF Accepts(c) THEN "held" ELSE "notified"]
    /\ UNCHANGED <<dropped, running, busy, sent, cut, pool>>

(* Create... : the constructor and Init. *)
Create(r, c, ids) ==
    /\ proxy[r] = "new"
    /\ c \notin dropped
    /\ proxy' = [proxy EXCEPT ![r] = "alive"]
    /\ channel' = [channel EXCEPT ![r] = c]
    /\ PushJob(c, "New", r, ids, None)

Call(r, ids, d) ==
    /\ proxy[r] = "alive"
    /\ PushJob(channel[r], "call", r, ids, d)
    /\ UNCHANGED <<proxy, channel>>

(* Mutant of Destroy: the request is sent at once. *)
Destroy_Direct(r) ==
    /\ proxy[r] = "alive"
    /\ calls < MaxCalls
    /\ calls' = calls + 1
    /\ proxy' = [proxy EXCEPT ![r] = "gone"]
    /\ sent' = [sent EXCEPT ![channel[r]] = Append(@,
                  [kind |-> "Delete", to |-> r, expects |-> {}])]
    /\ UNCHANGED <<channel, dropped, running, jobs, busy, cut, pool, data>>

(* Mutant of Destroy: the user's reference is all that there is. *)
Destroy_Silent(r) ==
    /\ proxy[r] = "alive"
    /\ calls < MaxCalls
    /\ calls' = calls + 1
    /\ proxy' = [proxy EXCEPT ![r] = "gone"]
    /\ UNCHANGED <<channel, dropped, running, jobs, busy, sent, cut, pool, data>>

Destroy(r) ==
    /\ proxy[r] = "alive"
    /\ proxy' = [proxy EXCEPT ![r] = "gone"]
    /\ PushJob(channel[r], "Delete", r, {}, None)
    /\ UNCHANGED channel

(* An id is known from the creation of its proxy on. *)
Known(ids) == \A r \in ids : proxy[r] # "new"

-----------------------------------------------------------------------------
(* The methods of the proxies *)

CreateVirtualObject(o, c) == Create(o, c, {})
CreateRenderingUnit(u, c, o) == Known({o}) /\ Create(u, c, {o})
CreateGlBaseTechnique(t, c, u) == Known({u}) /\ Create(t, c, {u})
CreateGlVertexArray(v, c) == Create(v, c, {})
CreateGlBuffer(b, c) == Create(b, c, {})
CreateGlProgram(p, c) == Create(p, c, {})
CreateGlShader(h, c) == Create(h, c, {})
CreateGlTexture(x, c) == Create(x, c, {})
CreateGlSampler(m, c) == Create(m, c, {})

DestroyVirtualObject(o) == Destroy(o)
DestroyRenderingUnit(u) == Destroy(u)
DestroyGlBaseTechnique(t) == Destroy(t)
DestroyGlVertexArray(v) == Destroy(v)
DestroyGlBuffer(b) == Destroy(b)
DestroyGlProgram(p) == Destroy(p)
DestroyGlShader(h) == Destroy(h)
DestroyGlTexture(x) == Destroy(x)
DestroyGlSampler(m) == Destroy(m)

Commit(o) == Call(o, {}, None)
Move(o) == Call(o, {}, None)

BindProgram(t, p) == Known({p}) /\ Call(t, {p}, None)
BindVertexArray(t, v) == Known({v}) /\ Call(t, {v}, None)
BindTexture(t, x, m) == Known({x, m}) /\ Call(t, {x, m}, None)
GlUniform(t) == Call(t, {}, None)
GlDrawArrays(t) == Call(t, {}, None)
GlDrawElements(t, b) == Known({b}) /\ Call(t, {b}, None)

GlEnableVertexAttribArray(v) == Call(v, {}, None)
GlDisableVertexAttribArray(v) == Call(v, {}, None)
GlVertexAttribPointer(v, b) == Known({b}) /\ Call(v, {b}, None)

GlAttachShader(p, h) == Known({h}) /\ Call(p, {h}, None)
GlLinkProgram(p) == Call(p, {}, None)

(* Mutant of GlBufferData: the job copies the pointer, not the buffer. *)
GlBufferData_Borrows(b, d) ==
    /\ data[d] = "user"
    /\ proxy[b] = "alive"
    /\ calls < MaxCalls
    /\ calls' = calls + 1
    /\ jobs' = [jobs EXCEPT ![channel[b]] = Append(@,
                  [kind |-> "call", to |-> b, expects |-> {}, data |-> d])]
    /\ data' = [data EXCEPT ![d] = "notified"]
    /\ UNCHANGED <<proxy, channel, dropped, running, busy, sent, cut, pool>>

(* The user gives the buffer away. *)
GlBufferData(b, d) == data[d] = "user" /\ Call(b, {}, d)
GlTexImage2D(x, d) == data[d] = "user" /\ Call(x, {}, d)
GlTexSubImage2D(x, d) == data[d] = "user" /\ Call(x, {}, d)
GlGenerateMipmap(x) == Call(x, {}, None)

GlSamplerParameterf(m) == Call(m, {}, None)
GlSamplerParameteri(m) == Call(m, {}, None)
GlSamplerParameterfv(m) == Call(m, {}, None)
GlSamplerParameteriv(m) == Call(m, {}, None)
GlSamplerParameterIiv(m) == Call(m, {}, None)
GlSamplerParameterIuiv(m) == Call(m, {}, None)

-----------------------------------------------------------------------------
(* The channel's worker *)

(* Mutant of BeginJob: the job leaves the queue before it runs. *)
BeginJob_PopsFirst(c) ==
    /\ c \notin busy
    /\ running[c]
    /\ jobs[c] # <<>>
    /\ busy' = busy \cup {c}
    /\ jobs' = [jobs EXCEPT ![c] = Tail(@)]
    /\ UNCHANGED <<userVars, running, sent, cut, pool, data>>

(* It performs the front job.  A job first locks its weak reference to the  *)
(* channel, which fails if the user has dropped the channel by then.        *)
BeginJob(c) ==
    /\ c \notin busy
    /\ running[c]
    /\ jobs[c] # <<>>
    /\ busy' = busy \cup {c}
    /\ UNCHANGED <<userVars, running, jobs, sent, cut, pool, data>>

(* The popped job and the buffer it owns are destroyed: ~Buffer writes to   *)
(* the pipe of the user's loop.                                             *)
PopJob(c) ==
    /\ jobs' = [jobs EXCEPT ![c] = Tail(@)]
    /\ data' = [d \in Data |-> IF d = Head(jobs[c]).data THEN "notified"
                               ELSE data[d]]

(* The job copies the buffer's data into its request and starts the call.   *)
EndJob(c) ==
    /\ c \in busy
    /\ LET j == Head(jobs[c])
       IN  sent' = IF c \in dropped THEN sent
                   ELSE [sent EXCEPT ![c] = Append(@,
                          [kind |-> j.kind, to |-> j.to, expects |-> j.expects])]
    /\ PopJob(c)
    /\ busy' = busy \ {c}
    /\ UNCHANGED <<userVars, running, cut, pool>>

(* Mutant of CancelJob: a cancelled job is not destroyed. *)
CancelJob_Leaks(c) ==
    /\ ~running[c]
    /\ c \notin busy
    /\ jobs[c] # <<>>
    /\ jobs' = [jobs EXCEPT ![c] = Tail(@)]
    /\ UNCHANGED <<userVars, running, busy, sent, cut, pool, data>>

CancelJob(c) ==
    /\ ~running[c]
    /\ c \notin busy
    /\ jobs[c] # <<>>
    /\ PopJob(c)
    /\ UNCHANGED <<userVars, running, busy, sent, cut, pool>>

(* The session disables its channels on a disconnection, and the destructor *)
(* of a channel disables it.                                                *)
Disable(c) ==
    /\ running[c]
    /\ running' = [running EXCEPT ![c] = FALSE]
    /\ UNCHANGED <<userVars, jobs, busy, sent, cut, pool, data>>

(* The user drops the channel, of which it is the only owner.  A job that   *)
(* runs holds a reference as well; the model's user waits for its end.      *)
DropChannel(c) ==
    /\ c \notin dropped \cup busy
    /\ dropped' = dropped \cup {c}
    /\ UNCHANGED <<proxy, channel, running, jobs, busy, sent, cut, pool, data,
                   calls>>

-----------------------------------------------------------------------------
(* The user's loop reads the byte of ~Buffer and calls on_release. *)
Release(d) ==
    /\ data[d] = "notified"
    /\ data' = [data EXCEPT ![d] = "released"]
    /\ UNCHANGED <<userVars, running, jobs, busy, sent, cut, pool>>

(* The call of the next request ends with CANCELLED before it reaches the   *)
(* client.  The callback of a proxy's call is silent about that, so that the*)
(* channel stays enabled; its serial number will never come.  (Of a channel *)
(* that is disabled or dropped requests may be lost anyway.)                *)
CancelCall(c) ==
    /\ Accepts(c)
    /\ c \notin cut
    /\ sent[c] # <<>>
    /\ cut' = cut \cup {c}
    /\ UNCHANGED <<userVars, running, jobs, busy, sent, pool, data>>

(* The client handles the next request of a channel. *)
Handle(c) ==
    /\ c \notin cut
    /\ sent[c] # <<>>
    /\ LET r == Head(sent[c])
       IN  pool' = CASE r.kind = "New" -> pool \cup {r.to}
                     [] r.kind = "Delete" -> pool \ {r.to}
                     [] OTHER -> pool
    /\ sent' = [sent EXCEPT ![c] = Tail(@)]
    /\ UNCHANGED <<userVars, running, jobs, busy, cut, data>>

-----------------------------------------------------------------------------
Creation ==
    \E c \in Channel :
       \/ \E o \in Object : CreateVirtualObject(o, c)
       \/ \E u \in Unit, o \in Object : CreateRenderingUnit(u, c, o)
       \/ \E t \in Technique, u \in Unit : CreateGlBaseTechnique(t, c, u)
       \/ \E v \in VertexArray : CreateGlVertexArray(v, c)
       \/ \E b \in Buffer : CreateGlBuffer(b, c)
       \/ \E p \in Program : CreateGlProgram(p, c)
       \/ \E h \in Shader : CreateGlShader(h, c)
       \/ \E x \in Texture : CreateGlTexture(x, c)
       \/ \E m \in Sampler : CreateGlSampler(m, c)

Destruction ==
    \/ \E o \in Object : DestroyVirtualObject(o)
    \/ \E u \in Unit : DestroyRenderingUnit(u)
    \/ \E t \in Technique : DestroyGlBaseTechnique(t)
    \/ \E v \in VertexArray : DestroyGlVertexArray(v)
    \/ \E b \in Buffer : DestroyGlBuffer(b)
    \/ \E p \in Program : DestroyGlProgram(p)
    \/ \E h \in Shader : DestroyGlShader(h)
    \/ \E x \in Texture : DestroyGlTexture(x)
    \/ \E m \in Sampler : DestroyGlSampler(m)

Method ==
    \/ \E o \in Object : Commit(o) \/ Move(o)
    \/ \E t \in Technique :
          \/ \E p \in Program : BindProgram(t, p)
          \/ \E v \in VertexArray : BindVertexArray(t, v)
          \/ \E x \in Texture, m \in Sampler : BindTexture(t, x, m)
          \/ GlUniform(t) \/ GlDrawArrays(t)
          \/ \E b \in Buffer : GlDrawElements(t, b)
    \/ \E v \in VertexArray :
          \/ GlEnableVertexAttribArray(v) \/ GlDisableVertexAttribArray(v)
          \/ \E b \in Buffer : GlVertexAttribPointer(v, b)
    \/ \E p \in Program : \/ GlLinkProgram(p)
                           \/ \E h \in Shader : GlAttachShader(p, h)
    \/ \E b \in Buffer, d \in Data : GlBufferData(b, d)
    \/ \E x \in Texture :
          \/ \E d \in Data : GlTexImage2D(x, d) \/ GlTexSubImage2D(x, d)
          \/ GlGenerateMipmap(x)
    \/ \E m \in Sampler :
          \/ GlSamplerParameterf(m) \/ GlSamplerParameteri(m)
          \/ GlSamplerParameterfv(m) \/ GlSamplerParameteriv(m)
          \/ GlSamplerParameterIiv(m) \/ GlSamplerParameterIuiv(m)

Worker(c) == BeginJob(c) \/ EndJob(c) \/ CancelJob(c)

Next == \/ Creation \/ Destruction \/ Method
        \/ \E c \in Channel : Worker(c) \/ Disable(c) \/ DropChannel(c)
                              \/ Handle(c) \/ CancelCall(c)
        \/ \E d \in Data : Release(d)

Spec == Init /\ [][Next]_vars

(* The workers, the user's loop and the client go on, and the destructor of *)
(* a dropped channel disables it.  Requests of a disabled channel may be    *)
(* lost, any call may be cancelled, and nobody has to call anything.        *)
Fairness ==
    /\ \A c \in Channel : /\ WF_vars(Worker(c))
                          /\ WF_vars(c \in dropped /\ Disable(c))
                          /\ WF_vars(running[c] /\ Handle(c))
    /\ \A d \in Data : WF_vars(Release(d))

LiveSpec == Spec /\ Fairness

-----------------------------------------------------------------------------
(* Properties *)

Job == [kind : {"New", "call", "Delete"}, to : Proxy, expects : SUBSET Proxy,
        data : Data \cup {None}]
SentRequest == [kind : {"New", "call", "Delete"}, to : Proxy,
                expects : SUBSET Proxy]

(* Types, and the job that a worker performs stays in the queue, which owns *)
(* it.                                                                      *)
TypeOK ==
    /\ proxy \in [Proxy -> {"new", "alive", "gone"}]
    /\ channel \in [Proxy -> Channel \cup {None}]
    /\ dropped \subseteq Channel
    /\ running \in [Channel -> BOOLEAN]
    /\ jobs \in [Channel -> Seq(Job)]
    /\ busy \subseteq Channel
    /\ sent \in [Channel -> Seq(SentRequest)]
    /\ cut \subseteq Channel
    /\ pool \subseteq Proxy
    /\ data \in [Data -> {"user", "held", "notified", "released"}]
    /\ calls \in 0..MaxCalls
    /\ \A c \in busy : jobs[c] # <<>>

(* The handlers use what they look up without a test: when the client       *)
(* handles a request, its own resource, and every resource it names that    *)
(* was alive on the same channel when the user made the call, are found,    *)
(* however the user has gone on since.  A new id is not in use.             *)
FindsResources ==
    \A c \in Channel : sent[c] # <<>> =>
       LET r == Head(sent[c])
       IN  /\ r.kind = "New" <=> r.to \notin pool
           /\ r.expects \subseteq pool

(* "Until on_release is called, the data must be available" (buffer.h):     *)
(* the library does not call it, nor cause its call, as long as a job will  *)
(* read the data; no two jobs read the same buffer.                         *)
DataHeldWhileQueued ==
    \A d \in Data :
       LET reads(c, i) == i <= Len(jobs[c]) /\ jobs[c][i].data = d
           readers == {k \in Channel \X (1..MaxCalls) : reads(k[1], k[2])}
       IN  /\ readers # {} => data[d] = "held"
           /\ Cardinality(readers) <= 1

(* on_release is called for every buffer that was handed over, whatever     *)
(* becomes of the channel: otherwise the user's memory leaks.               *)
DataReleased == \A d \in Data : data[d] # "user" ~> data[d] = "released"

Forgotten(r) ==
    /\ r \notin pool
    /\ \A c \in Channel :
          /\ \A i \in 1..Len(jobs[c]) : jobs[c][i].to # r
          /\ \A i \in 1..Len(sent[c]) : sent[c][i].to # r

Ended(r) == \E c \in Channel : c = channel[r] /\ ~Accepts(c)

CutOff(r) == \E c \in cut : c = channel[r] /\ sent[c] # <<>>

(* The resource of a destroyed proxy leaves the client for good, unless the *)
(* channel ends first (with it, or later, the session and its pool go), or  *)
(* one of its calls was CANCELLED: then requests wait on the client for ever*)
(* while the channel accepts calls, and nobody is told.                     *)
DestroyReaches ==
    \A r \in Proxy :
       proxy[r] = "gone" ~> Ended(r) \/ CutOff(r) \/ Forgotten(r)
=============================================================================
