------------------------------- MODULE Scene -------------------------------
(***************************************************************************)
(* The client's graph of resources (client/resource-pool.h): an object has *)
(* units, a unit a technique, a technique a program, a vertex array, a     *)
(* texture with a sampler and a buffer of indices; a vertex array has      *)
(* buffers, a program shaders.  All these references are weak.             *)
(*                                                                         *)
(* The gRPC thread executes the requests of one channel in the order of    *)
(* issue (RequestDelivery); each changes the pending state of a resource.  *)
(* The commit of an object goes through the graph and pushes commands that *)
(* hold the state to show.  The rendering thread executes them, whole      *)
(* groups between two frames (AtomicCommandQueue), and draws frames from   *)
(* the rendering state.                                                    *)
(*                                                                         *)
(* Uploaded data and parameters are members of Content; a technique has one*)
(* texture binding and one uniform variable.                               *)
(***************************************************************************)
EXTENDS Integers, Sequences, FiniteSets, SequencesExt

CONSTANTS
    Object, Unit, Technique, VertexArray, Buffer, Program, Shader, Texture,
    Sampler,        \* the ids of the resources of each kind
    Index,          \* the attributes of a vertex array
    Content,        \* what a request may upload
    Position,       \* where an object may be moved
    None,           \* a null reference; no content; the initial position
    Scenario,       \* bound of the model: sets of resources, a behaviour uses one
    Given,          \* those of them created before the behaviour begins
    MaxCalls,       \* bound of the model: requests after that
    MaxCommits      \* bound of the model: commits not yet executed

Resource == UNION {Object, Unit, Technique, VertexArray, Buffer, Program,
                   Shader, Texture, Sampler}

Kinds == <<Object, Unit, Technique, VertexArray, Buffer, Program, Shader,
           Texture, Sampler>>

ASSUME ScenarioAssumption == Scenario \subseteq SUBSET Resource

(* The server draws all ids from one counter; there are finitely many, and  *)
(* null is none of them.                                                    *)
ASSUME ResourceAssumption ==
    /\ IsFiniteSet(Resource)
    /\ \A i, j \in DOMAIN Kinds : i # j => Kinds[i] \cap Kinds[j] = {}
    /\ None \notin Resource \cup Content

VARIABLES
    used,       \* the scenario of this behaviour
    created,    \* the resources that were ever created
    pool,       \* the resources that are alive
    scheduled,  \* objects to be removed at the next frame
    pending,    \* pending_ of each resource
    rendering,  \* rendering_ of each resource
    queue,      \* update_rendering_queue_: commands and commits
    commits,    \* its commit_count_
    inGroup,    \* the rendering thread is within a group of commands
    calls,      \* the requests so far
    content,    \* history: what was last uploaded to each resource
    shown,      \* history: the picture of the last commit executed
    newest      \* history: the picture of the last commit ordered

vars == <<used, created, pool, scheduled, pending, rendering, queue, commits,
          inGroup, calls, content, shown, newest>>
poolVars == <<used, created, pool, scheduled>>
renderVars == <<rendering, inGroup>>
queueVars == <<queue, commits>>
pictureVars == <<shown, newest>>

(* The fields of a record that `new` has are replaced. *)
Updated(record, new) ==
    [f \in DOMAIN record |-> IF f \in DOMAIN new THEN new[f] ELSE record[f]]

InitialPending(r) ==
    CASE r \in Object -> [units |-> {}]
      [] r \in Unit -> [technique |-> None]
      [] r \in Technique ->
           [program |-> None, programDamaged |-> FALSE,
            vertexArray |-> None, vertexArrayDamaged |-> FALSE,
            texture |-> None, sampler |-> None, textureDamaged |-> FALSE,
            method |-> "none", elements |-> None, methodDamaged |-> FALSE,
            uniform |-> None]
      [] r \in VertexArray ->
           [attribute |-> [i \in Index |-> [enabled |-> FALSE, buffer |-> None,
                                            damaged |-> FALSE]],
            damaged |-> FALSE]
      [] r \in Buffer -> [data |-> None, damaged |-> FALSE]
      [] r \in Program -> [shaders |-> {}, shouldLink |-> FALSE]
      [] r \in Shader -> [committed |-> FALSE]
      [] r \in Texture -> [data |-> None, mipmap |-> FALSE]
      [] r \in Sampler -> [parameter |-> None]

(* None says that nothing was set; a buffer then has no GL object. *)
InitialRendering(r) ==
    CASE r \in Object -> [committed |-> FALSE, units |-> {},
                          position |-> None]
      [] r \in Unit -> [technique |-> None]
      [] r \in Technique ->
           [program |-> None, vertexArray |-> None, texture |-> None,
            sampler |-> None, method |-> "none", elements |-> None,
            uniform |-> None]
      [] r \in VertexArray ->
           [exists |-> FALSE,
            attribute |-> [i \in Index |-> [enabled |-> FALSE,
                                            buffer |-> None]]]
      [] r \in Buffer -> [data |-> None]
      [] r \in Program -> [linked |-> {}]
      [] r \in Shader -> [compiled |-> FALSE]
      [] r \in Texture -> [data |-> None, mipmap |-> None]
      [] r \in Sampler -> [exists |-> FALSE, parameter |-> None]

(* A picture says of every resource what the rendering state should be.  It *)
(* also says what the code is known not to show: `bound` is FALSE for an    *)
(* attribute committed before its buffer had data, `reached` is FALSE for   *)
(* the data of a buffer whose vertex array had nothing else to commit, and  *)
(* `applied` is the program a uniform variable was set with, if any.        *)
NoPicture(r) ==
    CASE r \in VertexArray ->
           [attribute |-> [i \in Index |-> [enabled |-> FALSE, buffer |-> None,
                                            bound |-> FALSE]]]
      [] r \in Buffer -> [data |-> None, reached |-> TRUE]
      [] r \in Technique ->
           [program |-> None, vertexArray |-> None, texture |-> None,
            sampler |-> None, method |-> "none", elements |-> None,
            uniform |-> None, applied |-> None]
      [] OTHER -> InitialRendering(r)

(* What is given: the units are the object's, the technique is the units'.  *)
GivenPending(given, r) ==
    CASE r \in given \cap Object -> [units |-> given \cap Unit]
      [] r \in given \cap Unit -> [technique |->
           IF given \cap Technique = {} THEN None
           ELSE CHOOSE t \in Technique : t \in given]
      [] OTHER -> InitialPending(r)

Init == /\ used \in Scenario
        /\ created = used \cap Given
        /\ pool = used \cap Given
        /\ scheduled = {}
        /\ pending = [r \in Resource |-> GivenPending(used \cap Given, r)]
        /\ rendering = [r \in Resource |-> InitialRendering(r)]
        /\ queue = <<>>
        /\ commits = 0
        /\ inGroup = FALSE
        /\ calls = 0
        /\ content = [r \in Resource |-> None]
        /\ shown = [r \in Resource |-> NoPicture(r)]
        /\ newest = shown

(* Mutant of Live: the references keep what was deleted. *)
Live_Held(refs) == refs \cap created

(* lock() of a weak reference, or of all those in a set. *)
Live(refs) == refs \cap pool

-----------------------------------------------------------------------------
(* The picture an object's commit asks for: the newest state of everything  *)
(* below the object, whatever was committed before; the rest stays.         *)

Below(o) ==
    LET units == Live(pending[o].units)
        techniques == Live({pending[u].technique : u \in units})
        arrays == Live({pending[t].vertexArray : t \in techniques})
        programs == Live({pending[t].program : t \in techniques})
        drawn == Live({pending[t].elements :
                         t \in {t \in techniques :
                                  pending[t].method = "elements"}})
        attached == Live(UNION {{pending[v].attribute[i].buffer : i \in Index} :
                                  v \in arrays})
    IN  [all |-> {o} \cup units \cup techniques \cup arrays \cup programs
                 \cup drawn \cup attached
                 \cup Live({pending[t].texture : t \in techniques})
                 \cup Live({pending[t].sampler : t \in techniques}),
         buffers |-> drawn \cup
                     UNION {{pending[v].attribute[i].buffer : i \in Index} :
                              v \in {v \in arrays : pending[v].damaged}}]

HasContent(r) == r # None /\ content[r] # None

(* A program is linked once, and only when all its shaders are alive. *)
Linked(p) == IF /\ pending[p].shouldLink
                /\ pending[p].shaders \subseteq pool
                /\ newest[p].linked = {}
               THEN pending[p].shaders
               ELSE newest[p].linked

LinkedBy(p) == p \in pool /\ Linked(p) # {}

PictureOf(r, reached) ==
    LET p == pending[r]
        before == newest[r]
    IN  CASE r \in Object -> [before EXCEPT !.committed = TRUE,
                                          !.units = Live(p.units)]
          [] r \in Unit -> [technique |-> p.technique]
          [] r \in Technique ->
               [program |-> p.program, vertexArray |-> p.vertexArray,
                texture |-> p.texture, sampler |-> p.sampler,
                method |-> p.method, elements |-> p.elements,
                uniform |-> content[r],
                applied |-> IF p.uniform = None THEN before.applied
                            ELSE IF LinkedBy(p.program) THEN p.program
                            ELSE None]
          [] r \in VertexArray ->
               [attribute |-> [i \in Index |->
                  [enabled |-> p.attribute[i].enabled,
                   buffer |-> p.attribute[i].buffer,
                   bound |-> IF p.attribute[i].damaged
                               THEN HasContent(p.attribute[i].buffer)
                               ELSE before.attribute[i].bound]]]
          [] r \in Buffer -> [data |-> content[r],
                              reached |-> \/ r \in reached
                                          \/ before.reached /\ ~p.damaged]
          [] r \in Program ->
               [linked |-> Linked(r)]
          [] r \in Texture -> [data |-> content[r],
                               mipmap |-> IF p.mipmap THEN content[r]
                                                      ELSE before.mipmap]
          [] r \in Sampler -> [exists |-> TRUE, parameter |-> content[r]]

(* What a commit and a move of object o show when they take effect *)
Picture(o) ==
    LET below == Below(o)
    IN  [r \in Resource |-> IF r \in below.all THEN PictureOf(r, below.buffers)
                                               ELSE newest[r]]

Moved(o, d) == [newest EXCEPT ![o].position = d]

-----------------------------------------------------------------------------
(* Commit goes down the graph.  Each operator is the Commit method of one   *)
(* class: it takes the pending states and the queue, s, and returns them    *)
(* after the call.                                                          *)

(* AtomicCommandQueue::Commit; the end of a group knows what it shows. *)
EndGroup(s, picture) ==
    [s EXCEPT !.queue = Append(@, [op |-> "commit", picture |-> picture])]

Push(s, r, set) ==
    [s EXCEPT !.queue = Append(@, [op |-> "set", to |-> r, set |-> set])]

PushIf(s, damaged, r, set) == IF damaged THEN Push(s, r, set) ELSE s

CommitRef(Commit(_, _), s, ref) == IF ref \in pool THEN Commit(s, ref) ELSE s

CommitEach(Commit(_, _), s, refs) ==
    FoldSet(LAMBDA r, acc : Commit(acc, r), s, Live(refs))

CommitBuffer(s, b) ==
    IF ~s.pending[b].damaged THEN s
    ELSE [Push(s, b, [data |-> s.pending[b].data])
            EXCEPT !.pending[b] = InitialPending(b)]

CommitVertexArray(s, v) ==
    LET p == s.pending[v]
        buffers == CommitEach(CommitBuffer, s,
                              {p.attribute[i].buffer : i \in Index})
    IN  IF ~p.damaged THEN s
        ELSE [Push(buffers, v, [attribute |-> p.attribute])
                EXCEPT !.pending[v] =
                   [attribute |-> [i \in Index |-> [p.attribute[i] EXCEPT
                                                      !.damaged = FALSE]],
                    damaged |-> FALSE]]

CommitShader(s, h) ==
    IF s.pending[h].committed THEN s
    ELSE [Push(s, h, [compiled |-> TRUE]) EXCEPT !.pending[h].committed = TRUE]

CommitProgram(s, p) ==
    LET shaders == s.pending[p].shaders
    IN  IF ~s.pending[p].shouldLink THEN s
        ELSE [Push(CommitEach(CommitShader, s, shaders), p, [link |-> shaders])
                EXCEPT !.pending[p] = InitialPending(p)]

CommitTexture(s, x) ==
    IF s.pending[x] = InitialPending(x) THEN s
    ELSE [Push(s, x, s.pending[x]) EXCEPT !.pending[x] = InitialPending(x)]

CommitSampler(s, m) ==
    LET exists == Push(s, m, [exists |-> TRUE])
    IN  IF s.pending[m].parameter = None THEN exists
        ELSE [Push(exists, m, s.pending[m])
                EXCEPT !.pending[m] = InitialPending(m)]

(* Mutant of CommitParts: the sampler of a binding is forgotten. *)
CommitParts_NoSampler(s, p) ==
    LET programs == CommitRef(CommitProgram, s, p.program)
        arrays == CommitRef(CommitVertexArray, programs, p.vertexArray)
        textures == CommitRef(CommitTexture, arrays, p.texture)
    IN  IF p.method # "elements" THEN textures
        ELSE CommitRef(CommitBuffer, textures, p.elements)

(* The resources a technique refers to, committed in the code's order. *)
CommitParts(s, p) ==
    LET programs == CommitRef(CommitProgram, s, p.program)
        arrays == CommitRef(CommitVertexArray, programs, p.vertexArray)
        textures == CommitRef(CommitTexture, arrays, p.texture)
        samplers == CommitRef(CommitSampler, textures, p.sampler)
    IN  IF p.method # "elements" THEN samplers
        ELSE CommitRef(CommitBuffer, samplers, p.elements)

CommitTechnique(s, t) ==
    LET p == s.pending[t]
        sendUniform == p.program \in pool /\ p.uniform # None
        method == PushIf(CommitParts(s, p), p.methodDamaged, t,
                         [method |-> p.method, elements |-> p.elements])
        program == PushIf(method, p.programDamaged, t,
                          [program |-> p.program])
        array == PushIf(program, p.vertexArrayDamaged, t,
                        [vertexArray |-> p.vertexArray])
        texture == PushIf(array, p.textureDamaged, t,
                          [texture |-> p.texture, sampler |-> p.sampler])
        uniform == PushIf(texture, sendUniform, t, [uniform |-> p.uniform])
    IN  [uniform EXCEPT !.pending[t] =
           [@ EXCEPT !.methodDamaged = FALSE, !.programDamaged = FALSE,
                     !.vertexArrayDamaged = FALSE, !.textureDamaged = FALSE,
                     !.uniform = IF sendUniform THEN None ELSE p.uniform]]

CommitUnit(s, u) ==
    LET technique == s.pending[u].technique
    IN  Push(CommitRef(CommitTechnique, s, technique), u,
             [technique |-> technique])

(* VirtualObject::Commit, which drops the units that are gone and ends the  *)
(* group with AtomicCommandQueue::Commit.                                   *)
CommitObject(s, o) ==
    LET units == Live(s.pending[o].units)
        pushed == Push(CommitEach(CommitUnit, s, units), o,
                       [committed |-> TRUE, units |-> units])
    IN  EndGroup([pushed EXCEPT !.pending[o].units = units], Picture(o))

-----------------------------------------------------------------------------
(* VirtualObject::Move pushes its command at once, and ends the group: what *)
(* was pushed before it, by whom ever, takes effect with it.                *)
MoveObject(s, o, d) == EndGroup(Push(s, o, [position |-> d]), Moved(o, d))

-----------------------------------------------------------------------------
(* The handlers of the services, on the gRPC thread.  The server's user     *)
(* calls methods of proxies it has not destroyed; the references it passes  *)
(* may be to resources already destroyed, which Get answers with null.      *)

Get(r) == IF r \in pool THEN r ELSE None

(* Every handler counts, for the bound. *)
Request == calls < MaxCalls /\ calls' = calls + 1

(* Ids are never used twice. *)
Create(r) ==
    /\ Request
    /\ r \in used \ created
    /\ created' = created \cup {r}
    /\ pool' = pool \cup {r}
    /\ UNCHANGED <<used, scheduled, renderVars, queueVars, content, pictureVars>>

NewObject(o) == Create(o) /\ UNCHANGED pending

NewUnit(u, o) ==
    /\ Create(u)
    /\ o \in pool \ scheduled
    /\ pending' = [pending EXCEPT ![o].units = @ \cup {u}]

NewTechnique(t, u) ==
    /\ Create(t)
    /\ u \in pool
    /\ pending' = [pending EXCEPT ![u].technique = t]

NewVertexArray(v) == Create(v) /\ UNCHANGED pending
NewBuffer(b) == Create(b) /\ UNCHANGED pending
NewProgram(p) == Create(p) /\ UNCHANGED pending
NewShader(h) == Create(h) /\ UNCHANGED pending
NewTexture(x) == Create(x) /\ UNCHANGED pending
NewSampler(m) == Create(m) /\ UNCHANGED pending

(* A resource leaves its find-by-id container at once; its destructor pushes*)
(* the deletion of its GL object, without a commit.                         *)
Delete(r) ==
    /\ Request
    /\ r \in pool \ Object
    /\ pool' = pool \ {r}
    /\ queue' = Append(queue, [op |-> "delete", to |-> r])
    /\ UNCHANGED <<used, created, scheduled, pending, commits, renderVars,
                   content, pictureVars>>

(* Mutant of DeleteObject: the id may be one that is gone. *)
DeleteObject_Unchecked(o) ==
    /\ Request
    /\ o \in created \ scheduled
    /\ scheduled' = scheduled \cup {o}
    /\ UNCHANGED <<used, created, pool, pending, renderVars, queueVars, content,
                   pictureVars>>

DeleteObject(o) ==
    /\ Request
    /\ o \in pool \ scheduled
    /\ scheduled' = scheduled \cup {o}
    /\ UNCHANGED <<used, created, pool, pending, renderVars, queueVars, content,
                   pictureVars>>

(* A method that changes the pending state of r. *)
Change(r, new) ==
    /\ Request
    /\ r \in pool
    /\ pending' = [pending EXCEPT ![r] = new]
    /\ UNCHANGED <<poolVars, renderVars, queueVars, pictureVars>>

Upload(r, d) == content' = [content EXCEPT ![r] = d]

GlBufferData(b, d) ==
    /\ Change(b, [data |-> d, damaged |-> TRUE])
    /\ Upload(b, d)

Attribute(v, i, change) ==
    Change(v, [pending[v] EXCEPT !.attribute[i] = Updated(@, change),
                                 !.damaged = TRUE])

GlEnableVertexAttribArray(v, i) ==
    /\ Attribute(v, i, [enabled |-> TRUE, damaged |-> TRUE])
    /\ UNCHANGED content

GlDisableVertexAttribArray(v, i) ==
    /\ Attribute(v, i, [enabled |-> FALSE, damaged |-> TRUE])
    /\ UNCHANGED content

GlVertexAttribPointer(v, i, b) ==
    /\ b \in created
    /\ Attribute(v, i, [buffer |-> Get(b), damaged |-> TRUE])
    /\ UNCHANGED content

GlAttachShader(p, h) ==
    /\ h \in created
    /\ Change(p, [pending[p] EXCEPT !.shaders = @ \cup {Get(h)}])
    /\ UNCHANGED content

GlLinkProgram(p) ==
    /\ Change(p, [pending[p] EXCEPT !.shouldLink = TRUE])
    /\ UNCHANGED content

(* GlTexImage2D and GlTexSubImage2D *)
UploadTexture(x, d) ==
    /\ Change(x, [pending[x] EXCEPT !.data = d])
    /\ Upload(x, d)

GlGenerateMipmap(x) ==
    /\ Change(x, [pending[x] EXCEPT !.mipmap = TRUE])
    /\ UNCHANGED content

(* The six methods that set a parameter *)
SamplerParameter(m, d) ==
    /\ Change(m, [pending[m] EXCEPT !.parameter = d])
    /\ Upload(m, d)

BindProgram(t, p) ==
    /\ p \in created
    /\ Change(t, [pending[t] EXCEPT !.program = Get(p),
                                    !.programDamaged = TRUE])
    /\ UNCHANGED content

BindVertexArray(t, v) ==
    /\ v \in created
    /\ Change(t, [pending[t] EXCEPT !.vertexArray = Get(v),
                                    !.vertexArrayDamaged = TRUE])
    /\ UNCHANGED content

BindTexture(t, x, m) ==
    /\ {x, m} \subseteq created
    /\ Change(t, [pending[t] EXCEPT !.texture = Get(x), !.sampler = Get(m),
                                    !.textureDamaged = TRUE])
    /\ UNCHANGED content

GlUniform(t, d) ==
    /\ Change(t, [pending[t] EXCEPT !.uniform = d])
    /\ Upload(t, d)

GlDrawArrays(t) ==
    /\ Change(t, [pending[t] EXCEPT !.method = "arrays",
                                    !.methodDamaged = TRUE])
    /\ UNCHANGED content

GlDrawElements(t, b) ==
    /\ b \in created
    /\ Change(t, [pending[t] EXCEPT !.method = "elements",
                                    !.elements = Get(b),
                                    !.methodDamaged = TRUE])
    /\ UNCHANGED content

Commit(o) ==
    /\ Request
    /\ o \in pool \ scheduled
    /\ commits < MaxCommits
    /\ LET done == CommitObject([pending |-> pending, queue |-> queue], o)
       IN  pending' = done.pending /\ queue' = done.queue
    /\ commits' = commits + 1
    /\ newest' = Picture(o)
    /\ UNCHANGED <<poolVars, renderVars, content, shown>>

Move(o, d) ==
    /\ Request
    /\ o \in pool \ scheduled
    /\ commits < MaxCommits
    /\ queue' = MoveObject([pending |-> pending, queue |-> queue], o, d).queue
    /\ commits' = commits + 1
    /\ newest' = Moved(o, d)
    /\ UNCHANGED <<poolVars, pending, renderVars, content, shown>>

(* The deletions of several resources, in some order *)
Deletions(refs) ==
    [i \in 1..Cardinality(refs) |-> [op |-> "delete", to |-> SetToSeq(refs)[i]]]

(* The session goes with its pool; the queue of commands belongs to Remote  *)
(* and stays.                                                               *)
EndSession ==
    /\ pool # {}
    /\ pool' = {}
    /\ scheduled' = {}
    /\ queue' = queue \o Deletions(pool)
    /\ UNCHANGED <<used, created, pending, commits, renderVars, content,
                   pictureVars, calls>>

-----------------------------------------------------------------------------
(* The rendering thread *)

(* A weak reference to a buffer is looked up when the command runs.  *)
PointedAt(v, i, new) ==
    IF ~new.damaged THEN rendering[v].attribute[i]
    ELSE [enabled |-> new.enabled,
          buffer |-> IF new.buffer \notin pool
                       THEN rendering[v].attribute[i].buffer
                     ELSE IF rendering[new.buffer].data = None THEN None
                     ELSE new.buffer]

(* The program is made of the attached shaders that are still alive; without*)
(* all of them it does not link.                                            *)
LinkResult(p, shaders) ==
    IF rendering[p].linked = {} /\ shaders \subseteq pool THEN shaders
                                                         ELSE rendering[p].linked

(* What a command makes of the rendering state of its resource. *)
Effect(r, set) ==
    CASE r \in VertexArray ->
           [exists |-> TRUE,
            attribute |-> [i \in Index |-> PointedAt(r, i, set.attribute[i])]]
      [] r \in Program -> [linked |-> LinkResult(r, set.link)]
      [] r \in Texture ->
           LET data == IF set.data = None THEN rendering[r].data ELSE set.data
           IN  [data |-> data,
                mipmap |-> IF set.mipmap THEN data ELSE rendering[r].mipmap]
      [] r \in Technique /\ "uniform" \in DOMAIN set ->
           LET p == rendering[r].program
           IN  IF p \in pool /\ rendering[p].linked # {}
                 THEN Updated(rendering[r], set) ELSE rendering[r]
      [] OTHER -> Updated(rendering[r], set)

(* UpdateScene begins a group only when its commit is in the queue. *)
ExecuteCommand ==
    /\ commits > 0
    /\ Head(queue).op # "commit"
    /\ LET c == Head(queue)
       IN  rendering' = [rendering EXCEPT ![c.to] =
                            IF c.op = "delete" THEN InitialRendering(c.to)
                                               ELSE Effect(c.to, c.set)]
    /\ queue' = Tail(queue)
    /\ inGroup' = TRUE
    /\ UNCHANGED <<poolVars, pending, commits, content, pictureVars, calls>>

FinishGroup ==
    /\ commits > 0
    /\ Head(queue).op = "commit"
    /\ queue' = Tail(queue)
    /\ commits' = commits - 1
    /\ inGroup' = FALSE
    /\ shown' = Head(queue).picture
    /\ UNCHANGED <<poolVars, pending, rendering, content, newest, calls>>

(* The techniques a frame draws. *)
Drawn ==
    LET objects == {o \in (pool \ scheduled) \cap Object :
                      rendering[o].committed}
        units == Live(UNION {rendering[o].units : o \in objects})
    IN  {t \in Live({rendering[u].technique : u \in units}) :
           LET at == rendering[t]
           IN  /\ at.method # "none"
               /\ at.vertexArray \in pool /\ rendering[at.vertexArray].exists
               /\ at.program \in pool /\ rendering[at.program].linked # {}
               /\ at.method = "elements" => at.elements \in pool}

(* ForEach removes objects, whose destructors push a command each, and      *)
(* SetupTextures forgets bindings to textures or samplers that are gone.    *)
Frame ==
    /\ ~inGroup
    /\ pool' = pool \ scheduled
    /\ scheduled' = {}
    /\ queue' = queue \o Deletions(scheduled)
    /\ rendering' = [r \in Resource |->
         IF r \in Drawn /\ ~({rendering[r].texture, rendering[r].sampler}
                               \subseteq pool)
           THEN [rendering[r] EXCEPT !.texture = None, !.sampler = None]
           ELSE rendering[r]]
    /\ UNCHANGED <<used, created, pending, commits, inGroup, content,
                   pictureVars, calls>>

-----------------------------------------------------------------------------
Creations ==
    \/ \E o \in Object : NewObject(o)
    \/ \E u \in Unit, o \in Object : NewUnit(u, o)
    \/ \E t \in Technique, u \in Unit : NewTechnique(t, u)
    \/ \E v \in VertexArray : NewVertexArray(v)
    \/ \E b \in Buffer : NewBuffer(b)
    \/ \E p \in Program : NewProgram(p)
    \/ \E h \in Shader : NewShader(h)
    \/ \E x \in Texture : NewTexture(x)
    \/ \E m \in Sampler : NewSampler(m)

Removals == \/ \E r \in Resource : Delete(r)
            \/ \E o \in Object : DeleteObject(o)
            \/ EndSession

Changes ==
    \/ \E b \in Buffer, d \in Content : GlBufferData(b, d)
    \/ \E v \in VertexArray, i \in Index :
          \/ GlEnableVertexAttribArray(v, i)
          \/ GlDisableVertexAttribArray(v, i)
          \/ \E b \in Buffer : GlVertexAttribPointer(v, i, b)
    \/ \E p \in Program : GlLinkProgram(p)
                           \/ \E h \in Shader : GlAttachShader(p, h)
    \/ \E x \in Texture : GlGenerateMipmap(x)
                           \/ \E d \in Content : UploadTexture(x, d)
    \/ \E m \in Sampler, d \in Content : SamplerParameter(m, d)
    \/ \E t \in Technique :
          \/ \E p \in Program : BindProgram(t, p)
          \/ \E v \in VertexArray : BindVertexArray(t, v)
          \/ \E x \in Texture, m \in Sampler : BindTexture(t, x, m)
          \/ \E d \in Content : GlUniform(t, d)
          \/ GlDrawArrays(t)
          \/ \E b \in Buffer : GlDrawElements(t, b)
    \/ \E o \in Object : Commit(o) \/ \E d \in Position : Move(o, d)

Next == Creations \/ Removals \/ Changes
        \/ ExecuteCommand \/ FinishGroup \/ Frame

Spec == Init /\ [][Next]_vars

(* Contents are only compared: permuting them changes nothing.  *)
ContentSymmetry == Permutations(Content)

-----------------------------------------------------------------------------
(* Properties *)

IsEnd(i) == queue[i].op = "commit"

(* The places of the commands for r in the queue *)
CommandsFor(r) == {i \in DOMAIN queue : ~IsEnd(i) /\ queue[i].to = r}

(* Every reference held by the graph or by a command names a resource that  *)
(* was created, and commit_count_ counts the commits in the queue.           *)
TypeOK ==
    /\ pool \subseteq created /\ created \subseteq Resource
    /\ scheduled \subseteq pool \cap Object
    /\ \A r \in Resource \ created : /\ pending[r] = InitialPending(r)
                                     /\ rendering[r] = InitialRendering(r)
    /\ \A i \in DOMAIN queue : ~IsEnd(i) => queue[i].to \in created
    /\ inGroup \in BOOLEAN
    /\ commits = Cardinality({i \in DOMAIN queue : IsEnd(i)})
    /\ inGroup => commits > 0

(* What the rendering state of r must be when the last commit is `shown`.   *)
IsShown(r) ==
    LET is == rendering[r]
        due == shown[r]
        shadersLive(p) == p \in pool /\ shown[p].linked \subseteq pool
    IN  CASE r \in Object -> /\ is.committed = due.committed
                             /\ is.position = due.position
                             /\ Live(is.units) = Live(due.units)
          [] r \in Technique ->
               /\ \A part \in {"program", "vertexArray", "method", "elements"} :
                    is[part] = due[part]
               /\ {due.texture, due.sampler} \subseteq pool =>
                    is.texture = due.texture /\ is.sampler = due.sampler
               /\ shadersLive(due.applied) => is.uniform = due.uniform
          [] r \in VertexArray ->
               \A i \in Index :
                 LET at == due.attribute[i]
                 IN  /\ is.attribute[i].enabled = at.enabled
                     /\ at.bound /\ at.buffer \in pool =>
                          is.attribute[i].buffer = at.buffer
          [] r \in Buffer -> due.reached => is.data = due.data
          [] r \in Program -> due.linked \subseteq pool =>
                                is.linked = due.linked
          [] r \in Shader -> TRUE
          [] OTHER -> is = due

(* Between two groups the rendering state of every resource is the state it *)
(* had when the last executed commit was ordered, whatever the gRPC thread  *)
(* changed, committed or deleted since, and however the damage flags and the*)
(* sharing of resources cut the commands down.  The exceptions are those the*)
(* pictures name, and resources that refer to a deleted one.                *)
CommitIsShown == ~inGroup => \A r \in pool : IsShown(r)

(* The GL object of a deleted resource is freed by the last command for it: *)
(* no command after its deletion makes the object again, and the deletion is*)
(* in the queue until it is executed.                                       *)
DeletedIsFreed ==
    \A r \in created \ pool :
        IF CommandsFor(r) = {}
          THEN rendering[r] = InitialRendering(r)
          ELSE \E i \in CommandsFor(r) : /\ \A j \in CommandsFor(r) : j <= i
                                       /\ queue[i].op = "delete"

(* "use a lambda capture or something similar to preserve the state at the  *)
(* time of commit" (client/resource-pool.h): a program committed with its   *)
(* shaders alive is linked once the commit is executed.                     *)
CommittedProgramIsLinked ==
    ~inGroup => \A p \in Program \cap pool :
                    rendering[p].linked = shown[p].linked

=============================================================================
