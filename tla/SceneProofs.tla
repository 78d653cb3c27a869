---------------------------- MODULE SceneProofs ----------------------------
(***************************************************************************)
(* The properties of Scene, for any number of resources of each kind, any  *)
(* content and any number of calls and commits.                            *)
(*                                                                         *)
(* The inductive invariant Inv has seven parts:                            *)
(*   Graph      what is alive was created, what is scheduled is alive;     *)
(*   Types      the types of the pending states, the rendering states, the *)
(*              pictures and the entries of the queue;                     *)
(*   Coherence  a part of a pending state that is not marked as changed is *)
(*              what the last commit ordered;                              *)
(*   Aims       the entries of the queue up to the end of a group lead from*)
(*              the rendering state to the picture of that group's commit; *)
(*   Absent     nothing was asked of a resource before it is created;      *)
(*   Counted    commit_count_ is the number of commits in the queue;       *)
(*   Freed      the last entry for a resource that is gone is its deletion.*)
(* CommitIsShown alone is not inductive: that the end of a group finds the *)
(* rendering state right depends on the commands still in the queue (Aims),*)
(* and that the commands of a commit suffice, although it orders only what *)
(* was changed, on what earlier commits ordered (Coherence).               *)
(*                                                                         *)
(* Aims is stated with Match, which says what the queue makes of one       *)
(* resource by the last command that sets each field.  The gRPC thread     *)
(* appends to the queue: a commit is followed through the resources below  *)
(* its object, each of which is Fresh until it is Finished.  The rendering *)
(* thread takes the head: Takes says what the command does to the rendering*)
(* state, and the Shift lemmas that what remains of the queue still leads  *)
(* to the same picture.                                                    *)
(***************************************************************************)
EXTENDS Scene, FiniteSetTheorems, FunctionTheorems, SequenceTheorems,
        WellFoundedInduction, TLAPS

-----------------------------------------------------------------------------
(* Sequences whose elements are of any kind                                 *)

IsSequence(q) == \E S : q \in Seq(S)

(* The length of a sequence is a number and its domain starts at 1.         *)
LEMMA SequenceFacts ==
    ASSUME NEW q, IsSequence(q)
    PROVE  Len(q) \in Nat /\ DOMAIN q = 1..Len(q)
BY LenProperties DEF IsSequence

(* Append keeps the entries and adds one: std::list::push_back.             *)
LEMMA AppendFacts ==
    ASSUME NEW q, IsSequence(q), NEW c
    PROVE  /\ IsSequence(Append(q, c))
           /\ Len(Append(q, c)) = Len(q) + 1
           /\ \A i \in 1..Len(q) : Append(q, c)[i] = q[i]
           /\ Append(q, c)[Len(q) + 1] = c
<1>1. PICK S : q \in Seq(S)
  BY DEF IsSequence
<1>2. q \in Seq(S \cup {c})
  BY <1>1, SeqMonotonic
<1>. QED
  BY <1>2, LenProperties DEF IsSequence

(* Tail drops the first entry: std::list::pop_front.                        *)
LEMMA TailFacts ==
    ASSUME NEW q, IsSequence(q), Len(q) > 0
    PROVE  /\ IsSequence(Tail(q))
           /\ Len(Tail(q)) = Len(q) - 1
           /\ \A i \in 1..Len(q) - 1 : Tail(q)[i] = q[i + 1]
           /\ Head(q) = q[1]
<1>1. PICK S : q \in Seq(S)
  BY DEF IsSequence
<1>2. q # <<>>
  BY EmptySeq
<1>. QED
  BY <1>1, <1>2, HeadTailProperties, LenProperties DEF IsSequence

(* Concatenation keeps the entries of both sequences, in order.             *)
LEMMA ConcatFacts ==
    ASSUME NEW q, IsSequence(q), NEW e, IsSequence(e)
    PROVE  /\ IsSequence(q \o e)
           /\ Len(q \o e) = Len(q) + Len(e)
           /\ \A i \in 1..Len(q) : (q \o e)[i] = q[i]
           /\ \A i \in 1..Len(e) : (q \o e)[Len(q) + i] = e[i]
<1>1. PICK S, T : q \in Seq(S) /\ e \in Seq(T)
  BY DEF IsSequence
<1>2. q \in Seq(S \cup T) /\ e \in Seq(S \cup T)
  BY <1>1, SeqMonotonic
<1>3. /\ q \o e \in Seq(S \cup T)
      /\ Len(q \o e) = Len(q) + Len(e)
      /\ \A i \in 1..Len(q) + Len(e) :
            (q \o e)[i] = IF i <= Len(q) THEN q[i] ELSE e[i - Len(q)]
  BY <1>2, ConcatProperties
<1>4. Len(q) \in Nat /\ Len(e) \in Nat
  BY SequenceFacts
<1>. QED
  BY <1>3, <1>4 DEF IsSequence

-----------------------------------------------------------------------------
(* Finite sets                                                              *)

(* A set of natural numbers that is not empty has a least member.           *)
LEMMA LeastMember ==
    ASSUME NEW T, T \subseteq Nat, T # {}
    PROVE  \E n \in T : \A m \in T : n <= m
<1>1. IsWellFoundedOn(OpToRel(<, Nat), Nat)
  BY NatLessThanWellFounded
<1>2. PICK n \in T : \A m \in T : <<m, n>> \notin OpToRel(<, Nat)
  BY <1>1, WFMin, Zenon
<1>3. ASSUME NEW m \in T PROVE n <= m
  <2>1. m \in Nat /\ n \in Nat
    OBVIOUS
  <2>2. m < n => <<m, n>> \in OpToRel(<, Nat)
    BY <2>1 DEF OpToRel
  <2>3. ~(m < n)
    BY <1>2, <2>2, Zenon
  <2>. QED
    BY <2>1, <2>3
<1>. QED
  BY <1>3

(* What holds of the empty set, and of a set when it holds of the set with  *)
(* some element less, holds of every finite set.                            *)
LEMMA RemovalInduction ==
    ASSUME NEW S, IsFiniteSet(S), NEW A, {} \in A,
           \A T \in SUBSET S : T # {} =>
              \E x \in T : T \ {x} \in A => T \in A
    PROVE  S \in A
<1>. SUFFICES ASSUME S \notin A PROVE FALSE
  OBVIOUS
<1>. DEFINE N == {n \in Nat : \E T \in SUBSET S : T \notin A
                                                /\ Cardinality(T) = n}
<1>1. \A T \in SUBSET S : IsFiniteSet(T) /\ Cardinality(T) \in Nat
  BY FS_Subset, FS_CardinalityType
<1>2. N # {}
  BY <1>1
<1>3. PICK n \in N : \A m \in N : n <= m
  <2>. HIDE DEF N
  <2>1. N \subseteq Nat
    BY DEF N
  <2>. QED
    BY <1>2, <2>1, LeastMember
<1>4. PICK T \in SUBSET S : T \notin A /\ Cardinality(T) = n
  BY <1>3
<1>5. PICK x \in T : T \ {x} \in A => T \in A
  BY <1>4
<1>6. T \ {x} \in SUBSET S /\ Cardinality(T \ {x}) = n - 1
  BY <1>1, <1>4, FS_RemoveElement
<1>7. n \in Nat /\ n - 1 \in Nat
  BY <1>1, <1>3, <1>6
<1>8. n - 1 \in N
  BY <1>4, <1>5, <1>6, <1>7
<1>. QED
  BY <1>3, <1>7, <1>8

(* SetToSeq of a finite set lists every member, and nothing else.           *)
LEMMA ListOf ==
    ASSUME NEW S, IsFiniteSet(S)
    PROVE  /\ Cardinality(S) \in Nat
           /\ \A i \in 1..Cardinality(S) : SetToSeq(S)[i] \in S
           /\ \A x \in S : \E i \in 1..Cardinality(S) : SetToSeq(S)[i] = x
<1>. DEFINE n == Cardinality(S)
<1>1. n \in Nat /\ \E f \in [1..n -> S] : IsInjective(f)
  BY FS_CardinalityType DEF ExistsBijection, Bijection, Injection, IsInjective
<1>2. SetToSeq(S) \in [1..n -> S] /\ IsInjective(SetToSeq(S))
  BY <1>1 DEF SetToSeq
<1>3. SetToSeq(S) \in Injection(1..n, S)
  BY <1>2 DEF IsInjective, Injection
<1>4. IsFiniteSet(1..n) /\ Cardinality(1..n) = n
  BY <1>1, FS_Interval
<1>5. SetToSeq(S) \in Surjection(1..n, S)
  BY <1>3, <1>4, FS_Injection
<1>. QED
  BY <1>1, <1>2, <1>5 DEF Surjection

-----------------------------------------------------------------------------
(* A fold of CommitEach is a function on the sets of resources done so far. *)

Step(kind, s, r) == CASE kind = "buffer" -> CommitBuffer(s, r)
                      [] kind = "shader" -> CommitShader(s, r)
                      [] kind = "unit" -> CommitUnit(s, r)

Chosen(t) == CHOOSE x \in t : TRUE

IsFold(g, kind, s, T) ==
    g = [t \in T |-> IF t = {} THEN s
                     ELSE Step(kind, g[t \ {Chosen(t)}], Chosen(t))]

(* The fold of a commit over a finite set is defined: the function that     *)
(* gives the state after every subset exists.                               *)
LEMMA FoldExists ==
    ASSUME NEW kind, NEW s, NEW S, IsFiniteSet(S)
    PROVE  \E g : IsFold(g, kind, s, SUBSET S)
<1>. DEFINE Small(n) == {t \in SUBSET S : Cardinality(t) <= n}
            Bad == {n \in Nat : ~\E g : IsFold(g, kind, s, Small(n))}
<1>1. \A t \in SUBSET S : IsFiniteSet(t) /\ Cardinality(t) \in Nat
  BY FS_Subset, FS_CardinalityType
<1>2. \A t \in SUBSET S : t # {} => /\ Chosen(t) \in t
                                 /\ t \ {Chosen(t)} \in SUBSET S
  BY DEF Chosen
<1>3. ASSUME NEW n \in Nat, n \in Bad, \A m \in Bad : n <= m PROVE FALSE
  <2>1. CASE n = 0
    <3>1. \A t \in Small(n) : t = {}
      BY <1>1, <2>1, FS_EmptySet
    <3>. DEFINE g == [t \in Small(n) |-> s]
    <3>2. g = [t \in Small(n) |->
                 IF t = {} THEN s
                 ELSE Step(kind, g[t \ {Chosen(t)}], Chosen(t))]
      BY <3>1
    <3>3. IsFold(g, kind, s, Small(n))
      BY <3>2, Zenon DEF IsFold
    <3>. QED
      BY <1>3, <3>3
  <2>2. CASE n # 0
    <3>1. n - 1 \in Nat /\ n - 1 \notin Bad
      <4>. HIDE DEF Bad
      <4>. QED
        BY <1>3, <2>2
    <3>2. PICK g : IsFold(g, kind, s, Small(n - 1))
      BY <3>1
    <3>. DEFINE h == [t \in Small(n) |->
                        IF t = {} THEN s
                        ELSE Step(kind, g[t \ {Chosen(t)}], Chosen(t))]
    <3>3. ASSUME NEW t \in Small(n), t # {}
          PROVE  h[t \ {Chosen(t)}] = g[t \ {Chosen(t)}]
      <4>1. Cardinality(t \ {Chosen(t)}) = Cardinality(t) - 1
        BY <1>1, <1>2, <3>3, FS_RemoveElement
      <4>2. /\ t \ {Chosen(t)} \in Small(n)
            /\ t \ {Chosen(t)} \in Small(n - 1)
        BY <1>1, <1>2, <3>3, <4>1
      <4>. DEFINE u == t \ {Chosen(t)}
      <4>3. g[u] = IF u = {} THEN s
                   ELSE Step(kind, g[u \ {Chosen(u)}], Chosen(u))
        <5>. HIDE DEF u
        <5>. QED
          BY <3>2, <4>2, Zenon DEF IsFold, u
      <4>4. h[u] = IF u = {} THEN s
                   ELSE Step(kind, g[u \ {Chosen(u)}], Chosen(u))
        BY <4>2, Zenon
      <4>. QED
        BY <4>3, <4>4, Zenon
    <3>4. h = [t \in Small(n) |->
                 IF t = {} THEN s
                 ELSE Step(kind, h[t \ {Chosen(t)}], Chosen(t))]
      <4>1. \A t \in Small(n) :
               (IF t = {} THEN s
                ELSE Step(kind, g[t \ {Chosen(t)}], Chosen(t)))
                 = (IF t = {} THEN s
                    ELSE Step(kind, h[t \ {Chosen(t)}], Chosen(t)))
        <5>. HIDE DEF h, Small
        <5>. QED
          BY <3>3, Zenon
      <4>2. h = [t \in Small(n) |->
                   IF t = {} THEN s
                   ELSE Step(kind, g[t \ {Chosen(t)}], Chosen(t))]
        OBVIOUS
      <4>. HIDE DEF h, Small
      <4>. QED
        BY <4>1, <4>2, Zenon
    <3>5. IsFold(h, kind, s, Small(n))
      <4>. HIDE DEF h, Small
      <4>. QED
        BY <3>4, Zenon DEF IsFold
    <3>. QED
      BY <1>3, <3>5
  <2>. QED
    BY <2>1, <2>2
<1>4. Bad = {}
  <2>. SUFFICES ASSUME Bad # {} PROVE FALSE
    OBVIOUS
  <2>1. PICK n \in Bad : \A m \in Bad : n <= m
    <3>1. Bad \subseteq Nat
      OBVIOUS
    <3>. HIDE DEF Bad
    <3>. QED
      BY <3>1, LeastMember
  <2>. QED
    BY <1>3, <2>1
<1>5. PICK g : IsFold(g, kind, s, Small(Cardinality(S)))
  BY <1>1, <1>4
<1>6. Small(Cardinality(S)) = SUBSET S
  BY FS_Subset
<1>. QED
  BY <1>5, <1>6

(* How CommitEach goes from one resource to the next *)
Folds(g, kind, s, S, result) ==
    /\ result = g[S]
    /\ g[{}] = s
    /\ \A t \in SUBSET S : t # {} =>
          \E x \in t : g[t] = Step(kind, g[t \ {x}], x)

(* Each value of the fold is one commit after another of its values.        *)
LEMMA FoldSteps ==
    ASSUME NEW kind, NEW s, NEW S, NEW g, IsFold(g, kind, s, SUBSET S)
    PROVE  Folds(g, kind, s, S, g[S])
<1>1. \A t \in SUBSET S :
         g[t] = IF t = {} THEN s
                ELSE Step(kind, g[t \ {Chosen(t)}], Chosen(t))
  BY Zenon DEF IsFold
<1>2. \A t : t # {} => Chosen(t) \in t
  BY DEF Chosen
<1>3. g[{}] = s
  BY <1>1
<1>. QED
  BY <1>1, <1>2, <1>3, Zenon DEF Folds

(* CommitEach over the live buffers is such a fold.                         *)
LEMMA EachBuffer ==
    ASSUME NEW s, NEW refs, IsFiniteSet(pool)
    PROVE  \E g : Folds(g, "buffer", s, Live(refs),
                        CommitEach(CommitBuffer, s, refs))
<1>. DEFINE S == Live(refs)
            F(g) == g = [t \in SUBSET S |->
                           IF t = {} THEN s
                           ELSE CommitBuffer(g[t \ {CHOOSE x \in t : TRUE}],
                                             CHOOSE x \in t : TRUE)]
<1>1. IsFiniteSet(S)
  BY FS_Subset DEF Live
<1>2. CommitEach(CommitBuffer, s, refs) = (CHOOSE g : F(g))[S]
  BY Zenon DEF CommitEach, FoldSet, MapThenFoldSet
<1>3. \A a, x : Step("buffer", a, x) = CommitBuffer(a, x)
  BY Zenon DEF Step
<1>4. ASSUME NEW g PROVE F(g) <=> IsFold(g, "buffer", s, SUBSET S)
  <2>1. [t \in SUBSET S |->
           IF t = {} THEN s
           ELSE CommitBuffer(g[t \ {CHOOSE x \in t : TRUE}],
                         CHOOSE x \in t : TRUE)]
          = [t \in SUBSET S |->
               IF t = {} THEN s
               ELSE Step("buffer", g[t \ {CHOOSE x \in t : TRUE}],
                         CHOOSE x \in t : TRUE)]
    BY <1>3, Zenon
  <2>. QED
    BY <2>1, Zenon DEF IsFold, Chosen
<1>5. F(CHOOSE g : F(g))
  <2>. HIDE DEF F, S
  <2>. QED
    BY <1>1, <1>4, FoldExists, Zenon
<1>. QED
  <2>. HIDE DEF F, S
  <2>. QED
    BY <1>2, <1>4, <1>5, FoldSteps, Zenon DEF S

(* CommitEach over the live shaders is such a fold.                         *)
LEMMA EachShader ==
    ASSUME NEW s, NEW refs, IsFiniteSet(pool)
    PROVE  \E g : Folds(g, "shader", s, Live(refs),
                        CommitEach(CommitShader, s, refs))
<1>. DEFINE S == Live(refs)
            F(g) == g = [t \in SUBSET S |->
                           IF t = {} THEN s
                           ELSE CommitShader(g[t \ {CHOOSE x \in t : TRUE}],
                                             CHOOSE x \in t : TRUE)]
<1>1. IsFiniteSet(S)
  BY FS_Subset DEF Live
<1>2. CommitEach(CommitShader, s, refs) = (CHOOSE g : F(g))[S]
  BY Zenon DEF CommitEach, FoldSet, MapThenFoldSet
<1>3. \A a, x : Step("shader", a, x) = CommitShader(a, x)
  BY Zenon DEF Step
<1>4. ASSUME NEW g PROVE F(g) <=> IsFold(g, "shader", s, SUBSET S)
  <2>1. [t \in SUBSET S |->
           IF t = {} THEN s
           ELSE CommitShader(g[t \ {CHOOSE x \in t : TRUE}],
                         CHOOSE x \in t : TRUE)]
          = [t \in SUBSET S |->
               IF t = {} THEN s
               ELSE Step("shader", g[t \ {CHOOSE x \in t : TRUE}],
                         CHOOSE x \in t : TRUE)]
    BY <1>3, Zenon
  <2>. QED
    BY <2>1, Zenon DEF IsFold, Chosen
<1>5. F(CHOOSE g : F(g))
  <2>. HIDE DEF F, S
  <2>. QED
    BY <1>1, <1>4, FoldExists, Zenon
<1>. QED
  <2>. HIDE DEF F, S
  <2>. QED
    BY <1>2, <1>4, <1>5, FoldSteps, Zenon DEF S

(* CommitEach over the live rendering units is such a fold.                 *)
LEMMA EachUnit ==
    ASSUME NEW s, NEW refs, IsFiniteSet(pool)
    PROVE  \E g : Folds(g, "unit", s, Live(refs),
                        CommitEach(CommitUnit, s, refs))
<1>. DEFINE S == Live(refs)
            F(g) == g = [t \in SUBSET S |->
                           IF t = {} THEN s
                           ELSE CommitUnit(g[t \ {CHOOSE x \in t : TRUE}],
                                           CHOOSE x \in t : TRUE)]
<1>1. IsFiniteSet(S)
  BY FS_Subset DEF Live
<1>2. CommitEach(CommitUnit, s, refs) = (CHOOSE g : F(g))[S]
  BY Zenon DEF CommitEach, FoldSet, MapThenFoldSet
<1>3. \A a, x : Step("unit", a, x) = CommitUnit(a, x)
  BY Zenon DEF Step
<1>4. ASSUME NEW g PROVE F(g) <=> IsFold(g, "unit", s, SUBSET S)
  <2>1. [t \in SUBSET S |->
           IF t = {} THEN s
           ELSE CommitUnit(g[t \ {CHOOSE x \in t : TRUE}],
                       CHOOSE x \in t : TRUE)]
          = [t \in SUBSET S |->
               IF t = {} THEN s
               ELSE Step("unit", g[t \ {CHOOSE x \in t : TRUE}],
                         CHOOSE x \in t : TRUE)]
    BY <1>3, Zenon
  <2>. QED
    BY <2>1, Zenon DEF IsFold, Chosen
<1>5. F(CHOOSE g : F(g))
  <2>. HIDE DEF F, S
  <2>. QED
    BY <1>1, <1>4, FoldExists, Zenon
<1>. QED
  <2>. HIDE DEF F, S
  <2>. QED
    BY <1>2, <1>4, <1>5, FoldSteps, Zenon DEF S

-----------------------------------------------------------------------------
(* The kinds of resources are disjoint; each has its case.                  *)

(* No two kinds of resources have a member in common.                       *)
LEMMA Apart ==
    /\ Object \cap UNION {Unit, Technique, VertexArray, Buffer, Program,
                          Shader, Texture, Sampler} = {}
    /\ Unit \cap UNION {Technique, VertexArray, Buffer, Program, Shader,
                        Texture, Sampler} = {}
    /\ Technique \cap UNION {VertexArray, Buffer, Program, Shader, Texture,
                             Sampler} = {}
    /\ VertexArray \cap UNION {Buffer, Program, Shader, Texture, Sampler} = {}
    /\ Buffer \cap UNION {Program, Shader, Texture, Sampler} = {}
    /\ Program \cap UNION {Shader, Texture, Sampler} = {}
    /\ Shader \cap UNION {Texture, Sampler} = {}
    /\ Texture \cap Sampler = {}
<1>1. /\ DOMAIN Kinds = 1..9
      /\ Kinds[1] = Object /\ Kinds[2] = Unit /\ Kinds[3] = Technique
      /\ Kinds[4] = VertexArray /\ Kinds[5] = Buffer /\ Kinds[6] = Program
      /\ Kinds[7] = Shader /\ Kinds[8] = Texture /\ Kinds[9] = Sampler
  BY DEF Kinds
<1>2. \A i, j \in 1..9 : i # j => Kinds[i] \cap Kinds[j] = {}
  BY <1>1, ResourceAssumption
<1>3. Object \cap UNION {Unit, Technique, VertexArray, Buffer, Program,
                         Shader, Texture, Sampler} = {}
  BY <1>1, <1>2
<1>4. Unit \cap UNION {Technique, VertexArray, Buffer, Program, Shader,
                       Texture, Sampler} = {}
  BY <1>1, <1>2
<1>5. Technique \cap UNION {VertexArray, Buffer, Program, Shader, Texture,
                            Sampler} = {}
  BY <1>1, <1>2
<1>6. VertexArray \cap UNION {Buffer, Program, Shader, Texture, Sampler} = {}
  BY <1>1, <1>2
<1>7. Buffer \cap UNION {Program, Shader, Texture, Sampler} = {}
  BY <1>1, <1>2
<1>8. Program \cap UNION {Shader, Texture, Sampler} = {}
  BY <1>1, <1>2
<1>9. Shader \cap UNION {Texture, Sampler} = {} /\ Texture \cap Sampler = {}
  BY <1>1, <1>2
<1>. QED
  BY <1>3, <1>4, <1>5, <1>6, <1>7, <1>8, <1>9

(* The resources are finitely many, of nine kinds, and None is not one.     *)
LEMMA Known ==
    /\ None \notin Resource /\ None \notin Content
    /\ IsFiniteSet(Resource)
    /\ \A r \in Resource :
          \/ r \in Object \/ r \in Unit \/ r \in Technique
          \/ r \in VertexArray \/ r \in Buffer \/ r \in Program
          \/ r \in Shader \/ r \in Texture \/ r \in Sampler
    /\ Object \subseteq Resource /\ Unit \subseteq Resource
    /\ Technique \subseteq Resource /\ VertexArray \subseteq Resource
    /\ Buffer \subseteq Resource /\ Program \subseteq Resource
    /\ Shader \subseteq Resource /\ Texture \subseteq Resource
    /\ Sampler \subseteq Resource
BY ResourceAssumption DEF Resource

(* The pending state in which the constructor leaves each kind.             *)
LEMMA InitialPendingIs ==
    /\ \A r \in Object : InitialPending(r) = [units |-> {}]
    /\ \A r \in Unit : InitialPending(r) = [technique |-> None]
    /\ \A r \in Technique : InitialPending(r) =
           [program |-> None, programDamaged |-> FALSE,
            vertexArray |-> None, vertexArrayDamaged |-> FALSE,
            texture |-> None, sampler |-> None, textureDamaged |-> FALSE,
            method |-> "none", elements |-> None, methodDamaged |-> FALSE,
            uniform |-> None]
    /\ \A r \in VertexArray : InitialPending(r) =
           [attribute |-> [i \in Index |-> [enabled |-> FALSE, buffer |-> None,
                                            damaged |-> FALSE]],
            damaged |-> FALSE]
    /\ \A r \in Buffer : InitialPending(r) = [data |-> None, damaged |-> FALSE]
    /\ \A r \in Program :
          InitialPending(r) = [shaders |-> {}, shouldLink |-> FALSE]
    /\ \A r \in Shader : InitialPending(r) = [committed |-> FALSE]
    /\ \A r \in Texture : InitialPending(r) = [data |-> None, mipmap |-> FALSE]
    /\ \A r \in Sampler : InitialPending(r) = [parameter |-> None]
<1>1. \A r \in Object : InitialPending(r) = [units |-> {}]
  BY Apart DEF InitialPending
<1>2. \A r \in Unit : InitialPending(r) = [technique |-> None]
  BY Apart DEF InitialPending
<1>3. \A r \in Technique : InitialPending(r) =
           [program |-> None, programDamaged |-> FALSE,
            vertexArray |-> None, vertexArrayDamaged |-> FALSE,
            texture |-> None, sampler |-> None, textureDamaged |-> FALSE,
            method |-> "none", elements |-> None, methodDamaged |-> FALSE,
            uniform |-> None]
  BY Apart DEF InitialPending
<1>4. \A r \in VertexArray : InitialPending(r) =
           [attribute |-> [i \in Index |-> [enabled |-> FALSE, buffer |-> None,
                                            damaged |-> FALSE]],
            damaged |-> FALSE]
  BY Apart DEF InitialPending
<1>5. \A r \in Buffer : InitialPending(r) = [data |-> None, damaged |-> FALSE]
  BY Apart DEF InitialPending
<1>6. \A r \in Program :
         InitialPending(r) = [shaders |-> {}, shouldLink |-> FALSE]
  BY Apart DEF InitialPending
<1>7. \A r \in Shader : InitialPending(r) = [committed |-> FALSE]
  BY Apart DEF InitialPending
<1>8. \A r \in Texture : InitialPending(r) = [data |-> None, mipmap |-> FALSE]
  BY Apart DEF InitialPending
<1>9. \A r \in Sampler : InitialPending(r) = [parameter |-> None]
  BY Apart DEF InitialPending
<1>. QED
  BY <1>1, <1>2, <1>3, <1>4, <1>5, <1>6, <1>7, <1>8, <1>9

(* The rendering state in which the constructor leaves each kind.           *)
LEMMA InitialRenderingIs ==
    /\ \A r \in Object : InitialRendering(r) =
          [committed |-> FALSE, units |-> {}, position |-> None]
    /\ \A r \in Unit : InitialRendering(r) = [technique |-> None]
    /\ \A r \in Technique : InitialRendering(r) =
           [program |-> None, vertexArray |-> None, texture |-> None,
            sampler |-> None, method |-> "none", elements |-> None,
            uniform |-> None]
    /\ \A r \in VertexArray : InitialRendering(r) =
           [exists |-> FALSE,
            attribute |-> [i \in Index |-> [enabled |-> FALSE,
                                            buffer |-> None]]]
    /\ \A r \in Buffer : InitialRendering(r) = [data |-> None]
    /\ \A r \in Program : InitialRendering(r) = [linked |-> {}]
    /\ \A r \in Shader : InitialRendering(r) = [compiled |-> FALSE]
    /\ \A r \in Texture : InitialRendering(r) = [data |-> None, mipmap |-> None]
    /\ \A r \in Sampler :
          InitialRendering(r) = [exists |-> FALSE, parameter |-> None]
<1>1. \A r \in Object : InitialRendering(r) =
          [committed |-> FALSE, units |-> {}, position |-> None]
  BY Apart DEF InitialRendering
<1>2. \A r \in Unit : InitialRendering(r) = [technique |-> None]
  BY Apart DEF InitialRendering
<1>3. \A r \in Technique : InitialRendering(r) =
           [program |-> None, vertexArray |-> None, texture |-> None,
            sampler |-> None, method |-> "none", elements |-> None,
            uniform |-> None]
  BY Apart DEF InitialRendering
<1>4. \A r \in VertexArray : InitialRendering(r) =
           [exists |-> FALSE,
            attribute |-> [i \in Index |-> [enabled |-> FALSE,
                                            buffer |-> None]]]
  BY Apart DEF InitialRendering
<1>5. \A r \in Buffer : InitialRendering(r) = [data |-> None]
  BY Apart DEF InitialRendering
<1>6. \A r \in Program : InitialRendering(r) = [linked |-> {}]
  BY Apart DEF InitialRendering
<1>7. \A r \in Shader : InitialRendering(r) = [compiled |-> FALSE]
  BY Apart DEF InitialRendering
<1>8. \A r \in Texture : InitialRendering(r) = [data |-> None, mipmap |-> None]
  BY Apart DEF InitialRendering
<1>9. \A r \in Sampler :
          InitialRendering(r) = [exists |-> FALSE, parameter |-> None]
  BY Apart DEF InitialRendering
<1>. QED
  BY <1>1, <1>2, <1>3, <1>4, <1>5, <1>6, <1>7, <1>8, <1>9

-----------------------------------------------------------------------------
(* The types of states, pictures and commands *)

Ref(kind) == kind \cup {None}
Data == Content \cup {None}
Method == {"none", "arrays", "elements"}

(* The pending and the rendering state of a resource, and its picture; the  *)
(* references in it are to resources of the set known.                      *)
PendingIs(r, x, known) ==
    /\ r \in Object => x \in [units : SUBSET (Unit \cap known)]
    /\ r \in Unit => x \in [technique : Ref(Technique \cap known)]
    /\ r \in Technique =>
          x \in [program : Ref(Program \cap known), programDamaged : BOOLEAN,
                vertexArray : Ref(VertexArray \cap known),
                vertexArrayDamaged : BOOLEAN,
                texture : Ref(Texture \cap known),
                sampler : Ref(Sampler \cap known), textureDamaged : BOOLEAN,
                method : Method, elements : Ref(Buffer \cap known),
                methodDamaged : BOOLEAN, uniform : Data]
    /\ r \in VertexArray =>
          x \in [attribute : [Index -> [enabled : BOOLEAN,
                                       buffer : Ref(Buffer \cap known),
                                       damaged : BOOLEAN]],
                damaged : BOOLEAN]
    /\ r \in Buffer => /\ x \in [data : Data, damaged : BOOLEAN]
                       /\ x.damaged => x.data # None
    /\ r \in Program => x \in [shaders : SUBSET Ref(Shader \cap known),
                               shouldLink : BOOLEAN]
    /\ r \in Shader => x \in [committed : BOOLEAN]
    /\ r \in Texture => x \in [data : Data, mipmap : BOOLEAN]
    /\ r \in Sampler => x \in [parameter : Data]

RenderingIs(r, x) ==
    /\ r \in Object => x \in [committed : BOOLEAN, units : SUBSET Unit,
                              position : Ref(Position)]
    /\ r \in Unit => x \in [technique : Ref(Technique)]
    /\ r \in Technique =>
          x \in [program : Ref(Program), vertexArray : Ref(VertexArray),
                texture : Ref(Texture), sampler : Ref(Sampler),
                method : Method, elements : Ref(Buffer), uniform : Data]
    /\ r \in VertexArray =>
          x \in [exists : BOOLEAN,
                attribute : [Index -> [enabled : BOOLEAN,
                                       buffer : Ref(Buffer)]]]
    /\ r \in Buffer => x \in [data : Data]
    /\ r \in Program => x \in [linked : SUBSET Ref(Shader)]
    /\ r \in Shader => x \in [compiled : BOOLEAN]
    /\ r \in Texture => x \in [data : Data, mipmap : Data]
    /\ r \in Sampler => x \in [exists : BOOLEAN, parameter : Data]

PictureIs(r, x, known) ==
    /\ r \in Object => x \in [committed : BOOLEAN, units : SUBSET Unit,
                              position : Ref(Position)]
    /\ r \in Unit => x \in [technique : Ref(Technique)]
    /\ r \in Technique =>
          x \in [program : Ref(Program), vertexArray : Ref(VertexArray),
                texture : Ref(Texture \cap known),
                sampler : Ref(Sampler \cap known),
                method : Method, elements : Ref(Buffer),
                uniform : Data, applied : Ref(Program \cap known)]
    /\ r \in VertexArray =>
          x \in [attribute : [Index -> [enabled : BOOLEAN,
                                       buffer : Ref(Buffer \cap known),
                                       bound : BOOLEAN]]]
    /\ r \in Buffer => x \in [data : Data, reached : BOOLEAN]
    /\ r \in Program => x \in [linked : SUBSET Ref(Shader \cap known)]
    /\ r \in Texture => x \in [data : Data, mipmap : Data]
    /\ r \in Sampler => x \in [exists : BOOLEAN, parameter : Data]

PendingOK(p, known) == /\ p = [r \in Resource |-> p[r]]
                       /\ \A r \in Resource : PendingIs(r, p[r], known)

RenderingOK(R) == /\ R = [r \in Resource |-> R[r]]
                  /\ \A r \in Resource : RenderingIs(r, R[r])

PictureOK(P, known) ==
    /\ P = [r \in Resource |-> P[r]]
    /\ \A r \in Resource : PictureIs(r, P[r], known)
    /\ \A t \in Technique :
          P[t].applied # None => P[P[t].applied].linked # {}
    /\ \A r \in Resource \ known : P[r] = NoPicture(r)

(* A command changes some of the fields of one resource. *)
SetOK(r, set, known) ==
    /\ r \in Object => set \in [committed : {TRUE}, units : SUBSET Unit]
                               \cup [position : Position]
    /\ r \in Unit => set \in [technique : Ref(Technique)]
    /\ r \in Technique =>
         set \in [program : Ref(Program)] \cup [vertexArray : Ref(VertexArray)]
                 \cup [texture : Ref(Texture), sampler : Ref(Sampler)]
                 \cup [method : Method, elements : Ref(Buffer)]
                 \cup [uniform : Content]
    /\ r \in VertexArray =>
         set \in [attribute : [Index -> [enabled : BOOLEAN,
                                         buffer : Ref(Buffer),
                                         damaged : BOOLEAN]]]
    /\ r \in Buffer => set \in [data : Content]
    /\ r \in Program => set \in [link : SUBSET Ref(Shader \cap known)]
    /\ r \in Shader => set \in [compiled : BOOLEAN]
    /\ r \in Texture => set \in [data : Data, mipmap : BOOLEAN]
    /\ r \in Sampler => set \in [exists : {TRUE}] \cup [parameter : Content]

(* What may be in the queue: the picture of a commit, the deletion of a     *)
(* resource that is gone, a change of one that was created.                 *)
EntryOK(c, known, live) ==
    \/ c.op = "commit" /\ PictureOK(c.picture, known)
    \/ c.op = "delete" /\ c.to \in known \ live
    \/ c.op = "set" /\ c.to \in known /\ SetOK(c.to, c.set, known)

Graph == pool \subseteq created /\ created \subseteq Resource
           /\ scheduled \subseteq pool \cap Object

Types == /\ PendingOK(pending, created)
         /\ RenderingOK(rendering)
         /\ content \in [Resource -> Data]
         /\ PictureOK(shown, created)
         /\ PictureOK(newest, created)
         /\ IsSequence(queue)
         /\ \A i \in 1..Len(queue) : EntryOK(queue[i], created, pool)

-----------------------------------------------------------------------------
(* What a commit does to the pending states and the queue: commands for live*)
(* resources of the set K are appended, and only K's pending states change. *)

StateOK(s) == /\ s = [pending |-> s.pending, queue |-> s.queue]
              /\ PendingOK(s.pending, created)
              /\ IsSequence(s.queue)

SetCommand(c) == c.op = "set" /\ c.to \in pool /\ SetOK(c.to, c.set, created)

Grown(s, n, K) ==
    /\ StateOK(n)
    /\ Len(s.queue) <= Len(n.queue)
    /\ \A i \in 1..Len(s.queue) : n.queue[i] = s.queue[i]
    /\ \A i \in Len(s.queue) + 1..Len(n.queue) : /\ SetCommand(n.queue[i])
                                               /\ n.queue[i].to \in K
    /\ \A r \in Resource \ (K \cap pool) : n.pending[r] = s.pending[r]

Just(r) == {r}

(* A commit that does nothing has grown nothing.                            *)
LEMMA GrownSelf ==
    ASSUME NEW s, StateOK(s), NEW K
    PROVE  Grown(s, s, K)
<1>1. Len(s.queue) \in Nat
  BY SequenceFacts DEF StateOK
<1>. QED
  BY <1>1 DEF Grown

(* Two steps of a commit, one after the other, are a step of it.            *)
LEMMA GrownTwice ==
    ASSUME NEW s, NEW m, NEW n, NEW K, StateOK(s),
           Grown(s, m, K), Grown(m, n, K)
    PROVE  Grown(s, n, K)
<1>1. Len(s.queue) \in Nat /\ Len(m.queue) \in Nat /\ Len(n.queue) \in Nat
  BY SequenceFacts DEF StateOK, Grown
<1>2. /\ Len(s.queue) <= Len(n.queue)
      /\ \A i \in 1..Len(s.queue) : n.queue[i] = s.queue[i]
  BY <1>1 DEF Grown
<1>3. ASSUME NEW i \in Len(s.queue) + 1..Len(n.queue)
      PROVE  SetCommand(n.queue[i]) /\ n.queue[i].to \in K
  <2>1. CASE i <= Len(m.queue)
    <3>1. i \in Len(s.queue) + 1..Len(m.queue) /\ i \in 1..Len(m.queue)
      BY <1>1, <2>1
    <3>. QED
      BY <3>1, Zenon DEF Grown
  <2>2. CASE ~(i <= Len(m.queue))
    <3>1. i \in Len(m.queue) + 1..Len(n.queue)
      BY <1>1, <2>2
    <3>. QED
      BY <3>1, Zenon DEF Grown
  <2>. QED
    BY <2>1, <2>2
<1>4. \A r \in Resource \ (K \cap pool) : n.pending[r] = s.pending[r]
  BY DEF Grown
<1>. QED
  BY <1>2, <1>3, <1>4 DEF Grown

(* A step that is confined to some resources is confined to more.           *)
LEMMA GrownMore ==
    ASSUME NEW s, NEW n, NEW K, NEW J, Grown(s, n, K), K \subseteq J
    PROVE  Grown(s, n, J)
BY DEF Grown

Command(r, set) == [op |-> "set", to |-> r, set |-> set]

(* One command *)
LEMMA PushGrown ==
    ASSUME NEW s, StateOK(s), NEW r \in pool, NEW set, SetOK(r, set, created)
    PROVE  /\ Grown(s, Push(s, r, set), Just(r)) /\ StateOK(Push(s, r, set))
           /\ Push(s, r, set).pending = s.pending
           /\ Push(s, r, set).queue = Append(s.queue, Command(r, set))
<1>. DEFINE c == Command(r, set)
            n == Push(s, r, set)
<1>1. n = [pending |-> s.pending, queue |-> Append(s.queue, c)]
  <2>1. n = [s EXCEPT !.queue = Append(s.queue, c)]
    BY DEF Push, Command
  <2>2. s = [pending |-> s.pending, queue |-> s.queue]
    BY DEF StateOK
  <2>. HIDE DEF c, n
  <2>. QED
    BY <2>1, <2>2
<1>2. /\ IsSequence(Append(s.queue, c))
      /\ Len(s.queue) \in Nat
      /\ Len(Append(s.queue, c)) = Len(s.queue) + 1
      /\ \A i \in 1..Len(s.queue) : Append(s.queue, c)[i] = s.queue[i]
      /\ Append(s.queue, c)[Len(s.queue) + 1] = c
  BY AppendFacts, SequenceFacts DEF StateOK
<1>3. SetCommand(c) /\ c.to = r
  BY DEF SetCommand, Command
<1>4. n.pending = s.pending /\ n.queue = Append(s.queue, c)
  BY <1>1
<1>. HIDE DEF c, n
<1>5. StateOK(n)
  BY <1>1, <1>2, <1>4 DEF StateOK
<1>6. \A i \in Len(s.queue) + 1..Len(n.queue) : n.queue[i] = c
  BY <1>2, <1>4
<1>. QED
  BY <1>2, <1>3, <1>4, <1>5, <1>6 DEF Grown, Just, n, c

(* A new pending state *)
LEMMA PendingGrown ==
    ASSUME NEW s, StateOK(s), NEW r \in pool, r \in Resource, NEW x,
           PendingIs(r, x, created)
    PROVE  LET n == [s EXCEPT !.pending[r] = x]
           IN  /\ Grown(s, n, Just(r))
               /\ n.pending = [s.pending EXCEPT ![r] = x]
               /\ n.pending[r] = x
               /\ n.queue = s.queue
<1>. DEFINE p == [s.pending EXCEPT ![r] = x]
            n == [s EXCEPT !.pending[r] = x]
<1>1. n = [pending |-> p, queue |-> s.queue]
  BY DEF StateOK
<1>2. n.pending = p /\ n.queue = s.queue
  BY <1>1
<1>3. Len(s.queue) \in Nat
  BY SequenceFacts DEF StateOK
<1>4. /\ p = [y \in Resource |-> p[y]]
      /\ \A y \in Resource : p[y] = IF y = r THEN x ELSE s.pending[y]
  BY DEF StateOK, PendingOK
<1>. HIDE DEF p, n
<1>5. PendingOK(p, created)
  BY <1>4 DEF StateOK, PendingOK
<1>6. StateOK(n)
  BY <1>1, <1>2, <1>5 DEF StateOK
<1>. QED
  BY <1>2, <1>3, <1>4, <1>6 DEF Grown, Just, p, n

-----------------------------------------------------------------------------
(* What the queue makes of the rendering state.                             *)
(*                                                                         *)
(* Match(q, e, R, L, P, r): once the entries of q before the e-th are       *)
(* executed, starting from the rendering state R, the rendering state of r  *)
(* is the one the picture P says; L are the resources alive.  It is stated  *)
(* by the last command that sets a field, so that it says something of the  *)
(* queue as it is, and not of the states in between.                        *)

Sets(c, r, f) == /\ c.op = "set" /\ c.to = r /\ f \in DOMAIN c.set
                 /\ r \in Texture => c.set.data # None

LastIs(q, e, r, f, old, val) ==
    /\ \A j \in 1..(e - 1) :
          /\ Sets(q[j], r, f)
          /\ \A k \in (j + 1)..(e - 1) : ~Sets(q[k], r, f)
          => q[j].set[f] = val
    /\ (\A j \in 1..(e - 1) : ~Sets(q[j], r, f)) => old = val

Shows(q, e, R, P, r, fields) ==
    \A f \in fields : LastIs(q, e, r, f, R[r][f], P[r][f])

MipmapSet(c, x) == c.op = "set" /\ c.to = x /\ c.set.mipmap

(* The mipmap is of the data the texture has when the command is executed.  *)
MipmapShows(q, e, R, P, x) ==
    /\ \A j \in 1..(e - 1) :
          /\ MipmapSet(q[j], x)
          /\ \A k \in (j + 1)..(e - 1) : ~MipmapSet(q[k], x)
          => LastIs(q, j + 1, x, "data", R[x].data, P[x].mipmap)
    /\ (\A j \in 1..(e - 1) : ~MipmapSet(q[j], x)) => R[x].mipmap = P[x].mipmap

LinkSet(c, p) == c.op = "set" /\ c.to = p

Links(c, p, L) == LinkSet(c, p) /\ c.set.link # {} /\ c.set.link \subseteq L

(* The first command whose shaders are alive links the program.             *)
LinkShows(q, e, R, L, P, p) ==
    P[p].linked \subseteq L =>
       IF P[p].linked = {}
         THEN R[p].linked = {} /\ \A j \in 1..(e - 1) : ~Links(q[j], p, L)
         ELSE \/ R[p].linked = P[p].linked
              \/ /\ R[p].linked = {}
                 /\ \E j \in 1..(e - 1) :
                       /\ LinkSet(q[j], p) /\ q[j].set.link = P[p].linked
                       /\ \A k \in 1..(j - 1) : ~Links(q[k], p, L)

AttributeSet(c, v, i) ==
    c.op = "set" /\ c.to = v /\ c.set.attribute[i].damaged

(* The buffer has a GL object when the j-th entry is executed.              *)
DataAt(q, j, R, b) == \/ R[b].data # None
                      \/ \E k \in 1..(j - 1) : q[k].op = "set" /\ q[k].to = b

AttributeShows(q, e, R, L, P, v, i) ==
    LET at == P[v].attribute[i]
        pointed == at.bound /\ at.buffer \in L
    IN  /\ \A j \in 1..(e - 1) :
             /\ AttributeSet(q[j], v, i)
             /\ \A k \in (j + 1)..(e - 1) : ~AttributeSet(q[k], v, i)
             => /\ q[j].set.attribute[i].enabled = at.enabled
                /\ pointed => /\ q[j].set.attribute[i].buffer = at.buffer
                              /\ DataAt(q, j, R, at.buffer)
        /\ (\A j \in 1..(e - 1) : ~AttributeSet(q[j], v, i)) =>
             /\ R[v].attribute[i].enabled = at.enabled
             /\ pointed => R[v].attribute[i].buffer = at.buffer

(* The program is linked when the j-th entry is executed.                   *)
LinkedAt(q, j, R, P, p) ==
    \/ R[p].linked # {}
    \/ \E k \in 1..(j - 1) : LinkSet(q[k], p) /\ q[k].set.link = P[p].linked

UniformShows(q, e, R, L, P, t) ==
    LET p == P[t].applied
    IN  p \in L /\ P[p].linked \subseteq L =>
          /\ \A j \in 1..(e - 1) :
                /\ Sets(q[j], t, "uniform")
                /\ \A k \in (j + 1)..(e - 1) : ~Sets(q[k], t, "uniform")
                => /\ q[j].set.uniform = P[t].uniform
                   /\ LastIs(q, j, t, "program", R[t].program, p)
                   /\ LinkedAt(q, j, R, P, p)
          /\ (\A j \in 1..(e - 1) : ~Sets(q[j], t, "uniform")) =>
                R[t].uniform = P[t].uniform

Match(q, e, R, L, P, r) ==
    /\ r \in Object =>
          Shows(q, e, R, P, r, {"committed", "units", "position"})
    /\ r \in Unit => Shows(q, e, R, P, r, {"technique"})
    /\ r \in Technique =>
         /\ Shows(q, e, R, P, r,
                  {"program", "vertexArray", "method", "elements"})
         /\ {P[r].texture, P[r].sampler} \subseteq L =>
               Shows(q, e, R, P, r, {"texture", "sampler"})
         /\ UniformShows(q, e, R, L, P, r)
    /\ r \in VertexArray => \A i \in Index : AttributeShows(q, e, R, L, P, r, i)
    /\ r \in Buffer => (P[r].reached => Shows(q, e, R, P, r, {"data"}))
    /\ r \in Program => LinkShows(q, e, R, L, P, r)
    /\ r \in Texture => Shows(q, e, R, P, r, {"data"})
                          /\ MipmapShows(q, e, R, P, r)
    /\ r \in Sampler => Shows(q, e, R, P, r, {"exists", "parameter"})

(* More entries, none of which sets the field in question                   *)
Extends(q, e, n, d) == /\ e \in Nat /\ d \in Nat /\ 1 <= e /\ e <= d
                       /\ \A i \in 1..(e - 1) : n[i] = q[i]

(* The last command that sets a field stays the last when the new entries   *)
(* do not set it.                                                           *)
LEMMA LastIsKept ==
    ASSUME NEW q, NEW e, NEW n, NEW d, Extends(q, e, n, d),
           NEW r, NEW f, NEW old, NEW val, LastIs(q, e, r, f, old, val),
           \A i \in e..(d - 1) : ~Sets(n[i], r, f)
    PROVE  LastIs(n, d, r, f, old, val)
<1>1. e \in Nat /\ d \in Nat /\ 1 <= e /\ e <= d
  BY DEF Extends
<1>2. \A i \in 1..(e - 1) : n[i] = q[i]
  BY DEF Extends
<1>3. ASSUME NEW j \in 1..(d - 1), Sets(n[j], r, f),
             \A k \in (j + 1)..(d - 1) : ~Sets(n[k], r, f)
      PROVE  n[j].set[f] = val
  <2>1. j \in 1..(e - 1)
    BY <1>1, <1>3
  <2>2. \A k \in (j + 1)..(e - 1) : ~Sets(q[k], r, f)
    <3>1. \A k \in (j + 1)..(e - 1) : /\ k \in (j + 1)..(d - 1)
                                      /\ k \in 1..(e - 1)
      BY <1>1, <2>1
    <3>. QED
      BY <1>2, <1>3, <3>1, Zenon
  <2>3. Sets(q[j], r, f)
    BY <1>2, <1>3, <2>1, Zenon
  <2>4. q[j].set[f] = val
    BY <2>1, <2>2, <2>3, Zenon DEF LastIs
  <2>. QED
    BY <1>2, <2>1, <2>4
<1>4. ASSUME \A j \in 1..(d - 1) : ~Sets(n[j], r, f) PROVE old = val
  <2>1. \A j \in 1..(e - 1) : j \in 1..(d - 1)
    BY <1>1
  <2>2. \A j \in 1..(e - 1) : ~Sets(q[j], r, f)
    BY <1>2, <1>4, <2>1, Zenon
  <2>. QED
    BY <2>2, Zenon DEF LastIs
<1>. QED
  BY <1>3, <1>4, Zenon DEF LastIs

(* A command that sets a field, with none after it, is the last one.        *)
LEMMA LastIsNew ==
    ASSUME NEW q, NEW e \in Nat, NEW j \in 1..(e - 1),
           NEW r, NEW f, NEW old, NEW val, Sets(q[j], r, f), q[j].set[f] = val,
           \A i \in (j + 1)..(e - 1) : ~Sets(q[i], r, f)
    PROVE  LastIs(q, e, r, f, old, val)
<1>1. ASSUME NEW k \in 1..(e - 1), Sets(q[k], r, f),
             \A i \in (k + 1)..(e - 1) : ~Sets(q[i], r, f)
      PROVE  k = j
  <2>1. ~(k \in (j + 1)..(e - 1)) /\ ~(j \in (k + 1)..(e - 1))
    BY <1>1
  <2>. QED
    BY <2>1
<1>. QED
  BY <1>1, Zenon DEF LastIs

(* A buffer that will have data still will when the queue is longer.        *)
LEMMA DataAtKept ==
    ASSUME NEW q, NEW e, NEW n, NEW d, Extends(q, e, n, d), NEW R, NEW b,
           DataAt(q, e, R, b)
    PROVE  DataAt(n, d, R, b)
<1>1. \A k \in 1..(e - 1) : k \in 1..(d - 1) /\ n[k] = q[k]
  BY DEF Extends
<1>. QED
  BY <1>1, Zenon DEF DataAt

(* A program that will be linked still will when the queue is longer.       *)
LEMMA LinkedAtKept ==
    ASSUME NEW q, NEW e, NEW n, NEW d, Extends(q, e, n, d), NEW R, NEW p,
           NEW P, NEW V, V[p].linked = P[p].linked, LinkedAt(q, e, R, P, p)
    PROVE  LinkedAt(n, d, R, V, p)
<1>1. \A k \in 1..(e - 1) : k \in 1..(d - 1) /\ n[k] = q[k]
  BY DEF Extends
<1>. QED
  BY <1>1, Zenon DEF LinkedAt

(* A mipmap that is made is unchanged by commands without a mipmap.         *)
LEMMA MipmapKept ==
    ASSUME NEW q, NEW e, NEW n, NEW d, Extends(q, e, n, d),
           NEW R, NEW P, NEW V, NEW x, V[x].mipmap = P[x].mipmap,
           MipmapShows(q, e, R, P, x),
           \A i \in e..(d - 1) : ~MipmapSet(n[i], x)
    PROVE  MipmapShows(n, d, R, V, x)
<1>1. e \in Nat /\ d \in Nat /\ 1 <= e /\ e <= d
  BY DEF Extends
<1>2. \A i \in 1..(e - 1) : n[i] = q[i]
  BY DEF Extends
<1>3. ASSUME NEW j \in 1..(d - 1), MipmapSet(n[j], x),
             \A k \in (j + 1)..(d - 1) : ~MipmapSet(n[k], x)
      PROVE  LastIs(n, j + 1, x, "data", R[x].data, V[x].mipmap)
  <2>1. j \in 1..(e - 1)
    BY <1>1, <1>3
  <2>2. \A k \in (j + 1)..(e - 1) : ~MipmapSet(q[k], x)
    <3>1. \A k \in (j + 1)..(e - 1) : /\ k \in (j + 1)..(d - 1)
                                      /\ k \in 1..(e - 1)
      BY <1>1, <2>1
    <3>. QED
      BY <1>2, <1>3, <3>1, Zenon
  <2>3. MipmapSet(q[j], x)
    BY <1>2, <1>3, <2>1, Zenon
  <2>4. LastIs(q, j + 1, x, "data", R[x].data, V[x].mipmap)
    BY <2>1, <2>2, <2>3, Zenon DEF MipmapShows
  <2>5. Extends(q, j + 1, n, j + 1)
    BY <1>1, <1>2, <2>1 DEF Extends
  <2>6. \A i \in (j + 1)..((j + 1) - 1) : ~Sets(n[i], x, "data")
    BY <2>1
  <2>. QED
    BY <2>4, <2>5, <2>6, LastIsKept
<1>4. ASSUME \A j \in 1..(d - 1) : ~MipmapSet(n[j], x)
      PROVE  R[x].mipmap = V[x].mipmap
  <2>1. \A j \in 1..(e - 1) : j \in 1..(d - 1)
    BY <1>1
  <2>2. \A j \in 1..(e - 1) : ~MipmapSet(q[j], x)
    BY <1>2, <1>4, <2>1, Zenon
  <2>. QED
    BY <2>2, Zenon DEF MipmapShows
<1>. QED
  BY <1>3, <1>4, Zenon DEF MipmapShows

(* What a program is linked from is unchanged by commands that do not link  *)
(* it.                                                                      *)
LEMMA LinkKept ==
    ASSUME NEW q, NEW e, NEW n, NEW d, Extends(q, e, n, d),
           NEW R, NEW L, NEW P, NEW V, NEW p, V[p].linked = P[p].linked,
           LinkShows(q, e, R, L, P, p),
           P[p].linked = {} => \A i \in e..(d - 1) : ~Links(n[i], p, L)
    PROVE  LinkShows(n, d, R, L, V, p)
<1>1. \A i \in 1..(e - 1) : i \in 1..(d - 1) /\ n[i] = q[i]
  BY DEF Extends
<1>2. \A i \in 1..(d - 1) : i \in 1..(e - 1) \/ i \in e..(d - 1)
  BY DEF Extends
<1>3. \A j \in 1..(e - 1) : \A k \in 1..(j - 1) : k \in 1..(e - 1)
  BY DEF Extends
<1>4. CASE P[p].linked = {}
  <2>1. ASSUME NEW i \in 1..(d - 1),
               \A j \in 1..(e - 1) : ~Links(q[j], p, L)
        PROVE  ~Links(n[i], p, L)
    BY <1>1, <1>2, <1>4, <2>1, Zenon
  <2>. QED
    BY <1>4, <2>1, Zenon DEF LinkShows
<1>5. CASE P[p].linked # {}
  <2>1. ASSUME NEW j \in 1..(e - 1), LinkSet(q[j], p),
               q[j].set.link = P[p].linked,
               \A k \in 1..(j - 1) : ~Links(q[k], p, L)
        PROVE  /\ j \in 1..(d - 1) /\ LinkSet(n[j], p)
               /\ n[j].set.link = P[p].linked
               /\ \A k \in 1..(j - 1) : ~Links(n[k], p, L)
    BY <1>1, <1>3, <2>1, Zenon
  <2>. QED
    BY <1>5, <2>1, Zenon DEF LinkShows
<1>. QED
  BY <1>4, <1>5

(* An attribute is unchanged by commands that do not damage it.             *)
LEMMA AttributeKept ==
    ASSUME NEW q, NEW e, NEW n, NEW d, Extends(q, e, n, d),
           NEW R, NEW L, NEW P, NEW V, NEW v, NEW i,
           V[v].attribute[i] = P[v].attribute[i],
           AttributeShows(q, e, R, L, P, v, i),
           \A k \in e..(d - 1) : ~AttributeSet(n[k], v, i)
    PROVE  AttributeShows(n, d, R, L, V, v, i)
<1>. DEFINE at == P[v].attribute[i]
            pointed == at.bound /\ at.buffer \in L
<1>1. e \in Nat /\ d \in Nat /\ 1 <= e /\ e <= d
  BY DEF Extends
<1>2. \A k \in 1..(e - 1) : k \in 1..(d - 1) /\ n[k] = q[k]
  BY DEF Extends
<1>3. ASSUME NEW j \in 1..(d - 1), AttributeSet(n[j], v, i),
             \A k \in (j + 1)..(d - 1) : ~AttributeSet(n[k], v, i)
      PROVE  /\ n[j].set.attribute[i].enabled = at.enabled
             /\ pointed => /\ n[j].set.attribute[i].buffer = at.buffer
                           /\ DataAt(n, j, R, at.buffer)
  <2>1. j \in 1..(e - 1)
    BY <1>1, <1>3
  <2>2. \A k \in (j + 1)..(e - 1) : ~AttributeSet(q[k], v, i)
    <3>1. \A k \in (j + 1)..(e - 1) : /\ k \in (j + 1)..(d - 1)
                                      /\ k \in 1..(e - 1)
      BY <1>1, <2>1
    <3>. QED
      BY <1>2, <1>3, <3>1, Zenon
  <2>3. AttributeSet(q[j], v, i) /\ n[j] = q[j]
    BY <1>2, <1>3, <2>1, Zenon
  <2>4. /\ q[j].set.attribute[i].enabled = at.enabled
        /\ pointed => /\ q[j].set.attribute[i].buffer = at.buffer
                      /\ DataAt(q, j, R, at.buffer)
    BY <2>1, <2>2, <2>3, Zenon DEF AttributeShows
  <2>5. Extends(q, j, n, j)
    BY <1>1, <1>2, <2>1 DEF Extends
  <2>6. DataAt(q, j, R, at.buffer) => DataAt(n, j, R, at.buffer)
    BY <2>5, DataAtKept
  <2>. QED
    BY <2>3, <2>4, <2>6
<1>4. ASSUME \A j \in 1..(d - 1) : ~AttributeSet(n[j], v, i)
      PROVE  /\ R[v].attribute[i].enabled = at.enabled
             /\ pointed => R[v].attribute[i].buffer = at.buffer
  <2>1. \A j \in 1..(e - 1) : ~AttributeSet(q[j], v, i)
    BY <1>2, <1>4, Zenon
  <2>. QED
    BY <2>1, Zenon DEF AttributeShows
<1>. QED
  BY <1>3, <1>4, Zenon DEF AttributeShows

(* A uniform is unchanged by commands that do not set it, while the program *)
(* it was applied to stays linked from the same shaders.                    *)
LEMMA UniformKept ==
    ASSUME NEW q, NEW e, NEW n, NEW d, Extends(q, e, n, d),
           NEW R, NEW L, NEW P, NEW V, NEW t,
           V[t].uniform = P[t].uniform, V[t].applied = P[t].applied,
           V[t].applied \in L =>
              V[P[t].applied].linked = P[P[t].applied].linked,
           UniformShows(q, e, R, L, P, t),
           \A i \in e..(d - 1) : ~Sets(n[i], t, "uniform")
    PROVE  UniformShows(n, d, R, L, V, t)
<1>. DEFINE p == P[t].applied
<1>. SUFFICES ASSUME p \in L, P[p].linked \subseteq L
     PROVE /\ \A j \in 1..(d - 1) :
                /\ Sets(n[j], t, "uniform")
                /\ \A k \in (j + 1)..(d - 1) : ~Sets(n[k], t, "uniform")
                => /\ n[j].set.uniform = P[t].uniform
                   /\ LastIs(n, j, t, "program", R[t].program, p)
                   /\ LinkedAt(n, j, R, V, p)
           /\ (\A j \in 1..(d - 1) : ~Sets(n[j], t, "uniform")) =>
                R[t].uniform = P[t].uniform
  BY Zenon DEF UniformShows
<1>1. e \in Nat /\ d \in Nat /\ 1 <= e /\ e <= d
  BY DEF Extends
<1>2. \A k \in 1..(e - 1) : k \in 1..(d - 1) /\ n[k] = q[k]
  BY DEF Extends
<1>3. ASSUME NEW j \in 1..(d - 1), Sets(n[j], t, "uniform"),
             \A k \in (j + 1)..(d - 1) : ~Sets(n[k], t, "uniform")
      PROVE  /\ n[j].set.uniform = P[t].uniform
             /\ LastIs(n, j, t, "program", R[t].program, p)
             /\ LinkedAt(n, j, R, V, p)
  <2>1. j \in 1..(e - 1)
    BY <1>1, <1>3
  <2>2. \A k \in (j + 1)..(e - 1) : ~Sets(q[k], t, "uniform")
    <3>1. \A k \in (j + 1)..(e - 1) : /\ k \in (j + 1)..(d - 1)
                                      /\ k \in 1..(e - 1)
      BY <1>1, <2>1
    <3>. QED
      BY <1>2, <1>3, <3>1, Zenon
  <2>3. Sets(q[j], t, "uniform") /\ n[j] = q[j]
    BY <1>2, <1>3, <2>1, Zenon
  <2>4. /\ q[j].set.uniform = P[t].uniform
        /\ LastIs(q, j, t, "program", R[t].program, p)
        /\ LinkedAt(q, j, R, P, p)
    BY <2>1, <2>2, <2>3, Zenon DEF UniformShows
  <2>5. Extends(q, j, n, j)
    BY <1>1, <1>2, <2>1 DEF Extends
  <2>6. \A i \in j..(j - 1) : ~Sets(n[i], t, "program")
    BY <2>1
  <2>7. LastIs(n, j, t, "program", R[t].program, p)
    BY <2>4, <2>5, <2>6, LastIsKept
  <2>8. LinkedAt(n, j, R, V, p)
    BY <2>4, <2>5, LinkedAtKept, Zenon
  <2>. QED
    BY <2>3, <2>4, <2>7, <2>8, Zenon
<1>4. ASSUME \A j \in 1..(d - 1) : ~Sets(n[j], t, "uniform")
      PROVE  R[t].uniform = P[t].uniform
  <2>1. \A j \in 1..(e - 1) : ~Sets(q[j], t, "uniform")
    BY <1>2, <1>4, Zenon
  <2>. QED
    BY <2>1, Zenon DEF UniformShows
<1>. QED
  BY <1>3, <1>4, Zenon

(* Fields are unchanged by commands that do not set them.                   *)
LEMMA ShowsKept ==
    ASSUME NEW q, NEW e, NEW n, NEW d, Extends(q, e, n, d),
           NEW R, NEW P, NEW V, NEW r, NEW fields,
           \A f \in fields : V[r][f] = P[r][f],
           Shows(q, e, R, P, r, fields),
           \A i \in e..(d - 1), f \in fields : ~Sets(n[i], r, f)
    PROVE  Shows(n, d, R, V, r, fields)
<1>1. ASSUME NEW f \in fields PROVE LastIs(n, d, r, f, R[r][f], V[r][f])
  <2>1. LastIs(q, e, r, f, R[r][f], V[r][f])
    BY Zenon DEF Shows
  <2>2. \A i \in e..(d - 1) : ~Sets(n[i], r, f)
    OBVIOUS
  <2>. QED
    BY <2>1, <2>2, LastIsKept
<1>. QED
  BY <1>1, Zenon DEF Shows

(* The pictures P and V ask the same of r.                                  *)
Same(P, V, L, r) ==
    /\ V[r] = P[r]
    /\ r \in Technique /\ P[r].applied \in L =>
          V[P[r].applied].linked = P[P[r].applied].linked

(* What the queue makes of a resource is unchanged by commands for other    *)
(* resources.                                                               *)
LEMMA MatchKept ==
    ASSUME NEW q, NEW e, NEW n, NEW d, Extends(q, e, n, d),
           NEW R, NEW L, NEW P, NEW V, NEW r, Same(P, V, L, r),
           Match(q, e, R, L, P, r),
           \A i \in e..(d - 1) : ~(n[i].op = "set" /\ n[i].to = r)
    PROVE  Match(n, d, R, L, V, r)
<1>1. V[r] = P[r]
  BY DEF Same
<1>2. ASSUME NEW i \in e..(d - 1)
      PROVE  /\ \A f : ~Sets(n[i], r, f)
             /\ ~MipmapSet(n[i], r)
             /\ ~Links(n[i], r, L)
             /\ \A k : ~AttributeSet(n[i], r, k)
  BY DEF Sets, MipmapSet, Links, LinkSet, AttributeSet
<1>3. ASSUME NEW fields, Shows(q, e, R, P, r, fields)
      PROVE  Shows(n, d, R, V, r, fields)
  BY <1>1, <1>2, <1>3, ShowsKept
<1>4. r \in Technique => UniformShows(n, d, R, L, V, r)
  <2>. SUFFICES ASSUME r \in Technique PROVE UniformShows(n, d, R, L, V, r)
    OBVIOUS
  <2>1. UniformShows(q, e, R, L, P, r)
    BY Zenon DEF Match
  <2>2. V[r].applied \in L => V[P[r].applied].linked = P[P[r].applied].linked
    BY <1>1 DEF Same
  <2>. QED
    BY <1>1, <1>2, <2>1, <2>2, UniformKept
<1>5. r \in VertexArray => \A i \in Index : AttributeShows(n, d, R, L, V, r, i)
  <2>. SUFFICES ASSUME r \in VertexArray, NEW i \in Index
                PROVE  AttributeShows(n, d, R, L, V, r, i)
    OBVIOUS
  <2>1. AttributeShows(q, e, R, L, P, r, i)
    BY Zenon DEF Match
  <2>. QED
    BY <1>1, <1>2, <2>1, AttributeKept
<1>6. r \in Program => LinkShows(n, d, R, L, V, r)
  <2>. SUFFICES ASSUME r \in Program PROVE LinkShows(n, d, R, L, V, r)
    OBVIOUS
  <2>1. LinkShows(q, e, R, L, P, r)
    BY Zenon DEF Match
  <2>. QED
    BY <1>1, <1>2, <2>1, LinkKept
<1>7. r \in Texture => MipmapShows(n, d, R, V, r)
  <2>. SUFFICES ASSUME r \in Texture PROVE MipmapShows(n, d, R, V, r)
    OBVIOUS
  <2>1. MipmapShows(q, e, R, P, r)
    BY Zenon DEF Match
  <2>. QED
    BY <1>1, <1>2, <2>1, MipmapKept
<1>. QED
  BY <1>1, <1>3, <1>4, <1>5, <1>6, <1>7, Zenon DEF Match

-----------------------------------------------------------------------------
(* The pending states, when nothing is marked as changed, are what the last *)
(* commit ordered; what was uploaded since waits for the next one.          *)
Coherent(p, P, C) ==
    /\ \A t \in Technique :
          /\ ~p[t].programDamaged => p[t].program = P[t].program
          /\ ~p[t].vertexArrayDamaged => p[t].vertexArray = P[t].vertexArray
          /\ ~p[t].methodDamaged => /\ p[t].method = P[t].method
                                    /\ p[t].elements = P[t].elements
          /\ ~p[t].textureDamaged => /\ p[t].texture = P[t].texture
                                     /\ p[t].sampler = P[t].sampler
          /\ IF p[t].uniform = None THEN C[t] = P[t].uniform
                                    ELSE p[t].uniform = C[t]
    /\ \A v \in VertexArray, i \in Index :
          IF p[v].attribute[i].damaged THEN p[v].damaged
          ELSE /\ p[v].attribute[i].enabled = P[v].attribute[i].enabled
               /\ p[v].attribute[i].buffer = P[v].attribute[i].buffer
    /\ \A b \in Buffer : IF p[b].damaged THEN p[b].data = C[b]
                         ELSE C[b] = P[b].data /\ P[b].reached
    /\ \A x \in Texture : IF p[x].data = None THEN C[x] = P[x].data
                          ELSE p[x].data = C[x]
    /\ \A m \in Sampler : IF p[m].parameter = None THEN C[m] = P[m].parameter
                          ELSE p[m].parameter = C[m]

(* The picture that a commit aims at, kind by kind.                         *)
LEMMA PictureOfIs ==
    ASSUME NEW reached
    PROVE  /\ \A r \in Object : PictureOf(r, reached) =
                [newest[r] EXCEPT !.committed = TRUE,
                                  !.units = Live(pending[r].units)]
           /\ \A r \in Unit :
                PictureOf(r, reached) = [technique |-> pending[r].technique]
           /\ \A r \in Technique : PictureOf(r, reached) =
                [program |-> pending[r].program,
                 vertexArray |-> pending[r].vertexArray,
                 texture |-> pending[r].texture,
                 sampler |-> pending[r].sampler,
                 method |-> pending[r].method,
                 elements |-> pending[r].elements,
                 uniform |-> content[r],
                 applied |-> IF pending[r].uniform = None
                               THEN newest[r].applied
                             ELSE IF LinkedBy(pending[r].program)
                               THEN pending[r].program
                             ELSE None]
           /\ \A r \in VertexArray : PictureOf(r, reached) =
                [attribute |-> [i \in Index |->
                   [enabled |-> pending[r].attribute[i].enabled,
                    buffer |-> pending[r].attribute[i].buffer,
                    bound |-> IF pending[r].attribute[i].damaged
                                THEN HasContent(pending[r].attribute[i].buffer)
                                ELSE newest[r].attribute[i].bound]]]
           /\ \A r \in Buffer : PictureOf(r, reached) =
                [data |-> content[r],
                 reached |-> \/ r \in reached
                             \/ newest[r].reached /\ ~pending[r].damaged]
           /\ \A r \in Program : PictureOf(r, reached) = [linked |-> Linked(r)]
           /\ \A r \in Texture : PictureOf(r, reached) =
                [data |-> content[r],
                 mipmap |-> IF pending[r].mipmap THEN content[r]
                                                 ELSE newest[r].mipmap]
           /\ \A r \in Sampler : PictureOf(r, reached) =
                [exists |-> TRUE, parameter |-> content[r]]
<1>1. \A r \in Object : PictureOf(r, reached) =
                [newest[r] EXCEPT !.committed = TRUE,
                                  !.units = Live(pending[r].units)]
  BY Apart DEF PictureOf
<1>2. \A r \in Unit :
         PictureOf(r, reached) = [technique |-> pending[r].technique]
  BY Apart DEF PictureOf
<1>3. \A r \in Technique : PictureOf(r, reached) =
                [program |-> pending[r].program,
                 vertexArray |-> pending[r].vertexArray,
                 texture |-> pending[r].texture,
                 sampler |-> pending[r].sampler,
                 method |-> pending[r].method,
                 elements |-> pending[r].elements,
                 uniform |-> content[r],
                 applied |-> IF pending[r].uniform = None
                               THEN newest[r].applied
                             ELSE IF LinkedBy(pending[r].program)
                               THEN pending[r].program
                             ELSE None]
  BY Apart DEF PictureOf
<1>4. \A r \in VertexArray : PictureOf(r, reached) =
                [attribute |-> [i \in Index |->
                   [enabled |-> pending[r].attribute[i].enabled,
                    buffer |-> pending[r].attribute[i].buffer,
                    bound |-> IF pending[r].attribute[i].damaged
                                THEN HasContent(pending[r].attribute[i].buffer)
                                ELSE newest[r].attribute[i].bound]]]
  BY Apart DEF PictureOf
<1>5. \A r \in Buffer : PictureOf(r, reached) =
                [data |-> content[r],
                 reached |-> \/ r \in reached
                             \/ newest[r].reached /\ ~pending[r].damaged]
  BY Apart DEF PictureOf
<1>6. \A r \in Program : PictureOf(r, reached) = [linked |-> Linked(r)]
  BY Apart DEF PictureOf
<1>7. \A r \in Texture : PictureOf(r, reached) =
                [data |-> content[r],
                 mipmap |-> IF pending[r].mipmap THEN content[r]
                                                 ELSE newest[r].mipmap]
  BY Apart DEF PictureOf
<1>8. \A r \in Sampler : PictureOf(r, reached) =
                [exists |-> TRUE, parameter |-> content[r]]
  BY Apart DEF PictureOf
<1>. QED
  BY <1>1, <1>2, <1>3, <1>4, <1>5, <1>6, <1>7, <1>8, Zenon

(* The part of the graph that is committed with an object, B: what a member *)
(* has committed is a member.                                               *)
Closed(B) ==
    /\ B.all \subseteq pool
    /\ B.buffers \cap pool \subseteq B.all
    /\ \A u \in Unit \cap B.all : Live({pending[u].technique}) \subseteq B.all
    /\ \A t \in Technique \cap B.all :
          /\ Live({pending[t].program, pending[t].vertexArray,
                   pending[t].texture, pending[t].sampler}) \subseteq B.all
          /\ pending[t].method = "elements" =>
                Live({pending[t].elements}) \subseteq B.buffers
    /\ \A v \in VertexArray \cap B.all : pending[v].damaged =>
          Live({pending[v].attribute[i].buffer : i \in Index}) \subseteq B.buffers

(* The state in which a commit begins, and the picture T that is its aim    *)
Ready(T, B) ==
    /\ Graph /\ Types /\ Coherent(pending, newest, content)
    /\ Closed(B)
    /\ \A x \in Resource : T[x] = IF x \in B.all THEN PictureOf(x, B.buffers)
                                                 ELSE newest[x]

(* A resource that the commit has not reached, and one that it has          *)
Now(q, V, x) == Match(q, Len(q) + 1, rendering, pool, V, x)

Fresh(s, x) == s.pending[x] = pending[x] /\ Now(s.queue, newest, x)

Clean(p, x) ==
    /\ x \in Unit => p = pending[x]
    /\ x \in Technique => p =
         [pending[x] EXCEPT !.methodDamaged = FALSE, !.programDamaged = FALSE,
                            !.vertexArrayDamaged = FALSE,
                            !.textureDamaged = FALSE,
                            !.uniform = IF pending[x].program \in pool
                                          THEN None ELSE @]
    /\ x \in VertexArray => p =
         [attribute |-> [i \in Index |-> [pending[x].attribute[i] EXCEPT
                                            !.damaged = FALSE]],
          damaged |-> FALSE]
    /\ x \in Buffer => ~p.damaged
    /\ x \in Program => ~p.shouldLink
    /\ x \in Texture => p = InitialPending(x)
    /\ x \in Sampler => p.parameter = None

TechniquePicture(T, t) ==
    /\ T[t].program = pending[t].program
    /\ T[t].vertexArray = pending[t].vertexArray
    /\ T[t].texture = pending[t].texture
    /\ T[t].sampler = pending[t].sampler
    /\ T[t].method = pending[t].method
    /\ T[t].elements = pending[t].elements
    /\ T[t].uniform = content[t]
    /\ T[t].applied = IF pending[t].uniform = None THEN newest[t].applied
                      ELSE IF LinkedBy(pending[t].program)
                        THEN pending[t].program ELSE None

Aimed(T, x) ==
    /\ x \in Technique => TechniquePicture(T, x)
    /\ x \in VertexArray => \A i \in Index :
          /\ T[x].attribute[i].enabled = pending[x].attribute[i].enabled
          /\ T[x].attribute[i].buffer = pending[x].attribute[i].buffer
    /\ x \in Buffer => T[x].data = content[x] /\ T[x].reached
    /\ x \in Texture => T[x].data = content[x]
    /\ x \in Sampler => T[x].parameter = content[x]

Finished(s, T, x) ==
    Clean(s.pending[x], x) /\ Aimed(T, x) /\ Now(s.queue, T, x)

(* The commit of a vertex array that was changed commits its buffers.       *)
Reached(s, T, v) == pending[v].damaged =>
    \A b \in Live({pending[v].attribute[i].buffer : i \in Index}) :
       Finished(s, T, b)

Progress(s, T) ==
    /\ StateOK(s)
    /\ \A x \in pool \ Object : Fresh(s, x) \/ Finished(s, T, x)
    /\ \A v \in VertexArray \cap pool :
          ~s.pending[v].damaged => Reached(s, T, v)

Onward(s, n, T, K) ==
    /\ Grown(s, n, K) /\ Progress(n, T)
    /\ \A x \in pool : Finished(s, T, x) => Finished(n, T, x)

(* A step of a commit confined to some resources leaves the others as they  *)
(* were, fresh or finished.                                                 *)
LEMMA OthersKept ==
    ASSUME NEW s, NEW n, NEW K, StateOK(s), Grown(s, n, K),
           NEW x \in pool \ K, pool \subseteq Resource
    PROVE  /\ n.pending[x] = s.pending[x]
           /\ \A V : Now(s.queue, V, x) => Now(n.queue, V, x)
           /\ Fresh(s, x) => Fresh(n, x)
           /\ \A T : Finished(s, T, x) => Finished(n, T, x)
<1>. DEFINE e == Len(s.queue) + 1
            d == Len(n.queue) + 1
<1>1. Len(s.queue) \in Nat /\ Len(n.queue) \in Nat
  BY SequenceFacts DEF StateOK, Grown
<1>2. Extends(s.queue, e, n.queue, d)
  BY <1>1 DEF Extends, Grown
<1>3. \A i \in e..(d - 1) : n.queue[i].to # x
  BY <1>1 DEF Grown
<1>4. ASSUME NEW V, Now(s.queue, V, x) PROVE Now(n.queue, V, x)
  <2>1. Same(V, V, pool, x)
    BY DEF Same
  <2>2. Match(s.queue, e, rendering, pool, V, x)
    BY <1>4 DEF Now
  <2>3. Match(n.queue, d, rendering, pool, V, x)
    <3>. HIDE DEF e, d
    <3>. QED
      BY <1>2, <1>3, <2>1, <2>2, MatchKept
  <2>. QED
    BY <2>3 DEF Now
<1>5. n.pending[x] = s.pending[x]
  BY DEF Grown
<1>. QED
  BY <1>4, <1>5, Zenon DEF Fresh, Finished

(* The commit of one resource that finishes it brings the commit forward.   *)
LEMMA OneOnward ==
    ASSUME NEW s, NEW n, NEW T, NEW r \in pool, Graph, Progress(s, T),
           Grown(s, n, Just(r)), Finished(n, T, r),
           r \in VertexArray => Reached(s, T, r)
    PROVE  Onward(s, n, T, Just(r))
<1>1. pool \subseteq Resource /\ StateOK(s) /\ StateOK(n)
  BY DEF Graph, Progress, Grown
<1>2. ASSUME NEW x \in pool, x # r
      PROVE  /\ Fresh(s, x) => Fresh(n, x)
             /\ Finished(s, T, x) => Finished(n, T, x)
             /\ n.pending[x] = s.pending[x]
  BY <1>1, <1>2, OthersKept DEF Just
<1>3. ASSUME NEW v \in VertexArray \cap pool, ~n.pending[v].damaged
      PROVE  Reached(n, T, v)
  <2>1. Reached(s, T, v)
    BY <1>2, <1>3 DEF Progress
  <2>2. Live({pending[v].attribute[i].buffer : i \in Index}) \subseteq pool
    BY DEF Live
  <2>. QED
    BY <1>2, <2>1, <2>2, Zenon DEF Reached
<1>4. Progress(n, T)
  BY <1>1, <1>2, <1>3, Zenon DEF Progress
<1>. QED
  BY <1>2, <1>4, Zenon DEF Onward

(* A commit that does nothing is still on its way.                          *)
LEMMA OnwardSelf ==
    ASSUME NEW s, NEW T, NEW K, Progress(s, T)
    PROVE  Onward(s, s, T, K)
BY GrownSelf DEF Onward, Progress

(* Two steps forward, one after the other, are a step forward.              *)
LEMMA OnwardTwice ==
    ASSUME NEW s, NEW m, NEW n, NEW T, NEW K, Progress(s, T),
           Onward(s, m, T, K), Onward(m, n, T, K)
    PROVE  Onward(s, n, T, K)
BY GrownTwice, Zenon DEF Onward, Progress

(* A step forward confined to some resources is confined to more.           *)
LEMMA OnwardMore ==
    ASSUME NEW s, NEW n, NEW T, NEW K, NEW J, Onward(s, n, T, K),
           K \subseteq J
    PROVE  Onward(s, n, T, J)
BY GrownMore, Zenon DEF Onward

-----------------------------------------------------------------------------
(* Commit of one resource                                                   *)

(* A queue with one more entry extends the queue.                           *)
LEMMA AppendExtends ==
    ASSUME NEW q, IsSequence(q), NEW c
    PROVE  LET n == Append(q, c)
           IN  /\ Extends(q, Len(q) + 1, n, Len(n) + 1)
               /\ \A i \in (Len(q) + 1)..((Len(n) + 1) - 1) : n[i] = c
               /\ Len(n) + 1 = (Len(q) + 1) + 1
               /\ Len(q) + 1 \in 1..((Len(n) + 1) - 1)
               /\ n[Len(q) + 1] = c
BY AppendFacts, SequenceFacts DEF Extends

(* After one more command a field is what the command sets, or what it was  *)
(* to be before.                                                            *)
LEMMA FieldAppended ==
    ASSUME NEW q, IsSequence(q), NEW c, NEW r, NEW f, NEW old, NEW val,
           \/ Sets(c, r, f) /\ c.set[f] = val
           \/ ~Sets(c, r, f) /\ LastIs(q, Len(q) + 1, r, f, old, val)
    PROVE  LastIs(Append(q, c), Len(Append(q, c)) + 1, r, f, old, val)
<1>. DEFINE n == Append(q, c)
            e == Len(q) + 1
            d == Len(n) + 1
<1>1. /\ Extends(q, e, n, d) /\ \A i \in e..(d - 1) : n[i] = c
      /\ e \in 1..(d - 1) /\ n[e] = c /\ d = e + 1 /\ d \in Nat
  BY AppendExtends DEF Extends
<1>. HIDE DEF n, e, d
<1>2. CASE Sets(c, r, f) /\ c.set[f] = val
  <2>1. \A i \in (e + 1)..(d - 1) : ~Sets(n[i], r, f)
    BY <1>1
  <2>2. LastIs(n, d, r, f, old, val)
    BY <1>1, <1>2, <2>1, LastIsNew
  <2>. QED
    BY <2>2 DEF n, d
<1>3. CASE ~Sets(c, r, f) /\ LastIs(q, e, r, f, old, val)
  <2>1. LastIs(n, d, r, f, old, val)
    BY <1>1, <1>3, LastIsKept
  <2>. QED
    BY <2>1 DEF n, d
<1>. QED
  BY <1>2, <1>3 DEF e

(* A command for r, and its new pending state *)
Committed(s, r, set, x) == [Push(s, r, set) EXCEPT !.pending[r] = x]

(* A command for a resource, together with its new pending state, is a step *)
(* confined to the resource.                                                *)
LEMMA Pushed ==
    ASSUME NEW s, StateOK(s), NEW r \in pool, r \in Resource,
           NEW set, SetOK(r, set, created), NEW x, PendingIs(r, x, created)
    PROVE  LET n == Committed(s, r, set, x)
           IN  /\ Grown(s, n, Just(r)) /\ StateOK(n)
               /\ n.pending[r] = x
               /\ n.queue = Append(s.queue, Command(r, set))
<1>. DEFINE m == Push(s, r, set)
            n == Committed(s, r, set, x)
<1>1. /\ Grown(s, m, Just(r)) /\ m.pending = s.pending /\ StateOK(m)
      /\ m.queue = Append(s.queue, Command(r, set))
  BY PushGrown
<1>. HIDE DEF m
<1>0. n = [m EXCEPT !.pending[r] = x]
  BY DEF Committed, m
<1>. HIDE DEF n
<1>2. Grown(m, n, Just(r)) /\ n.pending[r] = x /\ n.queue = m.queue
  <2>1. StateOK(m)
    BY <1>1
  <2>. QED
    BY <1>0, <2>1, PendingGrown
<1>3. Grown(s, n, Just(r))
  BY <1>1, <1>2, GrownTwice
<1>4. StateOK(n)
  BY <1>3 DEF Grown
<1>. QED
  BY <1>1, <1>2, <1>3, <1>4 DEF m, n

(* GlBuffer::Commit of a live buffer finishes it.                           *)
LEMMA BufferDone ==
    ASSUME NEW T, NEW B, Ready(T, B), NEW s, Progress(s, T),
           NEW b \in Buffer, b \in B.buffers, b \in pool
    PROVE  /\ Onward(s, CommitBuffer(s, b), T, Just(b))
           /\ Finished(CommitBuffer(s, b), T, b)
<1>. DEFINE n == CommitBuffer(s, b)
<1>1. T[b].data = content[b] /\ T[b].reached
  <2>1. b \in B.all /\ b \in Resource
    BY Known DEF Ready, Closed
  <2>2. T[b] = PictureOf(b, B.buffers)
    BY <2>1 DEF Ready
  <2>3. PictureOf(b, B.buffers) =
          [data |-> content[b],
           reached |-> \/ b \in B.buffers
                       \/ newest[b].reached /\ ~pending[b].damaged]
    BY PictureOfIs, ZenonT(60)
  <2>. QED
    BY <2>2, <2>3
<1>2. /\ b \in Resource /\ Graph /\ StateOK(s)
      /\ Fresh(s, b) \/ Finished(s, T, b)
  BY Known, Apart DEF Ready, Progress
<1>3. /\ pending[b].damaged => pending[b].data = content[b]
      /\ ~pending[b].damaged => content[b] = newest[b].data /\ newest[b].reached
  BY DEF Ready, Coherent
<1>4. /\ b \notin Unit /\ b \notin Technique /\ b \notin VertexArray
      /\ b \notin Program /\ b \notin Texture /\ b \notin Sampler
      /\ b \notin Object /\ b \notin Shader
  BY Apart
<1>0. Aimed(T, b)
  BY <1>1, <1>4 DEF Aimed
<1>5. CASE ~s.pending[b].damaged
  <2>1. n = s
    BY <1>5 DEF CommitBuffer
  <2>2. CASE Fresh(s, b)
    <3>1. content[b] = newest[b].data /\ newest[b].reached
      BY <1>3, <1>5, <2>2 DEF Fresh
    <3>2. Shows(s.queue, Len(s.queue) + 1, rendering, newest, b, {"data"})
      BY <2>2, <3>1 DEF Fresh, Now, Match
    <3>3. Shows(s.queue, Len(s.queue) + 1, rendering, T, b, {"data"})
      BY <1>1, <3>1, <3>2 DEF Shows
    <3>4. Now(s.queue, T, b)
      BY <1>4, <3>3 DEF Now, Match
    <3>5. Clean(s.pending[b], b)
      BY <1>4, <1>5 DEF Clean
    <3>6. Finished(s, T, b)
      BY <1>0, <3>4, <3>5 DEF Finished
    <3>. QED
      BY <2>1, <3>6, OnwardSelf
  <2>3. CASE Finished(s, T, b)
    BY <2>1, <2>3, OnwardSelf
  <2>. QED
    BY <1>2, <2>2, <2>3
<1>6. CASE s.pending[b].damaged
  <2>1. Fresh(s, b)
    BY <1>2, <1>6 DEF Finished, Clean
  <2>2. s.pending[b].data = content[b]
    BY <1>3, <1>6, <2>1 DEF Fresh
  <2>3. s.pending[b] \in [data : Data, damaged : BOOLEAN]
        /\ s.pending[b].data # None
    BY <1>2, <1>6 DEF StateOK, PendingOK, PendingIs
  <2>. DEFINE set == [data |-> s.pending[b].data]
              c == Command(b, set)
  <2>4. SetOK(b, set, created)
    BY <1>4, <2>3 DEF SetOK, Data
  <2>5. n = Committed(s, b, set, InitialPending(b))
    BY <1>6 DEF CommitBuffer, Committed
  <2>6. PendingIs(b, InitialPending(b), created)
    <3>1. InitialPending(b) = [data |-> None, damaged |-> FALSE]
      BY InitialPendingIs
    <3>. QED
      BY <1>4, <3>1 DEF PendingIs, Data
  <2>7. Sets(c, b, "data") /\ c.set["data"] = T[b].data
    BY <1>1, <1>4, <2>2 DEF Sets, Command
  <2>. HIDE DEF set, n
  <2>8. /\ Grown(s, n, Just(b)) /\ n.pending[b] = InitialPending(b)
        /\ n.queue = Append(s.queue, c)
    BY <1>2, <2>4, <2>5, <2>6, Pushed
  <2>. HIDE DEF c
  <2>9. LastIs(n.queue, Len(n.queue) + 1, b, "data", rendering[b].data,
               T[b].data)
    BY <1>2, <2>7, <2>8, FieldAppended DEF StateOK
  <2>10. Now(n.queue, T, b)
    BY <1>4, <2>9 DEF Now, Match, Shows
  <2>11. Clean(n.pending[b], b)
    BY <1>4, <2>8, InitialPendingIs DEF Clean
  <2>12. Finished(n, T, b)
    BY <1>0, <2>10, <2>11 DEF Finished
  <2>. QED
    BY <1>2, <1>4, <2>8, <2>12, OneOnward DEF n
<1>. QED
  BY <1>5, <1>6

(* GlShader::Commit of a live shader finishes it.                           *)
LEMMA ShaderDone ==
    ASSUME NEW T, NEW B, Ready(T, B), NEW s, Progress(s, T),
           NEW h \in Shader, h \in pool
    PROVE  /\ Onward(s, CommitShader(s, h), T, Just(h))
           /\ Finished(CommitShader(s, h), T, h)
<1>. DEFINE n == CommitShader(s, h)
<1>1. h \in Resource /\ Graph /\ StateOK(s)
  BY Known DEF Ready, Progress
<1>2. /\ h \notin Unit /\ h \notin Technique /\ h \notin VertexArray
      /\ h \notin Program /\ h \notin Texture /\ h \notin Sampler
      /\ h \notin Object /\ h \notin Buffer
  BY Apart
<1>3. \A m : Finished(m, T, h)
  BY <1>2 DEF Finished, Clean, Aimed, Now, Match
<1>4. CASE s.pending[h].committed
  <2>1. n = s
    BY <1>4 DEF CommitShader
  <2>. QED
    BY <1>3, <2>1, OnwardSelf
<1>5. CASE ~s.pending[h].committed
  <2>. DEFINE set == [compiled |-> TRUE]
              m == Push(s, h, set)
              x == [s.pending[h] EXCEPT !.committed = TRUE]
  <2>1. SetOK(h, set, created)
    BY <1>2 DEF SetOK
  <2>2. m.pending = s.pending /\ StateOK(m)
    <3>. HIDE DEF set
    <3>. QED
      BY <1>1, <2>1, PushGrown
  <2>3. n = Committed(s, h, set, x)
    <3>1. n = [m EXCEPT !.pending[h] = [m.pending[h] EXCEPT !.committed = TRUE]]
      BY <1>5 DEF CommitShader
    <3>. QED
      BY <2>2, <3>1 DEF Committed
  <2>4. PendingIs(h, x, created)
    <3>1. s.pending[h] \in [committed : BOOLEAN]
      BY <1>1 DEF StateOK, PendingOK, PendingIs
    <3>. QED
      BY <1>2, <3>1 DEF PendingIs
  <2>5. Grown(s, n, Just(h))
    <3>. HIDE DEF x, n, set
    <3>. QED
      BY <1>1, <2>1, <2>3, <2>4, Pushed
  <2>. QED
    BY <1>1, <1>2, <1>3, <2>5, OneOnward
<1>. QED
  BY <1>4, <1>5

(* GlSampler::Commit of a live sampler finishes it.                         *)
LEMMA SamplerDone ==
    ASSUME NEW T, NEW B, Ready(T, B), NEW s, Progress(s, T),
           NEW m \in Sampler, m \in B.all
    PROVE  /\ Onward(s, CommitSampler(s, m), T, Just(m))
           /\ Finished(CommitSampler(s, m), T, m)
<1>. DEFINE n == CommitSampler(s, m)
            set == [exists |-> TRUE]
            k == Push(s, m, set)
            c == Command(m, set)
            x == s.pending[m]
<1>1. /\ m \in Resource /\ m \in pool /\ Graph /\ StateOK(s)
      /\ Fresh(s, m) \/ Finished(s, T, m)
  BY Known, Apart DEF Ready, Closed, Progress
<1>2. T[m].exists = TRUE /\ T[m].parameter = content[m]
  <2>1. T[m] = PictureOf(m, B.buffers)
    BY <1>1 DEF Ready
  <2>2. PictureOf(m, B.buffers) = [exists |-> TRUE, parameter |-> content[m]]
    BY PictureOfIs, ZenonT(60)
  <2>. QED
    BY <2>1, <2>2
<1>3. /\ m \notin Unit /\ m \notin Technique /\ m \notin VertexArray
      /\ m \notin Program /\ m \notin Texture /\ m \notin Buffer
      /\ m \notin Object /\ m \notin Shader
  BY Apart
<1>0. Aimed(T, m)
  BY <1>2, <1>3 DEF Aimed
<1>4. x \in [parameter : Data]
  BY <1>1 DEF StateOK, PendingOK, PendingIs
<1>5. /\ x.parameter = None =>
            LastIs(s.queue, Len(s.queue) + 1, m, "parameter",
                   rendering[m].parameter, content[m])
      /\ x.parameter # None => x.parameter = content[m]
  <2>1. CASE Fresh(s, m)
    <3>1. LastIs(s.queue, Len(s.queue) + 1, m, "parameter",
                 rendering[m].parameter, newest[m].parameter)
      BY <2>1 DEF Fresh, Now, Match, Shows
    <3>. QED
      BY <2>1, <3>1 DEF Fresh, Ready, Coherent
  <2>2. CASE Finished(s, T, m)
    <3>1. LastIs(s.queue, Len(s.queue) + 1, m, "parameter",
                 rendering[m].parameter, T[m].parameter)
      BY <2>2 DEF Finished, Now, Match, Shows
    <3>. QED
      BY <1>2, <2>2, <3>1 DEF Finished, Clean
  <2>. QED
    BY <1>1, <2>1, <2>2
<1>6. SetOK(m, set, created)
  BY <1>3 DEF SetOK
<1>7. /\ Grown(s, k, Just(m)) /\ k.pending = s.pending /\ StateOK(k)
      /\ k.queue = Append(s.queue, c)
  <2>. HIDE DEF set
  <2>. QED
    BY <1>1, <1>6, PushGrown
<1>8. Sets(c, m, "exists") /\ c.set["exists"] = T[m].exists
      /\ ~Sets(c, m, "parameter")
  BY <1>2, <1>3 DEF Sets, Command
<1>. HIDE DEF k, c, set, x
<1>9. LastIs(k.queue, Len(k.queue) + 1, m, "exists", rendering[m].exists,
             T[m].exists)
  BY <1>1, <1>7, <1>8, FieldAppended DEF StateOK
<1>10. CASE x.parameter = None
  <2>1. n = k
    BY <1>10 DEF CommitSampler, k, set, x
  <2>2. LastIs(k.queue, Len(k.queue) + 1, m, "parameter",
               rendering[m].parameter, T[m].parameter)
    BY <1>1, <1>2, <1>5, <1>7, <1>8, <1>10, FieldAppended DEF StateOK
  <2>3. Now(k.queue, T, m)
    BY <1>3, <1>9, <2>2 DEF Now, Match, Shows
  <2>4. Clean(k.pending[m], m)
    BY <1>3, <1>7, <1>10 DEF Clean, x
  <2>5. Finished(k, T, m)
    BY <1>0, <2>3, <2>4 DEF Finished
  <2>. QED
    BY <1>1, <1>3, <1>7, <2>1, <2>5, OneOnward
<1>11. CASE x.parameter # None
  <2>. DEFINE d == Command(m, x)
  <2>1. n = Committed(k, m, x, InitialPending(m))
    BY <1>11 DEF CommitSampler, Committed, k, set, x
  <2>2. SetOK(m, x, created)
    BY <1>3, <1>4, <1>11 DEF SetOK, Data
  <2>3. PendingIs(m, InitialPending(m), created)
    <3>1. InitialPending(m) = [parameter |-> None]
      BY InitialPendingIs
    <3>. QED
      BY <1>3, <3>1 DEF PendingIs, Data
  <2>. HIDE DEF n
  <2>4. /\ Grown(k, n, Just(m)) /\ n.pending[m] = InitialPending(m)
        /\ n.queue = Append(k.queue, d)
    BY <1>1, <1>7, <2>1, <2>2, <2>3, Pushed, SMTT(30)
  <2>5. Grown(s, n, Just(m))
    BY <1>1, <1>7, <2>4, GrownTwice
  <2>6. Sets(d, m, "parameter") /\ d.set["parameter"] = T[m].parameter
        /\ ~Sets(d, m, "exists")
    BY <1>2, <1>3, <1>4, <1>5, <1>11 DEF Sets, Command
  <2>. HIDE DEF d
  <2>7. LastIs(n.queue, Len(n.queue) + 1, m, "parameter",
               rendering[m].parameter, T[m].parameter)
    BY <1>7, <2>4, <2>6, FieldAppended DEF StateOK
  <2>8. LastIs(n.queue, Len(n.queue) + 1, m, "exists", rendering[m].exists,
               T[m].exists)
    BY <1>7, <1>9, <2>4, <2>6, FieldAppended DEF StateOK
  <2>9. Now(n.queue, T, m)
    BY <1>3, <2>7, <2>8 DEF Now, Match, Shows
  <2>10. Clean(n.pending[m], m)
    BY <1>3, <2>4, InitialPendingIs DEF Clean
  <2>11. Finished(n, T, m)
    BY <1>0, <2>9, <2>10 DEF Finished
  <2>. QED
    BY <1>1, <1>3, <2>5, <2>11, OneOnward DEF n
<1>. QED
  BY <1>10, <1>11

(* A queue extends itself by no entry.                                      *)
LEMMA Unmoved ==
    ASSUME NEW q, NEW e \in Nat, 1 <= e
    PROVE  Extends(q, e, q, e) /\ e..(e - 1) = {}
BY DEF Extends

(* A command with a mipmap, with none after it, makes the mipmap of the     *)
(* data the texture has then.                                               *)
LEMMA MipmapNew ==
    ASSUME NEW q, NEW e \in Nat, NEW j \in 1..(e - 1), NEW R, NEW P, NEW x,
           MipmapSet(q[j], x),
           \A i \in (j + 1)..(e - 1) : ~MipmapSet(q[i], x),
           LastIs(q, j + 1, x, "data", R[x].data, P[x].mipmap)
    PROVE  MipmapShows(q, e, R, P, x)
<1>1. ASSUME NEW k \in 1..(e - 1), MipmapSet(q[k], x),
             \A i \in (k + 1)..(e - 1) : ~MipmapSet(q[i], x)
      PROVE  k = j
  <2>1. ~(k \in (j + 1)..(e - 1)) /\ ~(j \in (k + 1)..(e - 1))
    BY <1>1
  <2>. QED
    BY <2>1
<1>. QED
  BY <1>1, Zenon DEF MipmapShows

(* GlTexture::Commit of a live texture finishes it.                         *)
LEMMA TextureDone ==
    ASSUME NEW T, NEW B, Ready(T, B), NEW s, Progress(s, T),
           NEW x \in Texture, x \in B.all
    PROVE  /\ Onward(s, CommitTexture(s, x), T, Just(x))
           /\ Finished(CommitTexture(s, x), T, x)
<1>. DEFINE n == CommitTexture(s, x)
            y == s.pending[x]
            e == Len(s.queue) + 1
<1>1. /\ x \in Resource /\ x \in pool /\ Graph /\ StateOK(s)
      /\ Fresh(s, x) \/ Finished(s, T, x)
      /\ e \in Nat /\ 1 <= e
  BY Known, Apart, SequenceFacts DEF Ready, Closed, Progress, StateOK
<1>2. /\ T[x].data = content[x]
      /\ T[x].mipmap = IF pending[x].mipmap THEN content[x]
                                            ELSE newest[x].mipmap
  <2>1. T[x] = PictureOf(x, B.buffers)
    BY <1>1 DEF Ready
  <2>2. PictureOf(x, B.buffers) =
          [data |-> content[x],
           mipmap |-> IF pending[x].mipmap THEN content[x]
                                           ELSE newest[x].mipmap]
    BY PictureOfIs, ZenonT(60)
  <2>. QED
    BY <2>1, <2>2
<1>3. /\ x \notin Unit /\ x \notin Technique /\ x \notin VertexArray
      /\ x \notin Program /\ x \notin Sampler /\ x \notin Buffer
      /\ x \notin Object /\ x \notin Shader
  BY Apart
<1>0. Aimed(T, x)
  BY <1>2, <1>3 DEF Aimed
<1>4. y \in [data : Data, mipmap : BOOLEAN]
  BY <1>1 DEF StateOK, PendingOK, PendingIs
<1>5. ASSUME Fresh(s, x)
      PROVE  /\ y = pending[x]
             /\ y.data = None =>
                  LastIs(s.queue, e, x, "data", rendering[x].data, T[x].data)
             /\ y.data # None => y.data = T[x].data
             /\ MipmapShows(s.queue, e, rendering, newest, x)
  <2>1. y = pending[x] /\ MipmapShows(s.queue, e, rendering, newest, x)
    BY <1>5 DEF Fresh, Now, Match
  <2>2. LastIs(s.queue, e, x, "data", rendering[x].data, newest[x].data)
    BY <1>5 DEF Fresh, Now, Match, Shows
  <2>3. /\ y.data = None => newest[x].data = content[x]
        /\ y.data # None => y.data = content[x]
    BY <2>1 DEF Ready, Coherent
  <2>. QED
    BY <1>2, <2>1, <2>2, <2>3
<1>6. CASE y = InitialPending(x)
  <2>1. n = s
    BY <1>6 DEF CommitTexture
  <2>2. CASE Fresh(s, x)
    <3>1. y.data = None /\ ~y.mipmap
      BY <1>6, InitialPendingIs
    <3>2. T[x].mipmap = newest[x].mipmap
      BY <1>2, <1>5, <2>2, <3>1
    <3>. HIDE DEF e
    <3>3. MipmapShows(s.queue, e, rendering, T, x)
      BY <1>1, <1>5, <2>2, <3>2, Unmoved, MipmapKept
    <3>4. LastIs(s.queue, e, x, "data", rendering[x].data, T[x].data)
      BY <1>5, <2>2, <3>1
    <3>5. Now(s.queue, T, x)
      BY <1>3, <3>3, <3>4 DEF Now, Match, Shows, e
    <3>6. Clean(s.pending[x], x)
      BY <1>3, <1>6 DEF Clean
    <3>7. Finished(s, T, x)
      BY <1>0, <3>5, <3>6 DEF Finished
    <3>. QED
      BY <2>1, <3>7, OnwardSelf
  <2>3. CASE Finished(s, T, x)
    BY <2>1, <2>3, OnwardSelf
  <2>. QED
    BY <1>1, <2>2, <2>3
<1>7. CASE y # InitialPending(x)
  <2>. DEFINE c == Command(x, y)
              d == Len(n.queue) + 1
  <2>1. Fresh(s, x)
    BY <1>1, <1>7 DEF Finished, Clean
  <2>2. n = Committed(s, x, y, InitialPending(x))
    BY <1>7 DEF CommitTexture, Committed
  <2>3. SetOK(x, y, created)
    BY <1>3, <1>4 DEF SetOK
  <2>4. PendingIs(x, InitialPending(x), created)
    <3>1. InitialPending(x) = [data |-> None, mipmap |-> FALSE]
      BY InitialPendingIs
    <3>. QED
      BY <1>3, <3>1 DEF PendingIs, Data
  <2>5. /\ Sets(c, x, "data") <=> y.data # None
        /\ c.set = y
        /\ MipmapSet(c, x) <=> y.mipmap
    BY <1>3, <1>4 DEF Sets, MipmapSet, Command
  <2>. HIDE DEF n, y
  <2>6. /\ Grown(s, n, Just(x)) /\ n.pending[x] = InitialPending(x)
        /\ n.queue = Append(s.queue, c) /\ StateOK(n)
    BY <1>1, <2>2, <2>3, <2>4, Pushed
  <2>. HIDE DEF c, e
  <2>7. /\ Extends(s.queue, e, n.queue, d)
        /\ \A i \in e..(d - 1) : n.queue[i] = c
        /\ d = e + 1 /\ e \in 1..(d - 1) /\ d \in Nat
    BY <1>1, <2>6, AppendExtends DEF StateOK, Extends, e
  <2>8. LastIs(n.queue, d, x, "data", rendering[x].data, T[x].data)
    <3>1. \/ Sets(c, x, "data") /\ c.set["data"] = T[x].data
          \/ /\ ~Sets(c, x, "data")
             /\ LastIs(s.queue, e, x, "data", rendering[x].data, T[x].data)
      BY <1>5, <2>1, <2>5
    <3>. QED
      BY <1>1, <2>6, <3>1, FieldAppended DEF StateOK, e
  <2>. HIDE DEF d
  <2>9. MipmapShows(n.queue, d, rendering, T, x)
    <3>1. CASE y.mipmap
      <4>1. T[x].mipmap = T[x].data
        BY <1>2, <1>5, <2>1, <3>1
      <4>2. LastIs(n.queue, e + 1, x, "data", rendering[x].data, T[x].mipmap)
        BY <2>7, <2>8, <4>1
      <4>3. \A i \in (e + 1)..(d - 1) : ~MipmapSet(n.queue[i], x)
        BY <2>7
      <4>4. MipmapSet(n.queue[e], x)
        BY <2>5, <2>7, <3>1
      <4>. QED
        BY <2>7, <4>2, <4>3, <4>4, MipmapNew
    <3>2. CASE ~y.mipmap
      <4>1. T[x].mipmap = newest[x].mipmap
        BY <1>2, <1>5, <2>1, <3>2
      <4>2. \A i \in e..(d - 1) : ~MipmapSet(n.queue[i], x)
        BY <2>5, <2>7, <3>2
      <4>3. MipmapShows(s.queue, e, rendering, newest, x)
        BY <1>5, <2>1
      <4>. QED
        BY <2>7, <4>1, <4>2, <4>3, MipmapKept
    <3>. QED
      BY <3>1, <3>2
  <2>10. Now(n.queue, T, x)
    BY <1>3, <2>8, <2>9 DEF Now, Match, Shows, d
  <2>11. Clean(n.pending[x], x)
    BY <1>3, <2>6 DEF Clean
  <2>12. Finished(n, T, x)
    BY <1>0, <2>10, <2>11 DEF Finished
  <2>. QED
    BY <1>1, <1>3, <2>6, <2>12, OneOnward DEF n
<1>. QED
  BY <1>6, <1>7

(* All shaders of a program, and all buffers of a vertex array              *)
LEMMA ShadersDone ==
    ASSUME NEW T, NEW B, Ready(T, B), NEW s, Progress(s, T),
           NEW refs \in SUBSET Ref(Shader)
    PROVE  Onward(s, CommitEach(CommitShader, s, refs), T, Shader)
<1>. DEFINE D == Live(refs)
<1>1. /\ D \subseteq Shader /\ D \subseteq pool /\ IsFiniteSet(pool)
      /\ IsFiniteSet(D)
  BY Known, FS_Subset DEF Live, Ref, Ready, Graph
<1>2. PICK g : Folds(g, "shader", s, D, CommitEach(CommitShader, s, refs))
  BY <1>1, EachShader
<1>. HIDE DEF D
<1>. DEFINE A == {t \in SUBSET D : Onward(s, g[t], T, Shader)}
<1>3. {} \in A
  BY <1>2, OnwardSelf DEF Folds
<1>4. ASSUME NEW t \in SUBSET D, t # {}
      PROVE  \E x \in t : t \ {x} \in A => t \in A
  <2>1. PICK x \in t : g[t] = Step("shader", g[t \ {x}], x)
    BY <1>2, <1>4 DEF Folds
  <2>2. g[t] = CommitShader(g[t \ {x}], x)
    BY <2>1, Zenon DEF Step
  <2>3. ASSUME Onward(s, g[t \ {x}], T, Shader)
        PROVE  Onward(s, g[t], T, Shader)
    <3>1. Progress(g[t \ {x}], T) /\ x \in Shader /\ x \in pool
      BY <1>1, <2>3 DEF Onward
    <3>2. Onward(g[t \ {x}], g[t], T, Just(x))
      BY <2>2, <3>1, ShaderDone
    <3>3. Onward(g[t \ {x}], g[t], T, Shader)
      BY <3>1, <3>2, OnwardMore DEF Just
    <3>. QED
      BY <2>3, <3>3, OnwardTwice
  <2>. QED
    BY <2>3
<1>5. D \in A
  <2>. HIDE DEF A
  <2>. QED
    BY <1>1, <1>3, <1>4, RemovalInduction
<1>. QED
  BY <1>2, <1>5 DEF Folds

(* The commits of the buffers of a vertex array finish the live ones.       *)
LEMMA BuffersDone ==
    ASSUME NEW T, NEW B, Ready(T, B), NEW s, Progress(s, T),
           NEW refs \in SUBSET Ref(Buffer), Live(refs) \subseteq B.buffers
    PROVE  LET n == CommitEach(CommitBuffer, s, refs)
           IN  /\ Onward(s, n, T, Buffer)
               /\ \A b \in Live(refs) : Finished(n, T, b)
<1>. DEFINE D == Live(refs)
<1>1. /\ D \subseteq Buffer /\ D \subseteq pool /\ IsFiniteSet(pool)
      /\ IsFiniteSet(D) /\ D \subseteq B.buffers
  BY Known, FS_Subset DEF Live, Ref, Ready, Graph
<1>2. PICK g : Folds(g, "buffer", s, D, CommitEach(CommitBuffer, s, refs))
  BY <1>1, EachBuffer
<1>. HIDE DEF D
<1>. DEFINE A == {t \in SUBSET D : /\ Onward(s, g[t], T, Buffer)
                                 /\ \A b \in t : Finished(g[t], T, b)}
<1>3. {} \in A
  BY <1>2, OnwardSelf DEF Folds
<1>4. ASSUME NEW t \in SUBSET D, t # {}
      PROVE  \E x \in t : t \ {x} \in A => t \in A
  <2>1. PICK x \in t : g[t] = Step("buffer", g[t \ {x}], x)
    BY <1>2, <1>4 DEF Folds
  <2>2. g[t] = CommitBuffer(g[t \ {x}], x)
    BY <2>1, Zenon DEF Step
  <2>3. ASSUME Onward(s, g[t \ {x}], T, Buffer),
               \A b \in t \ {x} : Finished(g[t \ {x}], T, b)
        PROVE  /\ Onward(s, g[t], T, Buffer)
               /\ \A b \in t : Finished(g[t], T, b)
    <3>1. Progress(g[t \ {x}], T) /\ x \in Buffer /\ x \in pool
          /\ x \in B.buffers
      BY <1>1, <2>3 DEF Onward
    <3>2. Onward(g[t \ {x}], g[t], T, Just(x)) /\ Finished(g[t], T, x)
      BY <2>2, <3>1, BufferDone
    <3>3. Onward(g[t \ {x}], g[t], T, Buffer)
      BY <3>1, <3>2, OnwardMore DEF Just
    <3>4. \A b \in t \ {x} : Finished(g[t], T, b)
      BY <1>1, <2>3, <3>3 DEF Onward
    <3>. QED
      BY <2>3, <3>2, <3>3, <3>4, OnwardTwice
  <2>. QED
    BY <2>3
<1>5. D \in A
  <2>. HIDE DEF A
  <2>. QED
    BY <1>1, <1>3, <1>4, RemovalInduction
<1>. QED
  BY <1>2, <1>5 DEF Folds, D

-----------------------------------------------------------------------------
(* Programs and vertex arrays, with what they refer to                      *)

Parts == UNION {VertexArray, Buffer, Program, Shader, Texture, Sampler}

(* A command that links a program not linked before makes it the program of *)
(* the new picture.                                                         *)
LEMMA LinkNew ==
    ASSUME NEW q, NEW e \in Nat, NEW n, NEW d, Extends(q, e, n, d),
           e \in 1..(d - 1), NEW R, NEW L, NEW P, NEW V, NEW p,
           LinkShows(q, e, R, L, P, p), P[p].linked = {},
           LinkSet(n[e], p), n[e].set.link = V[p].linked, V[p].linked # {}
    PROVE  LinkShows(n, d, R, L, V, p)
<1>1. R[p].linked = {} /\ \A j \in 1..(e - 1) : ~Links(q[j], p, L)
  BY DEF LinkShows
<1>2. \A k \in 1..(e - 1) : n[k] = q[k]
  BY DEF Extends
<1>3. \A k \in 1..(e - 1) : ~Links(n[k], p, L)
  BY <1>1, <1>2, Zenon
<1>. QED
  BY <1>1, <1>3, Zenon DEF LinkShows

(* GlProgram::Commit, which commits the shaders first, finishes it.         *)
LEMMA ProgramDone ==
    ASSUME NEW T, NEW B, Ready(T, B), NEW s, Progress(s, T),
           NEW p \in Program, p \in B.all
    PROVE  /\ Onward(s, CommitProgram(s, p), T, Parts)
           /\ Finished(CommitProgram(s, p), T, p)
<1>. DEFINE n == CommitProgram(s, p)
            shaders == s.pending[p].shaders
<1>1. /\ p \in Resource /\ p \in pool /\ Graph /\ StateOK(s)
      /\ pool \subseteq Resource
      /\ Fresh(s, p) \/ Finished(s, T, p)
  BY Known, Apart DEF Ready, Closed, Progress, Graph
<1>2. T[p].linked = Linked(p)
  <2>1. T[p] = PictureOf(p, B.buffers)
    BY <1>1 DEF Ready
  <2>2. PictureOf(p, B.buffers) = [linked |-> Linked(p)]
    BY PictureOfIs, ZenonT(60)
  <2>. QED
    BY <2>1, <2>2
<1>3. /\ p \notin Unit /\ p \notin Technique /\ p \notin VertexArray
      /\ p \notin Texture /\ p \notin Sampler /\ p \notin Buffer
      /\ p \notin Object /\ p \notin Shader
  BY Apart
<1>0. Aimed(T, p)
  BY <1>3 DEF Aimed
<1>4. s.pending[p] \in [shaders : SUBSET Ref(Shader \cap created),
                        shouldLink : BOOLEAN]
  BY <1>1 DEF StateOK, PendingOK, PendingIs
<1>5. CASE ~s.pending[p].shouldLink
  <2>1. n = s
    BY <1>5 DEF CommitProgram
  <2>2. CASE Fresh(s, p)
    <3>. DEFINE e == Len(s.queue) + 1
    <3>0. e \in Nat /\ 1 <= e
      BY <1>1, SequenceFacts DEF StateOK
    <3>1. T[p].linked = newest[p].linked
      BY <1>2, <1>5, <2>2 DEF Fresh, Linked
    <3>2. LinkShows(s.queue, e, rendering, pool, newest, p)
      BY <2>2 DEF Fresh, Now, Match
    <3>. HIDE DEF e
    <3>3. LinkShows(s.queue, e, rendering, pool, T, p)
      BY <3>0, <3>1, <3>2, Unmoved, LinkKept
    <3>4. Now(s.queue, T, p)
      BY <1>3, <3>3 DEF Now, Match, e
    <3>5. Clean(s.pending[p], p)
      BY <1>3, <1>5 DEF Clean
    <3>6. Finished(s, T, p)
      BY <1>0, <3>4, <3>5 DEF Finished
    <3>. QED
      BY <2>1, <3>6, OnwardSelf
  <2>3. CASE Finished(s, T, p)
    BY <2>1, <2>3, OnwardSelf
  <2>. QED
    BY <1>1, <2>2, <2>3
<1>6. CASE s.pending[p].shouldLink
  <2>. DEFINE m == CommitEach(CommitShader, s, shaders)
              set == [link |-> shaders]
              c == Command(p, set)
              e == Len(m.queue) + 1
              d == Len(n.queue) + 1
  <2>1. Fresh(s, p)
    BY <1>1, <1>6 DEF Finished, Clean
  <2>2. Onward(s, m, T, Shader)
    <3>1. shaders \in SUBSET Ref(Shader)
      BY <1>4 DEF Ref
    <3>. QED
      BY <3>1, ShadersDone
  <2>3. n = Committed(m, p, set, InitialPending(p))
    BY <1>6 DEF CommitProgram, Committed
  <2>4. SetOK(p, set, created)
    BY <1>3, <1>4 DEF SetOK
  <2>5. PendingIs(p, InitialPending(p), created)
    <3>1. InitialPending(p) = [shaders |-> {}, shouldLink |-> FALSE]
      BY InitialPendingIs
    <3>. QED
      BY <1>3, <3>1 DEF PendingIs
  <2>. HIDE DEF m
  <2>6. /\ StateOK(m) /\ Progress(m, T) /\ Fresh(m, p)
    BY <1>1, <1>3, <2>1, <2>2, OthersKept DEF Onward, Progress
  <2>7. LinkSet(c, p) /\ c.set.link = shaders
    BY DEF LinkSet, Command
  <2>8. s.pending[p] = pending[p]
    BY <2>1 DEF Fresh
  <2>. HIDE DEF n, set
  <2>9. /\ Grown(m, n, Just(p)) /\ n.pending[p] = InitialPending(p)
        /\ n.queue = Append(m.queue, c) /\ StateOK(n)
    BY <1>1, <2>3, <2>4, <2>5, <2>6, Pushed
  <2>10. LinkShows(m.queue, e, rendering, pool, newest, p)
    BY <2>6 DEF Fresh, Now, Match
  <2>. HIDE DEF c
  <2>11. /\ Extends(m.queue, e, n.queue, d)
         /\ \A i \in e..(d - 1) : n.queue[i] = c
         /\ e \in 1..(d - 1) /\ d \in Nat /\ e \in Nat /\ n.queue[e] = c
    <3>. HIDE DEF e
    <3>. QED
      BY <2>6, <2>9, AppendExtends DEF StateOK, Extends, e
  <2>. HIDE DEF e, d, shaders
  <2>12. LinkShows(n.queue, d, rendering, pool, T, p)
    <3>1. CASE newest[p].linked # {}
      <4>1. T[p].linked = newest[p].linked
        BY <1>2, <3>1 DEF Linked
      <4>. QED
        BY <2>10, <2>11, <3>1, <4>1, LinkKept
    <3>2. CASE newest[p].linked = {} /\ shaders \subseteq pool /\ shaders # {}
      <4>1. T[p].linked = shaders
        BY <1>2, <1>6, <2>8, <3>2 DEF Linked, shaders
      <4>. QED
        BY <2>7, <2>10, <2>11, <3>2, <4>1, LinkNew
    <3>3. CASE newest[p].linked = {} /\ ~(shaders \subseteq pool /\ shaders # {})
      <4>1. T[p].linked = newest[p].linked
        BY <1>2, <1>6, <2>8, <3>3 DEF Linked, shaders
      <4>2. \A i \in e..(d - 1) : ~Links(n.queue[i], p, pool)
        BY <2>7, <2>11, <3>3 DEF Links
      <4>. QED
        BY <2>10, <2>11, <4>1, <4>2, LinkKept
    <3>. QED
      BY <3>1, <3>2, <3>3
  <2>13. Now(n.queue, T, p)
    BY <1>3, <2>12 DEF Now, Match, d
  <2>14. Clean(n.pending[p], p)
    BY <1>3, <2>9, InitialPendingIs DEF Clean
  <2>15. Finished(n, T, p)
    BY <1>0, <2>13, <2>14 DEF Finished
  <2>16. Onward(m, n, T, Just(p))
    BY <1>1, <1>3, <2>6, <2>9, <2>15, OneOnward
  <2>17. Shader \subseteq Parts /\ Just(p) \subseteq Parts
    BY DEF Parts, Just
  <2>18. Onward(s, m, T, Parts) /\ Onward(m, n, T, Parts)
    BY <2>2, <2>16, <2>17, OnwardMore
  <2>19. Onward(s, n, T, Parts)
    BY <2>18, OnwardTwice
  <2>. QED
    BY <2>15, <2>19 DEF n
<1>. QED
  BY <1>5, <1>6

(* The last command that damages an attribute decides it.                   *)
LEMMA AttributeNew ==
    ASSUME NEW q, NEW d \in Nat, NEW j \in 1..(d - 1), NEW R, NEW L, NEW P,
           NEW v, NEW i, AttributeSet(q[j], v, i),
           \A k \in (j + 1)..(d - 1) : ~AttributeSet(q[k], v, i),
           q[j].set.attribute[i].enabled = P[v].attribute[i].enabled,
           P[v].attribute[i].bound /\ P[v].attribute[i].buffer \in L =>
              /\ q[j].set.attribute[i].buffer = P[v].attribute[i].buffer
              /\ DataAt(q, j, R, P[v].attribute[i].buffer)
    PROVE  AttributeShows(q, d, R, L, P, v, i)
<1>1. ASSUME NEW k \in 1..(d - 1), AttributeSet(q[k], v, i),
             \A l \in (k + 1)..(d - 1) : ~AttributeSet(q[l], v, i)
      PROVE  k = j
  <2>1. ~(k \in (j + 1)..(d - 1)) /\ ~(j \in (k + 1)..(d - 1))
    BY <1>1
  <2>. QED
    BY <2>1
<1>. QED
  BY <1>1, Zenon DEF AttributeShows

(* The fields of the record of an attribute.                                *)
LEMMA AttributeFields ==
    ASSUME NEW a, NEW x, NEW y, NEW z,
           a = [enabled |-> x, buffer |-> y, bound |-> z]
    PROVE  a.enabled = x /\ a.buffer = y /\ a.bound = z
OBVIOUS

(* Clearing a mark that is not set changes nothing.                         *)
LEMMA Undamaged ==
    ASSUME NEW S, NEW y \in [enabled : BOOLEAN, buffer : S, damaged : BOOLEAN],
           ~y.damaged
    PROVE  [y EXCEPT !.damaged = FALSE] = y
OBVIOUS

(* A buffer that was committed with some content has data.                  *)
LEMMA DataFinished ==
    ASSUME NEW T, NEW B, Ready(T, B), NEW s, NEW b \in Buffer, b \in B.buffers,
           b \in pool, content[b] # None, Finished(s, T, b)
    PROVE  DataAt(s.queue, Len(s.queue) + 1, rendering, b)
<1>1. b \in Resource /\ b \in B.all /\ b \notin Texture
  BY Known, Apart DEF Ready, Closed
<1>2. T[b].data = content[b] /\ T[b].reached
  <2>1. T[b] = PictureOf(b, B.buffers)
    BY <1>1 DEF Ready
  <2>2. PictureOf(b, B.buffers) =
          [data |-> content[b],
           reached |-> \/ b \in B.buffers
                       \/ newest[b].reached /\ ~pending[b].damaged]
    BY PictureOfIs, ZenonT(60)
  <2>. QED
    BY <2>1, <2>2
<1>. DEFINE e == Len(s.queue) + 1
<1>3. LastIs(s.queue, e, b, "data", rendering[b].data, T[b].data)
  BY <1>2 DEF Finished, Now, Match, Shows
<1>. HIDE DEF e
<1>4. (\A j \in 1..(e - 1) : ~Sets(s.queue[j], b, "data")) =>
         rendering[b].data # None
  BY <1>2, <1>3, Zenon DEF LastIs
<1>5. \A j \in 1..(e - 1) : Sets(s.queue[j], b, "data") =>
         s.queue[j].op = "set" /\ s.queue[j].to = b
  BY DEF Sets
<1>6. DataAt(s.queue, e, rendering, b)
  BY <1>4, <1>5, Zenon DEF DataAt
<1>. QED
  BY <1>6 DEF e

(* GlVertexArray::Commit, which commits the buffers first, finishes it.     *)
LEMMA VertexArrayDone ==
    ASSUME NEW T, NEW B, Ready(T, B), NEW s, Progress(s, T),
           NEW v \in VertexArray, v \in B.all
    PROVE  /\ Onward(s, CommitVertexArray(s, v), T, Parts)
           /\ Finished(CommitVertexArray(s, v), T, v)
<1>. DEFINE n == CommitVertexArray(s, v)
            p == s.pending[v]
<1>1. /\ v \in Resource /\ v \in pool /\ Graph /\ StateOK(s)
      /\ pool \subseteq Resource
      /\ Fresh(s, v) \/ Finished(s, T, v)
  BY Known, Apart DEF Ready, Closed, Progress, Graph
<1>. DEFINE Bound(i) == IF pending[v].attribute[i].damaged
                          THEN HasContent(pending[v].attribute[i].buffer)
                          ELSE newest[v].attribute[i].bound
<1>2. \A i \in Index : T[v].attribute[i] =
         [enabled |-> pending[v].attribute[i].enabled,
          buffer |-> pending[v].attribute[i].buffer,
          bound |-> Bound(i)]
  <2>1. T[v] = PictureOf(v, B.buffers)
    BY <1>1 DEF Ready
  <2>2. \A r \in VertexArray : PictureOf(r, B.buffers) =
                [attribute |-> [i \in Index |->
                   [enabled |-> pending[r].attribute[i].enabled,
                    buffer |-> pending[r].attribute[i].buffer,
                    bound |-> IF pending[r].attribute[i].damaged
                                THEN HasContent(pending[r].attribute[i].buffer)
                                ELSE newest[r].attribute[i].bound]]]
    BY PictureOfIs, ZenonT(60)
  <2>3. T[v] = [attribute |-> [i \in Index |->
                   [enabled |-> pending[v].attribute[i].enabled,
                    buffer |-> pending[v].attribute[i].buffer,
                    bound |-> Bound(i)]]]
    BY <2>1, <2>2, Zenon
  <2>. HIDE DEF Bound
  <2>. QED
    BY <2>3
<1>3. /\ v \notin Unit /\ v \notin Technique /\ v \notin Program
      /\ v \notin Texture /\ v \notin Sampler /\ v \notin Buffer
      /\ v \notin Object /\ v \notin Shader
  BY Apart
<1>0. Aimed(T, v)
  <2>1. ASSUME NEW i \in Index
        PROVE  /\ T[v].attribute[i].enabled = pending[v].attribute[i].enabled
               /\ T[v].attribute[i].buffer = pending[v].attribute[i].buffer
    <3>. HIDE DEF Bound
    <3>1. T[v].attribute[i] = [enabled |-> pending[v].attribute[i].enabled,
                               buffer |-> pending[v].attribute[i].buffer,
                               bound |-> Bound(i)]
      BY <1>2, Zenon
    <3>. QED
      BY <3>1, AttributeFields
  <2>. QED
    BY <1>3, <2>1 DEF Aimed
<1>4. p \in [attribute : [Index -> [enabled : BOOLEAN,
                                    buffer : Ref(Buffer \cap created),
                                    damaged : BOOLEAN]],
             damaged : BOOLEAN]
  BY <1>1 DEF StateOK, PendingOK, PendingIs
<1>5. \A i \in Index :
         /\ newest[v].attribute[i] \in [enabled : BOOLEAN,
                                        buffer : Ref(Buffer \cap created),
                                        bound : BOOLEAN]
         /\ pending[v].attribute[i].damaged => pending[v].damaged
         /\ ~pending[v].attribute[i].damaged =>
              T[v].attribute[i] = newest[v].attribute[i]
  <2>1. newest[v] \in [attribute : [Index -> [enabled : BOOLEAN,
                                      buffer : Ref(Buffer \cap created),
                                      bound : BOOLEAN]]]
    BY <1>1 DEF Ready, Types, PictureOK, PictureIs
  <2>2. ASSUME NEW i \in Index
        PROVE  IF pending[v].attribute[i].damaged THEN pending[v].damaged
               ELSE /\ pending[v].attribute[i].enabled =
                         newest[v].attribute[i].enabled
                    /\ pending[v].attribute[i].buffer =
                         newest[v].attribute[i].buffer
    BY DEF Ready, Coherent
  <2>. QED
    BY <1>2, <2>1, <2>2
<1>6. CASE ~p.damaged
  <2>1. n = s
    BY <1>6 DEF CommitVertexArray
  <2>2. CASE Fresh(s, v)
    <3>. DEFINE e == Len(s.queue) + 1
    <3>0. e \in Nat /\ 1 <= e
      BY <1>1, SequenceFacts DEF StateOK
    <3>1. p = pending[v]
      BY <2>2 DEF Fresh
    <3>2. \A i \in Index : ~pending[v].attribute[i].damaged
      BY <1>5, <1>6, <3>1
    <3>. HIDE DEF e
    <3>3. ASSUME NEW i \in Index
          PROVE  AttributeShows(s.queue, e, rendering, pool, T, v, i)
      <4>1. AttributeShows(s.queue, e, rendering, pool, newest, v, i)
        BY <2>2 DEF Fresh, Now, Match, e
      <4>2. T[v].attribute[i] = newest[v].attribute[i]
        BY <1>5, <3>2
      <4>. QED
        BY <3>0, <4>1, <4>2, Unmoved, AttributeKept
    <3>4. Now(s.queue, T, v)
      BY <1>3, <3>3 DEF Now, Match, e
    <3>5. Clean(p, v)
      <4>. DEFINE a == [i \in Index |-> [pending[v].attribute[i] EXCEPT
                                           !.damaged = FALSE]]
      <4>1. ASSUME NEW i \in Index
            PROVE  a[i] = p.attribute[i]
        <5>1. p.attribute[i] \in [enabled : BOOLEAN,
                                  buffer : Ref(Buffer \cap created),
                                  damaged : BOOLEAN]
          BY <1>4
        <5>2. ~p.attribute[i].damaged
          BY <3>1, <3>2
        <5>3. a[i] = [p.attribute[i] EXCEPT !.damaged = FALSE]
          BY <3>1
        <5>. HIDE DEF p, a
        <5>. QED
          BY <5>1, <5>2, <5>3, Undamaged
      <4>2. p.attribute = a
        BY <1>4, <4>1
      <4>3. p = [attribute |-> a, damaged |-> FALSE]
        BY <1>4, <1>6, <4>2
      <4>. QED
        BY <1>3, <4>3 DEF Clean
    <3>6. Finished(s, T, v)
      BY <1>0, <3>4, <3>5 DEF Finished
    <3>. QED
      BY <2>1, <3>6, OnwardSelf
  <2>3. CASE Finished(s, T, v)
    BY <2>1, <2>3, OnwardSelf
  <2>. QED
    BY <1>1, <2>2, <2>3
<1>7. CASE p.damaged
  <2>. DEFINE refs == {p.attribute[i].buffer : i \in Index}
              m == CommitEach(CommitBuffer, s, refs)
              set == [attribute |-> p.attribute]
              c == Command(v, set)
              x == [attribute |-> [i \in Index |-> [p.attribute[i] EXCEPT
                                                      !.damaged = FALSE]],
                    damaged |-> FALSE]
              e == Len(m.queue) + 1
              d == Len(n.queue) + 1
  <2>1. Fresh(s, v)
    BY <1>1, <1>7 DEF Finished, Clean
  <2>2. p = pending[v]
    BY <2>1 DEF Fresh
  <2>3. Live(refs) \subseteq B.buffers
    BY <1>1, <1>7, <2>2 DEF Ready, Closed
  <2>4. Onward(s, m, T, Buffer) /\ \A b \in Live(refs) : Finished(m, T, b)
    <3>1. refs \in SUBSET Ref(Buffer)
      BY <1>4 DEF Ref
    <3>. HIDE DEF refs
    <3>. QED
      BY <2>3, <3>1, BuffersDone, Zenon
  <2>5. n = Committed(m, v, set, x)
    BY <1>7 DEF CommitVertexArray, Committed
  <2>6. SetOK(v, set, created)
    BY <1>3, <1>4 DEF SetOK, Ref
  <2>7. PendingIs(v, x, created)
    <3>1. x \in [attribute : [Index -> [enabled : BOOLEAN,
                                        buffer : Ref(Buffer \cap created),
                                        damaged : BOOLEAN]],
                 damaged : BOOLEAN]
      <4>1. ASSUME NEW i \in Index
            PROVE  [p.attribute[i] EXCEPT !.damaged = FALSE]
                     \in [enabled : BOOLEAN,
                         buffer : Ref(Buffer \cap created),
                         damaged : BOOLEAN]
        <5>1. p.attribute[i] \in [enabled : BOOLEAN,
                                  buffer : Ref(Buffer \cap created),
                                  damaged : BOOLEAN]
          BY <1>4
        <5>. HIDE DEF p
        <5>. QED
          BY <5>1
      <4>. HIDE DEF p
      <4>. QED
        BY <4>1
    <3>. HIDE DEF x
    <3>. QED
      BY <1>3, <3>1 DEF PendingIs
  <2>8. Clean(x, v)
    BY <1>3, <2>2 DEF Clean
  <2>9. \A i \in Index : /\ AttributeSet(c, v, i) <=> p.attribute[i].damaged
                         /\ c.set.attribute[i] = p.attribute[i]
    BY DEF AttributeSet, Command
  <2>10. \A i \in Index : p.attribute[i].buffer \in refs
    OBVIOUS
  <2>. HIDE DEF m, refs, n, set, x
  <2>11. /\ StateOK(m) /\ Progress(m, T) /\ Fresh(m, v)
    BY <1>1, <1>3, <2>1, <2>4, OthersKept DEF Onward, Progress
  <2>12. /\ Grown(m, n, Just(v)) /\ n.pending[v] = x
         /\ n.queue = Append(m.queue, c) /\ StateOK(n)
    BY <1>1, <2>5, <2>6, <2>7, <2>11, Pushed
  <2>. HIDE DEF c
  <2>13. /\ Extends(m.queue, e, n.queue, d)
         /\ \A i \in e..(d - 1) : n.queue[i] = c
         /\ e \in 1..(d - 1) /\ d = e + 1 /\ d \in Nat /\ n.queue[e] = c
    <3>. HIDE DEF e
    <3>. QED
      BY <2>11, <2>12, AppendExtends DEF StateOK, Extends, e
  <2>. HIDE DEF d, p
  <2>14. ASSUME NEW i \in Index
         PROVE  AttributeShows(n.queue, d, rendering, pool, T, v, i)
    <3>1. CASE ~p.attribute[i].damaged
      <4>. HIDE DEF e
      <4>1. T[v].attribute[i] = newest[v].attribute[i]
        BY <1>5, <2>2, <3>1
      <4>2. \A k \in e..(d - 1) : ~AttributeSet(n.queue[k], v, i)
        BY <2>9, <2>13, <3>1
      <4>3. AttributeShows(m.queue, e, rendering, pool, newest, v, i)
        BY <2>11 DEF Fresh, Now, Match, e
      <4>. QED
        BY <2>13, <4>1, <4>2, <4>3, AttributeKept
    <3>2. CASE p.attribute[i].damaged
      <4>. DEFINE b == p.attribute[i].buffer
      <4>1. /\ T[v].attribute[i].enabled = p.attribute[i].enabled
            /\ T[v].attribute[i].buffer = b
            /\ T[v].attribute[i].bound => HasContent(b)
        <5>1. /\ T[v].attribute[i].enabled = pending[v].attribute[i].enabled
              /\ T[v].attribute[i].buffer = pending[v].attribute[i].buffer
              /\ T[v].attribute[i].bound = Bound(i)
          <6>. HIDE DEF Bound
          <6>1. T[v].attribute[i] =
                  [enabled |-> pending[v].attribute[i].enabled,
                   buffer |-> pending[v].attribute[i].buffer,
                   bound |-> Bound(i)]
            BY <1>2, Zenon
          <6>. QED
            BY <6>1, AttributeFields
        <5>2. Bound(i) = HasContent(b)
          BY <2>2, <3>2, Zenon
        <5>. HIDE DEF Bound, b
        <5>3. T[v].attribute[i].bound => HasContent(b)
          BY <5>1, <5>2, Zenon
        <5>. QED
          BY <2>2, <5>1, <5>3 DEF b
      <4>2. ASSUME T[v].attribute[i].bound, b \in pool
            PROVE  DataAt(n.queue, e, rendering, b)
        <5>1. b # None /\ content[b] # None
          BY <4>1, <4>2 DEF HasContent
        <5>2. b \in Buffer
          BY <1>4, <5>1 DEF p, Ref
        <5>3. b \in Live(refs)
          BY <2>10, <4>2 DEF Live
        <5>4. DataAt(m.queue, e, rendering, b)
          BY <2>3, <2>4, <4>2, <5>1, <5>2, <5>3, DataFinished
        <5>. HIDE DEF b, e
        <5>5. Extends(m.queue, e, n.queue, e)
          BY <2>13 DEF Extends
        <5>. QED
          BY <5>4, <5>5, DataAtKept
      <4>. HIDE DEF e
      <4>3. \A k \in (e + 1)..(d - 1) : ~AttributeSet(n.queue[k], v, i)
        BY <2>13
      <4>4. AttributeSet(n.queue[e], v, i)
        BY <2>9, <2>13, <3>2
      <4>5. n.queue[e].set.attribute[i] = p.attribute[i]
        BY <2>9, <2>13
      <4>. QED
        BY <2>13, <4>1, <4>2, <4>3, <4>4, <4>5, AttributeNew
    <3>. QED
      BY <3>1, <3>2
  <2>15. Now(n.queue, T, v)
    BY <1>3, <2>14 DEF Now, Match, d
  <2>16. Finished(n, T, v)
    BY <1>0, <2>8, <2>12, <2>15 DEF Finished
  <2>17. Onward(m, n, T, Just(v))
    <3>1. Reached(m, T, v)
      BY <2>2, <2>4 DEF Reached, refs
    <3>. QED
      BY <1>1, <2>11, <2>12, <2>16, <3>1, OneOnward
  <2>18. Buffer \subseteq Parts /\ Just(v) \subseteq Parts
    BY DEF Parts, Just
  <2>19. Onward(s, m, T, Parts) /\ Onward(m, n, T, Parts)
    BY <2>4, <2>17, <2>18, OnwardMore
  <2>20. Onward(s, n, T, Parts)
    BY <2>19, OnwardTwice
  <2>. QED
    BY <2>16, <2>20 DEF n
<1>. QED
  BY <1>6, <1>7

-----------------------------------------------------------------------------
(* Techniques                                                               *)

Under(t) == Live({pending[t].program, pending[t].vertexArray,
                  pending[t].texture, pending[t].sampler})
              \cup IF pending[t].method = "elements"
                     THEN Live({pending[t].elements}) ELSE {}

(* A reference to a resource that is gone is passed over.                   *)
Done(s, n, T, ref) == /\ Onward(s, n, T, Parts)
                      /\ ref \in pool => Finished(n, T, ref)

(* A part of a technique that was finished stays finished while the next    *)
(* part is committed.                                                       *)
LEMMA DoneTwice ==
    ASSUME NEW s, NEW m, NEW n, NEW T, NEW ref, Progress(s, T),
           Onward(s, m, T, Parts), Done(m, n, T, ref)
    PROVE  /\ Onward(s, n, T, Parts) /\ Progress(n, T)
           /\ ref \in pool => Finished(n, T, ref)
           /\ \A x \in pool : Finished(m, T, x) => Finished(n, T, x)
<1>1. Onward(m, n, T, Parts) /\ Progress(n, T)
  BY DEF Done, Onward
<1>2. Onward(s, n, T, Parts)
  BY <1>1, OnwardTwice
<1>. QED
  BY <1>1, <1>2, Zenon DEF Done, Onward

(* GlBaseTechnique::Commit first commits the program, vertex array,         *)
(* texture, sampler and element buffer; all that live are finished.         *)
LEMMA PartsDone ==
    ASSUME NEW T, NEW B, Ready(T, B), NEW s, Progress(s, T),
           NEW t \in Technique, t \in B.all, NEW p,
           p.program = pending[t].program,
           p.vertexArray = pending[t].vertexArray,
           p.texture = pending[t].texture, p.sampler = pending[t].sampler,
           p.method = pending[t].method, p.elements = pending[t].elements
    PROVE  /\ Onward(s, CommitParts(s, p), T, Parts)
           /\ Progress(CommitParts(s, p), T)
           /\ \A x \in Under(t) : Finished(CommitParts(s, p), T, x)
<1>1. /\ p.program \in pool => p.program \in Program /\ p.program \in B.all
      /\ p.vertexArray \in pool => /\ p.vertexArray \in VertexArray
                                   /\ p.vertexArray \in B.all
      /\ p.texture \in pool => p.texture \in Texture /\ p.texture \in B.all
      /\ p.sampler \in pool => p.sampler \in Sampler /\ p.sampler \in B.all
      /\ p.elements \in pool => p.elements \in Buffer
      /\ p.elements \in pool /\ p.method = "elements" =>
            p.elements \in B.buffers
  <2>1. t \in Resource /\ None \notin pool
    BY Known DEF Ready, Graph
  <2>2. /\ pending[t].program \in Ref(Program)
        /\ pending[t].vertexArray \in Ref(VertexArray)
        /\ pending[t].texture \in Ref(Texture)
        /\ pending[t].sampler \in Ref(Sampler)
        /\ pending[t].elements \in Ref(Buffer)
    BY <2>1 DEF Ready, Types, PendingOK, PendingIs, Ref
  <2>3. /\ Live({pending[t].program, pending[t].vertexArray,
                 pending[t].texture, pending[t].sampler}) \subseteq B.all
        /\ pending[t].method = "elements" =>
              Live({pending[t].elements}) \subseteq B.buffers
    BY DEF Ready, Closed
  <2>. QED
    BY <2>1, <2>2, <2>3 DEF Ref, Live
<1>. DEFINE programs == CommitRef(CommitProgram, s, p.program)
            arrays == CommitRef(CommitVertexArray, programs, p.vertexArray)
            textures == CommitRef(CommitTexture, arrays, p.texture)
            samplers == CommitRef(CommitSampler, textures, p.sampler)
            buffers == CommitRef(CommitBuffer, samplers, p.elements)
            n == CommitParts(s, p)
<1>2. n = IF p.method # "elements" THEN samplers ELSE buffers
  BY Zenon DEF CommitParts
<1>3. Done(s, programs, T, p.program)
  <2>1. CASE p.program \in pool
    <3>1. programs = CommitProgram(s, p.program)
      BY <2>1, Zenon DEF CommitRef
    <3>. QED
      BY <1>1, <2>1, <3>1, ProgramDone DEF Done
  <2>2. CASE p.program \notin pool
    <3>1. programs = s
      BY <2>2, Zenon DEF CommitRef
    <3>. QED
      BY <2>2, <3>1, OnwardSelf DEF Done
  <2>. QED
    BY <2>1, <2>2
<1>. HIDE DEF programs
<1>4. Progress(programs, T)
  BY <1>3 DEF Done, Onward
<1>5. Done(programs, arrays, T, p.vertexArray)
  <2>1. CASE p.vertexArray \in pool
    <3>1. arrays = CommitVertexArray(programs, p.vertexArray)
      BY <2>1, Zenon DEF CommitRef
    <3>. QED
      BY <1>1, <1>4, <2>1, <3>1, VertexArrayDone DEF Done
  <2>2. CASE p.vertexArray \notin pool
    <3>1. arrays = programs
      BY <2>2, Zenon DEF CommitRef
    <3>. QED
      BY <1>4, <2>2, <3>1, OnwardSelf DEF Done
  <2>. QED
    BY <2>1, <2>2
<1>. HIDE DEF arrays
<1>6. Progress(arrays, T)
  BY <1>5 DEF Done, Onward
<1>7. Texture \subseteq Parts /\ Sampler \subseteq Parts /\ Buffer \subseteq Parts
  BY DEF Parts
<1>8. Done(arrays, textures, T, p.texture)
  <2>1. CASE p.texture \in pool
    <3>1. textures = CommitTexture(arrays, p.texture)
      BY <2>1, Zenon DEF CommitRef
    <3>2. Just(p.texture) \subseteq Parts
      BY <1>1, <1>7, <2>1 DEF Just
    <3>. QED
      BY <1>1, <1>6, <2>1, <3>1, <3>2, TextureDone, OnwardMore DEF Done
  <2>2. CASE p.texture \notin pool
    <3>1. textures = arrays
      BY <2>2, Zenon DEF CommitRef
    <3>. QED
      BY <1>6, <2>2, <3>1, OnwardSelf DEF Done
  <2>. QED
    BY <2>1, <2>2
<1>. HIDE DEF textures
<1>9. Progress(textures, T)
  BY <1>8 DEF Done, Onward
<1>10. Done(textures, samplers, T, p.sampler)
  <2>1. CASE p.sampler \in pool
    <3>1. samplers = CommitSampler(textures, p.sampler)
      BY <2>1, Zenon DEF CommitRef
    <3>2. Just(p.sampler) \subseteq Parts
      BY <1>1, <1>7, <2>1 DEF Just
    <3>. QED
      BY <1>1, <1>9, <2>1, <3>1, <3>2, SamplerDone, OnwardMore DEF Done
  <2>2. CASE p.sampler \notin pool
    <3>1. samplers = textures
      BY <2>2, Zenon DEF CommitRef
    <3>. QED
      BY <1>9, <2>2, <3>1, OnwardSelf DEF Done
  <2>. QED
    BY <2>1, <2>2
<1>. HIDE DEF samplers
<1>11. Progress(samplers, T)
  BY <1>10 DEF Done, Onward
<1>12. p.method = "elements" => Done(samplers, buffers, T, p.elements)
  <2>1. CASE p.elements \in pool /\ p.method = "elements"
    <3>1. buffers = CommitBuffer(samplers, p.elements)
      BY <2>1, Zenon DEF CommitRef
    <3>2. Just(p.elements) \subseteq Parts
      BY <1>1, <1>7, <2>1 DEF Just
    <3>. QED
      BY <1>1, <1>11, <2>1, <3>1, <3>2, BufferDone, OnwardMore DEF Done
  <2>2. CASE p.elements \notin pool
    <3>1. buffers = samplers
      BY <2>2, Zenon DEF CommitRef
    <3>. QED
      BY <1>11, <2>2, <3>1, OnwardSelf DEF Done
  <2>. QED
    BY <2>1, <2>2
<1>. HIDE DEF buffers, n
<1>13. /\ Onward(s, arrays, T, Parts)
       /\ p.program \in pool => Finished(arrays, T, p.program)
       /\ p.vertexArray \in pool => Finished(arrays, T, p.vertexArray)
  <2>1. Onward(s, programs, T, Parts)
    BY <1>3 DEF Done
  <2>. QED
    BY <1>3, <1>5, <2>1, DoneTwice, Zenon DEF Done
<1>14. /\ Onward(s, textures, T, Parts)
       /\ p.program \in pool => Finished(textures, T, p.program)
       /\ p.vertexArray \in pool => Finished(textures, T, p.vertexArray)
       /\ p.texture \in pool => Finished(textures, T, p.texture)
  BY <1>8, <1>13, DoneTwice, Zenon
<1>15. /\ Onward(s, samplers, T, Parts)
       /\ p.program \in pool => Finished(samplers, T, p.program)
       /\ p.vertexArray \in pool => Finished(samplers, T, p.vertexArray)
       /\ p.texture \in pool => Finished(samplers, T, p.texture)
       /\ p.sampler \in pool => Finished(samplers, T, p.sampler)
  BY <1>10, <1>14, DoneTwice, Zenon
<1>16. /\ Onward(s, n, T, Parts) /\ Progress(n, T)
       /\ p.program \in pool => Finished(n, T, p.program)
       /\ p.vertexArray \in pool => Finished(n, T, p.vertexArray)
       /\ p.texture \in pool => Finished(n, T, p.texture)
       /\ p.sampler \in pool => Finished(n, T, p.sampler)
       /\ p.method = "elements" /\ p.elements \in pool =>
             Finished(n, T, p.elements)
  <2>1. CASE p.method = "elements"
    <3>1. n = buffers
      BY <1>2, <2>1
    <3>. QED
      BY <1>12, <1>15, <2>1, <3>1, DoneTwice, Zenon
  <2>2. CASE p.method # "elements"
    <3>1. n = samplers
      BY <1>2, <2>2
    <3>. QED
      BY <1>11, <1>15, <2>2, <3>1, Zenon
  <2>. QED
    BY <2>1, <2>2
<1>17. ASSUME NEW x \in Under(t) PROVE Finished(n, T, x)
  <2>1. /\ x \in pool
        /\ \/ x = p.program \/ x = p.vertexArray \/ x = p.texture
           \/ x = p.sampler
           \/ x = p.elements /\ p.method = "elements"
    BY <1>17 DEF Under, Live
  <2>. QED
    BY <1>16, <2>1, Zenon
<1>. QED
  BY <1>16, <1>17 DEF n

(* A command with a uniform makes it the uniform of the program that is in  *)
(* use when the command is executed.                                        *)
LEMMA UniformNew ==
    ASSUME NEW q, IsSequence(q), NEW c, NEW R, NEW L, NEW P, NEW t,
           Sets(c, t, "uniform"), c.set.uniform = P[t].uniform,
           P[t].applied \in L /\ P[P[t].applied].linked \subseteq L =>
              /\ LastIs(q, Len(q) + 1, t, "program", R[t].program, P[t].applied)
              /\ LinkedAt(q, Len(q) + 1, R, P, P[t].applied)
    PROVE  UniformShows(Append(q, c), Len(Append(q, c)) + 1, R, L, P, t)
<1>. DEFINE n == Append(q, c)
            e == Len(q) + 1
            d == Len(n) + 1
            p == P[t].applied
<1>1. /\ Extends(q, e, n, d) /\ d = e + 1 /\ n[e] = c /\ e \in 1..(d - 1)
      /\ d \in Nat
  BY AppendExtends DEF Extends
<1>. HIDE DEF n, e, d
<1>2. Extends(q, e, n, e) /\ e..(e - 1) = {}
  BY <1>1 DEF Extends
<1>3. ASSUME NEW j \in 1..(d - 1), Sets(n[j], t, "uniform"),
             \A k \in (j + 1)..(d - 1) : ~Sets(n[k], t, "uniform")
      PROVE  j = e
  <2>1. ~(e \in (j + 1)..(d - 1))
    BY <1>1, <1>3
  <2>. QED
    BY <1>1, <2>1
<1>4. ASSUME p \in L, P[p].linked \subseteq L
      PROVE  LastIs(n, e, t, "program", R[t].program, p)
             /\ LinkedAt(n, e, R, P, p)
  <2>1. LastIs(q, e, t, "program", R[t].program, p) /\ LinkedAt(q, e, R, P, p)
    BY <1>4 DEF e
  <2>2. LastIs(n, e, t, "program", R[t].program, p)
    BY <1>2, <2>1, LastIsKept
  <2>3. LinkedAt(n, e, R, P, p)
    BY <1>2, <2>1, LinkedAtKept, Zenon
  <2>. QED
    BY <2>2, <2>3
<1>5. \E j \in 1..(d - 1) : Sets(n[j], t, "uniform")
  BY <1>1
<1>6. UniformShows(n, d, R, L, P, t)
  BY <1>1, <1>3, <1>4, <1>5, Zenon DEF UniformShows
<1>. QED
  BY <1>6 DEF n, d

(* One of the commands for a technique                                      *)
LEMMA PushedIf ==
    ASSUME NEW s, StateOK(s), NEW t \in Technique, t \in pool,
           NEW set, NEW damaged, damaged => SetOK(t, set, created)
    PROVE  LET n == PushIf(s, damaged, t, set)
           IN  /\ Grown(s, n, Just(t)) /\ StateOK(n) /\ n.pending = s.pending
               /\ \A f, old, val :
                    (IF damaged /\ f \in DOMAIN set THEN set[f] = val
                     ELSE LastIs(s.queue, Len(s.queue) + 1, t, f, old, val))
                    => LastIs(n.queue, Len(n.queue) + 1, t, f, old, val)
               /\ "uniform" \notin DOMAIN set => \A P :
                    UniformShows(s.queue, Len(s.queue) + 1, rendering, pool,
                                 P, t) =>
                    UniformShows(n.queue, Len(n.queue) + 1, rendering, pool,
                                 P, t)
<1>. DEFINE n == PushIf(s, damaged, t, set)
<1>1. CASE ~damaged
  <2>1. n = s
    BY <1>1 DEF PushIf
  <2>. QED
    BY <1>1, <2>1, GrownSelf
<1>2. CASE damaged
  <2>. DEFINE c == Command(t, set)
  <2>1. n = Push(s, t, set)
    BY <1>2 DEF PushIf
  <2>. HIDE DEF n
  <2>2. /\ Grown(s, n, Just(t)) /\ StateOK(n) /\ n.pending = s.pending
        /\ n.queue = Append(s.queue, c)
    BY <1>2, <2>1, PushGrown
  <2>3. \A f : /\ Sets(c, t, f) <=> f \in DOMAIN set
               /\ c.set = set
    BY Apart DEF Sets, Command
  <2>. HIDE DEF c
  <2>4. ASSUME NEW f, NEW old, NEW val,
               IF f \in DOMAIN set THEN set[f] = val
               ELSE LastIs(s.queue, Len(s.queue) + 1, t, f, old, val)
        PROVE  LastIs(n.queue, Len(n.queue) + 1, t, f, old, val)
    <3>1. \/ Sets(c, t, f) /\ c.set[f] = val
          \/ ~Sets(c, t, f) /\ LastIs(s.queue, Len(s.queue) + 1, t, f, old, val)
      BY <2>3, <2>4
    <3>. QED
      BY <2>2, <3>1, FieldAppended DEF StateOK
  <2>5. ASSUME "uniform" \notin DOMAIN set, NEW P,
               UniformShows(s.queue, Len(s.queue) + 1, rendering, pool, P, t)
        PROVE  UniformShows(n.queue, Len(n.queue) + 1, rendering, pool, P, t)
    <3>. DEFINE e == Len(s.queue) + 1
                d == Len(n.queue) + 1
    <3>1. Extends(s.queue, e, n.queue, d)
          /\ \A i \in e..(d - 1) : n.queue[i] = c
      BY <2>2, AppendExtends DEF StateOK
    <3>2. ~Sets(c, t, "uniform")
      BY <2>3, <2>5
    <3>3. UniformShows(s.queue, e, rendering, pool, P, t)
      BY <2>5
    <3>. HIDE DEF e, d
    <3>4. UniformShows(n.queue, d, rendering, pool, P, t)
      BY <3>1, <3>2, <3>3, UniformKept
    <3>. QED
      BY <3>4 DEF d
  <2>. QED
    BY <1>2, <2>2, <2>4, <2>5 DEF n
<1>. QED
  BY <1>1, <1>2

(* A program that was committed and whose shaders are alive is linked.      *)
LEMMA LinkFinished ==
    ASSUME NEW T, NEW s, NEW p \in Program, Finished(s, T, p),
           T[p].linked # {}, T[p].linked \subseteq pool
    PROVE  LinkedAt(s.queue, Len(s.queue) + 1, rendering, T, p)
<1>1. LinkShows(s.queue, Len(s.queue) + 1, rendering, pool, T, p)
  BY DEF Finished, Now, Match
<1>. QED
  BY <1>1, Zenon DEF LinkShows, LinkedAt

(* What a technique has in its pending state, and what is in the queue      *)
Has(s, T, t, f) ==
    LastIs(s.queue, Len(s.queue) + 1, t, f, rendering[t][f], T[t][f])

HasUniform(s, T, t) ==
    UniformShows(s.queue, Len(s.queue) + 1, rendering, pool, T, t)

(* The picture of a technique that is committed.                            *)
LEMMA TechniqueAim ==
    ASSUME NEW T, NEW B, Ready(T, B), NEW t \in Technique, t \in B.all
    PROVE  TechniquePicture(T, t)
<1>. DEFINE applied == IF pending[t].uniform = None THEN newest[t].applied
                       ELSE IF LinkedBy(pending[t].program)
                         THEN pending[t].program ELSE None
<1>1. T[t] = PictureOf(t, B.buffers)
  BY Known DEF Ready
<1>2. PictureOf(t, B.buffers) =
        [program |-> pending[t].program,
         vertexArray |-> pending[t].vertexArray,
         texture |-> pending[t].texture,
         sampler |-> pending[t].sampler,
         method |-> pending[t].method,
         elements |-> pending[t].elements,
         uniform |-> content[t],
         applied |-> applied]
  <2>1. \A r \in Technique : PictureOf(r, B.buffers) =
                [program |-> pending[r].program,
                 vertexArray |-> pending[r].vertexArray,
                 texture |-> pending[r].texture,
                 sampler |-> pending[r].sampler,
                 method |-> pending[r].method,
                 elements |-> pending[r].elements,
                 uniform |-> content[r],
                 applied |-> IF pending[r].uniform = None
                               THEN newest[r].applied
                             ELSE IF LinkedBy(pending[r].program)
                               THEN pending[r].program
                             ELSE None]
    BY PictureOfIs, ZenonT(60)
  <2>. QED
    BY <2>1, Zenon
<1>3. T[t].applied = applied
  <2>. HIDE DEF applied
  <2>. QED
    BY <1>1, <1>2
<1>4. /\ T[t].program = pending[t].program
      /\ T[t].vertexArray = pending[t].vertexArray
      /\ T[t].texture = pending[t].texture
      /\ T[t].sampler = pending[t].sampler
      /\ T[t].method = pending[t].method
      /\ T[t].elements = pending[t].elements
      /\ T[t].uniform = content[t]
  <2>. HIDE DEF applied
  <2>. QED
    BY <1>1, <1>2
<1>. QED
  BY <1>3, <1>4, Zenon DEF TechniquePicture

(* The programs of techniques that were already applied stay as they are.   *)
LEMMA AppliedKept ==
    ASSUME NEW T, NEW B, Ready(T, B), NEW t \in Technique,
           newest[t].applied # None
    PROVE  T[newest[t].applied].linked = newest[newest[t].applied].linked
<1>. DEFINE a == newest[t].applied
<1>1. t \in Resource
  BY Known
<1>2. a \in Ref(Program \cap created)
  BY <1>1 DEF Ready, Types, PictureOK, PictureIs
<1>3. a \in Program /\ a \in Resource
  BY <1>1, <1>2, Known DEF Ref
<1>4. newest[a].linked # {}
  BY <1>1 DEF Ready, Types, PictureOK
<1>. HIDE DEF a
<1>5. CASE a \in B.all
  <2>1. PictureOf(a, B.buffers) = [linked |-> Linked(a)]
    BY <1>3, PictureOfIs, ZenonT(60)
  <2>2. Linked(a) = newest[a].linked
    BY <1>4 DEF Linked
  <2>. QED
    BY <1>3, <1>5, <2>1, <2>2 DEF Ready, a
<1>6. CASE a \notin B.all
  BY <1>3, <1>6 DEF Ready, a
<1>. QED
  BY <1>5, <1>6

TechniqueState(s, T, t) ==
    LET p == s.pending[t]
        sendUniform == p.program \in pool /\ p.uniform # None
    IN  /\ p \in [program : Ref(Program \cap created), programDamaged : BOOLEAN,
                  vertexArray : Ref(VertexArray \cap created),
                  vertexArrayDamaged : BOOLEAN,
                  texture : Ref(Texture \cap created),
                  sampler : Ref(Sampler \cap created),
                  textureDamaged : BOOLEAN,
                  method : Method, elements : Ref(Buffer \cap created),
                  methodDamaged : BOOLEAN, uniform : Data]
        /\ p.program = pending[t].program
        /\ p.vertexArray = pending[t].vertexArray
        /\ p.texture = pending[t].texture
        /\ p.sampler = pending[t].sampler
        /\ p.method = pending[t].method
        /\ p.elements = pending[t].elements
        /\ ~p.programDamaged => Has(s, T, t, "program")
        /\ ~p.vertexArrayDamaged => Has(s, T, t, "vertexArray")
        /\ ~p.methodDamaged => /\ Has(s, T, t, "method")
                               /\ Has(s, T, t, "elements")
        /\ ~p.textureDamaged /\ {T[t].texture, T[t].sampler} \subseteq pool =>
              Has(s, T, t, "texture") /\ Has(s, T, t, "sampler")
        /\ IF sendUniform THEN /\ p.uniform = content[t]
                               /\ pending[t].uniform # None
           ELSE HasUniform(s, T, t)
        /\ Clean([p EXCEPT !.methodDamaged = FALSE, !.programDamaged = FALSE,
                           !.vertexArrayDamaged = FALSE,
                           !.textureDamaged = FALSE,
                           !.uniform = IF sendUniform THEN None
                                       ELSE p.uniform], t)

(* A technique that the commit has not reached is in the state its commit   *)
(* begins with.                                                             *)
LEMMA TechniqueFresh ==
    ASSUME NEW T, NEW B, Ready(T, B), NEW s, StateOK(s),
           NEW t \in Technique, t \in B.all, Fresh(s, t)
    PROVE  TechniqueState(s, T, t)
<1>. DEFINE p == s.pending[t]
            sendUniform == p.program \in pool /\ p.uniform # None
            e == Len(s.queue) + 1
<1>1. p = pending[t]
  BY DEF Fresh
<1>2. /\ t \notin Object /\ t \notin Unit /\ t \notin VertexArray
      /\ t \notin Buffer /\ t \notin Program /\ t \notin Shader
      /\ t \notin Texture /\ t \notin Sampler
      /\ t \in Resource /\ None \notin pool
  BY Apart, Known DEF Ready, Graph
<1>3. p \in [program : Ref(Program \cap created), programDamaged : BOOLEAN,
             vertexArray : Ref(VertexArray \cap created),
             vertexArrayDamaged : BOOLEAN,
             texture : Ref(Texture \cap created),
             sampler : Ref(Sampler \cap created), textureDamaged : BOOLEAN,
             method : Method, elements : Ref(Buffer \cap created),
             methodDamaged : BOOLEAN, uniform : Data]
  BY <1>2 DEF StateOK, PendingOK, PendingIs
<1>4. TechniquePicture(T, t)
  BY TechniqueAim
<1>5. /\ \A f \in {"program", "vertexArray", "method", "elements"} :
            LastIs(s.queue, e, t, f, rendering[t][f], newest[t][f])
      /\ {newest[t].texture, newest[t].sampler} \subseteq pool =>
            \A f \in {"texture", "sampler"} :
               LastIs(s.queue, e, t, f, rendering[t][f], newest[t][f])
      /\ UniformShows(s.queue, e, rendering, pool, newest, t)
  BY Zenon DEF Fresh, Now, Match, Shows
<1>6. /\ ~p.programDamaged => p.program = newest[t].program
      /\ ~p.vertexArrayDamaged => p.vertexArray = newest[t].vertexArray
      /\ ~p.methodDamaged => /\ p.method = newest[t].method
                             /\ p.elements = newest[t].elements
      /\ ~p.textureDamaged => /\ p.texture = newest[t].texture
                              /\ p.sampler = newest[t].sampler
      /\ IF p.uniform = None THEN content[t] = newest[t].uniform
                             ELSE p.uniform = content[t]
  BY <1>1 DEF Ready, Coherent
<1>. HIDE DEF e
<1>7. /\ ~p.programDamaged => Has(s, T, t, "program")
      /\ ~p.vertexArrayDamaged => Has(s, T, t, "vertexArray")
      /\ ~p.methodDamaged => Has(s, T, t, "method") /\ Has(s, T, t, "elements")
  BY <1>1, <1>4, <1>5, <1>6 DEF Has, TechniquePicture, e
<1>8. ~p.textureDamaged /\ {T[t].texture, T[t].sampler} \subseteq pool =>
         Has(s, T, t, "texture") /\ Has(s, T, t, "sampler")
  BY <1>1, <1>4, <1>5, <1>6 DEF Has, TechniquePicture, e
<1>9. IF sendUniform THEN p.uniform = content[t] /\ pending[t].uniform # None
      ELSE HasUniform(s, T, t)
  <2>1. CASE sendUniform
    BY <1>1, <1>6, <2>1
  <2>2. CASE ~sendUniform /\ p.uniform = None
    <3>1. T[t].uniform = newest[t].uniform /\ T[t].applied = newest[t].applied
      BY <1>1, <1>4, <1>6, <2>2 DEF TechniquePicture
    <3>2. T[t].applied \in pool =>
             T[newest[t].applied].linked = newest[newest[t].applied].linked
      BY <1>2, <3>1, AppliedKept
    <3>3. e \in Nat /\ 1 <= e
      BY SequenceFacts DEF StateOK, e
    <3>4. Extends(s.queue, e, s.queue, e) /\ e..(e - 1) = {}
      BY <3>3, Unmoved
    <3>5. UniformShows(s.queue, e, rendering, pool, newest, t)
      BY <1>5
    <3>6. UniformShows(s.queue, e, rendering, pool, T, t)
      BY <3>1, <3>2, <3>4, <3>5, UniformKept
    <3>. QED
      BY <2>2, <3>6 DEF HasUniform, e
  <2>3. CASE ~sendUniform /\ p.uniform # None
    <3>1. T[t].applied = None
      BY <1>1, <1>4, <2>3 DEF TechniquePicture, LinkedBy
    <3>2. HasUniform(s, T, t)
      BY <1>2, <3>1 DEF HasUniform, UniformShows
    <3>. QED
      BY <2>3, <3>2
  <2>. QED
    BY <2>1, <2>2, <2>3
<1>10. Clean([p EXCEPT !.methodDamaged = FALSE, !.programDamaged = FALSE,
                       !.vertexArrayDamaged = FALSE, !.textureDamaged = FALSE,
                       !.uniform = IF sendUniform THEN None ELSE p.uniform], t)
  <2>1. (IF sendUniform THEN None ELSE p.uniform) =
          (IF pending[t].program \in pool THEN None ELSE pending[t].uniform)
    BY <1>1
  <2>2. [p EXCEPT !.methodDamaged = FALSE, !.programDamaged = FALSE,
                  !.vertexArrayDamaged = FALSE, !.textureDamaged = FALSE,
                  !.uniform = IF sendUniform THEN None ELSE p.uniform] =
        [pending[t] EXCEPT !.methodDamaged = FALSE, !.programDamaged = FALSE,
                  !.vertexArrayDamaged = FALSE, !.textureDamaged = FALSE,
                  !.uniform = IF pending[t].program \in pool THEN None ELSE @]
    BY <1>1, <2>1
  <2>. HIDE DEF p, sendUniform
  <2>. QED
    BY <1>2, <2>2 DEF Clean
<1>. QED
  BY <1>1, <1>3, <1>7, <1>8, <1>9, <1>10, Zenon DEF TechniqueState

(* So is a technique that is committed a second time: it is shared by       *)
(* several units.                                                           *)
LEMMA TechniqueFinished ==
    ASSUME NEW T, NEW B, Ready(T, B), NEW s, StateOK(s),
           NEW t \in Technique, t \in B.all, Finished(s, T, t)
    PROVE  TechniqueState(s, T, t)
<1>. DEFINE p == s.pending[t]
            sendUniform == p.program \in pool /\ p.uniform # None
            e == Len(s.queue) + 1
<1>1. t \in Resource /\ None \notin pool
  BY Known DEF Ready, Graph
<1>2. /\ p \in [program : Ref(Program \cap created), programDamaged : BOOLEAN,
                vertexArray : Ref(VertexArray \cap created),
                vertexArrayDamaged : BOOLEAN,
                texture : Ref(Texture \cap created),
                sampler : Ref(Sampler \cap created), textureDamaged : BOOLEAN,
                method : Method, elements : Ref(Buffer \cap created),
                methodDamaged : BOOLEAN, uniform : Data]
      /\ pending[t] \in
               [program : Ref(Program \cap created), programDamaged : BOOLEAN,
                vertexArray : Ref(VertexArray \cap created),
                vertexArrayDamaged : BOOLEAN,
                texture : Ref(Texture \cap created),
                sampler : Ref(Sampler \cap created), textureDamaged : BOOLEAN,
                method : Method, elements : Ref(Buffer \cap created),
                methodDamaged : BOOLEAN, uniform : Data]
  BY <1>1 DEF StateOK, PendingOK, PendingIs, Ready, Types
<1>3. p = [pending[t] EXCEPT !.methodDamaged = FALSE, !.programDamaged = FALSE,
                            !.vertexArrayDamaged = FALSE,
                            !.textureDamaged = FALSE,
                            !.uniform = IF pending[t].program \in pool
                                          THEN None ELSE @]
  BY DEF Finished, Clean
<1>4. /\ p.program = pending[t].program
      /\ p.vertexArray = pending[t].vertexArray
      /\ p.texture = pending[t].texture
      /\ p.sampler = pending[t].sampler
      /\ p.method = pending[t].method
      /\ p.elements = pending[t].elements
      /\ p.methodDamaged = FALSE /\ p.programDamaged = FALSE
      /\ p.vertexArrayDamaged = FALSE /\ p.textureDamaged = FALSE
      /\ p.uniform = IF pending[t].program \in pool THEN None
                     ELSE pending[t].uniform
  <2>. HIDE DEF p
  <2>. QED
    BY <1>2, <1>3
<1>5. ~sendUniform
  BY <1>4
<1>6. /\ \A f \in {"program", "vertexArray", "method", "elements"} :
            LastIs(s.queue, e, t, f, rendering[t][f], T[t][f])
      /\ {T[t].texture, T[t].sampler} \subseteq pool =>
            \A f \in {"texture", "sampler"} :
               LastIs(s.queue, e, t, f, rendering[t][f], T[t][f])
      /\ UniformShows(s.queue, e, rendering, pool, T, t)
  BY Zenon DEF Finished, Now, Match, Shows
<1>7. /\ Has(s, T, t, "program") /\ Has(s, T, t, "vertexArray")
      /\ Has(s, T, t, "method") /\ Has(s, T, t, "elements")
      /\ {T[t].texture, T[t].sampler} \subseteq pool =>
            Has(s, T, t, "texture") /\ Has(s, T, t, "sampler")
      /\ HasUniform(s, T, t)
  BY <1>6 DEF Has, HasUniform
<1>8. Clean([p EXCEPT !.methodDamaged = FALSE, !.programDamaged = FALSE,
                      !.vertexArrayDamaged = FALSE, !.textureDamaged = FALSE,
                      !.uniform = IF sendUniform THEN None ELSE p.uniform], t)
  <2>1. [p EXCEPT !.methodDamaged = FALSE, !.programDamaged = FALSE,
                  !.vertexArrayDamaged = FALSE, !.textureDamaged = FALSE,
                  !.uniform = IF sendUniform THEN None ELSE p.uniform] = p
    <3>. HIDE DEF p, sendUniform
    <3>. QED
      BY <1>2, <1>4, <1>5
  <2>2. Clean(p, t)
    BY DEF Finished
  <2>. QED
    BY <2>1, <2>2, Zenon
<1>. QED
  BY <1>2, <1>4, <1>5, <1>7, <1>8, Zenon DEF TechniqueState

(* GlBaseTechnique::Commit finishes the technique and what it refers to.    *)
LEMMA TechniqueDone ==
    ASSUME NEW T, NEW B, Ready(T, B), NEW s, Progress(s, T),
           NEW t \in Technique, t \in B.all
    PROVE  /\ Onward(s, CommitTechnique(s, t), T, Parts \cup Just(t))
           /\ Finished(CommitTechnique(s, t), T, t)
           /\ \A x \in Under(t) : Finished(CommitTechnique(s, t), T, x)
<1>. DEFINE p == s.pending[t]
            sendUniform == p.program \in pool /\ p.uniform # None
            a == [method |-> p.method, elements |-> p.elements]
            b == [program |-> p.program]
            c == [vertexArray |-> p.vertexArray]
            d == [texture |-> p.texture, sampler |-> p.sampler]
            e == [uniform |-> p.uniform]
            Z(x) == [x EXCEPT !.methodDamaged = FALSE, !.programDamaged = FALSE,
                              !.vertexArrayDamaged = FALSE,
                              !.textureDamaged = FALSE,
                              !.uniform = IF sendUniform THEN None
                                          ELSE p.uniform]
            y == Z(p)
            m == CommitParts(s, p)
            m1 == PushIf(m, p.methodDamaged, t, a)
            m2 == PushIf(m1, p.programDamaged, t, b)
            m3 == PushIf(m2, p.vertexArrayDamaged, t, c)
            m4 == PushIf(m3, p.textureDamaged, t, d)
            m5 == PushIf(m4, sendUniform, t, e)
            n == CommitTechnique(s, t)
<1>1. /\ t \in Resource /\ t \in pool /\ Graph /\ StateOK(s)
      /\ pool \subseteq Resource
      /\ Fresh(s, t) \/ Finished(s, T, t)
  BY Known, Apart DEF Ready, Closed, Progress, Graph
<1>2. /\ t \notin Unit /\ t \notin VertexArray /\ t \notin Program
      /\ t \notin Texture /\ t \notin Sampler /\ t \notin Buffer
      /\ t \notin Object /\ t \notin Shader /\ t \notin Parts
  BY Apart DEF Parts
<1>3. TechniqueState(s, T, t) /\ TechniquePicture(T, t)
  BY <1>1, TechniqueFresh, TechniqueFinished, TechniqueAim
<1>4. /\ Onward(s, m, T, Parts) /\ Progress(m, T) /\ StateOK(m)
      /\ \A x \in Under(t) : Finished(m, T, x)
  <2>1. /\ p.program = pending[t].program
        /\ p.vertexArray = pending[t].vertexArray
        /\ p.texture = pending[t].texture /\ p.sampler = pending[t].sampler
        /\ p.method = pending[t].method /\ p.elements = pending[t].elements
    BY <1>3 DEF TechniqueState
  <2>. HIDE DEF p
  <2>. QED
    BY <2>1, PartsDone DEF Progress
<1>5. n = [m5 EXCEPT !.pending[t] = Z(m5.pending[t])]
  <2>1. n = [m5 EXCEPT !.pending[t] =
              [@ EXCEPT !.methodDamaged = FALSE, !.programDamaged = FALSE,
                        !.vertexArrayDamaged = FALSE, !.textureDamaged = FALSE,
                        !.uniform = IF sendUniform THEN None ELSE p.uniform]]
    BY Zenon DEF CommitTechnique
  <2>. HIDE DEF m5, n, sendUniform, p
  <2>. QED
    BY <2>1, Zenon
<1>. HIDE DEF m, n
<1>6. m.pending[t] = p /\ TechniqueState(m, T, t)
  <2>0. Grown(s, m, Parts) /\ t \in pool \ Parts
    BY <1>1, <1>2, <1>4 DEF Onward
  <2>1. m.pending[t] = p
    BY <1>1, <2>0, OthersKept
  <2>2. Fresh(m, t) \/ Finished(m, T, t)
    BY <1>1, <1>2, <1>4 DEF Progress
  <2>. QED
    BY <1>4, <2>1, <2>2, TechniqueFresh, TechniqueFinished
<1>7. /\ p \in [program : Ref(Program \cap created), programDamaged : BOOLEAN,
                vertexArray : Ref(VertexArray \cap created),
                vertexArrayDamaged : BOOLEAN,
                texture : Ref(Texture \cap created),
                sampler : Ref(Sampler \cap created),
                textureDamaged : BOOLEAN,
                method : Method, elements : Ref(Buffer \cap created),
                methodDamaged : BOOLEAN, uniform : Data]
      /\ p.program = pending[t].program
      /\ p.vertexArray = pending[t].vertexArray
      /\ p.texture = pending[t].texture
      /\ p.sampler = pending[t].sampler
      /\ p.method = pending[t].method
      /\ p.elements = pending[t].elements
      /\ ~p.programDamaged => Has(m, T, t, "program")
      /\ ~p.vertexArrayDamaged => Has(m, T, t, "vertexArray")
      /\ ~p.methodDamaged => Has(m, T, t, "method") /\ Has(m, T, t, "elements")
      /\ ~p.textureDamaged /\ {T[t].texture, T[t].sampler} \subseteq pool =>
            Has(m, T, t, "texture") /\ Has(m, T, t, "sampler")
      /\ IF sendUniform THEN p.uniform = content[t] /\ pending[t].uniform # None
         ELSE HasUniform(m, T, t)
      /\ Clean(y, t)
  BY <1>6, Zenon DEF TechniqueState
<1>8. /\ SetOK(t, a, created) /\ SetOK(t, b, created) /\ SetOK(t, c, created)
      /\ SetOK(t, d, created)
      /\ sendUniform => SetOK(t, e, created)
  <2>1. a \in [method : Method, elements : Ref(Buffer)]
    BY <1>7 DEF Ref
  <2>2. b \in [program : Ref(Program)]
    BY <1>7 DEF Ref
  <2>3. c \in [vertexArray : Ref(VertexArray)]
    BY <1>7 DEF Ref
  <2>4. d \in [texture : Ref(Texture), sampler : Ref(Sampler)]
    BY <1>7 DEF Ref
  <2>5. sendUniform => e \in [uniform : Content]
    BY <1>7 DEF Data
  <2>. HIDE DEF a, b, c, d, e, sendUniform
  <2>. QED
    BY <1>2, <2>1, <2>2, <2>3, <2>4, <2>5 DEF SetOK
<1>9. PendingIs(t, y, created)
  <2>1. y \in [program : Ref(Program \cap created), programDamaged : BOOLEAN,
                vertexArray : Ref(VertexArray \cap created),
                vertexArrayDamaged : BOOLEAN,
                texture : Ref(Texture \cap created),
                sampler : Ref(Sampler \cap created),
                textureDamaged : BOOLEAN,
                method : Method, elements : Ref(Buffer \cap created),
                methodDamaged : BOOLEAN, uniform : Data]
    <3>. HIDE DEF p, sendUniform
    <3>. QED
      BY <1>7 DEF Data
  <2>. HIDE DEF y
  <2>. QED
    BY <1>2, <2>1 DEF PendingIs
<1>10. /\ DOMAIN a = {"method", "elements"} /\ DOMAIN b = {"program"}
       /\ DOMAIN c = {"vertexArray"} /\ DOMAIN d = {"texture", "sampler"}
       /\ a["method"] = T[t]["method"] /\ a["elements"] = T[t]["elements"]
       /\ b["program"] = T[t]["program"]
       /\ c["vertexArray"] = T[t]["vertexArray"]
       /\ d["texture"] = T[t]["texture"] /\ d["sampler"] = T[t]["sampler"]
       /\ e["uniform"] = p.uniform /\ DOMAIN e = {"uniform"}
  BY <1>3, <1>7 DEF TechniquePicture
<1>. HIDE DEF a, b, c, d, e, p, y, Z, sendUniform
<1>11. /\ Grown(m, m1, Just(t)) /\ StateOK(m1) /\ m1.pending = m.pending
       /\ Has(m1, T, t, "method") /\ Has(m1, T, t, "elements")
       /\ \A f \in {"program", "vertexArray", "texture", "sampler"} :
             Has(m, T, t, f) => Has(m1, T, t, f)
       /\ HasUniform(m, T, t) => HasUniform(m1, T, t)
  <2>1. /\ Grown(m, m1, Just(t)) /\ StateOK(m1) /\ m1.pending = m.pending
        /\ \A f, old, val :
              (IF p.methodDamaged /\ f \in DOMAIN a THEN a[f] = val
               ELSE LastIs(m.queue, Len(m.queue) + 1, t, f, old, val))
              => LastIs(m1.queue, Len(m1.queue) + 1, t, f, old, val)
        /\ "uniform" \notin DOMAIN a => \A P :
              UniformShows(m.queue, Len(m.queue) + 1, rendering, pool, P, t) =>
              UniformShows(m1.queue, Len(m1.queue) + 1, rendering, pool, P, t)
    BY <1>1, <1>4, <1>8, PushedIf
  <2>. HIDE DEF m1
  <2>. QED
    BY <1>7, <1>10, <2>1 DEF Has, HasUniform
<1>. HIDE DEF m1
<1>12. /\ Grown(m1, m2, Just(t)) /\ StateOK(m2) /\ m2.pending = m1.pending
       /\ Has(m2, T, t, "program")
       /\ \A f \in {"method", "elements", "vertexArray", "texture", "sampler"} :
             Has(m1, T, t, f) => Has(m2, T, t, f)
       /\ HasUniform(m1, T, t) => HasUniform(m2, T, t)
  <2>1. /\ Grown(m1, m2, Just(t)) /\ StateOK(m2) /\ m2.pending = m1.pending
        /\ \A f, old, val :
              (IF p.programDamaged /\ f \in DOMAIN b THEN b[f] = val
               ELSE LastIs(m1.queue, Len(m1.queue) + 1, t, f, old, val))
              => LastIs(m2.queue, Len(m2.queue) + 1, t, f, old, val)
        /\ "uniform" \notin DOMAIN b => \A P :
              UniformShows(m1.queue, Len(m1.queue) + 1, rendering, pool, P, t) =>
              UniformShows(m2.queue, Len(m2.queue) + 1, rendering, pool, P, t)
    BY <1>1, <1>8, <1>11, PushedIf
  <2>. HIDE DEF m2
  <2>. QED
    BY <1>7, <1>10, <1>11, <2>1 DEF Has, HasUniform
<1>. HIDE DEF m2
<1>13. /\ Grown(m2, m3, Just(t)) /\ StateOK(m3) /\ m3.pending = m2.pending
       /\ Has(m3, T, t, "vertexArray")
       /\ \A f \in {"method", "elements", "program", "texture", "sampler"} :
             Has(m2, T, t, f) => Has(m3, T, t, f)
       /\ HasUniform(m2, T, t) => HasUniform(m3, T, t)
  <2>1. /\ Grown(m2, m3, Just(t)) /\ StateOK(m3) /\ m3.pending = m2.pending
        /\ \A f, old, val :
              (IF p.vertexArrayDamaged /\ f \in DOMAIN c THEN c[f] = val
               ELSE LastIs(m2.queue, Len(m2.queue) + 1, t, f, old, val))
              => LastIs(m3.queue, Len(m3.queue) + 1, t, f, old, val)
        /\ "uniform" \notin DOMAIN c => \A P :
              UniformShows(m2.queue, Len(m2.queue) + 1, rendering, pool, P, t) =>
              UniformShows(m3.queue, Len(m3.queue) + 1, rendering, pool, P, t)
    BY <1>1, <1>8, <1>12, PushedIf
  <2>. HIDE DEF m3
  <2>. QED
    BY <1>7, <1>10, <1>11, <1>12, <2>1 DEF Has, HasUniform
<1>. HIDE DEF m3
<1>14. /\ Grown(m3, m4, Just(t)) /\ StateOK(m4) /\ m4.pending = m3.pending
       /\ {T[t].texture, T[t].sampler} \subseteq pool =>
             Has(m4, T, t, "texture") /\ Has(m4, T, t, "sampler")
       /\ \A f \in {"method", "elements", "program", "vertexArray"} :
             Has(m3, T, t, f) => Has(m4, T, t, f)
       /\ HasUniform(m3, T, t) => HasUniform(m4, T, t)
  <2>1. /\ Grown(m3, m4, Just(t)) /\ StateOK(m4) /\ m4.pending = m3.pending
        /\ \A f, old, val :
              (IF p.textureDamaged /\ f \in DOMAIN d THEN d[f] = val
               ELSE LastIs(m3.queue, Len(m3.queue) + 1, t, f, old, val))
              => LastIs(m4.queue, Len(m4.queue) + 1, t, f, old, val)
        /\ "uniform" \notin DOMAIN d => \A P :
              UniformShows(m3.queue, Len(m3.queue) + 1, rendering, pool, P, t) =>
              UniformShows(m4.queue, Len(m4.queue) + 1, rendering, pool, P, t)
    BY <1>1, <1>8, <1>13, PushedIf
  <2>. HIDE DEF m4
  <2>2. ~p.textureDamaged /\ {T[t].texture, T[t].sampler} \subseteq pool =>
           Has(m3, T, t, "texture") /\ Has(m3, T, t, "sampler")
    BY <1>7, <1>11, <1>12, <1>13
  <2>. QED
    BY <1>10, <2>1, <2>2 DEF Has, HasUniform
<1>. HIDE DEF m4
<1>15. Grown(m, m4, Just(t))
  BY <1>4, <1>11, <1>12, <1>13, <1>14, GrownTwice
<1>16. /\ Grown(m4, m5, Just(t)) /\ StateOK(m5) /\ m5.pending = m4.pending
       /\ \A f \in {"method", "elements", "program", "vertexArray", "texture",
                    "sampler"} :
             Has(m4, T, t, f) => Has(m5, T, t, f)
       /\ HasUniform(m5, T, t)
  <2>1. /\ Grown(m4, m5, Just(t)) /\ StateOK(m5) /\ m5.pending = m4.pending
        /\ \A f, old, val :
              (IF sendUniform /\ f \in DOMAIN e THEN e[f] = val
               ELSE LastIs(m4.queue, Len(m4.queue) + 1, t, f, old, val))
              => LastIs(m5.queue, Len(m5.queue) + 1, t, f, old, val)
    BY <1>1, <1>8, <1>14, PushedIf
  <2>2. CASE ~sendUniform
    <3>1. m5 = m4
      BY <2>2 DEF PushIf
    <3>2. HasUniform(m4, T, t)
      BY <1>7, <1>11, <1>12, <1>13, <1>14, <2>2
    <3>. QED
      BY <2>1, <3>1, <3>2
  <2>3. CASE sendUniform
    <3>. DEFINE k == Command(t, e)
                q == m4.queue
    <3>1. m5 = Push(m4, t, e)
      BY <2>3 DEF PushIf
    <3>2. m5.queue = Append(q, k)
      BY <1>1, <1>8, <1>14, <2>3, <3>1, PushGrown, ZenonT(60)
    <3>3. Sets(k, t, "uniform") /\ k.set.uniform = T[t].uniform
      BY <1>2, <1>3, <1>7, <1>10, <2>3 DEF Sets, Command, TechniquePicture
    <3>4. ASSUME T[t].applied \in pool, T[T[t].applied].linked \subseteq pool
          PROVE  /\ LastIs(q, Len(q) + 1, t, "program", rendering[t].program,
                           T[t].applied)
                 /\ LinkedAt(q, Len(q) + 1, rendering, T, T[t].applied)
      <4>. DEFINE r == p.program
      <4>1. None \notin pool
        BY Known DEF Ready, Graph
      <4>2. T[t].applied = r /\ LinkedBy(r)
        BY <1>3, <1>7, <2>3, <3>4, <4>1 DEF TechniquePicture, sendUniform
      <4>3. /\ T[t].program = r
            /\ Has(m4, T, t, "program")
        BY <1>3, <1>7, <1>12, <1>13, <1>14 DEF TechniquePicture
      <4>4. LastIs(q, Len(q) + 1, t, "program", rendering[t].program,
                   T[t].applied)
        BY <4>2, <4>3 DEF Has
      <4>5. r \in Program /\ r \in Resource /\ r \in Under(t) /\ r \in B.all
        <5>1. r \in Program
          BY <1>7, <3>4, <4>1, <4>2 DEF Ref
        <5>2. r \in Live({pending[t].program, pending[t].vertexArray,
                          pending[t].texture, pending[t].sampler})
          BY <1>7, <3>4, <4>2 DEF Live
        <5>3. r \in B.all
          BY <5>2 DEF Ready, Closed
        <5>. QED
          BY <5>1, <5>2, <5>3, Known DEF Under
      <4>6. T[r].linked # {} /\ T[r].linked \subseteq pool
        <5>1. T[r] = PictureOf(r, B.buffers)
          BY <4>5 DEF Ready
        <5>2. PictureOf(r, B.buffers) = [linked |-> Linked(r)]
          BY <4>5, PictureOfIs, ZenonT(60)
        <5>. QED
          BY <3>4, <4>2, <5>1, <5>2 DEF LinkedBy
      <4>7. Finished(m, T, r)
        BY <1>4, <4>5
      <4>8. LinkedAt(m.queue, Len(m.queue) + 1, rendering, T, r)
        BY <4>5, <4>6, <4>7, LinkFinished
      <4>9. Extends(m.queue, Len(m.queue) + 1, q, Len(q) + 1)
        <5>1. Len(m.queue) \in Nat /\ Len(q) \in Nat
          BY <1>4, <1>14, SequenceFacts DEF StateOK
        <5>. QED
          BY <1>15, <5>1 DEF Grown, Extends
      <4>. HIDE DEF r, q
      <4>10. LinkedAt(q, Len(q) + 1, rendering, T, r)
        BY <4>8, <4>9, LinkedAtKept
      <4>. QED
        BY <4>2, <4>4, <4>10
    <3>. HIDE DEF k, q
    <3>5. IsSequence(q)
      BY <1>14 DEF StateOK, q
    <3>6. UniformShows(m5.queue, Len(m5.queue) + 1, rendering, pool, T, t)
      BY <3>2, <3>3, <3>4, <3>5, UniformNew
    <3>7. HasUniform(m5, T, t)
      BY <3>6 DEF HasUniform
    <3>. HIDE DEF m5
    <3>8. \A f \in {"method", "elements", "program", "vertexArray", "texture",
                    "sampler"} :
             Has(m4, T, t, f) => Has(m5, T, t, f)
      BY <1>10, <2>1 DEF Has
    <3>. QED
      BY <2>1, <3>7, <3>8
  <2>. QED
    BY <2>2, <2>3
<1>. HIDE DEF m5
<1>17. /\ Grown(m, n, Just(t)) /\ n.pending[t] = y /\ n.queue = m5.queue
  <2>1. m5.pending[t] = p
    BY <1>6, <1>11, <1>12, <1>13, <1>14, <1>16
  <2>2. n = [m5 EXCEPT !.pending[t] = y]
    BY <1>5, <2>1, Zenon DEF y
  <2>3. Grown(m5, n, Just(t)) /\ n.pending[t] = y /\ n.queue = m5.queue
    BY <1>1, <1>9, <1>16, <2>2, PendingGrown
  <2>4. Grown(m, m5, Just(t))
    BY <1>4, <1>15, <1>16, GrownTwice
  <2>. QED
    BY <1>4, <2>3, <2>4, GrownTwice
<1>18. Now(n.queue, T, t)
  <2>1. \A f \in {"program", "vertexArray", "method", "elements"} :
           LastIs(n.queue, Len(n.queue) + 1, t, f, rendering[t][f], T[t][f])
    BY <1>11, <1>12, <1>13, <1>14, <1>16, <1>17 DEF Has
  <2>2. {T[t].texture, T[t].sampler} \subseteq pool =>
           \A f \in {"texture", "sampler"} :
              LastIs(n.queue, Len(n.queue) + 1, t, f, rendering[t][f], T[t][f])
    BY <1>14, <1>16, <1>17 DEF Has
  <2>3. UniformShows(n.queue, Len(n.queue) + 1, rendering, pool, T, t)
    BY <1>16, <1>17 DEF HasUniform
  <2>. QED
    BY <1>2, <2>1, <2>2, <2>3, Zenon DEF Now, Match, Shows
<1>19. Finished(n, T, t)
  <2>1. Aimed(T, t)
    BY <1>2, <1>3 DEF Aimed
  <2>. QED
    BY <1>7, <1>17, <1>18, <2>1 DEF Finished
<1>20. Onward(m, n, T, Just(t))
  BY <1>1, <1>2, <1>4, <1>17, <1>19, OneOnward
<1>21. Onward(s, n, T, Parts \cup Just(t))
  <2>1. Onward(s, m, T, Parts \cup Just(t)) /\ Onward(m, n, T, Parts \cup Just(t))
    BY <1>4, <1>20, OnwardMore
  <2>. QED
    BY <2>1, OnwardTwice
<1>22. ASSUME NEW x \in Under(t) PROVE Finished(n, T, x)
  <2>1. x \in pool
    BY DEF Under, Live
  <2>. QED
    BY <1>4, <1>20, <2>1 DEF Onward
<1>. QED
  BY <1>19, <1>21, <1>22 DEF n

-----------------------------------------------------------------------------
(* Units, and the object                                                    *)

Others == Parts \cup Technique \cup Unit

UnderUnit(u) == Just(u) \cup Live({pending[u].technique})
                  \cup UNION {Under(t) : t \in Live({pending[u].technique})}

(* RenderingUnit::Commit finishes the unit and what is below it.            *)
LEMMA UnitDone ==
    ASSUME NEW T, NEW B, Ready(T, B), NEW s, Progress(s, T),
           NEW u \in Unit, u \in B.all
    PROVE  /\ Onward(s, CommitUnit(s, u), T, Others)
           /\ \A x \in UnderUnit(u) : Finished(CommitUnit(s, u), T, x)
<1>. DEFINE t == pending[u].technique
            m == CommitRef(CommitTechnique, s, t)
            set == [technique |-> t]
            c == Command(u, set)
            n == CommitUnit(s, u)
<1>1. /\ u \in Resource /\ u \in pool /\ Graph /\ StateOK(s)
      /\ pool \subseteq Resource
      /\ Fresh(s, u) \/ Finished(s, T, u)
  BY Known, Apart DEF Ready, Closed, Progress, Graph
<1>2. /\ u \notin Technique /\ u \notin VertexArray /\ u \notin Program
      /\ u \notin Texture /\ u \notin Sampler /\ u \notin Buffer
      /\ u \notin Object /\ u \notin Shader /\ u \notin Parts
  BY Apart DEF Parts
<1>3. s.pending[u] = pending[u]
  BY <1>1 DEF Fresh, Finished, Clean
<1>4. /\ t \in Ref(Technique)
      /\ t \in pool => t \in Technique
      /\ t \in pool => t \in B.all
      /\ pending[u] \in [technique : Ref(Technique \cap created)]
  <2>1. pending[u] \in [technique : Ref(Technique \cap created)]
    BY <1>1 DEF Ready, Types, PendingOK, PendingIs
  <2>2. Live({t}) \subseteq B.all
    BY DEF Ready, Closed
  <2>3. None \notin pool
    BY <1>1, Known
  <2>. QED
    BY <2>1, <2>2, <2>3 DEF Ref, Live
<1>5. T[u].technique = t
  <2>1. T[u] = PictureOf(u, B.buffers)
    BY <1>1 DEF Ready
  <2>2. PictureOf(u, B.buffers) = [technique |-> pending[u].technique]
    BY PictureOfIs, ZenonT(60)
  <2>. QED
    BY <2>1, <2>2
<1>6. n = Push(m, u, set)
  BY <1>3 DEF CommitUnit
<1>7. /\ Onward(s, m, T, Parts \cup Technique)
      /\ t \in pool => /\ Finished(m, T, t)
                       /\ \A x \in Under(t) : Finished(m, T, x)
  <2>1. CASE t \in pool
    <3>1. m = CommitTechnique(s, t)
      BY <2>1, Zenon DEF CommitRef
    <3>2. Parts \cup Just(t) \subseteq Parts \cup Technique
      BY <1>4, <2>1 DEF Just
    <3>. HIDE DEF t
    <3>3. /\ Onward(s, m, T, Parts \cup Just(t)) /\ Finished(m, T, t)
          /\ \A x \in Under(t) : Finished(m, T, x)
      BY <1>4, <2>1, <3>1, TechniqueDone
    <3>. QED
      BY <3>2, <3>3, OnwardMore
  <2>2. CASE t \notin pool
    <3>1. m = s
      BY <2>2, Zenon DEF CommitRef
    <3>. QED
      BY <2>2, <3>1, OnwardSelf
  <2>. QED
    BY <2>1, <2>2
<1>8. SetOK(u, set, created)
  BY <1>2, <1>4 DEF SetOK
<1>9. Sets(c, u, "technique") /\ c.set["technique"] = T[u].technique
  BY <1>2, <1>5 DEF Sets, Command
<1>. HIDE DEF m, set, n
<1>10. Progress(m, T) /\ StateOK(m) /\ m.pending[u] = s.pending[u]
  <2>1. Grown(s, m, Parts \cup Technique) /\ Progress(m, T)
    BY <1>7 DEF Onward
  <2>2. u \in pool \ (Parts \cup Technique)
    BY <1>1, <1>2
  <2>. QED
    BY <1>1, <2>1, <2>2, OthersKept DEF Progress
<1>11. /\ Grown(m, n, Just(u)) /\ n.pending = m.pending
       /\ n.queue = Append(m.queue, c)
  BY <1>1, <1>6, <1>8, <1>10, PushGrown
<1>. HIDE DEF c
<1>12. LastIs(n.queue, Len(n.queue) + 1, u, "technique",
              rendering[u].technique, T[u].technique)
  BY <1>9, <1>10, <1>11, FieldAppended DEF StateOK
<1>13. Finished(n, T, u)
  <2>1. Now(n.queue, T, u)
    BY <1>2, <1>12 DEF Now, Match, Shows
  <2>2. Clean(n.pending[u], u)
    BY <1>2, <1>3, <1>10, <1>11 DEF Clean
  <2>3. Aimed(T, u)
    BY <1>2 DEF Aimed
  <2>. QED
    BY <2>1, <2>2, <2>3 DEF Finished
<1>14. Onward(m, n, T, Just(u))
  BY <1>1, <1>2, <1>10, <1>11, <1>13, OneOnward
<1>15. Onward(s, n, T, Others)
  <2>1. Parts \cup Technique \subseteq Others /\ Just(u) \subseteq Others
    BY DEF Others, Just
  <2>2. Onward(s, m, T, Others) /\ Onward(m, n, T, Others)
    BY <1>7, <1>14, <2>1, OnwardMore
  <2>. QED
    BY <2>2, OnwardTwice
<1>16. ASSUME NEW x \in UnderUnit(u) PROVE Finished(n, T, x)
  <2>1. x = u \/ (t \in pool /\ (x = t \/ x \in Under(t)))
    BY DEF UnderUnit, Just, Live
  <2>2. t \in pool /\ (x = t \/ x \in Under(t)) =>
           x \in pool /\ Finished(m, T, x)
    BY <1>7 DEF Under, Live
  <2>. QED
    BY <1>13, <1>14, <2>1, <2>2 DEF Onward
<1>. QED
  BY <1>15, <1>16 DEF n

(* So do the commits of all units of an object.                             *)
LEMMA UnitsDone ==
    ASSUME NEW T, NEW B, Ready(T, B), NEW s, Progress(s, T),
           NEW refs \in SUBSET Unit, Live(refs) \subseteq B.all
    PROVE  LET n == CommitEach(CommitUnit, s, refs)
           IN  /\ Onward(s, n, T, Others)
               /\ \A u \in Live(refs) : \A x \in UnderUnit(u) :
                     Finished(n, T, x)
<1>. DEFINE D == Live(refs)
<1>1. /\ D \subseteq Unit /\ D \subseteq pool /\ IsFiniteSet(pool)
      /\ IsFiniteSet(D) /\ D \subseteq B.all
  BY Known, FS_Subset DEF Live, Ready, Graph
<1>2. PICK g : Folds(g, "unit", s, D, CommitEach(CommitUnit, s, refs))
  BY <1>1, EachUnit
<1>. HIDE DEF D
<1>. DEFINE A == {t \in SUBSET D :
                    /\ Onward(s, g[t], T, Others)
                    /\ \A u \in t : \A x \in UnderUnit(u) :
                          Finished(g[t], T, x)}
<1>3. {} \in A
  BY <1>2, OnwardSelf DEF Folds
<1>4. ASSUME NEW t \in SUBSET D, t # {}
      PROVE  \E v \in t : t \ {v} \in A => t \in A
  <2>1. PICK v \in t : g[t] = Step("unit", g[t \ {v}], v)
    BY <1>2, <1>4 DEF Folds
  <2>2. g[t] = CommitUnit(g[t \ {v}], v)
    BY <2>1, Zenon DEF Step
  <2>3. ASSUME Onward(s, g[t \ {v}], T, Others),
               \A u \in t \ {v} : \A x \in UnderUnit(u) :
                  Finished(g[t \ {v}], T, x)
        PROVE  /\ Onward(s, g[t], T, Others)
               /\ \A u \in t : \A x \in UnderUnit(u) : Finished(g[t], T, x)
    <3>1. Progress(g[t \ {v}], T) /\ v \in Unit /\ v \in B.all
      BY <1>1, <2>3 DEF Onward
    <3>2. /\ Onward(g[t \ {v}], g[t], T, Others)
          /\ \A x \in UnderUnit(v) : Finished(g[t], T, x)
      BY <2>2, <3>1, UnitDone
    <3>3. ASSUME NEW u \in t \ {v}, NEW x \in UnderUnit(u)
          PROVE  Finished(g[t], T, x)
      <4>1. x \in pool
        BY <1>1 DEF UnderUnit, Just, Live, Under
      <4>. QED
        BY <2>3, <3>2, <3>3, <4>1 DEF Onward
    <3>. QED
      BY <2>3, <3>2, <3>3, OnwardTwice
  <2>. QED
    BY <2>3
<1>5. D \in A
  <2>. HIDE DEF A
  <2>. QED
    BY <1>1, <1>3, <1>4, RemovalInduction
<1>. QED
  BY <1>2, <1>5 DEF Folds, D

-----------------------------------------------------------------------------
(* The part of the graph below an object                                    *)

(* Every reference is to a resource of the kind its member has.             *)
LEMMA KindsOfReferences ==
    ASSUME Graph, Types
    PROVE  /\ None \notin pool
           /\ \A o \in Object : pending[o].units \subseteq Unit
           /\ \A u \in Unit : pending[u].technique \in Ref(Technique)
           /\ \A t \in Technique :
                 /\ pending[t].program \in Ref(Program)
                 /\ pending[t].vertexArray \in Ref(VertexArray)
                 /\ pending[t].texture \in Ref(Texture)
                 /\ pending[t].sampler \in Ref(Sampler)
                 /\ pending[t].elements \in Ref(Buffer)
           /\ \A v \in VertexArray, i \in Index :
                 pending[v].attribute[i].buffer \in Ref(Buffer)
<1>1. None \notin pool
  BY Known DEF Graph
<1>2. \A o \in Object : pending[o].units \subseteq Unit
  BY Known DEF Types, PendingOK, PendingIs
<1>3. \A u \in Unit : pending[u].technique \in Ref(Technique)
  BY Known DEF Types, PendingOK, PendingIs, Ref
<1>4. \A t \in Technique :
         /\ pending[t].program \in Ref(Program)
         /\ pending[t].vertexArray \in Ref(VertexArray)
         /\ pending[t].texture \in Ref(Texture)
         /\ pending[t].sampler \in Ref(Sampler)
         /\ pending[t].elements \in Ref(Buffer)
  BY Known DEF Types, PendingOK, PendingIs, Ref
<1>5. \A v \in VertexArray, i \in Index :
         pending[v].attribute[i].buffer \in Ref(Buffer)
  BY Known DEF Types, PendingOK, PendingIs, Ref
<1>. QED
  BY <1>1, <1>2, <1>3, <1>4, <1>5

Attached(v) == Live({pending[v].attribute[i].buffer : i \in Index})

(* What the commit of o reaches when the units have been committed          *)
ReachedBy(o, x) == \E u \in Live(pending[o].units) :
    \/ x \in UnderUnit(u)
    \/ \E v \in VertexArray : v \in UnderUnit(u) /\ pending[v].damaged
                              /\ x \in Attached(v)

(* What is below an object is closed under references, and is what its      *)
(* commit reaches.                                                          *)
LEMMA BelowIs ==
    ASSUME Graph, Types, NEW o \in Object, o \in pool
    PROVE  LET B == Below(o)
           IN  /\ Closed(B) /\ o \in B.all
               /\ Live(pending[o].units) \subseteq B.all
               /\ B.all \cap Object = {o}
               /\ \A x \in B.all :
                     \/ x = o
                     \/ ReachedBy(o, x)
                     \/ x \in Buffer /\ x \notin B.buffers
<1>. DEFINE units == Live(pending[o].units)
            techniques == Live({pending[u].technique : u \in units})
            arrays == Live({pending[t].vertexArray : t \in techniques})
            programs == Live({pending[t].program : t \in techniques})
            textures == Live({pending[t].texture : t \in techniques})
            samplers == Live({pending[t].sampler : t \in techniques})
            drawn == Live({pending[t].elements :
                             t \in {t \in techniques :
                                      pending[t].method = "elements"}})
            attached == Live(UNION {{pending[v].attribute[i].buffer :
                                       i \in Index} : v \in arrays})
            changed == UNION {{pending[v].attribute[i].buffer : i \in Index} :
                                v \in {v \in arrays : pending[v].damaged}}
            B == Below(o)
<1>1. /\ B.all = {o} \cup units \cup techniques \cup arrays \cup programs
                   \cup drawn \cup attached \cup textures \cup samplers
      /\ B.buffers = drawn \cup changed
  BY DEF Below
<1>. HIDE DEF B
<1>2. /\ units \subseteq Unit \cap pool
      /\ techniques \subseteq Technique \cap pool
  BY KindsOfReferences DEF Live, Ref
<1>3. /\ arrays \subseteq VertexArray \cap pool
      /\ programs \subseteq Program \cap pool
      /\ textures \subseteq Texture \cap pool
      /\ samplers \subseteq Sampler \cap pool
      /\ drawn \subseteq Buffer \cap pool
  <2>. HIDE DEF techniques
  <2>. QED
    BY <1>2, KindsOfReferences DEF Live, Ref
<1>4. attached \subseteq Buffer \cap pool /\ changed \cap pool \subseteq attached
  <2>. HIDE DEF arrays
  <2>. QED
    BY <1>3, KindsOfReferences DEF Live, Ref
<1>5. B.all \subseteq pool /\ B.buffers \cap pool \subseteq B.all
  <2>. HIDE DEF units, techniques, arrays, programs, textures, samplers, drawn,
                attached, changed
  <2>. QED
    BY <1>1, <1>2, <1>3, <1>4
<1>6. /\ Unit \cap B.all = units /\ Technique \cap B.all = techniques
      /\ VertexArray \cap B.all = arrays /\ B.all \cap Object = {o}
  <2>. HIDE DEF units, techniques, arrays, programs, textures, samplers, drawn,
                attached, changed
  <2>. QED
    BY <1>1, <1>2, <1>3, <1>4, Apart
<1>7. ASSUME NEW u \in units PROVE Live({pending[u].technique}) \subseteq techniques
  BY DEF Live
<1>8. ASSUME NEW t \in techniques
      PROVE  /\ Live({pending[t].program}) \subseteq programs
             /\ Live({pending[t].vertexArray}) \subseteq arrays
             /\ Live({pending[t].texture}) \subseteq textures
             /\ Live({pending[t].sampler}) \subseteq samplers
             /\ pending[t].method = "elements" =>
                   Live({pending[t].elements}) \subseteq drawn
  <2>. HIDE DEF techniques
  <2>. QED
    BY DEF Live
<1>9. ASSUME NEW v \in arrays, pending[v].damaged
      PROVE  Live({pending[v].attribute[i].buffer : i \in Index}) \subseteq changed
  <2>. HIDE DEF arrays
  <2>. QED
    BY <1>9 DEF Live
<1>10. Closed(B)
  <2>. HIDE DEF units, techniques, arrays, programs, textures, samplers, drawn,
                attached, changed
  <2>1. \A u \in Unit \cap B.all : Live({pending[u].technique}) \subseteq B.all
    BY <1>1, <1>6, <1>7
  <2>2. ASSUME NEW t \in Technique \cap B.all
        PROVE  /\ Live({pending[t].program, pending[t].vertexArray,
                        pending[t].texture, pending[t].sampler}) \subseteq B.all
               /\ pending[t].method = "elements" =>
                     Live({pending[t].elements}) \subseteq B.buffers
    <3>1. t \in techniques
      BY <1>6
    <3>2. /\ Live({pending[t].program}) \subseteq B.all
          /\ Live({pending[t].vertexArray}) \subseteq B.all
          /\ Live({pending[t].texture}) \subseteq B.all
          /\ Live({pending[t].sampler}) \subseteq B.all
          /\ pending[t].method = "elements" =>
                Live({pending[t].elements}) \subseteq B.buffers
      BY <1>1, <1>8, <3>1
    <3>. QED
      BY <3>2 DEF Live
  <2>3. \A v \in VertexArray \cap B.all : pending[v].damaged =>
           Live({pending[v].attribute[i].buffer : i \in Index}) \subseteq B.buffers
    BY <1>1, <1>6, <1>9
  <2>. QED
    BY <1>5, <2>1, <2>2, <2>3 DEF Closed
<1>11. ASSUME NEW x \in techniques
       PROVE  \E u \in units : x \in Live({pending[u].technique})
  <2>. HIDE DEF units
  <2>. QED
    BY DEF Live
<1>12. ASSUME NEW x \in arrays \cup programs \cup textures \cup samplers
                          \cup drawn
       PROVE  \E t \in techniques : x \in Under(t)
  <2>. HIDE DEF techniques
  <2>. QED
    BY DEF Live, Under
<1>13. ASSUME NEW x \in attached, x \in changed
       PROVE  \E v \in arrays : pending[v].damaged /\ x \in Attached(v)
  <2>. HIDE DEF arrays
  <2>. QED
    BY <1>13 DEF Live, Attached
<1>14. ASSUME NEW x \in B.all, x # o, ~(x \in Buffer /\ x \notin B.buffers)
       PROVE  ReachedBy(o, x)
  <2>1. \A u \in units : u \in UnderUnit(u)
    BY DEF UnderUnit, Just
  <2>2. ASSUME NEW t \in techniques
        PROVE  \E u \in units : t \in UnderUnit(u)
                              /\ \A y \in Under(t) : y \in UnderUnit(u)
    <3>1. PICK u \in units : t \in Live({pending[u].technique})
      BY <1>11
    <3>. QED
      BY <3>1 DEF UnderUnit
  <2>3. ASSUME NEW y \in arrays \cup programs \cup textures \cup samplers
                           \cup drawn
        PROVE  \E u \in units : y \in UnderUnit(u)
    BY <1>12, <2>2
  <2>. HIDE DEF units, techniques, arrays, programs, textures, samplers, drawn,
                attached, changed
  <2>4. CASE x \in units \cup techniques \cup arrays \cup programs
                 \cup textures \cup samplers \cup drawn
    <3>1. \E u \in units : x \in UnderUnit(u)
      BY <2>1, <2>2, <2>3, <2>4
    <3>. QED
      BY <3>1 DEF ReachedBy, units
  <2>5. CASE x \in attached /\ x \notin drawn
    <3>1. x \in changed
      BY <1>1, <1>4, <1>14, <2>5
    <3>2. PICK v \in arrays : pending[v].damaged /\ x \in Attached(v)
      BY <1>13, <2>5, <3>1
    <3>3. \E u \in units : v \in UnderUnit(u)
      BY <2>3
    <3>4. v \in VertexArray
      BY <1>3
    <3>. QED
      BY <3>2, <3>3, <3>4, Zenon DEF ReachedBy, units
  <2>. QED
    BY <1>1, <1>14, <2>4, <2>5
<1>15. o \in B.all /\ units \subseteq B.all
  BY <1>1
<1>. QED
  BY <1>6, <1>10, <1>14, <1>15 DEF B

(* The picture of a vertex array.                                           *)
LEMMA ArrayPicture ==
    ASSUME NEW reached, NEW v \in VertexArray
    PROVE  PictureOf(v, reached) =
             [attribute |-> [i \in Index |->
                [enabled |-> pending[v].attribute[i].enabled,
                 buffer |-> pending[v].attribute[i].buffer,
                 bound |-> IF pending[v].attribute[i].damaged
                             THEN HasContent(pending[v].attribute[i].buffer)
                             ELSE newest[v].attribute[i].bound]]]
BY Apart DEF PictureOf

(* A record of attributes has the type of its attributes.                   *)
LEMMA ArrayTyped ==
    ASSUME NEW A, NEW S, A \in S
    PROVE  /\ [attribute |-> A] \in [attribute : S]
           /\ \A e \in BOOLEAN : [exists |-> e, attribute |-> A]
                                    \in [exists : BOOLEAN, attribute : S]
OBVIOUS

(* The record of a sampler has the types of its fields.                     *)
LEMMA SamplerTyped ==
    ASSUME NEW e \in BOOLEAN, NEW S, NEW c \in S
    PROVE  [exists |-> e, parameter |-> c] \in [exists : BOOLEAN, parameter : S]
OBVIOUS

(* The picture of a commit is a picture.                                    *)
LEMMA PictureTyped ==
    ASSUME NEW T, NEW B, Ready(T, B), T = [r \in Resource |-> T[r]]
    PROVE  PictureOK(T, created)
<1>1. /\ pool \subseteq created /\ created \subseteq Resource
      /\ B.all \subseteq pool /\ PendingOK(pending, created)
      /\ PictureOK(newest, created) /\ content \in [Resource -> Data]
      /\ \A x \in Resource : T[x] = IF x \in B.all THEN PictureOf(x, B.buffers)
                                                   ELSE newest[x]
  BY DEF Ready, Graph, Types, Closed
<1>2. \A r \in Resource : /\ PendingIs(r, pending[r], created)
                          /\ PictureIs(r, newest[r], created)
                          /\ content[r] \in Data
  BY <1>1 DEF PendingOK, PictureOK
<1>3. ASSUME NEW t \in Technique, T[t].applied # None
      PROVE  /\ T[t].applied \in Program \cap created
             /\ T[T[t].applied].linked # {}
  <2>0. t \in Resource
    BY Known
  <2>1. CASE T[t].applied = newest[t].applied
    <3>1. newest[t].applied \in Ref(Program \cap created)
      BY <1>2, <2>0 DEF PictureIs
    <3>2. newest[newest[t].applied].linked # {}
      BY <1>1, <1>3, <2>1 DEF PictureOK
    <3>3. T[newest[t].applied].linked = newest[newest[t].applied].linked
      BY <1>3, <2>1, AppliedKept
    <3>. QED
      BY <1>3, <2>1, <3>1, <3>2, <3>3 DEF Ref
  <2>2. CASE T[t].applied # newest[t].applied
    <3>. DEFINE p == pending[t].program
    <3>1. t \in B.all
      BY <1>1, <2>0, <2>2
    <3>2. T[t].applied = p /\ LinkedBy(p)
      <4>1. TechniquePicture(T, t)
        BY <3>1, TechniqueAim
      <4>. QED
        BY <1>3, <2>2, <4>1 DEF TechniquePicture
    <3>3. p \in Ref(Program \cap created)
      BY <1>2, <2>0 DEF PendingIs
    <3>4. p \in Program \cap created
      BY <1>3, <3>2, <3>3 DEF Ref
    <3>5. p \in B.all
      <4>1. p \in Live({pending[t].program, pending[t].vertexArray,
                        pending[t].texture, pending[t].sampler})
        BY <3>2 DEF LinkedBy, Live
      <4>. QED
        BY <3>1, <4>1 DEF Ready, Closed
    <3>6. PictureOf(p, B.buffers) = [linked |-> Linked(p)]
      BY <3>4, PictureOfIs, ZenonT(60)
    <3>7. T[p].linked = Linked(p)
      BY <1>1, <3>4, <3>5, <3>6
    <3>. QED
      BY <3>2, <3>4, <3>7 DEF LinkedBy
  <2>. QED
    BY <2>1, <2>2
<1>4. ASSUME NEW r \in Resource, r \in B.all
      PROVE  PictureIs(r, T[r], created)
  <2>0. T[r] = PictureOf(r, B.buffers)
    BY <1>1, <1>4
  <2>1. CASE r \in Object
    <3>1. PictureOf(r, B.buffers) =
            [newest[r] EXCEPT !.committed = TRUE,
                              !.units = Live(pending[r].units)]
      BY <2>1, Apart DEF PictureOf
    <3>2. /\ newest[r] \in [committed : BOOLEAN, units : SUBSET Unit,
                            position : Ref(Position)]
          /\ Live(pending[r].units) \subseteq Unit
      BY <1>2, <2>1 DEF PictureIs, PendingIs, Live
    <3>3. T[r] \in [committed : BOOLEAN, units : SUBSET Unit,
                    position : Ref(Position)]
      BY <2>0, <3>1, <3>2
    <3>. QED
      BY <2>1, <3>3, Apart DEF PictureIs
  <2>2. CASE r \in Unit
    <3>1. PictureOf(r, B.buffers) = [technique |-> pending[r].technique]
      BY <2>2, PictureOfIs, ZenonT(60)
    <3>2. pending[r].technique \in Ref(Technique)
      BY <1>2, <2>2 DEF PendingIs, Ref
    <3>3. T[r] \in [technique : Ref(Technique)]
      BY <2>0, <3>1, <3>2
    <3>. QED
      BY <2>2, <3>3, Apart DEF PictureIs
  <2>3. CASE r \in Technique
    <3>. DEFINE applied == IF pending[r].uniform = None
                             THEN newest[r].applied
                           ELSE IF LinkedBy(pending[r].program)
                             THEN pending[r].program
                           ELSE None
    <3>1. PictureOf(r, B.buffers) =
            [program |-> pending[r].program,
             vertexArray |-> pending[r].vertexArray,
             texture |-> pending[r].texture,
             sampler |-> pending[r].sampler,
             method |-> pending[r].method,
             elements |-> pending[r].elements,
             uniform |-> content[r],
             applied |-> applied]
      <4>1. \A x \in Technique : PictureOf(x, B.buffers) =
                [program |-> pending[x].program,
                 vertexArray |-> pending[x].vertexArray,
                 texture |-> pending[x].texture,
                 sampler |-> pending[x].sampler,
                 method |-> pending[x].method,
                 elements |-> pending[x].elements,
                 uniform |-> content[x],
                 applied |-> IF pending[x].uniform = None
                               THEN newest[x].applied
                             ELSE IF LinkedBy(pending[x].program)
                               THEN pending[x].program
                             ELSE None]
        BY PictureOfIs, ZenonT(60)
      <4>. QED
        BY <2>3, <4>1, Zenon
    <3>. HIDE DEF applied
    <3>2. /\ pending[r].program \in Ref(Program)
          /\ pending[r].vertexArray \in Ref(VertexArray)
          /\ pending[r].texture \in Ref(Texture \cap created)
          /\ pending[r].sampler \in Ref(Sampler \cap created)
          /\ pending[r].method \in Method
          /\ pending[r].elements \in Ref(Buffer)
      BY <1>2, <2>3 DEF PendingIs, Ref
    <3>3. T[r].applied \in Ref(Program \cap created)
      BY <1>3, <2>3 DEF Ref
    <3>4. T[r].applied = applied
      BY <2>0, <3>1
    <3>5. T[r] \in [program : Ref(Program), vertexArray : Ref(VertexArray),
                    texture : Ref(Texture \cap created),
                    sampler : Ref(Sampler \cap created),
                    method : Method, elements : Ref(Buffer),
                    uniform : Data, applied : Ref(Program \cap created)]
      BY <1>2, <2>0, <3>1, <3>2, <3>3, <3>4
    <3>. QED
      BY <2>3, <3>5, Apart DEF PictureIs
  <2>4. CASE r \in VertexArray
    <3>. DEFINE Bound(i) == IF pending[r].attribute[i].damaged
                              THEN HasContent(pending[r].attribute[i].buffer)
                              ELSE newest[r].attribute[i].bound
                A == [i \in Index |->
                        [enabled |-> pending[r].attribute[i].enabled,
                         buffer |-> pending[r].attribute[i].buffer,
                         bound |-> Bound(i)]]
    <3>1. PictureOf(r, B.buffers) = [attribute |-> A]
      BY <2>4, ArrayPicture, Zenon
    <3>2. ASSUME NEW i \in Index
          PROVE  /\ pending[r].attribute[i].enabled \in BOOLEAN
                 /\ pending[r].attribute[i].buffer \in Ref(Buffer \cap created)
                 /\ Bound(i) \in BOOLEAN
      <4>1. /\ pending[r] \in [attribute : [Index -> [enabled : BOOLEAN,
                                   buffer : Ref(Buffer \cap created),
                                   damaged : BOOLEAN]],
                               damaged : BOOLEAN]
            /\ newest[r] \in [attribute : [Index -> [enabled : BOOLEAN,
                                   buffer : Ref(Buffer \cap created),
                                   bound : BOOLEAN]]]
        BY <1>2, <2>4 DEF PendingIs, PictureIs
      <4>2. newest[r].attribute[i].bound \in BOOLEAN
        BY <4>1
      <4>3. HasContent(pending[r].attribute[i].buffer) \in BOOLEAN
        BY DEF HasContent
      <4>4. Bound(i) \in BOOLEAN
        <5>1. \/ Bound(i) = HasContent(pending[r].attribute[i].buffer)
              \/ Bound(i) = newest[r].attribute[i].bound
          BY Zenon
        <5>. HIDE DEF Bound
        <5>. QED
          BY <4>2, <4>3, <5>1, Zenon
      <4>. HIDE DEF Bound
      <4>. QED
        BY <4>1, <4>4
    <3>. HIDE DEF Bound
    <3>3. A \in [Index -> [enabled : BOOLEAN, buffer : Ref(Buffer \cap created),
                           bound : BOOLEAN]]
      BY <3>2
    <3>. HIDE DEF A
    <3>4. T[r] \in [attribute : [Index -> [enabled : BOOLEAN,
                                   buffer : Ref(Buffer \cap created),
                                   bound : BOOLEAN]]]
      BY <2>0, <3>1, <3>3, ArrayTyped, Zenon
    <3>. QED
      BY <2>4, <3>4, Apart DEF PictureIs
  <2>5. CASE r \in Buffer
    <3>. DEFINE reached == \/ r \in B.buffers
                           \/ newest[r].reached /\ ~pending[r].damaged
    <3>1. PictureOf(r, B.buffers) = [data |-> content[r], reached |-> reached]
      BY <2>5, Apart DEF PictureOf
    <3>2. reached \in BOOLEAN
      OBVIOUS
    <3>. HIDE DEF reached
    <3>3. T[r] \in [data : Data, reached : BOOLEAN]
      BY <1>2, <2>0, <3>1, <3>2
    <3>. QED
      BY <2>5, <3>3, Apart DEF PictureIs
  <2>6. CASE r \in Program
    <3>1. PictureOf(r, B.buffers) = [linked |-> Linked(r)]
      BY <2>6, PictureOfIs, ZenonT(60)
    <3>2. Linked(r) \in SUBSET Ref(Shader \cap created)
      BY <1>2, <2>6 DEF Linked, PendingIs, PictureIs
    <3>3. T[r] \in [linked : SUBSET Ref(Shader \cap created)]
      BY <2>0, <3>1, <3>2
    <3>. QED
      BY <2>6, <3>3, Apart DEF PictureIs
  <2>7. CASE r \in Texture
    <3>. DEFINE mipmap == IF pending[r].mipmap THEN content[r]
                                               ELSE newest[r].mipmap
    <3>1. PictureOf(r, B.buffers) = [data |-> content[r], mipmap |-> mipmap]
      BY <2>7, PictureOfIs, ZenonT(60)
    <3>2. mipmap \in Data
      BY <1>2, <2>7 DEF PictureIs
    <3>. HIDE DEF mipmap
    <3>3. T[r] \in [data : Data, mipmap : Data]
      BY <1>2, <2>0, <3>1, <3>2
    <3>. QED
      BY <2>7, <3>3, Apart DEF PictureIs
  <2>8. CASE r \in Sampler
    <3>1. PictureOf(r, B.buffers) = [exists |-> TRUE, parameter |-> content[r]]
      BY <2>8, PictureOfIs, ZenonT(60)
    <3>2. TRUE \in BOOLEAN /\ content[r] \in Data
      BY <1>2
    <3>3. T[r] = [exists |-> TRUE, parameter |-> content[r]]
      BY <2>0, <3>1
    <3>4. T[r] \in [exists : BOOLEAN, parameter : Data]
      BY <3>2, <3>3, SamplerTyped, Zenon
    <3>. QED
      BY <2>8, <3>4, Apart DEF PictureIs
  <2>9. CASE r \in Shader
    BY <2>9, Apart DEF PictureIs
  <2>. QED
    BY <2>1, <2>2, <2>3, <2>4, <2>5, <2>6, <2>7, <2>8, <2>9, Known
<1>5. \A r \in Resource : PictureIs(r, T[r], created)
  BY <1>1, <1>2, <1>4, Zenon
<1>6. \A r \in Resource \ created : T[r] = NoPicture(r)
  BY <1>1 DEF PictureOK
<1>. QED
  BY <1>3, <1>5, <1>6, Zenon DEF PictureOK

-----------------------------------------------------------------------------
(* The commit of an object                                                  *)

Coherence == Coherent(pending, newest, content)

(* The last picture ordered is the one at the end of the queue.             *)
Latest == \A r \in pool :
             Match(queue, Len(queue) + 1, rendering, pool, newest, r)

Before == [pending |-> pending, queue |-> queue]

(* A commit begins with every resource fresh.                               *)
LEMMA CommitBegins ==
    ASSUME Graph, Types, Coherence, Latest, NEW o \in Object, o \in pool
    PROVE  Ready(Picture(o), Below(o)) /\ Progress(Before, Picture(o))
<1>1. Ready(Picture(o), Below(o))
  <2>1. \A x \in Resource : Picture(o)[x] =
           IF x \in Below(o).all THEN PictureOf(x, Below(o).buffers)
                                 ELSE newest[x]
    BY DEF Picture
  <2>2. Closed(Below(o))
    BY BelowIs, Zenon
  <2>. QED
    BY <2>1, <2>2, Zenon DEF Ready, Coherence
<1>2. /\ Before.pending = pending /\ Before.queue = queue
      /\ Before = [pending |-> Before.pending, queue |-> Before.queue]
  BY DEF Before
<1>3. StateOK(Before)
  BY <1>2 DEF StateOK, Types
<1>4. \A x \in pool : Fresh(Before, x)
  BY <1>2 DEF Fresh, Now, Latest
<1>5. \A v : ~Before.pending[v].damaged => Reached(Before, Picture(o), v)
  BY <1>2 DEF Reached
<1>. QED
  BY <1>1, <1>3, <1>4, <1>5, Zenon DEF Progress

(* The units of o, and all below                                            *)
LEMMA UnitsCommitted ==
    ASSUME Graph, Types, Coherence, Latest, NEW o \in Object, o \in pool
    PROVE  LET B == Below(o)
               T == Picture(o)
               m == CommitEach(CommitUnit, Before, Live(Before.pending[o].units))
           IN  /\ Onward(Before, m, T, Others)
               /\ \A x \in B.all \ Object :
                     \/ Finished(m, T, x)
                     \/ x \in Buffer /\ x \notin B.buffers
<1>. DEFINE B == Below(o)
            T == Picture(o)
            units == Live(pending[o].units)
            m == CommitEach(CommitUnit, Before, units)
<1>1. /\ Before.pending[o].units = pending[o].units
      /\ Live(units) = units
  BY DEF Before, Live
<1>2. Ready(T, B) /\ Progress(Before, T)
  BY CommitBegins
<1>3. /\ units \in SUBSET Unit /\ units \subseteq B.all
      /\ B.all \cap Object = {o}
      /\ \A x \in B.all : \/ x = o
                          \/ ReachedBy(o, x)
                          \/ x \in Buffer /\ x \notin B.buffers
  BY BelowIs, KindsOfReferences DEF Live
<1>. HIDE DEF B, T, units
<1>4. /\ Onward(Before, m, T, Others)
      /\ \A u \in units : \A x \in UnderUnit(u) : Finished(m, T, x)
  BY <1>1, <1>2, <1>3, UnitsDone
<1>5. Progress(m, T)
  BY <1>4 DEF Onward
<1>. HIDE DEF m
<1>6. ASSUME NEW x, ReachedBy(o, x) PROVE Finished(m, T, x)
  <2>1. PICK u \in units : \/ x \in UnderUnit(u)
                           \/ \E v \in VertexArray : /\ v \in UnderUnit(u)
                                                     /\ pending[v].damaged
                                                     /\ x \in Attached(v)
    BY <1>6, Zenon DEF ReachedBy, units
  <2>2. CASE x \in UnderUnit(u)
    BY <1>4, <2>2
  <2>3. CASE x \notin UnderUnit(u)
    <3>1. PICK v \in VertexArray : /\ v \in UnderUnit(u) /\ pending[v].damaged
                                   /\ x \in Attached(v)
      BY <2>1, <2>3
    <3>2. Finished(m, T, v) /\ v \in pool
      BY <1>4, <3>1 DEF UnderUnit, Just, Live, Under, units
    <3>3. m.pending[v].damaged = FALSE
      BY <3>2 DEF Finished, Clean
    <3>4. Reached(m, T, v)
      BY <1>5, <3>2, <3>3 DEF Progress
    <3>. QED
      BY <3>1, <3>4 DEF Reached, Attached
  <2>. QED
    BY <2>2, <2>3
<1>7. ASSUME NEW x \in B.all \ Object
      PROVE  \/ Finished(m, T, x)
             \/ x \in Buffer /\ x \notin B.buffers
  BY <1>3, <1>6
<1>. QED
  BY <1>1, <1>4, <1>7 DEF B, T, m, units

(* A resource that was not reached: its picture is the one before.          *)
LEMMA Unreached ==
    ASSUME NEW T, NEW B, Ready(T, B), NEW s, NEW x \in pool \ Object,
           Fresh(s, x), StateOK(s),
           x \in B.all => x \in Buffer /\ x \notin B.buffers
    PROVE  Now(s.queue, T, x)
<1>. DEFINE e == Len(s.queue) + 1
<1>1. x \in Resource /\ e \in Nat /\ 1 <= e
  BY SequenceFacts DEF Ready, Graph, StateOK
<1>. HIDE DEF e
<1>2. CASE x \notin B.all
  <2>1. T[x] = newest[x]
    BY <1>1, <1>2 DEF Ready
  <2>2. x \in Technique /\ newest[x].applied \in pool =>
           T[newest[x].applied].linked = newest[newest[x].applied].linked
    <3>1. None \notin pool
      BY Known DEF Ready, Graph
    <3>. QED
      BY <3>1, AppliedKept
  <2>3. Same(newest, T, pool, x)
    BY <2>1, <2>2 DEF Same
  <2>4. Match(s.queue, e, rendering, pool, newest, x)
    BY DEF Fresh, Now, e
  <2>5. Extends(s.queue, e, s.queue, e) /\ e..(e - 1) = {}
    BY <1>1, Unmoved
  <2>6. Match(s.queue, e, rendering, pool, T, x)
    BY <2>3, <2>4, <2>5, MatchKept
  <2>. QED
    BY <2>6 DEF Now, e
<1>3. CASE x \in B.all
  <2>1. x \in Buffer /\ x \notin B.buffers
    BY <1>3
  <2>2. /\ T[x].data = content[x]
        /\ T[x].reached => newest[x].reached /\ ~pending[x].damaged
    <3>1. PictureOf(x, B.buffers) =
            [data |-> content[x],
             reached |-> \/ x \in B.buffers
                         \/ newest[x].reached /\ ~pending[x].damaged]
      BY <2>1, Apart DEF PictureOf
    <3>. QED
      BY <1>1, <1>3, <2>1, <3>1 DEF Ready
  <2>3. ASSUME T[x].reached
        PROVE  Shows(s.queue, e, rendering, T, x, {"data"})
    <3>1. content[x] = newest[x].data
      BY <2>1, <2>2, <2>3 DEF Ready, Coherent
    <3>2. Shows(s.queue, e, rendering, newest, x, {"data"})
      BY <2>1, <2>2, <2>3 DEF Fresh, Now, Match, e
    <3>. QED
      BY <2>2, <3>1, <3>2 DEF Shows
  <2>4. Match(s.queue, e, rendering, pool, T, x)
    BY <2>1, <2>3, Apart DEF Match
  <2>. QED
    BY <2>4 DEF Now, e
<1>. QED
  BY <1>2, <1>3

(* The commands before say of x what two pictures that agree on it ask.     *)
LEMMA NowSame ==
    ASSUME NEW q, IsSequence(q), NEW x, NEW P, NEW V, Same(P, V, pool, x),
           Now(q, P, x)
    PROVE  Now(q, V, x)
<1>. DEFINE e == Len(q) + 1
<1>1. e \in Nat /\ 1 <= e
  BY SequenceFacts
<1>2. Match(q, e, rendering, pool, P, x)
  BY DEF Now
<1>. HIDE DEF e
<1>3. Extends(q, e, q, e) /\ e..(e - 1) = {}
  BY <1>1, Unmoved
<1>4. Match(q, e, rendering, pool, V, x)
  BY <1>2, <1>3, MatchKept
<1>. QED
  BY <1>4 DEF Now, e

(* What became of a resource other than an object                           *)
Fate(s, T, x) ==
    \/ s.pending[x] = pending[x] /\ T[x] = newest[x]
    \/ Finished(s, T, x)
    \/ /\ x \in Buffer /\ s.pending[x] = pending[x] /\ T[x].data = content[x]
       /\ newest[x].reached /\ ~pending[x].damaged => T[x].reached

(* When the units have been committed, every resource is finished, or is as *)
(* it was before and so is its picture.                                     *)
LEMMA FateOfAll ==
    ASSUME NEW T, NEW B, Ready(T, B), NEW s, NEW K, Grown(Before, s, K),
           Progress(s, T), NEW x \in Resource \ Object,
           x \in B.all => \/ Finished(s, T, x)
                          \/ x \in Buffer /\ x \notin B.buffers
    PROVE  /\ Fate(s, T, x)
           /\ x \in pool => Now(s.queue, T, x)
           /\ x \notin pool => s.pending[x] = pending[x] /\ T[x] = newest[x]
<1>1. CASE x \notin pool
  <2>1. x \notin B.all
    BY <1>1 DEF Ready, Closed
  <2>2. s.pending[x] = pending[x]
    BY <1>1 DEF Grown, Before
  <2>3. T[x] = newest[x]
    BY <2>1 DEF Ready
  <2>4. Fate(s, T, x)
    BY <2>2, <2>3, Zenon DEF Fate
  <2>. QED
    BY <1>1, <2>2, <2>3, <2>4
<1>2. CASE x \in pool /\ Finished(s, T, x)
  <2>1. Now(s.queue, T, x)
    BY <1>2 DEF Finished
  <2>2. Fate(s, T, x)
    BY <1>2 DEF Fate
  <2>. QED
    BY <1>2, <2>1, <2>2
<1>3. CASE x \in pool /\ ~Finished(s, T, x)
  <2>1. Fresh(s, x) /\ StateOK(s)
    BY <1>3 DEF Progress
  <2>2. Now(s.queue, T, x)
    BY <1>3, <2>1, Unreached
  <2>3. s.pending[x] = pending[x]
    BY <2>1 DEF Fresh
  <2>4. CASE x \notin B.all
    BY <2>2, <2>3, <2>4 DEF Ready, Fate
  <2>5. CASE x \in B.all
    <3>1. x \in Buffer
      BY <1>3, <2>5
    <3>2. PictureOf(x, B.buffers) =
            [data |-> content[x],
             reached |-> \/ x \in B.buffers
                         \/ newest[x].reached /\ ~pending[x].damaged]
      BY <3>1, Apart DEF PictureOf
    <3>3. T[x] = PictureOf(x, B.buffers)
      BY <2>5 DEF Ready
    <3>4. /\ T[x].data = content[x]
          /\ newest[x].reached /\ ~pending[x].damaged => T[x].reached
      BY <3>2, <3>3
    <3>5. Fate(s, T, x)
      BY <2>3, <3>1, <3>4, Zenon DEF Fate
    <3>. QED
      BY <1>3, <2>2, <3>5
  <2>. QED
    BY <2>4, <2>5
<1>. QED
  BY <1>1, <1>2, <1>3

(* So the pending states are again what the last commit ordered.            *)
LEMMA CoherentAgain ==
    ASSUME NEW T, NEW s, Graph, Types, Coherence,
           \A x \in Resource \ Object : Fate(s, T, x)
    PROVE  Coherent(s.pending, T, content)
<1>. DEFINE p == s.pending
<1>1. ASSUME NEW t \in Technique
      PROVE  /\ ~p[t].programDamaged => p[t].program = T[t].program
             /\ ~p[t].vertexArrayDamaged => p[t].vertexArray = T[t].vertexArray
             /\ ~p[t].methodDamaged => /\ p[t].method = T[t].method
                                       /\ p[t].elements = T[t].elements
             /\ ~p[t].textureDamaged => /\ p[t].texture = T[t].texture
                                        /\ p[t].sampler = T[t].sampler
             /\ IF p[t].uniform = None THEN content[t] = T[t].uniform
                                       ELSE p[t].uniform = content[t]
  <2>1. Fate(s, T, t) /\ t \notin Buffer
    BY Apart, Known
  <2>2. CASE s.pending[t] = pending[t] /\ T[t] = newest[t]
    BY <2>2 DEF Coherence, Coherent
  <2>3. CASE Finished(s, T, t)
    <3>1. TechniquePicture(T, t)
      BY <2>3 DEF Finished, Aimed
    <3>2. p[t] = [pending[t] EXCEPT !.methodDamaged = FALSE,
                                    !.programDamaged = FALSE,
                                    !.vertexArrayDamaged = FALSE,
                                    !.textureDamaged = FALSE,
                                    !.uniform = IF pending[t].program \in pool
                                                  THEN None ELSE @]
      BY <2>3 DEF Finished, Clean
    <3>3. pending[t] \in
            [program : Ref(Program \cap created), programDamaged : BOOLEAN,
             vertexArray : Ref(VertexArray \cap created),
             vertexArrayDamaged : BOOLEAN,
             texture : Ref(Texture \cap created),
             sampler : Ref(Sampler \cap created), textureDamaged : BOOLEAN,
             method : Method, elements : Ref(Buffer \cap created),
             methodDamaged : BOOLEAN, uniform : Data]
      BY Known DEF Types, PendingOK, PendingIs
    <3>4. /\ p[t].program = pending[t].program
          /\ p[t].vertexArray = pending[t].vertexArray
          /\ p[t].method = pending[t].method
          /\ p[t].elements = pending[t].elements
          /\ p[t].texture = pending[t].texture
          /\ p[t].sampler = pending[t].sampler
          /\ p[t].uniform = None \/ p[t].uniform = pending[t].uniform
      BY <3>2, <3>3
    <3>5. IF pending[t].uniform = None THEN TRUE
          ELSE pending[t].uniform = content[t]
      BY DEF Coherence, Coherent
    <3>. QED
      BY <3>1, <3>4, <3>5 DEF TechniquePicture
  <2>. QED
    BY <2>1, <2>2, <2>3 DEF Fate
<1>2. ASSUME NEW v \in VertexArray, NEW i \in Index
      PROVE  IF p[v].attribute[i].damaged THEN p[v].damaged
             ELSE /\ p[v].attribute[i].enabled = T[v].attribute[i].enabled
                  /\ p[v].attribute[i].buffer = T[v].attribute[i].buffer
  <2>1. Fate(s, T, v) /\ v \notin Buffer
    BY Apart, Known
  <2>2. CASE s.pending[v] = pending[v] /\ T[v] = newest[v]
    BY <2>2 DEF Coherence, Coherent
  <2>3. CASE Finished(s, T, v)
    <3>1. /\ T[v].attribute[i].enabled = pending[v].attribute[i].enabled
          /\ T[v].attribute[i].buffer = pending[v].attribute[i].buffer
      BY <2>3 DEF Finished, Aimed
    <3>2. p[v] = [attribute |-> [k \in Index |-> [pending[v].attribute[k] EXCEPT
                                                    !.damaged = FALSE]],
                  damaged |-> FALSE]
      BY <2>3 DEF Finished, Clean
    <3>3. pending[v].attribute[i] \in
            [enabled : BOOLEAN, buffer : Ref(Buffer \cap created),
             damaged : BOOLEAN]
      <4>1. pending[v] \in
              [attribute : [Index -> [enabled : BOOLEAN,
                                      buffer : Ref(Buffer \cap created),
                                      damaged : BOOLEAN]],
               damaged : BOOLEAN]
        BY Known DEF Types, PendingOK, PendingIs
      <4>. QED
        BY <4>1
    <3>4. p[v].attribute[i] = [pending[v].attribute[i] EXCEPT !.damaged = FALSE]
      BY <3>2
    <3>. HIDE DEF p
    <3>5. /\ ~p[v].attribute[i].damaged
          /\ p[v].attribute[i].enabled = pending[v].attribute[i].enabled
          /\ p[v].attribute[i].buffer = pending[v].attribute[i].buffer
      BY <3>3, <3>4
    <3>. QED
      BY <3>1, <3>5, Zenon
  <2>. QED
    BY <2>1, <2>2, <2>3 DEF Fate
<1>3. ASSUME NEW b \in Buffer
      PROVE  IF p[b].damaged THEN p[b].data = content[b]
             ELSE content[b] = T[b].data /\ T[b].reached
  <2>1. Fate(s, T, b) /\ b \in Buffer
    BY Apart, Known
  <2>2. IF pending[b].damaged THEN pending[b].data = content[b]
        ELSE content[b] = newest[b].data /\ newest[b].reached
    BY DEF Coherence, Coherent
  <2>3. CASE s.pending[b] = pending[b] /\ T[b] = newest[b]
    BY <2>2, <2>3
  <2>4. CASE Finished(s, T, b)
    BY <2>4 DEF Finished, Clean, Aimed
  <2>5. CASE /\ s.pending[b] = pending[b] /\ T[b].data = content[b]
             /\ newest[b].reached /\ ~pending[b].damaged => T[b].reached
    BY <2>2, <2>5, Zenon
  <2>. QED
    BY <2>1, <2>3, <2>4, <2>5 DEF Fate
<1>4. ASSUME NEW x \in Texture
      PROVE  IF p[x].data = None THEN content[x] = T[x].data
             ELSE p[x].data = content[x]
  <2>1. Fate(s, T, x) /\ x \notin Buffer
    BY Apart, Known
  <2>2. CASE s.pending[x] = pending[x] /\ T[x] = newest[x]
    BY <2>2 DEF Coherence, Coherent
  <2>3. CASE Finished(s, T, x)
    <3>1. p[x] = InitialPending(x) /\ T[x].data = content[x]
      BY <2>3 DEF Finished, Clean, Aimed
    <3>2. InitialPending(x) = [data |-> None, mipmap |-> FALSE]
      BY InitialPendingIs
    <3>. QED
      BY <3>1, <3>2
  <2>. QED
    BY <2>1, <2>2, <2>3 DEF Fate
<1>5. ASSUME NEW m \in Sampler
      PROVE  IF p[m].parameter = None THEN content[m] = T[m].parameter
             ELSE p[m].parameter = content[m]
  <2>1. Fate(s, T, m) /\ m \notin Buffer
    BY Apart, Known
  <2>2. CASE s.pending[m] = pending[m] /\ T[m] = newest[m]
    BY <2>2 DEF Coherence, Coherent
  <2>3. CASE Finished(s, T, m)
    BY <2>3 DEF Finished, Clean, Aimed
  <2>. QED
    BY <2>1, <2>2, <2>3 DEF Fate
<1>. HIDE DEF p
<1>6. Coherent(p, T, content)
  BY <1>1, <1>2, <1>3, <1>4, <1>5, Zenon DEF Coherent
<1>. QED
  BY <1>6 DEF p

-----------------------------------------------------------------------------
(* The commit of object o                                                   *)

ObjectSet(o) == [committed |-> TRUE, units |-> Live(pending[o].units)]

ObjectPushed(s, o) ==
    [Push(s, o, ObjectSet(o)) EXCEPT !.pending[o].units = Live(pending[o].units)]

(* The command for the object itself.                                       *)
LEMMA ObjectStep ==
    ASSUME Graph, Types, NEW o \in Object, o \in pool, NEW s, StateOK(s),
           s.pending[o] = pending[o]
    PROVE  LET n == ObjectPushed(s, o)
           IN  /\ Grown(s, n, Just(o)) /\ StateOK(n)
               /\ n.queue = Append(s.queue, Command(o, ObjectSet(o)))
<1>. DEFINE units == Live(pending[o].units)
            x == [units |-> units]
            m == Push(s, o, ObjectSet(o))
            n == ObjectPushed(s, o)
<1>1. /\ o \in Resource
      /\ o \notin Unit /\ o \notin Technique /\ o \notin VertexArray
      /\ o \notin Program /\ o \notin Texture /\ o \notin Sampler
      /\ o \notin Buffer /\ o \notin Shader
  BY Apart, Known
<1>2. pending[o] \in [units : SUBSET (Unit \cap created)]
  BY <1>1 DEF Types, PendingOK, PendingIs
<1>3. /\ units \in SUBSET (Unit \cap created) /\ units \in SUBSET Unit
      /\ [pending[o] EXCEPT !.units = units] = x
  BY <1>2 DEF Live
<1>4. SetOK(o, ObjectSet(o), created)
  BY <1>1, <1>3 DEF SetOK, ObjectSet
<1>5. PendingIs(o, x, created)
  BY <1>1, <1>3 DEF PendingIs
<1>. HIDE DEF x, units
<1>6. /\ Grown(s, m, Just(o)) /\ StateOK(m) /\ m.pending = s.pending
      /\ m.queue = Append(s.queue, Command(o, ObjectSet(o)))
  BY <1>4, PushGrown
<1>7. n = [m EXCEPT !.pending[o].units = units]
  BY DEF ObjectPushed, units
<1>. HIDE DEF m, n
<1>8. n = [m EXCEPT !.pending[o] = x]
  <2>1. [m EXCEPT !.pending[o].units = units] =
        [m EXCEPT !.pending[o] = [m.pending[o] EXCEPT !.units = units]]
    OBVIOUS
  <2>2. m.pending[o] = pending[o]
    BY <1>6
  <2>. QED
    BY <1>3, <1>7, <2>1, <2>2
<1>9. Grown(m, n, Just(o)) /\ n.queue = m.queue
  <2>1. StateOK(m) /\ o \in Resource
    BY <1>1, <1>6
  <2>. QED
    BY <1>5, <1>8, <2>1, PendingGrown
<1>10. Grown(s, n, Just(o))
  BY <1>6, <1>9, GrownTwice
<1>. QED
  BY <1>6, <1>9, <1>10 DEF n, Grown

(* It makes the object the one of the picture.                              *)
LEMMA ObjectShown ==
    ASSUME NEW q, IsSequence(q), NEW o \in Object, NEW T, Now(q, newest, o),
           Types, Graph, o \in pool,
           T[o] = [newest[o] EXCEPT !.committed = TRUE,
                                    !.units = Live(pending[o].units)]
    PROVE  Now(Append(q, Command(o, ObjectSet(o))), T, o)
<1>. DEFINE c == Command(o, ObjectSet(o))
            n == Append(q, c)
            fields == {"committed", "units", "position"}
<1>1. /\ o \in Resource
      /\ o \notin Unit /\ o \notin Technique /\ o \notin VertexArray
      /\ o \notin Program /\ o \notin Texture /\ o \notin Sampler
      /\ o \notin Buffer /\ o \notin Shader
  BY Apart, Known
<1>2. newest[o] \in [committed : BOOLEAN, units : SUBSET Unit,
                     position : Ref(Position)]
  BY <1>1 DEF Types, PictureOK, PictureIs
<1>3. /\ T[o].committed = TRUE /\ T[o].units = Live(pending[o].units)
      /\ T[o].position = newest[o].position
  BY <1>2
<1>4. /\ Sets(c, o, "committed") /\ c.set["committed"] = TRUE
      /\ Sets(c, o, "units") /\ c.set["units"] = Live(pending[o].units)
      /\ ~Sets(c, o, "position")
  BY <1>1 DEF Sets, Command, ObjectSet
<1>5. Shows(q, Len(q) + 1, rendering, newest, o, fields)
  BY Zenon DEF Now, Match
<1>. HIDE DEF c
<1>6. LastIs(n, Len(n) + 1, o, "committed", rendering[o].committed,
             T[o].committed)
  BY <1>3, <1>4, FieldAppended
<1>7. LastIs(n, Len(n) + 1, o, "units", rendering[o].units, T[o].units)
  BY <1>3, <1>4, FieldAppended
<1>8. LastIs(q, Len(q) + 1, o, "position", rendering[o].position,
             T[o].position)
  BY <1>3, <1>5 DEF Shows
<1>9. LastIs(n, Len(n) + 1, o, "position", rendering[o].position,
             T[o].position)
  BY <1>4, <1>8, FieldAppended
<1>. HIDE DEF n
<1>10. Shows(n, Len(n) + 1, rendering, T, o, fields)
  BY <1>6, <1>7, <1>9 DEF Shows
<1>11. Match(n, Len(n) + 1, rendering, pool, T, o)
  BY <1>1, <1>10 DEF Match
<1>. QED
  BY <1>11 DEF Now, n, c

(* The commit as a whole: commands for live resources, then the commit with *)
(* its picture; they make the rendering states those of the picture.        *)
CommitOf(n, T) ==
    /\ PictureOK(T, created) /\ PendingOK(n.pending, created)
    /\ \A r \in Resource \ pool : n.pending[r] = pending[r]
    /\ IsSequence(n.queue) /\ Len(queue) < Len(n.queue)
    /\ \A i \in 1..Len(queue) : n.queue[i] = queue[i]
    /\ \A i \in (Len(queue) + 1)..(Len(n.queue) - 1) : SetCommand(n.queue[i])
    /\ n.queue[Len(n.queue)] = [op |-> "commit", picture |-> T]
    /\ \A r \in pool : Match(n.queue, Len(n.queue), rendering, pool, T, r)
    /\ Coherent(n.pending, T, content)

(* VirtualObject::Commit: the commands it orders make the rendering states  *)
(* those of its picture, and the pending states agree with it.              *)
LEMMA CommitDone ==
    ASSUME Graph, Types, Coherence, Latest, NEW o \in Object, o \in pool
    PROVE  CommitOf(CommitObject(Before, o), Picture(o))
<1>. DEFINE B == Below(o)
            T == Picture(o)
            m == CommitEach(CommitUnit, Before, Live(pending[o].units))
            k == ObjectPushed(m, o)
            end == [op |-> "commit", picture |-> T]
            n == CommitObject(Before, o)
<1>1. /\ Before.pending = pending /\ Before.queue = queue
      /\ StateOK(Before)
  BY DEF Before, StateOK, Types
<1>2. Ready(T, B)
  BY CommitBegins
<1>3. /\ Onward(Before, m, T, Others)
      /\ \A x \in B.all \ Object : \/ Finished(m, T, x)
                                   \/ x \in Buffer /\ x \notin B.buffers
  BY <1>1, UnitsCommitted
<1>4. /\ o \in B.all /\ B.all \cap Object = {o} /\ pool \subseteq Resource
      /\ o \in Resource /\ Object \cap Others = {}
  BY BelowIs, Known, Apart DEF Graph, Others, Parts
<1>5. T = [x \in Resource |-> T[x]]
  BY DEF Picture
<1>6. n = EndGroup(k, T)
  BY <1>1 DEF CommitObject, ObjectPushed, ObjectSet
<1>. HIDE DEF B, T, m
<1>7. Grown(Before, m, Others) /\ Progress(m, T) /\ StateOK(m)
  BY <1>3 DEF Onward, Progress
<1>8. m.pending[o] = pending[o]
  BY <1>1, <1>4, <1>7 DEF Grown
<1>9. /\ Grown(m, k, Just(o)) /\ StateOK(k)
      /\ k.queue = Append(m.queue, Command(o, ObjectSet(o)))
  BY <1>7, <1>8, ObjectStep
<1>. HIDE DEF k, n
<1>10. ASSUME NEW x \in Resource \ Object
       PROVE  Fate(k, T, x) /\ (x \in pool => Now(k.queue, T, x))
  <2>1. Fate(m, T, x) /\ (x \in pool => Now(m.queue, T, x))
    BY <1>2, <1>3, <1>7, FateOfAll
  <2>2. k.pending[x] = m.pending[x]
    BY <1>9 DEF Grown, Just
  <2>3. CASE x \notin pool
    <3>1. m.pending[x] = pending[x] /\ T[x] = newest[x]
      BY <1>2, <1>3, <1>7, <2>3, FateOfAll
    <3>. QED
      BY <2>2, <2>3, <3>1 DEF Fate
  <2>4. CASE x \in pool
    <3>1. x \in pool \ Just(o)
      BY <2>4 DEF Just
    <3>2. /\ Now(m.queue, T, x) => Now(k.queue, T, x)
          /\ Finished(m, T, x) => Finished(k, T, x)
      BY <1>4, <1>7, <1>9, <3>1, OthersKept
    <3>. QED
      BY <2>1, <2>2, <2>4, <3>2 DEF Fate
  <2>. QED
    BY <2>3, <2>4
<1>11. ASSUME NEW x \in pool \cap Object, x # o PROVE Now(k.queue, T, x)
  <2>1. x \in pool \ Others /\ x \in pool \ Just(o) /\ x \notin B.all
        /\ x \notin Technique /\ x \in Resource
    BY <1>4, <1>11, Apart DEF Just
  <2>2. Now(Before.queue, newest, x)
    BY <1>1, <2>1 DEF Latest, Now
  <2>3. Now(m.queue, newest, x)
    BY <1>1, <1>4, <1>7, <2>1, <2>2, OthersKept
  <2>4. Now(k.queue, newest, x)
    BY <1>4, <1>7, <1>9, <2>1, <2>3, OthersKept
  <2>5. T[x] = newest[x]
    BY <1>2, <2>1 DEF Ready
  <2>6. Same(newest, T, pool, x) /\ IsSequence(k.queue)
    BY <1>9, <2>1, <2>5 DEF Same, StateOK
  <2>. QED
    BY <2>4, <2>6, NowSame
<1>12. Now(k.queue, T, o)
  <2>1. o \in pool \ Others
    BY <1>4
  <2>2. Now(Before.queue, newest, o)
    BY <1>1 DEF Latest, Now
  <2>3. Now(m.queue, newest, o)
    BY <1>1, <1>4, <1>7, <2>1, <2>2, OthersKept
  <2>4. T[o] = [newest[o] EXCEPT !.committed = TRUE,
                                 !.units = Live(pending[o].units)]
    <3>1. PictureOf(o, B.buffers) =
             [newest[o] EXCEPT !.committed = TRUE,
                               !.units = Live(pending[o].units)]
      BY Apart DEF PictureOf
    <3>2. T[o] = PictureOf(o, B.buffers)
      BY <1>2, <1>4 DEF Ready
    <3>. QED
      BY <3>1, <3>2
  <2>5. Now(Append(m.queue, Command(o, ObjectSet(o))), T, o)
    BY <1>7, <2>3, <2>4, ObjectShown DEF StateOK
  <2>. QED
    BY <1>9, <2>5
<1>13. \A x \in pool : Now(k.queue, T, x)
  BY <1>4, <1>10, <1>11, <1>12
<1>14. n.pending = k.pending /\ n.queue = Append(k.queue, end)
  <2>1. k = [pending |-> k.pending, queue |-> k.queue]
    BY <1>9 DEF StateOK
  <2>2. n = [k EXCEPT !.queue = Append(k.queue, end)]
    BY <1>6 DEF EndGroup
  <2>. HIDE DEF end
  <2>. QED
    BY <2>1, <2>2
<1>. HIDE DEF end
<1>15. /\ IsSequence(k.queue) /\ IsSequence(n.queue)
       /\ Len(k.queue) \in Nat /\ Len(n.queue) = Len(k.queue) + 1
       /\ \A i \in 1..Len(k.queue) : n.queue[i] = k.queue[i]
       /\ n.queue[Len(n.queue)] = end
  BY <1>9, <1>14, AppendFacts, SequenceFacts DEF StateOK
<1>16. ASSUME NEW r \in pool
       PROVE  Match(n.queue, Len(n.queue), rendering, pool, T, r)
  <2>. DEFINE e == Len(k.queue) + 1
  <2>1. e = Len(n.queue)
    BY <1>15
  <2>2. Match(k.queue, e, rendering, pool, T, r)
    BY <1>13 DEF Now
  <2>3. Extends(k.queue, e, n.queue, e) /\ e..(e - 1) = {}
    BY <1>15 DEF Extends
  <2>4. Same(T, T, pool, r)
    BY DEF Same
  <2>. HIDE DEF e
  <2>5. Match(n.queue, e, rendering, pool, T, r)
    BY <2>2, <2>3, <2>4, MatchKept
  <2>. QED
    BY <2>1, <2>5
<1>17. Coherent(n.pending, T, content)
  BY <1>10, <1>14, CoherentAgain
<1>18. PictureOK(T, created) /\ PendingOK(n.pending, created)
  BY <1>2, <1>5, <1>9, <1>14, PictureTyped DEF StateOK
<1>19. \A r \in Resource \ pool : n.pending[r] = pending[r]
  BY <1>1, <1>7, <1>9, <1>14 DEF Grown
<1>20. /\ Len(queue) \in Nat
       /\ Len(queue) <= Len(m.queue)
       /\ Len(k.queue) = Len(m.queue) + 1 /\ Len(m.queue) \in Nat
       /\ \A i \in 1..Len(queue) : m.queue[i] = queue[i]
       /\ \A i \in 1..Len(m.queue) : k.queue[i] = m.queue[i]
       /\ \A i \in Len(queue) + 1..Len(m.queue) : SetCommand(m.queue[i])
       /\ SetCommand(k.queue[Len(k.queue)])
  <2>1. /\ Len(queue) \in Nat /\ Len(m.queue) \in Nat
        /\ Len(k.queue) = Len(m.queue) + 1
    BY <1>1, <1>7, <1>9, AppendFacts, SequenceFacts DEF StateOK
  <2>2. Len(k.queue) \in Len(m.queue) + 1..Len(k.queue)
    BY <2>1
  <2>. QED
    BY <1>1, <1>7, <1>9, <2>1, <2>2 DEF Grown
<1>21. ASSUME NEW i \in (Len(queue) + 1)..(Len(n.queue) - 1)
       PROVE  SetCommand(n.queue[i])
  <2>1. n.queue[i] = k.queue[i]
    BY <1>15, <1>20
  <2>2. CASE i = Len(k.queue)
    BY <1>20, <2>1, <2>2
  <2>3. CASE i # Len(k.queue)
    <3>1. i \in 1..Len(m.queue) /\ i \in Len(queue) + 1..Len(m.queue)
      BY <1>15, <1>20, <2>3
    <3>. QED
      BY <1>20, <2>1, <3>1, Zenon
  <2>. QED
    BY <2>2, <2>3
<1>22. /\ Len(queue) < Len(n.queue)
       /\ \A i \in 1..Len(queue) : n.queue[i] = queue[i]
  <2>1. \A i \in 1..Len(queue) : i \in 1..Len(m.queue) /\ i \in 1..Len(k.queue)
    BY <1>20
  <2>2. \A i \in 1..Len(queue) : n.queue[i] = queue[i]
    BY <1>15, <1>20, <2>1, Zenon
  <2>. QED
    BY <1>15, <1>20, <2>2
<1>. QED
  BY <1>15, <1>16, <1>17, <1>18, <1>19, <1>21, <1>22, Zenon
     DEF CommitOf, T, n, end

-----------------------------------------------------------------------------
(* Types, when more resources were created or fewer are alive               *)

(* A pending state keeps its type when more resources are known.            *)
LEMMA PendingIsMore ==
    ASSUME NEW r, NEW x, NEW known, NEW more, known \subseteq more,
           PendingIs(r, x, known)
    PROVE  PendingIs(r, x, more)
<1>1. /\ \A K : K \cap known \subseteq K \cap more
      /\ \A K : Ref(K \cap known) \subseteq Ref(K \cap more)
  BY DEF Ref
<1>2. r \in Object => x \in [units : SUBSET (Unit \cap more)]
  BY DEF PendingIs
<1>3. r \in Unit => x \in [technique : Ref(Technique \cap more)]
  BY DEF PendingIs, Ref
<1>4. r \in Technique =>
          x \in [program : Ref(Program \cap more), programDamaged : BOOLEAN,
                vertexArray : Ref(VertexArray \cap more),
                vertexArrayDamaged : BOOLEAN,
                texture : Ref(Texture \cap more),
                sampler : Ref(Sampler \cap more), textureDamaged : BOOLEAN,
                method : Method, elements : Ref(Buffer \cap more),
                methodDamaged : BOOLEAN, uniform : Data]
  BY DEF PendingIs, Ref
<1>5. r \in VertexArray =>
          x \in [attribute : [Index -> [enabled : BOOLEAN,
                                       buffer : Ref(Buffer \cap more),
                                       damaged : BOOLEAN]],
                damaged : BOOLEAN]
  <2>. SUFFICES ASSUME r \in VertexArray
                PROVE  x \in [attribute : [Index -> [enabled : BOOLEAN,
                                             buffer : Ref(Buffer \cap more),
                                             damaged : BOOLEAN]],
                              damaged : BOOLEAN]
    OBVIOUS
  <2>1. x \in [attribute : [Index -> [enabled : BOOLEAN,
                                      buffer : Ref(Buffer \cap known),
                                      damaged : BOOLEAN]],
               damaged : BOOLEAN]
    BY DEF PendingIs
  <2>2. [enabled : BOOLEAN, buffer : Ref(Buffer \cap known), damaged : BOOLEAN]
          \subseteq [enabled : BOOLEAN, buffer : Ref(Buffer \cap more),
                     damaged : BOOLEAN]
    BY <1>1
  <2>. DEFINE S == [enabled : BOOLEAN, buffer : Ref(Buffer \cap known),
                    damaged : BOOLEAN]
              M == [enabled : BOOLEAN, buffer : Ref(Buffer \cap more),
                    damaged : BOOLEAN]
  <2>3. x \in [attribute : [Index -> S], damaged : BOOLEAN] /\ S \subseteq M
    BY <2>1, <2>2
  <2>. HIDE DEF S, M
  <2>4. x \in [attribute : [Index -> M], damaged : BOOLEAN]
    BY <2>3
  <2>. QED
    BY <2>4 DEF M
<1>6. r \in Program => x \in [shaders : SUBSET Ref(Shader \cap more),
                              shouldLink : BOOLEAN]
  BY DEF PendingIs, Ref
<1>7. /\ r \in Buffer => /\ x \in [data : Data, damaged : BOOLEAN]
                         /\ x.damaged => x.data # None
      /\ r \in Shader => x \in [committed : BOOLEAN]
      /\ r \in Texture => x \in [data : Data, mipmap : BOOLEAN]
      /\ r \in Sampler => x \in [parameter : Data]
  BY Zenon DEF PendingIs
<1>. QED
  BY <1>2, <1>3, <1>4, <1>5, <1>6, <1>7, Zenon DEF PendingIs

(* So does the picture of a resource,                                       *)
LEMMA PictureIsMore ==
    ASSUME NEW r, NEW x, NEW known, NEW more, known \subseteq more,
           PictureIs(r, x, known)
    PROVE  PictureIs(r, x, more)
<1>1. \A K : Ref(K \cap known) \subseteq Ref(K \cap more)
  BY DEF Ref
<1>2. r \in Technique =>
          x \in [program : Ref(Program), vertexArray : Ref(VertexArray),
                texture : Ref(Texture \cap more),
                sampler : Ref(Sampler \cap more),
                method : Method, elements : Ref(Buffer),
                uniform : Data, applied : Ref(Program \cap more)]
  BY DEF PictureIs, Ref
<1>3. r \in VertexArray =>
          x \in [attribute : [Index -> [enabled : BOOLEAN,
                                       buffer : Ref(Buffer \cap more),
                                       bound : BOOLEAN]]]
  <2>. DEFINE S == [enabled : BOOLEAN, buffer : Ref(Buffer \cap known),
                    bound : BOOLEAN]
              M == [enabled : BOOLEAN, buffer : Ref(Buffer \cap more),
                    bound : BOOLEAN]
  <2>1. S \subseteq M
    BY <1>1
  <2>2. r \in VertexArray => x \in [attribute : [Index -> S]]
    BY DEF PictureIs
  <2>. HIDE DEF S, M
  <2>3. r \in VertexArray => x \in [attribute : [Index -> M]]
    BY <2>1, <2>2
  <2>. QED
    BY <2>3 DEF M
<1>4. r \in Program => x \in [linked : SUBSET Ref(Shader \cap more)]
  BY DEF PictureIs, Ref
<1>5. /\ r \in Object => x \in [committed : BOOLEAN, units : SUBSET Unit,
                                position : Ref(Position)]
      /\ r \in Unit => x \in [technique : Ref(Technique)]
      /\ r \in Buffer => x \in [data : Data, reached : BOOLEAN]
      /\ r \in Texture => x \in [data : Data, mipmap : Data]
      /\ r \in Sampler => x \in [exists : BOOLEAN, parameter : Data]
  BY Zenon DEF PictureIs
<1>. QED
  BY <1>2, <1>3, <1>4, <1>5, Zenon DEF PictureIs

(* and a picture as a whole.                                                *)
LEMMA PictureMore ==
    ASSUME NEW P, NEW known, NEW more, known \subseteq more,
           PictureOK(P, known)
    PROVE  PictureOK(P, more)
<1>1. \A r \in Resource : PictureIs(r, P[r], more)
  BY PictureIsMore, Zenon DEF PictureOK
<1>2. \A r \in Resource \ more : P[r] = NoPicture(r)
  BY DEF PictureOK
<1>. QED
  BY <1>1, <1>2, Zenon DEF PictureOK

(* An entry of the queue keeps its type when more resources are known and   *)
(* no fewer are gone.                                                       *)
LEMMA EntryMore ==
    ASSUME NEW c, NEW known, NEW more, known \subseteq more,
           NEW L, NEW M, known \ L \subseteq more \ M, EntryOK(c, known, L)
    PROVE  EntryOK(c, more, M)
<1>1. CASE c.op = "commit" /\ PictureOK(c.picture, known)
  BY <1>1, PictureMore, Zenon DEF EntryOK
<1>2. CASE c.op = "delete" /\ c.to \in known \ L
  BY <1>2 DEF EntryOK
<1>3. CASE c.op = "set" /\ c.to \in known /\ SetOK(c.to, c.set, known)
  <2>1. c.to \in Program => c.set \in [link : SUBSET Ref(Shader \cap more)]
    BY <1>3 DEF SetOK, Ref
  <2>2. SetOK(c.to, c.set, more)
    BY <1>3, <2>1, Zenon DEF SetOK
  <2>. QED
    BY <1>3, <2>2 DEF EntryOK
<1>. QED
  BY <1>1, <1>2, <1>3, Zenon DEF EntryOK

-----------------------------------------------------------------------------
(* What the queue shows, when resources are deleted or created              *)

(* What the queue makes of a resource is asked less of when fewer of the    *)
(* others are alive.                                                        *)
LEMMA MatchFewer ==
    ASSUME NEW q, NEW e, NEW R, NEW L, NEW M, M \subseteq L, NEW P, NEW r,
           Match(q, e, R, L, P, r)
    PROVE  Match(q, e, R, M, P, r)
<1>1. r \in Technique =>
         /\ {P[r].texture, P[r].sampler} \subseteq M =>
               Shows(q, e, R, P, r, {"texture", "sampler"})
         /\ UniformShows(q, e, R, M, P, r)
  <2>. SUFFICES ASSUME r \in Technique
                PROVE  /\ {P[r].texture, P[r].sampler} \subseteq M =>
                             Shows(q, e, R, P, r, {"texture", "sampler"})
                       /\ UniformShows(q, e, R, M, P, r)
    OBVIOUS
  <2>1. {P[r].texture, P[r].sampler} \subseteq M =>
               Shows(q, e, R, P, r, {"texture", "sampler"})
    BY DEF Match
  <2>2. UniformShows(q, e, R, L, P, r)
    BY Zenon DEF Match
  <2>3. /\ P[r].applied \in M => P[r].applied \in L
        /\ P[P[r].applied].linked \subseteq M =>
              P[P[r].applied].linked \subseteq L
    OBVIOUS
  <2>4. UniformShows(q, e, R, M, P, r)
    BY <2>2, <2>3, Zenon DEF UniformShows
  <2>. QED
    BY <2>1, <2>4
<1>2. r \in VertexArray => \A i \in Index : AttributeShows(q, e, R, M, P, r, i)
  <2>. SUFFICES ASSUME r \in VertexArray, NEW i \in Index
                PROVE  AttributeShows(q, e, R, M, P, r, i)
    OBVIOUS
  <2>1. AttributeShows(q, e, R, L, P, r, i)
    BY Zenon DEF Match
  <2>2. P[r].attribute[i].buffer \in M => P[r].attribute[i].buffer \in L
    OBVIOUS
  <2>. QED
    BY <2>1, <2>2, Zenon DEF AttributeShows
<1>3. r \in Program => LinkShows(q, e, R, M, P, r)
  <2>. SUFFICES ASSUME r \in Program PROVE LinkShows(q, e, R, M, P, r)
    OBVIOUS
  <2>1. LinkShows(q, e, R, L, P, r)
    BY Zenon DEF Match
  <2>2. \A c : Links(c, r, M) => Links(c, r, L)
    BY DEF Links
  <2>3. P[r].linked \subseteq M => P[r].linked \subseteq L
    OBVIOUS
  <2>. QED
    BY <2>1, <2>2, <2>3, Zenon DEF LinkShows
<1>. QED
  BY <1>1, <1>2, <1>3, Zenon DEF Match

(* Nothing refers to a resource before it is created.                       *)
LEMMA MatchMore ==
    ASSUME NEW known, known \subseteq Resource, NEW L, L \subseteq known,
           NEW M, M \cap known \subseteq L, None \notin M,
           NEW q, NEW e \in Nat, NEW R, NEW P, PictureOK(P, known),
           NEW r \in L, Match(q, e, R, L, P, r),
           \A i \in 1..(e - 1) : EntryOK(q[i], known, L)
    PROVE  Match(q, e, R, M, P, r)
<1>0. /\ r \in Resource
      /\ \A K, x : x \in Ref(K \cap known) /\ x \in M => x \in L
      /\ \A K, x : x \subseteq Ref(K \cap known) /\ x \subseteq M =>
                   x \subseteq L
  BY DEF Ref
<1>p. \A x \in Program : P[x].linked \subseteq Ref(Shader \cap known)
  <2>1. ASSUME NEW x \in Program
        PROVE  P[x].linked \subseteq Ref(Shader \cap known)
    <3>1. PictureIs(x, P[x], known)
      BY Known DEF PictureOK
    <3>. QED
      BY <3>1 DEF PictureIs
  <2>. QED
    BY <2>1
<1>t. PictureIs(r, P[r], known)
  BY <1>0 DEF PictureOK
<1>1. r \in Technique =>
         /\ {P[r].texture, P[r].sampler} \subseteq M =>
               Shows(q, e, R, P, r, {"texture", "sampler"})
         /\ UniformShows(q, e, R, M, P, r)
  <2>. SUFFICES ASSUME r \in Technique
                PROVE  /\ {P[r].texture, P[r].sampler} \subseteq M =>
                             Shows(q, e, R, P, r, {"texture", "sampler"})
                       /\ UniformShows(q, e, R, M, P, r)
    OBVIOUS
  <2>0. /\ P[r].texture \in Ref(Texture \cap known)
        /\ P[r].sampler \in Ref(Sampler \cap known)
        /\ P[r].applied \in Ref(Program \cap known)
    BY <1>t DEF PictureIs
  <2>1. {P[r].texture, P[r].sampler} \subseteq M =>
               Shows(q, e, R, P, r, {"texture", "sampler"})
    <3>1. {P[r].texture, P[r].sampler} \subseteq M =>
             {P[r].texture, P[r].sampler} \subseteq L
      BY <1>0, <2>0
    <3>. QED
      BY <3>1, Zenon DEF Match
  <2>2. UniformShows(q, e, R, L, P, r)
    BY Zenon DEF Match
  <2>3. P[r].applied \in M =>
           /\ P[r].applied \in L
           /\ P[P[r].applied].linked \subseteq M =>
                 P[P[r].applied].linked \subseteq L
    <3>1. P[r].applied \in M => P[r].applied \in L /\ P[r].applied \in Program
      BY <1>0, <2>0 DEF Ref
    <3>. QED
      BY <1>0, <1>p, <3>1, Zenon
  <2>4. UniformShows(q, e, R, M, P, r)
    BY <2>2, <2>3, Zenon DEF UniformShows
  <2>. QED
    BY <2>1, <2>4
<1>2. r \in VertexArray => \A i \in Index : AttributeShows(q, e, R, M, P, r, i)
  <2>. SUFFICES ASSUME r \in VertexArray, NEW i \in Index
                PROVE  AttributeShows(q, e, R, M, P, r, i)
    OBVIOUS
  <2>1. AttributeShows(q, e, R, L, P, r, i)
    BY Zenon DEF Match
  <2>2. P[r].attribute[i].buffer \in Ref(Buffer \cap known)
    <3>1. P[r] \in [attribute : [Index -> [enabled : BOOLEAN,
                                           buffer : Ref(Buffer \cap known),
                                           bound : BOOLEAN]]]
      BY <1>t DEF PictureIs
    <3>. QED
      BY <3>1
  <2>3. P[r].attribute[i].buffer \in M => P[r].attribute[i].buffer \in L
    BY <1>0, <2>2
  <2>. QED
    BY <2>1, <2>3, Zenon DEF AttributeShows
<1>3. r \in Program => LinkShows(q, e, R, M, P, r)
  <2>. SUFFICES ASSUME r \in Program, P[r].linked \subseteq M
                PROVE  LinkShows(q, e, R, M, P, r)
    BY DEF LinkShows
  <2>1. LinkShows(q, e, R, L, P, r)
    BY Zenon DEF Match
  <2>2. ASSUME NEW i \in 1..(e - 1), Links(q[i], r, M)
        PROVE  Links(q[i], r, L)
    <3>1. q[i].op = "set" /\ q[i].to = r /\ q[i].set.link \subseteq M
      BY <2>2 DEF Links, LinkSet
    <3>2. SetOK(r, q[i].set, known)
      BY <3>1 DEF EntryOK
    <3>3. q[i].set.link \subseteq Ref(Shader \cap known)
      BY <3>2 DEF SetOK
    <3>. QED
      BY <1>0, <2>2, <3>1, <3>3 DEF Links
  <2>3. P[r].linked \subseteq L
    BY <1>0, <1>p
  <2>4. CASE P[r].linked = {}
    BY <2>1, <2>2, <2>3, <2>4, Zenon DEF LinkShows
  <2>5. CASE P[r].linked # {} /\ R[r].linked = P[r].linked
    BY <2>5, Zenon DEF LinkShows
  <2>6. CASE P[r].linked # {} /\ R[r].linked # P[r].linked
    <3>1. R[r].linked = {}
      BY <2>1, <2>3, <2>6, Zenon DEF LinkShows
    <3>2. PICK j \in 1..(e - 1) :
                    /\ LinkSet(q[j], r) /\ q[j].set.link = P[r].linked
                    /\ \A k \in 1..(j - 1) : ~Links(q[k], r, L)
      BY <2>1, <2>3, <2>6, Zenon DEF LinkShows
    <3>3. \A k \in 1..(j - 1) : k \in 1..(e - 1)
      OBVIOUS
    <3>4. \A k \in 1..(j - 1) : ~Links(q[k], r, M)
      BY <2>2, <3>2, <3>3, Zenon
    <3>. QED
      BY <2>6, <3>1, <3>2, <3>4, Zenon DEF LinkShows
  <2>. QED
    BY <2>4, <2>5, <2>6
<1>. QED
  BY <1>1, <1>2, <1>3, Zenon DEF Match

(* The picture of a resource that was never committed.                      *)
LEMMA NoPictureIs ==
    /\ \A r \in VertexArray : NoPicture(r) =
           [attribute |-> [i \in Index |-> [enabled |-> FALSE, buffer |-> None,
                                            bound |-> FALSE]]]
    /\ \A r \in Buffer : NoPicture(r) = [data |-> None, reached |-> TRUE]
    /\ \A r \in Technique : NoPicture(r) =
           [program |-> None, vertexArray |-> None, texture |-> None,
            sampler |-> None, method |-> "none", elements |-> None,
            uniform |-> None, applied |-> None]
    /\ \A r \in Resource : r \notin VertexArray \cup Buffer \cup Technique =>
           NoPicture(r) = InitialRendering(r)
<1>1. \A r \in VertexArray : NoPicture(r) =
           [attribute |-> [i \in Index |-> [enabled |-> FALSE, buffer |-> None,
                                            bound |-> FALSE]]]
  BY Apart DEF NoPicture
<1>2. \A r \in Buffer : NoPicture(r) = [data |-> None, reached |-> TRUE]
  BY Apart DEF NoPicture
<1>3. \A r \in Technique : NoPicture(r) =
           [program |-> None, vertexArray |-> None, texture |-> None,
            sampler |-> None, method |-> "none", elements |-> None,
            uniform |-> None, applied |-> None]
  BY Apart DEF NoPicture
<1>4. \A r \in Resource : r \notin VertexArray \cup Buffer \cup Technique =>
           NoPicture(r) = InitialRendering(r)
  BY Apart DEF NoPicture
<1>. QED
  BY <1>1, <1>2, <1>3, <1>4, Zenon

(* No command was ever for r.                                               *)
LEMMA MatchNew ==
    ASSUME NEW q, NEW e, NEW R, NEW L, None \notin L, NEW P,
           NEW r \in Resource,
           \A i \in 1..(e - 1) : ~(q[i].op = "set" /\ q[i].to = r),
           R[r] = InitialRendering(r), P[r] = NoPicture(r)
    PROVE  Match(q, e, R, L, P, r)
<1>1. \A i \in 1..(e - 1) :
        /\ \A f : ~Sets(q[i], r, f)
        /\ ~MipmapSet(q[i], r)
        /\ ~Links(q[i], r, L)
        /\ \A k : ~AttributeSet(q[i], r, k)
  BY DEF Sets, MipmapSet, Links, LinkSet, AttributeSet
<1>2. ASSUME NEW fields, \A f \in fields : R[r][f] = P[r][f]
      PROVE  Shows(q, e, R, P, r, fields)
  BY <1>1, <1>2, Zenon DEF Shows, LastIs
<1>3. r \in Object => Shows(q, e, R, P, r, {"committed", "units", "position"})
  <2>1. r \in Object => R[r] = P[r]
    BY NoPictureIs, Apart
  <2>. QED
    BY <1>2, <2>1
<1>4. r \in Unit => Shows(q, e, R, P, r, {"technique"})
  <2>1. r \in Unit => R[r] = P[r]
    BY NoPictureIs, Apart
  <2>. QED
    BY <1>2, <2>1
<1>5. r \in Technique =>
         /\ Shows(q, e, R, P, r,
                  {"program", "vertexArray", "method", "elements"})
         /\ Shows(q, e, R, P, r, {"texture", "sampler"})
         /\ UniformShows(q, e, R, L, P, r)
  <2>. SUFFICES ASSUME r \in Technique
       PROVE /\ Shows(q, e, R, P, r,
                      {"program", "vertexArray", "method", "elements"})
             /\ Shows(q, e, R, P, r, {"texture", "sampler"})
             /\ UniformShows(q, e, R, L, P, r)
    OBVIOUS
  <2>1. /\ R[r] = [program |-> None, vertexArray |-> None, texture |-> None,
                   sampler |-> None, method |-> "none", elements |-> None,
                   uniform |-> None]
        /\ P[r] = [program |-> None, vertexArray |-> None, texture |-> None,
                   sampler |-> None, method |-> "none", elements |-> None,
                   uniform |-> None, applied |-> None]
    BY NoPictureIs, InitialRenderingIs
  <2>2. \A f \in {"program", "vertexArray", "method", "elements"} :
           R[r][f] = P[r][f]
    BY <2>1
  <2>3. \A f \in {"texture", "sampler"} : R[r][f] = P[r][f]
    BY <2>1
  <2>4. P[r].applied = None
    BY <2>1
  <2>5. UniformShows(q, e, R, L, P, r)
    BY <2>4 DEF UniformShows
  <2>. QED
    BY <1>2, <2>2, <2>3, <2>5
<1>6. r \in VertexArray => \A i \in Index : AttributeShows(q, e, R, L, P, r, i)
  <2>. SUFFICES ASSUME r \in VertexArray, NEW i \in Index
                PROVE  AttributeShows(q, e, R, L, P, r, i)
    OBVIOUS
  <2>1. R[r].attribute[i] = [enabled |-> FALSE, buffer |-> None]
    <3>1. InitialRendering(r) =
            [exists |-> FALSE,
             attribute |-> [k \in Index |-> [enabled |-> FALSE,
                                             buffer |-> None]]]
      BY InitialRenderingIs, Zenon
    <3>. QED
      BY <3>1
  <2>2. P[r].attribute[i] = [enabled |-> FALSE, buffer |-> None,
                             bound |-> FALSE]
    <3>1. NoPicture(r) =
            [attribute |-> [k \in Index |-> [enabled |-> FALSE, buffer |-> None,
                                             bound |-> FALSE]]]
      BY NoPictureIs, Zenon
    <3>. QED
      BY <3>1
  <2>3. /\ R[r].attribute[i].enabled = P[r].attribute[i].enabled
        /\ P[r].attribute[i].bound = FALSE
    BY <2>1, <2>2
  <2>. QED
    BY <1>1, <2>3, Zenon DEF AttributeShows
<1>7. r \in Buffer => Shows(q, e, R, P, r, {"data"})
  <2>1. r \in Buffer => R[r].data = P[r].data
    BY NoPictureIs, InitialRenderingIs
  <2>. QED
    BY <1>2, <2>1
<1>8. r \in Program => LinkShows(q, e, R, L, P, r)
  <2>1. r \in Program => R[r].linked = {} /\ P[r].linked = {}
    BY NoPictureIs, InitialRenderingIs, Apart
  <2>. QED
    BY <1>1, <2>1 DEF LinkShows
<1>9. r \in Texture => /\ Shows(q, e, R, P, r, {"data"})
                       /\ MipmapShows(q, e, R, P, r)
  <2>1. r \in Texture => R[r] = P[r]
    BY NoPictureIs, Apart
  <2>2. r \in Texture => MipmapShows(q, e, R, P, r)
    BY <1>1, <2>1 DEF MipmapShows
  <2>. QED
    BY <1>2, <2>1, <2>2
<1>10. r \in Sampler => Shows(q, e, R, P, r, {"exists", "parameter"})
  <2>1. r \in Sampler => R[r] = P[r]
    BY NoPictureIs, Apart
  <2>. QED
    BY <1>2, <2>1
<1>. QED
  BY <1>3, <1>4, <1>5, <1>6, <1>7, <1>8, <1>9, <1>10, Zenon DEF Match

(* Without commands, what a picture asks is what the rendering state is.    *)
LEMMA MatchIsShown ==
    ASSUME NEW r \in pool, Graph, Types,
           Match(queue, 1, rendering, pool, shown, r)
    PROVE  IsShown(r)
<1>1. /\ r \in Resource /\ 1..(1 - 1) = {}
      /\ RenderingIs(r, rendering[r]) /\ PictureIs(r, shown[r], created)
  BY DEF Graph, Types, RenderingOK, PictureOK
<1>2. ASSUME NEW fields, Shows(queue, 1, rendering, shown, r, fields)
      PROVE  \A f \in fields : rendering[r][f] = shown[r][f]
  BY <1>1, <1>2, Zenon DEF Shows, LastIs
<1>3. CASE r \in Object
  <2>1. /\ rendering[r].committed = shown[r].committed
        /\ rendering[r].units = shown[r].units
        /\ rendering[r].position = shown[r].position
    BY <1>2, <1>3 DEF Match
  <2>. QED
    BY <1>3, <2>1, Apart DEF IsShown
<1>4. CASE r \in Unit
  <2>1. rendering[r].technique = shown[r].technique
    BY <1>2, <1>4 DEF Match
  <2>2. /\ rendering[r] \in [technique : Ref(Technique)]
        /\ shown[r] \in [technique : Ref(Technique)]
    BY <1>1, <1>4 DEF RenderingIs, PictureIs
  <2>3. rendering[r] = shown[r]
    BY <2>1, <2>2
  <2>. QED
    BY <1>4, <2>3, Apart DEF IsShown
<1>5. CASE r \in Technique
  <2>1. \A part \in {"program", "vertexArray", "method", "elements"} :
           rendering[r][part] = shown[r][part]
    BY <1>2, <1>5 DEF Match
  <2>2. {shown[r].texture, shown[r].sampler} \subseteq pool =>
           /\ rendering[r].texture = shown[r].texture
           /\ rendering[r].sampler = shown[r].sampler
    BY <1>2, <1>5 DEF Match
  <2>3. UniformShows(queue, 1, rendering, pool, shown, r)
    BY <1>5, Zenon DEF Match
  <2>4. /\ shown[r].applied \in pool
        /\ shown[shown[r].applied].linked \subseteq pool
        => rendering[r].uniform = shown[r].uniform
    BY <1>1, <2>3, Zenon DEF UniformShows
  <2>. QED
    BY <1>5, <2>1, <2>2, <2>4, Apart DEF IsShown
<1>6. CASE r \in VertexArray
  <2>1. ASSUME NEW i \in Index
        PROVE  LET at == shown[r].attribute[i]
               IN  /\ rendering[r].attribute[i].enabled = at.enabled
                   /\ at.bound /\ at.buffer \in pool =>
                         rendering[r].attribute[i].buffer = at.buffer
    <3>1. AttributeShows(queue, 1, rendering, pool, shown, r, i)
      BY <1>6, Zenon DEF Match
    <3>. QED
      BY <1>1, <3>1, Zenon DEF AttributeShows
  <2>. QED
    BY <1>6, <2>1, Apart DEF IsShown
<1>7. CASE r \in Buffer
  <2>1. shown[r].reached => rendering[r].data = shown[r].data
    BY <1>2, <1>7 DEF Match
  <2>. QED
    BY <1>7, <2>1, Apart DEF IsShown
<1>8. CASE r \in Program
  <2>1. LinkShows(queue, 1, rendering, pool, shown, r)
    BY <1>8, Zenon DEF Match
  <2>2. shown[r].linked \subseteq pool =>
           rendering[r].linked = shown[r].linked
    BY <1>1, <2>1, Zenon DEF LinkShows
  <2>. QED
    BY <1>8, <2>2, Apart DEF IsShown
<1>9. CASE r \in Shader
  BY <1>9, Apart DEF IsShown
<1>10. CASE r \in Texture
  <2>1. rendering[r].data = shown[r].data
    BY <1>2, <1>10 DEF Match
  <2>2. MipmapShows(queue, 1, rendering, shown, r)
    BY <1>10, Zenon DEF Match
  <2>3. rendering[r].mipmap = shown[r].mipmap
    BY <1>1, <2>2, Zenon DEF MipmapShows
  <2>4. /\ rendering[r] \in [data : Data, mipmap : Data]
        /\ shown[r] \in [data : Data, mipmap : Data]
    BY <1>1, <1>10 DEF RenderingIs, PictureIs
  <2>5. rendering[r] = shown[r]
    BY <2>1, <2>3, <2>4
  <2>. QED
    BY <1>10, <2>5, Apart DEF IsShown
<1>11. CASE r \in Sampler
  <2>1. rendering[r].exists = shown[r].exists
        /\ rendering[r].parameter = shown[r].parameter
    BY <1>2, <1>11 DEF Match
  <2>2. /\ rendering[r] \in [exists : BOOLEAN, parameter : Data]
        /\ shown[r] \in [exists : BOOLEAN, parameter : Data]
    BY <1>1, <1>11 DEF RenderingIs, PictureIs
  <2>3. rendering[r] = shown[r]
    BY <2>1, <2>2
  <2>. QED
    BY <1>11, <2>3, Apart DEF IsShown
<1>. QED
  BY <1>1, <1>3, <1>4, <1>5, <1>6, <1>7, <1>8, <1>9, <1>10, <1>11, Known

-----------------------------------------------------------------------------
(* The entry at the head of the queue is executed.                          *)

FieldTaken(c, R, S, r, f) ==
    S[r][f] = IF Sets(c, r, f) THEN c.set[f] ELSE R[r][f]

(* What the entry c makes of the rendering state R of r, if L are alive     *)
Takes(c, R, S, L, r) ==
    /\ r \in Object => \A f \in {"committed", "units", "position"} :
                          FieldTaken(c, R, S, r, f)
    /\ r \in Unit => FieldTaken(c, R, S, r, "technique")
    /\ r \in Technique =>
         /\ \A f \in {"program", "vertexArray", "method", "elements",
                      "texture", "sampler"} : FieldTaken(c, R, S, r, f)
         /\ ~Sets(c, r, "uniform") => S[r].uniform = R[r].uniform
         /\ /\ Sets(c, r, "uniform") /\ R[r].program \in L
            /\ R[R[r].program].linked # {}
            => S[r].uniform = c.set.uniform
    /\ r \in VertexArray => \A i \in Index :
         IF AttributeSet(c, r, i)
           THEN LET b == c.set.attribute[i].buffer
                IN  /\ S[r].attribute[i].enabled = c.set.attribute[i].enabled
                    /\ b \in L /\ R[b].data # None =>
                          S[r].attribute[i].buffer = b
           ELSE S[r].attribute[i] = R[r].attribute[i]
    /\ r \in Buffer => /\ FieldTaken(c, R, S, r, "data")
                       /\ c.op = "set" /\ c.to = r =>
                             Sets(c, r, "data") /\ c.set.data # None
    /\ r \in Program => S[r].linked =
         IF LinkSet(c, r) /\ R[r].linked = {} /\ c.set.link \subseteq L
           THEN c.set.link ELSE R[r].linked
    /\ r \in Texture => /\ FieldTaken(c, R, S, r, "data")
                        /\ S[r].mipmap = IF MipmapSet(c, r) THEN S[r].data
                                                            ELSE R[r].mipmap
    /\ r \in Sampler => \A f \in {"exists", "parameter"} :
                           FieldTaken(c, R, S, r, f)

(* The entries of q before the e-th, without the first, are those of n      *)
(* before the d-th.                                                         *)
Shifted(q, e, n, d) == /\ d \in Nat /\ 1 <= d /\ e = d + 1
                       /\ \A k \in 1..(d - 1) : n[k] = q[k + 1]

Aligned(q, e, n, d) ==
    /\ e \in Nat /\ 1 \in 1..(e - 1)
    /\ \A k \in 1..(d - 1) : k + 1 \in 1..(e - 1) /\ n[k] = q[k + 1]
    /\ \A k \in 1..(e - 1) :
          k # 1 => k - 1 \in 1..(d - 1) /\ n[k - 1] = q[k]
    /\ \A j \in 1..d : Shifted(q, j + 1, n, j)
    /\ \A j \in 1..(d - 1) : \A k \in ((j + 1) + 1)..(e - 1) :
          k - 1 \in (j + 1)..(d - 1) /\ n[k - 1] = q[k]
    /\ \A k \in (1 + 1)..(e - 1) : k - 1 \in 1..(d - 1) /\ n[k - 1] = q[k]

(* The arithmetic of places in a queue whose head was taken.                *)
LEMMA ShiftedFacts ==
    ASSUME NEW q, NEW e, NEW n, NEW d, Shifted(q, e, n, d)
    PROVE  Aligned(q, e, n, d)
<1>1. ASSUME NEW k \in 1..(e - 1), k # 1
      PROVE  k - 1 \in 1..(d - 1) /\ n[k - 1] = q[k]
  <2>1. k - 1 \in 1..(d - 1) /\ (k - 1) + 1 = k
    BY <1>1 DEF Shifted
  <2>2. n[k - 1] = q[(k - 1) + 1]
    BY <2>1 DEF Shifted
  <2>. QED
    BY <2>1, <2>2
<1>2. /\ \A j \in 1..(d - 1) : \A k \in ((j + 1) + 1)..(e - 1) :
            k - 1 \in (j + 1)..(d - 1) /\ k \in 1..(e - 1) /\ k # 1
      /\ \A k \in (1 + 1)..(e - 1) :
            k - 1 \in 1..(d - 1) /\ k \in 1..(e - 1) /\ k # 1
  BY DEF Shifted
<1>3. /\ \A j \in 1..(d - 1) : \A k \in ((j + 1) + 1)..(e - 1) :
            k - 1 \in (j + 1)..(d - 1) /\ n[k - 1] = q[k]
      /\ \A k \in (1 + 1)..(e - 1) :
            k - 1 \in 1..(d - 1) /\ n[k - 1] = q[k]
  BY <1>1, <1>2, Zenon
<1>4. /\ e \in Nat /\ 1 \in 1..(e - 1)
      /\ \A k \in 1..(d - 1) : k + 1 \in 1..(e - 1) /\ n[k] = q[k + 1]
      /\ \A j \in 1..d : Shifted(q, j + 1, n, j)
  BY DEF Shifted
<1>. QED
  BY <1>1, <1>3, <1>4, Zenon DEF Aligned

(* The last command that sets a field stays the last when the head takes    *)
(* effect.                                                                  *)
LEMMA LastIsShift ==
    ASSUME NEW q, NEW e, NEW n, NEW d, Shifted(q, e, n, d),
           NEW r, NEW f, NEW old, NEW new, NEW val,
           LastIs(q, e, r, f, old, val),
           new = IF Sets(q[1], r, f) THEN q[1].set[f] ELSE old
    PROVE  LastIs(n, d, r, f, new, val)
<1>s. Aligned(q, e, n, d)
  BY ShiftedFacts
<1>1. ASSUME NEW j \in 1..(d - 1), Sets(n[j], r, f),
             \A k \in (j + 1)..(d - 1) : ~Sets(n[k], r, f)
      PROVE  n[j].set[f] = val
  <2>1. j + 1 \in 1..(e - 1) /\ n[j] = q[j + 1]
    BY <1>s, Zenon DEF Aligned
  <2>2. \A k \in ((j + 1) + 1)..(e - 1) : ~Sets(q[k], r, f)
    BY <1>s, <1>1, Zenon DEF Aligned
  <2>. QED
    BY <1>1, <2>1, <2>2, Zenon DEF LastIs
<1>2. ASSUME \A j \in 1..(d - 1) : ~Sets(n[j], r, f)
      PROVE  new = val
  <2>1. \A k \in (1 + 1)..(e - 1) : ~Sets(q[k], r, f)
    BY <1>s, <1>2, Zenon DEF Aligned
  <2>2. 1 \in 1..(e - 1)
    BY <1>s DEF Aligned
  <2>3. CASE Sets(q[1], r, f)
    <3>1. q[1].set[f] = val
      BY <2>1, <2>2, <2>3, Zenon DEF LastIs
    <3>. QED
      BY <2>3, <3>1
  <2>4. CASE ~Sets(q[1], r, f)
    <3>1. \A k \in 1..(e - 1) : ~Sets(q[k], r, f)
      BY <1>s, <1>2, <2>4, Zenon DEF Aligned
    <3>2. old = val
      BY <3>1, Zenon DEF LastIs
    <3>. QED
      BY <2>4, <3>2
  <2>. QED
    BY <2>3, <2>4
<1>. QED
  BY <1>1, <1>2, Zenon DEF LastIs

(* Fields keep their promise when the head of the queue takes effect.       *)
LEMMA ShowsShift ==
    ASSUME NEW q, NEW e, NEW n, NEW d, Shifted(q, e, n, d),
           NEW R, NEW S, NEW P, NEW r, NEW fields,
           Shows(q, e, R, P, r, fields),
           \A f \in fields : FieldTaken(q[1], R, S, r, f)
    PROVE  Shows(n, d, S, P, r, fields)
<1>1. ASSUME NEW f \in fields PROVE LastIs(n, d, r, f, S[r][f], P[r][f])
  <2>1. LastIs(q, e, r, f, R[r][f], P[r][f])
    BY Zenon DEF Shows
  <2>2. S[r][f] = IF Sets(q[1], r, f) THEN q[1].set[f] ELSE R[r][f]
    BY DEF FieldTaken
  <2>. QED
    BY <2>1, <2>2, LastIsShift
<1>. QED
  BY <1>1, Zenon DEF Shows

(* So does a mipmap,                                                        *)
LEMMA MipmapShift ==
    ASSUME NEW q, NEW e, NEW n, NEW d, Shifted(q, e, n, d),
           NEW R, NEW S, NEW P, NEW x, MipmapShows(q, e, R, P, x),
           FieldTaken(q[1], R, S, x, "data"),
           S[x].mipmap = IF MipmapSet(q[1], x) THEN S[x].data ELSE R[x].mipmap
    PROVE  MipmapShows(n, d, S, P, x)
<1>s. Aligned(q, e, n, d)
  BY ShiftedFacts
<1>0. S[x].data = IF Sets(q[1], x, "data") THEN q[1].set["data"] ELSE R[x].data
  BY DEF FieldTaken
<1>1. ASSUME NEW j \in 1..(d - 1), MipmapSet(n[j], x),
             \A k \in (j + 1)..(d - 1) : ~MipmapSet(n[k], x)
      PROVE  LastIs(n, j + 1, x, "data", S[x].data, P[x].mipmap)
  <2>1. j + 1 \in 1..(e - 1) /\ n[j] = q[j + 1]
    BY <1>s, Zenon DEF Aligned
  <2>2. \A k \in ((j + 1) + 1)..(e - 1) : ~MipmapSet(q[k], x)
    BY <1>s, <1>1, Zenon DEF Aligned
  <2>3. LastIs(q, (j + 1) + 1, x, "data", R[x].data, P[x].mipmap)
    BY <1>1, <2>1, <2>2, Zenon DEF MipmapShows
  <2>4. Shifted(q, (j + 1) + 1, n, j + 1)
    <3>1. j + 1 \in 1..d
      BY DEF Shifted
    <3>. QED
      BY <1>s, <3>1, Zenon DEF Aligned
  <2>. QED
    BY <1>0, <2>3, <2>4, LastIsShift
<1>2. ASSUME \A j \in 1..(d - 1) : ~MipmapSet(n[j], x)
      PROVE  S[x].mipmap = P[x].mipmap
  <2>1. \A k \in (1 + 1)..(e - 1) : ~MipmapSet(q[k], x)
    BY <1>s, <1>2, Zenon DEF Aligned
  <2>2. 1 \in 1..(e - 1) /\ 1 \in 1..d
    BY <1>s DEF Shifted, Aligned
  <2>3. CASE MipmapSet(q[1], x)
    <3>1. LastIs(q, 1 + 1, x, "data", R[x].data, P[x].mipmap)
      BY <2>1, <2>2, <2>3, Zenon DEF MipmapShows
    <3>2. Shifted(q, 1 + 1, n, 1)
      BY <1>s, <2>2, Zenon DEF Aligned
    <3>3. LastIs(n, 1, x, "data", S[x].data, P[x].mipmap)
      BY <1>0, <3>1, <3>2, LastIsShift
    <3>4. 1..(1 - 1) = {}
      OBVIOUS
    <3>5. S[x].data = P[x].mipmap
      BY <3>3, <3>4, Zenon DEF LastIs
    <3>. QED
      BY <2>3, <3>5
  <2>4. CASE ~MipmapSet(q[1], x)
    <3>1. \A k \in 1..(e - 1) : ~MipmapSet(q[k], x)
      BY <1>s, <1>2, <2>4, Zenon DEF Aligned
    <3>2. R[x].mipmap = P[x].mipmap
      BY <3>1, Zenon DEF MipmapShows
    <3>. QED
      BY <2>4, <3>2
  <2>. QED
    BY <2>3, <2>4
<1>. QED
  BY <1>1, <1>2, Zenon DEF MipmapShows

(* the link of a program,                                                   *)
LEMMA LinkShift ==
    ASSUME NEW q, NEW e, NEW n, NEW d, Shifted(q, e, n, d),
           NEW R, NEW S, NEW L, NEW P, NEW p, LinkShows(q, e, R, L, P, p),
           S[p].linked =
             IF LinkSet(q[1], p) /\ R[p].linked = {} /\ q[1].set.link \subseteq L
               THEN q[1].set.link ELSE R[p].linked
    PROVE  LinkShows(n, d, S, L, P, p)
<1>s. Aligned(q, e, n, d)
  BY ShiftedFacts
<1>. SUFFICES ASSUME P[p].linked \subseteq L PROVE LinkShows(n, d, S, L, P, p)
  BY DEF LinkShows
<1>0. 1 \in 1..(e - 1)
  BY <1>s DEF Aligned
<1>1. CASE P[p].linked = {}
  <2>1. R[p].linked = {} /\ \A j \in 1..(e - 1) : ~Links(q[j], p, L)
    BY <1>1, Zenon DEF LinkShows
  <2>2. \A j \in 1..(d - 1) : ~Links(n[j], p, L)
    BY <1>s, <2>1, Zenon DEF Aligned
  <2>3. S[p].linked = {}
    BY <1>0, <2>1 DEF Links
  <2>. QED
    BY <1>1, <2>2, <2>3, Zenon DEF LinkShows
<1>2. CASE P[p].linked # {} /\ R[p].linked = P[p].linked
  <2>1. S[p].linked = P[p].linked
    BY <1>2
  <2>. QED
    BY <1>2, <2>1, Zenon DEF LinkShows
<1>3. CASE P[p].linked # {} /\ R[p].linked # P[p].linked
  <2>1. R[p].linked = {}
    BY <1>3, Zenon DEF LinkShows
  <2>2. PICK j \in 1..(e - 1) :
                /\ LinkSet(q[j], p) /\ q[j].set.link = P[p].linked
                /\ \A k \in 1..(j - 1) : ~Links(q[k], p, L)
    BY <1>3, Zenon DEF LinkShows
  <2>3. CASE j = 1
    <3>1. S[p].linked = P[p].linked
      BY <2>1, <2>2, <2>3
    <3>. QED
      BY <1>3, <3>1, Zenon DEF LinkShows
  <2>4. CASE j # 1
    <3>1. /\ 1 \in 1..(j - 1) /\ j - 1 \in 1..(d - 1) /\ n[j - 1] = q[j]
      BY <1>s, <2>4 DEF Aligned
    <3>2. S[p].linked = {}
      BY <2>1, <2>2, <3>1 DEF Links
    <3>3. \A k \in 1..((j - 1) - 1) : k + 1 \in 1..(j - 1) /\ k \in 1..(d - 1)
      BY <3>1 DEF Shifted
    <3>4. \A k \in 1..((j - 1) - 1) : ~Links(n[k], p, L)
      BY <1>s, <2>2, <3>3, Zenon DEF Aligned
    <3>. QED
      BY <1>3, <2>2, <3>1, <3>2, <3>4, Zenon DEF LinkShows
  <2>. QED
    BY <2>3, <2>4
<1>. QED
  BY <1>1, <1>2, <1>3

(* the data of a buffer,                                                    *)
LEMMA DataAtShift ==
    ASSUME NEW q, NEW e, NEW n, NEW d, Shifted(q, e, n, d),
           NEW R, NEW S, NEW L, NEW b \in Buffer, Takes(q[1], R, S, L, b),
           NEW j \in 1..d, DataAt(q, j + 1, R, b)
    PROVE  DataAt(n, j, S, b)
<1>s. Aligned(q, e, n, d)
  BY ShiftedFacts
<1>0. Shifted(q, j + 1, n, j)
  BY <1>s, Zenon DEF Aligned
<1>a. Aligned(q, j + 1, n, j)
  BY <1>0, ShiftedFacts
<1>t. /\ S[b].data = IF Sets(q[1], b, "data") THEN q[1].set["data"]
                                            ELSE R[b].data
      /\ q[1].op = "set" /\ q[1].to = b =>
            Sets(q[1], b, "data") /\ q[1].set["data"] # None
  BY DEF Takes, FieldTaken
<1>1. CASE R[b].data # None
  <2>1. S[b].data # None
    BY <1>t, <1>1 DEF Sets
  <2>. QED
    BY <2>1 DEF DataAt
<1>2. ASSUME NEW k \in 1..((j + 1) - 1), q[k].op = "set", q[k].to = b
      PROVE  DataAt(n, j, S, b)
  <2>1. CASE k = 1
    <3>1. S[b].data # None
      BY <1>t, <1>2, <2>1
    <3>. QED
      BY <3>1 DEF DataAt
  <2>2. CASE k # 1
    <3>1. k - 1 \in 1..(j - 1) /\ n[k - 1] = q[k]
      BY <1>a, <2>2, Zenon DEF Aligned
    <3>. QED
      BY <1>2, <3>1, Zenon DEF DataAt
  <2>. QED
    BY <2>1, <2>2
<1>. QED
  BY <1>1, <1>2, Zenon DEF DataAt

(* an attribute of a vertex array,                                          *)
LEMMA AttributeShift ==
    ASSUME NEW q, NEW e, NEW n, NEW d, Shifted(q, e, n, d),
           NEW R, NEW S, NEW L, NEW P, NEW v \in VertexArray, NEW i \in Index,
           P[v].attribute[i].buffer \in Ref(Buffer), None \notin L,
           \A b \in L : Takes(q[1], R, S, L, b), v \in L,
           AttributeShows(q, e, R, L, P, v, i)
    PROVE  AttributeShows(n, d, S, L, P, v, i)
<1>s. Aligned(q, e, n, d)
  BY ShiftedFacts
<1>. DEFINE at == P[v].attribute[i]
            pointed == at.bound /\ at.buffer \in L
<1>0. pointed => at.buffer \in Buffer
  BY DEF Ref
<1>1. ASSUME NEW j \in 1..(d - 1), AttributeSet(n[j], v, i),
             \A k \in (j + 1)..(d - 1) : ~AttributeSet(n[k], v, i)
      PROVE  /\ n[j].set.attribute[i].enabled = at.enabled
             /\ pointed => /\ n[j].set.attribute[i].buffer = at.buffer
                           /\ DataAt(n, j, S, at.buffer)
  <2>1. j + 1 \in 1..(e - 1) /\ n[j] = q[j + 1]
    BY <1>s, Zenon DEF Aligned
  <2>2. \A k \in ((j + 1) + 1)..(e - 1) : ~AttributeSet(q[k], v, i)
    BY <1>s, <1>1, Zenon DEF Aligned
  <2>3. /\ n[j].set.attribute[i].enabled = at.enabled
        /\ pointed => /\ n[j].set.attribute[i].buffer = at.buffer
                      /\ DataAt(q, j + 1, R, at.buffer)
    BY <1>1, <2>1, <2>2, Zenon DEF AttributeShows
  <2>4. j \in 1..d
    BY DEF Shifted
  <2>5. pointed => DataAt(n, j, S, at.buffer)
    BY <1>0, <2>3, <2>4, DataAtShift
  <2>. QED
    BY <2>3, <2>5
<1>2. ASSUME \A j \in 1..(d - 1) : ~AttributeSet(n[j], v, i)
      PROVE  /\ S[v].attribute[i].enabled = at.enabled
             /\ pointed => S[v].attribute[i].buffer = at.buffer
  <2>1. \A k \in (1 + 1)..(e - 1) : ~AttributeSet(q[k], v, i)
    BY <1>s, <1>2, Zenon DEF Aligned
  <2>2. 1 \in 1..(e - 1) /\ 1..(1 - 1) = {}
    BY <1>s DEF Aligned
  <2>3. IF AttributeSet(q[1], v, i)
          THEN LET b == q[1].set.attribute[i].buffer
               IN  /\ S[v].attribute[i].enabled = q[1].set.attribute[i].enabled
                   /\ b \in L /\ R[b].data # None =>
                         S[v].attribute[i].buffer = b
          ELSE S[v].attribute[i] = R[v].attribute[i]
    BY Zenon DEF Takes
  <2>4. CASE AttributeSet(q[1], v, i)
    <3>1. /\ q[1].set.attribute[i].enabled = at.enabled
          /\ pointed => /\ q[1].set.attribute[i].buffer = at.buffer
                        /\ DataAt(q, 1, R, at.buffer)
      BY <2>1, <2>2, <2>4, Zenon DEF AttributeShows
    <3>2. pointed => R[at.buffer].data # None
      BY <2>2, <3>1, Zenon DEF DataAt
    <3>. QED
      BY <2>3, <2>4, <3>1, <3>2
  <2>5. CASE ~AttributeSet(q[1], v, i)
    <3>1. \A k \in 1..(e - 1) : ~AttributeSet(q[k], v, i)
      BY <1>s, <1>2, <2>5, Zenon DEF Aligned
    <3>2. /\ R[v].attribute[i].enabled = at.enabled
          /\ pointed => R[v].attribute[i].buffer = at.buffer
      BY <3>1, Zenon DEF AttributeShows
    <3>. QED
      BY <2>3, <2>5, <3>2
  <2>. QED
    BY <2>4, <2>5
<1>. QED
  BY <1>1, <1>2, Zenon DEF AttributeShows

(* the moment a program is linked,                                          *)
LEMMA LinkedAtShift ==
    ASSUME NEW q, NEW e, NEW n, NEW d, Shifted(q, e, n, d),
           NEW R, NEW S, NEW L, NEW P, NEW p \in Program,
           Takes(q[1], R, S, L, p), P[p].linked # {}, P[p].linked \subseteq L,
           NEW j \in 1..d, LinkedAt(q, j + 1, R, P, p)
    PROVE  LinkedAt(n, j, S, P, p)
<1>s. Aligned(q, e, n, d)
  BY ShiftedFacts
<1>0. Shifted(q, j + 1, n, j)
  BY <1>s, Zenon DEF Aligned
<1>a. Aligned(q, j + 1, n, j)
  BY <1>0, ShiftedFacts
<1>t. S[p].linked =
         IF LinkSet(q[1], p) /\ R[p].linked = {} /\ q[1].set.link \subseteq L
           THEN q[1].set.link ELSE R[p].linked
  BY Zenon DEF Takes
<1>1. CASE R[p].linked # {}
  BY <1>t, <1>1 DEF LinkedAt
<1>2. ASSUME NEW k \in 1..((j + 1) - 1), LinkSet(q[k], p),
             q[k].set.link = P[p].linked
      PROVE  LinkedAt(n, j, S, P, p)
  <2>1. CASE k = 1
    <3>1. S[p].linked # {}
      BY <1>t, <1>2, <2>1
    <3>. QED
      BY <3>1 DEF LinkedAt
  <2>2. CASE k # 1
    <3>1. k - 1 \in 1..(j - 1) /\ n[k - 1] = q[k]
      BY <1>a, <2>2, Zenon DEF Aligned
    <3>. QED
      BY <1>2, <3>1, Zenon DEF LinkedAt
  <2>. QED
    BY <2>1, <2>2
<1>. QED
  BY <1>1, <1>2, Zenon DEF LinkedAt

(* and a uniform.                                                           *)
LEMMA UniformShift ==
    ASSUME NEW q, NEW e, NEW n, NEW d, Shifted(q, e, n, d),
           NEW R, NEW S, NEW L, NEW P, NEW t \in Technique,
           P[t].applied \in Ref(Program), None \notin L, t \in L,
           P[t].applied # None => P[P[t].applied].linked # {},
           \A x \in L : Takes(q[1], R, S, L, x),
           UniformShows(q, e, R, L, P, t)
    PROVE  UniformShows(n, d, S, L, P, t)
<1>. DEFINE p == P[t].applied
<1>. SUFFICES ASSUME p \in L, P[p].linked \subseteq L
     PROVE /\ \A j \in 1..(d - 1) :
                /\ Sets(n[j], t, "uniform")
                /\ \A k \in (j + 1)..(d - 1) : ~Sets(n[k], t, "uniform")
                => /\ n[j].set.uniform = P[t].uniform
                   /\ LastIs(n, j, t, "program", S[t].program, p)
                   /\ LinkedAt(n, j, S, P, p)
           /\ (\A j \in 1..(d - 1) : ~Sets(n[j], t, "uniform")) =>
                S[t].uniform = P[t].uniform
  BY Zenon DEF UniformShows
<1>s. Aligned(q, e, n, d)
  BY ShiftedFacts
<1>p. p \in Program /\ P[p].linked # {} /\ Takes(q[1], R, S, L, p)
  BY DEF Ref
<1>t. /\ S[t].program = IF Sets(q[1], t, "program") THEN q[1].set["program"]
                                                  ELSE R[t].program
      /\ ~Sets(q[1], t, "uniform") => S[t].uniform = R[t].uniform
      /\ /\ Sets(q[1], t, "uniform") /\ R[t].program \in L
         /\ R[R[t].program].linked # {}
         => S[t].uniform = q[1].set.uniform
  BY DEF Takes, FieldTaken
<1>. HIDE DEF p
<1>1. ASSUME NEW j \in 1..(d - 1), Sets(n[j], t, "uniform"),
             \A k \in (j + 1)..(d - 1) : ~Sets(n[k], t, "uniform")
      PROVE  /\ n[j].set.uniform = P[t].uniform
             /\ LastIs(n, j, t, "program", S[t].program, p)
             /\ LinkedAt(n, j, S, P, p)
  <2>1. j + 1 \in 1..(e - 1) /\ n[j] = q[j + 1]
    BY <1>s, Zenon DEF Aligned
  <2>2. \A k \in ((j + 1) + 1)..(e - 1) : ~Sets(q[k], t, "uniform")
    BY <1>s, <1>1, Zenon DEF Aligned
  <2>3. /\ n[j].set.uniform = P[t].uniform
        /\ LastIs(q, j + 1, t, "program", R[t].program, p)
        /\ LinkedAt(q, j + 1, R, P, p)
    BY <1>1, <2>1, <2>2, Zenon DEF UniformShows, p
  <2>4. j \in 1..d
    BY DEF Shifted
  <2>5. Shifted(q, j + 1, n, j)
    BY <1>s, <2>4, Zenon DEF Aligned
  <2>6. LastIs(n, j, t, "program", S[t].program, p)
    BY <1>t, <2>3, <2>5, LastIsShift
  <2>7. LinkedAt(n, j, S, P, p)
    BY <1>p, <2>3, <2>4, LinkedAtShift
  <2>. QED
    BY <2>3, <2>6, <2>7
<1>2. ASSUME \A j \in 1..(d - 1) : ~Sets(n[j], t, "uniform")
      PROVE  S[t].uniform = P[t].uniform
  <2>1. \A k \in (1 + 1)..(e - 1) : ~Sets(q[k], t, "uniform")
    BY <1>s, <1>2, Zenon DEF Aligned
  <2>2. 1 \in 1..(e - 1) /\ 1..(1 - 1) = {}
    BY <1>s DEF Aligned
  <2>3. CASE Sets(q[1], t, "uniform")
    <3>1. /\ q[1].set.uniform = P[t].uniform
          /\ LastIs(q, 1, t, "program", R[t].program, p)
          /\ LinkedAt(q, 1, R, P, p)
      BY <2>1, <2>2, <2>3, Zenon DEF UniformShows, p
    <3>2. R[t].program = p
      BY <2>2, <3>1, Zenon DEF LastIs
    <3>3. R[p].linked # {}
      BY <2>2, <3>1, Zenon DEF LinkedAt
    <3>. QED
      BY <1>t, <2>3, <3>1, <3>2, <3>3
  <2>4. CASE ~Sets(q[1], t, "uniform")
    <3>1. \A k \in 1..(e - 1) : ~Sets(q[k], t, "uniform")
      BY <1>s, <1>2, <2>4, Zenon DEF Aligned
    <3>2. R[t].uniform = P[t].uniform
      BY <3>1, Zenon DEF UniformShows, p
    <3>. QED
      BY <1>t, <2>4, <3>2
  <2>. QED
    BY <2>3, <2>4
<1>. QED
  BY <1>1, <1>2, Zenon

(* All together: the entry at the head takes effect, and what remains of the*)
(* queue still leads to the picture.                                        *)
LEMMA MatchShift ==
    ASSUME NEW q, NEW e, NEW n, NEW d, Shifted(q, e, n, d),
           NEW R, NEW S, NEW L, None \notin L, NEW P, NEW known,
           PictureOK(P, known), NEW r \in L, r \in Resource,
           \A x \in L : Takes(q[1], R, S, L, x), Match(q, e, R, L, P, r)
    PROVE  Match(n, d, S, L, P, r)
<1>1. Takes(q[1], R, S, L, r) /\ PictureIs(r, P[r], known)
  BY DEF PictureOK
<1>2. ASSUME NEW fields, Shows(q, e, R, P, r, fields),
             \A f \in fields : FieldTaken(q[1], R, S, r, f)
      PROVE  Shows(n, d, S, P, r, fields)
  BY <1>2, ShowsShift
<1>3. r \in Object => Shows(n, d, S, P, r, {"committed", "units", "position"})
  BY <1>1, <1>2, Zenon DEF Match, Takes
<1>4. r \in Unit => Shows(n, d, S, P, r, {"technique"})
  BY <1>1, <1>2 DEF Match, Takes
<1>5. r \in Technique =>
         /\ Shows(n, d, S, P, r,
                  {"program", "vertexArray", "method", "elements"})
         /\ {P[r].texture, P[r].sampler} \subseteq L =>
               Shows(n, d, S, P, r, {"texture", "sampler"})
  <2>. SUFFICES ASSUME r \in Technique
       PROVE /\ Shows(n, d, S, P, r,
                      {"program", "vertexArray", "method", "elements"})
             /\ {P[r].texture, P[r].sampler} \subseteq L =>
                   Shows(n, d, S, P, r, {"texture", "sampler"})
    OBVIOUS
  <2>1. \A f \in {"program", "vertexArray", "method", "elements",
                  "texture", "sampler"} : FieldTaken(q[1], R, S, r, f)
    BY <1>1, Zenon DEF Takes
  <2>2. /\ Shows(q, e, R, P, r,
                 {"program", "vertexArray", "method", "elements"})
        /\ {P[r].texture, P[r].sampler} \subseteq L =>
              Shows(q, e, R, P, r, {"texture", "sampler"})
    BY Zenon DEF Match
  <2>. QED
    BY <1>2, <2>1, <2>2
<1>6. r \in Technique => UniformShows(n, d, S, L, P, r)
  <2>. SUFFICES ASSUME r \in Technique PROVE UniformShows(n, d, S, L, P, r)
    OBVIOUS
  <2>1. P[r].applied \in Ref(Program)
    BY <1>1 DEF PictureIs, Ref
  <2>2. P[r].applied # None => P[P[r].applied].linked # {}
    BY DEF PictureOK
  <2>3. UniformShows(q, e, R, L, P, r)
    BY Zenon DEF Match
  <2>. QED
    BY <2>1, <2>2, <2>3, UniformShift
<1>7. r \in VertexArray => \A i \in Index : AttributeShows(n, d, S, L, P, r, i)
  <2>. SUFFICES ASSUME r \in VertexArray, NEW i \in Index
                PROVE  AttributeShows(n, d, S, L, P, r, i)
    OBVIOUS
  <2>1. AttributeShows(q, e, R, L, P, r, i)
    BY Zenon DEF Match
  <2>2. P[r].attribute[i].buffer \in Ref(Buffer)
    <3>1. P[r] \in [attribute : [Index -> [enabled : BOOLEAN,
                                           buffer : Ref(Buffer \cap known),
                                           bound : BOOLEAN]]]
      BY <1>1 DEF PictureIs
    <3>2. P[r].attribute[i].buffer \in Ref(Buffer \cap known)
      BY <3>1
    <3>. QED
      BY <3>2 DEF Ref
  <2>. QED
    BY <2>1, <2>2, AttributeShift
<1>8. r \in Buffer => (P[r].reached => Shows(n, d, S, P, r, {"data"}))
  BY <1>1, <1>2 DEF Match, Takes
<1>9. r \in Program => LinkShows(n, d, S, L, P, r)
  <2>. SUFFICES ASSUME r \in Program PROVE LinkShows(n, d, S, L, P, r)
    OBVIOUS
  <2>1. LinkShows(q, e, R, L, P, r)
    BY Zenon DEF Match
  <2>2. S[r].linked =
          IF LinkSet(q[1], r) /\ R[r].linked = {} /\ q[1].set.link \subseteq L
            THEN q[1].set.link ELSE R[r].linked
    BY <1>1, Zenon DEF Takes
  <2>. QED
    BY <2>1, <2>2, LinkShift
<1>10. r \in Texture => /\ Shows(n, d, S, P, r, {"data"})
                        /\ MipmapShows(n, d, S, P, r)
  <2>. SUFFICES ASSUME r \in Texture
                PROVE  /\ Shows(n, d, S, P, r, {"data"})
                       /\ MipmapShows(n, d, S, P, r)
    OBVIOUS
  <2>1. Shows(q, e, R, P, r, {"data"}) /\ MipmapShows(q, e, R, P, r)
    BY Zenon DEF Match
  <2>2. /\ FieldTaken(q[1], R, S, r, "data")
        /\ S[r].mipmap = IF MipmapSet(q[1], r) THEN S[r].data ELSE R[r].mipmap
    BY <1>1, Zenon DEF Takes
  <2>3. MipmapShows(n, d, S, P, r)
    BY <2>1, <2>2, MipmapShift
  <2>. QED
    BY <1>2, <2>1, <2>2, <2>3
<1>11. r \in Sampler => Shows(n, d, S, P, r, {"exists", "parameter"})
  BY <1>1, <1>2, Zenon DEF Match, Takes
<1>. QED
  BY <1>3, <1>4, <1>5, <1>6, <1>7, <1>8, <1>9, <1>10, <1>11, Zenon DEF Match

-----------------------------------------------------------------------------
(* What ExecuteCommand makes of the rendering states                        *)

(* An entry that is not for r leaves r alone.                               *)
LEMMA OtherTakes ==
    ASSUME NEW c, NEW r, ~(c.op = "set" /\ c.to = r), NEW R, NEW S, NEW L,
           S[r] = R[r]
    PROVE  Takes(c, R, S, L, r)
<1>1. /\ \A f : ~Sets(c, r, f)
      /\ ~MipmapSet(c, r) /\ ~LinkSet(c, r) /\ \A k : ~AttributeSet(c, r, k)
  BY DEF Sets, MipmapSet, LinkSet, AttributeSet
<1>2. \A f : FieldTaken(c, R, S, r, f)
  BY <1>1 DEF FieldTaken
<1>3. r \in Technique => S[r].uniform = R[r].uniform
  OBVIOUS
<1>4. r \in Texture =>
         S[r].mipmap = IF MipmapSet(c, r) THEN S[r].data ELSE R[r].mipmap
  BY <1>1
<1>5. r \in Program => S[r].linked =
         IF LinkSet(c, r) /\ R[r].linked = {} /\ c.set.link \subseteq L
           THEN c.set.link ELSE R[r].linked
  BY <1>1
<1>. QED
  BY <1>1, <1>2, <1>3, <1>4, <1>5, Zenon DEF Takes

(* A command sets the fields it names and leaves the others.                *)
LEMMA UpdatedTakes ==
    ASSUME NEW c, NEW r, c.op = "set", c.to = r, r \notin Texture,
           NEW R, NEW S, S[r] = Updated(R[r], c.set),
           NEW f \in DOMAIN R[r]
    PROVE  FieldTaken(c, R, S, r, f)
BY DEF Updated, FieldTaken, Sets

(* Effect, kind by kind                                                     *)
LEMMA EffectIs ==
    ASSUME NEW r \in Resource, NEW set
    PROVE  /\ r \in VertexArray => Effect(r, set) =
                [exists |-> TRUE,
                 attribute |->
                   [i \in Index |-> PointedAt(r, i, set.attribute[i])]]
           /\ r \in Program => Effect(r, set) = [linked |-> LinkResult(r, set.link)]
           /\ r \in Texture => Effect(r, set) =
                [data |-> IF set.data = None THEN rendering[r].data ELSE set.data,
                 mipmap |-> IF set.mipmap
                              THEN IF set.data = None THEN rendering[r].data
                                                      ELSE set.data
                              ELSE rendering[r].mipmap]
           /\ r \in Technique => Effect(r, set) =
                IF /\ "uniform" \in DOMAIN set
                   /\ ~(/\ rendering[r].program \in pool
                        /\ rendering[rendering[r].program].linked # {})
                  THEN rendering[r] ELSE Updated(rendering[r], set)
           /\ r \in Object \cup Unit \cup Buffer \cup Shader \cup Sampler =>
                Effect(r, set) = Updated(rendering[r], set)
<1>1. r \in VertexArray => Effect(r, set) =
         [exists |-> TRUE,
          attribute |-> [i \in Index |-> PointedAt(r, i, set.attribute[i])]]
  BY Apart DEF Effect
<1>2. r \in Program => Effect(r, set) = [linked |-> LinkResult(r, set.link)]
  BY Apart DEF Effect
<1>3. r \in Texture => Effect(r, set) =
         [data |-> IF set.data = None THEN rendering[r].data ELSE set.data,
          mipmap |-> IF set.mipmap
                       THEN IF set.data = None THEN rendering[r].data
                                               ELSE set.data
                       ELSE rendering[r].mipmap]
  BY Apart DEF Effect
<1>4. r \in Technique => Effect(r, set) =
         IF /\ "uniform" \in DOMAIN set
            /\ ~(/\ rendering[r].program \in pool
                 /\ rendering[rendering[r].program].linked # {})
           THEN rendering[r] ELSE Updated(rendering[r], set)
  BY Apart DEF Effect
<1>5. r \in Object \cup Unit \cup Buffer \cup Shader \cup Sampler =>
         Effect(r, set) = Updated(rendering[r], set)
  BY Apart DEF Effect
<1>. QED
  BY <1>1, <1>2, <1>3, <1>4, <1>5, Zenon

(* The effect of a command has the type of a rendering state.               *)
LEMMA EffectTyped ==
    ASSUME Types, Graph, NEW r \in Resource, NEW set, SetOK(r, set, created)
    PROVE  RenderingIs(r, Effect(r, set))
<1>0. RenderingIs(r, rendering[r])
  BY DEF Types, RenderingOK
<1>1. CASE r \in Object
  <2>1. /\ rendering[r] \in [committed : BOOLEAN, units : SUBSET Unit,
                             position : Ref(Position)]
        /\ set \in [committed : {TRUE}, units : SUBSET Unit]
                     \cup [position : Position]
        /\ Effect(r, set) = Updated(rendering[r], set)
    BY <1>0, <1>1, EffectIs DEF RenderingIs, SetOK
  <2>2. Updated(rendering[r], set) \in [committed : BOOLEAN,
                              units : SUBSET Unit, position : Ref(Position)]
    BY <2>1 DEF Updated, Ref
  <2>. QED
    BY <1>1, <2>1, <2>2, Apart DEF RenderingIs
<1>2. CASE r \in Unit
  <2>1. /\ rendering[r] \in [technique : Ref(Technique)]
        /\ set \in [technique : Ref(Technique)]
        /\ Effect(r, set) = Updated(rendering[r], set)
    BY <1>0, <1>2, EffectIs DEF RenderingIs, SetOK
  <2>2. Updated(rendering[r], set) \in [technique : Ref(Technique)]
    BY <2>1 DEF Updated
  <2>. QED
    BY <1>2, <2>1, <2>2, Apart DEF RenderingIs
<1>3. CASE r \in Technique
  <2>. DEFINE K == [program : Ref(Program), vertexArray : Ref(VertexArray),
                    texture : Ref(Texture), sampler : Ref(Sampler),
                    method : Method, elements : Ref(Buffer), uniform : Data]
  <2>1. /\ rendering[r] \in K
        /\ \/ set \in [program : Ref(Program)]
           \/ set \in [vertexArray : Ref(VertexArray)]
           \/ set \in [texture : Ref(Texture), sampler : Ref(Sampler)]
           \/ set \in [method : Method, elements : Ref(Buffer)]
           \/ set \in [uniform : Content]
        /\ \/ Effect(r, set) = rendering[r]
           \/ Effect(r, set) = Updated(rendering[r], set)
    BY <1>0, <1>3, EffectIs DEF RenderingIs, SetOK
  <2>2. Updated(rendering[r], set) \in K
    <3>1. set \in [program : Ref(Program)] => Updated(rendering[r], set) \in K
      BY <2>1 DEF Updated
    <3>2. set \in [vertexArray : Ref(VertexArray)] =>
             Updated(rendering[r], set) \in K
      BY <2>1 DEF Updated
    <3>3. set \in [texture : Ref(Texture), sampler : Ref(Sampler)] =>
             Updated(rendering[r], set) \in K
      BY <2>1 DEF Updated
    <3>4. set \in [method : Method, elements : Ref(Buffer)] =>
             Updated(rendering[r], set) \in K
      BY <2>1 DEF Updated
    <3>5. set \in [uniform : Content] => Updated(rendering[r], set) \in K
      BY <2>1 DEF Updated, Data
    <3>. QED
      BY <2>1, <3>1, <3>2, <3>3, <3>4, <3>5, Zenon
  <2>3. Effect(r, set) \in K
    BY <2>1, <2>2, Zenon
  <2>. QED
    BY <1>3, <2>3, Apart DEF RenderingIs
<1>4. CASE r \in VertexArray
  <2>. DEFINE K == [enabled : BOOLEAN, buffer : Ref(Buffer)]
  <2>1. /\ rendering[r] \in [exists : BOOLEAN, attribute : [Index -> K]]
        /\ set \in [attribute : [Index -> [enabled : BOOLEAN,
                                           buffer : Ref(Buffer),
                                           damaged : BOOLEAN]]]
    BY <1>0, <1>4 DEF RenderingIs, SetOK
  <2>2. Effect(r, set) =
          [exists |-> TRUE,
           attribute |-> [i \in Index |-> PointedAt(r, i, set.attribute[i])]]
    BY <1>4, EffectIs, Zenon
  <2>3. ASSUME NEW i \in Index
        PROVE  PointedAt(r, i, set.attribute[i]) \in K
    <3>1. /\ rendering[r].attribute[i] \in K
          /\ set.attribute[i] \in [enabled : BOOLEAN, buffer : Ref(Buffer),
                                   damaged : BOOLEAN]
      BY <2>1
    <3>. DEFINE new == set.attribute[i]
                old == rendering[r].attribute[i]
    <3>2. /\ new.enabled \in BOOLEAN /\ new.buffer \in Ref(Buffer)
          /\ old \in K /\ old.buffer \in Ref(Buffer) /\ None \in Ref(Buffer)
      BY <3>1 DEF Ref
    <3>3. PointedAt(r, i, new) =
            IF ~new.damaged THEN old
            ELSE [enabled |-> new.enabled,
                  buffer |-> IF new.buffer \notin pool THEN old.buffer
                             ELSE IF rendering[new.buffer].data = None THEN None
                             ELSE new.buffer]
      BY DEF PointedAt
    <3>. HIDE DEF new, old
    <3>4. CASE ~new.damaged
      BY <3>2, <3>3, <3>4 DEF new
    <3>5. CASE new.damaged
      <4>1. PICK b \in Ref(Buffer) :
              PointedAt(r, i, new) = [enabled |-> new.enabled, buffer |-> b]
        BY <3>2, <3>3, <3>5
      <4>2. PointedAt(r, i, new) \in K
        BY <3>2, <4>1
      <4>. QED
        BY <4>2 DEF new
    <3>. QED
      BY <3>4, <3>5
  <2>. DEFINE A == [i \in Index |-> PointedAt(r, i, set.attribute[i])]
  <2>4. A \in [Index -> K]
    BY <2>3
  <2>. HIDE DEF K, A
  <2>5. [exists |-> TRUE, attribute |-> A]
           \in [exists : BOOLEAN, attribute : [Index -> K]]
    BY <2>4, ArrayTyped
  <2>. QED
    BY <1>4, <2>2, <2>5, Apart DEF RenderingIs, K, A
<1>5. CASE r \in Buffer
  <2>1. /\ rendering[r] \in [data : Data] /\ set \in [data : Content]
        /\ Effect(r, set) = Updated(rendering[r], set)
    BY <1>0, <1>5, EffectIs DEF RenderingIs, SetOK
  <2>2. Updated(rendering[r], set) \in [data : Data]
    BY <2>1 DEF Updated, Data
  <2>. QED
    BY <1>5, <2>1, <2>2, Apart DEF RenderingIs
<1>6. CASE r \in Program
  <2>1. /\ rendering[r] \in [linked : SUBSET Ref(Shader)]
        /\ set \in [link : SUBSET Ref(Shader \cap created)]
        /\ Effect(r, set) = [linked |-> LinkResult(r, set.link)]
    BY <1>0, <1>6, EffectIs DEF RenderingIs, SetOK
  <2>2. LinkResult(r, set.link) \in SUBSET Ref(Shader)
    BY <2>1 DEF LinkResult, Ref
  <2>3. Effect(r, set) \in [linked : SUBSET Ref(Shader)]
    BY <2>1, <2>2
  <2>. QED
    BY <1>6, <2>3, Apart DEF RenderingIs
<1>7. CASE r \in Shader
  <2>1. /\ rendering[r] \in [compiled : BOOLEAN] /\ set \in [compiled : BOOLEAN]
        /\ Effect(r, set) = Updated(rendering[r], set)
    BY <1>0, <1>7, EffectIs DEF RenderingIs, SetOK
  <2>2. Updated(rendering[r], set) \in [compiled : BOOLEAN]
    BY <2>1 DEF Updated
  <2>. QED
    BY <1>7, <2>1, <2>2, Apart DEF RenderingIs
<1>8. CASE r \in Texture
  <2>1. /\ rendering[r] \in [data : Data, mipmap : Data]
        /\ set \in [data : Data, mipmap : BOOLEAN]
    BY <1>0, <1>8 DEF RenderingIs, SetOK
  <2>2. Effect(r, set) =
         [data |-> IF set.data = None THEN rendering[r].data ELSE set.data,
          mipmap |-> IF set.mipmap
                       THEN IF set.data = None THEN rendering[r].data
                                               ELSE set.data
                       ELSE rendering[r].mipmap]
    BY <1>8, EffectIs, Zenon
  <2>3. Effect(r, set) \in [data : Data, mipmap : Data]
    BY <2>1, <2>2
  <2>. QED
    BY <1>8, <2>3, Apart DEF RenderingIs
<1>9. CASE r \in Sampler
  <2>1. /\ rendering[r] \in [exists : BOOLEAN, parameter : Data]
        /\ set \in [exists : {TRUE}] \cup [parameter : Content]
        /\ Effect(r, set) = Updated(rendering[r], set)
    BY <1>0, <1>9, EffectIs DEF RenderingIs, SetOK
  <2>2. Updated(rendering[r], set) \in [exists : BOOLEAN, parameter : Data]
    BY <2>1 DEF Updated, Data
  <2>. QED
    BY <1>9, <2>1, <2>2, Apart DEF RenderingIs
<1>. QED
  BY <1>1, <1>2, <1>3, <1>4, <1>5, <1>6, <1>7, <1>8, <1>9, Known, Zenon

(* What Effect makes of a resource is what the command asks for.            *)
LEMMA SetTakes ==
    ASSUME Types, Graph, NEW c, c.op = "set", NEW r \in Resource, c.to = r,
           SetOK(r, c.set, created), NEW S, S[r] = Effect(r, c.set)
    PROVE  Takes(c, rendering, S, pool, r)
<1>0. RenderingIs(r, rendering[r])
  BY DEF Types, RenderingOK
<1>1. CASE r \in Object
  <2>1. /\ rendering[r] \in [committed : BOOLEAN, units : SUBSET Unit,
                             position : Ref(Position)]
        /\ S[r] = Updated(rendering[r], c.set) /\ r \notin Texture
    BY <1>0, <1>1, EffectIs, Apart DEF RenderingIs
  <2>2. \A f \in {"committed", "units", "position"} : f \in DOMAIN rendering[r]
    BY <2>1
  <2>3. \A f \in {"committed", "units", "position"} :
           FieldTaken(c, rendering, S, r, f)
    BY <2>1, <2>2, UpdatedTakes
  <2>. QED
    BY <1>1, <2>3, Apart DEF Takes
<1>2. CASE r \in Unit
  <2>1. /\ rendering[r] \in [technique : Ref(Technique)]
        /\ S[r] = Updated(rendering[r], c.set) /\ r \notin Texture
    BY <1>0, <1>2, EffectIs, Apart DEF RenderingIs
  <2>2. "technique" \in DOMAIN rendering[r]
    BY <2>1
  <2>3. FieldTaken(c, rendering, S, r, "technique")
    BY <2>1, <2>2, UpdatedTakes
  <2>. QED
    BY <1>2, <2>3, Apart DEF Takes
<1>3. CASE r \in Technique
  <2>. DEFINE fields == {"program", "vertexArray", "method", "elements",
                         "texture", "sampler"}
  <2>1. /\ rendering[r] \in
             [program : Ref(Program), vertexArray : Ref(VertexArray),
              texture : Ref(Texture), sampler : Ref(Sampler),
              method : Method, elements : Ref(Buffer), uniform : Data]
        /\ \/ c.set \in [program : Ref(Program)]
           \/ c.set \in [vertexArray : Ref(VertexArray)]
           \/ c.set \in [texture : Ref(Texture), sampler : Ref(Sampler)]
           \/ c.set \in [method : Method, elements : Ref(Buffer)]
           \/ c.set \in [uniform : Content]
    BY <1>0, <1>3 DEF RenderingIs, SetOK
  <2>2. S[r] = IF /\ "uniform" \in DOMAIN c.set
                  /\ ~(/\ rendering[r].program \in pool
                       /\ rendering[rendering[r].program].linked # {})
                 THEN rendering[r] ELSE Updated(rendering[r], c.set)
    BY <1>3, EffectIs, Zenon
  <2>3. r \notin Texture /\ \A f \in fields : f \in DOMAIN rendering[r]
    BY <1>3, <2>1, Apart
  <2>4. "uniform" \in DOMAIN rendering[r]
    BY <2>1
  <2>5. Sets(c, r, "uniform") <=> "uniform" \in DOMAIN c.set
    BY <2>3 DEF Sets
  <2>6. "uniform" \in DOMAIN c.set => \A f \in fields : f \notin DOMAIN c.set
    BY <2>1
  <2>7. ASSUME S[r] = Updated(rendering[r], c.set)
        PROVE  /\ \A f \in fields : FieldTaken(c, rendering, S, r, f)
               /\ FieldTaken(c, rendering, S, r, "uniform")
    BY <2>3, <2>4, <2>7, UpdatedTakes
  <2>8. \A f \in fields : FieldTaken(c, rendering, S, r, f)
    <3>1. CASE S[r] = Updated(rendering[r], c.set)
      BY <2>7, <3>1
    <3>2. CASE S[r] = rendering[r] /\ "uniform" \in DOMAIN c.set
      <4>1. \A f \in fields : ~Sets(c, r, f)
        BY <2>6, <3>2 DEF Sets
      <4>. QED
        BY <3>2, <4>1 DEF FieldTaken
    <3>. QED
      BY <2>2, <3>1, <3>2
  <2>9. ~Sets(c, r, "uniform") => S[r].uniform = rendering[r].uniform
    <3>1. ~Sets(c, r, "uniform") => S[r] = Updated(rendering[r], c.set)
      BY <2>2, <2>5, Zenon
    <3>. QED
      BY <2>7, <3>1 DEF FieldTaken
  <2>10. /\ Sets(c, r, "uniform") /\ rendering[r].program \in pool
         /\ rendering[rendering[r].program].linked # {}
         => S[r].uniform = c.set.uniform
    <3>1. /\ Sets(c, r, "uniform") /\ rendering[r].program \in pool
          /\ rendering[rendering[r].program].linked # {}
          => S[r] = Updated(rendering[r], c.set)
      BY <2>2, Zenon
    <3>. QED
      BY <2>7, <3>1 DEF FieldTaken
  <2>. QED
    BY <1>3, <2>8, <2>9, <2>10, Apart DEF Takes
<1>4. CASE r \in VertexArray
  <2>1. S[r] = [exists |-> TRUE,
                attribute |-> [i \in Index |->
                                  PointedAt(r, i, c.set.attribute[i])]]
    BY <1>4, EffectIs, Zenon
  <2>2. ASSUME NEW i \in Index
        PROVE  IF AttributeSet(c, r, i)
                 THEN LET b == c.set.attribute[i].buffer
                      IN  /\ S[r].attribute[i].enabled =
                               c.set.attribute[i].enabled
                          /\ b \in pool /\ rendering[b].data # None =>
                                S[r].attribute[i].buffer = b
                 ELSE S[r].attribute[i] = rendering[r].attribute[i]
    <3>. DEFINE new == c.set.attribute[i]
                old == rendering[r].attribute[i]
    <3>1. S[r].attribute[i] = PointedAt(r, i, new)
      BY <2>1
    <3>2. PointedAt(r, i, new) =
            IF ~new.damaged THEN old
            ELSE [enabled |-> new.enabled,
                  buffer |-> IF new.buffer \notin pool THEN old.buffer
                             ELSE IF rendering[new.buffer].data = None THEN None
                             ELSE new.buffer]
      BY DEF PointedAt
    <3>3. AttributeSet(c, r, i) <=> new.damaged
      <4>1. c.op = "set" /\ c.to = r
        OBVIOUS
      <4>. QED
        BY <4>1, Zenon DEF AttributeSet
    <3>. DEFINE a == S[r].attribute[i]
    <3>4. a = PointedAt(r, i, new)
      BY <3>1
    <3>. HIDE DEF new, old, a
    <3>5. ~new.damaged => a = old
      BY <3>2, <3>4
    <3>6. new.damaged => /\ a.enabled = new.enabled
                         /\ new.buffer \in pool
                            /\ rendering[new.buffer].data # None
                            => a.buffer = new.buffer
      BY <3>2, <3>4
    <3>. QED
      BY <3>3, <3>5, <3>6, Zenon DEF a, new, old
  <2>. QED
    BY <1>4, <2>2, Apart DEF Takes
<1>5. CASE r \in Buffer
  <2>1. /\ rendering[r] \in [data : Data] /\ c.set \in [data : Content]
        /\ S[r] = Updated(rendering[r], c.set) /\ r \notin Texture
    BY <1>0, <1>5, EffectIs, Apart DEF RenderingIs, SetOK
  <2>2. "data" \in DOMAIN rendering[r]
    BY <2>1
  <2>3. FieldTaken(c, rendering, S, r, "data")
    BY <2>1, <2>2, UpdatedTakes
  <2>4. Sets(c, r, "data") /\ c.set.data # None
    BY <2>1, Known DEF Sets
  <2>. QED
    BY <1>5, <2>3, <2>4, Apart DEF Takes
<1>6. CASE r \in Program
  <2>1. S[r] = [linked |-> LinkResult(r, c.set.link)]
    BY <1>6, EffectIs, Zenon
  <2>2. S[r].linked =
         IF LinkSet(c, r) /\ rendering[r].linked = {} /\ c.set.link \subseteq pool
           THEN c.set.link ELSE rendering[r].linked
    BY <2>1 DEF LinkResult, LinkSet
  <2>. QED
    BY <1>6, <2>2, Apart DEF Takes
<1>7. CASE r \in Shader
  BY <1>7, Apart DEF Takes
<1>8. CASE r \in Texture
  <2>1. S[r] =
         [data |-> IF c.set.data = None THEN rendering[r].data ELSE c.set.data,
          mipmap |-> IF c.set.mipmap
                       THEN IF c.set.data = None THEN rendering[r].data
                                                 ELSE c.set.data
                       ELSE rendering[r].mipmap]
    BY <1>8, EffectIs, Zenon
  <2>2. c.set \in [data : Data, mipmap : BOOLEAN]
    BY <1>8 DEF SetOK
  <2>3. /\ Sets(c, r, "data") <=> c.set.data # None
        /\ MipmapSet(c, r) <=> c.set.mipmap
    BY <1>8, <2>2 DEF Sets, MipmapSet
  <2>4. FieldTaken(c, rendering, S, r, "data")
    BY <2>1, <2>3 DEF FieldTaken
  <2>5. S[r].mipmap = IF MipmapSet(c, r) THEN S[r].data
                                         ELSE rendering[r].mipmap
    BY <2>1, <2>3
  <2>. QED
    BY <1>8, <2>4, <2>5, Apart DEF Takes
<1>9. CASE r \in Sampler
  <2>1. /\ rendering[r] \in [exists : BOOLEAN, parameter : Data]
        /\ S[r] = Updated(rendering[r], c.set) /\ r \notin Texture
    BY <1>0, <1>9, EffectIs, Apart DEF RenderingIs
  <2>2. \A f \in {"exists", "parameter"} : f \in DOMAIN rendering[r]
    BY <2>1
  <2>3. \A f \in {"exists", "parameter"} : FieldTaken(c, rendering, S, r, f)
    BY <2>1, <2>2, UpdatedTakes
  <2>. QED
    BY <1>9, <2>3, Apart DEF Takes
<1>. QED
  BY <1>1, <1>2, <1>3, <1>4, <1>5, <1>6, <1>7, <1>8, <1>9, Known, Zenon

-----------------------------------------------------------------------------
(* The inductive invariant                                                  *)

(* Nothing was asked of a resource before it is created.                    *)
Absent == \A r \in Resource \ created : /\ pending[r] = InitialPending(r)
                                        /\ rendering[r] = InitialRendering(r)

(* The commits in the queue, which commit_count_ counts                     *)
Ends(q) == {i \in 1..Len(q) : q[i].op = "commit"}

Counted == /\ inGroup \in BOOLEAN
           /\ commits = Cardinality(Ends(queue))
           /\ inGroup => commits > 0

(* The last entry for a resource that is gone is its deletion.              *)
For(q, r) == {i \in 1..Len(q) : q[i].op # "commit" /\ q[i].to = r}

FreedIn(q, R, r) == IF For(q, r) = {}
                      THEN R[r] = InitialRendering(r)
                      ELSE \E i \in For(q, r) : /\ \A j \in For(q, r) : j <= i
                                              /\ q[i].op = "delete"

Freed == \A r \in created \ pool : FreedIn(queue, rendering, r)

(* The entries before the e-th make all of L what the picture P says.       *)
Shown(q, e, R, L, P) == \A r \in L : Match(q, e, R, L, P, r)

(* Between two groups, at the end of each group and at the end of the queue *)
(* the rendering state is, or will be, the picture of the last commit.      *)
Aims == /\ ~inGroup => Shown(queue, 1, rendering, pool, shown)
        /\ \A e \in Ends(queue) :
              Shown(queue, e, rendering, pool, queue[e].picture)
        /\ Shown(queue, Len(queue) + 1, rendering, pool, newest)

Inv == Graph /\ Types /\ Coherence /\ Aims /\ Absent /\ Counted /\ Freed

(* What the proofs use of Inv most often.                                   *)
LEMMA InvFacts ==
    ASSUME Inv
    PROVE  /\ Len(queue) \in Nat /\ None \notin pool /\ pool \subseteq Resource
           /\ Latest
           /\ \A e \in Ends(queue) : PictureOK(queue[e].picture, created)
<1>1. Len(queue) \in Nat /\ None \notin pool /\ pool \subseteq Resource
  BY Known, SequenceFacts DEF Inv, Types, Graph
<1>2. Latest
  BY Zenon DEF Inv, Aims, Latest, Shown
<1>3. ASSUME NEW e \in Ends(queue) PROVE PictureOK(queue[e].picture, created)
  <2>1. EntryOK(queue[e], created, pool) /\ queue[e].op = "commit"
    BY DEF Ends, Inv, Types
  <2>. QED
    BY <2>1 DEF EntryOK
<1>. QED
  BY <1>1, <1>2, <1>3

-----------------------------------------------------------------------------
(* Creation of a resource                                                   *)

(* A resource that is created was asked nothing of.                         *)
LEMMA CreatedShown ==
    ASSUME Inv, NEW r \in Resource \ created, NEW e \in 1..(Len(queue) + 1),
           NEW P, PictureOK(P, created), Shown(queue, e, rendering, pool, P)
    PROVE  Shown(queue, e, rendering, pool \cup {r}, P)
<1>. DEFINE M == pool \cup {r}
<1>1. /\ e \in Nat /\ created \subseteq Resource /\ pool \subseteq created
      /\ M \cap created \subseteq pool /\ None \notin M
      /\ \A i \in 1..(e - 1) : /\ i \in 1..Len(queue)
                               /\ EntryOK(queue[i], created, pool)
  BY InvFacts, Known DEF Inv, Graph, Types
<1>2. ASSUME NEW x \in pool PROVE Match(queue, e, rendering, M, P, x)
  <2>1. Match(queue, e, rendering, pool, P, x)
    BY DEF Shown
  <2>. HIDE DEF M
  <2>. QED
    BY <1>1, <2>1, MatchMore
<1>3. Match(queue, e, rendering, M, P, r)
  <2>1. \A i \in 1..(e - 1) : ~(queue[i].op = "set" /\ queue[i].to = r)
    BY <1>1 DEF EntryOK
  <2>2. rendering[r] = InitialRendering(r) /\ P[r] = NoPicture(r)
    BY DEF Inv, Absent, PictureOK
  <2>. HIDE DEF M
  <2>. QED
    BY <1>1, <2>1, <2>2, MatchNew
<1>. QED
  BY <1>2, <1>3 DEF Shown

(* The constructors of the client's resources keep Inv, when the pending    *)
(* states they change keep their types.                                     *)
LEMMA CreateKeeps ==
    ASSUME Inv, NEW r \in Resource, Create(r), PendingOK(pending', created'),
           Coherent(pending', newest, content),
           \A x \in Resource \ created' : pending'[x] = pending[x]
    PROVE  Inv'
<1>1. /\ r \in Resource \ created
      /\ created' = created \cup {r} /\ pool' = pool \cup {r}
      /\ scheduled' = scheduled /\ rendering' = rendering
      /\ inGroup' = inGroup /\ queue' = queue /\ commits' = commits
      /\ content' = content /\ shown' = shown /\ newest' = newest
  BY DEF Create, renderVars, queueVars, pictureVars, Inv, Graph
<1>2. Graph'
  BY <1>1 DEF Inv, Graph
<1>3. Types'
  <2>1. created \subseteq created' /\ created \ pool \subseteq created' \ pool'
    BY <1>1
  <2>2. /\ PictureOK(shown, created) /\ PictureOK(newest, created)
        /\ \A i \in 1..Len(queue) : EntryOK(queue[i], created, pool)
        /\ RenderingOK(rendering) /\ content \in [Resource -> Data]
        /\ IsSequence(queue)
    BY DEF Inv, Types
  <2>3. PictureOK(shown, created') /\ PictureOK(newest, created')
    BY <2>1, <2>2, PictureMore, Zenon
  <2>4. \A i \in 1..Len(queue) : EntryOK(queue[i], created', pool')
    BY <2>1, <2>2, EntryMore, Zenon
  <2>. QED
    BY <1>1, <2>2, <2>3, <2>4 DEF Types
<1>4. Coherence'
  BY <1>1 DEF Coherence
<1>5. Aims'
  <2>1. ASSUME NEW e \in 1..(Len(queue) + 1), NEW P, PictureOK(P, created),
               Shown(queue, e, rendering, pool, P)
        PROVE  Shown(queue', e, rendering', pool', P)
    BY <1>1, <2>1, CreatedShown
  <2>2. 1 \in 1..(Len(queue) + 1) /\ Len(queue) + 1 \in 1..(Len(queue) + 1)
        /\ Ends(queue) \subseteq 1..(Len(queue) + 1)
    BY InvFacts DEF Ends
  <2>3. PictureOK(shown, created) /\ PictureOK(newest, created)
    BY DEF Inv, Types
  <2>4. ~inGroup' => Shown(queue', 1, rendering', pool', shown')
    BY <1>1, <2>1, <2>2, <2>3 DEF Inv, Aims
  <2>5. \A e \in Ends(queue') :
           Shown(queue', e, rendering', pool', queue'[e].picture)
    BY <1>1, <2>1, <2>2, InvFacts DEF Inv, Aims
  <2>6. Shown(queue', Len(queue') + 1, rendering', pool', newest')
    BY <1>1, <2>1, <2>2, <2>3 DEF Inv, Aims
  <2>. QED
    BY <2>4, <2>5, <2>6 DEF Aims
<1>6. Absent'
  BY <1>1 DEF Inv, Absent
<1>7. Counted'
  BY <1>1 DEF Inv, Counted
<1>8. Freed'
  BY <1>1 DEF Inv, Freed
<1>. QED
  BY <1>2, <1>3, <1>4, <1>5, <1>6, <1>7, <1>8 DEF Inv

(* Coherent does not speak of objects and units.                            *)
LEMMA CoherentKept ==
    ASSUME NEW p, NEW n, NEW r, r \in Object \cup Unit,
           \A x \in Resource : x # r => n[x] = p[x],
           NEW P, NEW C, Coherent(p, P, C)
    PROVE  Coherent(n, P, C)
<1>1. /\ \A x \in Technique : n[x] = p[x]
      /\ \A x \in VertexArray : n[x] = p[x]
      /\ \A x \in Buffer : n[x] = p[x]
      /\ \A x \in Texture : n[x] = p[x]
      /\ \A x \in Sampler : n[x] = p[x]
  BY Apart, Known
<1>. QED
  BY <1>1 DEF Coherent

(* A creation that refers to no other resource keeps Inv.                   *)
LEMMA PlainCreation ==
    ASSUME Inv, NEW r \in Resource, Create(r), UNCHANGED pending
    PROVE  Inv'
<1>1. created \subseteq created'
  BY DEF Create
<1>2. PendingOK(pending', created')
  BY <1>1, PendingIsMore, Zenon DEF Inv, Types, PendingOK
<1>3. Coherent(pending', newest, content)
  BY DEF Inv, Coherence
<1>. QED
  BY <1>2, <1>3, CreateKeeps

(* VirtualObject::AddRenderingUnit, with the new unit, keeps Inv.            *)
LEMMA NewUnitKeeps ==
    ASSUME Inv, NEW u \in Unit, NEW o \in Object, NewUnit(u, o)
    PROVE  Inv'
<1>1. /\ Create(u) /\ o \in pool /\ u \in Resource /\ o \in Resource
      /\ created' = created \cup {u} /\ o \notin Unit
      /\ pending' = [pending EXCEPT ![o].units = @ \cup {u}]
      /\ PendingOK(pending, created) /\ Graph
  BY Known, Apart DEF NewUnit, Create, Inv, Types
<1>2. PendingIs(o, pending[o], created)
  BY <1>1 DEF PendingOK
<1>3. /\ pending' = [x \in Resource |-> pending'[x]]
      /\ \A x \in Resource : x # o => pending'[x] = pending[x]
      /\ pending'[o] = [pending[o] EXCEPT !.units = @ \cup {u}]
  BY <1>1 DEF PendingOK
<1>4. PendingIs(o, pending'[o], created')
  <2>1. pending[o] \in [units : SUBSET (Unit \cap created)]
    BY <1>2 DEF PendingIs
  <2>2. pending'[o] \in [units : SUBSET (Unit \cap created')]
    BY <1>1, <1>3, <2>1
  <2>. QED
    BY <2>2, Apart DEF PendingIs
<1>5. ASSUME NEW x \in Resource, x # o PROVE PendingIs(x, pending'[x], created')
  <2>1. PendingIs(x, pending[x], created) /\ created \subseteq created'
    BY <1>1 DEF PendingOK
  <2>. QED
    BY <1>3, <1>5, <2>1, PendingIsMore
<1>6. PendingOK(pending', created')
  BY <1>3, <1>4, <1>5, Zenon DEF PendingOK
<1>7. Coherent(pending', newest, content)
  BY <1>3, CoherentKept DEF Inv, Coherence
<1>8. o \in created'
  BY <1>1 DEF Graph
<1>. QED
  BY <1>1, <1>3, <1>6, <1>7, <1>8, CreateKeeps

(* RenderingUnit::SetGlBaseTechnique, with the new technique, keeps Inv.     *)
LEMMA NewTechniqueKeeps ==
    ASSUME Inv, NEW t \in Technique, NEW u \in Unit, NewTechnique(t, u)
    PROVE  Inv'
<1>1. /\ Create(t) /\ u \in pool /\ u \in Resource /\ t \in Resource
      /\ created' = created \cup {t} /\ u \notin Technique
      /\ pending' = [pending EXCEPT ![u].technique = t]
      /\ PendingOK(pending, created) /\ Graph
  BY Known, Apart DEF NewTechnique, Create, Inv, Types
<1>2. PendingIs(u, pending[u], created)
  BY <1>1 DEF PendingOK
<1>3. /\ pending' = [x \in Resource |-> pending'[x]]
      /\ \A x \in Resource : x # u => pending'[x] = pending[x]
      /\ pending'[u] = [pending[u] EXCEPT !.technique = t]
  BY <1>1 DEF PendingOK
<1>4. PendingIs(u, pending'[u], created')
  <2>1. pending[u] \in [technique : Ref(Technique \cap created)]
    BY <1>2 DEF PendingIs
  <2>2. t \in Ref(Technique \cap created')
    BY <1>1 DEF Ref
  <2>3. pending'[u] \in [technique : Ref(Technique \cap created')]
    BY <1>3, <2>1, <2>2
  <2>. QED
    BY <2>3, Apart DEF PendingIs
<1>5. ASSUME NEW x \in Resource, x # u PROVE PendingIs(x, pending'[x], created')
  <2>1. PendingIs(x, pending[x], created) /\ created \subseteq created'
    BY <1>1 DEF PendingOK
  <2>. QED
    BY <1>3, <1>5, <2>1, PendingIsMore
<1>6. PendingOK(pending', created')
  BY <1>3, <1>4, <1>5, Zenon DEF PendingOK
<1>7. Coherent(pending', newest, content)
  BY <1>3, CoherentKept DEF Inv, Coherence
<1>8. u \in created'
  BY <1>1 DEF Graph
<1>. QED
  BY <1>1, <1>3, <1>6, <1>7, <1>8, CreateKeeps

(* Every creation keeps Inv.                                                *)
LEMMA CreationsKeep ==
    ASSUME Inv, Creations
    PROVE  Inv'
<1>1. ASSUME NEW o \in Object, NewObject(o) PROVE Inv'
  BY <1>1, Known, PlainCreation DEF NewObject
<1>2. ASSUME NEW v \in VertexArray, NewVertexArray(v) PROVE Inv'
  BY <1>2, Known, PlainCreation DEF NewVertexArray
<1>3. ASSUME NEW b \in Buffer, NewBuffer(b) PROVE Inv'
  BY <1>3, Known, PlainCreation DEF NewBuffer
<1>4. ASSUME NEW p \in Program, NewProgram(p) PROVE Inv'
  BY <1>4, Known, PlainCreation DEF NewProgram
<1>5. ASSUME NEW h \in Shader, NewShader(h) PROVE Inv'
  BY <1>5, Known, PlainCreation DEF NewShader
<1>6. ASSUME NEW x \in Texture, NewTexture(x) PROVE Inv'
  BY <1>6, Known, PlainCreation DEF NewTexture
<1>7. ASSUME NEW m \in Sampler, NewSampler(m) PROVE Inv'
  BY <1>7, Known, PlainCreation DEF NewSampler
<1>8. ASSUME NEW u \in Unit, NEW o \in Object, NewUnit(u, o) PROVE Inv'
  BY <1>8, NewUnitKeeps
<1>9. ASSUME NEW t \in Technique, NEW u \in Unit, NewTechnique(t, u) PROVE Inv'
  BY <1>9, NewTechniqueKeeps
<1>. QED
  BY <1>1, <1>2, <1>3, <1>4, <1>5, <1>6, <1>7, <1>8, <1>9, Zenon DEF Creations

-----------------------------------------------------------------------------
(* Removal of resources, which appends their deletions                      *)

Deleted(c) == c.op = "delete" /\ c.to \in pool \ pool'

(* rendering' shows what rendering shows, of what stays alive               *)
Keeps == \A e \in 1..(Len(queue) + 1) : \A P : \A r \in pool' :
            /\ PictureOK(P, created)
            /\ Match(queue, e, rendering, pool', P, r)
            => Match(queue, e, rendering', pool', P, r)

(* A removal of resources that appends their deletions keeps Inv.           *)
LEMMA RemovedKeeps ==
    ASSUME Inv, pool' \subseteq pool, created' = created,
           scheduled' \subseteq pool' \cap Object, pending' = pending,
           content' = content, shown' = shown, newest' = newest,
           commits' = commits, inGroup' = inGroup,
           RenderingOK(rendering'), Keeps,
           \A r \in Resource \ pool : rendering'[r] = rendering[r],
           IsSequence(queue'), Len(queue) <= Len(queue'),
           \A i \in 1..Len(queue) : queue'[i] = queue[i],
           \A i \in (Len(queue) + 1)..Len(queue') : Deleted(queue'[i]),
           \A r \in pool \ pool' : \E i \in (Len(queue) + 1)..Len(queue') :
              queue'[i].to = r
    PROVE  Inv'
<1>0. /\ Len(queue) \in Nat /\ Len(queue') \in Nat
      /\ pool \subseteq created /\ created \subseteq Resource
  BY InvFacts, SequenceFacts DEF Inv, Graph
<1>1. \A i \in 1..Len(queue') :
         \/ i \in 1..Len(queue) /\ queue'[i] = queue[i]
         \/ i \in (Len(queue) + 1)..Len(queue') /\ Deleted(queue'[i])
  BY <1>0
<1>2. Graph'
  BY <1>0 DEF Graph
<1>3. Types'
  <2>1. ASSUME NEW i \in 1..Len(queue')
        PROVE  EntryOK(queue'[i], created, pool')
    <3>1. CASE i \in 1..Len(queue) /\ queue'[i] = queue[i]
      <4>1. EntryOK(queue[i], created, pool)
        BY <3>1 DEF Inv, Types
      <4>2. created \ pool \subseteq created \ pool'
        OBVIOUS
      <4>. QED
        BY <3>1, <4>1, <4>2, EntryMore
    <3>2. CASE Deleted(queue'[i])
      BY <1>0, <3>2 DEF Deleted, EntryOK
    <3>. QED
      BY <1>1, <3>1, <3>2
  <2>. QED
    BY <2>1 DEF Inv, Types
<1>4. Coherence'
  BY DEF Inv, Coherence
<1>5. Ends(queue') = Ends(queue)
  BY <1>0, <1>1 DEF Ends, Deleted
<1>6. ASSUME NEW e \in 1..(Len(queue) + 1), NEW d \in 1..(Len(queue') + 1),
             NEW P, PictureOK(P, created), Shown(queue, e, rendering, pool, P),
             d = e \/ (e = Len(queue) + 1 /\ d = Len(queue') + 1)
      PROVE  Shown(queue', d, rendering', pool', P)
  <2>1. Extends(queue, e, queue', d)
    BY <1>0, <1>6 DEF Extends
  <2>2. ASSUME NEW r \in pool'
        PROVE  Match(queue', d, rendering', pool', P, r)
    <3>1. Match(queue, e, rendering, pool, P, r)
      BY <1>6 DEF Shown
    <3>2. Match(queue, e, rendering, pool', P, r)
      BY <3>1, MatchFewer
    <3>3. Match(queue, e, rendering', pool', P, r)
      BY <1>6, <3>2, Zenon DEF Keeps
    <3>4. \A i \in e..(d - 1) : ~(queue'[i].op = "set" /\ queue'[i].to = r)
      <4>1. \A i \in e..(d - 1) : i \in (Len(queue) + 1)..Len(queue')
        BY <1>0, <1>6
      <4>. QED
        BY <4>1 DEF Deleted
    <3>5. Same(P, P, pool', r)
      BY DEF Same
    <3>. QED
      BY <2>1, <3>3, <3>4, <3>5, MatchKept
  <2>. QED
    BY <2>2 DEF Shown
<1>7. Aims'
  <2>1. /\ 1 \in 1..(Len(queue) + 1) /\ 1 \in 1..(Len(queue') + 1)
        /\ Len(queue) + 1 \in 1..(Len(queue) + 1)
        /\ Len(queue') + 1 \in 1..(Len(queue') + 1)
        /\ \A e \in Ends(queue) : /\ e \in 1..(Len(queue) + 1)
                                  /\ e \in 1..(Len(queue') + 1)
                                  /\ queue'[e] = queue[e]
    BY <1>0 DEF Ends
  <2>2. PictureOK(shown, created) /\ PictureOK(newest, created)
    BY DEF Inv, Types
  <2>3. ~inGroup' => Shown(queue', 1, rendering', pool', shown')
    BY <1>6, <2>1, <2>2 DEF Inv, Aims
  <2>4. ASSUME NEW e \in Ends(queue)
        PROVE  Shown(queue', e, rendering', pool', queue'[e].picture)
    <3>1. PictureOK(queue[e].picture, created)
      BY InvFacts
    <3>2. Shown(queue, e, rendering, pool, queue[e].picture)
      BY Zenon DEF Inv, Aims
    <3>. QED
      BY <1>6, <2>1, <3>1, <3>2
  <2>5. Shown(queue', Len(queue') + 1, rendering', pool', newest')
    <3>1. Shown(queue, Len(queue) + 1, rendering, pool, newest)
      BY Zenon DEF Inv, Aims
    <3>. QED
      BY <1>6, <2>1, <2>2, <3>1
  <2>. QED
    BY <1>5, <2>3, <2>4, <2>5 DEF Aims
<1>8. Absent'
  BY <1>0 DEF Inv, Absent
<1>9. Counted'
  BY <1>5 DEF Inv, Counted
<1>10. ASSUME NEW r \in created \ pool' PROVE FreedIn(queue', rendering', r)
  <2>1. CASE r \notin pool
    <3>1. For(queue', r) = For(queue, r)
      BY <1>0, <1>1, <2>1 DEF For, Deleted
    <3>2. \A i \in For(queue, r) : queue'[i] = queue[i]
      BY DEF For
    <3>3. rendering'[r] = rendering[r]
      BY <1>0, <2>1
    <3>4. FreedIn(queue, rendering, r)
      BY <2>1 DEF Inv, Freed
    <3>. QED
      BY <3>1, <3>2, <3>3, <3>4, Zenon DEF FreedIn
  <2>2. CASE r \in pool
    <3>. DEFINE new == {i \in (Len(queue) + 1)..Len(queue') : queue'[i].to = r}
                gap == {Len(queue') - i : i \in new}
    <3>1. new # {} /\ \A i \in new : Len(queue') - i \in Nat
      BY <1>0, <2>2
    <3>2. gap # {} /\ gap \subseteq Nat
      BY <3>1
    <3>3. PICK g \in gap : \A h \in gap : g <= h
      <4>. HIDE DEF gap
      <4>. QED
        BY <3>2, LeastMember
    <3>4. PICK i \in new : g = Len(queue') - i
      OBVIOUS
    <3>5. ASSUME NEW j \in new PROVE j <= i
      <4>1. Len(queue') - j \in gap
        OBVIOUS
      <4>2. g <= Len(queue') - j
        BY <3>3, <4>1
      <4>3. j \in Int /\ i \in Int
        OBVIOUS
      <4>. HIDE DEF new, gap
      <4>. QED
        BY <1>0, <3>4, <4>2, <4>3
    <3>6. ASSUME NEW j \in For(queue', r) PROVE j <= i
      <4>1. CASE j \in 1..Len(queue)
        BY <1>0, <4>1
      <4>2. CASE j \in (Len(queue) + 1)..Len(queue')
        <5>1. j \in new
          BY <4>2 DEF For
        <5>. QED
          BY <3>5, <5>1
      <4>. QED
        BY <1>1, <4>1, <4>2 DEF For
    <3>7. i \in For(queue', r) /\ queue'[i].op = "delete"
      BY <1>0 DEF For, Deleted
    <3>. QED
      BY <3>6, <3>7, Zenon DEF FreedIn
  <2>. QED
    BY <2>1, <2>2
<1>11. Freed'
  BY <1>10 DEF Freed
<1>. QED
  BY <1>2, <1>3, <1>4, <1>7, <1>8, <1>9, <1>11 DEF Inv

(* Deletions of a set has one deletion of each member.                      *)
LEMMA DeletionsAre ==
    ASSUME NEW S, S \subseteq Resource
    PROVE  /\ IsSequence(Deletions(S))
           /\ Len(Deletions(S)) = Cardinality(S) /\ Cardinality(S) \in Nat
           /\ \A i \in 1..Len(Deletions(S)) :
                 Deletions(S)[i].op = "delete" /\ Deletions(S)[i].to \in S
           /\ \A r \in S : \E i \in 1..Len(Deletions(S)) :
                 Deletions(S)[i].to = r
<1>. DEFINE n == Cardinality(S)
            D == Deletions(S)
<1>1. IsFiniteSet(S)
  BY Known, FS_Subset
<1>2. /\ n \in Nat /\ \A i \in 1..n : SetToSeq(S)[i] \in S
      /\ \A x \in S : \E i \in 1..n : SetToSeq(S)[i] = x
  BY <1>1, ListOf
<1>3. D = [i \in 1..n |-> [op |-> "delete", to |-> SetToSeq(S)[i]]]
  BY DEF Deletions
<1>. HIDE DEF n, D
<1>4. \A i \in 1..n : D[i].op = "delete" /\ D[i].to = SetToSeq(S)[i]
  BY <1>3
<1>5. D \in Seq({[op |-> "delete", to |-> x] : x \in S}) /\ Len(D) = n
  <2>1. D \in [1..n -> {[op |-> "delete", to |-> x] : x \in S}]
    BY <1>2, <1>3
  <2>. QED
    BY <1>2, <2>1, SeqDef, LenProperties
<1>. QED
  BY <1>2, <1>4, <1>5 DEF IsSequence, D, n

(* The queue, with the deletions of all that goes                           *)
LEMMA DeletionsAppended ==
    ASSUME Inv, NEW S, S = pool \ pool', queue' = queue \o Deletions(S)
    PROVE  /\ IsSequence(queue') /\ Len(queue) <= Len(queue')
           /\ \A i \in 1..Len(queue) : queue'[i] = queue[i]
           /\ \A i \in (Len(queue) + 1)..Len(queue') : Deleted(queue'[i])
           /\ \A r \in pool \ pool' :
                 \E i \in (Len(queue) + 1)..Len(queue') : queue'[i].to = r
<1>. DEFINE D == Deletions(S)
<1>1. S \subseteq Resource /\ IsSequence(queue) /\ Len(queue) \in Nat
  BY InvFacts DEF Inv, Types
<1>2. /\ IsSequence(D) /\ Len(D) \in Nat
      /\ \A i \in 1..Len(D) : D[i].op = "delete" /\ D[i].to \in S
      /\ \A r \in S : \E i \in 1..Len(D) : D[i].to = r
  BY <1>1, DeletionsAre, ZenonT(60)
<1>. HIDE DEF D
<1>3. /\ IsSequence(queue') /\ Len(queue') = Len(queue) + Len(D)
      /\ \A i \in 1..Len(queue) : queue'[i] = queue[i]
      /\ \A i \in 1..Len(D) : queue'[Len(queue) + i] = D[i]
  BY <1>1, <1>2, ConcatFacts DEF D
<1>n. /\ Len(queue) \in Nat /\ Len(D) \in Nat
      /\ Len(queue') = Len(queue) + Len(D)
  BY <1>1, <1>2, <1>3
<1>4. ASSUME NEW i \in (Len(queue) + 1)..Len(queue') PROVE Deleted(queue'[i])
  <2>1. i - Len(queue) \in 1..Len(D) /\ Len(queue) + (i - Len(queue)) = i
    BY <1>n
  <2>2. queue'[i] = D[i - Len(queue)]
    BY <1>3, <2>1
  <2>. QED
    BY <1>2, <2>1, <2>2 DEF Deleted
<1>5. ASSUME NEW r \in pool \ pool'
      PROVE  \E i \in (Len(queue) + 1)..Len(queue') : queue'[i].to = r
  <2>1. PICK i \in 1..Len(D) : D[i].to = r
    BY <1>2
  <2>2. Len(queue) + i \in (Len(queue) + 1)..Len(queue')
    BY <1>n
  <2>. QED
    BY <1>3, <2>1, <2>2
<1>6. Len(queue) <= Len(queue')
  BY <1>n
<1>. QED
  BY <1>3, <1>4, <1>5, <1>6

(* A Delete call from the peer keeps Inv.                                   *)
LEMMA DeleteKeeps ==
    ASSUME Inv, NEW r \in Resource, Delete(r)
    PROVE  Inv'
<1>. DEFINE c == [op |-> "delete", to |-> r]
<1>1. /\ r \in pool \ Object /\ pool' = pool \ {r}
      /\ queue' = Append(queue, c)
      /\ created' = created /\ scheduled' = scheduled /\ pending' = pending
      /\ commits' = commits /\ rendering' = rendering /\ inGroup' = inGroup
      /\ content' = content /\ shown' = shown /\ newest' = newest
  BY DEF Delete, renderVars, pictureVars
<1>2. c.op = "delete" /\ c.to = r
  OBVIOUS
<1>. HIDE DEF c
<1>3. /\ IsSequence(queue') /\ Len(queue') = Len(queue) + 1
      /\ \A i \in 1..Len(queue) : queue'[i] = queue[i]
      /\ queue'[Len(queue) + 1] = c /\ Len(queue) \in Nat
  BY <1>1, AppendFacts, InvFacts DEF Inv, Types
<1>4. \A i \in (Len(queue) + 1)..Len(queue') : i = Len(queue) + 1
  BY <1>3
<1>5. Len(queue) + 1 \in (Len(queue) + 1)..Len(queue')
      /\ Len(queue) <= Len(queue')
  BY <1>3
<1>6. /\ \A i \in (Len(queue) + 1)..Len(queue') : Deleted(queue'[i])
      /\ \A x \in pool \ pool' : \E i \in (Len(queue) + 1)..Len(queue') :
            queue'[i].to = x
  BY <1>1, <1>2, <1>3, <1>4, <1>5 DEF Deleted
<1>7. Keeps
  BY <1>1, Zenon DEF Keeps
<1>8. RenderingOK(rendering') /\ scheduled' \subseteq pool' \cap Object
      /\ pool' \subseteq pool
  BY <1>1 DEF Inv, Types, Graph
<1>. QED
  BY <1>1, <1>3, <1>5, <1>6, <1>7, <1>8, RemovedKeeps

(* The end of a session, which removes all its resources, keeps Inv.        *)
LEMMA EndSessionKeeps ==
    ASSUME Inv, EndSession
    PROVE  Inv'
<1>1. /\ pool' = {} /\ scheduled' = {} /\ queue' = queue \o Deletions(pool)
      /\ created' = created /\ pending' = pending
      /\ commits' = commits /\ rendering' = rendering /\ inGroup' = inGroup
      /\ content' = content /\ shown' = shown /\ newest' = newest
  BY DEF EndSession, renderVars, pictureVars
<1>2. pool = pool \ pool'
  BY <1>1
<1>3. Keeps
  BY <1>1, Zenon DEF Keeps
<1>4. RenderingOK(rendering') /\ scheduled' \subseteq pool' \cap Object
      /\ pool' \subseteq pool
  BY <1>1 DEF Inv, Types
<1>5. /\ IsSequence(queue') /\ Len(queue) <= Len(queue')
      /\ \A i \in 1..Len(queue) : queue'[i] = queue[i]
      /\ \A i \in (Len(queue) + 1)..Len(queue') : Deleted(queue'[i])
      /\ \A r \in pool \ pool' :
            \E i \in (Len(queue) + 1)..Len(queue') : queue'[i].to = r
  BY <1>1, <1>2, DeletionsAppended
<1>. QED
  BY <1>1, <1>3, <1>4, <1>5, RemovedKeeps

(* Nothing but the deletion of objects depends on what is scheduled.        *)
LEMMA DeleteObjectKeeps ==
    ASSUME Inv, NEW o \in Object, DeleteObject(o)
    PROVE  Inv'
<1>1. /\ o \in pool /\ scheduled' = scheduled \cup {o}
      /\ pool' = pool /\ queue' = queue
      /\ created' = created /\ pending' = pending
      /\ commits' = commits /\ rendering' = rendering /\ inGroup' = inGroup
      /\ content' = content /\ shown' = shown /\ newest' = newest
  BY DEF DeleteObject, renderVars, queueVars, pictureVars
<1>2. Graph' /\ Types' /\ Coherence' /\ Absent'
  BY <1>1 DEF Inv, Graph, Types, Coherence, Absent
<1>3. Aims' /\ Counted' /\ Freed'
  BY <1>1 DEF Inv, Aims, Counted, Freed
<1>. QED
  BY <1>2, <1>3 DEF Inv

(* A command for a technique sets its texture and its sampler together.     *)
LEMMA BindingsTogether ==
    ASSUME NEW c, NEW t \in Technique, NEW known, NEW L, EntryOK(c, known, L)
    PROVE  Sets(c, t, "texture") <=> Sets(c, t, "sampler")
<1>1. SUFFICES ASSUME c.op = "set", c.to = t
               PROVE  Sets(c, t, "texture") <=> Sets(c, t, "sampler")
  BY DEF Sets
<1>2. \/ c.set \in [program : Ref(Program)]
      \/ c.set \in [vertexArray : Ref(VertexArray)]
      \/ c.set \in [texture : Ref(Texture), sampler : Ref(Sampler)]
      \/ c.set \in [method : Method, elements : Ref(Buffer)]
      \/ c.set \in [uniform : Content]
  BY <1>1 DEF EntryOK, SetOK
<1>3. "texture" \in DOMAIN c.set <=> "sampler" \in DOMAIN c.set
  BY <1>2
<1>. QED
  BY <1>3, Apart DEF Sets

(* Bindings to a texture or a sampler that is gone may be forgotten.        *)
LEMMA MatchReset ==
    ASSUME NEW q, NEW e \in Nat, NEW R, NEW S, NEW L, L \subseteq Resource,
           NEW P, NEW known, PictureOK(P, known), NEW M,
           \A i \in 1..(e - 1) : EntryOK(q[i], known, M),
           \A x \in Resource \ Technique : S[x] = R[x],
           \A t \in Technique :
              /\ \A f \in {"program", "vertexArray", "method", "elements",
                           "uniform"} : S[t][f] = R[t][f]
              /\ {R[t].texture, R[t].sampler} \subseteq L =>
                    S[t].texture = R[t].texture /\ S[t].sampler = R[t].sampler,
           NEW r \in L, Match(q, e, R, L, P, r)
    PROVE  Match(q, e, S, L, P, r)
<1>1. CASE r \notin Technique /\ r \notin VertexArray
  <2>1. S[r] = R[r]
    BY <1>1
  <2>. QED
    BY <1>1, <2>1, Zenon DEF Match, Shows, LinkShows, MipmapShows
<1>2. CASE r \in VertexArray
  <2>1. S[r] = R[r] /\ r \notin Technique /\ r \in Resource
    BY <1>2, Apart
  <2>2. ASSUME NEW i \in Index PROVE AttributeShows(q, e, S, L, P, r, i)
    <3>. DEFINE b == P[r].attribute[i].buffer
    <3>1. AttributeShows(q, e, R, L, P, r, i)
      BY <1>2, Zenon DEF Match
    <3>2. b \in L => S[b] = R[b]
      <4>1. P[r] \in [attribute : [Index -> [enabled : BOOLEAN,
                                             buffer : Ref(Buffer \cap known),
                                             bound : BOOLEAN]]]
        BY <1>2, <2>1 DEF PictureOK, PictureIs
      <4>2. b \in Ref(Buffer \cap known)
        BY <4>1
      <4>. HIDE DEF b
      <4>3. None \notin Resource /\ \A x \in Buffer : x \in Resource \ Technique
        BY Known, Apart
      <4>. QED
        BY <4>2, <4>3 DEF Ref
    <3>3. \A j : b \in L /\ DataAt(q, j, R, b) => DataAt(q, j, S, b)
      BY <3>2, Zenon DEF DataAt
    <3>. QED
      BY <2>1, <3>1, <3>3, Zenon DEF AttributeShows
  <2>3. r \notin Object /\ r \notin Unit /\ r \notin Buffer /\ r \notin Program
        /\ r \notin Texture /\ r \notin Sampler
    BY <1>2, Apart
  <2>. QED
    BY <2>1, <2>2, <2>3, Zenon DEF Match
<1>3. CASE r \in Technique
  <2>1. \A f \in {"program", "vertexArray", "method", "elements"} :
           S[r][f] = R[r][f]
    BY <1>3
  <2>2. Shows(q, e, R, P, r, {"program", "vertexArray", "method", "elements"})
    BY <1>3, Zenon DEF Match
  <2>3. Shows(q, e, S, P, r, {"program", "vertexArray", "method", "elements"})
    BY <2>1, <2>2, Zenon DEF Shows
  <2>4. ASSUME {P[r].texture, P[r].sampler} \subseteq L
        PROVE  Shows(q, e, S, P, r, {"texture", "sampler"})
    <3>1. Shows(q, e, R, P, r, {"texture", "sampler"})
      BY <1>3, <2>4, Zenon DEF Match
    <3>2. /\ LastIs(q, e, r, "texture", R[r].texture, P[r].texture)
          /\ LastIs(q, e, r, "sampler", R[r].sampler, P[r].sampler)
      BY <3>1 DEF Shows
    <3>3. \A i \in 1..(e - 1) : Sets(q[i], r, "texture")
                                  <=> Sets(q[i], r, "sampler")
      BY <1>3, BindingsTogether
    <3>4. CASE \A i \in 1..(e - 1) : ~Sets(q[i], r, "texture")
      <4>1. R[r].texture = P[r].texture /\ R[r].sampler = P[r].sampler
        BY <3>2, <3>3, <3>4, Zenon DEF LastIs
      <4>2. S[r].texture = R[r].texture /\ S[r].sampler = R[r].sampler
        BY <1>3, <2>4, <4>1
      <4>3. /\ LastIs(q, e, r, "texture", S[r].texture, P[r].texture)
            /\ LastIs(q, e, r, "sampler", S[r].sampler, P[r].sampler)
        BY <3>2, <4>2
      <4>. QED
        BY <4>3 DEF Shows
    <3>5. CASE ~\A i \in 1..(e - 1) : ~Sets(q[i], r, "texture")
      <4>1. /\ LastIs(q, e, r, "texture", S[r].texture, P[r].texture)
            /\ LastIs(q, e, r, "sampler", S[r].sampler, P[r].sampler)
        BY <3>2, <3>3, <3>5, Zenon DEF LastIs
      <4>. QED
        BY <4>1 DEF Shows
    <3>. QED
      BY <3>4, <3>5
  <2>5. UniformShows(q, e, S, L, P, r)
    <3>. DEFINE p == P[r].applied
    <3>1. UniformShows(q, e, R, L, P, r)
      BY <1>3, Zenon DEF Match
    <3>2. p \in L => S[p] = R[p]
      <4>1. PictureIs(r, P[r], known) /\ r \in Resource
        BY DEF PictureOK
      <4>2. p \in Ref(Program \cap known)
        BY <1>3, <4>1 DEF PictureIs
      <4>. HIDE DEF p
      <4>3. None \notin Resource
              /\ \A x \in Program : x \in Resource \ Technique
        BY Known, Apart
      <4>. QED
        BY <4>2, <4>3 DEF Ref
    <3>3. \A j : p \in L /\ LinkedAt(q, j, R, P, p) => LinkedAt(q, j, S, P, p)
      BY <3>2, Zenon DEF LinkedAt
    <3>4. S[r].program = R[r].program /\ S[r].uniform = R[r].uniform
      BY <1>3
    <3>. QED
      BY <3>1, <3>3, <3>4, Zenon DEF UniformShows
  <2>6. r \notin Object /\ r \notin Unit /\ r \notin Buffer /\ r \notin Program
        /\ r \notin Texture /\ r \notin Sampler /\ r \notin VertexArray
    BY <1>3, Apart
  <2>. QED
    BY <2>3, <2>4, <2>5, <2>6, Zenon DEF Match
<1>. QED
  BY <1>1, <1>2, <1>3

(* Only live techniques are drawn.                                          *)
LEMMA DrawnAre ==
    ASSUME Inv
    PROVE  \A t \in Drawn : t \in Technique /\ t \in pool
<1>. DEFINE objects == {o \in (pool \ scheduled) \cap Object :
                          rendering[o].committed}
            units == Live(UNION {rendering[o].units : o \in objects})
<1>1. /\ \A o \in Object : rendering[o].units \subseteq Unit
      /\ \A u \in Unit : rendering[u].technique \in Ref(Technique)
  <2>1. \A o \in Object : rendering[o] \in
           [committed : BOOLEAN, units : SUBSET Unit, position : Ref(Position)]
    BY Known DEF Inv, Types, RenderingOK, RenderingIs
  <2>2. \A u \in Unit : rendering[u] \in [technique : Ref(Technique)]
    BY Known DEF Inv, Types, RenderingOK, RenderingIs
  <2>. QED
    BY <2>1, <2>2
<1>2. units \subseteq Unit
  BY <1>1 DEF Live
<1>3. \A t \in Drawn : t \in Live({rendering[u].technique : u \in units})
  BY DEF Drawn
<1>. HIDE DEF units
<1>4. None \notin pool
  BY InvFacts
<1>. QED
  BY <1>1, <1>2, <1>3, <1>4 DEF Live, Ref

(* A frame drops bindings to textures and samplers that are gone, and so    *)
(* keeps Inv.                                                               *)
LEMMA FrameKeeps ==
    ASSUME Inv, Frame
    PROVE  Inv'
<1>1. /\ pool' = pool \ scheduled /\ scheduled' = {}
      /\ queue' = queue \o Deletions(scheduled)
      /\ created' = created /\ pending' = pending
      /\ commits' = commits /\ inGroup' = inGroup
      /\ content' = content /\ shown' = shown /\ newest' = newest
  BY DEF Frame, pictureVars
<1>2. scheduled = pool \ pool' /\ pool' \subseteq pool /\ pool \subseteq Resource
      /\ scheduled \subseteq Object
  BY <1>1, InvFacts DEF Inv, Graph
<1>3. /\ rendering' = [r \in Resource |-> rendering'[r]]
      /\ \A r \in Resource :
           \/ rendering'[r] = rendering[r]
           \/ /\ r \in Drawn
              /\ ~({rendering[r].texture, rendering[r].sampler} \subseteq pool)
              /\ rendering'[r] = [rendering[r] EXCEPT !.texture = None,
                                                      !.sampler = None]
  BY DEF Frame
<1>4. \A t \in Technique : rendering[t] \in
         [program : Ref(Program), vertexArray : Ref(VertexArray),
          texture : Ref(Texture), sampler : Ref(Sampler),
          method : Method, elements : Ref(Buffer), uniform : Data]
  BY Known DEF Inv, Types, RenderingOK, RenderingIs
<1>5. \A r \in Resource \ Technique : rendering'[r] = rendering[r]
  BY <1>3, DrawnAre
<1>6. ASSUME NEW t \in Technique
      PROVE  /\ \A f \in {"program", "vertexArray", "method", "elements",
                          "uniform"} : rendering'[t][f] = rendering[t][f]
             /\ {rendering[t].texture, rendering[t].sampler} \subseteq pool' =>
                   /\ rendering'[t].texture = rendering[t].texture
                   /\ rendering'[t].sampler = rendering[t].sampler
             /\ RenderingIs(t, rendering'[t])
  <2>1. t \in Resource
    BY Known
  <2>2. CASE rendering'[t] = rendering[t]
    BY <2>1, <2>2 DEF Inv, Types, RenderingOK
  <2>3. CASE /\ ~({rendering[t].texture, rendering[t].sampler} \subseteq pool)
             /\ rendering'[t] = [rendering[t] EXCEPT !.texture = None,
                                                     !.sampler = None]
    <3>1. \A f \in {"program", "vertexArray", "method", "elements", "uniform"} :
             rendering'[t][f] = rendering[t][f]
      BY <1>4, <2>3
    <3>2. rendering'[t] \in
            [program : Ref(Program), vertexArray : Ref(VertexArray),
             texture : Ref(Texture), sampler : Ref(Sampler),
             method : Method, elements : Ref(Buffer), uniform : Data]
      BY <1>4, <2>3 DEF Ref
    <3>3. RenderingIs(t, rendering'[t])
      BY <3>2, Apart DEF RenderingIs
    <3>. QED
      BY <1>2, <2>3, <3>1, <3>3
  <2>. QED
    BY <1>3, <2>1, <2>2, <2>3
<1>7. RenderingOK(rendering')
  <2>1. ASSUME NEW r \in Resource PROVE RenderingIs(r, rendering'[r])
    <3>1. CASE r \in Technique
      BY <1>6, <3>1
    <3>2. CASE r \notin Technique
      BY <1>5, <3>2 DEF Inv, Types, RenderingOK
    <3>. QED
      BY <3>1, <3>2
  <2>. QED
    BY <1>3, <2>1 DEF RenderingOK
<1>8. Keeps
  <2>1. ASSUME NEW e \in 1..(Len(queue) + 1), NEW P, NEW r \in pool',
               PictureOK(P, created),
               Match(queue, e, rendering, pool', P, r)
        PROVE  Match(queue, e, rendering', pool', P, r)
    <3>1. /\ e \in Nat /\ \A i \in 1..(e - 1) : i \in 1..Len(queue)
          /\ pool' \subseteq Resource
      BY <1>2, InvFacts
    <3>2. \A i \in 1..(e - 1) : EntryOK(queue[i], created, pool)
      BY <3>1 DEF Inv, Types
    <3>3. \A t \in Technique :
            /\ \A f \in {"program", "vertexArray", "method", "elements",
                         "uniform"} : rendering'[t][f] = rendering[t][f]
            /\ {rendering[t].texture, rendering[t].sampler} \subseteq pool' =>
                  /\ rendering'[t].texture = rendering[t].texture
                  /\ rendering'[t].sampler = rendering[t].sampler
      BY <1>6
    <3>. QED
      BY <1>5, <2>1, <3>1, <3>2, <3>3, MatchReset
  <2>. QED
    BY <2>1, Zenon DEF Keeps
<1>9. \A r \in Resource \ pool : rendering'[r] = rendering[r]
  BY <1>3, DrawnAre
<1>10. /\ IsSequence(queue') /\ Len(queue) <= Len(queue')
       /\ \A i \in 1..Len(queue) : queue'[i] = queue[i]
       /\ \A i \in (Len(queue) + 1)..Len(queue') : Deleted(queue'[i])
       /\ \A r \in pool \ pool' :
             \E i \in (Len(queue) + 1)..Len(queue') : queue'[i].to = r
  BY <1>1, <1>2, DeletionsAppended
<1>. QED
  BY <1>1, <1>2, <1>7, <1>8, <1>9, <1>10, RemovedKeeps

-----------------------------------------------------------------------------
(* A handler changes the pending state of one resource.                     *)

(* What Coherent says of r, whose pending state is x and whose content is c *)
CoherentAt(r, x, P, c) ==
    /\ r \in Technique =>
          /\ ~x.programDamaged => x.program = P[r].program
          /\ ~x.vertexArrayDamaged => x.vertexArray = P[r].vertexArray
          /\ ~x.methodDamaged => /\ x.method = P[r].method
                                 /\ x.elements = P[r].elements
          /\ ~x.textureDamaged => /\ x.texture = P[r].texture
                                  /\ x.sampler = P[r].sampler
          /\ IF x.uniform = None THEN c = P[r].uniform ELSE x.uniform = c
    /\ r \in VertexArray => \A i \in Index :
          IF x.attribute[i].damaged THEN x.damaged
          ELSE /\ x.attribute[i].enabled = P[r].attribute[i].enabled
               /\ x.attribute[i].buffer = P[r].attribute[i].buffer
    /\ r \in Buffer => IF x.damaged THEN x.data = c
                       ELSE c = P[r].data /\ P[r].reached
    /\ r \in Texture => IF x.data = None THEN c = P[r].data ELSE x.data = c
    /\ r \in Sampler => IF x.parameter = None THEN c = P[r].parameter
                        ELSE x.parameter = c

(* Coherent, resource by resource                                           *)
LEMMA CoherentIs ==
    ASSUME NEW p, NEW P, NEW C
    PROVE  Coherent(p, P, C) <=> \A r \in Resource : CoherentAt(r, p[r], P, C[r])
<1>1. ASSUME Coherent(p, P, C), NEW r \in Resource
      PROVE  CoherentAt(r, p[r], P, C[r])
  BY <1>1, Zenon DEF Coherent, CoherentAt
<1>2. ASSUME \A r \in Resource : CoherentAt(r, p[r], P, C[r])
      PROVE  Coherent(p, P, C)
  <2>1. /\ \A t \in Technique : CoherentAt(t, p[t], P, C[t])
        /\ \A v \in VertexArray : CoherentAt(v, p[v], P, C[v])
        /\ \A b \in Buffer : CoherentAt(b, p[b], P, C[b])
        /\ \A x \in Texture : CoherentAt(x, p[x], P, C[x])
        /\ \A m \in Sampler : CoherentAt(m, p[m], P, C[m])
    BY <1>2, Known
  <2>. QED
    BY <2>1, Zenon DEF Coherent, CoherentAt
<1>. QED
  BY <1>1, <1>2

(* A handler that changes a pending state keeps Inv when it marks what no   *)
(* longer agrees with the last commit.                                      *)
LEMMA ChangeKeeps ==
    ASSUME Inv, NEW r \in Resource, NEW new, Change(r, new),
           PendingIs(r, new, created),
           content' \in [Resource -> Data],
           \A x \in Resource : x # r => content'[x] = content[x],
           CoherentAt(r, new, newest, content'[r])
    PROVE  Inv'
<1>1. /\ r \in pool /\ pending' = [pending EXCEPT ![r] = new]
      /\ created' = created /\ pool' = pool /\ scheduled' = scheduled
      /\ rendering' = rendering /\ inGroup' = inGroup /\ queue' = queue
      /\ commits' = commits /\ shown' = shown /\ newest' = newest
  BY DEF Change, poolVars, renderVars, queueVars, pictureVars
<1>2. /\ pending' = [x \in Resource |-> pending'[x]]
      /\ pending'[r] = new
      /\ \A x \in Resource : x # r => pending'[x] = pending[x]
  BY <1>1 DEF Inv, Types, PendingOK
<1>3. Graph' /\ r \in created
  BY <1>1 DEF Inv, Graph
<1>4. PendingOK(pending', created)
  <2>1. \A x \in Resource : PendingIs(x, pending[x], created)
    BY DEF Inv, Types, PendingOK
  <2>2. \A x \in Resource : PendingIs(x, pending'[x], created)
    BY <1>2, <2>1, Zenon
  <2>. QED
    BY <1>2, <2>2, Zenon DEF PendingOK
<1>5. Types'
  BY <1>1, <1>4 DEF Inv, Types
<1>6. Coherence'
  <2>1. \A x \in Resource : CoherentAt(x, pending[x], newest, content[x])
    BY CoherentIs DEF Inv, Coherence
  <2>2. \A x \in Resource : CoherentAt(x, pending'[x], newest, content'[x])
    BY <1>2, <2>1, Zenon
  <2>3. Coherent(pending', newest, content')
    BY <2>2, CoherentIs
  <2>. QED
    BY <1>1, <2>3 DEF Coherence
<1>7. Aims'
  BY <1>1 DEF Inv, Aims
<1>8. Absent'
  BY <1>1, <1>2, <1>3 DEF Inv, Absent
<1>9. Counted' /\ Freed'
  BY <1>1 DEF Inv, Counted, Freed
<1>. QED
  BY <1>3, <1>5, <1>6, <1>7, <1>8, <1>9 DEF Inv

(* The same for a handler that uploads nothing,                             *)
LEMMA ChangeAlone ==
    ASSUME Inv, NEW r \in Resource, NEW new, Change(r, new),
           PendingIs(r, new, created), UNCHANGED content,
           CoherentAt(r, new, newest, content[r])
    PROVE  Inv'
<1>1. content' \in [Resource -> Data]
  BY DEF Inv, Types
<1>. QED
  BY <1>1, ChangeKeeps

(* and for one that uploads.                                                *)
LEMMA ChangeUploads ==
    ASSUME Inv, NEW r \in Resource, NEW new, Change(r, new),
           PendingIs(r, new, created), NEW d \in Content, Upload(r, d),
           CoherentAt(r, new, newest, d)
    PROVE  Inv'
<1>1. content \in [Resource -> Data] /\ d \in Data
  BY DEF Inv, Types, Data
<1>2. content' \in [Resource -> Data] /\ content'[r] = d
      /\ \A x \in Resource : x # r => content'[x] = content[x]
  BY <1>1 DEF Upload
<1>. QED
  BY <1>2, ChangeKeeps

(* The pending state of every resource, before a handler changes it         *)
LEMMA PendingFacts ==
    ASSUME Inv, NEW r \in Resource
    PROVE  /\ PendingIs(r, pending[r], created)
           /\ CoherentAt(r, pending[r], newest, content[r])
BY CoherentIs DEF Inv, Types, PendingOK, Coherence

(* What Get returns                                                         *)
LEMMA GetIs ==
    ASSUME Inv, NEW S, NEW x \in S \cap created
    PROVE  Get(x) \in Ref(S \cap created)
BY DEF Get, Ref

(* GlBuffer::GlBufferData keeps Inv.                                        *)
LEMMA GlBufferDataKeeps ==
    ASSUME Inv, NEW b \in Buffer, NEW d \in Content, GlBufferData(b, d)
    PROVE  Inv'
<1>. DEFINE new == [data |-> d, damaged |-> TRUE]
<1>1. /\ b \in Resource /\ Change(b, new) /\ Upload(b, d)
  BY Known DEF GlBufferData
<1>2. PendingIs(b, new, created)
  <2>1. new \in [data : Data, damaged : BOOLEAN] /\ new.data # None
    BY Known DEF Data
  <2>. QED
    BY <2>1, Apart DEF PendingIs
<1>3. CoherentAt(b, new, newest, d)
  BY Apart DEF CoherentAt
<1>. HIDE DEF new
<1>. QED
  BY <1>1, <1>2, <1>3, ChangeUploads

(* An attribute of a vertex array                                           *)
LEMMA AttributeKeeps ==
    ASSUME Inv, NEW v \in VertexArray, NEW i \in Index, NEW change,
           Attribute(v, i, change), UNCHANGED content,
           \/ change \in [enabled : BOOLEAN, damaged : {TRUE}]
           \/ change \in [buffer : Ref(Buffer \cap created), damaged : {TRUE}]
    PROVE  Inv'
<1>. DEFINE K == [enabled : BOOLEAN, buffer : Ref(Buffer \cap created),
                  damaged : BOOLEAN]
            p == pending[v]
            a == p.attribute[i]
            u == Updated(a, change)
            new == [p EXCEPT !.attribute[i] = u, !.damaged = TRUE]
<1>1. v \in Resource /\ Change(v, new)
  BY Known DEF Attribute
<1>2. p \in [attribute : [Index -> K], damaged : BOOLEAN]
  BY <1>1, PendingFacts DEF PendingIs
<1>3. a \in K
  BY <1>2
<1>4. u \in K /\ u.damaged = TRUE
  BY <1>3 DEF Updated
<1>. HIDE DEF u, a
<1>5. /\ new = [attribute |-> [p.attribute EXCEPT ![i] = u], damaged |-> TRUE]
      /\ new \in [attribute : [Index -> K], damaged : BOOLEAN]
  <2>. DEFINE A == [p.attribute EXCEPT ![i] = u]
  <2>. HIDE DEF p, K
  <2>1. A \in [Index -> K]
    BY <1>2, <1>4
  <2>2. new = [p EXCEPT !.attribute = A, !.damaged = TRUE]
    OBVIOUS
  <2>. HIDE DEF A, new
  <2>3. new = [attribute |-> A, damaged |-> TRUE]
    BY <1>2, <2>2
  <2>4. new \in [attribute : [Index -> K], damaged : BOOLEAN]
    BY <2>1, <2>3
  <2>. QED
    BY <2>3, <2>4 DEF A
<1>6. /\ new.damaged = TRUE
      /\ new.attribute[i] = u
      /\ \A k \in Index : k # i => new.attribute[k] = p.attribute[k]
  BY <1>2, <1>5
<1>7. PendingIs(v, new, created)
  BY <1>5, Apart DEF PendingIs
<1>. HIDE DEF new
<1>8. CoherentAt(v, new, newest, content[v])
  <2>1. CoherentAt(v, p, newest, content[v])
    BY <1>1, PendingFacts
  <2>2. \A k \in Index :
          IF new.attribute[k].damaged THEN new.damaged
          ELSE /\ new.attribute[k].enabled = newest[v].attribute[k].enabled
               /\ new.attribute[k].buffer = newest[v].attribute[k].buffer
    BY <1>4, <1>6, <2>1, Zenon DEF CoherentAt
  <2>. QED
    BY <2>2, Apart DEF CoherentAt
<1>. QED
  BY <1>1, <1>7, <1>8, ChangeAlone

(* The handlers of the attributes of a vertex array keep Inv.               *)
LEMMA AttributesKeep ==
    ASSUME Inv, NEW v \in VertexArray, NEW i \in Index,
           \/ GlEnableVertexAttribArray(v, i)
           \/ GlDisableVertexAttribArray(v, i)
           \/ \E b \in Buffer : GlVertexAttribPointer(v, i, b)
    PROVE  Inv'
<1>1. CASE GlEnableVertexAttribArray(v, i)
  <2>. DEFINE change == [enabled |-> TRUE, damaged |-> TRUE]
  <2>1. change \in [enabled : BOOLEAN, damaged : {TRUE}]
    OBVIOUS
  <2>2. Attribute(v, i, change) /\ UNCHANGED content
    BY <1>1 DEF GlEnableVertexAttribArray
  <2>. HIDE DEF change
  <2>. QED
    BY <2>1, <2>2, AttributeKeeps
<1>2. CASE GlDisableVertexAttribArray(v, i)
  <2>. DEFINE change == [enabled |-> FALSE, damaged |-> TRUE]
  <2>1. change \in [enabled : BOOLEAN, damaged : {TRUE}]
    OBVIOUS
  <2>2. Attribute(v, i, change) /\ UNCHANGED content
    BY <1>2 DEF GlDisableVertexAttribArray
  <2>. HIDE DEF change
  <2>. QED
    BY <2>1, <2>2, AttributeKeeps
<1>3. ASSUME NEW b \in Buffer, GlVertexAttribPointer(v, i, b) PROVE Inv'
  <2>. DEFINE change == [buffer |-> Get(b), damaged |-> TRUE]
  <2>1. Get(b) \in Ref(Buffer \cap created)
    BY <1>3, GetIs DEF GlVertexAttribPointer
  <2>2. change \in [buffer : Ref(Buffer \cap created), damaged : {TRUE}]
    BY <2>1
  <2>3. Attribute(v, i, change) /\ UNCHANGED content
    BY <1>3 DEF GlVertexAttribPointer
  <2>. HIDE DEF change
  <2>. QED
    BY <2>2, <2>3, AttributeKeeps
<1>. QED
  BY <1>1, <1>2, <1>3

(* GlProgram::GlAttachShader and GlLinkProgram keep Inv.                    *)
LEMMA ProgramChangesKeep ==
    ASSUME Inv, NEW p \in Program,
           GlLinkProgram(p) \/ \E h \in Shader : GlAttachShader(p, h)
    PROVE  Inv'
<1>. DEFINE K == [shaders : SUBSET Ref(Shader \cap created),
                  shouldLink : BOOLEAN]
<1>1. p \in Resource /\ pending[p] \in K
  BY Known, PendingFacts DEF PendingIs
<1>2. \A new : new \in K => PendingIs(p, new, created)
  BY Apart DEF PendingIs
<1>3. \A new : CoherentAt(p, new, newest, content[p])
  BY Apart DEF CoherentAt
<1>4. CASE GlLinkProgram(p)
  <2>. DEFINE new == [pending[p] EXCEPT !.shouldLink = TRUE]
  <2>1. new \in K /\ Change(p, new) /\ UNCHANGED content
    BY <1>1, <1>4 DEF GlLinkProgram
  <2>. HIDE DEF new, K
  <2>. QED
    BY <1>1, <1>2, <1>3, <2>1, ChangeAlone
<1>5. ASSUME NEW h \in Shader, GlAttachShader(p, h) PROVE Inv'
  <2>. DEFINE new == [pending[p] EXCEPT !.shaders = @ \cup {Get(h)}]
  <2>1. Get(h) \in Ref(Shader \cap created)
    BY <1>5, GetIs DEF GlAttachShader
  <2>2. new \in K
    BY <1>1, <2>1
  <2>3. Change(p, new) /\ UNCHANGED content
    BY <1>5 DEF GlAttachShader
  <2>. HIDE DEF new, K
  <2>. QED
    BY <1>1, <1>2, <1>3, <2>2, <2>3, ChangeAlone
<1>. QED
  BY <1>4, <1>5

(* The uploads of a texture and GlGenerateMipmap keep Inv.                  *)
LEMMA TextureChangesKeep ==
    ASSUME Inv, NEW x \in Texture,
           GlGenerateMipmap(x) \/ \E d \in Content : UploadTexture(x, d)
    PROVE  Inv'
<1>. DEFINE K == [data : Data, mipmap : BOOLEAN]
<1>1. x \in Resource /\ pending[x] \in K
  BY Known, PendingFacts DEF PendingIs
<1>2. \A new : new \in K => PendingIs(x, new, created)
  BY Apart DEF PendingIs
<1>3. CASE GlGenerateMipmap(x)
  <2>. DEFINE new == [pending[x] EXCEPT !.mipmap = TRUE]
  <2>1. new \in K /\ new.data = pending[x].data
    BY <1>1
  <2>2. Change(x, new) /\ UNCHANGED content
    BY <1>3 DEF GlGenerateMipmap
  <2>3. CoherentAt(x, new, newest, content[x])
    <3>1. CoherentAt(x, pending[x], newest, content[x])
      BY <1>1, PendingFacts
    <3>. HIDE DEF new
    <3>. QED
      BY <2>1, <3>1, Apart DEF CoherentAt
  <2>. HIDE DEF new, K
  <2>. QED
    BY <1>1, <1>2, <2>1, <2>2, <2>3, ChangeAlone
<1>4. ASSUME NEW d \in Content, UploadTexture(x, d) PROVE Inv'
  <2>. DEFINE new == [pending[x] EXCEPT !.data = d]
  <2>1. new \in K /\ new.data = d
    BY <1>1 DEF Data
  <2>2. Change(x, new) /\ Upload(x, d)
    BY <1>4 DEF UploadTexture
  <2>3. CoherentAt(x, new, newest, d)
    <3>1. d # None
      BY Known
    <3>. HIDE DEF new
    <3>. QED
      BY <2>1, <3>1, Apart DEF CoherentAt
  <2>. HIDE DEF new, K
  <2>. QED
    BY <1>1, <1>2, <2>1, <2>2, <2>3, ChangeUploads
<1>. QED
  BY <1>3, <1>4

(* The handlers that set the parameters of a sampler keep Inv.              *)
LEMMA SamplerParameterKeeps ==
    ASSUME Inv, NEW m \in Sampler, NEW d \in Content, SamplerParameter(m, d)
    PROVE  Inv'
<1>. DEFINE new == [pending[m] EXCEPT !.parameter = d]
<1>1. m \in Resource /\ pending[m] \in [parameter : Data]
  BY Known, PendingFacts DEF PendingIs
<1>2. new \in [parameter : Data] /\ new.parameter = d /\ d # None
  BY <1>1, Known DEF Data
<1>3. Change(m, new) /\ Upload(m, d)
  BY DEF SamplerParameter
<1>. HIDE DEF new
<1>4. PendingIs(m, new, created)
  BY <1>2, Apart DEF PendingIs
<1>5. CoherentAt(m, new, newest, d)
  BY <1>2, Apart DEF CoherentAt
<1>. QED
  BY <1>1, <1>3, <1>4, <1>5, ChangeUploads

(* A technique: a field that changes is marked as damaged.                  *)
TechniquePending ==
    [program : Ref(Program \cap created), programDamaged : BOOLEAN,
     vertexArray : Ref(VertexArray \cap created), vertexArrayDamaged : BOOLEAN,
     texture : Ref(Texture \cap created), sampler : Ref(Sampler \cap created),
     textureDamaged : BOOLEAN,
     method : Method, elements : Ref(Buffer \cap created),
     methodDamaged : BOOLEAN, uniform : Data]

Damages(x, y) ==
    /\ y.programDamaged \/ /\ y.programDamaged = x.programDamaged
                           /\ y.program = x.program
    /\ y.vertexArrayDamaged \/ /\ y.vertexArrayDamaged = x.vertexArrayDamaged
                               /\ y.vertexArray = x.vertexArray
    /\ y.methodDamaged \/ /\ y.methodDamaged = x.methodDamaged
                          /\ y.method = x.method /\ y.elements = x.elements
    /\ y.textureDamaged \/ /\ y.textureDamaged = x.textureDamaged
                           /\ y.texture = x.texture /\ y.sampler = x.sampler

(* A handler of a technique that marks what it changes keeps Inv.           *)
LEMMA TechniqueChangeKeeps ==
    ASSUME Inv, NEW t \in Technique, NEW new, Change(t, new),
           new \in TechniquePending, Damages(pending[t], new),
           new.uniform = pending[t].uniform, UNCHANGED content
    PROVE  Inv'
<1>1. /\ t \in Resource /\ CoherentAt(t, pending[t], newest, content[t])
  BY Known, PendingFacts
<1>2. PendingIs(t, new, created)
  BY Apart DEF PendingIs, TechniquePending
<1>3. CoherentAt(t, new, newest, content[t])
  <2>1. /\ ~new.programDamaged => new.program = newest[t].program
        /\ ~new.vertexArrayDamaged => new.vertexArray = newest[t].vertexArray
        /\ ~new.methodDamaged => /\ new.method = newest[t].method
                                 /\ new.elements = newest[t].elements
        /\ ~new.textureDamaged => /\ new.texture = newest[t].texture
                                  /\ new.sampler = newest[t].sampler
        /\ IF new.uniform = None THEN content[t] = newest[t].uniform
                                 ELSE new.uniform = content[t]
    BY <1>1, Zenon DEF CoherentAt, Damages
  <2>. QED
    BY <2>1, Apart DEF CoherentAt
<1>. QED
  BY <1>1, <1>2, <1>3, ChangeAlone

(* GlBaseTechnique::GlUniform keeps Inv.                                    *)
LEMMA GlUniformKeeps ==
    ASSUME Inv, NEW t \in Technique, NEW d \in Content, GlUniform(t, d)
    PROVE  Inv'
<1>. DEFINE new == [pending[t] EXCEPT !.uniform = d]
<1>1. /\ t \in Resource /\ pending[t] \in TechniquePending
      /\ CoherentAt(t, pending[t], newest, content[t])
  BY Known, PendingFacts DEF PendingIs, TechniquePending
<1>2. /\ new \in TechniquePending
      /\ new.uniform = d /\ d # None
      /\ new.programDamaged = pending[t].programDamaged
      /\ new.program = pending[t].program
      /\ new.vertexArrayDamaged = pending[t].vertexArrayDamaged
      /\ new.vertexArray = pending[t].vertexArray
      /\ new.methodDamaged = pending[t].methodDamaged
      /\ new.method = pending[t].method /\ new.elements = pending[t].elements
      /\ new.textureDamaged = pending[t].textureDamaged
      /\ new.texture = pending[t].texture /\ new.sampler = pending[t].sampler
  BY <1>1, Known DEF TechniquePending, Data
<1>3. Change(t, new) /\ Upload(t, d)
  BY DEF GlUniform
<1>. HIDE DEF new
<1>4. PendingIs(t, new, created)
  BY <1>2, Apart DEF PendingIs, TechniquePending
<1>5. CoherentAt(t, new, newest, d)
  BY <1>1, <1>2, Apart DEF CoherentAt
<1>. QED
  BY <1>1, <1>3, <1>4, <1>5, ChangeUploads

(* Every handler of a technique keeps Inv.                                  *)
LEMMA TechniqueChangesKeep ==
    ASSUME Inv, NEW t \in Technique,
           \/ \E p \in Program : BindProgram(t, p)
           \/ \E v \in VertexArray : BindVertexArray(t, v)
           \/ \E x \in Texture, m \in Sampler : BindTexture(t, x, m)
           \/ \E d \in Content : GlUniform(t, d)
           \/ GlDrawArrays(t)
           \/ \E b \in Buffer : GlDrawElements(t, b)
    PROVE  Inv'
<1>. DEFINE old == pending[t]
<1>0. old \in TechniquePending
  BY Known, PendingFacts DEF PendingIs, TechniquePending
<1>1. ASSUME NEW p \in Program, BindProgram(t, p) PROVE Inv'
  <2>. DEFINE new == [old EXCEPT !.program = Get(p), !.programDamaged = TRUE]
  <2>1. /\ Get(p) \in Ref(Program \cap created)
        /\ Change(t, new) /\ UNCHANGED content
    BY <1>1, GetIs DEF BindProgram
  <2>2. /\ new \in TechniquePending /\ new.uniform = old.uniform
        /\ Damages(old, new)
    <3>. HIDE DEF old
    <3>. QED
      BY <1>0, <2>1 DEF TechniquePending, Damages
  <2>. HIDE DEF new
  <2>. QED
    BY <2>1, <2>2, TechniqueChangeKeeps
<1>2. ASSUME NEW v \in VertexArray, BindVertexArray(t, v) PROVE Inv'
  <2>. DEFINE new == [old EXCEPT !.vertexArray = Get(v),
                                 !.vertexArrayDamaged = TRUE]
  <2>1. /\ Get(v) \in Ref(VertexArray \cap created)
        /\ Change(t, new) /\ UNCHANGED content
    BY <1>2, GetIs DEF BindVertexArray
  <2>2. /\ new \in TechniquePending /\ new.uniform = old.uniform
        /\ Damages(old, new)
    <3>. HIDE DEF old
    <3>. QED
      BY <1>0, <2>1 DEF TechniquePending, Damages
  <2>. HIDE DEF new
  <2>. QED
    BY <2>1, <2>2, TechniqueChangeKeeps
<1>3. ASSUME NEW x \in Texture, NEW m \in Sampler, BindTexture(t, x, m)
      PROVE  Inv'
  <2>. DEFINE new == [old EXCEPT !.texture = Get(x), !.sampler = Get(m),
                                 !.textureDamaged = TRUE]
  <2>1. /\ Get(x) \in Ref(Texture \cap created)
        /\ Get(m) \in Ref(Sampler \cap created)
        /\ Change(t, new) /\ UNCHANGED content
    BY <1>3, GetIs DEF BindTexture
  <2>2. /\ new \in TechniquePending /\ new.uniform = old.uniform
        /\ Damages(old, new)
    <3>. HIDE DEF old
    <3>. QED
      BY <1>0, <2>1 DEF TechniquePending, Damages
  <2>. HIDE DEF new
  <2>. QED
    BY <2>1, <2>2, TechniqueChangeKeeps
<1>4. CASE GlDrawArrays(t)
  <2>. DEFINE new == [old EXCEPT !.method = "arrays", !.methodDamaged = TRUE]
  <2>1. Change(t, new) /\ UNCHANGED content
    BY <1>4 DEF GlDrawArrays
  <2>2. /\ new \in TechniquePending /\ new.uniform = old.uniform
        /\ Damages(old, new)
    <3>. HIDE DEF old
    <3>. QED
      BY <1>0 DEF TechniquePending, Damages, Method
  <2>. HIDE DEF new
  <2>. QED
    BY <2>1, <2>2, TechniqueChangeKeeps
<1>5. ASSUME NEW b \in Buffer, GlDrawElements(t, b) PROVE Inv'
  <2>. DEFINE new == [old EXCEPT !.method = "elements", !.elements = Get(b),
                                 !.methodDamaged = TRUE]
  <2>1. /\ Get(b) \in Ref(Buffer \cap created)
        /\ Change(t, new) /\ UNCHANGED content
    BY <1>5, GetIs DEF GlDrawElements
  <2>2. /\ new \in TechniquePending /\ new.uniform = old.uniform
        /\ Damages(old, new)
    <3>. HIDE DEF old
    <3>. QED
      BY <1>0, <2>1 DEF TechniquePending, Damages, Method
  <2>. HIDE DEF new
  <2>. QED
    BY <2>1, <2>2, TechniqueChangeKeeps
<1>. QED
  BY <1>1, <1>2, <1>3, <1>4, <1>5, GlUniformKeeps

-----------------------------------------------------------------------------
(* Commit and Move append a group of commands.                              *)

(* A group of commands as CommitOf describes it keeps Inv.                  *)
LEMMA CommittedKeeps ==
    ASSUME Inv, NEW n, CommitOf(n, newest'),
           pending' = n.pending, queue' = n.queue, commits' = commits + 1,
           created' = created, pool' = pool, scheduled' = scheduled,
           rendering' = rendering, inGroup' = inGroup, content' = content,
           shown' = shown
    PROVE  Inv'
<1>. DEFINE z == Len(queue')
            end == [op |-> "commit", picture |-> newest']
<1>1. /\ PictureOK(newest', created) /\ PendingOK(pending', created)
      /\ \A r \in Resource \ pool : pending'[r] = pending[r]
      /\ IsSequence(queue') /\ Len(queue) < z
      /\ \A i \in 1..Len(queue) : queue'[i] = queue[i]
      /\ \A i \in (Len(queue) + 1)..(z - 1) : SetCommand(queue'[i])
      /\ queue'[z] = end
      /\ \A r \in pool : Match(queue', z, rendering, pool, newest', r)
      /\ Coherent(pending', newest', content)
  BY Zenon DEF CommitOf
<1>2. Len(queue) \in Nat /\ z \in Nat
  BY <1>1, InvFacts, SequenceFacts
<1>3. end.op = "commit" /\ end.picture = newest'
  OBVIOUS
<1>4. z \in 1..z /\ z \notin 1..Len(queue) /\ \A i \in 1..Len(queue) : i \in 1..z
  BY <1>1, <1>2
<1>5. \A i \in 1..z :
         \/ i \in 1..Len(queue)
         \/ i \in (Len(queue) + 1)..(z - 1)
         \/ i = z
  BY <1>1, <1>2
<1>. HIDE DEF z, end
<1>6. \A i \in 1..z :
         \/ i \in 1..Len(queue) /\ queue'[i] = queue[i]
         \/ SetCommand(queue'[i])
         \/ i = z /\ queue'[i] = end
  BY <1>1, <1>5, Zenon
<1>7. Graph'
  BY DEF Inv, Graph
<1>8. Types'
  <2>1. ASSUME NEW i \in 1..z PROVE EntryOK(queue'[i], created, pool)
    <3>1. CASE i \in 1..Len(queue) /\ queue'[i] = queue[i]
      BY <3>1 DEF Inv, Types
    <3>2. CASE SetCommand(queue'[i])
      BY <3>2 DEF SetCommand, EntryOK, Inv, Graph
    <3>3. CASE queue'[i] = end
      BY <1>1, <1>3, <3>3 DEF EntryOK
    <3>. QED
      BY <1>6, <2>1, <3>1, <3>2, <3>3, Zenon
  <2>. QED
    BY <1>1, <2>1 DEF Inv, Types, z
<1>9. Coherence'
  BY <1>1 DEF Coherence
<1>10. /\ Ends(queue') = Ends(queue) \cup Just(z) /\ z \notin Ends(queue)
       /\ \A e \in Ends(queue) : e \in 1..Len(queue)
  BY <1>1, <1>3, <1>4, <1>6 DEF Ends, Just, SetCommand, z
<1>11. Counted'
  <2>1. IsFiniteSet(1..Len(queue)) /\ Ends(queue) \subseteq 1..Len(queue)
    <3>1. IsFiniteSet(1..Len(queue))
      BY <1>2, FS_Interval
    <3>. QED
      BY <3>1 DEF Ends
  <2>2. IsFiniteSet(Ends(queue)) /\ Cardinality(Ends(queue)) \in Nat
    BY <2>1, FS_Subset, FS_CardinalityType
  <2>3. Cardinality(Ends(queue) \cup {z}) = Cardinality(Ends(queue)) + 1
    BY <1>10, <2>2, FS_AddElement
  <2>. QED
    BY <1>10, <2>2, <2>3 DEF Inv, Counted, Just
<1>12. ASSUME NEW e \in 1..z, NEW P, Shown(queue, e, rendering, pool, P),
              \A i \in 1..(e - 1) : i \in 1..Len(queue)
       PROVE  Shown(queue', e, rendering, pool, P)
  <2>1. Extends(queue, e, queue', e) /\ e..(e - 1) = {}
    BY <1>1, <1>2, <1>12 DEF Extends
  <2>2. ASSUME NEW r \in pool PROVE Match(queue', e, rendering, pool, P, r)
    <3>1. Match(queue, e, rendering, pool, P, r)
      BY <1>12 DEF Shown
    <3>2. Same(P, P, pool, r)
      BY DEF Same
    <3>. QED
      BY <2>1, <3>1, <3>2, MatchKept
  <2>. QED
    BY <2>2 DEF Shown
<1>13. ASSUME NEW r \in pool
       PROVE  Match(queue', z + 1, rendering, pool, newest', r)
  <2>1. Extends(queue', z, queue', z + 1) /\ \A i \in z..((z + 1) - 1) : i = z
    BY <1>2, <1>4 DEF Extends
  <2>2. \A i \in z..((z + 1) - 1) : ~(queue'[i].op = "set" /\ queue'[i].to = r)
    BY <1>1, <1>3, <2>1
  <2>3. Same(newest', newest', pool, r)
    BY DEF Same
  <2>4. Match(queue', z, rendering, pool, newest', r)
    BY <1>1
  <2>. QED
    BY <2>1, <2>2, <2>3, <2>4, MatchKept
<1>14. Aims'
  <2>1. 1 \in 1..z /\ 1..(1 - 1) = {}
    BY <1>2, <1>4
  <2>2. ~inGroup' => Shown(queue', 1, rendering', pool', shown')
    BY <1>12, <2>1 DEF Inv, Aims
  <2>3. ASSUME NEW e \in Ends(queue)
        PROVE  Shown(queue', e, rendering, pool, queue'[e].picture)
    <3>1. e \in 1..z /\ \A i \in 1..(e - 1) : i \in 1..Len(queue)
      BY <1>2, <1>4, <1>10
    <3>2. queue'[e] = queue[e]
      BY <1>1, <1>10
    <3>3. Shown(queue, e, rendering, pool, queue[e].picture)
      BY Zenon DEF Inv, Aims
    <3>. QED
      BY <1>12, <3>1, <3>2, <3>3
  <2>4. Shown(queue', z, rendering, pool, queue'[z].picture)
    BY <1>1, <1>3 DEF Shown
  <2>5. Shown(queue', z + 1, rendering, pool, newest')
    BY <1>13 DEF Shown
  <2>6. \A e \in Ends(queue') :
           Shown(queue', e, rendering', pool', queue'[e].picture)
    BY <1>10, <2>3, <2>4, Zenon DEF Just
  <2>. QED
    BY <2>2, <2>5, <2>6 DEF Aims, z
<1>15. Absent'
  BY <1>1 DEF Inv, Absent, Graph
<1>16. Freed'
  <2>1. ASSUME NEW r \in created \ pool PROVE FreedIn(queue', rendering, r)
    <3>1. For(queue', r) = For(queue, r)
      BY <1>3, <1>4, <1>6, <1>1 DEF For, SetCommand, z
    <3>2. \A i \in For(queue, r) : queue'[i] = queue[i]
      BY <1>1 DEF For
    <3>3. FreedIn(queue, rendering, r)
      BY DEF Inv, Freed
    <3>. QED
      BY <3>1, <3>2, <3>3, Zenon DEF FreedIn
  <2>. QED
    BY <2>1 DEF Freed
<1>. QED
  BY <1>7, <1>8, <1>9, <1>11, <1>14, <1>15, <1>16 DEF Inv

(* The Commit call of an object keeps Inv.                                  *)
LEMMA CommitKeeps ==
    ASSUME Inv, NEW o \in Object, Commit(o)
    PROVE  Inv'
<1>. DEFINE n == CommitObject(Before, o)
<1>1. /\ o \in pool /\ pending' = n.pending /\ queue' = n.queue
      /\ newest' = Picture(o) /\ commits' = commits + 1
      /\ created' = created /\ pool' = pool /\ scheduled' = scheduled
      /\ rendering' = rendering /\ inGroup' = inGroup /\ content' = content
      /\ shown' = shown
  BY DEF Commit, poolVars, renderVars, Before
<1>. HIDE DEF n
<1>2. CommitOf(n, newest')
  BY <1>1, CommitDone, InvFacts DEF Inv, n
<1>. QED
  BY <1>1, <1>2, CommittedKeeps

(* What a move of o asks: the last picture, with o at another place         *)
LEMMA MovedIs ==
    ASSUME Inv, NEW o \in Object, o \in pool, NEW d \in Position
    PROVE  /\ PictureOK(Moved(o, d), created)
           /\ \A r \in Resource \ Object : Moved(o, d)[r] = newest[r]
           /\ \A r \in Resource : r # o => Same(newest, Moved(o, d), pool, r)
           /\ Moved(o, d)[o] = [newest[o] EXCEPT !.position = d]
           /\ Coherent(pending, Moved(o, d), content)
<1>. DEFINE T == Moved(o, d)
<1>1. PictureOK(newest, created) /\ o \in created /\ o \in Resource
  BY Known DEF Inv, Types, Graph
<1>2. /\ T = [r \in Resource |-> T[r]]
      /\ T[o] = [newest[o] EXCEPT !.position = d]
      /\ \A r \in Resource : r # o => T[r] = newest[r]
  BY <1>1 DEF Moved, PictureOK
<1>. HIDE DEF T
<1>3. \A r \in Resource \ Object : T[r] = newest[r]
  BY <1>2
<1>4. \A t \in Technique : newest[t].applied \in Ref(Program)
  <2>1. \A t \in Technique : PictureIs(t, newest[t], created)
    BY <1>1, Known DEF PictureOK
  <2>2. \A t \in Technique : newest[t].applied \in Ref(Program \cap created)
    BY <2>1 DEF PictureIs
  <2>. QED
    BY <2>2 DEF Ref
<1>5. \A p \in Program : T[p] = newest[p]
  BY <1>3, Known, Apart
<1>6. PictureOK(T, created)
  <2>1. \A r \in Resource : PictureIs(r, newest[r], created)
    BY <1>1 DEF PictureOK
  <2>2. PictureIs(o, T[o], created)
    <3>1. newest[o] \in [committed : BOOLEAN, units : SUBSET Unit,
                         position : Ref(Position)]
      BY <1>1, <2>1 DEF PictureIs
    <3>2. T[o] \in [committed : BOOLEAN, units : SUBSET Unit,
                    position : Ref(Position)]
      BY <1>2, <3>1 DEF Ref
    <3>. QED
      BY <3>2, Apart DEF PictureIs
  <2>3. \A r \in Resource : PictureIs(r, T[r], created)
    BY <1>2, <2>1, <2>2
  <2>4. \A t \in Technique : T[t] = newest[t]
    BY <1>3, Known, Apart
  <2>5. \A t \in Technique : T[t].applied # None => T[T[t].applied].linked # {}
    BY <1>1, <1>4, <1>5, <2>4 DEF PictureOK, Ref
  <2>6. \A r \in Resource \ created : T[r] = NoPicture(r)
    BY <1>1, <1>2 DEF PictureOK
  <2>. QED
    BY <1>2, <2>3, <2>5, <2>6, Zenon DEF PictureOK
<1>7. ASSUME NEW r \in Resource, r # o PROVE Same(newest, T, pool, r)
  <2>1. r \in Technique /\ newest[r].applied \in pool =>
           T[newest[r].applied].linked = newest[newest[r].applied].linked
    <3>1. None \notin pool
      BY InvFacts
    <3>. QED
      BY <1>4, <1>5, <3>1 DEF Ref
  <2>2. T[r] = newest[r]
    BY <1>2, <1>7
  <2>. QED
    BY <2>1, <2>2 DEF Same
<1>8. Coherent(pending, T, content)
  <2>1. \A r \in Resource : CoherentAt(r, pending[r], newest, content[r])
    BY CoherentIs DEF Inv, Coherence
  <2>2. ASSUME NEW r \in Resource PROVE CoherentAt(r, pending[r], T, content[r])
    <3>1. CASE r \in Object
      BY <3>1, Apart DEF CoherentAt
    <3>2. CASE r \notin Object
      <4>1. T[r] = newest[r] /\ CoherentAt(r, pending[r], newest, content[r])
        BY <1>3, <2>1, <3>2
      <4>. QED
        BY <4>1 DEF CoherentAt
    <3>. QED
      BY <3>1, <3>2
  <2>. QED
    BY <2>2, CoherentIs
<1>. QED
  BY <1>2, <1>3, <1>6, <1>7, <1>8 DEF T

(* The command of a move sets the position and nothing else.                *)
LEMMA MoveShown ==
    ASSUME Inv, NEW o \in Object, o \in pool, NEW d \in Position,
           NEW set, set = [position |-> d]
    PROVE  Now(Append(queue, Command(o, set)), Moved(o, d), o)
<1>. DEFINE T == Moved(o, d)
            c == Command(o, set)
            n == Append(queue, c)
            fields == {"committed", "units", "position"}
<1>1. /\ o \in Resource
      /\ o \notin Unit /\ o \notin Technique /\ o \notin VertexArray
      /\ o \notin Program /\ o \notin Texture /\ o \notin Sampler
      /\ o \notin Buffer /\ o \notin Shader
  BY Apart, Known
<1>2. newest[o] \in [committed : BOOLEAN, units : SUBSET Unit,
                     position : Ref(Position)]
  BY <1>1 DEF Inv, Types, PictureOK, PictureIs
<1>3. /\ T[o].committed = newest[o].committed /\ T[o].units = newest[o].units
      /\ T[o].position = d
  BY <1>2, MovedIs, ZenonT(60)
<1>4. /\ Sets(c, o, "position") /\ c.set["position"] = d
      /\ ~Sets(c, o, "committed") /\ ~Sets(c, o, "units")
  BY <1>1 DEF Sets, Command
<1>5. Shows(queue, Len(queue) + 1, rendering, newest, o, fields)
  <2>1. Match(queue, Len(queue) + 1, rendering, pool, newest, o)
    BY InvFacts DEF Latest
  <2>. QED
    BY <2>1, Zenon DEF Match
<1>6. /\ LastIs(queue, Len(queue) + 1, o, "committed", rendering[o].committed,
                T[o].committed)
      /\ LastIs(queue, Len(queue) + 1, o, "units", rendering[o].units,
                T[o].units)
      /\ IsSequence(queue)
  BY <1>3, <1>5 DEF Shows, Inv, Types
<1>. HIDE DEF c, T
<1>7. LastIs(n, Len(n) + 1, o, "committed", rendering[o].committed,
             T[o].committed)
  BY <1>4, <1>6, FieldAppended
<1>8. LastIs(n, Len(n) + 1, o, "units", rendering[o].units, T[o].units)
  BY <1>4, <1>6, FieldAppended
<1>9. LastIs(n, Len(n) + 1, o, "position", rendering[o].position,
             T[o].position)
  BY <1>3, <1>4, <1>6, FieldAppended
<1>. HIDE DEF n
<1>10. Shows(n, Len(n) + 1, rendering, T, o, fields)
  BY <1>7, <1>8, <1>9 DEF Shows
<1>11. Match(n, Len(n) + 1, rendering, pool, T, o)
  BY <1>1, <1>10 DEF Match
<1>. QED
  BY <1>11 DEF Now, n, c, T

(* VirtualObject::Move orders a group as CommitOf describes it.             *)
LEMMA MoveDone ==
    ASSUME Inv, NEW o \in Object, o \in pool, NEW d \in Position
    PROVE  /\ CommitOf(MoveObject(Before, o, d), Moved(o, d))
           /\ MoveObject(Before, o, d).pending = pending
<1>. DEFINE T == Moved(o, d)
            set == [position |-> d]
            k == Push(Before, o, set)
            end == [op |-> "commit", picture |-> T]
            n == MoveObject(Before, o, d)
<1>1. /\ Before.pending = pending /\ Before.queue = queue
      /\ Before = [pending |-> pending, queue |-> queue]
      /\ pool \subseteq Resource
  BY InvFacts DEF Before
<1>2. StateOK(Before)
  BY <1>1 DEF StateOK, Inv, Types
<1>3. SetOK(o, set, created)
  BY Apart DEF SetOK
<1>. HIDE DEF T
<1>4. n = EndGroup(k, T)
  BY DEF MoveObject, T
<1>5. Now(Append(queue, Command(o, set)), T, o)
  BY MoveShown DEF T
<1>. HIDE DEF set
<1>6. /\ Grown(Before, k, Just(o)) /\ StateOK(k) /\ k.pending = pending
      /\ k.queue = Append(queue, Command(o, set))
  BY <1>1, <1>2, <1>3, PushGrown
<1>7. /\ PictureOK(T, created) /\ Coherent(pending, T, content)
      /\ \A r \in Resource : r # o => Same(newest, T, pool, r)
  BY MovedIs DEF T
<1>. HIDE DEF k, n
<1>8. ASSUME NEW x \in pool PROVE Now(k.queue, T, x)
  <2>1. CASE x = o
    BY <1>5, <1>6, <2>1
  <2>2. CASE x # o
    <3>1. Now(Before.queue, newest, x)
      BY <1>1, InvFacts DEF Latest, Now
    <3>2. x \in pool \ Just(o)
      BY <2>2 DEF Just
    <3>3. Now(k.queue, newest, x)
      BY <1>1, <1>2, <1>6, <3>1, <3>2, OthersKept
    <3>4. Same(newest, T, pool, x) /\ IsSequence(k.queue)
      BY <1>1, <1>6, <1>7, <2>2 DEF StateOK
    <3>. QED
      BY <3>3, <3>4, NowSame
  <2>. QED
    BY <2>1, <2>2
<1>9. n.pending = pending /\ n.queue = Append(k.queue, end)
  <2>1. k = [pending |-> k.pending, queue |-> k.queue]
    BY <1>6 DEF StateOK
  <2>2. n = [k EXCEPT !.queue = Append(k.queue, end)]
    BY <1>4 DEF EndGroup
  <2>. HIDE DEF end
  <2>. QED
    BY <1>6, <2>1, <2>2
<1>. HIDE DEF end
<1>10. /\ IsSequence(k.queue) /\ IsSequence(n.queue) /\ IsSequence(queue)
       /\ Len(k.queue) \in Nat /\ Len(n.queue) = Len(k.queue) + 1
       /\ \A i \in 1..Len(k.queue) : n.queue[i] = k.queue[i]
       /\ n.queue[Len(n.queue)] = end
  BY <1>6, <1>9, AppendFacts, SequenceFacts DEF StateOK, Inv, Types
<1>11. ASSUME NEW r \in pool
       PROVE  Match(n.queue, Len(n.queue), rendering, pool, T, r)
  <2>. DEFINE e == Len(k.queue) + 1
  <2>1. e = Len(n.queue)
    BY <1>10
  <2>2. Match(k.queue, e, rendering, pool, T, r)
    BY <1>8 DEF Now
  <2>3. Extends(k.queue, e, n.queue, e) /\ e..(e - 1) = {}
    BY <1>10 DEF Extends
  <2>4. Same(T, T, pool, r)
    BY DEF Same
  <2>. HIDE DEF e
  <2>5. Match(n.queue, e, rendering, pool, T, r)
    BY <2>2, <2>3, <2>4, MatchKept
  <2>. QED
    BY <2>1, <2>5
<1>12. /\ Len(queue) \in Nat /\ Len(k.queue) = Len(queue) + 1
       /\ \A i \in 1..Len(queue) : k.queue[i] = queue[i]
       /\ SetCommand(k.queue[Len(queue) + 1])
  <2>1. Len(queue) \in Nat /\ Len(k.queue) = Len(queue) + 1
    BY <1>6, <1>10, AppendFacts, SequenceFacts
  <2>2. Len(queue) + 1 \in (Len(queue) + 1)..Len(k.queue)
    BY <2>1
  <2>. QED
    BY <1>1, <1>6, <2>1, <2>2 DEF Grown
<1>13. /\ Len(queue) < Len(n.queue)
       /\ \A i \in 1..Len(queue) : n.queue[i] = queue[i]
       /\ \A i \in (Len(queue) + 1)..(Len(n.queue) - 1) : SetCommand(n.queue[i])
  <2>1. /\ Len(queue) < Len(n.queue)
        /\ \A i \in 1..Len(queue) : i \in 1..Len(k.queue)
        /\ \A i \in (Len(queue) + 1)..(Len(n.queue) - 1) : i = Len(queue) + 1
        /\ Len(queue) + 1 \in 1..Len(k.queue)
    BY <1>10, <1>12
  <2>. QED
    BY <1>10, <1>12, <2>1
<1>14. PendingOK(n.pending, created)
  BY <1>9 DEF Inv, Types
<1>15. CommitOf(n, T)
  BY <1>7, <1>9, <1>10, <1>11, <1>13, <1>14, Zenon DEF CommitOf, end
<1>. QED
  BY <1>9, <1>15 DEF T, n

(* The Move call of an object keeps Inv.                                    *)
LEMMA MoveKeeps ==
    ASSUME Inv, NEW o \in Object, NEW d \in Position, Move(o, d)
    PROVE  Inv'
<1>. DEFINE n == MoveObject(Before, o, d)
<1>1. /\ o \in pool /\ pending' = pending /\ queue' = n.queue
      /\ newest' = Moved(o, d) /\ commits' = commits + 1
      /\ created' = created /\ pool' = pool /\ scheduled' = scheduled
      /\ rendering' = rendering /\ inGroup' = inGroup /\ content' = content
      /\ shown' = shown
  BY DEF Move, poolVars, renderVars, Before
<1>. HIDE DEF n
<1>2. CommitOf(n, newest') /\ n.pending = pending
  BY <1>1, MoveDone DEF n
<1>. QED
  BY <1>1, <1>2, CommittedKeeps

-----------------------------------------------------------------------------
(* The rendering thread takes the entry at the head of the queue.           *)

Popped(q, n) == /\ IsSequence(n) /\ Len(q) \in Nat /\ Len(n) \in Nat
                /\ Len(q) = Len(n) + 1
                /\ \A i \in 1..Len(n) : n[i] = q[i + 1]

(* The arithmetic of places in a queue without its head.                    *)
LEMMA PoppedFacts ==
    ASSUME NEW q, NEW n, Popped(q, n)
    PROVE  /\ 1 \in 1..Len(q)
           /\ \A i \in 1..Len(n) : /\ i + 1 \in 1..Len(q) /\ i + 1 # 1
                                   /\ n[i] = q[i + 1]
           /\ \A i \in 1..Len(q) : i # 1 =>
                 /\ i - 1 \in 1..Len(n) /\ (i - 1) + 1 = i /\ n[i - 1] = q[i]
           /\ \A i \in 1..(Len(n) + 1) : /\ Shifted(q, i + 1, n, i)
                                         /\ i + 1 \in 1..(Len(q) + 1)
<1>1. /\ 1 \in 1..Len(q)
      /\ \A i \in 1..Len(n) : i + 1 \in 1..Len(q) /\ i + 1 # 1
      /\ \A i \in 1..Len(q) : i # 1 => i - 1 \in 1..Len(n) /\ (i - 1) + 1 = i
      /\ \A i \in 1..(Len(n) + 1) : /\ i \in Nat /\ 1 <= i
                                    /\ i + 1 \in 1..(Len(q) + 1)
                                    /\ \A k \in 1..(i - 1) : k \in 1..Len(n)
  BY DEF Popped
<1>2. \A i \in 1..Len(n) : n[i] = q[i + 1]
  BY DEF Popped
<1>3. ASSUME NEW i \in 1..Len(q), i # 1 PROVE n[i - 1] = q[i]
  <2>1. i - 1 \in 1..Len(n) /\ (i - 1) + 1 = i
    BY <1>1, <1>3
  <2>2. n[i - 1] = q[(i - 1) + 1]
    BY <1>2, <2>1
  <2>. QED
    BY <2>1, <2>2
<1>4. ASSUME NEW i \in 1..(Len(n) + 1) PROVE Shifted(q, i + 1, n, i)
  BY <1>1, <1>2 DEF Shifted
<1>. QED
  BY <1>1, <1>2, <1>3, <1>4

(* A group begins only when its commit is in the queue.                     *)
LEMMA HeadThere ==
    ASSUME Inv, commits > 0, queue' = Tail(queue)
    PROVE  /\ Popped(queue, queue') /\ Head(queue) = queue[1]
           /\ EntryOK(queue[1], created, pool)
<1>1. IsSequence(queue) /\ Len(queue) \in Nat
  BY InvFacts DEF Inv, Types
<1>2. Len(queue) > 0
  <2>1. Ends(queue) # {}
    <3>1. commits = Cardinality(Ends(queue))
      BY DEF Inv, Counted
    <3>. QED
      BY <3>1, FS_EmptySet
  <2>. QED
    BY <1>1, <2>1 DEF Ends
<1>3. /\ IsSequence(queue') /\ Len(queue') = Len(queue) - 1
      /\ \A i \in 1..Len(queue) - 1 : queue'[i] = queue[i + 1]
      /\ Head(queue) = queue[1]
  BY <1>1, <1>2, TailFacts
<1>4. Popped(queue, queue')
  BY <1>1, <1>2, <1>3 DEF Popped
<1>5. EntryOK(queue[1], created, pool)
  BY <1>4, PoppedFacts DEF Inv, Types
<1>. QED
  BY <1>3, <1>4, <1>5

(* The commits that remain                                                  *)
LEMMA EndsLeft ==
    ASSUME NEW q, NEW n, Popped(q, n)
    PROVE  /\ \A e \in Ends(n) : e + 1 \in Ends(q) /\ n[e] = q[e + 1]
           /\ IsFiniteSet(Ends(q))
           /\ Cardinality(Ends(n)) = Cardinality(Ends(q) \ {1})
<1>. DEFINE S == Ends(q) \ {1}
            f == [i \in S |-> i - 1]
<1>1. \A e \in Ends(n) : e + 1 \in Ends(q) /\ n[e] = q[e + 1] /\ e + 1 # 1
  BY PoppedFacts DEF Ends
<1>2. IsFiniteSet(Ends(q))
  <2>1. IsFiniteSet(1..Len(q))
    BY FS_Interval DEF Popped
  <2>. QED
    BY <2>1, FS_Subset DEF Ends
<1>3. \A i \in S : i - 1 \in Ends(n) /\ i \in Int
  <2>1. \A i \in S : i \in 1..Len(q) /\ i # 1 /\ q[i].op = "commit"
    BY DEF Ends
  <2>. QED
    BY <2>1, PoppedFacts DEF Ends
<1>4. \A e \in Ends(n) : e + 1 \in S /\ (e + 1) - 1 = e
  <2>1. \A e \in Ends(n) : e \in Int
    BY DEF Ends
  <2>2. \A e \in Ends(n) : (e + 1) - 1 = e
    BY <2>1
  <2>. QED
    BY <1>1, <2>2
<1>5. IsFiniteSet(S)
  BY <1>2, FS_Subset
<1>6. f \in [S -> Ends(n)]
  BY <1>3
<1>7. \A a, b \in S : f[a] = f[b] => a = b
  BY <1>3
<1>8. \A e \in Ends(n) : \E i \in S : f[i] = e
  BY <1>4
<1>9. f \in Bijection(S, Ends(n))
  <2>. HIDE DEF f, S
  <2>. QED
    BY <1>6, <1>7, <1>8, Fun_IsBij
<1>10. ExistsBijection(S, Ends(n))
  BY <1>9, Zenon DEF ExistsBijection
<1>11. Cardinality(Ends(n)) = Cardinality(S)
  BY <1>5, <1>10, FS_Bijection
<1>. QED
  BY <1>1, <1>2, <1>11

(* What was to be shown is still to be shown.                               *)
LEMMA ShownLeft ==
    ASSUME Inv, NEW n, Popped(queue, n), NEW S,
           \A x \in pool : Takes(queue[1], rendering, S, pool, x),
           NEW e \in 1..(Len(n) + 1), NEW P, PictureOK(P, created),
           Shown(queue, e + 1, rendering, pool, P)
    PROVE  Shown(n, e, S, pool, P)
<1>1. Shifted(queue, e + 1, n, e) /\ None \notin pool /\ pool \subseteq Resource
  BY PoppedFacts, InvFacts
<1>2. ASSUME NEW r \in pool PROVE Match(n, e, S, pool, P, r)
  <2>1. Match(queue, e + 1, rendering, pool, P, r) /\ r \in Resource
    BY <1>1 DEF Shown
  <2>. QED
    BY <1>1, <2>1, MatchShift
<1>. QED
  BY <1>2 DEF Shown

(* The deletion of a resource is the last entry for it, and remains.        *)
LEMMA FreedLeft ==
    ASSUME NEW q, NEW n, Popped(q, n), NEW R, NEW S, NEW r, FreedIn(q, R, r),
           IF 1 \in For(q, r) /\ q[1].op = "delete"
             THEN S[r] = InitialRendering(r)
             ELSE 1 \notin For(q, r) => S[r] = R[r]
    PROVE  FreedIn(n, S, r)
<1>1. \A i \in For(q, r) : i # 1 => i - 1 \in For(n, r) /\ n[i - 1] = q[i]
  BY PoppedFacts DEF For
<1>2. \A i \in For(n, r) : i + 1 \in For(q, r) /\ i + 1 # 1 /\ i \in Int
  <2>1. \A i \in For(n, r) : i \in 1..Len(n) /\ n[i].op # "commit"
                             /\ n[i].to = r
    BY DEF For
  <2>. QED
    BY <2>1, PoppedFacts DEF For
<1>3. CASE For(q, r) = {}
  <2>1. For(n, r) = {} /\ S[r] = R[r] /\ R[r] = InitialRendering(r)
    BY <1>2, <1>3 DEF FreedIn
  <2>. QED
    BY <2>1 DEF FreedIn
<1>4. CASE For(q, r) # {}
  <2>1. PICK i \in For(q, r) : /\ \A j \in For(q, r) : j <= i
                               /\ q[i].op = "delete"
    BY <1>4, Zenon DEF FreedIn
  <2>2. CASE i = 1
    <3>1. For(n, r) = {}
      <4>1. ASSUME NEW j \in For(n, r) PROVE FALSE
        <5>1. j + 1 <= 1 /\ j \in 1..Len(n)
          BY <1>2, <2>1, <2>2 DEF For
        <5>. QED
          BY <5>1 DEF Popped
      <4>. QED
        BY <4>1
    <3>2. S[r] = InitialRendering(r)
      BY <2>1, <2>2
    <3>. QED
      BY <3>1, <3>2 DEF FreedIn
  <2>3. CASE i # 1
    <3>1. i - 1 \in For(n, r) /\ n[i - 1].op = "delete"
      BY <1>1, <2>1, <2>3
    <3>2. ASSUME NEW j \in For(n, r) PROVE j <= i - 1
      <4>1. j + 1 <= i /\ j \in Int
        BY <1>2, <2>1
      <4>2. i \in Int
        BY DEF For
      <4>. QED
        BY <4>1, <4>2
    <3>. QED
      BY <3>1, <3>2, Zenon DEF FreedIn
  <2>. QED
    BY <2>2, <2>3
<1>. QED
  BY <1>3, <1>4

(* Both actions of the rendering thread                                     *)
LEMMA HeadTaken ==
    ASSUME Inv, commits > 0, queue' = Tail(queue), RenderingOK(rendering'),
           \A x \in pool : Takes(queue[1], rendering, rendering', pool, x),
           created' = created, pool' = pool, scheduled' = scheduled,
           pending' = pending, content' = content, newest' = newest,
           PictureOK(shown', created)
    PROVE  /\ Graph' /\ Types' /\ Coherence'
           /\ \A e \in Ends(queue') :
                 Shown(queue', e, rendering', pool', queue'[e].picture)
           /\ Shown(queue', Len(queue') + 1, rendering', pool', newest')
           /\ Cardinality(Ends(queue')) =
                 IF queue[1].op = "commit" THEN commits - 1 ELSE commits
           /\ commits \in Nat
<1>1. Popped(queue, queue')
  BY HeadThere
<1>2. Graph' /\ Coherence'
  BY DEF Inv, Graph, Coherence
<1>3. Types'
  <2>1. ASSUME NEW i \in 1..Len(queue')
        PROVE  EntryOK(queue'[i], created, pool)
    <3>1. i + 1 \in 1..Len(queue) /\ queue'[i] = queue[i + 1]
      BY <1>1, PoppedFacts
    <3>. QED
      BY <3>1 DEF Inv, Types
  <2>2. IsSequence(queue')
    BY <1>1 DEF Popped
  <2>. QED
    BY <2>1, <2>2 DEF Inv, Types
<1>4. ASSUME NEW e \in Ends(queue')
      PROVE  Shown(queue', e, rendering', pool', queue'[e].picture)
  <2>1. e + 1 \in Ends(queue) /\ queue'[e] = queue[e + 1]
    BY <1>1, EndsLeft
  <2>2. PictureOK(queue'[e].picture, created)
    BY <2>1, InvFacts
  <2>3. Shown(queue, e + 1, rendering, pool, queue'[e].picture)
    BY <2>1 DEF Inv, Aims
  <2>4. e \in 1..(Len(queue') + 1)
    BY <1>1 DEF Ends, Popped
  <2>. QED
    BY <1>1, <2>2, <2>3, <2>4, ShownLeft
<1>5. Shown(queue', Len(queue') + 1, rendering', pool', newest')
  <2>1. /\ Len(queue') + 1 \in 1..(Len(queue') + 1)
        /\ (Len(queue') + 1) + 1 = Len(queue) + 1
    BY <1>1 DEF Popped
  <2>2. Shown(queue, Len(queue) + 1, rendering, pool, newest)
    BY Zenon DEF Inv, Aims
  <2>3. PictureOK(newest, created)
    BY DEF Inv, Types
  <2>. QED
    BY <1>1, <2>1, <2>2, <2>3, ShownLeft
<1>6. /\ commits = Cardinality(Ends(queue)) /\ IsFiniteSet(Ends(queue))
      /\ Cardinality(Ends(queue')) = Cardinality(Ends(queue) \ {1})
      /\ 1 \in 1..Len(queue)
  BY <1>1, EndsLeft, PoppedFacts DEF Inv, Counted
<1>7. 1 \in Ends(queue) <=> queue[1].op = "commit"
  BY <1>6 DEF Ends
<1>8. Cardinality(Ends(queue) \ {1}) =
         IF 1 \in Ends(queue) THEN Cardinality(Ends(queue)) - 1
                              ELSE Cardinality(Ends(queue))
  BY <1>6, FS_RemoveElement
<1>9. commits \in Nat
  BY <1>6, FS_CardinalityType
<1>. QED
  BY <1>2, <1>3, <1>4, <1>5, <1>6, <1>7, <1>8, <1>9

(* What nothing was set of has the types of states.                         *)
LEMMA InitialTyped ==
    ASSUME NEW r \in Resource
    PROVE  /\ RenderingIs(r, InitialRendering(r))
           /\ \A known : PendingIs(r, InitialPending(r), known)
           /\ \A known : PictureIs(r, NoPicture(r), known)
<1>0. None \in Data /\ \A K : None \in Ref(K)
  BY DEF Data, Ref
<1>1. RenderingIs(r, InitialRendering(r))
  <2>1. CASE r \in Object
    <3>1. InitialRendering(r) =
            [committed |-> FALSE, units |-> {}, position |-> None]
      BY <2>1, InitialRenderingIs, Zenon
    <3>2. InitialRendering(r) \in [committed : BOOLEAN, units : SUBSET Unit,
                                  position : Ref(Position)]
      BY <1>0, <3>1
    <3>. QED
      BY <2>1, <3>2, Apart DEF RenderingIs
  <2>2. CASE r \in Unit
    <3>1. InitialRendering(r) = [technique |-> None]
      BY <2>2, InitialRenderingIs, Zenon
    <3>2. InitialRendering(r) \in [technique : Ref(Technique)]
      BY <1>0, <3>1
    <3>. QED
      BY <2>2, <3>2, Apart DEF RenderingIs
  <2>3. CASE r \in Technique
    <3>1. InitialRendering(r) =
            [program |-> None, vertexArray |-> None, texture |-> None,
             sampler |-> None, method |-> "none", elements |-> None,
             uniform |-> None]
      BY <2>3, InitialRenderingIs, Zenon
    <3>2. InitialRendering(r) \in
            [program : Ref(Program), vertexArray : Ref(VertexArray),
             texture : Ref(Texture), sampler : Ref(Sampler),
             method : Method, elements : Ref(Buffer), uniform : Data]
      BY <1>0, <3>1 DEF Method
    <3>. QED
      BY <2>3, <3>2, Apart DEF RenderingIs
  <2>4. CASE r \in VertexArray
    <3>. DEFINE K == [enabled : BOOLEAN, buffer : Ref(Buffer)]
                A == [i \in Index |-> [enabled |-> FALSE, buffer |-> None]]
    <3>1. InitialRendering(r) = [exists |-> FALSE, attribute |-> A]
      BY <2>4, InitialRenderingIs, Zenon
    <3>2. A \in [Index -> K]
      BY <1>0
    <3>. HIDE DEF K, A
    <3>3. InitialRendering(r)
             \in [exists : BOOLEAN, attribute : [Index -> K]]
      BY <3>1, <3>2, ArrayTyped
    <3>. QED
      BY <2>4, <3>3, Apart DEF RenderingIs, K
  <2>5. CASE r \in Buffer
    <3>1. InitialRendering(r) = [data |-> None]
      BY <2>5, InitialRenderingIs, Zenon
    <3>2. InitialRendering(r) \in [data : Data]
      BY <1>0, <3>1
    <3>. QED
      BY <2>5, <3>2, Apart DEF RenderingIs
  <2>6. CASE r \in Program
    <3>1. InitialRendering(r) = [linked |-> {}]
      BY <2>6, InitialRenderingIs, Zenon
    <3>2. InitialRendering(r) \in [linked : SUBSET Ref(Shader)]
      BY <3>1
    <3>. QED
      BY <2>6, <3>2, Apart DEF RenderingIs
  <2>7. CASE r \in Shader
    <3>1. InitialRendering(r) = [compiled |-> FALSE]
      BY <2>7, InitialRenderingIs, Zenon
    <3>2. InitialRendering(r) \in [compiled : BOOLEAN]
      BY <3>1
    <3>. QED
      BY <2>7, <3>2, Apart DEF RenderingIs
  <2>8. CASE r \in Texture
    <3>1. InitialRendering(r) = [data |-> None, mipmap |-> None]
      BY <2>8, InitialRenderingIs, Zenon
    <3>2. InitialRendering(r) \in [data : Data, mipmap : Data]
      BY <1>0, <3>1
    <3>. QED
      BY <2>8, <3>2, Apart DEF RenderingIs
  <2>9. CASE r \in Sampler
    <3>1. InitialRendering(r) = [exists |-> FALSE, parameter |-> None]
      BY <2>9, InitialRenderingIs, Zenon
    <3>2. InitialRendering(r) \in [exists : BOOLEAN, parameter : Data]
      BY <1>0, <3>1
    <3>. QED
      BY <2>9, <3>2, Apart DEF RenderingIs
  <2>. QED
    BY <2>1, <2>2, <2>3, <2>4, <2>5, <2>6, <2>7, <2>8, <2>9, Known, Zenon
<1>2. ASSUME NEW known PROVE PendingIs(r, InitialPending(r), known)
  <2>1. CASE r \in Object
    <3>1. InitialPending(r) = [units |-> {}]
      BY <2>1, InitialPendingIs, Zenon
    <3>2. InitialPending(r) \in [units : SUBSET (Unit \cap known)]
      BY <3>1
    <3>. QED
      BY <2>1, <3>2, Apart DEF PendingIs
  <2>2. CASE r \in Unit
    <3>1. InitialPending(r) = [technique |-> None]
      BY <2>2, InitialPendingIs, Zenon
    <3>2. InitialPending(r) \in [technique : Ref(Technique \cap known)]
      BY <1>0, <3>1
    <3>. QED
      BY <2>2, <3>2, Apart DEF PendingIs
  <2>3. CASE r \in Technique
    <3>1. InitialPending(r) =
           [program |-> None, programDamaged |-> FALSE,
            vertexArray |-> None, vertexArrayDamaged |-> FALSE,
            texture |-> None, sampler |-> None, textureDamaged |-> FALSE,
            method |-> "none", elements |-> None, methodDamaged |-> FALSE,
            uniform |-> None]
      BY <2>3, InitialPendingIs, Zenon
    <3>2. InitialPending(r) \in
            [program : Ref(Program \cap known), programDamaged : BOOLEAN,
             vertexArray : Ref(VertexArray \cap known),
             vertexArrayDamaged : BOOLEAN,
             texture : Ref(Texture \cap known),
             sampler : Ref(Sampler \cap known), textureDamaged : BOOLEAN,
             method : Method, elements : Ref(Buffer \cap known),
             methodDamaged : BOOLEAN, uniform : Data]
      BY <1>0, <3>1 DEF Method
    <3>. QED
      BY <2>3, <3>2, Apart DEF PendingIs
  <2>4. CASE r \in VertexArray
    <3>. DEFINE K == [enabled : BOOLEAN, buffer : Ref(Buffer \cap known),
                      damaged : BOOLEAN]
                A == [i \in Index |-> [enabled |-> FALSE, buffer |-> None,
                                       damaged |-> FALSE]]
    <3>1. InitialPending(r) = [attribute |-> A, damaged |-> FALSE]
      BY <2>4, InitialPendingIs, Zenon
    <3>2. A \in [Index -> K]
      BY <1>0
    <3>. HIDE DEF K, A
    <3>3. InitialPending(r) \in [attribute : [Index -> K], damaged : BOOLEAN]
      BY <3>1, <3>2
    <3>. QED
      BY <2>4, <3>3, Apart DEF PendingIs, K
  <2>5. CASE r \in Buffer
    <3>1. InitialPending(r) = [data |-> None, damaged |-> FALSE]
      BY <2>5, InitialPendingIs, Zenon
    <3>2. /\ InitialPending(r) \in [data : Data, damaged : BOOLEAN]
          /\ ~InitialPending(r).damaged
      BY <1>0, <3>1
    <3>. QED
      BY <2>5, <3>2, Apart DEF PendingIs
  <2>6. CASE r \in Program
    <3>1. InitialPending(r) = [shaders |-> {}, shouldLink |-> FALSE]
      BY <2>6, InitialPendingIs, Zenon
    <3>2. InitialPending(r) \in [shaders : SUBSET Ref(Shader \cap known),
                                 shouldLink : BOOLEAN]
      BY <3>1
    <3>. QED
      BY <2>6, <3>2, Apart DEF PendingIs
  <2>7. CASE r \in Shader
    <3>1. InitialPending(r) = [committed |-> FALSE]
      BY <2>7, InitialPendingIs, Zenon
    <3>2. InitialPending(r) \in [committed : BOOLEAN]
      BY <3>1
    <3>. QED
      BY <2>7, <3>2, Apart DEF PendingIs
  <2>8. CASE r \in Texture
    <3>1. InitialPending(r) = [data |-> None, mipmap |-> FALSE]
      BY <2>8, InitialPendingIs, Zenon
    <3>2. InitialPending(r) \in [data : Data, mipmap : BOOLEAN]
      BY <1>0, <3>1
    <3>. QED
      BY <2>8, <3>2, Apart DEF PendingIs
  <2>9. CASE r \in Sampler
    <3>1. InitialPending(r) = [parameter |-> None]
      BY <2>9, InitialPendingIs, Zenon
    <3>2. InitialPending(r) \in [parameter : Data]
      BY <1>0, <3>1
    <3>. QED
      BY <2>9, <3>2, Apart DEF PendingIs
  <2>. QED
    BY <2>1, <2>2, <2>3, <2>4, <2>5, <2>6, <2>7, <2>8, <2>9, Known, Zenon
<1>3. ASSUME NEW known PROVE PictureIs(r, NoPicture(r), known)
  <2>1. CASE r \in Technique
    <3>1. NoPicture(r) =
            [program |-> None, vertexArray |-> None, texture |-> None,
             sampler |-> None, method |-> "none", elements |-> None,
             uniform |-> None, applied |-> None]
      BY <2>1, NoPictureIs, Zenon
    <3>2. NoPicture(r) \in
            [program : Ref(Program), vertexArray : Ref(VertexArray),
             texture : Ref(Texture \cap known),
             sampler : Ref(Sampler \cap known),
             method : Method, elements : Ref(Buffer),
             uniform : Data, applied : Ref(Program \cap known)]
      BY <1>0, <3>1 DEF Method
    <3>. QED
      BY <2>1, <3>2, Apart DEF PictureIs
  <2>2. CASE r \in VertexArray
    <3>. DEFINE K == [enabled : BOOLEAN, buffer : Ref(Buffer \cap known),
                      bound : BOOLEAN]
                A == [i \in Index |-> [enabled |-> FALSE, buffer |-> None,
                                       bound |-> FALSE]]
    <3>1. NoPicture(r) = [attribute |-> A]
      BY <2>2, NoPictureIs, Zenon
    <3>2. A \in [Index -> K]
      BY <1>0
    <3>. HIDE DEF K, A
    <3>3. NoPicture(r) \in [attribute : [Index -> K]]
      BY <3>1, <3>2, ArrayTyped
    <3>. QED
      BY <2>2, <3>3, Apart DEF PictureIs, K
  <2>3. CASE r \in Buffer
    <3>1. NoPicture(r) = [data |-> None, reached |-> TRUE]
      BY <2>3, NoPictureIs, Zenon
    <3>2. NoPicture(r) \in [data : Data, reached : BOOLEAN]
      BY <1>0, <3>1
    <3>. QED
      BY <2>3, <3>2, Apart DEF PictureIs
  <2>4. CASE r \notin VertexArray \cup Buffer \cup Technique
    <3>1. NoPicture(r) = InitialRendering(r)
      BY <2>4, NoPictureIs
    <3>2. r \in Program =>
             InitialRendering(r) \in [linked : SUBSET Ref(Shader \cap known)]
      <4>1. r \in Program => InitialRendering(r) = [linked |-> {}]
        BY InitialRenderingIs, Zenon
      <4>. QED
        BY <4>1
    <3>. QED
      BY <1>1, <2>4, <3>1, <3>2 DEF PictureIs, RenderingIs
  <2>. QED
    BY <2>1, <2>2, <2>3, <2>4
<1>. QED
  BY <1>1, <1>2, <1>3

(* AtomicCommandQueue::ExecuteOnce of a command keeps Inv.                  *)
LEMMA ExecuteKeeps ==
    ASSUME Inv, ExecuteCommand
    PROVE  Inv'
<1>. DEFINE c == queue[1]
            new == IF c.op = "delete" THEN InitialRendering(c.to)
                                      ELSE Effect(c.to, c.set)
<1>1. /\ commits > 0 /\ queue' = Tail(queue)
      /\ created' = created /\ pool' = pool /\ scheduled' = scheduled
      /\ pending' = pending /\ commits' = commits /\ content' = content
      /\ shown' = shown /\ newest' = newest /\ inGroup' = TRUE
  BY DEF ExecuteCommand, poolVars, pictureVars
<1>2. /\ Popped(queue, queue') /\ Head(queue) = c
      /\ EntryOK(c, created, pool)
  BY <1>1, HeadThere
<1>3. /\ c.op # "commit"
      /\ rendering' = [rendering EXCEPT ![c.to] = new]
  BY <1>2, Zenon DEF ExecuteCommand
<1>. HIDE DEF c
<1>4. /\ \/ c.op = "delete" /\ c.to \in created \ pool
         \/ c.op = "set" /\ c.to \in created /\ SetOK(c.to, c.set, created)
      /\ c.to \in created /\ c.to \in Resource
  BY <1>2, <1>3 DEF EntryOK, Inv, Graph
<1>5. RenderingIs(c.to, new)
  <2>1. CASE c.op = "delete"
    <3>1. RenderingIs(c.to, InitialRendering(c.to))
      BY <1>4, InitialTyped
    <3>. QED
      BY <2>1, <3>1
  <2>2. CASE c.op = "set" /\ SetOK(c.to, c.set, created)
    <3>1. RenderingIs(c.to, Effect(c.to, c.set))
      BY <1>4, <2>2, EffectTyped DEF Inv
    <3>. QED
      BY <2>2, <3>1
  <2>. QED
    BY <1>4, <2>1, <2>2
<1>6. /\ c.op = "delete" => new = InitialRendering(c.to)
      /\ c.op = "set" => new = Effect(c.to, c.set)
  OBVIOUS
<1>. HIDE DEF new
<1>7. /\ rendering' = [r \in Resource |-> rendering'[r]]
      /\ rendering'[c.to] = new
      /\ \A r \in Resource : r # c.to => rendering'[r] = rendering[r]
  BY <1>3, <1>4 DEF Inv, Types, RenderingOK
<1>8. RenderingOK(rendering')
  <2>1. \A r \in Resource : RenderingIs(r, rendering[r])
    BY DEF Inv, Types, RenderingOK
  <2>2. \A r \in Resource : RenderingIs(r, rendering'[r])
    BY <1>5, <1>7, <2>1, Zenon
  <2>. QED
    BY <1>7, <2>2 DEF RenderingOK
<1>9. ASSUME NEW x \in pool PROVE Takes(c, rendering, rendering', pool, x)
  <2>1. x \in Resource
    BY InvFacts
  <2>2. CASE c.op = "set" /\ c.to = x
    <3>1. /\ SetOK(x, c.set, created) /\ rendering'[x] = Effect(x, c.set)
          /\ c.op = "set" /\ c.to = x
      BY <1>4, <1>6, <1>7, <2>2
    <3>2. Types /\ Graph
      BY DEF Inv
    <3>. QED
      BY <2>1, <3>1, <3>2, SetTakes
  <2>3. CASE ~(c.op = "set" /\ c.to = x)
    <3>1. rendering'[x] = rendering[x]
      BY <1>4, <1>7, <2>1, <2>3
    <3>. QED
      BY <2>3, <3>1, OtherTakes
  <2>. QED
    BY <2>2, <2>3
<1>10. PictureOK(shown', created)
  BY <1>1 DEF Inv, Types
<1>11. /\ Graph' /\ Types' /\ Coherence'
       /\ \A e \in Ends(queue') :
             Shown(queue', e, rendering', pool', queue'[e].picture)
       /\ Shown(queue', Len(queue') + 1, rendering', pool', newest')
       /\ Cardinality(Ends(queue')) =
             IF c.op = "commit" THEN commits - 1 ELSE commits
  BY <1>1, <1>8, <1>9, <1>10, HeadTaken DEF c
<1>12. Aims'
  BY <1>1, <1>11, Zenon DEF Aims
<1>13. Counted'
  BY <1>1, <1>3, <1>11 DEF Counted
<1>14. Absent'
  BY <1>1, <1>4, <1>7 DEF Inv, Absent
<1>15. Freed'
  <2>1. ASSUME NEW r \in created \ pool PROVE FreedIn(queue', rendering', r)
    <3>1. FreedIn(queue, rendering, r) /\ r \in Resource
      BY DEF Inv, Freed, Graph
    <3>2. 1 \in For(queue, r) <=> c.to = r
      <4>1. 1 \in 1..Len(queue)
        BY <1>2, PoppedFacts
      <4>. QED
        BY <1>3, <4>1 DEF For, c
    <3>3. IF 1 \in For(queue, r) /\ queue[1].op = "delete"
            THEN rendering'[r] = InitialRendering(r)
            ELSE 1 \notin For(queue, r) => rendering'[r] = rendering[r]
      BY <1>6, <1>7, <3>1, <3>2 DEF c
    <3>. QED
      BY <1>2, <3>1, <3>3, FreedLeft
  <2>. QED
    BY <1>1, <2>1 DEF Freed
<1>. QED
  BY <1>11, <1>12, <1>13, <1>14, <1>15 DEF Inv

(* AtomicCommandQueue::ExecuteOnce of a commit keeps Inv: its picture is    *)
(* now the one shown.                                                       *)
LEMMA FinishKeeps ==
    ASSUME Inv, FinishGroup
    PROVE  Inv'
<1>. DEFINE c == queue[1]
<1>1. /\ commits > 0 /\ queue' = Tail(queue)
      /\ created' = created /\ pool' = pool /\ scheduled' = scheduled
      /\ pending' = pending /\ commits' = commits - 1 /\ content' = content
      /\ rendering' = rendering /\ newest' = newest /\ inGroup' = FALSE
      /\ Head(queue).op = "commit" /\ shown' = Head(queue).picture
  BY DEF FinishGroup, poolVars
<1>2. /\ Popped(queue, queue') /\ Head(queue) = c
      /\ EntryOK(c, created, pool)
  BY <1>1, HeadThere
<1>3. c.op = "commit" /\ shown' = c.picture
  BY <1>1, <1>2
<1>. HIDE DEF c
<1>4. PictureOK(shown', created)
  BY <1>2, <1>3 DEF EntryOK
<1>5. ASSUME NEW x \in pool PROVE Takes(c, rendering, rendering', pool, x)
  <2>1. ~(c.op = "set" /\ c.to = x) /\ rendering'[x] = rendering[x]
    BY <1>1, <1>3
  <2>. QED
    BY <2>1, OtherTakes
<1>6. RenderingOK(rendering')
  BY <1>1 DEF Inv, Types
<1>7. /\ Graph' /\ Types' /\ Coherence'
      /\ \A e \in Ends(queue') :
            Shown(queue', e, rendering', pool', queue'[e].picture)
      /\ Shown(queue', Len(queue') + 1, rendering', pool', newest')
      /\ Cardinality(Ends(queue')) =
            IF c.op = "commit" THEN commits - 1 ELSE commits
  BY <1>1, <1>4, <1>5, <1>6, HeadTaken DEF c
<1>8. Shown(queue', 1, rendering', pool', shown')
  <2>1. 1 \in Ends(queue)
    BY <1>2, <1>3, PoppedFacts DEF Ends, c
  <2>2. Shown(queue, 1, rendering, pool, shown')
    BY <1>3, <2>1 DEF Inv, Aims, c
  <2>3. Extends(queue, 1, queue', 1) /\ 1..(1 - 1) = {}
    BY DEF Extends
  <2>4. ASSUME NEW r \in pool PROVE Match(queue', 1, rendering, pool, shown', r)
    <3>1. Match(queue, 1, rendering, pool, shown', r)
      BY <2>2 DEF Shown
    <3>2. Same(shown', shown', pool, r)
      BY DEF Same
    <3>. QED
      BY <2>3, <3>1, <3>2, MatchKept
  <2>. QED
    BY <1>1, <2>4 DEF Shown
<1>9. Aims'
  BY <1>7, <1>8, Zenon DEF Aims
<1>10. Counted'
  BY <1>1, <1>3, <1>7 DEF Counted
<1>11. Absent'
  BY <1>1 DEF Inv, Absent
<1>12. Freed'
  <2>1. ASSUME NEW r \in created \ pool PROVE FreedIn(queue', rendering, r)
    <3>1. FreedIn(queue, rendering, r)
      BY DEF Inv, Freed
    <3>2. 1 \notin For(queue, r)
      BY <1>3 DEF For, c
    <3>. QED
      BY <1>2, <3>1, <3>2, FreedLeft
  <2>. QED
    BY <1>1, <2>1 DEF Freed
<1>. QED
  BY <1>7, <1>9, <1>10, <1>11, <1>12 DEF Inv

-----------------------------------------------------------------------------
(* The invariant holds initially and is kept by every step.                 *)

(* The pending states of the resources given at the start have their types. *)
LEMMA GivenIs ==
    ASSUME NEW given, given \subseteq Resource, NEW r \in Resource
    PROVE  /\ PendingIs(r, GivenPending(given, r), given)
           /\ r \notin given \cap (Object \cup Unit) =>
                 GivenPending(given, r) = InitialPending(r)
<1>1. CASE r \in given \cap Object
  <2>1. GivenPending(given, r) = [units |-> given \cap Unit]
    BY <1>1, Apart DEF GivenPending
  <2>2. GivenPending(given, r) \in [units : SUBSET (Unit \cap given)]
    BY <2>1
  <2>. QED
    BY <1>1, <2>2, Apart DEF PendingIs
<1>2. CASE r \in given \cap Unit
  <2>. DEFINE t == IF given \cap Technique = {} THEN None
                   ELSE CHOOSE t \in Technique : t \in given
  <2>1. GivenPending(given, r) = [technique |-> t]
    BY <1>2, Apart DEF GivenPending
  <2>2. t \in Ref(Technique \cap given)
    BY DEF Ref
  <2>. HIDE DEF t
  <2>3. GivenPending(given, r) \in [technique : Ref(Technique \cap given)]
    BY <2>1, <2>2
  <2>. QED
    BY <1>2, <2>3, Apart DEF PendingIs
<1>3. CASE r \notin given \cap (Object \cup Unit)
  <2>1. GivenPending(given, r) = InitialPending(r)
    BY <1>3 DEF GivenPending
  <2>. QED
    BY <1>3, <2>1, InitialTyped
<1>. QED
  BY <1>1, <1>2, <1>3

(* A resource as constructed agrees with the empty picture.                 *)
LEMMA NothingOrdered ==
    ASSUME NEW P, NEW r \in Resource, P[r] = NoPicture(r)
    PROVE  CoherentAt(r, InitialPending(r), P, None)
<1>1. CASE r \in Technique
  <2>1. InitialPending(r) =
           [program |-> None, programDamaged |-> FALSE,
            vertexArray |-> None, vertexArrayDamaged |-> FALSE,
            texture |-> None, sampler |-> None, textureDamaged |-> FALSE,
            method |-> "none", elements |-> None, methodDamaged |-> FALSE,
            uniform |-> None]
    BY <1>1, InitialPendingIs, Zenon
  <2>2. P[r] = [program |-> None, vertexArray |-> None, texture |-> None,
                sampler |-> None, method |-> "none", elements |-> None,
                uniform |-> None, applied |-> None]
    BY <1>1, NoPictureIs, Zenon
  <2>. QED
    BY <1>1, <2>1, <2>2, Apart DEF CoherentAt
<1>2. CASE r \in VertexArray
  <2>. DEFINE A == [i \in Index |-> [enabled |-> FALSE, buffer |-> None,
                                     damaged |-> FALSE]]
              B == [i \in Index |-> [enabled |-> FALSE, buffer |-> None,
                                     bound |-> FALSE]]
  <2>1. InitialPending(r) = [attribute |-> A, damaged |-> FALSE]
    BY <1>2, InitialPendingIs, Zenon
  <2>2. P[r] = [attribute |-> B]
    BY <1>2, NoPictureIs, Zenon
  <2>3. \A i \in Index : /\ A[i].enabled = FALSE /\ A[i].buffer = None
                         /\ A[i].damaged = FALSE
                         /\ B[i].enabled = FALSE /\ B[i].buffer = None
    OBVIOUS
  <2>. HIDE DEF A, B
  <2>4. InitialPending(r).attribute = A /\ P[r].attribute = B
    BY <2>1, <2>2
  <2>5. \A i \in Index : /\ ~InitialPending(r).attribute[i].damaged
                         /\ InitialPending(r).attribute[i].enabled
                              = P[r].attribute[i].enabled
                         /\ InitialPending(r).attribute[i].buffer
                              = P[r].attribute[i].buffer
    BY <2>3, <2>4
  <2>6. /\ r \notin Technique /\ r \notin Buffer /\ r \notin Texture
        /\ r \notin Sampler
    BY <1>2, Apart
  <2>. QED
    BY <1>2, <2>5, <2>6, Zenon DEF CoherentAt
<1>3. CASE r \in Buffer
  <2>1. /\ InitialPending(r) = [data |-> None, damaged |-> FALSE]
        /\ P[r] = [data |-> None, reached |-> TRUE]
    BY <1>3, InitialPendingIs, NoPictureIs, Zenon
  <2>. QED
    BY <1>3, <2>1, Apart DEF CoherentAt
<1>4. CASE r \in Texture
  <2>1. /\ InitialPending(r) = [data |-> None, mipmap |-> FALSE]
        /\ InitialRendering(r) = [data |-> None, mipmap |-> None]
    BY <1>4, InitialPendingIs, InitialRenderingIs, Zenon
  <2>2. P[r] = InitialRendering(r)
    BY <1>4, NoPictureIs, Apart
  <2>. QED
    BY <1>4, <2>1, <2>2, Apart DEF CoherentAt
<1>5. CASE r \in Sampler
  <2>1. /\ InitialPending(r) = [parameter |-> None]
        /\ InitialRendering(r) = [exists |-> FALSE, parameter |-> None]
    BY <1>5, InitialPendingIs, InitialRenderingIs, Zenon
  <2>2. P[r] = InitialRendering(r)
    BY <1>5, NoPictureIs, Apart
  <2>. QED
    BY <1>5, <2>1, <2>2, Apart DEF CoherentAt
<1>6. CASE /\ r \notin Technique /\ r \notin VertexArray /\ r \notin Buffer
          /\ r \notin Texture /\ r \notin Sampler
  BY <1>6 DEF CoherentAt
<1>. QED
  BY <1>1, <1>2, <1>3, <1>4, <1>5, <1>6, Zenon

(* Inv holds in the initial states.                                         *)
LEMMA InvInit ==
    ASSUME Init
    PROVE  Inv
<1>1. /\ created \subseteq Resource /\ pool = created /\ scheduled = {}
      /\ queue = <<>> /\ commits = 0 /\ inGroup = FALSE /\ newest = shown
  BY ScenarioAssumption DEF Init
<1>2. /\ pending = [r \in Resource |-> GivenPending(created, r)]
      /\ rendering = [r \in Resource |-> InitialRendering(r)]
      /\ content = [r \in Resource |-> None]
      /\ shown = [r \in Resource |-> NoPicture(r)]
  BY Zenon DEF Init
<1>3. /\ pending = [r \in Resource |-> pending[r]]
      /\ \A r \in Resource : pending[r] = GivenPending(created, r)
  BY <1>2
<1>4. /\ rendering = [r \in Resource |-> rendering[r]]
      /\ \A r \in Resource : rendering[r] = InitialRendering(r)
  BY <1>2
<1>5. /\ shown = [r \in Resource |-> shown[r]]
      /\ \A r \in Resource : shown[r] = NoPicture(r)
  BY <1>2
<1>6. content \in [Resource -> Data] /\ \A r \in Resource : content[r] = None
  BY <1>2 DEF Data
<1>7. IsSequence(queue) /\ Len(queue) = 0
  <2>1. queue \in Seq({})
    BY <1>1
  <2>. QED
    BY <1>1, <2>1 DEF IsSequence
<1>8. Graph
  BY <1>1 DEF Graph
<1>9. Types
  <2>1. PendingOK(pending, created)
    BY <1>1, <1>3, GivenIs DEF PendingOK
  <2>2. RenderingOK(rendering)
    BY <1>4, InitialTyped DEF RenderingOK
  <2>3. PictureOK(shown, created)
    <3>1. \A r \in Resource : PictureIs(r, shown[r], created)
      BY <1>5, InitialTyped
    <3>2. ASSUME NEW t \in Technique PROVE shown[t].applied = None
      <4>1. shown[t] =
              [program |-> None, vertexArray |-> None, texture |-> None,
               sampler |-> None, method |-> "none", elements |-> None,
               uniform |-> None, applied |-> None]
        BY <1>5, NoPictureIs, Known
      <4>. QED
        BY <4>1
    <3>. QED
      BY <1>5, <3>1, <3>2 DEF PictureOK
  <2>. QED
    BY <1>1, <1>6, <1>7, <2>1, <2>2, <2>3 DEF Types
<1>10. Coherence
  <2>1. ASSUME NEW r \in Resource
        PROVE  CoherentAt(r, pending[r], newest, content[r])
    <3>1. CASE r \in Object \cup Unit
      BY <3>1, Apart DEF CoherentAt
    <3>2. CASE r \notin Object \cup Unit
      <4>1. /\ pending[r] = InitialPending(r) /\ content[r] = None
            /\ newest[r] = NoPicture(r)
        BY <1>1, <1>3, <1>5, <1>6, <3>2, GivenIs
      <4>. QED
        BY <4>1, NothingOrdered
    <3>. QED
      BY <3>1, <3>2
  <2>. QED
    BY <2>1, CoherentIs DEF Coherence
<1>11. Aims
  <2>1. Shown(queue, 1, rendering, pool, shown)
    <3>1. 1..(1 - 1) = {} /\ None \notin pool
      BY <1>1, Known
    <3>2. ASSUME NEW r \in pool PROVE Match(queue, 1, rendering, pool, shown, r)
      BY <1>1, <1>4, <1>5, <3>1, MatchNew
    <3>. QED
      BY <3>2 DEF Shown
  <2>2. Ends(queue) = {} /\ Len(queue) + 1 = 1
    BY <1>7 DEF Ends
  <2>. QED
    BY <1>1, <2>1, <2>2 DEF Aims
<1>12. Absent
  BY <1>1, <1>3, <1>4, GivenIs DEF Absent
<1>13. Counted
  <2>1. Ends(queue) = {}
    BY <1>7 DEF Ends
  <2>. QED
    BY <1>1, <2>1, FS_EmptySet DEF Counted
<1>14. Freed
  BY <1>1 DEF Freed
<1>. QED
  BY <1>8, <1>9, <1>10, <1>11, <1>12, <1>13, <1>14 DEF Inv

(* A step that changes nothing keeps Inv.                                   *)
LEMMA InvStutters ==
    ASSUME Inv, UNCHANGED vars
    PROVE  Inv'
<1>1. /\ pool' = pool /\ queue' = queue /\ scheduled' = scheduled
      /\ created' = created /\ pending' = pending
      /\ commits' = commits /\ rendering' = rendering /\ inGroup' = inGroup
      /\ content' = content /\ shown' = shown /\ newest' = newest
  BY DEF vars
<1>2. Graph' /\ Types' /\ Coherence' /\ Absent'
  BY <1>1 DEF Inv, Graph, Types, Coherence, Absent
<1>3. Aims' /\ Counted' /\ Freed'
  BY <1>1 DEF Inv, Aims, Counted, Freed
<1>. QED
  BY <1>2, <1>3 DEF Inv

(* Every step keeps Inv: one lemma for each action of Next.                 *)
LEMMA InvKept ==
    ASSUME Inv, [Next]_vars
    PROVE  Inv'
<1>1. CASE Creations
  BY <1>1, CreationsKeep
<1>2. CASE Removals
  BY <1>2, DeleteKeeps, DeleteObjectKeeps, EndSessionKeeps DEF Removals
<1>3. CASE Changes
  <2>1. ASSUME NEW b \in Buffer, NEW d \in Content, GlBufferData(b, d)
        PROVE  Inv'
    BY <2>1, GlBufferDataKeeps
  <2>2. ASSUME NEW v \in VertexArray, NEW i \in Index,
               \/ GlEnableVertexAttribArray(v, i)
               \/ GlDisableVertexAttribArray(v, i)
               \/ \E b \in Buffer : GlVertexAttribPointer(v, i, b)
        PROVE  Inv'
    BY <2>2, AttributesKeep
  <2>3. ASSUME NEW p \in Program,
               GlLinkProgram(p) \/ \E h \in Shader : GlAttachShader(p, h)
        PROVE  Inv'
    BY <2>3, ProgramChangesKeep
  <2>4. ASSUME NEW x \in Texture,
               GlGenerateMipmap(x) \/ \E d \in Content : UploadTexture(x, d)
        PROVE  Inv'
    BY <2>4, TextureChangesKeep
  <2>5. ASSUME NEW m \in Sampler, NEW d \in Content, SamplerParameter(m, d)
        PROVE  Inv'
    BY <2>5, SamplerParameterKeeps
  <2>6. ASSUME NEW t \in Technique,
               \/ \E p \in Program : BindProgram(t, p)
               \/ \E v \in VertexArray : BindVertexArray(t, v)
               \/ \E x \in Texture, m \in Sampler : BindTexture(t, x, m)
               \/ \E d \in Content : GlUniform(t, d)
               \/ GlDrawArrays(t)
               \/ \E b \in Buffer : GlDrawElements(t, b)
        PROVE  Inv'
    BY <2>6, TechniqueChangesKeep
  <2>7. ASSUME NEW o \in Object, Commit(o) \/ \E d \in Position : Move(o, d)
        PROVE  Inv'
    BY <2>7, CommitKeeps, MoveKeeps
  <2>. QED
    BY <1>3, <2>1, <2>2, <2>3, <2>4, <2>5, <2>6, <2>7, Zenon DEF Changes
<1>4. CASE ExecuteCommand
  BY <1>4, ExecuteKeeps
<1>5. CASE FinishGroup
  BY <1>5, FinishKeeps
<1>6. CASE Frame
  BY <1>6, FrameKeeps
<1>7. CASE UNCHANGED vars
  BY <1>7, InvStutters
<1>. QED
  BY <1>1, <1>2, <1>3, <1>4, <1>5, <1>6, <1>7 DEF Next

(* The parts of the scene are what the program says in every reachable state*)
(* whatever the order in which the gRPC thread changes, commits and deletes *)
(* resources and the rendering thread executes the commands.                *)
THEOREM Invariance == Spec => []Inv
<1>1. Init => Inv
  BY InvInit
<1>2. Inv /\ [Next]_vars => Inv'
  BY InvKept
<1>. QED
  BY <1>1, <1>2, PTL DEF Spec

(* The properties and Inv count the same entries of the queue.              *)
LEMMA EntriesAre ==
    ASSUME Inv
    PROVE  /\ {i \in DOMAIN queue : IsEnd(i)} = Ends(queue)
           /\ \A r : CommandsFor(r) = For(queue, r)
           /\ DOMAIN queue = 1..Len(queue)
<1>1. DOMAIN queue = 1..Len(queue)
  BY SequenceFacts DEF Inv, Types
<1>. QED
  BY <1>1 DEF IsEnd, Ends, CommandsFor, For

(* Inv implies the type invariant,                                          *)
LEMMA InvTypeOK ==
    ASSUME Inv
    PROVE  TypeOK
<1>1. /\ pool \subseteq created /\ created \subseteq Resource
      /\ scheduled \subseteq pool \cap Object
  BY DEF Inv, Graph
<1>2. \A r \in Resource \ created : /\ pending[r] = InitialPending(r)
                                   /\ rendering[r] = InitialRendering(r)
  BY Zenon DEF Inv, Absent
<1>3. \A i \in DOMAIN queue : ~IsEnd(i) => queue[i].to \in created
  <2>1. ASSUME NEW i \in 1..Len(queue), ~IsEnd(i)
        PROVE  queue[i].to \in created
    <3>1. EntryOK(queue[i], created, pool)
      BY DEF Inv, Types
    <3>. QED
      BY <2>1, <3>1 DEF EntryOK, IsEnd
  <2>. QED
    BY <2>1, EntriesAre
<1>4. /\ inGroup \in BOOLEAN
      /\ commits = Cardinality({i \in DOMAIN queue : IsEnd(i)})
      /\ inGroup => commits > 0
  BY EntriesAre DEF Inv, Counted
<1>. QED
  BY <1>1, <1>2, <1>3, <1>4 DEF TypeOK

(* that what is deleted is freed,                                           *)
LEMMA InvDeletedIsFreed ==
    ASSUME Inv
    PROVE  DeletedIsFreed
<1>1. ASSUME NEW r \in created \ pool
      PROVE  IF CommandsFor(r) = {}
               THEN rendering[r] = InitialRendering(r)
               ELSE \E i \in CommandsFor(r) :
                       /\ \A j \in CommandsFor(r) : j <= i
                       /\ queue[i].op = "delete"
  <2>1. FreedIn(queue, rendering, r) /\ CommandsFor(r) = For(queue, r)
    BY EntriesAre DEF Inv, Freed
  <2>. QED
    BY <2>1, Zenon DEF FreedIn
<1>. QED
  BY <1>1, Zenon DEF DeletedIsFreed

(* and that between two groups the last commit is shown.                    *)
LEMMA InvCommitIsShown ==
    ASSUME Inv
    PROVE  CommitIsShown
<1>1. ASSUME ~inGroup, NEW r \in pool PROVE IsShown(r)
  <2>1. Match(queue, 1, rendering, pool, shown, r) /\ Graph /\ Types
    BY <1>1 DEF Inv, Aims, Shown
  <2>. QED
    BY <2>1, MatchIsShown
<1>. QED
  BY <1>1 DEF CommitIsShown

(* The types of the graph: every reference and every command names a        *)
(* resource that was created, and commit_count_ counts the commits in the   *)
(* queue.                                                                   *)
THEOREM TypeCorrect == Spec => []TypeOK
BY Invariance, InvTypeOK, PTL

(* ~GlBuffer and the other destructors push the deletion of their GL object:*)
(* nothing makes it again, and it is freed when the queue is executed.      *)
THEOREM DeletedAreFreed == Spec => []DeletedIsFreed
BY Invariance, InvDeletedIsFreed, PTL

(* Between two groups of AtomicCommandQueue the rendering state of all live *)
(* resources is the one the last executed Commit of an object asked for.    *)
THEOREM CommitsAreShown == Spec => []CommitIsShown
BY Invariance, InvCommitIsShown, PTL
=============================================================================
