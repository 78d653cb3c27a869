\* Three scenarios in which an object, a unit and a technique are given, with a
\* vertex array and its buffer, a program and its shader, a texture and its sampler;
\* and one in which all is made from nothing.
SPECIFICATION Spec
CONSTANTS
    Object = {o1, o2}
    Unit = {u1, u2}
    Technique = {t1, t2}
    VertexArray = {v1, v2}
    Buffer = {b1}
    Program = {p1, p2}
    Shader = {h1}
    Texture = {x1, x2}
    Sampler = {m1}
    Index = {i1}
    Content = {d1, d2}
    Position = {q1}
    None = None
    Scenario = {{o1, u1, t1, v1, b1}, {o1, u1, t1, p1, h1}, {o1, u1, t1, x1, m1},
                {o2, u2, t2, v2, p2, x2}}
    Given = {o1, u1, t1, v1, p1, x1}
    MaxCalls = 6
    MaxCommits = 1
    o1 = o1
    o2 = o2
    u1 = u1
    u2 = u2
    t1 = t1
    t2 = t2
    v1 = v1
    v2 = v2
    b1 = b1
    p1 = p1
    p2 = p2
    h1 = h1
    x1 = x1
    x2 = x2
    m1 = m1
    i1 = i1
    d1 = d1
    d2 = d2
    q1 = q1
SYMMETRY ContentSymmetry
INVARIANTS
    TypeOK
    CommitIsShown
    DeletedIsFreed
