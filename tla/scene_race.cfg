SPECIFICATION Spec
CONSTANTS
    Object = {o1}
    Unit = {u1}
    Technique = {t1}
    VertexArray = {}
    Buffer = {}
    Program = {p1}
    Shader = {h1}
    Texture = {}
    Sampler = {}
    Index = {}
    Content = {}
    Position = {}
    None = None
    Scenario = {{o1, u1, t1, p1, h1}}
    Given = {o1, u1, t1, p1, h1}
    MaxCalls = 5
    MaxCommits = 1
    o1 = o1
    u1 = u1
    t1 = t1
    p1 = p1
    h1 = h1
INVARIANTS
    CommittedProgramIsLinked
