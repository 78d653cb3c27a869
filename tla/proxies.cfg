\* The channels are alike: what the model starts with is on the first.
CONSTANTS
    Channel = {c1, c2}
    Object = {o}
    Unit = {u}
    Technique = {t}
    VertexArray = {v}
    Buffer = {b}
    Program = {p}
    Shader = {h}
    Texture = {x}
    Sampler = {m}
    Data = {d}
    Early = {{}, {o, u}, {o, u, t, v, b, p, h, x, m}}
    Home = {c1}
    None = None
    MaxCalls = 2
SPECIFICATION LiveSpec
CHECK_DEADLOCK FALSE
INVARIANTS
    TypeOK
    FindsResources
    DataHeldWhileQueued
PROPERTIES
    DataReleased
    DestroyReaches
