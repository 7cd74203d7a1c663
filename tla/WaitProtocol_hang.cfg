CONSTANTS
    a = a
    b = b
    c1 = c1
    c2 = c2
    Nodes = {a, b}
    Chans = {c1, c2}
    InitHandles <- MC_InitHandles
    MaxQueue = 1
    s = s
    Top = Top
    Tags = {s}
    NodeLabel <- MC_NodeLabel
    NodePrivilege <- MC_NodePrivilege
    ChanLabel <- MC_ChanLabel
VIEW ViewEffectiveDowngrade
SPECIFICATION Spec
PROPERTIES
    StopCompletes
