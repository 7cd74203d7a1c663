CONSTANTS
    s = s
    Top = Top
    Tags = {s}
    h1 = h1
    h2 = h2
    h3 = h3
    h4 = h4
    HandleVals = {h1, h2, h3}
    MaxNodes = 2
    MaxChannels = 1
    MaxQueue = 1
    MaxSent = 1
    NodeLabels <- MC_NodeLabels
    Privileges <- MC_Privileges
SYMMETRY HandleSymmetry
VIEW ViewWithoutReports
SPECIFICATION Spec
INVARIANTS
    TypeOK
    NoReadUp
