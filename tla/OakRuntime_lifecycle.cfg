CONSTANTS
    s = s
    Top = Top
    Tags = {s}
    h1 = h1
    h2 = h2
    h3 = h3
    h4 = h4
    HandleVals = {h1, h2}
    MaxNodes = 3
    MaxChannels = 1
    MaxQueue = 1
    MaxSent = 0
    NodeLabels <- MC_PublicOnly
    Privileges <- MC_NoPrivilege
SYMMETRY HandleSymmetry2
VIEW ViewWithoutReports
SPECIFICATION Spec
PROPERTIES
    StopReturns
