\* Two Nodes that both hold the read half of one public channel, up to two
\* queued messages of at most one handle: a NeedsCapacity report of one
\* reader can meet the other reader's read, later writes, clones, closes and
\* the exit of either Node.
CONSTANTS
    s = s
    Top = Top
    Tags = {s}
    h1 = h1
    h2 = h2
    h3 = h3
    h4 = h4
    HandleVals = {h1, h2, h3}
    MaxNodes = 2
    MaxChannels = 1
    MaxQueue = 2
    MaxSent = 1
    NodeLabels <- MC_PublicOnly
    Privileges <- MC_NoPrivilege
SYMMETRY HandleSymmetry
SPECIFICATION Spec
INVARIANTS
    RetryFindsReportedMessage
