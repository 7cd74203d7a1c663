\* Two Nodes (the initial one and one it registers), two channels, three
\* handle values, one queued message per channel, logs of up to 10 events.
CONSTANTS
    h1 = h1
    h2 = h2
    h3 = h3
    HandleVals = {h1, h2, h3}
    MaxNodes = 2
    MaxChannels = 2
    MaxQueue = 1
    MaxEvents = 10
SYMMETRY HandleSymmetry
SPECIFICATION Spec
CONSTRAINT LogBound
\* A state where no Node makes a further call is a real end of the program
\* (the main thread then calls stop, which is the subject of OakRuntime).
CHECK_DEADLOCK FALSE
INVARIANTS
    DequeueAfterEnqueue
