CONSTANTS
    s = s
    t = t
    Top = Top
    Tags = {s, t}
SPECIFICATION Spec
INVARIANTS
    DowngradeIsLeast
