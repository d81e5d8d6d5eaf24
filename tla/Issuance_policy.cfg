\* Three calls of two subjects, with distinct or repeated jtis, and a cap of
\* two: the third token of a subject evicts its first.
SPECIFICATION Spec
CONSTANTS
    Calls = {c1, c2, c3}
    Subjects = {s1, s2}
    Jtis = {j1, j2, j3}
    MaxActive = 2
    MinInterval = 1
    Life = 3
    MaxTime = 3
SYMMETRY Symmetry
CHECK_DEADLOCK FALSE
INVARIANTS
    PolicyKept
    ToldTheTruth
PROPERTIES
    ImplementsMinting
