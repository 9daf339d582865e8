CONSTANTS
    c1 = c1
    Users = {ann, bob}
    Openers = {ann, bob}
    Requests = {q1, q2}
    ClientIds = {c1}
    Sends <- MCSends
    MaxMessages = 2
SPECIFICATION Spec
SYMMETRY Symmetry
INVARIANTS
    BellRings
PROPERTIES
    ThreadIsALog
    BlockStopsTheNext
