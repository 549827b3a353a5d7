SPECIFICATION Spec
CONSTANTS
    Devices = {udp}
    Packet = {udp}
    Cycles = {c1, c2}
    NoDev = NoDev
    NoCycle = NoCycle
    OpKinds = {"read", "write", "bad"}
    UnreadyMod = 256
    Oom = FALSE
    CloseHeld = FALSE
    FlushReentry = TRUE
    MaxDepth = 1
INVARIANTS CycleOwnership
