SPECIFICATION FairSpec
CONSTANTS
    Devices = {tcp}
    Packet = {}
    Cycles = {c1}
    NoDev = NoDev
    NoCycle = NoCycle
    OpKinds = {"read", "write", "bad"}
    UnreadyMod = 256
    Oom = FALSE
    CloseHeld = FALSE
    FlushReentry = FALSE
    MaxDepth = 1
PROPERTIES EveryCycleCalled
