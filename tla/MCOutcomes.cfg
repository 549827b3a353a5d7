SPECIFICATION FairSpec
CONSTANTS
    Devices = {udp}
    Packet = {udp}
    Cycles = {c1, c2}
    NoDev = NoDev
    NoCycle = NoCycle
    OpKinds = {"cread", "write", "cwrite"}
    UnreadyMod = 256
    Oom = TRUE
    CloseHeld = FALSE
    FlushReentry = FALSE
    MaxDepth = 2
INVARIANTS TypeOK
PROPERTIES ResponsesInOrder OkMeansAnswered EveryCycleCalled
