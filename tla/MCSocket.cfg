SPECIFICATION Spec
CONSTANTS
    Devices = {tcp, udp}
    Packet = {udp}
    Cycles = {c1, c2}
    NoDev = NoDev
    NoCycle = NoCycle
    OpKinds = {"read"}
    UnreadyMod = 256
    Oom = FALSE
    CloseHeld = FALSE
    FlushReentry = FALSE
    MaxDepth = 3
SYMMETRY CycleSymmetry
INVARIANTS CycleOwnership NoDangling BlockedWaits SocketInv
PROPERTIES ImplementsContract
