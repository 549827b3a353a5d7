SPECIFICATION Spec
CONSTANTS
    Devices = {d1}
    Remotes = {r1}
    NoRemote = NoRemote
    LocalWidths <- MCLocal
    RemoteWidths <- MCRemote
    Proposals <- MCProposals
    MaxAttempts = 2
    NoPassive = NoPassive
INVARIANT WidthsInUseRefined
