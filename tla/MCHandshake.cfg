SPECIFICATION Spec
CONSTANTS
    Devices = {d1}
    Remotes = {r1, r2}
    NoRemote = NoRemote
    LocalWidths <- MCLocal
    RemoteWidths <- MCRemote
    Proposals <- MCProposals
    MaxAttempts = 3
    NoPassive = NoPassive
INVARIANTS TypeOK StreamAgreement AttemptsExact
PROPERTIES NegotiatesLargest OpenReturns
