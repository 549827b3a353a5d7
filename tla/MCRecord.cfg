SPECIFICATION Spec
CONSTANTS
  Data = 2
  ByteBits = 1
  AddrEnd = 16
  MaxChain = 2
  Mtu = 9
  StreamBuf = 9
  MaxDup = 1
  Kinds = {"packet", "stream"}
  MaxLen = 3
  Queues <- MCQueues
  Faults <- MCFaults
INVARIANTS TypeOK WholeCycles StreamOrder AnswersFaithful AllAnswered
CHECK_DEADLOCK FALSE
