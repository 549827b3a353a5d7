SPECIFICATION Spec
CONSTANTS
  Data = 2
  ByteBits = 1
  AddrEnd = 16
  MaxChain = 2
  Mtu = 9
  StreamBuf = 9
  MaxDup = 0
  Kinds = {"packet"}
  MaxLen = 2
  Queues <- MCQueues
  Faults <- MCFaults
INVARIANT NoReadsPromise
CHECK_DEADLOCK FALSE
