CONSTANTS
  fa = fa
  fb = fb
  fk = fk
  c1 = c1
  c2 = c2
  Byte <- MCByte
  Zero = 0
  Xor <- MCXor
  Call = {c1, c2}
  Path <- MCPath
  MaxThreads = 2
  Threads = {1, 2}
  TextLengths = {3}
  KeyLengths = {2}
  OldLengths = {0, 3}
  Scenario <- PairScenario
  Disk <- MCDisk
  Faults = {}
SPECIFICATION Spec
INVARIANTS
  ReadsWholeInput
  OutputIsEncrypted
  RoundTrip
PROPERTY ImplementsService
CHECK_DEADLOCK FALSE
