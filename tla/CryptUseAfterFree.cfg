CONSTANTS
  fa = fa
  fb = fb
  fk = fk
  c1 = c1
  c2 = c2
  Byte <- MCByte
  Zero = 0
  Xor <- MCXor
  Call = {c1}
  Path <- MCPath
  MaxThreads = 2
  Threads = {2}
  TextLengths = {3}
  KeyLengths = {2}
  OldLengths = {0}
  Scenario <- OneScenario
  Disk <- MCDisk
  Faults = {"spawn"}
SPECIFICATION Spec
INVARIANT NoUseAfterFree
CHECK_DEADLOCK FALSE
