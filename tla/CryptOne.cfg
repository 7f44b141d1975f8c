CONSTANTS
  fa = fa
  fb = fb
  fk = fk
  c1 = c1
  c2 = c2
  Byte <- MCByte
  Zero = 0
  Xor <- MCXor
  Call = {c1}
  Path <- MCPath
  MaxThreads = 3
  Threads <- AnyThreads
  TextLengths = {0, 2, 4, 5}
  KeyLengths = {0, 2, 3}
  OldLengths = {5}
  Scenario <- OneScenario
  Disk <- MCDisk
  Faults = {"path", "alloc", "open", "spawn", "read", "write"}
SPECIFICATION FairSpec
INVARIANTS
  TypeOK
  EncryptedBeforeWrite
  OutputIsEncrypted
  SafeUntilFailure
  ReturnedFreesAll
  WaitIsAnswered
PROPERTY CallsEnd
CHECK_DEADLOCK FALSE
