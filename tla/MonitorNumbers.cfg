SPECIFICATION Spec
CONSTANTS
  r1 = r1
  r2 = r2
  Call = {r1, r2}
  Memories <- SomeMemories
  TotalRam = 4
  Swap = 1
  Word = 64
  IntWord = 16
  Cpus = 2
  Counted <- SomeEvents
  Zones <- ConfiguredZones
  Tables <- ItsTable
  Plans <- SomePlans
  MaxChanges = 0
  Failures = {"alloc", "net", "name"}
INVARIANT CallsDocumented
CHECK_DEADLOCK FALSE
