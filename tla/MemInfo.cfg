SPECIFICATION MemSpec
CONSTANTS
  Call = {c1}
  Memories <- SomeMemories
  TotalRam = 5
  Swap = 2
  Word = 64
  Cpus = 2
  Counted <- NoEvents
  Zones <- ConfiguredZones
  MaxChanges = 3
  Failures = {"alloc", "copy"}
INVARIANTS MemTypeOK UseMemOff UsePagesOff FaultsWithin
CHECK_DEADLOCK FALSE
