SPECIFICATION FairSpec
CONSTANTS
  r1 = r1
  r2 = r2
  Call = {r1, r2}
  Memories <- SomeMemories
  TotalRam = 4
  Swap = 1
  Word = 64
  IntWord = 16
  Cpus = 2
  Counted <- SomeEvents
  Zones <- ConfiguredZones
  Tables <- BothTables
  Plans <- SomePlans
  MaxChanges = 1
  Failures = {"alloc", "net", "name"}
INVARIANTS TypeOK AnswersMeasured ChartsNear BuffersHold CallbacksFree
PROPERTIES FaultsForward LineIsPolled RequestsEnd
CHECK_DEADLOCK FALSE
