CONSTANTS
  a = a
  X = X
  Y = Y
  Z = Z
  HOME = HOME
  TERM = TERM
  sbin_init = sbin_init
  sh = sh
  rd = rd
  prog = prog
  early = early
  unpack = unpack
  probe = probe
  NULL = NULL
  MaxLine = 4
  MaxArgs = 2
  MaxEnvs = 3
  Name <- MCName
  Val <- MCVal
  HomeName = HOME
  TermName = TERM
  Default = 0
  RamdiskInit = rd
  Commands <- MCCommands
  Levels <- MCLevels
  Async = {unpack, probe}
  Unpack = unpack
  Fallback <- MCFallback
  Machines <- MCMachines
SPECIFICATION FairSpec
INVARIANTS
  TypeOK
  ArraysTerminated
  InitGetsItsArguments
  NoInitCodeAfterFree
  KthreaddKnown
  RunsWhatWasAsked
PROPERTIES
  StateAdvances
  BootEnds
CHECK_DEADLOCK FALSE
