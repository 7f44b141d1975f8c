CONSTANTS
  NumTasks = 3
  Top = 2
  Pages <- MCPages
SPECIFICATION FairSpec
INVARIANTS
  TypeOK
  TableIsTheTop
  ResultIsTheTop
PROPERTY CallEnds
CHECK_DEADLOCK FALSE
