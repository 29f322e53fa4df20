SPECIFICATION Spec
CONSTANTS
  w1 = w1
  w2 = w2
  h1 = h1
  h2 = h2
  h3 = h3
  r1 = r1
  r2 = r2
  noop = noop
INVARIANTS
  TasksAreContained
  MemoryIsExclusive
  SetupIsSound
  CountedCommitsVerified
PROPERTIES
  LinkIsTail
  NoLostWakeup
  AlterEnds
  RegisterIsRegular
  Reproposed
  SlackComes
  ProposedIsDecided
CHECK_DEADLOCK FALSE
