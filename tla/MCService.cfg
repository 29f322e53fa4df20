SPECIFICATION Spec
CONSTANTS
  caster = caster
  r1 = r1
  r2 = r2
  v1 = v1
  v2 = v2
  junk = junk
  s1 = s1
  s2 = s2
  s3 = s3
SYMMETRY Symmetry
INVARIANTS
  AlarmsAreReal
  CreditsBalance
  ProposalsAreSound
  AnswersAreResults
  RegisterIsSafe
  StructuresAreSafe
  ExecutesTheLog
  OutrunIsMinority
PROPERTIES
  BroadcastIsConsistent
  ContainersAreTails
  DropsOnlyAnswered
CHECK_DEADLOCK FALSE
