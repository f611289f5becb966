SPECIFICATION Spec
CONSTANTS
  Scripts <- MCScripts
  MaxCollected = 20
INVARIANTS
  TypeOK
  AnswersAreMeant
  MatcherSound
PROPERTY
  CallsReturn
CHECK_DEADLOCK FALSE
