SPECIFICATION DiffSpec
CONSTANTS
  Elements = {"title", "plan", "idea"}
  TypeOf <- MCTypeOf
  MaxLen = 3
  Inputs <- MCInputs
INVARIANTS
  TypeOK
  ScriptReadsBothWays
  ScriptIsMinimal
  AnswerReadsBothWays
PROPERTIES
  FindsScript
CHECK_DEADLOCK FALSE
