SPECIFICATION Spec
CONSTANTS
  c1 = c1  owner = owner  other = other
  Calls = {c1}
  Users = {owner, other}
  Tools <- MCTools
  Schema <- MCSchema
  Arguments <- MCArguments
INVARIANTS
  RiskNeedsHuman
  ForbiddenNeverRuns
  RunIsOnRecord
