SPECIFICATION Spec
CONSTANTS
  c1 = c1  c2 = c2  c3 = c3
  ada = ada  Ada = Ada  a_a = a_a  ann = ann  bob = bob
  Calls = {c1, c2, c3}
  Seed = Seed
  None = None
  Spellings <- MCSpellings
  Normal <- MCNormal
  Fits <- MCFits
  Slots <- MCSlots
  Today = 1
  DayLength = 3
  Sales <- MCSales
  Periods <- MCPeriods
  Messages <- MCMessages
  MaxRecipients = 1
  ConflictLimit = 1
  GroupLimit = 1
SYMMETRY MCSymmetry
INVARIANTS
  DuplicatesOverlap
  UpdateStands
  ListingsAreCurrent
  ReportsAddUp
  ClashIsNoticed
  MailIsBounded
PROPERTIES
  CompletionKept
