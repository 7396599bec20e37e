SPECIFICATION Spec
CONSTANTS
  c1 = c1  c2 = c2  k1 = k1  k2 = k2
  Chats = {c1, c2}
  Confirms = {k1, k2}
  MaxRounds <- MCRounds
  MaxCalls <- MCCalls
  HistoryLimit = 3
SYMMETRY ConfirmSymmetry
CONSTRAINT TwoAtWork
INVARIANTS
  Contiguous
  CallsAnswered
  ReplayExact
  AskedAndShown
  ReportsMatchEffects
  StatusTellsLast
PROPERTIES
  ConfirmsOnce
  OwnQuestion
