SPECIFICATION Spec
CONSTANTS
  c1 = c1  c2 = c2  k1 = k1  k2 = k2
  Chats = {c1}
  Confirms = {k1}
  MaxRounds <- MCRounds
  MaxCalls <- MCCalls
  HistoryLimit = 6
PROPERTY
  HistoryEndsWithResult
