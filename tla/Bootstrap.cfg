SPECIFICATION FairSpec
CONSTANTS
  p1 = p1  p2 = p2  r1 = r1
  Processes = {p1, p2}
  Requests = {r1}
  Host <- MCHost
  MaxFaults = 2
INVARIANT
  ServesPrepared
PROPERTIES
  SeedsOnlyWithoutLeads
  AllServe
