SPECIFICATION FairSpec
CONSTANTS
  crm = crm  email = email  r1 = r1
  Servers = {crm, email}
  Refreshers = {r1}
INVARIANTS
  SessionIsSupervised
  AbsenceIsRecorded
  NothingLeftBehind
PROPERTIES
  NobodyHangs
  StartupEnds
