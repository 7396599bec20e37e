SPECIFICATION Spec
CONSTANTS
  crm = crm  email = email  r1 = r1
  Servers = {crm, email}
  Refreshers = {r1}
INVARIANT
  DegradedWhenUnavailable
