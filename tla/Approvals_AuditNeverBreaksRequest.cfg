SPECIFICATION Spec
CONSTANTS
  ann = ann  bob = bob  root = root
  h1 = h1  h2 = h2  h3 = h3
  a1 = a1  a2 = a2
  benign = benign  altered = altered
  NoArgs = NoArgs
  Role <- MCRole
  Digest <- MCDigest
  Handlers = {h1}
  Approvals = {a1}
  Users = {ann}
  Args = {benign}
  TTL = 1
  MaxTime = 1
  Environment = {"audit"}
INVARIANT
  AuditNeverBreaksRequest
