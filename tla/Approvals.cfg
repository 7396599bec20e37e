SPECIFICATION Spec
CONSTANTS
  ann = ann  bob = bob  root = root
  h1 = h1  h2 = h2  h3 = h3
  a1 = a1  a2 = a2
  benign = benign  altered = altered
  NoArgs = NoArgs
  Role <- MCRole
  Digest <- MCDigest
  Handlers = {h1, h2}
  Approvals = {a1}
  Users = {ann, bob, root}
  Args = {benign, altered}
  TTL = 1
  MaxTime = 1
  Environment = {"crash", "audit", "tamper", "catalog", "sweeper"}
SYMMETRY HandlerSymmetry
INVARIANTS
  AtMostOneDispatch
  SentAsShown
  SentWithConsent
  AnswersAreTrue
PROPERTIES
  DecidedOnce
  ImplementsGate
