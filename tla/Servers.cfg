CONSTANTS
  Requests = {q1, q2}
  Kinds = {"save", "apply", "setup", "docs", "bundle", "command", "profile", "decide"}
  Kept = 1
  Deliveries = {d1, d2}
  Repos = {r1, r2}
  Findings = {f}
  Setup = setup
  Page = 1
  Ingests = {g1, g2}
  Validators = {v1, v2}
  Inputs = {x, y}
  Absent = Absent
  contract = contract
  target = target
  Candidates = {contract}
  Places = {target}
  PlaceOf <- MCPlaceOf
  Changeable = {page, note}
  Ignorable = {note}
SPECIFICATION ServersSpec
INVARIANTS ServersTyped LogsKeep AuditReplays UnforcedSpares OneIssue HiveRespected AllAnswered
INVARIANTS IngestedOnce ReceiptRepeats NothingLeft PlansRelate
PROPERTY StoreAgrees
SYMMETRY ServersSymmetry
CHECK_DEADLOCK FALSE
