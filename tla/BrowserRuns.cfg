CONSTANTS
  Runs = {r1, r2}
  Mutations = {m1}
  Contracts = {c1, c2}
  Nothing = Nothing
  run = run
  mutate = mutate
  t1 = t1
  t2 = t2
  s1 = s1
  s2 = s2
  Commands = {run, mutate}
  Mutates = {mutate}
  Plan <- MCPlan
  Services = {s1, s2}
  Uses <- MCUses
  Outsider = Outsider
  Nobody = Nobody
SPECIFICATION BrowserSpec
INVARIANTS BrowserTyped ReportIsOwn NoMutatedBaseline
INVARIANTS LeftoverReported TeardownsTried PassedServed OwnServer
PROPERTY MutationKeepsReport
SYMMETRY BrowserSymmetry
CHECK_DEADLOCK FALSE
