CONSTANTS
  contract = contract
  gap = gap
  Findings <- MCFindings
  Gaps <- MCGaps
  Publishers = {pub}
  Unreadable = Unreadable
  Serial = TRUE
  ListLimit = 3
  MaxIssues = 3
  MaxChanges = 1
  MaxFaults = 1
SPECIFICATION Spec
PROPERTY ResolvedOnlyAfterRerun
