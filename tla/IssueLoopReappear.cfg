CONSTANTS
  contract = contract
  gap = gap
  Findings <- MCFindings
  Gaps <- MCGaps
  Publishers = {pub}
  Unreadable = Unreadable
  Serial = TRUE
  ListLimit = 3
  MaxIssues = 3
  MaxChanges = 3
  MaxFaults = 0
SPECIFICATION Spec
INVARIANT ReappearingReusesIssue
