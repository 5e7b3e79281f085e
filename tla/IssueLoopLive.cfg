CONSTANTS
  contract = contract
  gap = gap
  Findings <- MCFindings
  Gaps <- MCGaps
  Publishers = {pub}
  Unreadable = Unreadable
  Serial = FALSE
  ListLimit = 4
  MaxIssues = 4
  MaxChanges = 2
  MaxFaults = 1
SPECIFICATION FairSpec
PROPERTY ActiveIsPublished
