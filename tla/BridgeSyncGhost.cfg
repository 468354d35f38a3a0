SPECIFICATION SyncSpec
CONSTANTS
  None = None
  Agents = {a1}
  Runs = {r1}
  Issues = {i1}
  Approvals = {}
  Founders = {a1}
  Backlog = {i1}
  MaxActivity = 2
  MaxFaults = 0
  MaxTasks = 1
PROPERTY CountedRunsExist
