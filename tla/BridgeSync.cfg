SPECIFICATION SyncSpec
CONSTANTS
  None = None
  Agents = {a1, a2}
  Runs = {r1}
  Issues = {i1}
  Approvals = {p1}
  Founders = {a1}
  Backlog = {i1}
  MaxActivity = 2
  MaxFaults = 1
  MaxTasks = 2
INVARIANTS TypeOK StartsCountedOnce RunsProjected TrackerCoversRuns
PROPERTIES SnapshotRepairs TrackerKept StoreConverges
