SPECIFICATION Spec
CONSTANTS
  Capacity = 3
  Interval = 2
  RecentWindow = 3
  None = None
  MaxTime = 6
  MaxRecords = 4
INVARIANTS TypeOK WindowsExact RecentExact
PROPERTY QueueSpec
