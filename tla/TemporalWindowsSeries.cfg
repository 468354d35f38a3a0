SPECIFICATION Spec
CONSTANTS
  Capacity = 3
  Interval = 2
  RecentWindow = 3
  None = None
  MaxTime = 3
  MaxRecords = 2
INVARIANT SeriesOldestFirst
