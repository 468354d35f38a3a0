SPECIFICATION Spec
CONSTANTS
  None = None
  IdName = IdName
  HostName = n1
  Names = {n1}
  Chars = {c1}
  Seats = {s1}
  ResyncEvery = 2
  MaxActivity = 3
  MaxRuns = 1
  MaxFaults = 0
  MaxWire = 2
PROPERTY CaptionCleared
