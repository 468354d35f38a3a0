SPECIFICATION Spec
CONSTANTS
  None = None
  IdName = IdName
  Agents = {a1}
  Issues = {i1}
  Names = {n1}
  Chars = {c1}
  Seats = {s1, s2}
  MaxRuns = 1
INVARIANT SeatReachesSurface
