SPECIFICATION Spec
CONSTANTS
  None = None
  IdName = IdName
  Agents = {a1, a2}
  Issues = {i1}
  Names = {n1}
  Chars = {c1}
  Seats = {s1}
  MaxRuns = 2
SYMMETRY Symmetry
INVARIANTS TypeOK RunEdgesConsistent SurfaceAgrees OperationsAddressed
PROPERTY HumanWaitKept
