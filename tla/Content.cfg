SPECIFICATION Spec
CONSTANTS
  None = None
  k1 = k1
  k2 = k2
  k3 = k3
  k4 = k4
  r1 = r1
  r2 = r2
  Kinds = {"event", "tirth", "ad", "news", "payment"}
  Keys = {k1, k2, k3, k4}
  Dates = {1, 2}
  Times = {1, 2}
  Requests = {r1, r2}
  MaxImages = 2
  MaxCalls = 5
  MaxFaults = 1
SYMMETRY Symmetry
CHECK_DEADLOCK FALSE
INVARIANTS Serves LimitHeld ColumnsAgree ObjectsGo
