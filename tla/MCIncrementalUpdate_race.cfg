SPECIFICATION Spec
CONSTANTS
  g = g
  t = t
  u = u
  s = s
  h = h
  k = k
  Outputs = {g, t, u}
  Sources = {s, h, k}
  Inputs <- MCInputs
  Groups <- MCGroups
  OrderOnly <- MCOrderOnly
  Reported <- MCReported
  Versions = {0, 1}
  EditsDuringRun = TRUE
INVARIANTS
  SameImprintMeansUpToDate
