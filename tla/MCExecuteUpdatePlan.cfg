SPECIFICATION FairSpec
CONSTANTS
  a = a
  b = b
  c = c
  d = d
  e = e
  src = src
  Outputs = {a, b, c, d, e}
  Sources = {src}
  Deps <- MCDeps
  NoTarget = NoTarget
  Workers = {w1, w2}
INVARIANTS
  TypeOK
  CountsMatchPending
  OneJobPerFile
  InputsFirst
  NoLostWakeUp
  WorkConserving
  ReportIsExact
  NoJobLeftBehind
PROPERTIES
  Implements
  Terminates
CHECK_DEADLOCK FALSE
