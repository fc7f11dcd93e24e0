SPECIFICATION Spec
CONSTANTS
  Outputs = {a, b, c}
  Sources = {src}
  MaxDeps = 2
INVARIANTS PlanIsClosedForm LeftoverIsCyclic
PROPERTIES EraseIsClosedForm
CHECK_DEADLOCK FALSE
