SPECIFICATION Spec
CONSTANTS
  Containers = {c1, c2, c3}
  Refunction = {c1, c2}
  Handlers = {h1, h2, h3, h4}
  None = None
SYMMETRY Symmetry
INVARIANTS StartedIsActive ListComplete 
PROPERTY SetupAdvances
CHECK_DEADLOCK FALSE
