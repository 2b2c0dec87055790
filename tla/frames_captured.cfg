CONSTANTS
  Fiber = {main, f1}
  Main = main
  Frame = {a, b, c}
  MaxActivations = 4
  MaxHandlers = 1
  Escapes = {"spawn"}
SPECIFICATION Spec
SYMMETRY Symmetry
INVARIANTS CapturesKept
