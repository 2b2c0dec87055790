CONSTANTS
  Fiber = {main, f1}
  Main = main
  Frame = {a, b, c, d}
  MaxActivations = 5
  MaxHandlers = 2
  Escapes = {"spawn", "global"}
SPECIFICATION Spec
SYMMETRY Symmetry
INVARIANTS TypeOK FrameOnce HandlerFrameLive RefsLive
