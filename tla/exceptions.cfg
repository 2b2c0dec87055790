SPECIFICATION Spec
CONSTANTS
  MaxFrames = 2
  MaxNesting = 2
  MaxHandlers = 2
  MaxCleanup = 1
  Values = {v1, v2}
  Programs <- EveryProgram
SYMMETRY Symmetric
INVARIANTS TypeOK HandlersNested HandlersExact ActiveOnlyInCleanup
PROPERTIES CleanupStarts CleanupOnce
