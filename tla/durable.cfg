SPECIFICATION Spec
CONSTANTS
  Script = {a, b, c}
  Concurrent = {c}
  Unwinding = {b}
  UsingFiles = {b}
  Input = {i, j}
  MaxSteps = 3
  MaxHeap = 1
  MaxOutput = 1
  MaxCalls = 3
  Off = Off
SYMMETRY InputSymmetry
INVARIANTS TypeOK StatesArePaused
PROPERTIES KeepsWorkflowPromise
