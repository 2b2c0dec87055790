CONSTANTS
  Modules <- Compiled
  MaxCallDepth = 6
  Groups = {"plain", "modern", "nested", "logical", "numeric", "passed", "guarded", "files"}
SPECIFICATION Spec
INVARIANTS CompiledMeansSource StackBalanced ValuesOwned RestoresExactly
CHECK_DEADLOCK FALSE
