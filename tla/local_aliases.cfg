CONSTANTS
  Modules <- Compiled
  MaxCallDepth = 6
  Groups = {"aliased"}
SPECIFICATION Spec
INVARIANT ValuesOwned
CHECK_DEADLOCK FALSE
