CONSTANTS
  MaxEdits = 1
  MaxOps = 0
  Typed = {";"}
  Operators = {}
  Groups = {"declarations"}
SPECIFICATION Spec
INVARIANT ParserEnds
CHECK_DEADLOCK FALSE
