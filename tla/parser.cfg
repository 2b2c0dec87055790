CONSTANTS
  MaxEdits = 1
  MaxOps = 3
  Typed = {"x", "1", ";", ",", "end", "begin", "else", "(", ")", "=", "..", "case", ":=", "record", ":", "<", "uses"}
  Operators = {"or", "xor", "and", "=", "in", "+", "-", "*", "div", "shl", "shr"}
  Groups = {"statements", "declarations", "modern"}
SPECIFICATION Spec
INVARIANTS AcceptedMeansWhole GroupsByLevel StuckAtKeywordOnly
CHECK_DEADLOCK FALSE
