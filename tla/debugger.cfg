CONSTANTS
  Routine <- Routines
  Entry = "main"
  Code <- Loops
  Lines <- LinesOfLoops
  Line = {2, 5, 7, 8}
  MaxSteps = 28
  MaxRequests = 7
SPECIFICATION FairSpec
PROPERTIES BreakpointsStop ResumeEnds
CHECK_DEADLOCK FALSE
