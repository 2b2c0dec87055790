SPECIFICATION FairSpec
CONSTANTS
  Main = main
  c1 = c1
  c2 = c2
  Fiber = {main, f1, f2}
  Chan = {c1, c2}
  AskedCap <- BufferedAndNot
  Val = {v1, v2}
  Nil = nil
  MaxOps = 3
INVARIANTS TypeOK OnePlace NoLostWakeup DeadlockIsReal
PROPERTIES Rendezvous KeepsChannelPromise ProgramEnds
