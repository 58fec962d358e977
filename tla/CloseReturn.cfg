SPECIFICATION FairSpec
CONSTANTS
  c1 = c1
  c2 = c2
  r1 = r1
  r2 = r2
  Callers = {c1, c2}
  Runtimes = {r1, r2}
  Main = r1
  HomeOf <- HomeTwo
  Mortal = {r1}
  Driver = Driver
  Cleanup = Cleanup
  Ids = {1}
  MaxTerm = 0
  Outside = {"drop", "noseq", "io"}
INVARIANTS TakeoverSound
PROPERTIES CloseReturns
CHECK_DEADLOCK FALSE
