SPECIFICATION FairSpec
CONSTANTS
  c1 = c1
  c2 = c2
  r1 = r1
  r2 = r2
  Callers = {c1}
  Runtimes = {r1}
  Main = r1
  HomeOf <- HomeOne
  Mortal = {}
  Driver = Driver
  Cleanup = Cleanup
  Ids = {}
  MaxTerm = 1
  Outside = {"answer", "eof", "overload"}
INVARIANTS NormalEnd
PROPERTIES HandshakeSafe HandshakeEnds
CHECK_DEADLOCK FALSE
