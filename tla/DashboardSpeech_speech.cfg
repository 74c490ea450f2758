SPECIFICATION DashSpec
CONSTANTS
  s1 = s1
  t1 = t1
  a1 = a1
  b1 = b1
  Nil = Nil
  Empty = Empty
  Sessions = {s1, t1}
  Tests = {t1}
  Starts = {a1}
  Stops = {}
  Faults = {"late"}
INVARIANTS
  NeverStranded
  OutcomeOnce
PROPERTIES
  TestStopReturns
