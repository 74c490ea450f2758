SPECIFICATION Spec
CONSTANTS
  s1 = s1
  s2 = s2
  s3 = s3
  a1 = a1
  a2 = a2
  b1 = b1
  Nil = Nil
  Empty = Empty
  Sessions = {s1, s2}
  Starts = {a1}
  Stops = {b1}
  Faults = {}
PROPERTIES
  OnlyStartLeavesIdle
