SPECIFICATION ControlSpec
CONSTANTS
  s1 = s1
  a1 = a1
  a2 = a2
  a3 = a3
  b1 = b1
  b2 = b2
  w1 = w1
  w2 = w2
  Nil = Nil
  Empty = Empty
  FirstWord = w1
  Words = {w1, w2}
  Sessions = {s1}
  Starts = {a1}
  Stops = {b1}
  MaxSaves = 0
  Remote = {}
  Faults = {}
INVARIANTS
  MenuIsTrue
