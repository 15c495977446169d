SPECIFICATION Spec
CONSTANTS
  Nodes = {1, 2}
  Writers = {w1}
  Readers = {r1}
  Home <- Homes
  Checkers = {1, 2}
  MaxTries <- Tries
  MaxFaults = 1
  Nil = Nil
INVARIANTS TypeOK   NothingIsLeaked
CHECK_DEADLOCK FALSE
