SPECIFICATION FairSpec
CONSTANTS
  Replicas = {r1, r2}
  Writers = {r1}
  Blocks = {c1, c2}
  Faults = {"close", "crash", "dag", "badger", "stream"}
  MaxFaults = 1
  Nil = Nil
INVARIANTS MarksAreBetween  
PROPERTIES Replicated CloseReturns
