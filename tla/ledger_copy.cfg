SPECIFICATION FairSpec
CONSTANTS
  Buckets = {1, 2}
  Objects = {1}
  Infos = {i1}
  Datas = {d1}
  Prefixes = {{1}}
  Maxes = {0}
  Ops = {"CreateBucket", "PutObject", "CopyObject"}
  Nil = Nil
  Absent = Absent
  Procs = {p1, p2}
  Entries = {1, 2, 3, 4, 5}
  Failing = {}
  CanCrash = FALSE
INVARIANTS InfoMatchesKey
PROPERTIES Atomic EveryRequestReturns
