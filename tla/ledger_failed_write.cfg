SPECIFICATION Spec
CONSTANTS
  Buckets = {1}
  Objects = {1, 2}
  Infos = {i1}
  Datas = {d1}
  Prefixes = {{1, 2}}
  Maxes = {0}
  Ops = {"CreateBucket", "PutObject"}
  Nil = Nil
  Absent = Absent
  Procs = {p1, p2}
  Entries = {1, 2, 3, 4}
  Failing = {"savebucket", "dsput"}
  CanCrash = FALSE
SYMMETRY Symmetry
INVARIANTS CacheCoherent
