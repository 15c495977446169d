SPECIFICATION Spec
CONSTANTS
  Buckets = {1}
  Objects = {1}
  Infos = {i1}
  Datas = {d1}
  Prefixes = {{1}}
  Maxes = {0}
  Ops = {"CreateBucket", "NewMultipartUpload"}
  Nil = Nil
  Absent = Absent
  Procs = {p1, p2}
  Entries = {1, 2, 3, 4}
  Failing = {}
  CanCrash = FALSE
SYMMETRY Symmetry
PROPERTIES CreatesOnlyIfAbsent
