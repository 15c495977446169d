SPECIFICATION Spec
CONSTANTS
  Buckets = {1}
  Objects = {1}
  Infos = {i1}
  Datas = {d1}
  Prefixes = {{1}}
  Maxes = {0}
  Ops = {"CreateBucket", "DeleteBucket", "PutObject", "RemoveObject", 
         "GetObjectInfos", "NewMultipartUpload"}
  Nil = Nil
  Absent = Absent
  Procs = {p1, p2, p3}
  Entries = {1, 2, 3, 4, 5}
  Failing = {"saveobject", "dsget", "fetch", "getobject", "dsdelete", 
         "query", "savebucket", "dsput"}
  CanCrash = TRUE
SYMMETRY Symmetry
INVARIANTS TypeOK RootsResolve NoPanic NoDataRace
