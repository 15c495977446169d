SPECIFICATION Spec
CONSTANTS
  Buckets = {1}
  Objects = {1, 2}
  Infos = {i1}
  Datas = {d1}
  Prefixes = {{1, 2}}
  Maxes = {0, 1}
  Ops = {"CreateBucket", "DeleteBucket", "PutObject", "RemoveObject", 
         "RemoveObjects", "ObjectInfo", "GetBucketInfo", 
         "GetBucketHash", "AssertBucketExits", "GetObjectHash", 
         "GetObjectInfos", "GetBucketNames"}
  Nil = Nil
  Absent = Absent
  Procs = {p1, p2}
  Entries = {1, 2, 3, 4}
  Failing = {"saveobject", "dsget", "fetch", "getobject", "dsdelete", 
         "query"}
  CanCrash = TRUE
SYMMETRY Symmetry
INVARIANTS CacheCoherent
PROPERTIES CreatesOnlyIfAbsent 
