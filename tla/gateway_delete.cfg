SPECIFICATION Spec
CONSTANTS
  Procs = {p1, p2}
  Buckets = {1, 2}
  Objects = {1}
  Infos = {i}
  Datas <- Files
  Prefixes <- AllNames
  Maxes = {0}
  Ops = {"CreateBucket", "DeleteBucket", "RemoveObject", "ObjectInfo", "GetBucketInfo", "GetBucketHash", "GetObjectHash"}
  Nil = Nil
  ChunkSize = 2
  Ranges <- RangeHeaders
  Calls <- MCCalls
  CanFail = FALSE
INVARIANTS BulkDeletesAreAnswered
