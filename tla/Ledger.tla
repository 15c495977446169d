------------------------------- MODULE Ledger -------------------------------
(***************************************************************************)
(* The bucket ledger of the s3x gateway: ledgerStore's bucket and object   *)
(* functions, as run by concurrent request goroutines over a datastore     *)
(* (bucket name -> bucket hash), IPFS (the blocks) and an in-memory cache. *)
(*                                                                         *)
(* Between two steps of a goroutine any other goroutine may run.  A step   *)
(* is one access to shared state: a lock, the cache map under mapLocker,   *)
(* one call to the datastore, one call to IPFS.  Bucket messages in memory *)
(* are reached through entries, which are shared by pointer: heap holds    *)
(* the entries that some pointer still reaches.                            *)
(***************************************************************************)
EXTENDS LedgerTypes, Sequences

CONSTANTS
  Procs,      \* the goroutines that serve requests
  Entries,    \* addresses for LedgerBucketEntry values
  Absent,     \* the value of a key that is not in the Buckets map
  Failing,    \* the steps whose call to IPFS or to the datastore may fail
  CanCrash    \* whether the process may stop and start again

(***************************************************************************)
(* Every bucket may have one cached entry and every goroutine may hold one *)
(* more, so with one entry to spare an allocation always succeeds.         *)
(***************************************************************************)
ASSUME EnoughEntries ==
  /\ Entries \subseteq Int
  /\ Cardinality(Entries) > Cardinality(Buckets) + Cardinality(Procs)

ASSUME NilIsDistinct ==
  /\ Nil \notin Int \cup Procs \cup Object \cup BucketBlock \cup Bucket \cup Entry
  /\ Nil \notin Request
  /\ Absent \notin Entries \cup {Nil}

BackendSteps == {"saveobject", "dsget", "fetch", "getobject", "savebucket",
                 "dsput", "dsdelete", "query"}

ASSUME Switches == Failing \subseteq BackendSteps /\ CanCrash \in BOOLEAN

VARIABLES
  ds,         \* the datastore: bucket -> hash of its bucket block, or Nil
  bblocks,    \* the bucket blocks stored in IPFS
  oblocks,    \* the object blocks stored in IPFS
  cache,      \* ledgerStore.l.Buckets: bucket -> entry address, Nil or Absent
  heap,       \* entry address -> LedgerBucketEntry (Nil: not allocated)
  readers,    \* bucket -> goroutines holding its RWMutex for reading
  writer,     \* bucket -> goroutine holding, or waiting to hold, it for writing
  pc,         \* the next step of each goroutine
  req,        \* the request it serves
  res,        \* the answer it is about to give
  nlocks,     \* how many of its locks it has taken
  stage,      \* which bucket resolution of its request it is in
  ent,        \* local variable b *LedgerBucketEntry
  bhash,      \* local variable bHash
  obj,        \* local variable obj / oHash (an object or its hash)
  names,      \* GetObjectInfos: names still to read; removeObjects: missing
  list        \* GetObjectInfos: objects read so far

shared == <<ds, bblocks, oblocks, cache, heap>>
locks  == <<readers, writer, nlocks>>
locals == <<ent, bhash, obj, names, list>>
vars   == <<shared, locks, locals, pc, req, res, stage>>

-----------------------------------------------------------------------------
(* Types *)

PCs == {"idle", "lock", "lockwait", "saveobject", "lookup", "dsget",
        "setnil", "fill", "load", "fetch", "panic", "use", "getobject",
        "savebucket", "dsput", "install", "uncache", "dsdelete", "query",
        "return"}

Stages == {"main", "assert", "source", "item"}

TypeOK ==
  /\ ds \in [Buckets -> BucketBlock \cup {Nil}]
  /\ bblocks \subseteq BucketBlock
  /\ oblocks \subseteq Object
  /\ cache \in [Buckets -> Entries \cup {Nil, Absent}]
  /\ heap \in [Entries -> Entry \cup {Nil}]
  /\ readers \in [Buckets -> SUBSET Procs]
  /\ writer \in [Buckets -> Procs \cup {Nil}]
  /\ pc \in [Procs -> PCs]
  /\ req \in [Procs -> Request \cup {Nil}]
  /\ DOMAIN res = Procs
  /\ nlocks \in [Procs -> Nat]
  /\ stage \in [Procs -> Stages]
  /\ ent \in [Procs -> Entries \cup {Nil}]
  /\ bhash \in [Procs -> BucketBlock \cup {Nil}]
  /\ obj \in [Procs -> Object \cup {Nil}]
  /\ names \in [Procs -> SUBSET Objects]
  /\ list \in [Procs -> SUBSET Object]

Init ==
  /\ ds = [b \in Buckets |-> Nil]
  /\ bblocks = {}
  /\ oblocks = {}
  /\ cache = [b \in Buckets |-> Absent]
  /\ heap = [e \in Entries |-> Nil]
  /\ readers = [b \in Buckets |-> {}]
  /\ writer = [b \in Buckets |-> Nil]
  /\ pc = [p \in Procs |-> "idle"]
  /\ req = [p \in Procs |-> Nil]
  /\ res = [p \in Procs |-> Nil]
  /\ nlocks = [p \in Procs |-> 0]
  /\ stage = [p \in Procs |-> "main"]
  /\ ent = [p \in Procs |-> Nil]
  /\ bhash = [p \in Procs |-> Nil]
  /\ obj = [p \in Procs |-> Nil]
  /\ names = [p \in Procs |-> {}]
  /\ list = [p \in Procs |-> {}]

-----------------------------------------------------------------------------
(* Control *)

Goto(p, l) == pc' = [pc EXCEPT ![p] = l]

(* The function returns a; deferred unlocks run in Return. *)
Finish(p, a) ==
  /\ res' = [res EXCEPT ![p] = a]
  /\ Goto(p, "return")

(* The bucket that getBucketNilable is resolving for p. *)
Cur(p) == IF stage[p] = "source" THEN req[p].src ELSE req[p].b

(* n is the name GetObjectInfos reads next: names are sorted. *)
IsNextName(p, n) == n \in names[p] /\ \A m \in names[p] : n <= m

(***************************************************************************)
(* The garbage collector: heap h without the entries that neither the map  *)
(* c nor a local variable l reaches.                                       *)
(***************************************************************************)
Collect(h, c, l) ==
  [e \in Entries |->
     IF (\E b \in Buckets : c[b] = e) \/ (\E p \in Procs : l[p] = e)
     THEN h[e] ELSE Nil]

IsNextFree(e) == heap[e] = Nil /\ \A f \in Entries : heap[f] = Nil => e <= f

-----------------------------------------------------------------------------
(* Locks.  A RWMutex as sync.RWMutex gives it: a writer first announces    *)
(* itself, which keeps new readers out, then waits for the readers inside. *)

WriteOps == {"CreateBucket", "DeleteBucket", "PutObject", "RemoveObject",
             "RemoveObjects"}

ReadOps == {"GetBucketInfo", "GetBucketHash", "AssertBucketExits",
            "ObjectInfo", "GetObjectHash", "GetObjectInfos"}

R(b) == [mode |-> "read", b |-> b]
W(b) == [mode |-> "write", b |-> b]

(* Mutants: a read without its lock; a destination locked before a source  *)
(* of a larger name; a source read without its lock.                       *)
LockPlanUnlockedRead(r) ==
  IF r.op \in WriteOps THEN <<W(r.b)>> ELSE <<>>

LockPlanUnordered(r) ==
  IF r.op = "CopyObject" /\ r.src # r.b THEN <<W(r.b), R(r.src)>>
  ELSE IF r.op \in ReadOps THEN <<R(r.b)>> ELSE <<W(r.b)>>

LockPlanUnlockedSource(r) ==
  IF r.op \in ReadOps THEN <<R(r.b)>> ELSE <<W(r.b)>>

(***************************************************************************)
(* The locks a request takes, in order.  CopyObject takes the larger name  *)
(* first.  NewMultipartUpload resolves the bucket with no lock at all.     *)
(***************************************************************************)
LockPlan(r) ==
  CASE r.op \in WriteOps -> <<W(r.b)>>
    [] r.op \in ReadOps -> <<R(r.b)>>
    [] r.op = "CopyObject" ->
         IF r.src = r.b THEN <<W(r.b)>>
         ELSE IF r.src > r.b THEN <<R(r.src), W(r.b)>>
         ELSE <<W(r.b), R(r.src)>>
    [] OTHER -> <<>>

(* Where the body of the request starts once its locks are held. *)
Start(r) ==
  CASE r.op = "PutObject" -> "saveobject"
    [] r.op = "GetBucketNames" -> "query"
    [] OTHER -> "lookup"

NextLock(p) == LockPlan(req[p])[nlocks[p] + 1]

(* The lock in hand is p's n-th: take the next one, or begin the body. *)
Locked(p, n) ==
  /\ nlocks' = [nlocks EXCEPT ![p] = n]
  /\ Goto(p, IF n < Len(LockPlan(req[p])) THEN "lock" ELSE Start(req[p]))

ReadLock(p) ==
  /\ pc[p] = "lock" /\ NextLock(p).mode = "read"
  /\ writer[NextLock(p).b] = Nil
  /\ readers' = [readers EXCEPT ![NextLock(p).b] = @ \cup {p}]
  /\ Locked(p, nlocks[p] + 1)
  /\ UNCHANGED <<shared, locals, writer, req, res, stage>>

AnnounceWrite(p) ==
  /\ pc[p] = "lock" /\ NextLock(p).mode = "write"
  /\ writer[NextLock(p).b] = Nil
  /\ writer' = [writer EXCEPT ![NextLock(p).b] = p]
  /\ Goto(p, "lockwait")
  /\ UNCHANGED <<shared, locals, readers, nlocks, req, res, stage>>

WriteLock(p) ==
  /\ pc[p] = "lockwait"
  /\ readers[NextLock(p).b] = {}
  /\ Locked(p, nlocks[p] + 1)
  /\ UNCHANGED <<shared, locals, readers, writer, req, res, stage>>

(* The deferred unlocks, and the answer to the client. *)
Return(p) ==
  /\ pc[p] = "return"
  /\ readers' = [b \in Buckets |-> readers[b] \ {p}]
  /\ writer' = [b \in Buckets |-> IF writer[b] = p THEN Nil ELSE writer[b]]
  /\ nlocks' = [nlocks EXCEPT ![p] = 0]
  /\ Goto(p, "idle")
  /\ req' = [req EXCEPT ![p] = Nil]
  /\ res' = [res EXCEPT ![p] = Nil]
  /\ stage' = [stage EXCEPT ![p] = "main"]
  /\ ent' = [ent EXCEPT ![p] = Nil]
  /\ bhash' = [bhash EXCEPT ![p] = Nil]
  /\ obj' = [obj EXCEPT ![p] = Nil]
  /\ names' = [names EXCEPT ![p] = {}]
  /\ list' = [list EXCEPT ![p] = {}]
  /\ heap' = Collect(heap, cache, ent')
  /\ UNCHANGED <<ds, bblocks, oblocks, cache>>

-----------------------------------------------------------------------------
(* A request arrives.  xObjects.PutObject has built the Object by then. *)
Call(p, r) ==
  /\ pc[p] = "idle"
  /\ req' = [req EXCEPT ![p] = r]
  /\ stage' = [stage EXCEPT ![p] = IF r.op = "CopyObject" THEN "assert" ELSE "main"]
  /\ obj' = [obj EXCEPT ![p] =
               IF r.op = "PutObject"
               THEN [bucket |-> r.b, name |-> r.o, data |-> r.data] ELSE Nil]
  /\ Goto(p, IF LockPlan(r) = <<>> THEN Start(r) ELSE "lock")
  /\ UNCHANGED <<shared, locks, res, ent, bhash, names, list>>

-----------------------------------------------------------------------------
(* Resolving a bucket: getBucketNilable, getBucketRequired, bucketExists    *)

(***************************************************************************)
(* getBucketNilable has returned e, leaving heap h and map c: what its     *)
(* caller does next.  The operations not named go on to ensureCache.       *)
(***************************************************************************)
Resolved(p, e, h, c) ==
  /\ cache' = c
  /\ ent' = [ent EXCEPT ![p] = e]
  /\ heap' = Collect(h, c, [ent EXCEPT ![p] = e])
  /\ LET op == req[p].op IN
     \/ /\ e = Nil /\ op = "CreateBucket"
        /\ Goto(p, "savebucket") /\ UNCHANGED <<res, stage>>
     \/ /\ e = Nil /\ op # "CreateBucket"
        /\ Finish(p, BucketDoesNotExist) /\ UNCHANGED stage
     \/ /\ e # Nil /\ op = "CreateBucket"
        /\ Finish(p, BucketExists) /\ UNCHANGED stage
     \/ /\ e # Nil /\ op \in {"AssertBucketExits", "NewMultipartUpload"}
        /\ Finish(p, Ok(Nil)) /\ UNCHANGED stage
     \/ /\ e # Nil /\ op = "GetBucketHash"
        /\ Finish(p, Ok(h[e].hash)) /\ UNCHANGED stage
     \/ /\ e # Nil /\ op = "DeleteBucket"
        /\ Goto(p, "uncache") /\ UNCHANGED <<res, stage>>
     \/ /\ e # Nil /\ stage[p] = "assert"
        /\ stage' = [stage EXCEPT ![p] = "source"]
        /\ Goto(p, "lookup") /\ UNCHANGED res
     \/ /\ e # Nil /\ stage[p] # "assert"
        /\ op \notin {"CreateBucket", "AssertBucketExits", "NewMultipartUpload",
                      "GetBucketHash", "DeleteBucket"}
        /\ Goto(p, "load") /\ UNCHANGED <<res, stage>>

Lookup(p) ==
  /\ pc[p] = "lookup"
  /\ \/ /\ cache[Cur(p)] = Absent
        /\ Goto(p, "dsget")
        /\ UNCHANGED <<cache, heap, ent, res, stage>>
     \/ /\ cache[Cur(p)] # Absent
        /\ Resolved(p, cache[Cur(p)], heap, cache)
  /\ UNCHANGED <<ds, bblocks, oblocks, locks, bhash, obj, names, list, req>>

(* Mutant: the hash that was read does not reach the new entry. *)
DsGetDropsHash(p) ==
  /\ pc[p] = "dsget"
  /\ Goto(p, IF ds[Cur(p)] = Nil THEN "setnil" ELSE "fill")
  /\ UNCHANGED <<shared, locks, locals, req, res, stage>>

DsGet(p) ==
  /\ pc[p] = "dsget"
  /\ bhash' = [bhash EXCEPT ![p] = ds[Cur(p)]]
  /\ Goto(p, IF ds[Cur(p)] = Nil THEN "setnil" ELSE "fill")
  /\ UNCHANGED <<shared, locks, ent, obj, names, list, req, res, stage>>

(* ErrNotFound: the missing bucket is recorded whatever the map holds now. *)
SetNil(p) ==
  /\ pc[p] = "setnil"
  /\ Resolved(p, Nil, heap, [cache EXCEPT ![Cur(p)] = Nil])
  /\ UNCHANGED <<ds, bblocks, oblocks, locks, bhash, obj, names, list, req>>

(* The hash was found: an entry is added if the map still has none. *)
Fill(p) ==
  /\ pc[p] = "fill"
  /\ \/ /\ cache[Cur(p)] # Absent
        /\ Resolved(p, cache[Cur(p)], heap, cache)
     \/ /\ cache[Cur(p)] = Absent
        /\ \E e \in Entries :
             /\ IsNextFree(e)
             /\ Resolved(p, e, [heap EXCEPT ![e] = [hash |-> bhash[p], bkt |-> Nil]],
                         [cache EXCEPT ![Cur(p)] = e])
  /\ bhash' = [bhash EXCEPT ![p] = Nil]
  /\ UNCHANGED <<ds, bblocks, oblocks, locks, obj, names, list, req>>

-----------------------------------------------------------------------------
(* ensureCache.  The goroutine at "fetch" holds cacheLocker for the hash.   *)

(* Mutant: ensureCache without cacheLocker. *)
LoadUnlocked(p) ==
  /\ pc[p] = "load"
  /\ Goto(p, IF heap[ent[p]].bkt = Nil THEN "fetch" ELSE "use")
  /\ UNCHANGED <<shared, locks, locals, req, res, stage>>

Load(p) ==
  /\ pc[p] = "load"
  /\ \A q \in Procs : pc[q] = "fetch" => heap[ent[q]].hash # heap[ent[p]].hash
  /\ Goto(p, IF heap[ent[p]].bkt = Nil THEN "fetch" ELSE "use")
  /\ UNCHANGED <<shared, locks, locals, req, res, stage>>

Fetch(p) ==
  /\ pc[p] = "fetch"
  /\ heap[ent[p]].hash \in bblocks
  /\ IF heap[ent[p]].bkt # Nil
     THEN Goto(p, "panic") /\ UNCHANGED heap
     ELSE /\ heap' = [heap EXCEPT ![ent[p]].bkt = Unmarshal(heap[ent[p]].hash)]
          /\ Goto(p, "use")
  /\ UNCHANGED <<ds, bblocks, oblocks, cache, locks, locals, req, res, stage>>

-----------------------------------------------------------------------------
(* The loaded bucket is used                                                *)

Bkt(p) == heap[ent[p]].bkt

GetBucketInfo(p) ==
  /\ pc[p] = "use" /\ req[p].op = "GetBucketInfo"
  /\ Finish(p, Ok(Bkt(p).info))
  /\ UNCHANGED <<shared, locks, locals, req, stage>>

GetObjectHash(p) ==
  /\ pc[p] = "use" /\ req[p].op = "GetObjectHash"
  /\ Finish(p, IF Bkt(p).objs[req[p].o] = Nil THEN ObjectDoesNotExist
               ELSE Ok(Bkt(p).objs[req[p].o]))
  /\ UNCHANGED <<shared, locks, locals, req, stage>>

(***************************************************************************)
(* n is the name that ledgerStore.object is asked for: by ObjectInfo and   *)
(* its variants, by CopyObject for its source, by GetObjectInfos for each  *)
(* name of the page.                                                       *)
(***************************************************************************)
Wanted(p, n) ==
  \/ stage[p] = "main" /\ req[p].op = "ObjectInfo" /\ n = req[p].o
  \/ stage[p] = "source" /\ n = req[p].so
  \/ stage[p] = "item" /\ IsNextName(p, n)

FindObject(p) ==
  /\ pc[p] = "use"
  /\ \E n \in Objects :
       /\ Wanted(p, n)
       /\ \/ /\ Bkt(p).objs[n] = Nil
             /\ Finish(p, ObjectDoesNotExist)
             /\ UNCHANGED obj
          \/ /\ Bkt(p).objs[n] # Nil
             /\ obj' = [obj EXCEPT ![p] = Bkt(p).objs[n]]
             /\ Goto(p, "getobject")
             /\ UNCHANGED res
  /\ UNCHANGED <<shared, locks, ent, bhash, names, list, req, stage>>

(* Mutant: CopyObject stores the source's ObjectInfo under the new key. *)
GetObjectKeepsInfo(p) ==
  /\ pc[p] = "getobject" /\ obj[p] \in oblocks
  /\ stage' = [stage EXCEPT ![p] = "main"]
  /\ Goto(p, "saveobject")
  /\ UNCHANGED <<shared, locks, locals, req, res>>

(* ipfsObject has delivered the block: each caller goes on with it. *)
GetObject(p) ==
  /\ pc[p] = "getobject" /\ obj[p] \in oblocks
  /\ \/ /\ req[p].op = "ObjectInfo"
        /\ Finish(p, Ok(obj[p]))
        /\ UNCHANGED <<obj, names, list, stage>>
     \/ /\ req[p].op = "CopyObject"
        /\ obj' = [obj EXCEPT ![p] =
                     [bucket |-> req[p].b, name |-> req[p].o, data |-> @.data]]
        /\ stage' = [stage EXCEPT ![p] = "main"]
        /\ Goto(p, "saveobject")
        /\ UNCHANGED <<res, names, list>>
     \/ /\ req[p].op = "GetObjectInfos"
        /\ \E n \in Objects : /\ IsNextName(p, n)
                              /\ names' = [names EXCEPT ![p] = @ \ {n}]
        /\ list' = [list EXCEPT ![p] = @ \cup {obj[p]}]
        /\ obj' = [obj EXCEPT ![p] = Nil]
        /\ IF names'[p] = {} THEN Finish(p, Ok(list'[p]))
           ELSE Goto(p, "lookup") /\ UNCHANGED res
        /\ UNCHANGED stage
  /\ UNCHANGED <<shared, locks, ent, bhash, req>>

(* Mutant: startsFrom is exclusive. *)
PageAfter(objs, r) ==
  LET matching == {n \in Objects : objs[n] # Nil /\ n \in r.prefix /\ r.from < n}
  IN  {n \in matching :
         r.max > 0 => Cardinality({m \in matching : m < n}) < r.max}

(***************************************************************************)
(* The names GetObjectInfos lists: those with the prefix, from startsFrom  *)
(* on (inclusive), and of these, in order, the first max.                  *)
(***************************************************************************)
Page(objs, r) ==
  LET matching == {n \in Objects : objs[n] # Nil /\ n \in r.prefix /\ r.from <= n}
  IN  {n \in matching :
         r.max > 0 => Cardinality({m \in matching : m < n}) < r.max}

(* GetObjectInfos picks the page, then reads its objects one by one. *)
GetObjectInfos(p) ==
  /\ pc[p] = "use" /\ req[p].op = "GetObjectInfos" /\ stage[p] = "main"
  /\ names' = [names EXCEPT ![p] = Page(Bkt(p).objs, req[p])]
  /\ stage' = [stage EXCEPT ![p] = "item"]
  /\ IF names'[p] = {} THEN Finish(p, Ok({}))
     ELSE Goto(p, "lookup") /\ UNCHANGED res
  /\ UNCHANGED <<shared, locks, ent, bhash, obj, list, req>>

-----------------------------------------------------------------------------
(* Writing                                                                  *)

(* putObject stores the object block before anything refers to it. *)
SaveObject(p) ==
  /\ pc[p] = "saveobject"
  /\ oblocks' = oblocks \cup {obj[p]}
  /\ Goto(p, "lookup")
  /\ UNCHANGED <<ds, bblocks, cache, heap, locks, locals, req, res, stage>>

(* putObjectHash changes the cached map in place, then saves the bucket. *)
PutObjectHash(p) ==
  /\ pc[p] = "use"
  /\ req[p].op = "PutObject" \/ (req[p].op = "CopyObject" /\ stage[p] = "main")
  /\ heap' = [heap EXCEPT ![ent[p]].bkt =
                [@ EXCEPT !.objs[req[p].o] = obj[p], !.made = TRUE]]
  /\ Goto(p, "savebucket")
  /\ UNCHANGED <<ds, bblocks, oblocks, cache, locks, locals, req, res, stage>>

(***************************************************************************)
(* removeObjects: a nil map has nothing to remove; otherwise the names are *)
(* deleted from the cached map in place and the bucket is saved, even when *)
(* all of them were missing.                                               *)
(***************************************************************************)
RemoveObjects(p) ==
  /\ pc[p] = "use" /\ req[p].op \in {"RemoveObject", "RemoveObjects"}
  /\ IF ~Bkt(p).made
     THEN /\ Finish(p, RemoveAnswer(req[p], req[p].names))
          /\ UNCHANGED <<heap, names>>
     ELSE /\ names' = [names EXCEPT ![p] =
                        {o \in req[p].names : Bkt(p).objs[o] = Nil}]
          /\ heap' = [heap EXCEPT ![ent[p]].bkt.objs =
                        [o \in Objects |-> IF o \in req[p].names THEN Nil ELSE @[o]]]
          /\ Goto(p, "savebucket")
          /\ UNCHANGED res
  /\ UNCHANGED <<ds, bblocks, oblocks, cache, locks, ent, bhash, obj, list, req, stage>>

(* The Bucket that saveBucket was given: createBucket's own, or the cached. *)
Saved(p) ==
  IF req[p].op = "CreateBucket"
  THEN [name |-> req[p].b, info |-> req[p].info, objs |-> NoObjects, made |-> FALSE]
  ELSE Bkt(p)

(* Mutant: the root hash is written although its block was not stored. *)
SaveBucketUnstored(p) ==
  /\ pc[p] = "savebucket"
  /\ bhash' = [bhash EXCEPT ![p] = Marshal(Saved(p))]
  /\ Goto(p, "dsput")
  /\ UNCHANGED <<shared, locks, ent, obj, names, list, req, res, stage>>

(* saveBucket's steps: the name check and the block, ... *)
SaveBucket(p) ==
  /\ pc[p] = "savebucket"
  /\ IF Saved(p).name # req[p].b
     THEN /\ Finish(p, Failure("bucket name miss match"))
          /\ UNCHANGED <<bblocks, bhash>>
     ELSE /\ bblocks' = bblocks \cup {Marshal(Saved(p))}
          /\ bhash' = [bhash EXCEPT ![p] = Marshal(Saved(p))]
          /\ Goto(p, "dsput")
          /\ UNCHANGED res
  /\ UNCHANGED <<ds, oblocks, cache, heap, locks, ent, obj, names, list, req, stage>>

(* ... the root hash in the datastore, after which the answer is settled, ... *)
WriteAnswer(p) ==
  CASE req[p].op = "CreateBucket" -> Ok(bhash[p])
    [] req[p].op \in {"RemoveObject", "RemoveObjects"} -> RemoveAnswer(req[p], names[p])
    [] req[p].op = "CopyObject" -> Ok(obj[p])
    [] OTHER -> Ok(Nil)

DsPut(p) ==
  /\ pc[p] = "dsput"
  /\ ds' = [ds EXCEPT ![req[p].b] = bhash[p]]
  /\ res' = [res EXCEPT ![p] = WriteAnswer(p)]
  /\ Goto(p, "install")
  /\ UNCHANGED <<bblocks, oblocks, cache, heap, locks, locals, req, stage>>

(* ... and a new cache entry that shares the Bucket. *)
Install(p) ==
  /\ pc[p] = "install"
  /\ \E e \in Entries :
       /\ IsNextFree(e)
       /\ cache' = [cache EXCEPT ![req[p].b] = e]
       /\ ent' = [ent EXCEPT ![p] = Nil]
       /\ heap' = Collect([heap EXCEPT ![e] = [hash |-> bhash[p], bkt |-> Saved(p)]],
                          cache', ent')
  /\ Goto(p, "return")
  /\ UNCHANGED <<ds, bblocks, oblocks, locks, bhash, obj, names, list, req, res, stage>>

(* Mutant: DeleteBucket leaves the cached entry in place. *)
UncacheNothing(p) ==
  /\ pc[p] = "uncache"
  /\ Goto(p, "dsdelete")
  /\ UNCHANGED <<shared, locks, locals, req, res, stage>>

(* DeleteBucket, once the bucket is known to exist. *)
Uncache(p) ==
  /\ pc[p] = "uncache"
  /\ cache' = [cache EXCEPT ![req[p].b] = Absent]
  /\ ent' = [ent EXCEPT ![p] = Nil]
  /\ heap' = Collect(heap, cache', ent')
  /\ Goto(p, "dsdelete")
  /\ UNCHANGED <<ds, bblocks, oblocks, locks, bhash, obj, names, list, req, res, stage>>

DsDelete(p) ==
  /\ pc[p] = "dsdelete"
  /\ ds' = [ds EXCEPT ![req[p].b] = Nil]
  /\ Finish(p, Ok(Nil))
  /\ UNCHANGED <<bblocks, oblocks, cache, heap, locks, locals, req, stage>>

(* GetBucketNames asks the datastore only. *)
GetBucketNames(p) ==
  /\ pc[p] = "query"
  /\ Finish(p, Ok({b \in Buckets : ds[b] # Nil}))
  /\ UNCHANGED <<shared, locks, locals, req, stage>>

-----------------------------------------------------------------------------
(* Failures                                                                 *)

(***************************************************************************)
(* A call to IPFS or to the datastore returns an error (the node is away,  *)
(* the client has gone and its context is cancelled): the function returns *)
(* it, leaving in memory what it had changed so far.                       *)
(***************************************************************************)
BackendFails(p) ==
  /\ pc[p] \in Failing
  /\ Finish(p, Backend)
  /\ UNCHANGED <<shared, locks, locals, req, stage>>

(***************************************************************************)
(* The process stops and starts again on the same datastore and IPFS.      *)
(***************************************************************************)
Crash ==
  /\ CanCrash
  /\ cache' = [b \in Buckets |-> Absent]
  /\ heap' = [e \in Entries |-> Nil]
  /\ readers' = [b \in Buckets |-> {}]
  /\ writer' = [b \in Buckets |-> Nil]
  /\ pc' = [p \in Procs |-> "idle"]
  /\ req' = [p \in Procs |-> Nil]
  /\ res' = [p \in Procs |-> Nil]
  /\ nlocks' = [p \in Procs |-> 0]
  /\ stage' = [p \in Procs |-> "main"]
  /\ ent' = [p \in Procs |-> Nil]
  /\ bhash' = [p \in Procs |-> Nil]
  /\ obj' = [p \in Procs |-> Nil]
  /\ names' = [p \in Procs |-> {}]
  /\ list' = [p \in Procs |-> {}]
  /\ UNCHANGED <<ds, bblocks, oblocks>>

Step(p) ==
  \/ ReadLock(p) \/ AnnounceWrite(p) \/ WriteLock(p) \/ Return(p)
  \/ Lookup(p) \/ DsGet(p) \/ SetNil(p) \/ Fill(p) \/ Load(p) \/ Fetch(p)
  \/ GetBucketInfo(p) \/ GetObjectHash(p) \/ FindObject(p) \/ GetObject(p)
  \/ GetObjectInfos(p) \/ SaveObject(p) \/ PutObjectHash(p) \/ RemoveObjects(p)
  \/ SaveBucket(p) \/ DsPut(p) \/ Install(p) \/ Uncache(p) \/ DsDelete(p)
  \/ GetBucketNames(p) \/ BackendFails(p)

Next ==
  \/ \E p \in Procs : \E r \in Request : Call(p, r)
  \/ \E p \in Procs : Step(p)
  \/ Crash

Spec == Init /\ [][Next]_vars

(***************************************************************************)
(* The Go scheduler runs every goroutine that can run.  A lock that keeps  *)
(* becoming free is obtained: sync.RWMutex lets waiting readers in when a  *)
(* writer leaves, and sync.Mutex hands a starving waiter the lock.         *)
(***************************************************************************)
FairSpec ==
  /\ Spec
  /\ \A p \in Procs : /\ WF_vars(Step(p))
                      /\ SF_vars(ReadLock(p) \/ AnnounceWrite(p) \/ Load(p))

-----------------------------------------------------------------------------
(* Properties                                                               *)

(***************************************************************************)
(* Every hash the datastore holds can be read back: its bucket block and   *)
(* the object blocks that block names are stored in IPFS.  saveBucket and  *)
(* putObject store a block before anything refers to it, so this holds at  *)
(* every step, hence after any failure and any restart.                    *)
(***************************************************************************)
RootsResolve ==
  \A b \in Buckets : ds[b] # Nil =>
    /\ ds[b] \in bblocks
    /\ \A o \in Objects : ds[b].objs[o] # Nil => ds[b].objs[o] \in oblocks

(***************************************************************************)
(* ensureCache's "state changed unexpectedly" panic is unreachable, though *)
(* many readers of a bucket may load the same entry at once.               *)
(***************************************************************************)
NoPanic == \A p \in Procs : pc[p] # "panic"

(***************************************************************************)
(* The cache is "a cache of the values in datastore and ipfs"              *)
(* (ledgerStore.l): except for a bucket that a writer is in the middle of  *)
(* changing, what is cached for a bucket is what the datastore holds.      *)
(***************************************************************************)
Committing(b) ==
  \E p \in Procs : /\ pc[p] \in {"savebucket", "dsput", "install", "dsdelete"}
                   /\ req[p].b = b

CacheCoherent ==
  \A b \in Buckets : Committing(b) \/ cache[b] = Absent \/
    IF cache[b] = Nil THEN ds[b] = Nil
    ELSE /\ heap[cache[b]].hash = ds[b]
         /\ heap[cache[b]].bkt # Nil => Marshal(heap[cache[b]].bkt) = ds[b]

(***************************************************************************)
(* No goroutine reads a Bucket message while another one changes it in     *)
(* place: putObjectHash and removeObjects write b.Bucket.Objects, which    *)
(* the readers and the Marshal in saveBucket range over.                   *)
(***************************************************************************)
Mutating(p) ==
  /\ pc[p] = "use" /\ stage[p] = "main"
  /\ req[p].op \in {"PutObject", "CopyObject", "RemoveObject", "RemoveObjects"}

NoDataRace ==
  \A p, q \in Procs :
    p # q /\ Mutating(p) /\ pc[q] \in {"use", "savebucket"} => ent[p] # ent[q]

(***************************************************************************)
(* An object's ObjectInfo names the bucket and the key it is stored under, *)
(* also after CopyObject, whatever failed before.                          *)
(***************************************************************************)
InfoMatchesKey ==
  \A b \in Buckets, o \in Objects :
    ds[b] # Nil /\ ds[b].objs[o] # Nil =>
      ds[b].name = b /\ ds[b].objs[o].bucket = b /\ ds[b].objs[o].name = o

(***************************************************************************)
(* "CreateBucket saves a new bucket iff it did not exist": the write of a  *)
(* CreateBucket never replaces a bucket that the datastore holds.          *)
(***************************************************************************)
CreatesOnlyIfAbsent ==
  [][\A p \in Procs : DsPut(p) /\ req[p].op = "CreateBucket" => ds[req[p].b] = Nil]_vars

(***************************************************************************)
(* No request waits for ever: CopyObject takes two bucket locks, and every *)
(* request that can hold one of them gets to its end.                      *)
(***************************************************************************)
EveryRequestReturns == \A p \in Procs : pc[p] # "idle" ~> pc[p] = "idle"

(***************************************************************************)
(* The ledger implements AtomicLedger: the datastore is the store, and     *)
(* every request takes effect at its datastore write or at its last read.  *)
(***************************************************************************)
AL == INSTANCE AtomicLedger WITH store <- ds

Atomic == AL!Spec

=============================================================================
