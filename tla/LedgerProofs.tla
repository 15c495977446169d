---------------------------- MODULE LedgerProofs ----------------------------
(***************************************************************************)
(* The inductive invariants of the ledger and what its steps change, for   *)
(* any number of buckets, objects, goroutines and entries: the facts that  *)
(* the proofs about the ledger share.  Then, with every call failing at    *)
(* will, crashes, and the unlocked lookup of NewMultipartUpload: the types,*)
(* the roots that can be read back, and the panic of ensureCache that is   *)
(* unreachable.                                                            *)
(***************************************************************************)
EXTENDS Ledger, TLAPS

(* The leaves below are set and function reasoning, which Zenon does best;  *)
(* those that need the SMT solver cite it.                                  *)
USE ZenonT(30)

(* A request that carries an object into its bucket. *)
Storing(p) ==
  \/ req[p].op = "PutObject"
  \/ req[p].op = "CopyObject" /\ stage[p] = "main"

Resolving == {"lookup", "dsget", "setnil", "fill", "load", "fetch", "use"}

Saving == {"savebucket", "dsput", "install"}

(***************************************************************************)
(* What each goroutine's locals are worth at each step.                    *)
(***************************************************************************)
BusyInv(p) ==
  pc[p] # "idle" =>
    /\ req[p] # Nil
    /\ stage[p] \in {"assert", "source"} => req[p].op = "CopyObject"
    /\ stage[p] = "item" => req[p].op = "GetObjectInfos"
    /\ Storing(p) => obj[p] # Nil
    /\ pc[p] = "saveobject" => Storing(p)
    /\ pc[p] \in Resolving \cup {"lock", "lockwait"} =>
         req[p].op # "GetBucketNames"
    /\ pc[p] \in {"fill", "dsput", "install"} => bhash[p] # Nil
    /\ pc[p] = "getobject" => obj[p] # Nil
    /\ pc[p] \in {"load", "fetch", "use"} => ent[p] # Nil
    /\ pc[p] = "use" => heap[ent[p]].bkt # Nil
    /\ pc[p] \in Saving =>
         /\ req[p].op \in {"CreateBucket", "PutObject", "CopyObject",
                           "RemoveObject", "RemoveObjects"}
         /\ req[p].op # "CreateBucket" =>
              ent[p] # Nil /\ heap[ent[p]].bkt # Nil
    /\ pc[p] \in {"uncache", "dsdelete"} => req[p].op = "DeleteBucket"

(***************************************************************************)
(* Pointers lead to allocated entries.                                     *)
(***************************************************************************)
HeapInv ==
  /\ \A b \in Buckets : cache[b] \in Entries => heap[cache[b]] # Nil
  /\ \A p \in Procs : ent[p] \in Entries => heap[ent[p]] # Nil

BaseInv == TypeOK /\ HeapInv /\ \A p \in Procs : BusyInv(p)

-----------------------------------------------------------------------------
(* Lemmas about requests and the heap                                       *)

(* Nil and Absent are not values of any other kind. *)
LEMMA Distinct ==
  /\ Nil \notin Entries /\ Nil \notin Procs /\ Nil \notin Object
  /\ Nil \notin BucketBlock /\ Nil \notin Bucket /\ Nil \notin Entry
  /\ Nil \notin Request
  /\ Absent \notin Entries /\ Absent # Nil
BY NilIsDistinct, EnoughEntries

(* The fields of a request have their types. *)
LEMMA RequestFields ==
  ASSUME NEW r \in Request
  PROVE  /\ r.op # "GetBucketNames" => r.b \in Buckets
         /\ r.op = "CreateBucket" => r.info \in Infos
         /\ r.op = "PutObject" => r.o \in Objects /\ r.data \in Datas
         /\ r.op = "CopyObject" => r.o \in Objects /\ r.src \in Buckets
BY DEF Request, CreateRequest, BucketRequest, PutRequest, RemoveRequest,
       ReadRequest, ListRequest, CopyRequest, NamesRequest

(* The requests that load their bucket. *)
LoadingOps == {"PutObject", "CopyObject", "RemoveObject", "RemoveObjects",
               "GetBucketInfo", "ObjectInfo", "GetObjectHash", "GetObjectInfos"}

(* A request's function. *)
LEMMA RequestOps ==
  ASSUME NEW r \in Request
  PROVE  \/ r.op \in LoadingOps
         \/ r.op \in {"CreateBucket", "AssertBucketExits", "NewMultipartUpload",
                      "GetBucketHash", "DeleteBucket", "GetBucketNames"}
BY SMTT(20)
   DEF Request, CreateRequest, BucketRequest, PutRequest, RemoveRequest, ReadRequest,
       ListRequest, CopyRequest, NamesRequest, LoadingOps

(* The bucket that p resolves or saves is a bucket. *)
LEMMA CurIsBucket ==
  ASSUME BaseInv, NEW p \in Procs, pc[p] \in Resolving \cup {"lock", "lockwait"}
  PROVE  Cur(p) \in Buckets /\ req[p].b \in Buckets /\ req[p] \in Request
<1>1. BusyInv(p) /\ req[p] \in Request \cup {Nil}
  BY DEF BaseInv, TypeOK
<1>2. pc[p] # "idle"
  BY DEF Resolving
<1> QED
  BY <1>1, <1>2, RequestFields DEF Cur, BusyInv

(* Collect keeps what a pointer reaches and otherwise only frees. *)
LEMMA CollectLocal ==
  ASSUME NEW h, NEW c, NEW l, NEW p \in Procs, l[p] \in Entries
  PROVE  Collect(h, c, l)[l[p]] = h[l[p]]
BY DEF Collect

LEMMA CollectCached ==
  ASSUME NEW h, NEW c, NEW l, NEW b \in Buckets, c[b] \in Entries
  PROVE  Collect(h, c, l)[c[b]] = h[c[b]]
BY DEF Collect

LEMMA CollectFrees ==
  ASSUME NEW h, NEW c, NEW l, NEW e \in Entries, Collect(h, c, l)[e] # Nil
  PROVE  Collect(h, c, l)[e] = h[e]
BY DEF Collect

(* An entry in use is an Entry, and has a typed Bucket once loaded. *)
LEMMA EntryInUse ==
  ASSUME BaseInv, NEW p \in Procs, ent[p] # Nil
  PROVE  /\ ent[p] \in Entries /\ heap[ent[p]] \in Entry
         /\ heap[ent[p]].bkt # Nil => heap[ent[p]].bkt \in Bucket
<1>1. ent[p] \in Entries
  BY DEF BaseInv, TypeOK
<1>2. heap[ent[p]] \in Entry
  BY <1>1 DEF BaseInv, TypeOK, HeapInv
<1> QED
  BY <1>1, <1>2 DEF Entry

(* What saveBucket saves is a Bucket of the request's own. *)
LEMMA SavedType ==
  ASSUME BaseInv, NEW p \in Procs, pc[p] \in Saving
  PROVE  Saved(p) \in Bucket /\ Marshal(Saved(p)) \in BucketBlock /\ req[p].b \in Buckets
<1> USE DEF BaseInv
<1>1. /\ req[p] \in Request /\ req[p].op # "GetBucketNames"
      /\ req[p].op # "CreateBucket" => ent[p] # Nil /\ heap[ent[p]].bkt # Nil
  BY DEF BusyInv, TypeOK, Saving
<1>2. Saved(p) \in Bucket
  <2>1. CASE req[p].op = "CreateBucket"
    BY <1>1, <2>1, RequestFields DEF Saved, Bucket, NoObjects
  <2>2. CASE req[p].op # "CreateBucket"
    BY <1>1, <2>2, EntryInUse DEF Saved, Bkt
  <2> QED
    BY <2>1, <2>2
<1>3. Marshal(Saved(p)) \in BucketBlock
  BY <1>2 DEF Marshal, Bucket, BucketBlock
<1> QED
  BY <1>1, <1>2, <1>3, RequestFields

(* Collect returns a heap. *)
LEMMA CollectType ==
  ASSUME NEW h \in [Entries -> Entry \cup {Nil}], NEW c, NEW l
  PROVE  Collect(h, c, l) \in [Entries -> Entry \cup {Nil}]
BY DEF Collect

-----------------------------------------------------------------------------
(* What a step of one goroutine may change                                  *)

(* Goroutine q does not move. *)
Same(q) ==
  /\ pc'[q] = pc[q] /\ req'[q] = req[q] /\ res'[q] = res[q]
  /\ nlocks'[q] = nlocks[q] /\ stage'[q] = stage[q] /\ ent'[q] = ent[q]
  /\ bhash'[q] = bhash[q] /\ obj'[q] = obj[q]
  /\ names'[q] = names[q] /\ list'[q] = list[q]

(* A step that changes at most p's place in each local variable. *)
LEMMA SameByTypes ==
  ASSUME BaseInv, NEW p \in Procs, NEW q \in Procs, q # p,
         \E l : pc' = [pc EXCEPT ![p] = l],
         UNCHANGED req \/ \E x : req' = [req EXCEPT ![p] = x],
         UNCHANGED res \/ \E x : res' = [res EXCEPT ![p] = x],
         UNCHANGED nlocks \/ \E x : nlocks' = [nlocks EXCEPT ![p] = x],
         UNCHANGED stage \/ \E x : stage' = [stage EXCEPT ![p] = x],
         UNCHANGED ent \/ \E x : ent' = [ent EXCEPT ![p] = x],
         UNCHANGED bhash \/ \E x : bhash' = [bhash EXCEPT ![p] = x],
         UNCHANGED obj \/ \E x : obj' = [obj EXCEPT ![p] = x],
         UNCHANGED names \/ \E x : names' = [names EXCEPT ![p] = x],
         UNCHANGED list \/ \E x : list' = [list EXCEPT ![p] = x]
  PROVE  Same(q)
BY DEF Same, BaseInv, TypeOK

LEMMA SameCall ==
  ASSUME BaseInv, NEW p \in Procs, NEW r \in Request, Call(p, r),
         NEW q \in Procs, q # p
  PROVE  Same(q)
BY SameByTypes DEF Call, Goto, locks

(* The steps of getBucketNilable. *)
LEMMA SameResolved ==
  ASSUME BaseInv, NEW p \in Procs, NEW e, NEW h, NEW c, Resolved(p, e, h, c),
         UNCHANGED <<locks, obj, names, list, req>>,
         UNCHANGED bhash \/ \E x : bhash' = [bhash EXCEPT ![p] = x],
         NEW q \in Procs, q # p
  PROVE  Same(q)
<1>1. /\ \E l : pc' = [pc EXCEPT ![p] = l]
      /\ UNCHANGED res \/ \E x : res' = [res EXCEPT ![p] = x]
      /\ UNCHANGED stage \/ \E x : stage' = [stage EXCEPT ![p] = x]
      /\ ent' = [ent EXCEPT ![p] = e]
  BY DEF Resolved, Goto, Finish
<1> QED
  BY <1>1, SameByTypes DEF locks

(* The steps of p change no local variable of q. *)
LEMMA SameStep ==
  ASSUME BaseInv, NEW p \in Procs, Step(p), NEW q \in Procs, q # p
  PROVE  Same(q)
<1>1. CASE ReadLock(p) \/ AnnounceWrite(p) \/ WriteLock(p)
  BY <1>1, SameByTypes DEF ReadLock, AnnounceWrite, WriteLock, Locked, Goto, locals
<1>2. CASE Return(p)
  BY <1>2, SameByTypes DEF Return, Goto
<1>3. CASE Lookup(p)
  <2>1. CASE Resolved(p, cache[Cur(p)], heap, cache)
    BY <1>3, <2>1, SameResolved DEF Lookup
  <2>2. CASE Goto(p, "dsget") /\ UNCHANGED <<cache, heap, ent, res, stage>>
    BY <1>3, <2>2, SameByTypes DEF Lookup, Goto, locks
  <2> QED
    BY <1>3, <2>1, <2>2 DEF Lookup
<1>4. CASE SetNil(p)
  BY <1>4, SameResolved DEF SetNil
<1>5. CASE Fill(p)
  <2>1. PICK e, h, c : Resolved(p, e, h, c)
    BY <1>5 DEF Fill
  <2> QED
    BY <1>5, <2>1, SameResolved DEF Fill
<1>6. CASE DsGet(p) \/ Load(p) \/ Fetch(p)
  BY <1>6, SameByTypes DEF DsGet, Load, Fetch, Goto, locks, locals
<1>7. CASE GetBucketInfo(p) \/ GetObjectHash(p) \/ GetBucketNames(p) \/ BackendFails(p)
  BY <1>7, SameByTypes
     DEF GetBucketInfo, GetObjectHash, GetBucketNames, BackendFails, Finish, Goto,
         locks, locals
<1>8. CASE FindObject(p)
  BY <1>8, SameByTypes DEF FindObject, Finish, Goto, locks
<1>9. CASE GetObject(p)
  <2>1. /\ \E l : pc' = [pc EXCEPT ![p] = l]
        /\ UNCHANGED res \/ \E x : res' = [res EXCEPT ![p] = x]
    BY <1>9 DEF GetObject, Finish, Goto
  <2>2. /\ UNCHANGED obj \/ \E x : obj' = [obj EXCEPT ![p] = x]
        /\ UNCHANGED stage \/ \E x : stage' = [stage EXCEPT ![p] = x]
        /\ UNCHANGED list \/ \E x : list' = [list EXCEPT ![p] = x]
        /\ UNCHANGED names \/ \E x : names' = [names EXCEPT ![p] = x]
    BY <1>9 DEF GetObject
  <2> QED
    BY <1>9, <2>1, <2>2, SameByTypes DEF GetObject, locks
<1>10. CASE GetObjectInfos(p)
  BY <1>10, SameByTypes DEF GetObjectInfos, Finish, Goto, locks
<1>11. CASE SaveObject(p) \/ PutObjectHash(p)
  BY <1>11, SameByTypes DEF SaveObject, PutObjectHash, Goto, locks, locals
<1>12. CASE RemoveObjects(p)
  BY <1>12, SameByTypes DEF RemoveObjects, Finish, Goto, locks
<1>13. CASE SaveBucket(p)
  BY <1>13, SameByTypes DEF SaveBucket, Finish, Goto, locks
<1>14. CASE DsPut(p) \/ DsDelete(p)
  BY <1>14, SameByTypes DEF DsPut, DsDelete, Finish, Goto, locks, locals
<1>15. CASE Install(p) \/ Uncache(p)
  BY <1>15, SameByTypes DEF Install, Uncache, Goto, locks
<1> QED
  BY <1>1, <1>2, <1>3, <1>4, <1>5, <1>6, <1>7, <1>8, <1>9, <1>10, <1>11, <1>12,
     <1>13, <1>14, <1>15 DEF Step

(* The steps that change neither the map nor an entry. *)
Quiet(p) ==
  \/ ReadLock(p) \/ AnnounceWrite(p) \/ WriteLock(p) \/ DsGet(p) \/ Load(p)
  \/ GetBucketInfo(p) \/ GetObjectHash(p) \/ FindObject(p) \/ GetObject(p)
  \/ GetObjectInfos(p) \/ SaveObject(p) \/ SaveBucket(p) \/ DsPut(p)
  \/ DsDelete(p) \/ GetBucketNames(p) \/ BackendFails(p)

LEMMA QuietStep ==
  ASSUME NEW p \in Procs, Quiet(p)
  PROVE  UNCHANGED <<cache, heap, ent>>
BY DEF Quiet, ReadLock, AnnounceWrite, WriteLock, DsGet, Load, GetBucketInfo,
       GetObjectHash, FindObject, GetObject, GetObjectInfos, SaveObject, SaveBucket,
       DsPut, DsDelete, GetBucketNames, BackendFails, shared, locals

(* p changes the Bucket of entry e in place: ensureCache, or a change of its map. *)
InPlace(p, e) ==
  /\ e = ent[p] /\ heap'[e].hash = heap[e].hash
  /\ Fetch(p) \/ PutObjectHash(p) \/ RemoveObjects(p)
  /\ pc[p] = "fetch" \/ Mutating(p)

LEMMA InPlaceChange ==
  ASSUME BaseInv, NEW p \in Procs, ent[p] # Nil, NEW k,
         heap' = [heap EXCEPT ![ent[p]].bkt = k]
  PROVE  /\ heap'[ent[p]].hash = heap[ent[p]].hash /\ heap'[ent[p]].bkt = k
         /\ \A e \in Entries : e # ent[p] => heap'[e] = heap[e]
<1>1. ent[p] \in Entries /\ heap[ent[p]] \in Entry
  BY EntryInUse
<1>2. [heap[ent[p]] EXCEPT !.bkt = k] = [hash |-> heap[ent[p]].hash, bkt |-> k]
  BY <1>1, SMTT(20) DEF Entry
<1> QED
  BY <1>1, <1>2 DEF BaseInv, TypeOK

(* A step that only frees. *)
LEMMA Freed ==
  ASSUME NEW h, NEW c, NEW l, heap' = Collect(h, c, l), NEW e \in Entries, heap'[e] # Nil
  PROVE  heap'[e] = h[e]
BY CollectFrees, SMTT(20)

(* What the map reaches is not freed. *)
LEMMA NotFreed ==
  ASSUME NEW h, NEW l, heap' = Collect(h, cache', l),
         NEW b \in Buckets, cache'[b] \in Entries
  PROVE  heap'[cache'[b]] = h[cache'[b]]
BY CollectCached, SMTT(20)

LEMMA OnlyFrees ==
  ASSUME NEW p \in Procs,
         Return(p) \/ Uncache(p) \/ Lookup(p) \/ SetNil(p),
         NEW e \in Entries, heap'[e] # Nil
  PROVE  heap'[e] = heap[e]
<1>1. heap' = heap \/ \E c, l : heap' = Collect(heap, c, l)
  <2>1. CASE Return(p)
    BY <2>1 DEF Return
  <2>2. CASE Uncache(p)
    BY <2>2 DEF Uncache
  <2>3. CASE Lookup(p)
    BY <2>3 DEF Lookup, Resolved
  <2>4. CASE SetNil(p)
    BY <2>4 DEF SetNil, Resolved
  <2> QED
    BY <2>1, <2>2, <2>3, <2>4
<1> QED
  BY <1>1, Freed

(* An entry that stays allocated stays as it is, but for a change in place. *)
LEMMA EntryKept ==
  ASSUME BaseInv, NEW p \in Procs, Step(p), NEW e \in Entries,
         heap[e] # Nil, heap'[e] # Nil
  PROVE  heap'[e] = heap[e] \/ InPlace(p, e)
<1>1. CASE Quiet(p)
  BY <1>1, QuietStep
<1>2. CASE Return(p) \/ Uncache(p) \/ Lookup(p) \/ SetNil(p)
  BY <1>2, OnlyFrees
<1>3. CASE Fill(p)
  <2>1. CASE Resolved(p, cache[Cur(p)], heap, cache)
    BY <2>1, Freed DEF Resolved
  <2>2. ASSUME NEW x \in Entries, IsNextFree(x),
               Resolved(p, x, [heap EXCEPT ![x] = [hash |-> bhash[p], bkt |-> Nil]],
                        [cache EXCEPT ![Cur(p)] = x])
        PROVE  heap'[e] = heap[e]
    <3>1. heap'[e] = [heap EXCEPT ![x] = [hash |-> bhash[p], bkt |-> Nil]][e]
      BY <2>2, Freed DEF Resolved
    <3>2. e # x
      BY <2>2 DEF IsNextFree
    <3> QED
      BY <3>1, <3>2 DEF BaseInv, TypeOK
  <2> QED
    BY <1>3, <2>1, <2>2 DEF Fill
<1>4. CASE Install(p)
  <2>1. PICK x \in Entries :
          /\ IsNextFree(x)
          /\ heap' = Collect([heap EXCEPT ![x] = [hash |-> bhash[p], bkt |-> Saved(p)]],
                             cache', ent')
    BY <1>4 DEF Install
  <2>2. heap'[e] = [heap EXCEPT ![x] = [hash |-> bhash[p], bkt |-> Saved(p)]][e]
    BY <2>1, Freed
  <2>3. e # x
    BY <2>1 DEF IsNextFree
  <2> QED
    BY <2>2, <2>3 DEF BaseInv, TypeOK
<1>5. CASE Fetch(p) \/ PutObjectHash(p) \/ RemoveObjects(p)
  <2>1. CASE heap' = heap
    BY <2>1
  <2>2. CASE \E k : heap' = [heap EXCEPT ![ent[p]].bkt = k]
    <3>1. ent[p] # Nil
      BY <1>5 DEF BaseInv, BusyInv, Fetch, PutObjectHash, RemoveObjects
    <3>2. pc[p] = "fetch" \/ Mutating(p)
      BY <1>5 DEF Fetch, PutObjectHash, RemoveObjects, Mutating, BaseInv, BusyInv,
                  TypeOK, Stages
    <3> QED
      BY <1>5, <2>2, <3>1, <3>2, InPlaceChange DEF InPlace
  <2>3. heap' = heap \/ \E k : heap' = [heap EXCEPT ![ent[p]].bkt = k]
    <3>1. CASE Fetch(p)
      BY <3>1 DEF Fetch
    <3>2. CASE PutObjectHash(p)
      BY <3>2 DEF PutObjectHash
    <3>3. CASE RemoveObjects(p)
      BY <3>3 DEF RemoveObjects
    <3> QED
      BY <1>5, <3>1, <3>2, <3>3
  <2> QED
    BY <2>1, <2>2, <2>3
<1> QED
  BY <1>1, <1>2, <1>3, <1>4, <1>5 DEF Step, Quiet

(* A new entry is one that getBucketNilable or saveBucket has put in the map. *)
LEMMA EntryNew ==
  ASSUME BaseInv, NEW p \in Procs, Step(p), NEW e \in Entries,
         heap[e] = Nil, heap'[e] # Nil
  PROVE  \/ /\ pc[p] = "fill" /\ cache[Cur(p)] = Absent /\ cache'[Cur(p)] = e
            /\ heap'[e] = [hash |-> bhash[p], bkt |-> Nil]
         \/ /\ pc[p] = "install" /\ cache'[req[p].b] = e
            /\ heap'[e] = [hash |-> bhash[p], bkt |-> Saved(p)]
<1>1. CASE Quiet(p)
  BY <1>1, QuietStep
<1>2. CASE Return(p) \/ Uncache(p) \/ Lookup(p) \/ SetNil(p)
  BY <1>2, OnlyFrees
<1>3. CASE Fill(p)
  <2>0. Cur(p) \in Buckets
    <3>1. BusyInv(p) /\ req[p] \in Request \cup {Nil}
      BY DEF BaseInv, TypeOK
    <3> QED
      BY <1>3, <3>1, RequestFields DEF Cur, BusyInv, Resolving, Fill
  <2>1. CASE Resolved(p, cache[Cur(p)], heap, cache)
    BY <2>1, Freed DEF Resolved
  <2>2. ASSUME NEW x \in Entries, cache[Cur(p)] = Absent,
               Resolved(p, x, [heap EXCEPT ![x] = [hash |-> bhash[p], bkt |-> Nil]],
                        [cache EXCEPT ![Cur(p)] = x])
        PROVE  /\ cache'[Cur(p)] = e
               /\ heap'[e] = [hash |-> bhash[p], bkt |-> Nil]
    <3>1. heap'[e] = [heap EXCEPT ![x] = [hash |-> bhash[p], bkt |-> Nil]][e]
      BY <2>2, Freed DEF Resolved
    <3>2. e = x /\ heap'[e] = [hash |-> bhash[p], bkt |-> Nil]
      BY <3>1 DEF BaseInv, TypeOK
    <3>3. cache'[Cur(p)] = x
      BY <2>0, <2>2 DEF Resolved, BaseInv, TypeOK
    <3> QED
      BY <3>2, <3>3
  <2> QED
    BY <1>3, <2>1, <2>2 DEF Fill
<1>4. CASE Install(p)
  <2>1. PICK x \in Entries :
          /\ cache' = [cache EXCEPT ![req[p].b] = x]
          /\ heap' = Collect([heap EXCEPT ![x] = [hash |-> bhash[p], bkt |-> Saved(p)]],
                             cache', ent')
    BY <1>4 DEF Install
  <2>2. heap'[e] = [heap EXCEPT ![x] = [hash |-> bhash[p], bkt |-> Saved(p)]][e]
    BY <2>1, Freed
  <2>3. e = x /\ heap'[e] = [hash |-> bhash[p], bkt |-> Saved(p)]
    BY <2>2 DEF BaseInv, TypeOK
  <2>4. pc[p] = "install" /\ req[p].b \in Buckets
    BY <1>4, SavedType DEF Install, Saving
  <2> QED
    BY <2>1, <2>3, <2>4 DEF BaseInv, TypeOK
<1>5. CASE Fetch(p) \/ PutObjectHash(p) \/ RemoveObjects(p)
  <2>1. ent[p] # Nil
    BY <1>5 DEF BaseInv, BusyInv, Fetch, PutObjectHash, RemoveObjects
  <2>2. ent[p] \in Entries /\ heap[ent[p]] # Nil
    BY <2>1, EntryInUse, Distinct
  <2>3. heap'[e] = heap[e]
    BY <1>5, <2>2 DEF Fetch, PutObjectHash, RemoveObjects, BaseInv, TypeOK
  <2> QED
    BY <2>3
<1> QED
  BY <1>1, <1>2, <1>3, <1>4, <1>5 DEF Step, Quiet

(* The four places where the map changes. *)
LEMMA CacheChange ==
  ASSUME BaseInv, NEW p \in Procs, Step(p), NEW b \in Buckets, cache'[b] # cache[b]
  PROVE  \/ pc[p] = "setnil" /\ b = Cur(p) /\ cache'[b] = Nil
         \/ /\ pc[p] = "fill" /\ b = Cur(p) /\ cache[b] = Absent
            /\ cache'[b] \in Entries
            /\ heap'[cache'[b]] = [hash |-> bhash[p], bkt |-> Nil]
         \/ /\ pc[p] = "install" /\ b = req[p].b /\ cache'[b] \in Entries
            /\ heap'[cache'[b]] = [hash |-> bhash[p], bkt |-> Saved(p)]
         \/ pc[p] = "uncache" /\ b = req[p].b /\ cache'[b] = Absent
<1>1. CASE Quiet(p)
  BY <1>1, QuietStep
<1>2. CASE Return(p) \/ Lookup(p) \/ Fetch(p) \/ PutObjectHash(p) \/ RemoveObjects(p)
  BY <1>2 DEF Return, Lookup, Resolved, Fetch, PutObjectHash, RemoveObjects
<1>3. CASE SetNil(p)
  BY <1>3 DEF SetNil, Resolved, BaseInv, TypeOK
<1>4. CASE Uncache(p)
  BY <1>4 DEF Uncache, BaseInv, TypeOK
<1>5. CASE Fill(p)
  <2>1. PICK e \in Entries :
          /\ cache[Cur(p)] = Absent
          /\ Resolved(p, e, [heap EXCEPT ![e] = [hash |-> bhash[p], bkt |-> Nil]],
                      [cache EXCEPT ![Cur(p)] = e])
    BY <1>5 DEF Fill, Resolved
  <2>2. pc[p] = "fill" /\ Cur(p) \in Buckets
    BY <1>5, CurIsBucket DEF Fill, Resolving
  <2>3. cache' = [cache EXCEPT ![Cur(p)] = e] /\ b = Cur(p) /\ cache'[b] = e
    BY <2>1, <2>2 DEF Resolved, BaseInv, TypeOK
  <2>4. heap'[e] = [heap EXCEPT ![e] = [hash |-> bhash[p], bkt |-> Nil]][e]
    <3> DEFINE h == [heap EXCEPT ![e] = [hash |-> bhash[p], bkt |-> Nil]]
    <3>1. heap' = Collect(h, cache', ent')
      BY <2>1 DEF Resolved
    <3> HIDE DEF h
    <3>2. heap'[e] = h[e]
      BY <2>3, <3>1, NotFreed
    <3> QED
      BY <3>2 DEF h
  <2> QED
    BY <2>1, <2>2, <2>3, <2>4 DEF BaseInv, TypeOK
<1>6. CASE Install(p)
  <2>1. PICK e \in Entries :
          /\ cache' = [cache EXCEPT ![req[p].b] = e]
          /\ heap' = Collect([heap EXCEPT ![e] = [hash |-> bhash[p], bkt |-> Saved(p)]],
                             cache', ent')
    BY <1>6 DEF Install
  <2>2. pc[p] = "install" /\ req[p].b \in Buckets
    BY <1>6, SavedType DEF Install, Saving
  <2>3. b = req[p].b /\ cache'[b] = e
    BY <2>1, <2>2 DEF BaseInv, TypeOK
  <2>4. heap'[e] = [heap EXCEPT ![e] = [hash |-> bhash[p], bkt |-> Saved(p)]][e]
    <3> DEFINE h == [heap EXCEPT ![e] = [hash |-> bhash[p], bkt |-> Saved(p)]]
    <3>1. heap' = Collect(h, cache', ent')
      BY <2>1
    <3> HIDE DEF h
    <3>2. heap'[e] = h[e]
      BY <2>3, <3>1, NotFreed
    <3> QED
      BY <3>2 DEF h
  <2> QED
    BY <2>2, <2>3, <2>4 DEF BaseInv, TypeOK
<1> QED
  BY <1>1, <1>2, <1>3, <1>4, <1>5, <1>6 DEF Step, Quiet

(***************************************************************************)
(* getBucketNilable has returned: what p has in hand is what the map holds *)
(* for the bucket, and the caller goes on with it.                         *)
(***************************************************************************)
Outcome(p) ==
  \/ /\ ent'[p] = Nil /\ req[p].op = "CreateBucket"
     /\ pc'[p] = "savebucket" /\ stage'[p] = stage[p] /\ UNCHANGED res
  \/ /\ ent'[p] = Nil /\ req[p].op # "CreateBucket"
     /\ pc'[p] = "return" /\ stage'[p] = stage[p]
     /\ res' = [res EXCEPT ![p] = BucketDoesNotExist]
  \/ /\ ent'[p] # Nil /\ req[p].op = "CreateBucket"
     /\ pc'[p] = "return" /\ stage'[p] = stage[p]
     /\ res' = [res EXCEPT ![p] = BucketExists]
  \/ /\ ent'[p] # Nil /\ req[p].op \in {"AssertBucketExits", "NewMultipartUpload"}
     /\ pc'[p] = "return" /\ stage'[p] = stage[p]
     /\ res' = [res EXCEPT ![p] = Ok(Nil)]
  \/ /\ ent'[p] # Nil /\ req[p].op = "GetBucketHash"
     /\ pc'[p] = "return" /\ stage'[p] = stage[p]
     /\ res' = [res EXCEPT ![p] = Ok(heap'[ent'[p]].hash)]
  \/ /\ ent'[p] # Nil /\ req[p].op = "DeleteBucket"
     /\ pc'[p] = "uncache" /\ stage'[p] = stage[p] /\ UNCHANGED res
  \/ /\ ent'[p] # Nil /\ stage[p] = "assert"
     /\ pc'[p] = "lookup" /\ stage'[p] = "source" /\ UNCHANGED res
  \/ /\ ent'[p] # Nil /\ stage[p] # "assert"
     /\ req[p].op \notin {"CreateBucket", "AssertBucketExits", "NewMultipartUpload",
                          "GetBucketHash", "DeleteBucket"}
     /\ pc'[p] = "load" /\ stage'[p] = stage[p] /\ UNCHANGED res

LEMMA ResolvedOutcome ==
  ASSUME BaseInv, NEW p \in Procs, NEW e \in Entries \cup {Nil}, NEW h, NEW c,
         Resolved(p, e, h, c)
  PROVE  Outcome(p) /\ ent'[p] = e /\ cache' = c
<1>1. cache' = c /\ ent' = [ent EXCEPT ![p] = e] /\ heap' = Collect(h, c, ent')
  BY DEF Resolved
<1>2. ent'[p] = e
  BY <1>1 DEF BaseInv, TypeOK
<1>3. e # Nil => h[e] = heap'[ent'[p]]
  <2> SUFFICES ASSUME e # Nil PROVE h[e] = heap'[ent'[p]]
    OBVIOUS
  <2>1. ent'[p] \in Entries
    BY <1>2
  <2>2. Collect(h, c, ent')[ent'[p]] = h[ent'[p]]
    BY <2>1, CollectLocal, SMTT(20)
  <2> QED
    BY <1>1, <1>2, <2>2
<1>4. \A l : pc' = [pc EXCEPT ![p] = l] => pc'[p] = l
  BY DEF BaseInv, TypeOK
<1>6. stage' = [stage EXCEPT ![p] = "source"] => stage'[p] = "source"
  BY DEF BaseInv, TypeOK
<1>7. Outcome(p)
  BY <1>2, <1>3, <1>4, <1>6 DEF Resolved, Outcome, Goto, Finish
<1> QED
  BY <1>1, <1>2, <1>7

LEMMA LookupOutcome ==
  ASSUME BaseInv, NEW p \in Procs, Lookup(p) \/ SetNil(p) \/ Fill(p)
  PROVE  \/ pc[p] = "lookup" /\ pc'[p] = "dsget" /\ cache[Cur(p)] = Absent
            /\ UNCHANGED <<cache, heap, ent, res, stage, bhash, req, obj, names, list, ds>>
         \/ /\ pc[p] \in {"lookup", "setnil", "fill"}
            /\ Outcome(p) /\ ent'[p] = cache'[Cur(p)]
            /\ UNCHANGED <<req, obj, names, list, ds, bblocks, oblocks>>
<1>0. Cur(p) \in Buckets
  BY CurIsBucket DEF Lookup, SetNil, Fill, Resolving
<1>1. CASE Lookup(p)
  <2>1. CASE cache[Cur(p)] = Absent
    BY <1>1, <2>1 DEF Lookup, Goto, BaseInv, TypeOK
  <2>2. CASE cache[Cur(p)] # Absent
    <3>1. cache[Cur(p)] \in Entries \cup {Nil}
      BY <1>0, <2>2 DEF BaseInv, TypeOK
    <3>2. Resolved(p, cache[Cur(p)], heap, cache)
      BY <1>1, <2>2 DEF Lookup
    <3> QED
      BY <1>1, <3>1, <3>2, ResolvedOutcome DEF Lookup
  <2> QED
    BY <2>1, <2>2
<1>2. CASE SetNil(p)
  <2>1. Outcome(p) /\ ent'[p] = Nil /\ cache' = [cache EXCEPT ![Cur(p)] = Nil]
    BY <1>2, ResolvedOutcome DEF SetNil
  <2> QED
    BY <1>0, <1>2, <2>1 DEF SetNil, BaseInv, TypeOK
<1>3. CASE Fill(p)
  <2>1. CASE cache[Cur(p)] # Absent
    <3>1. cache[Cur(p)] \in Entries \cup {Nil}
      BY <1>0, <2>1 DEF BaseInv, TypeOK
    <3>2. Resolved(p, cache[Cur(p)], heap, cache)
      BY <1>3, <2>1 DEF Fill
    <3> QED
      BY <1>3, <3>1, <3>2, ResolvedOutcome DEF Fill
  <2>2. CASE cache[Cur(p)] = Absent
    <3>1. PICK e \in Entries :
            Resolved(p, e, [heap EXCEPT ![e] = [hash |-> bhash[p], bkt |-> Nil]],
                     [cache EXCEPT ![Cur(p)] = e])
      BY <1>3, <2>2 DEF Fill
    <3>2. Outcome(p) /\ ent'[p] = e /\ cache' = [cache EXCEPT ![Cur(p)] = e]
      BY <3>1, ResolvedOutcome
    <3> QED
      BY <1>0, <1>3, <3>2 DEF Fill, BaseInv, TypeOK
  <2> QED
    BY <2>1, <2>2
<1> QED
  BY <1>1, <1>2, <1>3

(* The two places where the datastore changes. *)
LEMMA DsChange ==
  ASSUME BaseInv, NEW p \in Procs, Step(p), NEW b \in Buckets, ds'[b] # ds[b]
  PROVE  /\ b = req[p].b
         /\ \/ pc[p] = "dsput" /\ ds'[b] = bhash[p]
            \/ pc[p] = "dsdelete" /\ ds'[b] = Nil
<1>1. CASE DsPut(p)
  BY <1>1 DEF DsPut, BaseInv, TypeOK
<1>2. CASE DsDelete(p)
  BY <1>2 DEF DsDelete, BaseInv, TypeOK
<1>3. CASE \/ ReadLock(p) \/ AnnounceWrite(p) \/ WriteLock(p) \/ Return(p)
           \/ Lookup(p) \/ DsGet(p) \/ SetNil(p) \/ Fill(p) \/ Load(p) \/ Fetch(p)
  BY <1>3 DEF ReadLock, AnnounceWrite, WriteLock, Return, Lookup, DsGet, SetNil, Fill,
              Load, Fetch, shared
<1>4. CASE \/ GetBucketInfo(p) \/ GetObjectHash(p) \/ FindObject(p) \/ GetObject(p)
           \/ GetObjectInfos(p) \/ SaveObject(p) \/ PutObjectHash(p) \/ RemoveObjects(p)
           \/ SaveBucket(p) \/ Install(p) \/ Uncache(p) \/ GetBucketNames(p)
           \/ BackendFails(p)
  BY <1>4 DEF GetBucketInfo, GetObjectHash, FindObject, GetObject, GetObjectInfos,
              SaveObject, PutObjectHash, RemoveObjects, SaveBucket, Install, Uncache,
              GetBucketNames, BackendFails, shared
<1> QED
  BY <1>1, <1>2, <1>3, <1>4 DEF Step

LEMMA BucketObjs ==
  ASSUME NEW x \in Bucket, NEW f
  PROVE  LET k == [x EXCEPT !.objs = f]
         IN  k.name = x.name /\ k.info = x.info /\ k.made = x.made /\ k.objs = f
BY SMTT(20) DEF Bucket

(* The entry's Bucket with the object under its key. *)
LEMMA PutEffect ==
  ASSUME BaseInv, NEW p \in Procs, PutObjectHash(p)
  PROVE  /\ ent[p] \in Entries /\ Bkt(p) \in Bucket /\ req[p].o \in Objects
         /\ heap'[ent[p]].hash = heap[ent[p]].hash
         /\ heap'[ent[p]].bkt.name = Bkt(p).name
         /\ heap'[ent[p]].bkt.info = Bkt(p).info
         /\ heap'[ent[p]].bkt.objs = [Bkt(p).objs EXCEPT ![req[p].o] = obj[p]]
         /\ heap'[ent[p]].bkt.made = TRUE
         /\ \A e \in Entries : e # ent[p] => heap'[e] = heap[e]
<1>1. /\ pc[p] = "use" /\ Storing(p)
      /\ req[p].op \in {"PutObject", "CopyObject"}
  BY DEF PutObjectHash, Storing
<1>2. ent[p] # Nil /\ ent[p] \in Entries /\ Bkt(p) \in Bucket /\ req[p] \in Request
  BY <1>1, EntryInUse DEF BaseInv, BusyInv, Bkt, TypeOK
<1>3. req[p].o \in Objects
  BY <1>1, <1>2, RequestFields
<1> DEFINE k == [Bkt(p) EXCEPT !.objs[req[p].o] = obj[p], !.made = TRUE]
<1>4. heap' = [heap EXCEPT ![ent[p]].bkt = k]
  BY DEF PutObjectHash, Bkt
<1>5. /\ k.name = Bkt(p).name /\ k.info = Bkt(p).info
      /\ k.objs = [Bkt(p).objs EXCEPT ![req[p].o] = obj[p]] /\ k.made = TRUE
  BY <1>2, <1>3, SMTT(20) DEF Bucket
<1> HIDE DEF k
<1>6. /\ heap'[ent[p]].hash = heap[ent[p]].hash /\ heap'[ent[p]].bkt = k
      /\ \A e \in Entries : e # ent[p] => heap'[e] = heap[e]
  BY <1>2, <1>4, InPlaceChange
<1> QED
  BY <1>2, <1>3, <1>5, <1>6

(* The entry's Bucket without the names, unless its map is nil. *)
LEMMA RemoveEffect ==
  ASSUME BaseInv, NEW p \in Procs, RemoveObjects(p)
  PROVE  /\ ent[p] \in Entries /\ Bkt(p) \in Bucket
         /\ \/ ~Bkt(p).made /\ UNCHANGED heap
            \/ /\ Bkt(p).made
               /\ heap'[ent[p]].hash = heap[ent[p]].hash
               /\ heap'[ent[p]].bkt.name = Bkt(p).name
               /\ heap'[ent[p]].bkt.info = Bkt(p).info
               /\ heap'[ent[p]].bkt.made = Bkt(p).made
               /\ heap'[ent[p]].bkt.objs =
                    [o \in Objects |-> IF o \in req[p].names THEN Nil ELSE Bkt(p).objs[o]]
               /\ \A e \in Entries : e # ent[p] => heap'[e] = heap[e]
<1>1. pc[p] = "use"
  BY DEF RemoveObjects
<1>2. ent[p] # Nil /\ ent[p] \in Entries /\ Bkt(p) \in Bucket
  BY <1>1, EntryInUse DEF BaseInv, BusyInv, Bkt, TypeOK
<1>3. CASE ~Bkt(p).made
  BY <1>2, <1>3 DEF RemoveObjects
<1>4. CASE Bkt(p).made
  <2> DEFINE f == [o \in Objects |-> IF o \in req[p].names THEN Nil ELSE Bkt(p).objs[o]]
             k == [Bkt(p) EXCEPT !.objs = f]
  <2>1. heap' = [heap EXCEPT ![ent[p]].bkt = k]
    BY <1>4 DEF RemoveObjects, Bkt
  <2>2. /\ k.name = Bkt(p).name /\ k.info = Bkt(p).info /\ k.made = Bkt(p).made
        /\ k.objs = f
    <3> HIDE DEF f
    <3> QED
      BY <1>2, BucketObjs
  <2> HIDE DEF k
  <2> QED
    BY <1>2, <1>4, <2>1, <2>2, InPlaceChange
<1> QED
  BY <1>3, <1>4

(* ensureCache unmarshals the block. *)
LEMMA FetchEffect ==
  ASSUME BaseInv, NEW p \in Procs, Fetch(p)
  PROVE  /\ ent[p] \in Entries /\ heap[ent[p]] \in Entry
         /\ \/ UNCHANGED heap /\ pc'[p] = "panic"
            \/ /\ heap'[ent[p]].hash = heap[ent[p]].hash /\ pc'[p] = "use"
               /\ heap[ent[p]].bkt = Nil
               /\ heap'[ent[p]].bkt = Unmarshal(heap[ent[p]].hash)
               /\ \A e \in Entries : e # ent[p] => heap'[e] = heap[e]
<1>1. pc[p] = "fetch"
  BY DEF Fetch
<1>2. ent[p] # Nil /\ ent[p] \in Entries /\ heap[ent[p]] \in Entry
  BY <1>1, EntryInUse DEF BaseInv, BusyInv
<1>3. CASE heap[ent[p]].bkt # Nil
  BY <1>2, <1>3 DEF Fetch, Goto, BaseInv, TypeOK
<1>4. CASE heap[ent[p]].bkt = Nil
  <2>1. heap' = [heap EXCEPT ![ent[p]].bkt = Unmarshal(heap[ent[p]].hash)]
    BY <1>4 DEF Fetch
  <2>2. pc'[p] = "use"
    BY <1>4 DEF Fetch, Goto, BaseInv, TypeOK
  <2> QED
    BY <1>2, <1>4, <2>1, <2>2, InPlaceChange
<1> QED
  BY <1>3, <1>4

-----------------------------------------------------------------------------
(* Locks                                                                    *)

(***************************************************************************)
(* The body of a request runs between its last lock and its unlocks.       *)
(***************************************************************************)
Body == PCs \ {"idle", "lock", "lockwait"}

(* p has lock l, a writer to the exclusion of readers. *)
Has(p, l) ==
  IF l.mode = "read" THEN p \in readers[l.b]
  ELSE writer[l.b] = p /\ readers[l.b] = {}

(***************************************************************************)
(* A goroutine has the locks it has counted, and in its body all of those  *)
(* of its request.                                                         *)
(***************************************************************************)
LockInv(p) ==
  /\ pc[p] = "idle" => nlocks[p] = 0
  /\ pc[p] # "idle" =>
       /\ \A i \in 1 .. nlocks[p] : Has(p, LockPlan(req[p])[i])
       /\ pc[p] \in {"lock", "lockwait"} => nlocks[p] < Len(LockPlan(req[p]))
       /\ pc[p] \in Body => nlocks[p] = Len(LockPlan(req[p]))
       /\ pc[p] = "lockwait" =>
            NextLock(p).mode = "write" /\ writer[NextLock(p).b] = p

(* The locks of a request: none, one, or the two of a copy. *)
LEMMA PlanShape ==
  ASSUME NEW r
  PROVE  /\ r.op \in WriteOps => LockPlan(r) = <<W(r.b)>>
         /\ r.op \in ReadOps => LockPlan(r) = <<R(r.b)>>
         /\ r.op = "CopyObject" =>
              \/ r.src = r.b /\ LockPlan(r) = <<W(r.b)>>
              \/ r.src # r.b /\ LockPlan(r) = <<R(r.src), W(r.b)>>
              \/ r.src # r.b /\ LockPlan(r) = <<W(r.b), R(r.src)>>
         /\ r.op \notin WriteOps \cup ReadOps \cup {"CopyObject"} => LockPlan(r) = <<>>
BY SMTT(20) DEF LockPlan, WriteOps, ReadOps

(***************************************************************************)
(* p may change bucket b; p may rely on bucket b.                          *)
(***************************************************************************)
Writes(p, b) ==
  /\ pc[p] \in Body /\ req[p].b = b
  /\ req[p].op \in WriteOps \cup {"CopyObject"}

Reads(p, b) ==
  /\ pc[p] \in Body
  /\ \/ req[p].op \in ReadOps /\ req[p].b = b
     \/ req[p].op = "CopyObject" /\ req[p].src = b

LEMMA InPlan ==
  ASSUME NEW s, NEW a, NEW c, s = <<a>> \/ s = <<a, c>> \/ s = <<c, a>>
  PROVE  \E i \in 1 .. Len(s) : s[i] = a
BY SMTT(20)

(* A bucket that one goroutine may change is no other one's. *)
LEMMA Exclusive ==
  ASSUME BaseInv, NEW p \in Procs, NEW q \in Procs, p # q, LockInv(p), LockInv(q),
         NEW b, Writes(p, b)
  PROVE  ~Writes(q, b) /\ ~Reads(q, b)
<1>1. ASSUME NEW x \in Procs, LockInv(x), Writes(x, b)
      PROVE  writer[b] = x /\ readers[b] = {}
  <2> DEFINE r == req[x]
  <2>1. /\ r.b = b
        /\ \/ LockPlan(r) = <<W(b)>>
           \/ LockPlan(r) = <<R(r.src), W(b)>> \/ LockPlan(r) = <<W(b), R(r.src)>>
    BY <1>1, PlanShape DEF Writes
  <2>2. /\ nlocks[x] = Len(LockPlan(r))
        /\ \A i \in 1 .. nlocks[x] : Has(x, LockPlan(r)[i])
    BY <1>1 DEF LockInv, Writes, Body
  <2> HIDE DEF r
  <2>3. \E i \in 1 .. Len(LockPlan(r)) : LockPlan(r)[i] = W(b)
    BY <2>1, InPlan, SMTT(20)
  <2>4. Has(x, W(b))
    BY <2>2, <2>3
  <2>5. W(b).mode = "write" /\ W(b).b = b
    BY SMTT(20) DEF W
  <2> QED
    BY <2>4, <2>5 DEF Has
<1>2. ASSUME NEW x \in Procs, LockInv(x), Reads(x, b), ~Writes(x, b)
      PROVE  x \in readers[b]
  <2> DEFINE r == req[x]
  <2>1. \/ LockPlan(r) = <<R(b)>>
        \/ LockPlan(r) = <<R(b), W(r.b)>> \/ LockPlan(r) = <<W(r.b), R(b)>>
    BY <1>2, PlanShape DEF Reads, Writes
  <2>2. /\ nlocks[x] = Len(LockPlan(r))
        /\ \A i \in 1 .. nlocks[x] : Has(x, LockPlan(r)[i])
    BY <1>2 DEF LockInv, Reads, Body
  <2> HIDE DEF r
  <2>3. \E i \in 1 .. Len(LockPlan(r)) : LockPlan(r)[i] = R(b)
    BY <2>1, InPlan, SMTT(20)
  <2>4. Has(x, R(b))
    BY <2>2, <2>3
  <2>5. R(b).mode = "read" /\ R(b).b = b
    BY SMTT(20) DEF R
  <2> QED
    BY <2>4, <2>5 DEF Has
<1> QED
  BY <1>1, <1>2

-----------------------------------------------------------------------------
(* Names                                                                    *)

(* A Bucket or a bucket block of bucket b, whose objects say where they are. *)
Good(x, b) ==
  /\ x.name = b
  /\ \A o \in Objects : x.objs[o] # Nil => x.objs[o].bucket = b /\ x.objs[o].name = o

GoodEntry(x, b) == Good(x.hash, b) /\ (x.bkt # Nil => Good(x.bkt, b))

(* What p has in hand belongs to the bucket it has resolved, or is to save. *)
NameLocal(p) ==
  /\ pc[p] = "fill" => Good(bhash[p], Cur(p))
  /\ pc[p] \in {"dsput", "install"} => Good(bhash[p], req[p].b)
  /\ pc[p] \in {"load", "fetch", "use"} =>
       /\ heap[ent[p]].hash.name = Cur(p)
       /\ req[p].op \in LoadingOps /\ stage[p] # "assert"
  /\ pc[p] \in Saving =>
       /\ req[p].op = "CreateBucket" => ent[p] = Nil
       /\ req[p].op # "CreateBucket" => heap[ent[p]].hash.name = req[p].b
       /\ stage[p] = "main"
  /\ pc[p] \in Resolving \cup {"saveobject", "lock", "lockwait"} /\ Storing(p) =>
       obj[p].bucket = req[p].b /\ obj[p].name = req[p].o

NameInv ==
  /\ \A b \in Buckets : ds[b] # Nil => Good(ds[b], b)
  /\ \A e \in Entries : heap[e] # Nil => GoodEntry(heap[e], heap[e].hash.name)
  /\ \A b \in Buckets : cache[b] \in Entries => heap[cache[b]].hash.name = b
  /\ \A p \in Procs : NameLocal(p)

(* What p saves is its request's bucket. *)
LEMMA SavedGood ==
  ASSUME BaseInv, NameInv, NEW p \in Procs, pc[p] \in Saving
  PROVE  Good(Saved(p), req[p].b) /\ Good(Marshal(Saved(p)), req[p].b)
<1>1. Good(Saved(p), req[p].b)
  <2>1. CASE req[p].op = "CreateBucket"
    <3> DEFINE x == [name |-> req[p].b, info |-> req[p].info, objs |-> NoObjects,
                     made |-> FALSE]
    <3>1. x.name = req[p].b /\ x.objs = NoObjects
      BY SMTT(20)
    <3>2. Saved(p) = x
      BY <2>1 DEF Saved
    <3> HIDE DEF x
    <3> QED
      BY <3>1, <3>2 DEF Good, NoObjects
  <2>2. CASE req[p].op # "CreateBucket"
    <3>1. ent[p] # Nil /\ heap[ent[p]].bkt # Nil
      BY <2>2 DEF BaseInv, BusyInv, Saving
    <3>2. ent[p] \in Entries /\ heap[ent[p]] # Nil
      BY <3>1, EntryInUse, Distinct
    <3>3. heap[ent[p]].hash.name = req[p].b
      BY <2>2 DEF NameInv, NameLocal
    <3> QED
      BY <2>2, <3>1, <3>2, <3>3 DEF NameInv, GoodEntry, Saved, Bkt
  <2> QED
    BY <2>1, <2>2
<1>2. Marshal(Saved(p)).name = Saved(p).name /\ Marshal(Saved(p)).objs = Saved(p).objs
  BY SMTT(20) DEF Marshal
<1> QED
  BY <1>1, <1>2 DEF Good

-----------------------------------------------------------------------------
(* Who may be at a bucket                                                   *)

(* Clients start no multipart upload: it resolves its bucket with no lock. *)
LockedLookups == "NewMultipartUpload" \notin Ops

(* saveBucket's calls succeed: a failed one leaves the changed map cached. *)
SavesSucceed == Failing \cap {"savebucket", "dsput"} = {}

Touches(p, b) == Writes(p, b) \/ Reads(p, b)

(* A goroutine has the lock of the bucket it resolves. *)
LEMMA ResolverTouches ==
  ASSUME LockedLookups, BaseInv, NEW p \in Procs, pc[p] \in Resolving
  PROVE  Touches(p, Cur(p))
<1>1. /\ req[p] \in Request /\ req[p].op # "GetBucketNames"
      /\ stage[p] = "source" => req[p].op = "CopyObject"
  BY CurIsBucket DEF BaseInv, BusyInv, Resolving
<1>2. req[p].op \in Ops
  BY <1>1 DEF Request
<1>3. req[p].op \in WriteOps \cup ReadOps \cup {"CopyObject"}
  BY <1>1, <1>2, RequestOps DEF LockedLookups, LoadingOps, WriteOps, ReadOps
<1>4. pc[p] \in Body
  BY DEF Resolving, Body, PCs
<1> QED
  BY <1>1, <1>3, <1>4 DEF Touches, Writes, Reads, Cur

(* A goroutine has the write lock of the bucket it changes. *)
Changing == Saving \cup {"uncache", "dsdelete"}

LEMMA ChangerWrites ==
  ASSUME BaseInv, NEW p \in Procs, pc[p] \in Changing
  PROVE  Writes(p, req[p].b)
<1>1. req[p].op \in {"CreateBucket", "PutObject", "CopyObject", "RemoveObject",
                     "RemoveObjects", "DeleteBucket"}
  BY DEF BaseInv, BusyInv, Changing, Saving
<1>2. pc[p] \in Body
  BY DEF Changing, Saving, Body, PCs
<1> QED
  BY <1>1, <1>2 DEF Writes, WriteOps

LEMMA Alone ==
  ASSUME BaseInv, \A q \in Procs : LockInv(q), NEW p \in Procs, NEW q \in Procs,
         NEW b, Writes(p, b), Touches(q, b)
  PROVE  p = q
BY Exclusive DEF Touches

(* What is at the bucket of a goroutine that resolves is changed by itself. *)
LEMMA NoOtherChanger ==
  ASSUME LockedLookups, BaseInv, \A q \in Procs : LockInv(q),
         NEW p \in Procs, NEW q \in Procs, pc[p] \in Changing, pc[q] \in Resolving,
         req[p].b = Cur(q)
  PROVE  FALSE
<1>1. p = q
  BY ResolverTouches, ChangerWrites, Alone
<1> QED
  BY <1>1 DEF Changing, Saving, Resolving

-----------------------------------------------------------------------------
(* The cache and the datastore                                              *)

(* Entry x is one of the bucket block h. *)
Matches(x, h) == x.hash = h /\ (x.bkt # Nil => Marshal(x.bkt) = h)

Coherent(b) ==
  \/ cache[b] = Absent
  \/ cache[b] = Nil /\ ds[b] = Nil
  \/ cache[b] \in Entries /\ Matches(heap[cache[b]], ds[b])

(***************************************************************************)
(* What p read of the bucket it resolves is still so; what it is to commit *)
(* is the Bucket it holds.                                                 *)
(***************************************************************************)
View(p) ==
  /\ pc[p] = "setnil" => ds[Cur(p)] = Nil
  /\ pc[p] = "fill" => bhash[p] = ds[Cur(p)]
  /\ pc[p] \in {"load", "fetch", "use"} => ent[p] = cache[Cur(p)]
  /\ pc[p] = "dsdelete" => cache[req[p].b] = Absent
  /\ pc[p] \in {"dsput", "install"} => bhash[p] = Marshal(Saved(p))
  /\ pc[p] = "install" => ds[req[p].b] = bhash[p]

CoherentInv ==
  /\ \A b \in Buckets : Committing(b) \/ Coherent(b)
  /\ \A p \in Procs : View(p)

(* A Bucket without a map has no objects. *)
MadeOK(x) == x # Nil /\ ~x.made => \A o \in Objects : x.objs[o] = Nil

MadeInv == \A e \in Entries : heap[e] # Nil => MadeOK(heap[e].bkt)

(* The invariants the cache rests on. *)
Held == BaseInv /\ NameInv /\ \A q \in Procs : LockInv(q)

(* A bucket that is being resolved is not being committed: it is coherent. *)
LEMMA ResolvedIsCoherent ==
  ASSUME LockedLookups, Held, CoherentInv, NEW q \in Procs, pc[q] \in Resolving
  PROVE  Coherent(Cur(q)) /\ ~Committing(Cur(q))
<1>1. Cur(q) \in Buckets
  BY CurIsBucket DEF Held
<1>2. ~Committing(Cur(q))
  BY NoOtherChanger DEF Held, Committing, Changing, Saving
<1> QED
  BY <1>1, <1>2 DEF CoherentInv

(* An entry in hand that changes, changes in the hand of its bucket's goroutine. *)
LEMMA InPlaceName ==
  ASSUME LockedLookups, Held, NEW p \in Procs, NEW e, InPlace(p, e)
  PROVE  /\ pc[p] \in Resolving /\ heap[e].hash.name = Cur(p)
         /\ pc[p] # "fetch" => stage[p] = "main" /\ Cur(p) = req[p].b
<1>1. pc[p] \in {"fetch", "use"} /\ e = ent[p]
  BY DEF InPlace, Mutating
<1> QED
  BY <1>1 DEF InPlace, Mutating, Held, NameInv, NameLocal, Resolving, Cur

(* What a goroutine is to save stays as it is while it does not move. *)
LEMMA SavedStays ==
  ASSUME LockedLookups, Held, BaseInv', NEW p \in Procs, Step(p), NEW q \in Procs, q # p,
         pc[q] \in Saving
  PROVE  Saved(q)' = Saved(q)
<1>0. BaseInv /\ NameInv /\ \A r \in Procs : LockInv(r)
  BY DEF Held
<1>1. Same(q)
  BY <1>0, SameStep
<1>2. CASE req[q].op = "CreateBucket"
  BY <1>1, <1>2 DEF Same, Saved
<1>3. CASE req[q].op # "CreateBucket"
  <2>1. ent[q] # Nil /\ heap[ent[q]].hash.name = req[q].b
    BY <1>0, <1>3 DEF BaseInv, BusyInv, NameInv, NameLocal, Saving
  <2>2. ent[q] \in Entries /\ heap[ent[q]] # Nil /\ heap'[ent[q]] # Nil
    BY <1>0, <1>1, <2>1 DEF BaseInv, HeapInv, TypeOK, Same
  <2>3. ~InPlace(p, ent[q])
    <3> SUFFICES ASSUME InPlace(p, ent[q]) PROVE FALSE
      OBVIOUS
    <3>1. pc[p] \in Resolving /\ req[q].b = Cur(p)
      BY <2>1, InPlaceName
    <3> QED
      BY <1>0, <3>1, NoOtherChanger DEF Changing
  <2>4. heap'[ent[q]] = heap[ent[q]]
    BY <1>0, <2>2, <2>3, EntryKept
  <2> QED
    BY <1>1, <1>3, <2>4 DEF Same, Saved, Bkt
<1> QED
  BY <1>2, <1>3

-----------------------------------------------------------------------------
(* BaseInv                                                                  *)

LEMMA BaseInit == Init => BaseInv
<1> SUFFICES ASSUME Init PROVE BaseInv
  OBVIOUS
<1>1. TypeOK
  BY DEF Init, TypeOK, PCs, Stages
<1>2. HeapInv
  BY Distinct DEF Init, HeapInv
<1>3. \A p \in Procs : BusyInv(p)
  BY DEF Init, BusyInv
<1> QED
  BY <1>1, <1>2, <1>3 DEF BaseInv

(***************************************************************************)
(* A goroutine drops its entry, and the map becomes c: saveBucket's new    *)
(* entry, DeleteBucket's removal.  What the others hold is kept.           *)
(***************************************************************************)
Drops(p, h, c) ==
  /\ cache' = c
  /\ ent' = [ent EXCEPT ![p] = Nil]
  /\ heap' = Collect(h, c, ent')

(***************************************************************************)
(* TypeOK, with what each goroutine's locals are worth, is preserved by    *)
(* every step.                                                             *)
(***************************************************************************)
LEMMA BaseNext == BaseInv /\ [Next]_vars => BaseInv'

(* The lock steps change the locks and the program counter. *)
<1>BaseLock.
      ASSUME BaseInv, NEW p \in Procs,
             ReadLock(p) \/ AnnounceWrite(p) \/ WriteLock(p)
      PROVE  BaseInv'
  <2> USE <1>BaseLock
  <2> USE DEF BaseInv
  <2>1. UNCHANGED <<ds, bblocks, oblocks, cache, heap, ent, bhash, obj, names, list,
                    req, res, stage>>
    BY DEF ReadLock, AnnounceWrite, WriteLock, shared, locals
  <2>2. PICK l \in {"lock", "lockwait", "saveobject", "query", "lookup"} :
          /\ pc' = [pc EXCEPT ![p] = l]
          /\ l = "saveobject" => req[p].op = "PutObject"
          /\ l \in {"lookup", "lock", "lockwait"} => req[p].op # "GetBucketNames"
    <3>1. pc[p] \in {"lock", "lockwait"} => req[p].op # "GetBucketNames"
      BY DEF BusyInv
    <3>2. CASE AnnounceWrite(p)
      BY <3>1, <3>2 DEF AnnounceWrite, Goto
    <3>3. CASE ReadLock(p) \/ WriteLock(p)
      BY <3>1, <3>3 DEF ReadLock, WriteLock, Locked, Goto, Start
    <3> QED
      BY <3>2, <3>3
  <2>3. pc[p] \in {"lock", "lockwait"}
    BY DEF ReadLock, AnnounceWrite, WriteLock
  <2>4. TypeOK'
    <3>1. nlocks' \in [Procs -> Nat]
      BY SMTT(20) DEF ReadLock, AnnounceWrite, WriteLock, Locked, TypeOK
    <3>2. readers' \in [Buckets -> SUBSET Procs]
      BY SMTT(20) DEF ReadLock, AnnounceWrite, WriteLock, TypeOK
    <3>3. writer' \in [Buckets -> Procs \cup {Nil}]
      BY DEF ReadLock, AnnounceWrite, WriteLock, TypeOK
    <3>4. pc' \in [Procs -> PCs]
      BY <2>2 DEF TypeOK, PCs
    <3> QED
      BY <2>1, <3>1, <3>2, <3>3, <3>4 DEF TypeOK
  <2>5. HeapInv'
    BY <2>1 DEF HeapInv
  <2>6. ASSUME NEW q \in Procs PROVE BusyInv(q)'
    <3>1. CASE q = p
      BY <2>1, <2>2, <2>3, <3>1 DEF BusyInv, TypeOK, Storing, Resolving, Saving
    <3>2. CASE q # p
      BY <2>1, <2>2, <3>2 DEF BusyInv, TypeOK, Storing, Resolving, Saving
    <3> QED
      BY <3>1, <3>2
  <2> QED
    BY <2>4, <2>5, <2>6

(* A new request. *)
<1>BaseCall.
      ASSUME BaseInv, NEW p \in Procs, NEW r \in Request, Call(p, r)
      PROVE  BaseInv'
  <2> USE <1>BaseCall
  <2> USE DEF BaseInv
  <2>1. UNCHANGED <<ds, bblocks, oblocks, cache, heap, readers, writer, nlocks,
                    res, ent, bhash, names, list>>
    BY DEF Call, shared, locks
  <2>2. PICK l \in {"lock", "saveobject", "query", "lookup"} :
          /\ pc' = [pc EXCEPT ![p] = l]
          /\ l = "saveobject" => r.op = "PutObject"
          /\ l \in {"lookup", "lock"} => r.op # "GetBucketNames"
    <3>1. r.op = "GetBucketNames" => LockPlan(r) = <<>>
      BY DEF LockPlan, WriteOps, ReadOps
    <3> QED
      BY <3>1 DEF Call, Goto, Start
  <2>3. /\ req' = [req EXCEPT ![p] = r]
        /\ stage' = [stage EXCEPT ![p] = IF r.op = "CopyObject" THEN "assert" ELSE "main"]
    BY DEF Call
  <2>4. PICK x \in Object \cup {Nil} :
          obj' = [obj EXCEPT ![p] = x] /\ (r.op = "PutObject" => x # Nil)
    <3> DEFINE o == [bucket |-> r.b, name |-> r.o, data |-> r.data]
    <3>1. r.op = "PutObject" => o \in Object
      BY RequestFields DEF Object
    <3>2. CASE r.op = "PutObject"
      <4>1. obj' = [obj EXCEPT ![p] = o]
        BY <3>2 DEF Call
      <4> QED
        BY <3>1, <3>2, <4>1, Distinct
    <3>3. CASE r.op # "PutObject"
      <4>1. obj' = [obj EXCEPT ![p] = Nil]
        BY <3>3 DEF Call
      <4> QED
        BY <3>3, <4>1
    <3> QED
      BY <3>2, <3>3
  <2>5. TypeOK'
    BY <2>1, <2>2, <2>3, <2>4 DEF TypeOK, PCs, Stages
  <2>6. HeapInv'
    BY <2>1 DEF HeapInv
  <2>7. ASSUME NEW q \in Procs PROVE BusyInv(q)'
    <3>1. CASE q = p
      BY <2>1, <2>2, <2>3, <2>4, <3>1, Distinct
         DEF BusyInv, TypeOK, Storing, Resolving, Saving
    <3>2. CASE q # p
      BY <2>1, <2>2, <2>3, <2>4, <3>2 DEF BusyInv, TypeOK, Storing, Resolving, Saving
    <3> QED
      BY <3>1, <3>2
  <2> QED
    BY <2>5, <2>6, <2>7

(* A function returns, with its answer or with a backend error. *)
<1>BaseFinish.
      ASSUME BaseInv, NEW p \in Procs, pc[p] # "idle", NEW a, Finish(p, a),
             UNCHANGED <<shared, locks, locals, req, stage>>
      PROVE  BaseInv'
  <2> USE <1>BaseFinish
  <2> USE DEF BaseInv
  <2>1. /\ pc' = [pc EXCEPT ![p] = "return"] /\ res' = [res EXCEPT ![p] = a]
        /\ UNCHANGED <<ds, bblocks, oblocks, cache, heap, readers, writer, nlocks,
                       ent, bhash, obj, names, list, req, stage>>
    BY DEF Finish, Goto, shared, locks, locals
  <2>2. TypeOK'
    BY <2>1 DEF TypeOK, PCs
  <2>3. HeapInv'
    BY <2>1 DEF HeapInv
  <2>4. ASSUME NEW q \in Procs PROVE BusyInv(q)'
    <3>1. CASE q = p
      BY <2>1, <3>1 DEF BusyInv, TypeOK, Storing, Resolving, Saving
    <3>2. CASE q # p
      BY <2>1, <3>2 DEF BusyInv, TypeOK, Storing, Resolving, Saving
    <3> QED
      BY <3>1, <3>2
  <2> QED
    BY <2>2, <2>3, <2>4

(* The deferred unlocks. *)
<1>BaseReturn.
      ASSUME BaseInv, NEW p \in Procs, Return(p)
      PROVE  BaseInv'
  <2> USE <1>BaseReturn
  <2> USE DEF BaseInv
  <2>1. /\ pc' = [pc EXCEPT ![p] = "idle"] /\ ent' = [ent EXCEPT ![p] = Nil]
        /\ heap' = Collect(heap, cache, ent')
        /\ UNCHANGED <<ds, bblocks, oblocks, cache>>
    BY DEF Return, Goto
  <2>2. TypeOK'
    <3>1. heap' \in [Entries -> Entry \cup {Nil}]
      BY <2>1, CollectType DEF TypeOK
    <3>2. readers' \in [Buckets -> SUBSET Procs] /\ writer' \in [Buckets -> Procs \cup {Nil}]
      BY DEF Return, TypeOK
    <3>3. /\ pc' \in [Procs -> PCs]
          /\ req' \in [Procs -> Request \cup {Nil}]
          /\ DOMAIN res' = Procs
          /\ nlocks' \in [Procs -> Nat]
          /\ stage' \in [Procs -> Stages]
      BY DEF Return, Goto, TypeOK, PCs, Stages
    <3>4. /\ ent' \in [Procs -> Entries \cup {Nil}]
          /\ bhash' \in [Procs -> BucketBlock \cup {Nil}]
          /\ obj' \in [Procs -> Object \cup {Nil}]
          /\ names' \in [Procs -> SUBSET Objects]
          /\ list' \in [Procs -> SUBSET Object]
      BY DEF Return, TypeOK
    <3> QED
      BY <2>1, <3>1, <3>2, <3>3, <3>4 DEF TypeOK
  <2>3. ASSUME NEW q \in Procs, ent'[q] \in Entries
        PROVE  ent'[q] = ent[q] /\ heap'[ent[q]] = heap[ent[q]]
    <3>1. ent'[q] = ent[q]
      BY <2>1, <2>3, Distinct DEF TypeOK
    <3>2. Collect(heap, cache, ent')[ent'[q]] = heap[ent'[q]]
      BY <2>3, CollectLocal, SMTT(20)
    <3> QED
      BY <2>1, <3>1, <3>2
  <2>4. HeapInv'
    <3>1. ASSUME NEW b \in Buckets, cache[b] \in Entries
          PROVE  heap'[cache[b]] = heap[cache[b]]
      BY <2>1, <3>1, CollectCached, SMTT(20)
    <3>2. \A b \in Buckets : cache'[b] \in Entries => heap'[cache'[b]] # Nil
      BY <2>1, <3>1 DEF HeapInv
    <3>3. \A q \in Procs : ent'[q] \in Entries => heap'[ent'[q]] # Nil
      BY <2>3 DEF HeapInv
    <3> QED
      BY <3>2, <3>3 DEF HeapInv
  <2>5. ASSUME NEW q \in Procs PROVE BusyInv(q)'
    <3>1. CASE q = p
      BY <2>1, <3>1 DEF BusyInv, TypeOK
    <3>2. CASE q # p
      <4>1. /\ pc'[q] = pc[q] /\ req'[q] = req[q] /\ stage'[q] = stage[q]
            /\ obj'[q] = obj[q] /\ bhash'[q] = bhash[q] /\ ent'[q] = ent[q]
        BY <3>2 DEF Return, Goto, TypeOK
      <4> QED
        BY <2>3, <4>1, SMTT(20) DEF BusyInv, TypeOK, Storing, Resolving, Saving
    <3> QED
      BY <3>1, <3>2
  <2> QED
    BY <2>2, <2>4, <2>5

(***************************************************************************)
(* getBucketNilable returns e to p, with a heap h that keeps the entries   *)
(* in use and a map c whose pointers lead into h.                          *)
(***************************************************************************)
<1>BaseResolved.
      ASSUME BaseInv, NEW p \in Procs, pc[p] \in {"lookup", "setnil", "fill"},
             NEW e \in Entries \cup {Nil},
             NEW h \in [Entries -> Entry \cup {Nil}],
             NEW c \in [Buckets -> Entries \cup {Nil, Absent}],
             \A b \in Buckets : c[b] \in Entries => h[c[b]] # Nil,
             e \in Entries => h[e] # Nil,
             \A q \in Procs : ent[q] \in Entries => h[ent[q]] = heap[ent[q]],
             Resolved(p, e, h, c),
             UNCHANGED <<ds, bblocks, oblocks, locks, obj, names, list, req>>,
             bhash' = bhash \/ bhash' = [bhash EXCEPT ![p] = Nil]
      PROVE  BaseInv'
  <2> USE <1>BaseResolved
  <2> USE DEF BaseInv
  <2>1. /\ cache' = c /\ ent' = [ent EXCEPT ![p] = e]
        /\ heap' = Collect(h, c, ent')
        /\ UNCHANGED <<ds, bblocks, oblocks, readers, writer, nlocks, obj, names, list, req>>
    BY DEF Resolved, locks
  <2>2. req[p] # Nil /\ req[p].op # "GetBucketNames"
    BY DEF BusyInv, Resolving
  <2>3. PICK l \in {"savebucket", "return", "uncache", "lookup", "load"} :
          /\ pc' = [pc EXCEPT ![p] = l]
          /\ l = "savebucket" => req[p].op = "CreateBucket"
          /\ l = "uncache" => req[p].op = "DeleteBucket"
          /\ l = "load" => e # Nil
    BY DEF Resolved, Goto, Finish
  <2>4. /\ stage' = stage \/ (stage[p] = "assert" /\ stage' = [stage EXCEPT ![p] = "source"])
        /\ DOMAIN res' = Procs
    BY DEF Resolved, Finish, TypeOK
  <2>5. TypeOK'
    <3>1. heap' \in [Entries -> Entry \cup {Nil}]
      BY <2>1, CollectType
    <3>2. pc' \in [Procs -> PCs] /\ stage' \in [Procs -> Stages]
      BY <2>3, <2>4, SMTT(20) DEF TypeOK, PCs, Stages
    <3>3. bhash' \in [Procs -> BucketBlock \cup {Nil}]
      BY DEF TypeOK
    <3> QED
      BY <2>1, <2>4, <3>1, <3>2, <3>3 DEF TypeOK
  <2>6. ASSUME NEW q \in Procs, ent'[q] \in Entries
        PROVE  heap'[ent'[q]] = h[ent'[q]] /\ h[ent'[q]] # Nil
    <3>1. Collect(h, c, ent')[ent'[q]] = h[ent'[q]]
      BY <2>6, CollectLocal, SMTT(20)
    <3>2. h[ent'[q]] # Nil
      <4>1. CASE q = p
        BY <2>1, <2>6, <4>1 DEF TypeOK
      <4>2. CASE q # p
        BY <2>1, <2>6, <4>2 DEF TypeOK, HeapInv
      <4> QED
        BY <4>1, <4>2
    <3> QED
      BY <2>1, <3>1, <3>2
  <2>7. HeapInv'
    <3>1. ASSUME NEW b \in Buckets, c[b] \in Entries
          PROVE  heap'[c[b]] # Nil
      BY <2>1, <3>1, CollectCached, SMTT(20)
    <3> QED
      BY <2>1, <2>6, <3>1 DEF HeapInv
  <2>8. ASSUME NEW q \in Procs PROVE BusyInv(q)'
    <3>1. CASE q = p
      <4>1. /\ pc'[p] \in {"savebucket", "return", "uncache", "lookup", "load"}
            /\ ent'[p] = e /\ obj'[p] = obj[p] /\ req'[p] = req[p]
            /\ pc'[p] = "savebucket" => req[p].op = "CreateBucket"
            /\ pc'[p] = "uncache" => req[p].op = "DeleteBucket"
            /\ pc'[p] = "load" => e # Nil
        BY <2>1, <2>3 DEF TypeOK
      <4>2. stage'[p] = stage[p] \/ (stage[p] = "assert" /\ stage'[p] = "source")
        BY <2>4 DEF TypeOK
      <4>3. BusyInv(p)
        OBVIOUS
      <4> QED
        BY <2>2, <3>1, <4>1, <4>2, <4>3 DEF BusyInv, Storing, Resolving, Saving
    <3>2. CASE q # p
      <4>1. /\ pc'[q] = pc[q] /\ req'[q] = req[q] /\ stage'[q] = stage[q]
            /\ obj'[q] = obj[q] /\ bhash'[q] = bhash[q] /\ ent'[q] = ent[q]
        BY <2>1, <2>3, <2>4, <3>2 DEF TypeOK
      <4>2. ent[q] # Nil => heap'[ent[q]] = heap[ent[q]]
        <5> SUFFICES ASSUME ent[q] # Nil PROVE heap'[ent[q]] = heap[ent[q]]
          OBVIOUS
        <5>1. ent[q] \in Entries
          BY DEF TypeOK
        <5>2. heap'[ent'[q]] = h[ent'[q]]
          BY <2>6, <4>1, <5>1
        <5> QED
          BY <4>1, <5>1, <5>2
      <4>3. BusyInv(q)
        OBVIOUS
      <4> QED
        BY <4>1, <4>2, <4>3 DEF BusyInv, Storing, Resolving, Saving
    <3> QED
      BY <3>1, <3>2
  <2> QED
    BY <2>5, <2>7, <2>8

(* A goroutine whose locals and loaded entry a step leaves alone. *)
<1>BusyOther.
      ASSUME TypeOK, NEW q \in Procs, BusyInv(q),
             pc'[q] = pc[q], req'[q] = req[q], stage'[q] = stage[q],
             obj'[q] = obj[q], bhash'[q] = bhash[q], ent'[q] = ent[q],
             ent[q] # Nil /\ heap[ent[q]].bkt # Nil => heap'[ent[q]].bkt # Nil
      PROVE  BusyInv(q)'
  BY <1>BusyOther DEF BusyInv, Storing, Resolving, Saving

(* The steps of getBucketNilable. *)
<1>BaseLookup.
      ASSUME BaseInv, NEW p \in Procs, Lookup(p)
      PROVE  BaseInv'
  <2> USE <1>BaseLookup
  <2> USE DEF BaseInv
  <2>1. CASE cache[Cur(p)] # Absent /\ Resolved(p, cache[Cur(p)], heap, cache)
    <3>1. Cur(p) \in Buckets
      <4>1. BusyInv(p) /\ req[p] \in Request \cup {Nil}
        BY DEF TypeOK
      <4> QED
        BY <4>1, RequestFields DEF Cur, BusyInv, Resolving, Lookup
    <3>2. cache[Cur(p)] \in Entries \cup {Nil}
      BY <2>1, <3>1 DEF TypeOK
    <3> QED
      BY <2>1, <3>1, <3>2, <1>BaseResolved DEF Lookup, TypeOK, HeapInv
  <2>2. CASE cache[Cur(p)] = Absent
    <3>1. /\ pc' = [pc EXCEPT ![p] = "dsget"] /\ pc[p] = "lookup"
          /\ UNCHANGED <<ds, bblocks, oblocks, cache, heap, readers, writer, nlocks,
                         ent, bhash, obj, names, list, req, res, stage>>
      BY <2>2 DEF Lookup, Goto, locks
    <3>2. TypeOK' /\ HeapInv'
      BY <3>1 DEF TypeOK, PCs, HeapInv
    <3>3. ASSUME NEW q \in Procs PROVE BusyInv(q)'
      <4>1. CASE q = p
        BY <3>1, <4>1 DEF BusyInv, TypeOK, Storing, Resolving, Saving
      <4>2. CASE q # p
        BY <3>1, <4>2, <1>BusyOther DEF TypeOK
      <4> QED
        BY <4>1, <4>2
    <3> QED
      BY <3>2, <3>3
  <2> QED
    BY <2>1, <2>2 DEF Lookup

<1>BaseDsGet.
      ASSUME BaseInv, NEW p \in Procs, DsGet(p)
      PROVE  BaseInv'
  <2> USE <1>BaseDsGet
  <2> USE DEF BaseInv
  <2>0. Cur(p) \in Buckets
    <3>1. BusyInv(p) /\ req[p] \in Request \cup {Nil}
      BY DEF TypeOK
    <3> QED
      BY <3>1, RequestFields DEF Cur, BusyInv, Resolving, DsGet
  <2>1. /\ pc' = [pc EXCEPT ![p] = IF ds[Cur(p)] = Nil THEN "setnil" ELSE "fill"]
        /\ pc[p] = "dsget" /\ bhash' = [bhash EXCEPT ![p] = ds[Cur(p)]]
        /\ UNCHANGED <<ds, bblocks, oblocks, cache, heap, readers, writer, nlocks,
                       ent, obj, names, list, req, res, stage>>
    BY DEF DsGet, Goto, shared, locks
  <2>2. TypeOK' /\ HeapInv'
    BY <2>0, <2>1 DEF TypeOK, PCs, HeapInv
  <2>3. ASSUME NEW q \in Procs PROVE BusyInv(q)'
    <3>1. CASE q = p
      BY <2>0, <2>1, <3>1 DEF BusyInv, TypeOK, Storing, Resolving, Saving
    <3>2. CASE q # p
      BY <2>1, <3>2, <1>BusyOther DEF TypeOK
    <3> QED
      BY <3>1, <3>2
  <2> QED
    BY <2>2, <2>3

<1>BaseSetNil.
      ASSUME BaseInv, NEW p \in Procs, SetNil(p)
      PROVE  BaseInv'
  <2> USE <1>BaseSetNil
  <2> USE DEF BaseInv
  <2> DEFINE c == [cache EXCEPT ![Cur(p)] = Nil]
  <2>1. c \in [Buckets -> Entries \cup {Nil, Absent}]
    BY DEF TypeOK
  <2>2. \A b \in Buckets : c[b] \in Entries => heap[c[b]] # Nil
    BY Distinct DEF TypeOK, HeapInv
  <2>3. Resolved(p, Nil, heap, c)
    BY DEF SetNil
  <2> HIDE DEF c
  <2> QED
    BY <2>1, <2>2, <2>3, <1>BaseResolved, Distinct DEF SetNil, TypeOK

<1>BaseFill.
      ASSUME BaseInv, NEW p \in Procs, Fill(p)
      PROVE  BaseInv'
  <2> USE <1>BaseFill
  <2> USE DEF BaseInv
  <2>0. Cur(p) \in Buckets /\ bhash[p] \in BucketBlock
    <3>1. BusyInv(p) /\ req[p] \in Request \cup {Nil} /\ bhash[p] \in BucketBlock \cup {Nil}
      BY DEF TypeOK
    <3> QED
      BY <3>1, RequestFields DEF Cur, BusyInv, Resolving, Fill
  <2>1. CASE cache[Cur(p)] # Absent /\ Resolved(p, cache[Cur(p)], heap, cache)
    <3>1. cache[Cur(p)] \in Entries \cup {Nil}
      BY <2>0, <2>1 DEF TypeOK
    <3> QED
      BY <2>0, <2>1, <3>1, <1>BaseResolved DEF Fill, TypeOK, HeapInv
  <2>2. ASSUME NEW e \in Entries, IsNextFree(e),
               Resolved(p, e, [heap EXCEPT ![e] = [hash |-> bhash[p], bkt |-> Nil]],
                        [cache EXCEPT ![Cur(p)] = e])
        PROVE  BaseInv'
    <3> DEFINE h == [heap EXCEPT ![e] = [hash |-> bhash[p], bkt |-> Nil]]
               c == [cache EXCEPT ![Cur(p)] = e]
    <3>0. [hash |-> bhash[p], bkt |-> Nil] \in Entry
      BY <2>0 DEF Entry
    <3>1. /\ h \in [Entries -> Entry \cup {Nil}] /\ h[e] # Nil
          /\ c \in [Buckets -> Entries \cup {Nil, Absent}]
      BY <3>0, Distinct DEF TypeOK
    <3>2. heap[e] = Nil
      BY <2>2 DEF IsNextFree
    <3>3. \A b \in Buckets : c[b] \in Entries => h[c[b]] # Nil
      BY <3>1, <3>2 DEF TypeOK, HeapInv
    <3>4. \A q \in Procs : ent[q] \in Entries => h[ent[q]] = heap[ent[q]]
      BY <3>2 DEF TypeOK, HeapInv
    <3>5. Resolved(p, e, h, c)
      BY <2>2
    <3> HIDE DEF h, c
    <3> QED
      BY <3>1, <3>3, <3>4, <3>5, <1>BaseResolved DEF Fill
  <2> QED
    BY <2>1, <2>2 DEF Fill

(* ensureCache. *)
<1>BaseLoad.
      ASSUME BaseInv, NEW p \in Procs, Load(p)
      PROVE  BaseInv'
  <2> USE <1>BaseLoad
  <2> USE DEF BaseInv
  <2>1. /\ pc' = [pc EXCEPT ![p] = IF heap[ent[p]].bkt = Nil THEN "fetch" ELSE "use"]
        /\ pc[p] = "load"
        /\ UNCHANGED <<ds, bblocks, oblocks, cache, heap, readers, writer, nlocks,
                       ent, bhash, obj, names, list, req, res, stage>>
    BY DEF Load, Goto, shared, locks, locals
  <2>2. TypeOK' /\ HeapInv'
    BY <2>1 DEF TypeOK, PCs, HeapInv
  <2>3. ASSUME NEW q \in Procs PROVE BusyInv(q)'
    <3>1. CASE q = p
      BY <2>1, <3>1 DEF BusyInv, TypeOK, Storing, Resolving, Saving
    <3>2. CASE q # p
      BY <2>1, <3>2, <1>BusyOther DEF TypeOK
    <3> QED
      BY <3>1, <3>2
  <2> QED
    BY <2>2, <2>3

(* A goroutine changes the Bucket of its entry in place. *)
<1>BaseChange.
      ASSUME BaseInv, NEW p \in Procs, ent[p] # Nil, NEW k \in Bucket,
             heap' = [heap EXCEPT ![ent[p]].bkt = k],
             NEW l \in {"use", "savebucket"}, pc' = [pc EXCEPT ![p] = l],
             pc[p] \in {"fetch", "use"},
             l = "savebucket" => req[p].op \in {"PutObject", "CopyObject",
                                               "RemoveObject", "RemoveObjects"},
             names' \in [Procs -> SUBSET Objects],
             UNCHANGED <<ds, bblocks, oblocks, cache, readers, writer, nlocks,
                         ent, bhash, obj, list, req, res, stage>>
      PROVE  BaseInv'
  <2> USE <1>BaseChange
  <2> USE DEF BaseInv
  <2>1. ent[p] \in Entries /\ heap[ent[p]] \in Entry
    BY EntryInUse
  <2>2. heap' = [heap EXCEPT ![ent[p]] = [hash |-> heap[ent[p]].hash, bkt |-> k]]
    <3>1. [heap[ent[p]] EXCEPT !.bkt = k] = [hash |-> heap[ent[p]].hash, bkt |-> k]
      BY <2>1, SMTT(20) DEF Entry
    <3>2. heap' = [heap EXCEPT ![ent[p]] = [heap[ent[p]] EXCEPT !.bkt = k]]
      OBVIOUS
    <3> QED
      BY <3>1, <3>2
  <2>3. [hash |-> heap[ent[p]].hash, bkt |-> k] \in Entry
    BY <2>1 DEF Entry
  <2>4. heap' \in [Entries -> Entry \cup {Nil}]
    BY <2>2, <2>3 DEF TypeOK
  <2>5. /\ heap'[ent[p]] = [hash |-> heap[ent[p]].hash, bkt |-> k]
        /\ \A e \in Entries : e # ent[p] => heap'[e] = heap[e]
    BY <2>1, <2>2 DEF TypeOK
  <2>6. TypeOK'
    BY <2>4 DEF TypeOK, PCs
  <2>7. HeapInv'
    <3>1. \A e \in Entries : heap[e] # Nil => heap'[e] # Nil
      BY <2>3, <2>5, Distinct
    <3> QED
      BY <3>1 DEF HeapInv
  <2>8. heap'[ent[p]].bkt # Nil
    BY <2>5, Distinct, SMTT(20)
  <2>9. ASSUME NEW q \in Procs PROVE BusyInv(q)'
    <3>1. CASE q = p
      BY <2>8, <3>1 DEF BusyInv, TypeOK, Storing, Resolving, Saving
    <3>2. CASE q # p
      <4>1. ent[q] # Nil /\ heap[ent[q]].bkt # Nil => heap'[ent[q]].bkt # Nil
        BY <2>5, <2>8 DEF TypeOK
      <4> QED
        BY <3>2, <4>1, <1>BusyOther DEF TypeOK
    <3> QED
      BY <3>1, <3>2
  <2> QED
    BY <2>6, <2>7, <2>9

<1>BaseFetch.
      ASSUME BaseInv, NEW p \in Procs, Fetch(p)
      PROVE  BaseInv'
  <2> USE <1>BaseFetch
  <2> USE DEF BaseInv
  <2>0. /\ pc[p] = "fetch" /\ ent[p] # Nil
        /\ UNCHANGED <<ds, bblocks, oblocks, cache, readers, writer, nlocks,
                       ent, bhash, obj, names, list, req, res, stage>>
    BY DEF Fetch, BusyInv, locks, locals
  <2>1. CASE heap[ent[p]].bkt = Nil
    <3> DEFINE k == Unmarshal(heap[ent[p]].hash)
    <3>1. k \in Bucket
      BY <2>0, EntryInUse DEF Unmarshal, Bucket, Entry, BucketBlock
    <3>2. heap' = [heap EXCEPT ![ent[p]].bkt = k] /\ pc' = [pc EXCEPT ![p] = "use"]
      BY <2>1 DEF Fetch, Goto
    <3> HIDE DEF k
    <3> QED
      BY <2>0, <3>1, <3>2, <1>BaseChange DEF TypeOK
  <2>2. CASE heap[ent[p]].bkt # Nil
    <3>1. pc' = [pc EXCEPT ![p] = "panic"] /\ heap' = heap
      BY <2>2 DEF Fetch, Goto
    <3>2. TypeOK' /\ HeapInv'
      BY <2>0, <3>1 DEF TypeOK, PCs, HeapInv
    <3>3. ASSUME NEW q \in Procs PROVE BusyInv(q)'
      <4>1. CASE q = p
        BY <2>0, <3>1, <4>1 DEF BusyInv, TypeOK, Storing, Resolving, Saving
      <4>2. CASE q # p
        BY <2>0, <3>1, <4>2, <1>BusyOther DEF TypeOK
      <4> QED
        BY <4>1, <4>2
    <3> QED
      BY <3>2, <3>3
  <2> QED
    BY <2>1, <2>2

(* The steps that use a loaded bucket. *)
<1>BaseFindObject.
      ASSUME BaseInv, NEW p \in Procs, FindObject(p)
      PROVE  BaseInv'
  <2> USE <1>BaseFindObject
  <2> USE DEF BaseInv
  <2>1. PICK n \in Objects :
          /\ Wanted(p, n)
          /\ \/ /\ Bkt(p).objs[n] = Nil
                /\ Finish(p, ObjectDoesNotExist)
                /\ UNCHANGED obj
             \/ /\ Bkt(p).objs[n] # Nil
                /\ obj' = [obj EXCEPT ![p] = Bkt(p).objs[n]]
                /\ Goto(p, "getobject")
                /\ UNCHANGED res
    BY DEF FindObject
  <2>2. /\ pc[p] = "use"
        /\ UNCHANGED <<ds, bblocks, oblocks, cache, heap, readers, writer, nlocks,
                       ent, bhash, names, list, req, stage>>
    BY DEF FindObject, shared, locks
  <2>3. CASE Finish(p, ObjectDoesNotExist) /\ UNCHANGED obj
    BY <2>2, <2>3, <1>BaseFinish DEF shared, locks, locals
  <2>4. CASE /\ Bkt(p).objs[n] # Nil
             /\ obj' = [obj EXCEPT ![p] = Bkt(p).objs[n]]
             /\ Goto(p, "getobject")
             /\ UNCHANGED res
    <3>1. Bkt(p) \in Bucket
      BY <2>2, EntryInUse DEF BusyInv, Bkt
    <3>2. Bkt(p).objs[n] \in Object
      BY <2>4, <3>1 DEF Bucket
    <3>3. /\ obj' \in [Procs -> Object \cup {Nil}] /\ pc' = [pc EXCEPT ![p] = "getobject"]
          /\ obj'[p] # Nil /\ \A q \in Procs : q # p => obj'[q] = obj[q]
      BY <2>4, <3>2, Distinct DEF TypeOK, Goto
    <3>4. TypeOK' /\ HeapInv'
      BY <2>2, <2>4, <3>3 DEF TypeOK, PCs, HeapInv
    <3>5. ASSUME NEW q \in Procs PROVE BusyInv(q)'
      <4>1. CASE q = p
        BY <2>2, <3>3, <4>1 DEF BusyInv, TypeOK, Storing, Resolving, Saving
      <4>2. CASE q # p
        BY <2>2, <3>3, <4>2, <1>BusyOther DEF TypeOK
      <4> QED
        BY <4>1, <4>2
    <3> QED
      BY <3>4, <3>5
  <2> QED
    BY <2>1, <2>3, <2>4

<1>BaseGetObject.
      ASSUME BaseInv, NEW p \in Procs, GetObject(p)
      PROVE  BaseInv'
  <2> USE <1>BaseGetObject
  <2> USE DEF BaseInv
  <2>1. /\ pc[p] = "getobject" /\ obj[p] \in Object
        /\ UNCHANGED <<ds, bblocks, oblocks, cache, heap, readers, writer, nlocks,
                       ent, bhash, req>>
    BY DEF GetObject, shared, locks, TypeOK
  <2>2. /\ req[p] # Nil /\ req[p] \in Request
        /\ stage[p] \in {"assert", "source"} => req[p].op = "CopyObject"
        /\ stage[p] = "item" => req[p].op = "GetObjectInfos"
    BY <2>1 DEF BusyInv, TypeOK
  <2>3. CASE /\ req[p].op = "ObjectInfo" /\ Finish(p, Ok(obj[p]))
             /\ UNCHANGED <<obj, names, list, stage>>
    BY <2>1, <2>3, <1>BaseFinish DEF shared, locks, locals
  <2>4. CASE req[p].op # "ObjectInfo"
    <3>1. PICK l \in {"saveobject", "lookup", "return"}, x \in Object \cup {Nil} :
            /\ pc' = [pc EXCEPT ![p] = l] /\ obj' = [obj EXCEPT ![p] = x]
            /\ req[p].op = "CopyObject" => l = "saveobject" /\ x # Nil
            /\ req[p].op # "CopyObject" => req[p].op = "GetObjectInfos" /\ l # "saveobject"
      <4>1. CASE req[p].op = "CopyObject"
        <5> DEFINE x == [bucket |-> req[p].b, name |-> req[p].o, data |-> obj[p].data]
        <5>1. x \in Object
          BY <2>1, <2>2, <4>1, RequestFields DEF Object
        <5>2. obj' = [obj EXCEPT ![p] = x] /\ pc' = [pc EXCEPT ![p] = "saveobject"]
          BY <4>1 DEF GetObject, Goto, TypeOK
        <5> QED
          BY <4>1, <5>1, <5>2, Distinct
      <4>2. CASE req[p].op = "GetObjectInfos"
        BY <4>2 DEF GetObject, Goto, Finish
      <4> QED
        BY <2>4, <4>1, <4>2 DEF GetObject
    <3>2. /\ names' \in [Procs -> SUBSET Objects] /\ list' \in [Procs -> SUBSET Object]
          /\ DOMAIN res' = Procs
          /\ stage' = IF req[p].op = "CopyObject" THEN [stage EXCEPT ![p] = "main"] ELSE stage
      BY <2>1, <2>4, SMTT(20) DEF GetObject, Finish, TypeOK
    <3>3. TypeOK' /\ HeapInv'
      BY <2>1, <3>1, <3>2 DEF TypeOK, PCs, Stages, HeapInv
    <3>4. ASSUME NEW q \in Procs PROVE BusyInv(q)'
      <4>1. CASE q = p
        BY <2>1, <2>2, <3>1, <3>2, <4>1 DEF BusyInv, TypeOK, Storing, Resolving, Saving
      <4>2. CASE q # p
        BY <2>1, <3>1, <3>2, <4>2, <1>BusyOther DEF TypeOK
      <4> QED
        BY <4>1, <4>2
    <3> QED
      BY <3>3, <3>4
  <2> QED
    BY <2>3, <2>4 DEF GetObject

<1>BaseGetObjectInfos.
      ASSUME BaseInv, NEW p \in Procs, GetObjectInfos(p)
      PROVE  BaseInv'
  <2> USE <1>BaseGetObjectInfos
  <2> USE DEF BaseInv
  <2>1. /\ pc[p] = "use" /\ req[p].op = "GetObjectInfos"
        /\ stage' = [stage EXCEPT ![p] = "item"]
        /\ UNCHANGED <<ds, bblocks, oblocks, cache, heap, readers, writer, nlocks,
                       ent, bhash, obj, list, req>>
    BY DEF GetObjectInfos, shared, locks
  <2>2. PICK l \in {"return", "lookup"} : pc' = [pc EXCEPT ![p] = l]
    BY DEF GetObjectInfos, Goto, Finish
  <2>3. names' \in [Procs -> SUBSET Objects] /\ DOMAIN res' = Procs
    BY DEF GetObjectInfos, Finish, TypeOK, Page
  <2>4. TypeOK' /\ HeapInv'
    BY <2>1, <2>2, <2>3 DEF TypeOK, PCs, Stages, HeapInv
  <2>5. ASSUME NEW q \in Procs PROVE BusyInv(q)'
    <3>1. CASE q = p
      BY <2>1, <2>2, <3>1 DEF BusyInv, TypeOK, Storing, Resolving, Saving
    <3>2. CASE q # p
      BY <2>1, <2>2, <3>2, <1>BusyOther DEF TypeOK
    <3> QED
      BY <3>1, <3>2
  <2> QED
    BY <2>4, <2>5

<1>BasePutObjectHash.
      ASSUME BaseInv, NEW p \in Procs, PutObjectHash(p)
      PROVE  BaseInv'
  <2> USE <1>BasePutObjectHash
  <2> USE DEF BaseInv
  <2>1. /\ pc[p] = "use" /\ Storing(p)
        /\ pc' = [pc EXCEPT ![p] = "savebucket"]
        /\ UNCHANGED <<ds, bblocks, oblocks, cache, readers, writer, nlocks,
                       ent, bhash, obj, names, list, req, res, stage>>
    BY DEF PutObjectHash, Storing, Goto, locks, locals
  <2>2. /\ ent[p] # Nil /\ Bkt(p) \in Bucket /\ obj[p] \in Object
        /\ req[p].o \in Objects /\ req[p].op \in {"PutObject", "CopyObject"}
    <3>1. ent[p] # Nil /\ heap[ent[p]].bkt # Nil /\ obj[p] # Nil /\ req[p] # Nil
      BY <2>1 DEF BusyInv
    <3> QED
      BY <2>1, <3>1, EntryInUse, RequestFields DEF Bkt, Storing, TypeOK
  <2> DEFINE k == [Bkt(p) EXCEPT !.objs[req[p].o] = obj[p], !.made = TRUE]
  <2>3. k \in Bucket
    BY <2>2 DEF Bucket
  <2>4. heap' = [heap EXCEPT ![ent[p]].bkt = k]
    BY DEF PutObjectHash, Bkt
  <2> HIDE DEF k
  <2> QED
    BY <2>1, <2>2, <2>3, <2>4, <1>BaseChange DEF TypeOK

<1>BaseRemoveObjects.
      ASSUME BaseInv, NEW p \in Procs, RemoveObjects(p)
      PROVE  BaseInv'
  <2> USE <1>BaseRemoveObjects
  <2> USE DEF BaseInv
  <2>1. /\ pc[p] = "use" /\ req[p].op \in {"RemoveObject", "RemoveObjects"}
        /\ UNCHANGED <<ds, bblocks, oblocks, cache, readers, writer, nlocks,
                       ent, bhash, obj, list, req, stage>>
    BY DEF RemoveObjects, locks
  <2>2. ent[p] # Nil /\ Bkt(p) \in Bucket /\ req[p] \in Request
    BY <2>1, EntryInUse DEF BusyInv, Bkt, TypeOK
  <2>3. CASE ~Bkt(p).made
    <3>1. Finish(p, RemoveAnswer(req[p], req[p].names)) /\ UNCHANGED <<heap, names>>
      BY <2>3 DEF RemoveObjects
    <3> QED
      BY <2>1, <3>1, <1>BaseFinish DEF shared, locks, locals
  <2>4. CASE Bkt(p).made
    <3> DEFINE k == [Bkt(p) EXCEPT !.objs =
                       [o \in Objects |-> IF o \in req[p].names THEN Nil ELSE @[o]]]
    <3>1. k \in Bucket
      BY <2>2 DEF Bucket
    <3>2. heap' = [heap EXCEPT ![ent[p]].bkt = k]
      BY <2>4 DEF RemoveObjects, Bkt
    <3>3. names' \in [Procs -> SUBSET Objects]
      <4>1. req[p].names \subseteq Objects
        BY <2>1, <2>2 DEF Request, CreateRequest, BucketRequest, PutRequest,
             RemoveRequest, ReadRequest, ListRequest, CopyRequest, NamesRequest
      <4> QED
        BY <2>4, <4>1, SMTT(20) DEF RemoveObjects, TypeOK
    <3>4. pc' = [pc EXCEPT ![p] = "savebucket"] /\ UNCHANGED res
      BY <2>4 DEF RemoveObjects, Goto
    <3> HIDE DEF k
    <3> QED
      BY <2>1, <2>2, <3>1, <3>2, <3>3, <3>4, <1>BaseChange
  <2> QED
    BY <2>3, <2>4

(* The steps that write. *)
<1>BaseSaveObject.
      ASSUME BaseInv, NEW p \in Procs, SaveObject(p)
      PROVE  BaseInv'
  <2> USE <1>BaseSaveObject
  <2> USE DEF BaseInv
  <2>1. /\ pc[p] = "saveobject" /\ pc' = [pc EXCEPT ![p] = "lookup"]
        /\ oblocks' = oblocks \cup {obj[p]}
        /\ UNCHANGED <<ds, bblocks, cache, heap, readers, writer, nlocks,
                       ent, bhash, obj, names, list, req, res, stage>>
    BY DEF SaveObject, Goto, locks, locals
  <2>2. obj[p] \in Object /\ Storing(p)
    BY <2>1 DEF BusyInv, TypeOK
  <2>3. TypeOK' /\ HeapInv'
    BY <2>1, <2>2 DEF TypeOK, PCs, HeapInv
  <2>4. ASSUME NEW q \in Procs PROVE BusyInv(q)'
    <3>1. CASE q = p
      BY <2>1, <2>2, <3>1 DEF BusyInv, TypeOK, Storing, Resolving, Saving
    <3>2. CASE q # p
      BY <2>1, <3>2, <1>BusyOther DEF TypeOK
    <3> QED
      BY <3>1, <3>2
  <2> QED
    BY <2>3, <2>4

<1>BaseSaveBucket.
      ASSUME BaseInv, NEW p \in Procs, SaveBucket(p)
      PROVE  BaseInv'
  <2> USE <1>BaseSaveBucket
  <2> USE DEF BaseInv
  <2>1. /\ pc[p] = "savebucket"
        /\ UNCHANGED <<ds, oblocks, cache, heap, readers, writer, nlocks,
                       ent, obj, names, list, req, stage>>
    BY DEF SaveBucket, locks
  <2>2. CASE Saved(p).name # req[p].b
    <3>1. Finish(p, Failure("bucket name miss match")) /\ UNCHANGED <<bblocks, bhash>>
      BY <2>2 DEF SaveBucket
    <3> QED
      BY <2>1, <3>1, <1>BaseFinish DEF shared, locks, locals
  <2>3. CASE Saved(p).name = req[p].b
    <3> DEFINE m == Marshal(Saved(p))
    <3>1. m \in BucketBlock
      BY <2>1, SavedType DEF Saving
    <3>2. /\ bblocks' = bblocks \cup {m} /\ bhash' = [bhash EXCEPT ![p] = m]
          /\ pc' = [pc EXCEPT ![p] = "dsput"] /\ UNCHANGED res
      BY <2>3 DEF SaveBucket, Goto
    <3> HIDE DEF m
    <3>3. TypeOK' /\ HeapInv'
      BY <2>1, <3>1, <3>2 DEF TypeOK, PCs, HeapInv
    <3>4. ASSUME NEW q \in Procs PROVE BusyInv(q)'
      <4>1. CASE q = p
        BY <2>1, <3>1, <3>2, <4>1, Distinct DEF BusyInv, TypeOK, Storing, Resolving, Saving
      <4>2. CASE q # p
        BY <2>1, <3>2, <4>2, <1>BusyOther DEF TypeOK
      <4> QED
        BY <4>1, <4>2
    <3> QED
      BY <3>3, <3>4
  <2> QED
    BY <2>2, <2>3

<1>BaseDsPut.
      ASSUME BaseInv, NEW p \in Procs, DsPut(p)
      PROVE  BaseInv'
  <2> USE <1>BaseDsPut
  <2> USE DEF BaseInv
  <2>1. /\ pc[p] = "dsput" /\ pc' = [pc EXCEPT ![p] = "install"]
        /\ ds' = [ds EXCEPT ![req[p].b] = bhash[p]]
        /\ res' = [res EXCEPT ![p] = WriteAnswer(p)]
        /\ UNCHANGED <<bblocks, oblocks, cache, heap, readers, writer, nlocks,
                       ent, bhash, obj, names, list, req, stage>>
    BY DEF DsPut, Goto, locks, locals
  <2>2. TypeOK' /\ HeapInv'
    BY <2>1 DEF TypeOK, PCs, HeapInv
  <2>3. ASSUME NEW q \in Procs PROVE BusyInv(q)'
    <3>1. CASE q = p
      BY <2>1, <3>1 DEF BusyInv, TypeOK, Storing, Resolving, Saving
    <3>2. CASE q # p
      BY <2>1, <3>2, <1>BusyOther DEF TypeOK
    <3> QED
      BY <3>1, <3>2
  <2> QED
    BY <2>2, <2>3

<1>BaseDrop.
      ASSUME BaseInv, NEW p \in Procs, pc[p] \in {"install", "uncache"},
             NEW h \in [Entries -> Entry \cup {Nil}],
             NEW c \in [Buckets -> Entries \cup {Nil, Absent}],
             \A b \in Buckets : c[b] \in Entries => h[c[b]] # Nil,
             \A q \in Procs : ent[q] \in Entries => h[ent[q]] = heap[ent[q]],
             Drops(p, h, c),
             NEW l \in {"return", "dsdelete"}, pc' = [pc EXCEPT ![p] = l],
             l = "dsdelete" => req[p].op = "DeleteBucket",
             UNCHANGED <<ds, bblocks, oblocks, readers, writer, nlocks,
                         bhash, obj, names, list, req, res, stage>>
      PROVE  BaseInv'
  <2> USE <1>BaseDrop
  <2> USE DEF BaseInv
  <2>1. TypeOK'
    <3>1. heap' \in [Entries -> Entry \cup {Nil}]
      BY CollectType DEF Drops
    <3>2. cache' = c /\ ent' \in [Procs -> Entries \cup {Nil}]
      BY DEF Drops, TypeOK
    <3> QED
      BY <3>1, <3>2 DEF TypeOK, PCs
  <2>2. ASSUME NEW q \in Procs, ent'[q] \in Entries
        PROVE  ent'[q] = ent[q] /\ heap'[ent[q]] = heap[ent[q]]
    <3>1. ent'[q] = ent[q]
      BY <2>2, Distinct DEF Drops, TypeOK
    <3>2. Collect(h, c, ent')[ent'[q]] = h[ent'[q]]
      BY <2>2, CollectLocal, SMTT(20)
    <3> QED
      BY <2>2, <3>1, <3>2 DEF Drops
  <2>3. HeapInv'
    <3>1. ASSUME NEW b \in Buckets, c[b] \in Entries
          PROVE  heap'[c[b]] # Nil
      BY <3>1, CollectCached, SMTT(20) DEF Drops
    <3>2. \A q \in Procs : ent'[q] \in Entries => heap'[ent'[q]] # Nil
      BY <2>2, SMTT(20) DEF HeapInv
    <3>3. cache' = c
      BY DEF Drops
    <3> QED
      BY <3>1, <3>2, <3>3 DEF HeapInv
  <2>4. ASSUME NEW q \in Procs PROVE BusyInv(q)'
    <3>1. CASE q = p
      BY <3>1 DEF BusyInv, TypeOK, Storing, Resolving, Saving
    <3>2. CASE q # p
      <4>1. ent'[q] = ent[q]
        BY <3>2 DEF Drops, TypeOK
      <4>2. ent[q] # Nil => heap'[ent[q]] = heap[ent[q]]
        BY <2>2, <4>1 DEF TypeOK
      <4> QED
        BY <3>2, <4>1, <4>2, <1>BusyOther DEF TypeOK
    <3> QED
      BY <3>1, <3>2
  <2> QED
    BY <2>1, <2>3, <2>4

<1>BaseInstall.
      ASSUME BaseInv, NEW p \in Procs, Install(p)
      PROVE  BaseInv'
  <2> USE <1>BaseInstall
  <2> USE DEF BaseInv
  <2>1. PICK e \in Entries :
          /\ IsNextFree(e)
          /\ cache' = [cache EXCEPT ![req[p].b] = e]
          /\ ent' = [ent EXCEPT ![p] = Nil]
          /\ heap' = Collect([heap EXCEPT ![e] = [hash |-> bhash[p], bkt |-> Saved(p)]],
                             cache', ent')
    BY DEF Install
  <2> DEFINE h == [heap EXCEPT ![e] = [hash |-> bhash[p], bkt |-> Saved(p)]]
             c == [cache EXCEPT ![req[p].b] = e]
  <2>2. /\ pc[p] = "install" /\ pc' = [pc EXCEPT ![p] = "return"]
        /\ UNCHANGED <<ds, bblocks, oblocks, readers, writer, nlocks,
                       bhash, obj, names, list, req, res, stage>>
    BY DEF Install, Goto, locks
  <2>3. bhash[p] \in BucketBlock
    BY <2>2 DEF BusyInv, TypeOK
  <2>4. [hash |-> bhash[p], bkt |-> Saved(p)] \in Entry
    BY <2>2, <2>3, SavedType DEF Entry, Saving
  <2>5. /\ h \in [Entries -> Entry \cup {Nil}] /\ h[e] # Nil /\ heap[e] = Nil
        /\ c \in [Buckets -> Entries \cup {Nil, Absent}]
    BY <2>1, <2>4, Distinct DEF TypeOK, IsNextFree
  <2>6. \A b \in Buckets : c[b] \in Entries => h[c[b]] # Nil
    BY <2>5 DEF TypeOK, HeapInv
  <2>7. \A q \in Procs : ent[q] \in Entries => h[ent[q]] = heap[ent[q]]
    BY <2>5 DEF TypeOK, HeapInv
  <2>8. Drops(p, h, c)
    BY <2>1 DEF Drops
  <2> HIDE DEF h, c
  <2> QED
    BY <2>2, <2>5, <2>6, <2>7, <2>8, <1>BaseDrop

<1>BaseUncache.
      ASSUME BaseInv, NEW p \in Procs, Uncache(p)
      PROVE  BaseInv'
  <2> USE <1>BaseUncache
  <2> USE DEF BaseInv
  <2> DEFINE c == [cache EXCEPT ![req[p].b] = Absent]
  <2>1. /\ pc[p] = "uncache" /\ pc' = [pc EXCEPT ![p] = "dsdelete"]
        /\ UNCHANGED <<ds, bblocks, oblocks, readers, writer, nlocks,
                       bhash, obj, names, list, req, res, stage>>
    BY DEF Uncache, Goto, locks
  <2>2. req[p].op = "DeleteBucket"
    BY <2>1 DEF BusyInv
  <2>3. /\ heap \in [Entries -> Entry \cup {Nil}]
        /\ c \in [Buckets -> Entries \cup {Nil, Absent}]
        /\ \A b \in Buckets : c[b] \in Entries => heap[c[b]] # Nil
    BY Distinct DEF TypeOK, HeapInv
  <2>4. Drops(p, heap, c)
    BY DEF Uncache, Drops
  <2> HIDE DEF c
  <2> QED
    BY <2>1, <2>2, <2>3, <2>4, <1>BaseDrop

<1>BaseDsDelete.
      ASSUME BaseInv, NEW p \in Procs, DsDelete(p)
      PROVE  BaseInv'
  <2> USE <1>BaseDsDelete
  <2> USE DEF BaseInv
  <2>1. /\ pc[p] = "dsdelete" /\ pc' = [pc EXCEPT ![p] = "return"]
        /\ ds' = [ds EXCEPT ![req[p].b] = Nil]
        /\ res' = [res EXCEPT ![p] = Ok(Nil)]
        /\ UNCHANGED <<bblocks, oblocks, cache, heap, readers, writer, nlocks,
                       ent, bhash, obj, names, list, req, stage>>
    BY DEF DsDelete, Finish, Goto, locks, locals
  <2>2. TypeOK' /\ HeapInv'
    BY <2>1 DEF TypeOK, PCs, HeapInv
  <2>3. ASSUME NEW q \in Procs PROVE BusyInv(q)'
    <3>1. CASE q = p
      BY <2>1, <3>1 DEF BusyInv, TypeOK, Storing, Resolving, Saving
    <3>2. CASE q # p
      BY <2>1, <3>2, <1>BusyOther DEF TypeOK
    <3> QED
      BY <3>1, <3>2
  <2> QED
    BY <2>2, <2>3

(* The getters that only answer, and a call that fails. *)
<1>BaseAnswer.
      ASSUME BaseInv, NEW p \in Procs,
             \/ GetBucketInfo(p) \/ GetObjectHash(p) \/ GetBucketNames(p)
             \/ BackendFails(p)
      PROVE  BaseInv'
  <2> USE <1>BaseAnswer
  <2>1. PICK a : Finish(p, a)
    BY DEF GetBucketInfo, GetObjectHash, GetBucketNames, BackendFails
  <2>2. pc[p] # "idle" /\ UNCHANGED <<shared, locks, locals, req, stage>>
    BY Switches DEF GetBucketInfo, GetObjectHash, GetBucketNames, BackendFails, BackendSteps
  <2> QED
    BY <2>1, <2>2, <1>BaseFinish

<1>BaseCrash.
      ASSUME BaseInv, Crash
      PROVE  BaseInv'
  <2> USE <1>BaseCrash
  <2> USE DEF BaseInv
  <2>1. TypeOK'
    BY DEF Crash, TypeOK, PCs, Stages
  <2>2. HeapInv'
    BY Distinct DEF Crash, HeapInv
  <2>3. \A p \in Procs : BusyInv(p)'
    BY DEF Crash, BusyInv
  <2> QED
    BY <2>1, <2>2, <2>3

<1> SUFFICES ASSUME BaseInv, [Next]_vars PROVE BaseInv'
  OBVIOUS
<1>1. CASE UNCHANGED vars
  BY <1>1 DEF BaseInv, TypeOK, HeapInv, BusyInv, Storing, vars, shared, locks, locals
<1>2. CASE \E p \in Procs : \E r \in Request : Call(p, r)
  BY <1>2, <1>BaseCall
<1>3. ASSUME NEW p \in Procs, Step(p) PROVE BaseInv'
  BY <1>3, <1>BaseLock, <1>BaseReturn, <1>BaseLookup, <1>BaseDsGet, <1>BaseSetNil,
     <1>BaseFill,
     <1>BaseLoad, <1>BaseFetch, <1>BaseFindObject, <1>BaseGetObject, <1>BaseGetObjectInfos,
     <1>BaseSaveObject, <1>BasePutObjectHash, <1>BaseRemoveObjects, <1>BaseSaveBucket,
     <1>BaseDsPut, <1>BaseInstall, <1>BaseUncache, <1>BaseDsDelete, <1>BaseAnswer
     DEF Step
<1>4. CASE Crash
  BY <1>4, <1>BaseCrash
<1> QED
  BY <1>1, <1>2, <1>3, <1>4 DEF Next

(***************************************************************************)
(* Every variable keeps its type, whatever the clients ask for, whichever  *)
(* calls fail and whenever the process crashes.                            *)
(***************************************************************************)
THEOREM TypeCorrect == Spec => []TypeOK
<1>1. Spec => []BaseInv
  BY BaseInit, BaseNext, PTL DEF Spec
<1>2. BaseInv => TypeOK
  BY DEF BaseInv
<1> QED
  BY <1>1, <1>2, PTL

-----------------------------------------------------------------------------
(* Every root can be read back                                              *)

(***************************************************************************)
(* Every hash in hand leads to stored blocks.                              *)
(***************************************************************************)
Closed(objs, blocks) == \A o \in Objects : objs[o] # Nil => objs[o] \in blocks

Stored(x) ==
  /\ x.hash \in bblocks
  /\ x.bkt # Nil => Closed(x.bkt.objs, oblocks)

(* CopyObject carries an object only after its locks, PutObject a stored one. *)
CarryInv(p) ==
  /\ pc[p] \in {"lock", "lockwait"} /\ req[p].op = "CopyObject" => stage[p] = "assert"
  /\ pc[p] \in Resolving /\ Storing(p) => obj[p] \in oblocks

ResolveInv ==
  /\ RootsResolve
  /\ \A m \in bblocks : Closed(m.objs, oblocks)
  /\ \A e \in Entries : heap[e] # Nil => Stored(heap[e])
  /\ \A p \in Procs : bhash[p] # Nil => bhash[p] \in bblocks
  /\ \A p \in Procs : CarryInv(p)

-----------------------------------------------------------------------------
(* ResolveInv                                                               *)

LEMMA ResolveInit == Init => ResolveInv
BY DEF Init, ResolveInv, RootsResolve, CarryInv, Resolving

(***************************************************************************)
(* No step, failure or restart leaves a hash whose block is not stored.    *)
(***************************************************************************)
LEMMA ResolveNext == BaseInv /\ ResolveInv /\ [Next]_vars => ResolveInv'

(***************************************************************************)
(* A step of p: blocks are only added, closed ones; what is new in the     *)
(* datastore, in the heap and in bhash is stored.                          *)
(***************************************************************************)
<1>ResolveStep.
      ASSUME ResolveInv, NEW p \in Procs,
             oblocks \subseteq oblocks', bblocks \subseteq bblocks',
             \A m \in bblocks' : m \in bblocks \/ Closed(m.objs, oblocks'),
             \A b \in Buckets : ds'[b] # Nil => ds'[b] = ds[b] \/ ds'[b] \in bblocks,
             \A e \in Entries : heap'[e] # Nil =>
               \/ heap'[e] = heap[e]
               \/ /\ heap'[e].hash \in bblocks'
                  /\ heap'[e].bkt # Nil => Closed(heap'[e].bkt.objs, oblocks'),
             \A q \in Procs : bhash'[q] # Nil =>
               bhash'[q] = bhash[q] \/ bhash'[q] \in bblocks',
             \A q \in Procs : q # p =>
               /\ pc'[q] = pc[q] /\ req'[q] = req[q] /\ stage'[q] = stage[q]
               /\ obj'[q] = obj[q],
             CarryInv(p)'
      PROVE  ResolveInv'
  <2> USE <1>ResolveStep
  <2>0. \A objs : Closed(objs, oblocks) => Closed(objs, oblocks')
    BY DEF Closed
  <2>1. \A m \in bblocks' : Closed(m.objs, oblocks')
    BY <2>0 DEF ResolveInv
  <2>2. RootsResolve'
    <3>1. ASSUME NEW b \in Buckets, ds'[b] # Nil
          PROVE  ds'[b] \in bblocks'
      BY <3>1 DEF ResolveInv, RootsResolve
    <3> QED
      BY <2>1, <3>1 DEF RootsResolve, Closed
  <2>3. \A e \in Entries : heap'[e] # Nil => Stored(heap[e])'
    BY <2>0 DEF ResolveInv, Stored
  <2>4. \A q \in Procs : bhash'[q] # Nil => bhash'[q] \in bblocks'
    BY DEF ResolveInv
  <2>5. ASSUME NEW q \in Procs PROVE CarryInv(q)'
    <3>1. CASE q = p
      BY <3>1
    <3>2. CASE q # p
      BY <3>2 DEF ResolveInv, CarryInv, Storing
    <3> QED
      BY <3>1, <3>2
  <2> QED
    BY <2>1, <2>2, <2>3, <2>4, <2>5 DEF ResolveInv

(* A step that touches no block, no root and no entry. *)
<1>ResolveQuiet.
      ASSUME ResolveInv, NEW p \in Procs,
             UNCHANGED <<ds, bblocks, oblocks, heap, bhash>>,
             \A q \in Procs : q # p =>
               /\ pc'[q] = pc[q] /\ req'[q] = req[q] /\ stage'[q] = stage[q]
               /\ obj'[q] = obj[q],
             CarryInv(p)'
      PROVE  ResolveInv'
  BY <1>ResolveQuiet, <1>ResolveStep

(* A step after which p carries nothing, being neither locking nor resolving. *)
<1>CarriesNothing.
      ASSUME NEW p \in Procs, pc'[p] \notin Resolving \cup {"lock", "lockwait"}
      PROVE  CarryInv(p)'
  BY <1>CarriesNothing DEF CarryInv

<1>ResolveLock.
      ASSUME BaseInv, ResolveInv, NEW p \in Procs,
             ReadLock(p) \/ AnnounceWrite(p) \/ WriteLock(p)
      PROVE  ResolveInv'
  <2> USE <1>ResolveLock
  <2>1. UNCHANGED <<ds, bblocks, oblocks, heap, bhash, obj, req, stage>>
    BY DEF ReadLock, AnnounceWrite, WriteLock, shared, locals
  <2>2. PICK l \in {"lock", "lockwait", "saveobject", "query", "lookup"} :
          /\ pc' = [pc EXCEPT ![p] = l]
          /\ l = "lookup" => req[p].op # "PutObject"
    <3>1. CASE AnnounceWrite(p)
      BY <3>1 DEF AnnounceWrite, Goto
    <3>2. CASE ReadLock(p) \/ WriteLock(p)
      BY <3>2 DEF ReadLock, WriteLock, Locked, Goto, Start
    <3> QED
      BY <3>1, <3>2
  <2>3. pc[p] \in {"lock", "lockwait"}
    BY DEF ReadLock, AnnounceWrite, WriteLock
  <2>4. CarryInv(p)'
    BY <2>1, <2>2, <2>3 DEF BaseInv, TypeOK, ResolveInv, CarryInv, Storing, Resolving
  <2> QED
    BY <2>1, <2>2, <2>4, <1>ResolveQuiet DEF BaseInv, TypeOK

<1>ResolveCall.
      ASSUME BaseInv, ResolveInv, NEW p \in Procs, NEW r \in Request, Call(p, r)
      PROVE  ResolveInv'
  <2> USE <1>ResolveCall
  <2>1. UNCHANGED <<ds, bblocks, oblocks, heap, bhash>>
    BY DEF Call, shared
  <2>2. /\ pc'[p] \in {"lock", "saveobject", "query", "lookup"}
        /\ pc'[p] = "lookup" => r.op # "PutObject"
        /\ req'[p] = r
        /\ stage'[p] = IF r.op = "CopyObject" THEN "assert" ELSE "main"
    BY DEF Call, Goto, Start, BaseInv, TypeOK
  <2>3. CarryInv(p)'
    BY <2>2 DEF CarryInv, Storing, Resolving
  <2>4. \A q \in Procs : q # p =>
          /\ pc'[q] = pc[q] /\ req'[q] = req[q] /\ stage'[q] = stage[q]
          /\ obj'[q] = obj[q]
    BY DEF Call, Goto, BaseInv, TypeOK
  <2> QED
    BY <2>1, <2>3, <2>4, <1>ResolveQuiet

(* The function of p returns. *)
<1>ResolveFinish.
      ASSUME BaseInv, ResolveInv, NEW p \in Procs, NEW a, Finish(p, a),
             UNCHANGED <<shared, locks, locals, req, stage>>
      PROVE  ResolveInv'
  <2> USE <1>ResolveFinish
  <2>1. UNCHANGED <<ds, bblocks, oblocks, heap, bhash, obj, req, stage>>
    BY DEF shared, locals
  <2>2. pc' = [pc EXCEPT ![p] = "return"]
    BY DEF Finish, Goto
  <2>3. CarryInv(p)'
    BY <2>2, <1>CarriesNothing DEF BaseInv, TypeOK, Resolving
  <2> QED
    BY <2>1, <2>2, <2>3, <1>ResolveQuiet DEF BaseInv, TypeOK

<1>ResolveAnswer.
      ASSUME BaseInv, ResolveInv, NEW p \in Procs,
             \/ GetBucketInfo(p) \/ GetObjectHash(p) \/ GetBucketNames(p)
             \/ BackendFails(p)
      PROVE  ResolveInv'
  <2> USE <1>ResolveAnswer
  <2>1. PICK a : Finish(p, a)
    BY DEF GetBucketInfo, GetObjectHash, GetBucketNames, BackendFails
  <2>2. UNCHANGED <<shared, locks, locals, req, stage>>
    BY DEF GetBucketInfo, GetObjectHash, GetBucketNames, BackendFails
  <2> QED
    BY <2>1, <2>2, <1>ResolveFinish

<1>ResolveReturn.
      ASSUME BaseInv, ResolveInv, NEW p \in Procs, Return(p)
      PROVE  ResolveInv'
  <2> USE <1>ResolveReturn
  <2>1. /\ pc' = [pc EXCEPT ![p] = "idle"] /\ heap' = Collect(heap, cache, ent')
        /\ bhash' = [bhash EXCEPT ![p] = Nil]
        /\ req' = [req EXCEPT ![p] = Nil] /\ obj' = [obj EXCEPT ![p] = Nil]
        /\ stage' = [stage EXCEPT ![p] = "main"]
        /\ UNCHANGED <<ds, bblocks, oblocks>>
    BY DEF Return, Goto
  <2>2. CarryInv(p)'
    BY <2>1, <1>CarriesNothing DEF BaseInv, TypeOK, Resolving
  <2>3. \A e \in Entries : heap'[e] # Nil => heap'[e] = heap[e]
    BY <2>1, CollectFrees
  <2>4. \A q \in Procs : bhash'[q] # Nil => bhash'[q] = bhash[q]
    BY <2>1 DEF BaseInv, TypeOK
  <2>5. \A q \in Procs : q # p =>
          /\ pc'[q] = pc[q] /\ req'[q] = req[q] /\ stage'[q] = stage[q]
          /\ obj'[q] = obj[q]
    BY <2>1 DEF BaseInv, TypeOK
  <2> QED
    BY <2>1, <2>2, <2>3, <2>4, <2>5, <1>ResolveStep

(***************************************************************************)
(* getBucketNilable returns: the heap h it leaves has stored entries only. *)
(***************************************************************************)
<1>ResolveResolved.
      ASSUME BaseInv, ResolveInv, NEW p \in Procs,
             pc[p] \in {"lookup", "setnil", "fill"}, NEW e, NEW h, NEW c,
             \A x \in Entries : h[x] # Nil =>
               h[x] = heap[x] \/ (h[x].hash \in bblocks /\ h[x].bkt = Nil),
             Resolved(p, e, h, c),
             UNCHANGED <<ds, bblocks, oblocks, locks, obj, names, list, req>>,
             bhash' = bhash \/ bhash' = [bhash EXCEPT ![p] = Nil]
      PROVE  ResolveInv'
  <2> USE <1>ResolveResolved
  <2>1. heap' = Collect(h, c, ent')
    BY DEF Resolved
  <2>2. PICK l \in {"savebucket", "return", "uncache", "lookup", "load"} :
          pc' = [pc EXCEPT ![p] = l]
    BY DEF Resolved, Goto, Finish
  <2>3. stage' = stage \/ (stage[p] = "assert" /\ stage' = [stage EXCEPT ![p] = "source"])
    BY DEF Resolved
  <2>4. CarryInv(p)'
    BY <2>2, <2>3 DEF BaseInv, TypeOK, BusyInv, ResolveInv, CarryInv, Storing, Resolving
  <2>5. \A x \in Entries : heap'[x] # Nil =>
          heap'[x] = heap[x] \/ (heap'[x].hash \in bblocks /\ heap'[x].bkt = Nil)
    BY <2>1, CollectFrees, SMTT(20)
  <2>6. \A q \in Procs : bhash'[q] # Nil => bhash'[q] = bhash[q]
    BY DEF BaseInv, TypeOK
  <2>7. \A q \in Procs : q # p =>
          /\ pc'[q] = pc[q] /\ req'[q] = req[q] /\ stage'[q] = stage[q]
          /\ obj'[q] = obj[q]
    BY <2>2, <2>3 DEF BaseInv, TypeOK
  <2> QED
    BY <2>4, <2>5, <2>6, <2>7, <1>ResolveStep

<1>ResolveLookup.
      ASSUME BaseInv, ResolveInv, NEW p \in Procs, Lookup(p)
      PROVE  ResolveInv'
  <2> USE <1>ResolveLookup
  <2>1. CASE Resolved(p, cache[Cur(p)], heap, cache)
    BY <2>1, <1>ResolveResolved DEF Lookup
  <2>2. CASE cache[Cur(p)] = Absent
    <3>1. /\ pc[p] = "lookup" /\ pc' = [pc EXCEPT ![p] = "dsget"]
          /\ UNCHANGED <<ds, bblocks, oblocks, heap, bhash, obj, req, stage>>
      BY <2>2 DEF Lookup, Goto
    <3>2. CarryInv(p)'
      BY <3>1 DEF BaseInv, TypeOK, ResolveInv, CarryInv, Storing, Resolving
    <3> QED
      BY <3>1, <3>2, <1>ResolveQuiet DEF BaseInv, TypeOK
  <2> QED
    BY <2>1, <2>2 DEF Lookup

<1>ResolveDsGet.
      ASSUME BaseInv, ResolveInv, NEW p \in Procs, DsGet(p)
      PROVE  ResolveInv'
  <2> USE <1>ResolveDsGet
  <2>0. Cur(p) \in Buckets
    <3>1. BusyInv(p) /\ req[p] \in Request \cup {Nil}
      BY DEF BaseInv, TypeOK
    <3> QED
      BY <3>1, RequestFields DEF Cur, BusyInv, Resolving, DsGet
  <2>1. /\ pc[p] = "dsget" /\ bhash' = [bhash EXCEPT ![p] = ds[Cur(p)]]
        /\ pc' = [pc EXCEPT ![p] = IF ds[Cur(p)] = Nil THEN "setnil" ELSE "fill"]
        /\ UNCHANGED <<ds, bblocks, oblocks, heap, obj, req, stage>>
    BY DEF DsGet, Goto, shared
  <2>2. CarryInv(p)'
    BY <2>1 DEF BaseInv, TypeOK, ResolveInv, CarryInv, Storing, Resolving
  <2>3. \A q \in Procs : bhash'[q] # Nil => bhash'[q] = bhash[q] \/ bhash'[q] \in bblocks
    BY <2>0, <2>1 DEF BaseInv, TypeOK, ResolveInv, RootsResolve
  <2>4. \A q \in Procs : q # p => pc'[q] = pc[q]
    BY <2>1 DEF BaseInv, TypeOK
  <2> QED
    BY <2>1, <2>2, <2>3, <2>4, <1>ResolveStep

<1>ResolveSetNil.
      ASSUME BaseInv, ResolveInv, NEW p \in Procs, SetNil(p)
      PROVE  ResolveInv'
  BY <1>ResolveSetNil, <1>ResolveResolved DEF SetNil

<1>ResolveFill.
      ASSUME BaseInv, ResolveInv, NEW p \in Procs, Fill(p)
      PROVE  ResolveInv'
  <2> USE <1>ResolveFill
  <2>0. /\ pc[p] = "fill" /\ bhash[p] \in bblocks
        /\ bhash' = [bhash EXCEPT ![p] = Nil]
        /\ UNCHANGED <<ds, bblocks, oblocks, locks, obj, names, list, req>>
    BY DEF Fill, BaseInv, BusyInv, ResolveInv
  <2>1. CASE Resolved(p, cache[Cur(p)], heap, cache)
    BY <2>0, <2>1, <1>ResolveResolved
  <2>2. ASSUME NEW e \in Entries,
               Resolved(p, e, [heap EXCEPT ![e] = [hash |-> bhash[p], bkt |-> Nil]],
                        [cache EXCEPT ![Cur(p)] = e])
        PROVE  ResolveInv'
    <3> DEFINE h == [heap EXCEPT ![e] = [hash |-> bhash[p], bkt |-> Nil]]
               c == [cache EXCEPT ![Cur(p)] = e]
    <3>1. \A x \in Entries : h[x] # Nil =>
            h[x] = heap[x] \/ (h[x].hash \in bblocks /\ h[x].bkt = Nil)
      BY <2>0 DEF BaseInv, TypeOK
    <3>2. Resolved(p, e, h, c)
      BY <2>2
    <3> HIDE DEF h, c
    <3> QED
      BY <2>0, <3>1, <3>2, <1>ResolveResolved
  <2> QED
    BY <2>1, <2>2 DEF Fill

<1>ResolveLoad.
      ASSUME BaseInv, ResolveInv, NEW p \in Procs, Load(p)
      PROVE  ResolveInv'
  <2> USE <1>ResolveLoad
  <2>1. PICK l \in {"fetch", "use"} : pc' = [pc EXCEPT ![p] = l]
    BY DEF Load, Goto
  <2>2. pc[p] = "load" /\ UNCHANGED <<ds, bblocks, oblocks, heap, bhash, obj, req, stage>>
    BY DEF Load, shared, locals
  <2>3. CarryInv(p)'
    BY <2>1, <2>2 DEF BaseInv, TypeOK, ResolveInv, CarryInv, Storing, Resolving
  <2> QED
    BY <2>1, <2>2, <2>3, <1>ResolveQuiet DEF BaseInv, TypeOK

(* A goroutine changes the Bucket of its entry to k, of stored objects. *)
<1>ResolveChange.
      ASSUME BaseInv, ResolveInv, NEW p \in Procs, ent[p] # Nil, NEW k,
             Closed(k.objs, oblocks), heap' = [heap EXCEPT ![ent[p]].bkt = k],
             pc[p] \in {"fetch", "use"},
             NEW l \in {"use", "savebucket"}, pc' = [pc EXCEPT ![p] = l],
             UNCHANGED <<ds, bblocks, oblocks, bhash, obj, req, stage>>
      PROVE  ResolveInv'
  <2> USE <1>ResolveChange
  <2>1. ent[p] \in Entries /\ heap[ent[p]] \in Entry /\ heap[ent[p]] # Nil
    BY EntryInUse, Distinct
  <2>2. [heap[ent[p]] EXCEPT !.bkt = k] = [hash |-> heap[ent[p]].hash, bkt |-> k]
    BY <2>1, SMTT(20) DEF Entry
  <2>3. /\ heap'[ent[p]] = [hash |-> heap[ent[p]].hash, bkt |-> k]
        /\ \A e \in Entries : e # ent[p] => heap'[e] = heap[e]
    BY <2>1, <2>2 DEF BaseInv, TypeOK
  <2>4. heap[ent[p]].hash \in bblocks
    BY <2>1 DEF ResolveInv, Stored
  <2>5. CarryInv(p)'
    BY DEF BaseInv, TypeOK, ResolveInv, CarryInv, Storing, Resolving
  <2>6. \A q \in Procs : q # p => pc'[q] = pc[q]
    BY DEF BaseInv, TypeOK
  <2>7. \A e \in Entries : heap'[e] # Nil =>
          \/ heap'[e] = heap[e]
          \/ /\ heap'[e].hash \in bblocks
             /\ heap'[e].bkt # Nil => Closed(heap'[e].bkt.objs, oblocks)
    BY <2>3, <2>4, SMTT(20)
  <2> QED
    BY <2>5, <2>6, <2>7, <1>ResolveStep

(* The Bucket of an entry in use has stored objects. *)
<1>InUseClosed.
      ASSUME BaseInv, ResolveInv, NEW p \in Procs, ent[p] # Nil, Bkt(p) # Nil
      PROVE  Closed(Bkt(p).objs, oblocks)
  <2> USE <1>InUseClosed
  <2>1. ent[p] \in Entries /\ heap[ent[p]] # Nil
    BY EntryInUse, Distinct
  <2> QED
    BY <2>1 DEF ResolveInv, Stored, Bkt

<1>ResolveFetch.
      ASSUME BaseInv, ResolveInv, NEW p \in Procs, Fetch(p)
      PROVE  ResolveInv'
  <2> USE <1>ResolveFetch
  <2>0. /\ pc[p] = "fetch" /\ ent[p] # Nil
        /\ UNCHANGED <<ds, bblocks, oblocks, bhash, obj, req, stage>>
    BY DEF Fetch, BaseInv, BusyInv, locals
  <2>1. CASE heap[ent[p]].bkt = Nil
    <3> DEFINE k == Unmarshal(heap[ent[p]].hash)
    <3>1. Closed(k.objs, oblocks)
      BY DEF Fetch, ResolveInv, Unmarshal, Closed
    <3>2. heap' = [heap EXCEPT ![ent[p]].bkt = k] /\ pc' = [pc EXCEPT ![p] = "use"]
      BY <2>1 DEF Fetch, Goto
    <3> HIDE DEF k
    <3> QED
      BY <2>0, <3>1, <3>2, <1>ResolveChange
  <2>2. CASE heap[ent[p]].bkt # Nil
    <3>1. pc' = [pc EXCEPT ![p] = "panic"] /\ heap' = heap
      BY <2>2 DEF Fetch, Goto
    <3>2. CarryInv(p)'
      BY <3>1, <1>CarriesNothing DEF BaseInv, TypeOK, Resolving
    <3> QED
      BY <2>0, <3>1, <3>2, <1>ResolveQuiet DEF BaseInv, TypeOK
  <2> QED
    BY <2>1, <2>2

<1>ResolveFindObject.
      ASSUME BaseInv, ResolveInv, NEW p \in Procs, FindObject(p)
      PROVE  ResolveInv'
  <2> USE <1>ResolveFindObject
  <2>1. PICK l \in {"return", "getobject"} : pc' = [pc EXCEPT ![p] = l]
    BY DEF FindObject, Finish, Goto
  <2>2. /\ UNCHANGED <<ds, bblocks, oblocks, heap, bhash, req, stage>>
        /\ \A q \in Procs : q # p => obj'[q] = obj[q]
    BY DEF FindObject, shared, BaseInv, TypeOK
  <2>3. CarryInv(p)'
    BY <2>1, <1>CarriesNothing DEF BaseInv, TypeOK, Resolving
  <2> QED
    BY <2>1, <2>2, <2>3, <1>ResolveQuiet DEF BaseInv, TypeOK

<1>ResolveGetObject.
      ASSUME BaseInv, ResolveInv, NEW p \in Procs, GetObject(p)
      PROVE  ResolveInv'
  <2> USE <1>ResolveGetObject
  <2>1. PICK l \in {"return", "lookup", "saveobject"} :
          /\ pc' = [pc EXCEPT ![p] = l]
          /\ l = "lookup" => req[p].op = "GetObjectInfos"
    BY DEF GetObject, Finish, Goto
  <2>2. /\ UNCHANGED <<ds, bblocks, oblocks, heap, bhash, req>>
        /\ \A q \in Procs : q # p => obj'[q] = obj[q] /\ stage'[q] = stage[q]
    BY DEF GetObject, shared, BaseInv, TypeOK
  <2>3. CarryInv(p)'
    BY <2>1, <2>2 DEF BaseInv, TypeOK, CarryInv, Storing, Resolving
  <2> QED
    BY <2>1, <2>2, <2>3, <1>ResolveQuiet DEF BaseInv, TypeOK

<1>ResolveGetObjectInfos.
      ASSUME BaseInv, ResolveInv, NEW p \in Procs, GetObjectInfos(p)
      PROVE  ResolveInv'
  <2> USE <1>ResolveGetObjectInfos
  <2>1. PICK l \in {"return", "lookup"} : pc' = [pc EXCEPT ![p] = l]
    BY DEF GetObjectInfos, Finish, Goto
  <2>2. /\ UNCHANGED <<ds, bblocks, oblocks, heap, bhash, obj, req>>
        /\ req[p].op = "GetObjectInfos"
        /\ \A q \in Procs : q # p => stage'[q] = stage[q]
    BY DEF GetObjectInfos, shared, BaseInv, TypeOK
  <2>3. CarryInv(p)'
    BY <2>1, <2>2 DEF BaseInv, TypeOK, CarryInv, Storing, Resolving
  <2> QED
    BY <2>1, <2>2, <2>3, <1>ResolveQuiet DEF BaseInv, TypeOK

<1>ResolvePutObjectHash.
      ASSUME BaseInv, ResolveInv, NEW p \in Procs, PutObjectHash(p)
      PROVE  ResolveInv'
  <2> USE <1>ResolvePutObjectHash
  <2>1. /\ pc[p] = "use" /\ Storing(p)
        /\ pc' = [pc EXCEPT ![p] = "savebucket"]
        /\ UNCHANGED <<ds, bblocks, oblocks, bhash, obj, req, stage>>
    BY DEF PutObjectHash, Storing, Goto, locals
  <2>2. ent[p] # Nil /\ Bkt(p) # Nil
    BY <2>1 DEF BaseInv, BusyInv, Bkt
  <2>3. Bkt(p) \in Bucket /\ obj[p] \in oblocks /\ Closed(Bkt(p).objs, oblocks)
    BY <2>1, <2>2, EntryInUse, <1>InUseClosed DEF Bkt, ResolveInv, CarryInv, Resolving
  <2> DEFINE k == [Bkt(p) EXCEPT !.objs[req[p].o] = obj[p], !.made = TRUE]
  <2>4. Closed(k.objs, oblocks)
    BY <2>3 DEF Closed, Bucket
  <2>5. heap' = [heap EXCEPT ![ent[p]].bkt = k]
    BY DEF PutObjectHash, Bkt
  <2> HIDE DEF k
  <2> QED
    BY <2>1, <2>2, <2>4, <2>5, <1>ResolveChange

<1>ResolveRemoveObjects.
      ASSUME BaseInv, ResolveInv, NEW p \in Procs, RemoveObjects(p)
      PROVE  ResolveInv'
  <2> USE <1>ResolveRemoveObjects
  <2>1. /\ pc[p] = "use"
        /\ UNCHANGED <<ds, bblocks, oblocks, bhash, obj, req, stage>>
    BY DEF RemoveObjects
  <2>2. ent[p] # Nil /\ Bkt(p) # Nil
    BY <2>1 DEF BaseInv, BusyInv, Bkt
  <2>3. CASE ~Bkt(p).made
    <3>1. pc' = [pc EXCEPT ![p] = "return"] /\ UNCHANGED heap
      BY <2>3 DEF RemoveObjects, Finish, Goto
    <3>2. CarryInv(p)'
      BY <3>1, <1>CarriesNothing DEF BaseInv, TypeOK, Resolving
    <3> QED
      BY <2>1, <3>1, <3>2, <1>ResolveQuiet DEF BaseInv, TypeOK
  <2>4. CASE Bkt(p).made
    <3> DEFINE k == [Bkt(p) EXCEPT !.objs =
                       [o \in Objects |-> IF o \in req[p].names THEN Nil ELSE @[o]]]
    <3>1. Bkt(p) \in Bucket /\ Closed(Bkt(p).objs, oblocks)
      BY <2>2, EntryInUse, <1>InUseClosed DEF Bkt
    <3>2. Closed(k.objs, oblocks)
      BY <3>1 DEF Closed, Bucket
    <3>3. heap' = [heap EXCEPT ![ent[p]].bkt = k] /\ pc' = [pc EXCEPT ![p] = "savebucket"]
      BY <2>4 DEF RemoveObjects, Bkt, Goto
    <3> HIDE DEF k
    <3> QED
      BY <2>1, <2>2, <3>2, <3>3, <1>ResolveChange
  <2> QED
    BY <2>3, <2>4

<1>ResolveSaveObject.
      ASSUME BaseInv, ResolveInv, NEW p \in Procs, SaveObject(p)
      PROVE  ResolveInv'
  <2> USE <1>ResolveSaveObject
  <2>1. /\ pc' = [pc EXCEPT ![p] = "lookup"] /\ oblocks' = oblocks \cup {obj[p]}
        /\ UNCHANGED <<ds, bblocks, heap, bhash, obj, req, stage>>
    BY DEF SaveObject, Goto, locals
  <2>2. CarryInv(p)'
    BY <2>1 DEF BaseInv, TypeOK, CarryInv
  <2>3. \A q \in Procs : q # p => pc'[q] = pc[q]
    BY <2>1 DEF BaseInv, TypeOK
  <2> QED
    BY <2>1, <2>2, <2>3, <1>ResolveStep

(* What saveBucket saves has stored objects only. *)
<1>SavedClosed.
      ASSUME BaseInv, ResolveInv, NEW p \in Procs, pc[p] \in Saving
      PROVE  Closed(Saved(p).objs, oblocks)
  <2> USE <1>SavedClosed
  <2>1. CASE req[p].op = "CreateBucket"
    BY <2>1 DEF Saved, Closed, NoObjects
  <2>2. CASE req[p].op # "CreateBucket"
    <3>1. ent[p] # Nil /\ Bkt(p) # Nil
      BY <2>2 DEF BaseInv, BusyInv, Bkt, Saving
    <3> QED
      BY <2>2, <3>1, <1>InUseClosed DEF Saved
  <2> QED
    BY <2>1, <2>2

<1>ResolveSaveBucket.
      ASSUME BaseInv, ResolveInv, NEW p \in Procs, SaveBucket(p)
      PROVE  ResolveInv'
  <2> USE <1>ResolveSaveBucket
  <2>1. pc[p] = "savebucket" /\ UNCHANGED <<ds, oblocks, heap, obj, req, stage>>
    BY DEF SaveBucket
  <2>2. PICK l \in {"return", "dsput"} : pc' = [pc EXCEPT ![p] = l]
    BY DEF SaveBucket, Finish, Goto
  <2>3. CarryInv(p)' /\ \A q \in Procs : q # p => pc'[q] = pc[q]
    BY <2>2, <1>CarriesNothing DEF BaseInv, TypeOK, Resolving
  <2>4. CASE UNCHANGED <<bblocks, bhash>>
    BY <2>1, <2>3, <2>4, <1>ResolveQuiet
  <2>5. CASE /\ bblocks' = bblocks \cup {Marshal(Saved(p))}
             /\ bhash' = [bhash EXCEPT ![p] = Marshal(Saved(p))]
    <3>1. Closed(Marshal(Saved(p)).objs, oblocks)
      BY <2>1, <1>SavedClosed DEF Saving, Marshal
    <3>2. \A m \in bblocks' : m \in bblocks \/ Closed(m.objs, oblocks)
      BY <2>5, <3>1
    <3>3. \A q \in Procs : bhash'[q] # Nil => bhash'[q] = bhash[q] \/ bhash'[q] \in bblocks'
      BY <2>5 DEF BaseInv, TypeOK
    <3> QED
      BY <2>1, <2>3, <2>5, <3>2, <3>3, <1>ResolveStep
  <2> QED
    BY <2>4, <2>5 DEF SaveBucket

<1>ResolveDsPut.
      ASSUME BaseInv, ResolveInv, NEW p \in Procs, DsPut(p)
      PROVE  ResolveInv'
  <2> USE <1>ResolveDsPut
  <2>1. /\ pc[p] = "dsput" /\ pc' = [pc EXCEPT ![p] = "install"]
        /\ ds' = [ds EXCEPT ![req[p].b] = bhash[p]]
        /\ UNCHANGED <<bblocks, oblocks, heap, bhash, obj, req, stage>>
    BY DEF DsPut, Goto, locals
  <2>2. CarryInv(p)' /\ \A q \in Procs : q # p => pc'[q] = pc[q]
    BY <2>1, <1>CarriesNothing DEF BaseInv, TypeOK, Resolving
  <2>3. bhash[p] \in bblocks
    BY <2>1 DEF BaseInv, BusyInv, ResolveInv
  <2>4. \A b \in Buckets : ds'[b] = ds[b] \/ ds'[b] \in bblocks
    BY <2>1, <2>3 DEF BaseInv, TypeOK
  <2> QED
    BY <2>1, <2>2, <2>4, <1>ResolveStep

<1>ResolveInstall.
      ASSUME BaseInv, ResolveInv, NEW p \in Procs, Install(p)
      PROVE  ResolveInv'
  <2> USE <1>ResolveInstall
  <2>1. PICK e \in Entries :
          heap' = Collect([heap EXCEPT ![e] = [hash |-> bhash[p], bkt |-> Saved(p)]],
                          cache', ent')
    BY DEF Install
  <2> DEFINE h == [heap EXCEPT ![e] = [hash |-> bhash[p], bkt |-> Saved(p)]]
  <2>2. /\ pc[p] = "install" /\ pc' = [pc EXCEPT ![p] = "return"]
        /\ UNCHANGED <<ds, bblocks, oblocks, bhash, obj, req, stage>>
    BY DEF Install, Goto
  <2>3. bhash[p] \in bblocks /\ Closed(Saved(p).objs, oblocks)
    BY <2>2, <1>SavedClosed DEF BaseInv, BusyInv, ResolveInv, Saving
  <2>4. \A x \in Entries : h[x] # Nil =>
          \/ h[x] = heap[x]
          \/ h[x].hash \in bblocks /\ Closed(h[x].bkt.objs, oblocks)
    BY <2>3 DEF BaseInv, TypeOK
  <2>5. heap' = Collect(h, cache', ent')
    BY <2>1
  <2> HIDE DEF h
  <2>6. \A x \in Entries : heap'[x] # Nil =>
          \/ heap'[x] = heap[x]
          \/ heap'[x].hash \in bblocks /\ Closed(heap'[x].bkt.objs, oblocks)
    BY <2>4, <2>5, CollectFrees, SMTT(20)
  <2>7. CarryInv(p)' /\ \A q \in Procs : q # p => pc'[q] = pc[q]
    BY <2>2, <1>CarriesNothing DEF BaseInv, TypeOK, Resolving
  <2> QED
    BY <2>2, <2>6, <2>7, <1>ResolveStep

<1>ResolveUncache.
      ASSUME BaseInv, ResolveInv, NEW p \in Procs, Uncache(p)
      PROVE  ResolveInv'
  <2> USE <1>ResolveUncache
  <2>1. /\ pc' = [pc EXCEPT ![p] = "dsdelete"] /\ heap' = Collect(heap, cache', ent')
        /\ UNCHANGED <<ds, bblocks, oblocks, bhash, obj, req, stage>>
    BY DEF Uncache, Goto
  <2>2. \A x \in Entries : heap'[x] # Nil => heap'[x] = heap[x]
    BY <2>1, CollectFrees
  <2>3. CarryInv(p)' /\ \A q \in Procs : q # p => pc'[q] = pc[q]
    BY <2>1, <1>CarriesNothing DEF BaseInv, TypeOK, Resolving
  <2> QED
    BY <2>1, <2>2, <2>3, <1>ResolveStep

<1>ResolveDsDelete.
      ASSUME BaseInv, ResolveInv, NEW p \in Procs, DsDelete(p)
      PROVE  ResolveInv'
  <2> USE <1>ResolveDsDelete
  <2>1. /\ pc' = [pc EXCEPT ![p] = "return"] /\ ds' = [ds EXCEPT ![req[p].b] = Nil]
        /\ UNCHANGED <<bblocks, oblocks, heap, bhash, obj, req, stage>>
    BY DEF DsDelete, Finish, Goto, locals
  <2>2. \A b \in Buckets : ds'[b] # Nil => ds'[b] = ds[b]
    BY <2>1 DEF BaseInv, TypeOK
  <2>3. CarryInv(p)' /\ \A q \in Procs : q # p => pc'[q] = pc[q]
    BY <2>1, <1>CarriesNothing DEF BaseInv, TypeOK, Resolving
  <2> QED
    BY <2>1, <2>2, <2>3, <1>ResolveStep

(* A restart loses the memory, in which nothing was needed. *)
<1>ResolveCrash.
      ASSUME ResolveInv, Crash
      PROVE  ResolveInv'
  <2> USE <1>ResolveCrash
  <2>1. RootsResolve' /\ \A m \in bblocks' : Closed(m.objs, oblocks)'
    BY DEF Crash, ResolveInv, RootsResolve, Closed
  <2>2. \A p \in Procs : CarryInv(p)'
    BY DEF Crash, CarryInv, Resolving
  <2> QED
    BY <2>1, <2>2 DEF Crash, ResolveInv

<1> SUFFICES ASSUME BaseInv, ResolveInv, [Next]_vars PROVE ResolveInv'
  OBVIOUS
<1>1. CASE UNCHANGED vars
  BY <1>1 DEF ResolveInv, RootsResolve, Closed, Stored, CarryInv, Storing,
              vars, shared, locks, locals
<1>2. CASE \E p \in Procs : \E r \in Request : Call(p, r)
  BY <1>2, <1>ResolveCall
<1>3. ASSUME NEW p \in Procs, Step(p) PROVE ResolveInv'
  BY <1>3, <1>ResolveLock, <1>ResolveReturn, <1>ResolveLookup, <1>ResolveDsGet,
     <1>ResolveSetNil,
     <1>ResolveFill, <1>ResolveLoad, <1>ResolveFetch, <1>ResolveFindObject,
     <1>ResolveGetObject,
     <1>ResolveGetObjectInfos, <1>ResolveSaveObject, <1>ResolvePutObjectHash,
     <1>ResolveRemoveObjects, <1>ResolveSaveBucket, <1>ResolveDsPut, <1>ResolveInstall,
     <1>ResolveUncache, <1>ResolveDsDelete, <1>ResolveAnswer
     DEF Step
<1>4. CASE Crash
  BY <1>4, <1>ResolveCrash
<1> QED
  BY <1>1, <1>2, <1>3, <1>4 DEF Next

(***************************************************************************)
(* Every root in the datastore can be read back, object blocks included,   *)
(* at every step of any number of goroutines, after any failed call and    *)
(* across restarts.                                                        *)
(***************************************************************************)
THEOREM RootsStored == Spec => []RootsResolve
<1>1. Init => BaseInv /\ ResolveInv
  BY BaseInit, ResolveInit
<1>2. BaseInv /\ ResolveInv /\ [Next]_vars => (BaseInv /\ ResolveInv)'
  BY BaseNext, ResolveNext
<1>3. BaseInv /\ ResolveInv => RootsResolve
  BY DEF ResolveInv
<1> QED
  BY <1>1, <1>2, <1>3, PTL DEF Spec

-----------------------------------------------------------------------------
(* ensureCache does not panic                                               *)

(***************************************************************************)
(* A goroutine that fetches a bucket block is alone with that hash, and    *)
(* its entry stays unloaded until it is done.                              *)
(***************************************************************************)
FetchInv ==
  /\ NoPanic
  /\ \A p \in Procs : pc[p] = "fetch" => heap[ent[p]].bkt = Nil
  /\ \A p, q \in Procs :
       pc[p] = "fetch" /\ pc[q] = "fetch" /\ p # q =>
         heap[ent[p]].hash # heap[ent[q]].hash

-----------------------------------------------------------------------------
(* A step of p that leaves the entries of the fetching goroutines alone. *)

Undisturbed(p) ==
  \A q \in Procs : q # p =>
    /\ pc'[q] = pc[q]
    /\ pc[q] = "fetch" => heap'[ent'[q]] = heap[ent[q]]

(* p's entry becomes e, the heap h, of which the unreachable part is freed. *)
Moves(p, e, h, c) ==
  /\ ent' = [ent EXCEPT ![p] = e]
  /\ heap' = Collect(h, c, ent')

(* Heap h has the entries that goroutines hold. *)
Keeps(h) == \A q \in Procs : ent[q] \in Entries => h[ent[q]] = heap[ent[q]]

-----------------------------------------------------------------------------
(* The steps                                                                *)

LEMMA FetchInit == Init => FetchInv
BY DEF Init, FetchInv, NoPanic

LEMMA FetchNext == BaseInv /\ FetchInv /\ [Next]_vars => FetchInv'

<1>FetchStep.
      ASSUME FetchInv, NEW p \in Procs, pc'[p] \notin {"fetch", "panic"}, Undisturbed(p)
      PROVE  FetchInv'
  BY <1>FetchStep, SMTT(20) DEF FetchInv, NoPanic, Undisturbed

(* The heap and the local entries stay as they are. *)
<1>FetchQuiet.
      ASSUME BaseInv, FetchInv, NEW p \in Procs, UNCHANGED <<heap, ent>>,
             NEW l, l \notin {"fetch", "panic"}, pc' = [pc EXCEPT ![p] = l]
      PROVE  FetchInv'
  BY <1>FetchQuiet, <1>FetchStep DEF Undisturbed, BaseInv, TypeOK

<1>FetchCollect.
      ASSUME BaseInv, FetchInv, NEW p \in Procs, NEW e, NEW h, NEW c,
             Moves(p, e, h, c),
             Keeps(h),
             NEW l \in PCs \ {"fetch", "panic"}, pc' = [pc EXCEPT ![p] = l]
      PROVE  FetchInv'
  <2> USE <1>FetchCollect
  <2>1. ASSUME NEW q \in Procs, q # p, pc[q] = "fetch"
        PROVE  heap'[ent'[q]] = heap[ent[q]]
    <3>1. ent[q] \in Entries /\ ent'[q] = ent[q]
      BY <2>1 DEF BaseInv, BusyInv, TypeOK, Moves
    <3>2. Collect(h, c, ent')[ent'[q]] = h[ent'[q]]
      BY <3>1, CollectLocal, SMTT(20)
    <3> QED
      BY <3>1, <3>2 DEF Moves, Keeps
  <2> QED
    BY <2>1, <1>FetchStep DEF Undisturbed, BaseInv, TypeOK

<1>FetchCall.
      ASSUME BaseInv, FetchInv, NEW p \in Procs, NEW r \in Request, Call(p, r)
      PROVE  FetchInv'
  <2> USE <1>FetchCall
  <2>1. PICK l \in {"lock", "saveobject", "query", "lookup"} : pc' = [pc EXCEPT ![p] = l]
    BY DEF Call, Goto, Start
  <2> QED
    BY <2>1, <1>FetchQuiet DEF Call, shared

(* The steps that leave the heap and the local entries alone. *)
<1>FetchOther.
      ASSUME BaseInv, FetchInv, NEW p \in Procs,
             \/ ReadLock(p) \/ AnnounceWrite(p) \/ WriteLock(p) \/ DsGet(p)
             \/ GetBucketInfo(p) \/ GetObjectHash(p) \/ FindObject(p) \/ GetObject(p)
             \/ GetObjectInfos(p) \/ SaveObject(p) \/ SaveBucket(p) \/ DsPut(p)
             \/ DsDelete(p) \/ GetBucketNames(p) \/ BackendFails(p)
      PROVE  FetchInv'
  <2> USE <1>FetchOther
  <2>1. PICK l \in PCs \ {"fetch", "panic"} : pc' = [pc EXCEPT ![p] = l]
    <3>1. CASE ReadLock(p) \/ AnnounceWrite(p) \/ WriteLock(p) \/ DsGet(p)
      BY <3>1 DEF ReadLock, AnnounceWrite, WriteLock, DsGet, Locked, Start, Goto, PCs
    <3>2. CASE \/ GetBucketInfo(p) \/ GetObjectHash(p) \/ FindObject(p) \/ GetObject(p)
               \/ GetObjectInfos(p)
      BY <3>2 DEF GetBucketInfo, GetObjectHash, FindObject, GetObject, GetObjectInfos,
                  Finish, Goto, PCs
    <3>3. CASE \/ SaveObject(p) \/ SaveBucket(p) \/ DsPut(p) \/ DsDelete(p)
               \/ GetBucketNames(p) \/ BackendFails(p)
      BY <3>3 DEF SaveObject, SaveBucket, DsPut, DsDelete, GetBucketNames, BackendFails,
                  Finish, Goto, PCs
    <3> QED
      BY <3>1, <3>2, <3>3
  <2>2. UNCHANGED <<heap, ent>>
    BY DEF ReadLock, AnnounceWrite, WriteLock, DsGet, GetBucketInfo, GetObjectHash,
           FindObject, GetObject, GetObjectInfos, SaveObject, SaveBucket, DsPut,
           DsDelete, GetBucketNames, BackendFails, shared, locals
  <2> QED
    BY <2>1, <2>2, <1>FetchQuiet

<1>FetchReturn.
      ASSUME BaseInv, FetchInv, NEW p \in Procs, Return(p)
      PROVE  FetchInv'
  <2> USE <1>FetchReturn
  <2>1. Moves(p, Nil, heap, cache) /\ pc' = [pc EXCEPT ![p] = "idle"]
    BY DEF Return, Moves, Goto
  <2> QED
    BY <2>1, <1>FetchCollect DEF Keeps, PCs

<1>FetchUncache.
      ASSUME BaseInv, FetchInv, NEW p \in Procs, Uncache(p)
      PROVE  FetchInv'
  <2> USE <1>FetchUncache
  <2>1. Moves(p, Nil, heap, cache') /\ pc' = [pc EXCEPT ![p] = "dsdelete"]
    BY DEF Uncache, Moves, Goto
  <2> QED
    BY <2>1, <1>FetchCollect DEF Keeps, PCs

(* A new entry is not one that a goroutine holds. *)
<1>FreshEntry.
      ASSUME BaseInv, NEW e \in Entries, IsNextFree(e), NEW x
      PROVE  Keeps([heap EXCEPT ![e] = x])
  BY <1>FreshEntry DEF BaseInv, TypeOK, HeapInv, IsNextFree, Keeps

<1>FetchInstall.
      ASSUME BaseInv, FetchInv, NEW p \in Procs, Install(p)
      PROVE  FetchInv'
  <2> USE <1>FetchInstall
  <2>1. PICK e \in Entries :
          /\ IsNextFree(e)
          /\ Moves(p, Nil, [heap EXCEPT ![e] = [hash |-> bhash[p], bkt |-> Saved(p)]], cache')
    BY DEF Install, Moves
  <2> DEFINE h == [heap EXCEPT ![e] = [hash |-> bhash[p], bkt |-> Saved(p)]]
  <2>2. pc' = [pc EXCEPT ![p] = "return"]
    BY DEF Install, Goto
  <2>3. Keeps(h)
    BY <2>1, <1>FreshEntry
  <2>4. Moves(p, Nil, h, cache')
    BY <2>1
  <2> HIDE DEF h
  <2> QED
    BY <2>2, <2>3, <2>4, <1>FetchCollect DEF PCs

(* getBucketNilable returns. *)
<1>FetchResolved.
      ASSUME BaseInv, FetchInv, NEW p \in Procs, NEW e, NEW h, NEW c, Resolved(p, e, h, c),
             Keeps(h)
      PROVE  FetchInv'
  <2> USE <1>FetchResolved
  <2>1. Moves(p, e, h, c)
    BY DEF Resolved, Moves
  <2>2. PICK l \in {"savebucket", "return", "uncache", "lookup", "load"} :
          pc' = [pc EXCEPT ![p] = l]
    BY DEF Resolved, Goto, Finish
  <2> QED
    BY <2>1, <2>2, <1>FetchCollect DEF PCs

<1>FetchLookup.
      ASSUME BaseInv, FetchInv, NEW p \in Procs, Lookup(p) \/ SetNil(p) \/ Fill(p)
      PROVE  FetchInv'
  <2> USE <1>FetchLookup
  <2>1. ASSUME NEW e, NEW c, Resolved(p, e, heap, c) PROVE FetchInv'
    BY <2>1, <1>FetchResolved DEF Keeps
  <2>2. ASSUME NEW e \in Entries, IsNextFree(e),
               Resolved(p, e, [heap EXCEPT ![e] = [hash |-> bhash[p], bkt |-> Nil]],
                        [cache EXCEPT ![Cur(p)] = e])
        PROVE  FetchInv'
    <3> DEFINE h == [heap EXCEPT ![e] = [hash |-> bhash[p], bkt |-> Nil]]
               c == [cache EXCEPT ![Cur(p)] = e]
    <3>1. Keeps(h)
      BY <2>2, <1>FreshEntry
    <3>2. Resolved(p, e, h, c)
      BY <2>2
    <3> HIDE DEF h, c
    <3> QED
      BY <3>1, <3>2, <1>FetchResolved
  <2>3. CASE Lookup(p)
    <3>1. CASE pc' = [pc EXCEPT ![p] = "dsget"] /\ UNCHANGED <<heap, ent>>
      BY <3>1, <1>FetchQuiet
    <3> QED
      BY <2>1, <2>3, <3>1 DEF Lookup, Goto
  <2>4. CASE SetNil(p)
    BY <2>1, <2>4 DEF SetNil
  <2>5. CASE Fill(p)
    BY <2>1, <2>2, <2>5 DEF Fill
  <2> QED
    BY <2>3, <2>4, <2>5

(* cacheLocker: nobody else fetches the hash that p is about to fetch. *)
<1>FetchLoad.
      ASSUME BaseInv, FetchInv, NEW p \in Procs, Load(p)
      PROVE  FetchInv'
  <2> USE <1>FetchLoad
  <2>1. /\ pc' = [pc EXCEPT ![p] = IF heap[ent[p]].bkt = Nil THEN "fetch" ELSE "use"]
        /\ UNCHANGED <<heap, ent>>
        /\ \A q \in Procs : pc[q] = "fetch" => heap[ent[q]].hash # heap[ent[p]].hash
    BY DEF Load, Goto, shared, locals
  <2> QED
    BY <2>1, SMTT(20) DEF FetchInv, NoPanic, BaseInv, TypeOK

(* p changes the Bucket of its entry: no fetching goroutine has that entry. *)
<1>FetchChange.
      ASSUME BaseInv, FetchInv, NEW p \in Procs, ent[p] # Nil, NEW k,
             heap' = [heap EXCEPT ![ent[p]].bkt = k], UNCHANGED ent,
             pc[p] = "fetch" \/ heap[ent[p]].bkt # Nil,
             NEW l \in {"use", "savebucket"}, pc' = [pc EXCEPT ![p] = l]
      PROVE  FetchInv'
  <2> USE <1>FetchChange
  <2>1. ASSUME NEW q \in Procs, q # p, pc[q] = "fetch"
        PROVE  heap'[ent[q]] = heap[ent[q]]
    <3>1. ent[q] # ent[p]
      BY <2>1 DEF FetchInv
    <3>2. ent[q] \in Entries /\ ent[p] \in Entries
      BY <2>1 DEF BaseInv, BusyInv, TypeOK
    <3> QED
      BY <3>1, <3>2 DEF BaseInv, TypeOK
  <2> QED
    BY <2>1, <1>FetchStep, SMTT(20) DEF Undisturbed, BaseInv, TypeOK

<1>FetchFetch.
      ASSUME BaseInv, FetchInv, NEW p \in Procs, Fetch(p)
      PROVE  FetchInv'
  <2> USE <1>FetchFetch
  <2>1. pc[p] = "fetch" /\ ent[p] # Nil /\ heap[ent[p]].bkt = Nil /\ UNCHANGED ent
    BY DEF Fetch, BaseInv, BusyInv, FetchInv, locals
  <2>2. /\ heap' = [heap EXCEPT ![ent[p]].bkt = Unmarshal(heap[ent[p]].hash)]
        /\ pc' = [pc EXCEPT ![p] = "use"]
    BY <2>1 DEF Fetch, Goto
  <2> QED
    BY <2>1, <2>2, <1>FetchChange

<1>FetchPutObjectHash.
      ASSUME BaseInv, FetchInv, NEW p \in Procs, PutObjectHash(p)
      PROVE  FetchInv'
  <2> USE <1>FetchPutObjectHash
  <2>1. ent[p] # Nil /\ heap[ent[p]].bkt # Nil /\ UNCHANGED ent
    BY DEF PutObjectHash, BaseInv, BusyInv, locals
  <2>2. /\ heap' = [heap EXCEPT ![ent[p]].bkt =
                      [Bkt(p) EXCEPT !.objs[req[p].o] = obj[p], !.made = TRUE]]
        /\ pc' = [pc EXCEPT ![p] = "savebucket"]
    BY DEF PutObjectHash, Goto, Bkt
  <2> QED
    BY <2>1, <2>2, <1>FetchChange

<1>FetchRemoveObjects.
      ASSUME BaseInv, FetchInv, NEW p \in Procs, RemoveObjects(p)
      PROVE  FetchInv'
  <2> USE <1>FetchRemoveObjects
  <2>1. ent[p] # Nil /\ heap[ent[p]].bkt # Nil /\ UNCHANGED ent
    BY DEF RemoveObjects, BaseInv, BusyInv
  <2>2. CASE ~Bkt(p).made
    BY <2>1, <2>2, <1>FetchQuiet DEF RemoveObjects, Finish, Goto
  <2>3. CASE Bkt(p).made
    <3>1. /\ heap' = [heap EXCEPT ![ent[p]].bkt = [Bkt(p) EXCEPT !.objs =
                        [o \in Objects |-> IF o \in req[p].names THEN Nil ELSE @[o]]]]
          /\ pc' = [pc EXCEPT ![p] = "savebucket"]
      BY <2>3 DEF RemoveObjects, Goto, Bkt
    <3> QED
      BY <2>1, <3>1, <1>FetchChange
  <2> QED
    BY <2>2, <2>3

<1> SUFFICES ASSUME BaseInv, FetchInv, [Next]_vars PROVE FetchInv'
  OBVIOUS
<1>1. CASE UNCHANGED vars
  BY <1>1 DEF FetchInv, NoPanic, vars, shared, locals
<1>2. CASE \E p \in Procs : \E r \in Request : Call(p, r)
  BY <1>2, <1>FetchCall
<1>3. ASSUME NEW p \in Procs, Step(p) PROVE FetchInv'
  BY <1>3, <1>FetchOther, <1>FetchReturn, <1>FetchUncache, <1>FetchInstall, <1>FetchLookup,
     <1>FetchLoad, <1>FetchFetch, <1>FetchPutObjectHash, <1>FetchRemoveObjects
     DEF Step
<1>4. CASE Crash
  BY <1>4 DEF Crash, FetchInv, NoPanic
<1> QED
  BY <1>1, <1>2, <1>3, <1>4 DEF Next

(***************************************************************************)
(* ensureCache never finds its entry loaded by another goroutine: the      *)
(* panic cannot happen, for any number of concurrent readers.              *)
(***************************************************************************)
THEOREM LoadNeverPanics == Spec => []NoPanic
<1>1. Init => BaseInv /\ FetchInv
  BY BaseInit, FetchInit
<1>2. BaseInv /\ FetchInv /\ [Next]_vars => (BaseInv /\ FetchInv)'
  BY BaseNext, FetchNext
<1>3. FetchInv => NoPanic
  BY DEF FetchInv
<1> QED
  BY <1>1, <1>2, <1>3, PTL DEF Spec
=============================================================================
