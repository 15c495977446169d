---------------------------- MODULE AtomicSteps -----------------------------
(***************************************************************************)
(* Every step of the ledger is a step of AtomicLedger or leaves it as it   *)
(* is, for any number of buckets, objects and goroutines: what a request   *)
(* has read so far is still what the datastore holds, so its answer and    *)
(* its write are those of the sequential specification.                    *)
(***************************************************************************)
EXTENDS LedgerProofs

(* The leaves below are set and function reasoning, which Zenon does best;  *)
(* those that need the SMT solver cite it.                                  *)
USE ZenonT(30)

-----------------------------------------------------------------------------
(* The abstract ledger's answers                                            *)

(* Its copies of the definitions of LedgerTypes. *)
LEMMA SameRequests == AL!Request = Request
BY DEF Request, CreateRequest, BucketRequest, PutRequest, RemoveRequest, ReadRequest,
       ListRequest, CopyRequest, NamesRequest, AL!Request, AL!CreateRequest,
       AL!BucketRequest, AL!PutRequest, AL!RemoveRequest, AL!ReadRequest,
       AL!ListRequest, AL!CopyRequest, AL!NamesRequest

LEMMA SameAnswers ==
  /\ \A v : AL!Ok(v) = Ok(v)
  /\ AL!BucketExists = BucketExists /\ AL!BucketDoesNotExist = BucketDoesNotExist
  /\ AL!ObjectDoesNotExist = ObjectDoesNotExist /\ AL!Backend = Backend
  /\ AL!NoObjects = NoObjects
  /\ \A r, m : AL!RemoveAnswer(r, m) = RemoveAnswer(r, m)
BY DEF AL!Ok, AL!Failure, AL!BucketExists, AL!BucketDoesNotExist,
       AL!ObjectDoesNotExist, AL!Backend, AL!RemoveAnswer, AL!NoObjects,
       Ok, Failure, BucketExists, BucketDoesNotExist, ObjectDoesNotExist, Backend,
       RemoveAnswer, NoObjects

LEMMA Errors ==
  /\ \A v : Ok(v).err = "nil" /\ Ok(v).val = v
  /\ BucketExists.err # "nil" /\ BucketDoesNotExist.err # "nil"
  /\ ObjectDoesNotExist.err # "nil"
BY SMTT(20) DEF Ok, Failure, BucketExists, BucketDoesNotExist, ObjectDoesNotExist

(* No answer is Nil. *)
LEMMA AnswersAreNotNil ==
  /\ \A v \in Values : Ok(v) # Nil
  /\ BucketExists # Nil /\ BucketDoesNotExist # Nil /\ ObjectDoesNotExist # Nil
  /\ Backend # Nil
<1>1. ASSUME NEW v \in Values PROVE Ok(v) # Nil
  <2>1. Ok(v) \in [err : {"nil"}, val : Values]
    BY DEF Ok
  <2> QED
    BY <2>1, NilIsNoAnswer
<1> QED
  BY <1>1, NilIsNoAnswer

LEMMA AnswerNames ==
  ASSUME NEW s, NEW r, r.op = "GetBucketNames"
  PROVE  AL!AnswerTo(s, r) = Ok({b \in Buckets : s[b] # Nil}) /\ AL!StoreAfter(s, r) = s
BY SameAnswers, SMTT(20) DEF AL!AnswerTo, AL!StoreAfter

LEMMA AnswerMissing ==
  ASSUME NEW s, NEW r, r.op \notin {"GetBucketNames", "CreateBucket"}, s[r.b] = Nil
  PROVE  AL!AnswerTo(s, r) = BucketDoesNotExist /\ AL!StoreAfter(s, r) = s
<1>1. AL!AnswerTo(s, r) = BucketDoesNotExist
  BY SameAnswers, SMTT(20) DEF AL!AnswerTo
<1> QED
  BY <1>1, Errors, SMTT(20) DEF AL!StoreAfter

LEMMA AnswerCreate ==
  ASSUME NEW s, NEW r, r.op = "CreateBucket"
  PROVE  /\ s[r.b] = Nil =>
              LET block == [name |-> r.b, info |-> r.info, objs |-> NoObjects]
              IN  /\ AL!AnswerTo(s, r) = Ok(block)
                  /\ AL!StoreAfter(s, r) = [s EXCEPT ![r.b] = block]
         /\ s[r.b] # Nil => AL!AnswerTo(s, r) = BucketExists /\ AL!StoreAfter(s, r) = s
<1>1. CASE s[r.b] = Nil
  <2> DEFINE block == [name |-> r.b, info |-> r.info, objs |-> NoObjects]
  <2>1. AL!AnswerTo(s, r) = Ok(block)
    BY <1>1, SameAnswers, SMTT(20) DEF AL!AnswerTo
  <2>2. Ok(block).err = "nil" /\ Ok(block).val = block
    BY Errors
  <2> HIDE DEF block
  <2>3. AL!StoreAfter(s, r) = [s EXCEPT ![r.b] = block]
    BY <2>1, <2>2, SMTT(20) DEF AL!StoreAfter
  <2> QED
    BY <1>1, <2>1, <2>3 DEF block
<1>2. CASE s[r.b] # Nil
  <2>1. AL!AnswerTo(s, r) = BucketExists
    BY <1>2, SameAnswers, SMTT(20) DEF AL!AnswerTo
  <2> QED
    BY <1>2, <2>1, Errors, SMTT(20) DEF AL!StoreAfter
<1> QED
  BY <1>1, <1>2

(* The requests that only look at a bucket that is there. *)
LEMMA AnswerLook ==
  ASSUME NEW s, NEW r, s[r.b] # Nil
  PROVE  /\ r.op = "AssertBucketExits" => AL!AnswerTo(s, r) = Ok(Nil)
         /\ r.op = "GetBucketInfo" => AL!AnswerTo(s, r) = Ok(s[r.b].info)
         /\ r.op = "GetBucketHash" => AL!AnswerTo(s, r) = Ok(s[r.b])
         /\ r.op \in {"ObjectInfo", "GetObjectHash"} =>
              AL!AnswerTo(s, r) = IF s[r.b].objs[r.o] = Nil THEN ObjectDoesNotExist
                                  ELSE Ok(s[r.b].objs[r.o])
         /\ r.op = "GetObjectInfos" =>
              AL!AnswerTo(s, r) = Ok({s[r.b].objs[n] : n \in AL!Listing(s[r.b].objs, r)})
         /\ r.op \in {"AssertBucketExits", "GetBucketInfo", "GetBucketHash", "ObjectInfo",
                      "GetObjectHash", "GetObjectInfos"} => AL!StoreAfter(s, r) = s
<1>1. r.op = "AssertBucketExits" => AL!AnswerTo(s, r) = Ok(Nil)
  BY SameAnswers, SMTT(20) DEF AL!AnswerTo
<1>2. r.op = "GetBucketInfo" => AL!AnswerTo(s, r) = Ok(s[r.b].info)
  BY SameAnswers, SMTT(20) DEF AL!AnswerTo
<1>3. r.op = "GetBucketHash" => AL!AnswerTo(s, r) = Ok(s[r.b])
  BY SameAnswers, SMTT(20) DEF AL!AnswerTo
<1>4. r.op \in {"ObjectInfo", "GetObjectHash"} =>
        AL!AnswerTo(s, r) = IF s[r.b].objs[r.o] = Nil THEN ObjectDoesNotExist
                            ELSE Ok(s[r.b].objs[r.o])
  BY SameAnswers, SMTT(20) DEF AL!AnswerTo
<1>5. r.op = "GetObjectInfos" =>
        AL!AnswerTo(s, r) = Ok({s[r.b].objs[n] : n \in AL!Listing(s[r.b].objs, r)})
  BY SameAnswers, SMTT(20) DEF AL!AnswerTo
<1>6. r.op \in {"AssertBucketExits", "GetBucketInfo", "GetBucketHash", "ObjectInfo",
                "GetObjectHash", "GetObjectInfos"} => AL!StoreAfter(s, r) = s
  BY SMTT(20) DEF AL!StoreAfter
<1> QED
  BY <1>1, <1>2, <1>3, <1>4, <1>5, <1>6

(* The requests that change a bucket that is there. *)
LEMMA AnswerDelete ==
  ASSUME NEW s, NEW r, s[r.b] # Nil, r.op = "DeleteBucket"
  PROVE  AL!AnswerTo(s, r) = Ok(Nil) /\ AL!StoreAfter(s, r) = [s EXCEPT ![r.b] = Nil]
<1>1. AL!AnswerTo(s, r) = Ok(Nil)
  BY SameAnswers, SMTT(20) DEF AL!AnswerTo
<1> QED
  BY <1>1, Errors, SMTT(20) DEF AL!StoreAfter

LEMMA AnswerPut ==
  ASSUME NEW s, NEW r, s[r.b] # Nil, r.op = "PutObject"
  PROVE  /\ AL!AnswerTo(s, r) = Ok(Nil)
         /\ AL!StoreAfter(s, r) =
              [s EXCEPT ![r.b].objs[r.o] = [bucket |-> r.b, name |-> r.o, data |-> r.data]]
<1>1. AL!AnswerTo(s, r) = Ok(Nil)
  BY SameAnswers, SMTT(20) DEF AL!AnswerTo
<1> QED
  BY <1>1, Errors, SMTT(20) DEF AL!StoreAfter

(* A map without the names of ns. *)
Removed(objs, ns) == [o \in Objects |-> IF o \in ns THEN Nil ELSE objs[o]]

LEMMA AnswerRemove ==
  ASSUME NEW s, NEW r, s[r.b] # Nil, r.op \in {"RemoveObject", "RemoveObjects"}
  PROVE  /\ AL!AnswerTo(s, r) = RemoveAnswer(r, {o \in r.names : s[r.b].objs[o] = Nil})
         /\ AL!StoreAfter(s, r) =
              [s EXCEPT ![r.b] = [s[r.b] EXCEPT !.objs = Removed(s[r.b].objs, r.names)]]
<1>1. AL!AnswerTo(s, r) = RemoveAnswer(r, {o \in r.names : s[r.b].objs[o] = Nil})
  BY SameAnswers, SMTT(20) DEF AL!AnswerTo
<1> DEFINE a == AL!AnswerTo(s, r)
<1> HIDE DEF a
<1>2. AL!StoreAfter(s, r) =
        [s EXCEPT ![r.b].objs = [o \in Objects |-> IF o \in r.names THEN Nil ELSE @[o]]]
  BY SMTT(20) DEF AL!StoreAfter
<1> QED
  BY <1>1, <1>2 DEF Removed

LEMMA AnswerCopy ==
  ASSUME NEW s, NEW r, s[r.b] # Nil, r.op = "CopyObject"
  PROVE  /\ s[r.src] = Nil =>
              AL!AnswerTo(s, r) = BucketDoesNotExist /\ AL!StoreAfter(s, r) = s
         /\ s[r.src] # Nil /\ s[r.src].objs[r.so] = Nil =>
              AL!AnswerTo(s, r) = ObjectDoesNotExist /\ AL!StoreAfter(s, r) = s
         /\ s[r.src] # Nil /\ s[r.src].objs[r.so] # Nil =>
              LET copy == [bucket |-> r.b, name |-> r.o,
                           data |-> s[r.src].objs[r.so].data]
              IN  /\ AL!AnswerTo(s, r) = Ok(copy)
                  /\ AL!StoreAfter(s, r) = [s EXCEPT ![r.b].objs[r.o] = copy]
<1>1. CASE s[r.src] = Nil
  <2>1. AL!AnswerTo(s, r) = BucketDoesNotExist
    BY <1>1, SameAnswers, SMTT(20) DEF AL!AnswerTo
  <2> QED
    BY <1>1, <2>1, Errors, SMTT(20) DEF AL!StoreAfter
<1>2. CASE s[r.src] # Nil /\ s[r.src].objs[r.so] = Nil
  <2>1. AL!AnswerTo(s, r) = ObjectDoesNotExist
    BY <1>2, SameAnswers, SMTT(20) DEF AL!AnswerTo
  <2> QED
    BY <1>2, <2>1, Errors, SMTT(20) DEF AL!StoreAfter
<1>3. CASE s[r.src] # Nil /\ s[r.src].objs[r.so] # Nil
  <2> DEFINE copy == [bucket |-> r.b, name |-> r.o, data |-> s[r.src].objs[r.so].data]
  <2>1. AL!AnswerTo(s, r) = Ok(copy)
    BY <1>3, SameAnswers, SMTT(20) DEF AL!AnswerTo
  <2>2. Ok(copy).err = "nil" /\ Ok(copy).val = copy
    BY Errors
  <2> HIDE DEF copy
  <2>3. AL!StoreAfter(s, r) = [s EXCEPT ![r.b].objs[r.o] = copy]
    BY <2>1, <2>2, SMTT(20) DEF AL!StoreAfter
  <2> QED
    BY <1>3, <2>1, <2>3 DEF copy
<1> QED
  BY <1>1, <1>2, <1>3

-----------------------------------------------------------------------------
(* What a request has found so far is what the datastore holds              *)

Serving == Body \ {"install", "return"}

(* The bucket of p's request, the source of its copy, what it is to commit. *)
Here(p) == IF req[p].op = "GetBucketNames" THEN Nil ELSE ds[req[p].b]

There(p) == IF req[p].op = "CopyObject" THEN ds[req[p].src] ELSE Nil

Kept(p) == IF pc[p] \in {"savebucket", "dsput"} THEN Marshal(Saved(p)) ELSE Nil

(* The source was found and the object to store is its copy. *)
CopyFound(r, o, there) ==
  /\ there # Nil /\ there.objs[r.so] # Nil
  /\ o = [bucket |-> r.b, name |-> r.o, data |-> there.objs[r.so].data]

(* The names of the page but those in ns have been read. *)
Listed(r, ns, li, here) ==
  /\ here # Nil /\ ns # {} /\ ns \subseteq Page(here.objs, r)
  /\ li = {here.objs[n] : n \in Page(here.objs, r) \ ns}

(* The object that ipfsObject is to deliver. *)
Sought(r, st, o, ns, here, there) ==
  \/ /\ r.op = "ObjectInfo" /\ st = "main" /\ here # Nil /\ here.objs[r.o] # Nil
     /\ o = here.objs[r.o]
  \/ /\ r.op = "CopyObject" /\ st = "source" /\ there # Nil
     /\ there.objs[r.so] # Nil /\ o = there.objs[r.so]
  \/ /\ r.op = "GetObjectInfos" /\ st = "item"
     /\ \E n \in ns : (\A m \in ns : n <= m) /\ o = here.objs[n]

(* What is to be committed is what the request makes of the bucket. *)
Prepared(r, o, ns, here, kept) ==
  /\ r.op = "CreateBucket" =>
       here = Nil /\ kept = [name |-> r.b, info |-> r.info, objs |-> NoObjects]
  /\ r.op # "CreateBucket" => here # Nil
  /\ r.op \in {"PutObject", "CopyObject"} => kept = [here EXCEPT !.objs[r.o] = o]
  /\ r.op \in {"RemoveObject", "RemoveObjects"} =>
       /\ kept = [here EXCEPT !.objs = Removed(here.objs, r.names)]
       /\ ns = {n \in r.names : here.objs[n] = Nil}

Progress(l, r, st, o, ns, li, here, there, kept) ==
  /\ r.op = "CopyObject" /\ st # "assert" => here # Nil
  /\ r.op = "CopyObject" /\ st = "main" => CopyFound(r, o, there)
  /\ st = "item" => Listed(r, ns, li, here)
  /\ l = "getobject" => Sought(r, st, o, ns, here, there)
  /\ l \in {"uncache", "dsdelete"} => here # Nil
  /\ l \in {"savebucket", "dsput"} => Prepared(r, o, ns, here, kept)

Found(p) ==
  Progress(pc[p], req[p], stage[p], obj[p], names[p], list[p], Here(p), There(p), Kept(p))

(***************************************************************************)
(* An answer is there from the datastore write or the last read to the     *)
(* return; until then what p has found is what the datastore holds.        *)
(***************************************************************************)
ServeInv(p) ==
  /\ pc[p] = "idle" => req[p] = Nil /\ list[p] = {}
  /\ pc[p] \in {"install", "return"} => res[p] # Nil
  /\ pc[p] \notin {"install", "return"} => res[p] = Nil
  /\ pc[p] \in {"lock", "lockwait"} =>
       stage[p] = IF req[p].op = "CopyObject" THEN "assert" ELSE "main"
  /\ stage[p] # "item" => list[p] = {}
  /\ pc[p] = "query" => req[p].op = "GetBucketNames"
  /\ pc[p] # "idle" /\ req[p].op = "PutObject" =>
       obj[p] = [bucket |-> req[p].b, name |-> req[p].o, data |-> req[p].data]
  /\ pc[p] \in Serving => Found(p)

AtomicInv == \A p \in Procs : ServeInv(p)

LEMMA ServeInit == Init => AtomicInv
<1> SUFFICES ASSUME Init, NEW p \in Procs PROVE ServeInv(p)
  BY DEF AtomicInv
<1>1. /\ pc[p] = "idle" /\ req[p] = Nil /\ res[p] = Nil /\ list[p] = {}
  BY DEF Init
<1> QED
  BY <1>1 DEF ServeInv, Serving, Body

(* The fields of a request that reads, lists, removes or copies. *)
LEMMA ReadFields ==
  ASSUME NEW r \in Request
  PROVE  /\ r.op \in {"ObjectInfo", "GetObjectHash"} => r.o \in Objects
         /\ r.op = "CopyObject" => r.so \in Objects
         /\ r.op \in {"RemoveObject", "RemoveObjects"} => r.names \subseteq Objects
         /\ r.op = "GetObjectInfos" =>
              r.prefix \in SUBSET Objects /\ r.from \in Int /\ r.max \in Nat
<1>1. r.op \in {"ObjectInfo", "GetObjectHash"} => r.o \in Objects
  BY DEF Request, CreateRequest, BucketRequest, PutRequest, RemoveRequest,
         ReadRequest, ListRequest, CopyRequest, NamesRequest
<1>2. r.op = "CopyObject" => r.so \in Objects
  BY DEF Request, CreateRequest, BucketRequest, PutRequest, RemoveRequest,
         ReadRequest, ListRequest, CopyRequest, NamesRequest
<1>3. r.op \in {"RemoveObject", "RemoveObjects"} => r.names \subseteq Objects
  <2>1. r.op \in {"RemoveObject", "RemoveObjects"} => r \in RemoveRequest
    BY DEF Request, CreateRequest, BucketRequest, PutRequest,
           ReadRequest, ListRequest, CopyRequest, NamesRequest
  <2>2. r \in RemoveRequest => r.names \in {{o} : o \in Objects} \cup SUBSET Objects
    BY DEF RemoveRequest
  <2> QED
    BY <2>1, <2>2
<1>4. r.op = "GetObjectInfos" => r.prefix \in Prefixes /\ r.from \in Objects /\ r.max \in Maxes
  BY DEF Request, CreateRequest, BucketRequest, PutRequest, RemoveRequest,
         ReadRequest, ListRequest, CopyRequest, NamesRequest
<1> QED
  BY <1>1, <1>2, <1>3, <1>4, NamesAreOrdered, ListParameters

(* A request that is served has the lock of its bucket and of its source. *)
LEMMA ServerTouches ==
  ASSUME LockedLookups, BaseInv, NEW q \in Procs, pc[q] \in Body
  PROVE  /\ req[q] \in Request /\ req[q].op # "NewMultipartUpload"
         /\ req[q].op # "GetBucketNames" => req[q].b \in Buckets /\ Touches(q, req[q].b)
         /\ req[q].op = "CopyObject" => req[q].src \in Buckets /\ Touches(q, req[q].src)
<1>1. req[q] \in Request
  BY DEF BaseInv, BusyInv, TypeOK, Body
<1>2. req[q].op \in Ops
  BY <1>1 DEF Request
<1>3. req[q].op # "NewMultipartUpload"
  BY <1>2 DEF LockedLookups
<1>4. req[q].op \in WriteOps \cup ReadOps \cup {"CopyObject", "GetBucketNames"}
  BY <1>1, <1>3, RequestOps DEF LoadingOps, WriteOps, ReadOps
<1> QED
  BY <1>1, <1>3, <1>4, RequestFields DEF Touches, Writes, Reads

(* The datastore changes under no other request's bucket. *)
LEMMA TouchStays ==
  ASSUME BaseInv, \A q \in Procs : LockInv(q), NEW p \in Procs, Step(p),
         NEW q \in Procs, q # p, NEW b \in Buckets, Touches(q, b)
  PROVE  ds'[b] = ds[b]
<1> SUFFICES ASSUME ds'[b] # ds[b] PROVE FALSE
  OBVIOUS
<1>1. req[p].b = b /\ pc[p] \in Changing
  BY DsChange DEF Changing, Saving
<1>2. Writes(p, b)
  BY <1>1, ChangerWrites
<1> QED
  BY <1>2, Alone

(* What the others have found, they still find. *)
LEMMA ServeOther ==
  ASSUME LockedLookups, Held, BaseInv', NEW p \in Procs, Step(p),
         NEW q \in Procs, q # p, ServeInv(q)
  PROVE  ServeInv(q)'
<1>0. BaseInv /\ NameInv /\ \A r \in Procs : LockInv(r)
  BY DEF Held
<1>1. Same(q)
  BY <1>0, SameStep
<1>2. ASSUME pc[q] \in Serving PROVE Found(q)'
  <2>0. pc[q] \in Body
    BY <1>2 DEF Serving
  <2>1. Here(q)' = Here(q)
    BY <1>0, <1>1, <2>0, ServerTouches, TouchStays DEF Here, Same
  <2>2. There(q)' = There(q)
    BY <1>0, <1>1, <2>0, ServerTouches, TouchStays DEF There, Same
  <2>3. Kept(q)' = Kept(q)
    <3>1. CASE pc[q] \in {"savebucket", "dsput"}
      <4>1. Saved(q)' = Saved(q)
        BY <1>0, <3>1, SavedStays DEF Saving
      <4>2. Marshal(Saved(q))' = Marshal(Saved(q))
        BY <4>1 DEF Marshal
      <4> QED
        BY <1>1, <3>1, <4>2 DEF Kept, Same
    <3>2. CASE pc[q] \notin {"savebucket", "dsput"}
      BY <1>1, <3>2 DEF Kept, Same
    <3> QED
      BY <3>1, <3>2
  <2>4. Found(q)
    BY <1>2 DEF ServeInv
  <2> QED
    BY <1>1, <2>1, <2>2, <2>3, <2>4 DEF Found, Same
<1> QED
  BY <1>1, <1>2 DEF ServeInv, Same

-----------------------------------------------------------------------------
(* What the goroutine that moves has in hand                                *)

(* The bucket in use is the one the datastore holds. *)
LEMMA UseIsStored ==
  ASSUME LockedLookups, Held, CoherentInv, NEW p \in Procs, pc[p] = "use"
  PROVE  /\ Cur(p) \in Buckets /\ ds[Cur(p)] \in BucketBlock /\ ds[Cur(p)] # Nil
         /\ ent[p] \in Entries /\ Bkt(p) \in Bucket
         /\ Marshal(Bkt(p)) = ds[Cur(p)]
         /\ ds[Cur(p)].name = Bkt(p).name /\ ds[Cur(p)].info = Bkt(p).info
         /\ ds[Cur(p)].objs = Bkt(p).objs
<1>0. BaseInv
  BY DEF Held
<1>1. pc[p] \in Resolving /\ Cur(p) \in Buckets
  BY <1>0, CurIsBucket DEF Resolving
<1>2. ent[p] = cache[Cur(p)]
  BY DEF CoherentInv, View
<1>3. ent[p] # Nil /\ Bkt(p) # Nil
  BY <1>0 DEF BaseInv, BusyInv, Bkt
<1>4. ent[p] \in Entries /\ heap[ent[p]] \in Entry
  BY <1>0, <1>3, EntryInUse
<1>5. Marshal(Bkt(p)) = ds[Cur(p)]
  BY <1>1, <1>2, <1>3, <1>4, ResolvedIsCoherent, Distinct DEF Coherent, Matches, Bkt
<1>6. Bkt(p) \in Bucket
  BY <1>3, <1>4, SMTT(20) DEF Entry, Bkt
<1>7. /\ Marshal(Bkt(p)) \in BucketBlock
      /\ Marshal(Bkt(p)).name = Bkt(p).name /\ Marshal(Bkt(p)).info = Bkt(p).info
      /\ Marshal(Bkt(p)).objs = Bkt(p).objs
  BY <1>6, SMTT(20) DEF Marshal, Bucket, BucketBlock
<1> QED
  BY <1>1, <1>4, <1>5, <1>6, <1>7, Distinct

(* The entry that getBucketNilable returns has the hash the datastore holds. *)
LEMMA ReturnedIsStored ==
  ASSUME LockedLookups, Held, BaseInv', CoherentInv, NEW p \in Procs,
         Lookup(p) \/ SetNil(p) \/ Fill(p), ent'[p] = cache'[Cur(p)],
         pc[p] \in {"lookup", "setnil", "fill"}
  PROVE  /\ ent'[p] = Nil => ds[Cur(p)] = Nil
         /\ ent'[p] # Nil => /\ heap'[ent'[p]].hash = ds[Cur(p)]
                             /\ ds[Cur(p)] \in BucketBlock /\ ds[Cur(p)] # Nil
<1>0. BaseInv /\ View(p) /\ Step(p)
  BY DEF Held, CoherentInv, Step
<1>1. pc[p] \in Resolving /\ Cur(p) \in Buckets
  BY <1>0, CurIsBucket DEF Resolving
<1>2. Coherent(Cur(p))
  BY <1>1, ResolvedIsCoherent
<1>3. ent'[p] \in Entries \cup {Nil} /\ (ent'[p] \in Entries => heap'[ent'[p]] \in Entry)
  BY Distinct DEF BaseInv, TypeOK, HeapInv
<1>4. /\ ent'[p] = Nil => ds[Cur(p)] = Nil
      /\ ent'[p] # Nil => heap'[ent'[p]].hash = ds[Cur(p)]
  <2>1. CASE cache'[Cur(p)] # cache[Cur(p)]
    <3>1. CASE pc[p] = "setnil" /\ cache'[Cur(p)] = Nil
      BY <1>0, <3>1 DEF View
    <3>2. CASE /\ pc[p] = "fill" /\ cache'[Cur(p)] \in Entries
               /\ heap'[cache'[Cur(p)]] = [hash |-> bhash[p], bkt |-> Nil]
      <4>1. heap'[ent'[p]].hash = bhash[p]
        BY <3>2, SMTT(20)
      <4> QED
        BY <1>0, <3>2, <4>1, Distinct DEF View
    <3> QED
      BY <1>0, <1>1, <2>1, <3>1, <3>2, CacheChange
  <2>2. CASE cache'[Cur(p)] = cache[Cur(p)] /\ ent'[p] \in Entries
    <3> DEFINE e == ent'[p]
    <3>1. e = cache[Cur(p)] /\ heap[e].hash = ds[Cur(p)]
      BY <1>2, <2>2, Distinct DEF Coherent, Matches
    <3>2. heap[e] # Nil /\ heap'[e] # Nil
      BY <1>0, <1>1, <1>3, <2>2, <3>1, Distinct DEF BaseInv, HeapInv
    <3>3. ~InPlace(p, e)
      BY DEF InPlace, Mutating
    <3>4. heap'[e] = heap[e]
      BY <1>0, <2>2, <3>2, <3>3, EntryKept
    <3> QED
      BY <2>2, <3>1, <3>4, Distinct
  <2>3. CASE cache'[Cur(p)] = cache[Cur(p)] /\ ent'[p] = Nil
    BY <1>2, <2>3, Distinct DEF Coherent
  <2> QED
    BY <1>3, <2>1, <2>2, <2>3
<1>5. ent'[p] # Nil => heap'[ent'[p]].hash \in BucketBlock
  BY <1>3, SMTT(20) DEF Entry
<1> QED
  BY <1>4, <1>5, Distinct

-----------------------------------------------------------------------------
(* Steps of the ledger as steps of the abstract ledger                      *)

Simulates(p) ==
  UNCHANGED <<ds, req, res>> \/ AL!Serve(p) \/ AL!Fail(p) \/ AL!Answer(p)

(* p goes on with what it has found. *)
LEMMA GoesOn ==
  ASSUME BaseInv, NEW p \in Procs, ServeInv(p), pc[p] \in Serving, pc'[p] \in Serving,
         UNCHANGED <<ds, req, res>>, Found(p)',
         pc'[p] = "query" => pc[p] = "query",
         stage'[p] # "item" => list'[p] = {},
         req[p].op = "PutObject" => obj'[p] = obj[p]
  PROVE  ServeInv(p)' /\ Simulates(p)
BY DEF ServeInv, Serving, Body, Simulates

(* p has its answer. *)
LEMMA Answered ==
  ASSUME BaseInv, NEW p \in Procs, ServeInv(p), pc[p] \in Serving,
         pc'[p] \in {"install", "return"}, UNCHANGED req,
         NEW a, a # Nil, res' = [res EXCEPT ![p] = a],
         \/ a = AL!AnswerTo(ds, req[p]) /\ ds' = AL!StoreAfter(ds, req[p])
         \/ a = Backend /\ ds' = ds,
         stage'[p] # "item" => list'[p] = {},
         req[p].op = "PutObject" => obj'[p] = obj[p]
  PROVE  ServeInv(p)' /\ Simulates(p)
<1>1. req[p] # Nil /\ res[p] = Nil /\ pc[p] # "idle"
  BY DEF BaseInv, BusyInv, ServeInv, Serving, Body
<1>2. res'[p] # Nil
  BY DEF BaseInv, TypeOK
<1>3. ServeInv(p)'
  BY <1>1, <1>2 DEF ServeInv, Serving, Body
<1>4. AL!Serve(p) \/ AL!Fail(p)
  BY <1>1, SameAnswers DEF AL!Serve, AL!Fail
<1> QED
  BY <1>3, <1>4 DEF Simulates

(* The steps of p at which only pc tells what it has found. *)
Plain == {"saveobject", "lookup", "dsget", "setnil", "fill", "load", "fetch", "use", "panic"}

LEMMA PlainStep ==
  ASSUME BaseInv, NEW p \in Procs, ServeInv(p), pc[p] \in Plain, pc'[p] \in Plain,
         UNCHANGED <<ds, req, res>>, stage'[p] = stage[p], obj'[p] = obj[p],
         names'[p] = names[p], list'[p] = list[p]
  PROVE  ServeInv(p)' /\ Simulates(p)
<1>1. pc[p] \in Serving /\ pc'[p] \in Serving
  BY DEF Plain, Serving, Body, PCs
<1>2. Found(p)
  BY <1>1 DEF ServeInv
<1>3. Here(p)' = Here(p) /\ There(p)' = There(p)
  BY DEF Here, There
<1>4. Found(p)'
  BY <1>2, <1>3 DEF Found, Progress, Plain
<1> QED
  BY <1>1, <1>4, GoesOn DEF ServeInv, Plain

LEMMA ServeLock ==
  ASSUME BaseInv, NEW p \in Procs, ServeInv(p),
         ReadLock(p) \/ AnnounceWrite(p) \/ WriteLock(p)
  PROVE  ServeInv(p)' /\ Simulates(p)
<1>1. /\ pc[p] \in {"lock", "lockwait"}
      /\ UNCHANGED <<ds, req, res, stage, obj, names, list>>
  BY DEF ReadLock, AnnounceWrite, WriteLock, shared, locals
<1>2. /\ pc'[p] \in {"lock", "lockwait", "saveobject", "query", "lookup"}
      /\ pc'[p] = "query" => req[p].op = "GetBucketNames"
  BY SMTT(20) DEF ReadLock, AnnounceWrite, WriteLock, Locked, Goto, Start, BaseInv, TypeOK
<1>3. /\ stage[p] = IF req[p].op = "CopyObject" THEN "assert" ELSE "main"
      /\ res[p] = Nil /\ list[p] = {}
      /\ req[p].op = "PutObject" =>
           obj[p] = [bucket |-> req[p].b, name |-> req[p].o, data |-> req[p].data]
  BY <1>1 DEF ServeInv
<1>4. Found(p)'
  BY <1>1, <1>2, <1>3 DEF Found, Progress
<1> QED
  BY <1>1, <1>2, <1>3, <1>4 DEF ServeInv, Simulates

LEMMA ServeReturn ==
  ASSUME BaseInv, NEW p \in Procs, ServeInv(p), Return(p)
  PROVE  ServeInv(p)' /\ Simulates(p)
<1>1. res[p] # Nil
  BY DEF Return, ServeInv
<1>2. pc'[p] = "idle" /\ req'[p] = Nil /\ res'[p] = Nil /\ list'[p] = {}
  BY DEF Return, Goto, BaseInv, TypeOK
<1>3. ServeInv(p)'
  BY <1>2 DEF ServeInv, Serving, Body
<1>4. AL!Answer(p)
  BY <1>1 DEF Return, AL!Answer
<1> QED
  BY <1>3, <1>4 DEF Simulates

(* getBucketNilable has found no bucket. *)
LEMMA ServeMissing ==
  ASSUME LockedLookups, BaseInv, NEW p \in Procs, ServeInv(p), pc[p] \in Resolving,
         req[p].op # "CreateBucket", ds[Cur(p)] = Nil, pc'[p] = "return",
         UNCHANGED <<ds, req, obj, list>>, stage'[p] = stage[p],
         res' = [res EXCEPT ![p] = BucketDoesNotExist]
  PROVE  ServeInv(p)' /\ Simulates(p)
<1>1. pc[p] \in Serving /\ pc[p] \in Body
  BY DEF Resolving, Serving, Body, PCs
<1>2. req[p].op # "GetBucketNames" /\ (stage[p] = "source" => req[p].op = "CopyObject")
  BY <1>1 DEF BaseInv, BusyInv, Body
<1>3. /\ AL!AnswerTo(ds, req[p]) = BucketDoesNotExist
      /\ AL!StoreAfter(ds, req[p]) = ds
  <2>1. CASE stage[p] = "source"
    <3>1. req[p].op = "CopyObject" /\ ds[req[p].src] = Nil
      BY <1>2, <2>1 DEF Cur
    <3>2. Here(p) # Nil
      BY <1>1, <2>1, <3>1 DEF ServeInv, Found, Progress
    <3>3. ds[req[p].b] # Nil
      BY <3>1, <3>2 DEF Here
    <3> QED
      BY <3>1, <3>3, AnswerCopy
  <2>2. CASE stage[p] # "source"
    BY <1>2, <2>2, AnswerMissing DEF Cur
  <2> QED
    BY <2>1, <2>2
<1>4. stage'[p] # "item" => list'[p] = {}
  BY DEF ServeInv
<1> QED
  BY <1>1, <1>3, <1>4, Answered, AnswersAreNotNil

(* ... and has found one. *)
LEMMA ServeExisting ==
  ASSUME LockedLookups, BaseInv, NEW p \in Procs, ServeInv(p), pc[p] \in Resolving,
         ds[Cur(p)] \in BucketBlock, ds[Cur(p)] # Nil, pc'[p] = "return",
         UNCHANGED <<ds, req, obj, list>>, stage'[p] = stage[p],
         \/ /\ req[p].op = "CreateBucket"
            /\ res' = [res EXCEPT ![p] = BucketExists]
         \/ /\ req[p].op \in {"AssertBucketExits", "NewMultipartUpload"}
            /\ res' = [res EXCEPT ![p] = Ok(Nil)]
         \/ /\ req[p].op = "GetBucketHash"
            /\ res' = [res EXCEPT ![p] = Ok(ds[Cur(p)])]
  PROVE  ServeInv(p)' /\ Simulates(p)
<1>1. pc[p] \in Serving /\ pc[p] \in Body
  BY DEF Resolving, Serving, Body, PCs
<1>2. Cur(p) = req[p].b /\ req[p].op # "NewMultipartUpload"
  BY <1>1, ServerTouches DEF BaseInv, BusyInv, Body, Cur
<1>3. stage'[p] # "item" => list'[p] = {}
  BY DEF ServeInv
<1>4. CASE req[p].op = "CreateBucket"
  <2>1. AL!AnswerTo(ds, req[p]) = BucketExists /\ AL!StoreAfter(ds, req[p]) = ds
    BY <1>2, <1>4, AnswerCreate
  <2>2. BucketExists # Nil /\ res' = [res EXCEPT ![p] = BucketExists]
    BY <1>4, AnswersAreNotNil
  <2>3. req[p].op # "PutObject"
    BY <1>4
  <2> QED
    BY <1>1, <1>3, <2>1, <2>2, <2>3, Answered
<1>5. CASE req[p].op = "AssertBucketExits"
  <2>1. AL!AnswerTo(ds, req[p]) = Ok(Nil) /\ AL!StoreAfter(ds, req[p]) = ds
    BY <1>2, <1>5, AnswerLook
  <2>2. Ok(Nil) # Nil
    BY AnswersAreNotNil DEF Values
  <2> QED
    BY <1>1, <1>3, <1>5, <2>1, <2>2, Answered
<1>6. CASE req[p].op = "GetBucketHash"
  <2>0. ds[req[p].b] # Nil
    BY <1>2
  <2>1. AL!AnswerTo(ds, req[p]) = Ok(ds[req[p].b]) /\ AL!StoreAfter(ds, req[p]) = ds
    BY <1>6, <2>0, AnswerLook
  <2>2. Ok(ds[Cur(p)]) # Nil
    BY AnswersAreNotNil DEF Values
  <2> QED
    BY <1>1, <1>2, <1>3, <1>6, <2>1, <2>2, Answered
<1> QED
  BY <1>2, <1>4, <1>5, <1>6

LEMMA ServeResolve ==
  ASSUME LockedLookups, Held, BaseInv', CoherentInv, NEW p \in Procs, ServeInv(p),
         Lookup(p) \/ SetNil(p) \/ Fill(p)
  PROVE  ServeInv(p)' /\ Simulates(p)
<1>0. BaseInv
  BY DEF Held
<1>1. CASE pc[p] = "lookup" /\ pc'[p] = "dsget"
           /\ UNCHANGED <<res, stage, req, obj, names, list, ds>>
  BY <1>0, <1>1, PlainStep DEF Plain
<1>2. ASSUME pc[p] \in {"lookup", "setnil", "fill"}, Outcome(p),
             ent'[p] = cache'[Cur(p)], UNCHANGED <<req, obj, names, list, ds>>
      PROVE  ServeInv(p)' /\ Simulates(p)
  <2>1. /\ pc[p] \in Resolving /\ pc[p] \in Serving /\ pc[p] \in Body /\ pc[p] \in Plain
        /\ Cur(p) \in Buckets
    BY <1>0, <1>2, CurIsBucket DEF Resolving, Serving, Body, PCs, Plain
  <2>2. /\ ent'[p] = Nil => ds[Cur(p)] = Nil
        /\ ent'[p] # Nil => /\ heap'[ent'[p]].hash = ds[Cur(p)]
                            /\ ds[Cur(p)] \in BucketBlock /\ ds[Cur(p)] # Nil
    BY <1>2, ReturnedIsStored
  <2>3. /\ req[p].op # "GetBucketNames" /\ req[p].op # "NewMultipartUpload"
        /\ stage[p] \in {"assert", "source"} => req[p].op = "CopyObject"
        /\ stage[p] = "item" => req[p].op = "GetObjectInfos"
        /\ stage[p] # "source" => Here(p) = ds[Cur(p)]
    BY <1>0, <2>1, ServerTouches DEF BaseInv, BusyInv, Body, Here, Cur
  <2>4. /\ Found(p) /\ Here(p)' = Here(p) /\ There(p)' = There(p)
        /\ stage[p] # "item" => list[p] = {}
    BY <1>2, <2>1 DEF ServeInv, Here, There
  <2>5. CASE ent'[p] = Nil /\ req[p].op # "CreateBucket"
    <3>1. /\ pc'[p] = "return" /\ stage'[p] = stage[p]
          /\ res' = [res EXCEPT ![p] = BucketDoesNotExist]
      BY <1>2, <2>5 DEF Outcome
    <3> QED
      BY <1>0, <1>2, <2>1, <2>2, <2>5, <3>1, ServeMissing
  <2>6. CASE /\ ent'[p] # Nil
             /\ req[p].op \in {"CreateBucket", "AssertBucketExits", "GetBucketHash"}
    <3>1. stage[p] # "assert"
      BY <2>3, <2>6
    <3>2. /\ pc'[p] = "return" /\ stage'[p] = stage[p]
          /\ \/ /\ req[p].op = "CreateBucket"
                /\ res' = [res EXCEPT ![p] = BucketExists]
             \/ /\ req[p].op \in {"AssertBucketExits", "NewMultipartUpload"}
                /\ res' = [res EXCEPT ![p] = Ok(Nil)]
             \/ /\ req[p].op = "GetBucketHash"
                /\ res' = [res EXCEPT ![p] = Ok(ds[Cur(p)])]
      BY <1>2, <2>2, <2>6, <3>1 DEF Outcome
    <3> QED
      BY <1>0, <1>2, <2>1, <2>2, <2>6, <3>2, ServeExisting
  <2>7. CASE ent'[p] = Nil /\ req[p].op = "CreateBucket"
    <3>1. pc'[p] = "savebucket" /\ stage'[p] = stage[p] /\ UNCHANGED res
      BY <1>2, <2>7 DEF Outcome
    <3>2. Here(p) = Nil /\ stage[p] # "item"
      BY <2>2, <2>3, <2>7
    <3>3. Kept(p)' = [name |-> req[p].b, info |-> req[p].info, objs |-> NoObjects]
      <4>1. Kept(p)' = Marshal(Saved(p))'
        BY <3>1 DEF Kept
      <4>2. Saved(p)' = [name |-> req[p].b, info |-> req[p].info, objs |-> NoObjects,
                         made |-> FALSE]
        BY <1>2, <2>7 DEF Saved, NoObjects
      <4>3. Marshal(Saved(p))' =
              [name |-> req[p].b, info |-> req[p].info, objs |-> NoObjects]
        BY <4>2, SMTT(20) DEF Marshal
      <4> QED
        BY <4>1, <4>3
    <3>4. Prepared(req[p], obj[p], names[p], Here(p), Kept(p)')
      BY <2>7, <3>2, <3>3 DEF Prepared
    <3>5. Found(p)'
      BY <1>2, <2>4, <2>7, <3>1, <3>2, <3>4 DEF Found, Progress
    <3>6. pc'[p] \in Serving
      BY <3>1 DEF Serving, Body, PCs
    <3> QED
      BY <1>0, <1>2, <2>1, <2>4, <3>1, <3>5, <3>6, GoesOn
  <2>8. CASE ent'[p] # Nil /\ req[p].op = "DeleteBucket"
    <3>1. pc'[p] = "uncache" /\ stage'[p] = stage[p] /\ UNCHANGED res
      BY <1>2, <2>3, <2>8 DEF Outcome
    <3>2. Here(p) # Nil /\ stage[p] # "item"
      BY <2>2, <2>3, <2>8
    <3>3. Found(p)'
      BY <1>2, <2>4, <2>8, <3>1, <3>2 DEF Found, Progress
    <3>4. pc'[p] \in Serving
      BY <3>1 DEF Serving, Body, PCs
    <3> QED
      BY <1>0, <1>2, <2>1, <2>4, <3>1, <3>3, <3>4, GoesOn
  <2>9. CASE /\ ent'[p] # Nil /\ stage[p] = "assert"
    <3>1. req[p].op = "CopyObject"
      BY <2>3, <2>9
    <3>2. pc'[p] = "lookup" /\ stage'[p] = "source" /\ UNCHANGED res
      BY <1>2, <2>9, <3>1 DEF Outcome
    <3>3. Here(p) # Nil
      BY <2>2, <2>3, <2>9
    <3>4. Found(p)'
      BY <1>2, <2>4, <3>1, <3>2, <3>3 DEF Found, Progress
    <3>5. pc'[p] \in Serving
      BY <3>2 DEF Serving, Body, PCs
    <3> QED
      BY <1>0, <1>2, <2>1, <2>4, <2>9, <3>2, <3>4, <3>5, GoesOn
  <2>10. CASE /\ ent'[p] # Nil /\ stage[p] # "assert"
              /\ pc'[p] = "load" /\ stage'[p] = stage[p] /\ UNCHANGED res
    BY <1>0, <1>2, <2>1, <2>10, PlainStep DEF Plain
  <2> QED
    BY <1>2, <2>3, <2>5, <2>6, <2>7, <2>8, <2>9, <2>10 DEF Outcome
<1> QED
  BY <1>0, <1>1, <1>2, LookupOutcome

LEMMA ServePlain ==
  ASSUME BaseInv, NEW p \in Procs, ServeInv(p),
         DsGet(p) \/ Load(p) \/ Fetch(p) \/ SaveObject(p)
  PROVE  ServeInv(p)' /\ Simulates(p)
<1>1. /\ pc[p] \in Plain
      /\ UNCHANGED <<ds, req, res, stage, obj, names, list>>
  BY DEF DsGet, Load, Fetch, SaveObject, Plain, shared, locals
<1>2. pc'[p] \in Plain
  BY DEF DsGet, Load, Fetch, SaveObject, Plain, Goto, BaseInv, TypeOK
<1> QED
  BY <1>1, <1>2, PlainStep

(* p is at its loaded bucket. *)
LEMMA AtUse ==
  ASSUME LockedLookups, Held, CoherentInv, NEW p \in Procs, ServeInv(p), pc[p] = "use"
  PROVE  /\ pc[p] \in Serving /\ Found(p) /\ req[p] \in Request /\ req[p].op \in LoadingOps
         /\ stage[p] \in {"main", "source", "item"}
         /\ stage[p] = "source" => /\ req[p].op = "CopyObject"
                                   /\ There(p) = ds[Cur(p)] /\ Here(p) # Nil
         /\ stage[p] = "item" => req[p].op = "GetObjectInfos"
         /\ stage[p] # "source" => /\ Here(p) = ds[Cur(p)] /\ Here(p) = ds[req[p].b]
         /\ stage[p] # "item" => list[p] = {}
<1>0. BaseInv /\ NameInv
  BY DEF Held
<1>1. pc[p] \in Serving /\ pc[p] \in Body
  BY DEF Serving, Body, PCs
<1>2. Found(p) /\ (stage[p] # "item" => list[p] = {})
  BY <1>1 DEF ServeInv
<1>3. req[p] \in Request
  BY <1>0, <1>1, ServerTouches
<1>4. req[p].op \in LoadingOps /\ stage[p] \in {"main", "source", "item"}
  BY <1>0 DEF NameInv, NameLocal, BaseInv, TypeOK, Stages
<1>5. /\ stage[p] = "source" => req[p].op = "CopyObject"
      /\ stage[p] = "item" => req[p].op = "GetObjectInfos"
  BY <1>0 DEF BaseInv, BusyInv
<1>6. req[p].op # "GetBucketNames"
  BY <1>4 DEF LoadingOps
<1>7. stage[p] = "source" => There(p) = ds[Cur(p)] /\ Here(p) # Nil
  BY <1>2, <1>5 DEF There, Cur, Found, Progress
<1>8. stage[p] # "source" => Here(p) = ds[Cur(p)] /\ Here(p) = ds[req[p].b]
  BY <1>6 DEF Here, Cur
<1> QED
  BY <1>1, <1>2, <1>3, <1>4, <1>5, <1>7, <1>8

(* An object of a bucket block is an object. *)
LEMMA BlockObjs ==
  ASSUME NEW h \in BucketBlock
  PROVE  /\ h.name \in Buckets /\ h.info \in Infos
         /\ h.objs \in [Objects -> Object \cup {Nil}]
BY DEF BucketBlock

LEMMA ServeGetBucketInfo ==
  ASSUME LockedLookups, Held, CoherentInv, NEW p \in Procs, ServeInv(p), GetBucketInfo(p)
  PROVE  ServeInv(p)' /\ Simulates(p)
<1>1. /\ pc[p] = "use" /\ req[p].op = "GetBucketInfo"
      /\ UNCHANGED <<ds, req, stage, obj, list>>
      /\ res' = [res EXCEPT ![p] = Ok(Bkt(p).info)]
  BY DEF GetBucketInfo, Finish, shared, locals
<1>2. BaseInv /\ pc'[p] = "return"
  BY DEF GetBucketInfo, Finish, Goto, Held, BaseInv, TypeOK
<1>3. /\ ds[req[p].b] # Nil /\ ds[req[p].b].info = Bkt(p).info
      /\ Bkt(p).info \in Infos
  BY <1>1, AtUse, UseIsStored, BlockObjs DEF Cur
<1>4. /\ AL!AnswerTo(ds, req[p]) = Ok(ds[req[p].b].info)
      /\ AL!StoreAfter(ds, req[p]) = ds
  BY <1>1, <1>3, AnswerLook
<1>5. Ok(Bkt(p).info) # Nil
  BY <1>3, AnswersAreNotNil DEF Values
<1>6. pc[p] \in Serving /\ (stage[p] # "item" => list[p] = {})
  BY <1>1, AtUse
<1> QED
  BY <1>1, <1>2, <1>3, <1>4, <1>5, <1>6, Answered

LEMMA ServeGetObjectHash ==
  ASSUME LockedLookups, Held, CoherentInv, NEW p \in Procs, ServeInv(p), GetObjectHash(p)
  PROVE  ServeInv(p)' /\ Simulates(p)
<1> DEFINE x == Bkt(p).objs[req[p].o]
           a == IF x = Nil THEN ObjectDoesNotExist ELSE Ok(x)
<1>1. /\ pc[p] = "use" /\ req[p].op = "GetObjectHash"
      /\ UNCHANGED <<ds, req, stage, obj, list>>
      /\ res' = [res EXCEPT ![p] = a]
  BY DEF GetObjectHash, Finish, shared, locals
<1>2. BaseInv /\ pc'[p] = "return"
  BY DEF GetObjectHash, Finish, Goto, Held, BaseInv, TypeOK
<1>3. /\ ds[req[p].b] # Nil /\ ds[req[p].b] \in BucketBlock
      /\ ds[req[p].b].objs = Bkt(p).objs /\ req[p] \in Request
  BY <1>1, AtUse, UseIsStored DEF Cur
<1>4. x \in Object \cup {Nil}
  BY <1>1, <1>3, BlockObjs, ReadFields
<1>5. /\ AL!AnswerTo(ds, req[p]) = IF ds[req[p].b].objs[req[p].o] = Nil THEN ObjectDoesNotExist
                                   ELSE Ok(ds[req[p].b].objs[req[p].o])
      /\ AL!StoreAfter(ds, req[p]) = ds
  BY <1>1, <1>3, AnswerLook
<1>6. AL!AnswerTo(ds, req[p]) = a
  BY <1>3, <1>5
<1>7. a # Nil
  BY <1>4, AnswersAreNotNil DEF Values
<1>8. pc[p] \in Serving /\ (stage[p] # "item" => list[p] = {})
  BY <1>1, AtUse
<1> HIDE DEF a
<1> QED
  BY <1>1, <1>2, <1>5, <1>6, <1>7, <1>8, Answered

LEMMA ServeFindObject ==
  ASSUME LockedLookups, Held, CoherentInv, NEW p \in Procs, ServeInv(p), FindObject(p)
  PROVE  ServeInv(p)' /\ Simulates(p)
<1>0. BaseInv
  BY DEF Held
<1>1. pc[p] = "use" /\ UNCHANGED <<ds, req, stage, names, list>>
  BY DEF FindObject, shared
<1>2. PICK n \in Objects :
        /\ Wanted(p, n)
        /\ \/ /\ Bkt(p).objs[n] = Nil
              /\ Finish(p, ObjectDoesNotExist)
              /\ UNCHANGED obj
           \/ /\ Bkt(p).objs[n] # Nil
              /\ obj' = [obj EXCEPT ![p] = Bkt(p).objs[n]]
              /\ Goto(p, "getobject")
              /\ UNCHANGED res
  BY DEF FindObject
<1> DEFINE x == Bkt(p).objs[n]
<1>3. /\ pc[p] \in Serving /\ Found(p) /\ (stage[p] # "item" => list[p] = {})
      /\ stage[p] = "source" => req[p].op = "CopyObject" /\ There(p) = ds[Cur(p)]
      /\ stage[p] = "source" => Here(p) # Nil
      /\ stage[p] = "item" => req[p].op = "GetObjectInfos"
      /\ stage[p] # "source" => Here(p) = ds[Cur(p)] /\ Here(p) = ds[req[p].b]
  BY <1>1, AtUse
<1>4. ds[Cur(p)] # Nil /\ ds[Cur(p)].objs[n] = x
  BY <1>1, UseIsStored
<1>5. \/ /\ stage[p] = "main" /\ req[p].op = "ObjectInfo" /\ n = req[p].o
         /\ Here(p) # Nil /\ Here(p) = ds[req[p].b] /\ Here(p).objs[req[p].o] = x
      \/ /\ stage[p] = "source" /\ req[p].op = "CopyObject" /\ n = req[p].so
         /\ There(p) # Nil /\ Here(p) # Nil /\ There(p).objs[req[p].so] = x
      \/ /\ stage[p] = "item" /\ req[p].op = "GetObjectInfos" /\ IsNextName(p, n)
         /\ Here(p) # Nil /\ Here(p).objs[n] = x
  BY <1>2, <1>3, <1>4 DEF Wanted
<1>6. CASE x = Nil /\ Finish(p, ObjectDoesNotExist) /\ UNCHANGED obj
  <2>1. pc'[p] = "return" /\ res' = [res EXCEPT ![p] = ObjectDoesNotExist]
    BY <1>0, <1>6 DEF Finish, Goto, BaseInv, TypeOK
  <2>2. AL!AnswerTo(ds, req[p]) = ObjectDoesNotExist /\ AL!StoreAfter(ds, req[p]) = ds
    <3>1. CASE stage[p] = "main"
      <4>1. /\ req[p].op = "ObjectInfo" /\ ds[req[p].b] # Nil
            /\ ds[req[p].b].objs[req[p].o] = Nil
        BY <1>5, <1>6, <3>1
      <4> QED
        BY <4>1, AnswerLook
    <3>2. CASE stage[p] = "source"
      <4>1. /\ req[p].op = "CopyObject" /\ Here(p) # Nil /\ There(p) # Nil
            /\ There(p).objs[req[p].so] = Nil
        BY <1>5, <1>6, <3>2
      <4>2. /\ ds[req[p].b] # Nil /\ ds[req[p].src] # Nil
            /\ ds[req[p].src].objs[req[p].so] = Nil
        BY <4>1 DEF Here, There
      <4> QED
        BY <4>1, <4>2, AnswerCopy
    <3>3. CASE stage[p] = "item"
      <4>1. Listed(req[p], names[p], list[p], Here(p))
        BY <1>3, <3>3 DEF Found, Progress
      <4>2. n \in Page(Here(p).objs, req[p])
        BY <1>5, <3>3, <4>1 DEF Listed, IsNextName
      <4>3. Here(p).objs[n] # Nil
        BY <4>2 DEF Page
      <4> QED
        BY <1>5, <1>6, <3>3, <4>3
    <3> QED
      BY <1>5, <3>1, <3>2, <3>3
  <2> QED
    BY <1>0, <1>1, <1>3, <1>6, <2>1, <2>2, Answered, AnswersAreNotNil
<1>7. CASE x # Nil /\ obj' = [obj EXCEPT ![p] = x] /\ Goto(p, "getobject") /\ UNCHANGED res
  <2>1. pc'[p] = "getobject" /\ obj'[p] = x
    BY <1>0, <1>7 DEF Goto, BaseInv, TypeOK
  <2>2. pc'[p] \in Serving
    BY <2>1 DEF Serving, Body, PCs
  <2>3. Here(p)' = Here(p) /\ There(p)' = There(p)
    BY <1>1 DEF Here, There
  <2>4. Sought(req[p], stage[p], x, names[p], Here(p), There(p))
    BY <1>5, <1>7 DEF Sought, IsNextName
  <2>5. req[p].op # "PutObject" /\ ~(req[p].op = "CopyObject" /\ stage[p] = "main")
    BY <1>5
  <2>6. Found(p)'
    BY <1>1, <1>3, <2>1, <2>3, <2>4, <2>5 DEF Found, Progress
  <2> QED
    BY <1>0, <1>1, <1>3, <1>7, <2>1, <2>2, <2>5, <2>6, GoesOn
<1> QED
  BY <1>2, <1>6, <1>7

(* One more name of the page has been read. *)
LEMMA ReadOne ==
  ASSUME NEW f, NEW P, NEW N, N \subseteq P, NEW n \in N
  PROVE  {f[k] : k \in P \ N} \cup {f[n]} = {f[k] : k \in P \ (N \ {n})}
OBVIOUS

(***************************************************************************)
(* The page that GetObjectInfos picks by counting is the listing that the  *)
(* abstract ledger asks for: PageIsListing of LedgerTheorems.              *)
(***************************************************************************)
PagesAreListings ==
  \A objs, r :
    r.prefix \in SUBSET Objects /\ r.from \in Int /\ r.max \in Nat =>
      AL!Listing(objs, r) = Page(objs, r)

LEMMA ListingAnswer ==
  ASSUME PagesAreListings,
         NEW r \in Request, r.op = "GetObjectInfos", NEW s, s[r.b] # Nil
  PROVE  /\ AL!AnswerTo(s, r) = Ok({s[r.b].objs[n] : n \in Page(s[r.b].objs, r)})
         /\ AL!StoreAfter(s, r) = s
<1>1. AL!Listing(s[r.b].objs, r) = Page(s[r.b].objs, r)
  BY ReadFields DEF PagesAreListings
<1>2. /\ AL!AnswerTo(s, r) = Ok({s[r.b].objs[n] : n \in AL!Listing(s[r.b].objs, r)})
      /\ AL!StoreAfter(s, r) = s
  BY AnswerLook
<1> QED
  BY <1>1, <1>2

LEMMA ServeGetObjectInfos ==
  ASSUME PagesAreListings,
         LockedLookups, Held, CoherentInv, NEW p \in Procs, ServeInv(p), GetObjectInfos(p)
  PROVE  ServeInv(p)' /\ Simulates(p)
<1>0. BaseInv
  BY DEF Held
<1> DEFINE P == Page(Bkt(p).objs, req[p])
<1>1. /\ pc[p] = "use" /\ req[p].op = "GetObjectInfos" /\ stage[p] = "main"
      /\ names' = [names EXCEPT ![p] = P]
      /\ stage' = [stage EXCEPT ![p] = "item"]
      /\ IF names'[p] = {} THEN Finish(p, Ok({})) ELSE Goto(p, "lookup") /\ UNCHANGED res
      /\ UNCHANGED <<ds, obj, list, req>>
  BY DEF GetObjectInfos, shared
<1>2. names'[p] = P /\ stage'[p] = "item"
  BY <1>0, <1>1 DEF BaseInv, TypeOK
<1>3. /\ pc[p] \in Serving /\ Found(p) /\ list[p] = {} /\ req[p] \in Request
      /\ Here(p) = ds[Cur(p)] /\ Here(p) = ds[req[p].b]
  BY <1>1, AtUse
<1>4. ds[req[p].b] # Nil /\ Bkt(p).objs = ds[req[p].b].objs
  BY <1>1, <1>3, UseIsStored
<1>5. P = Page(ds[req[p].b].objs, req[p])
  BY <1>4
<1> HIDE DEF P
<1>6. CASE P = {}
  <2>1. pc'[p] = "return" /\ res' = [res EXCEPT ![p] = Ok({})]
    BY <1>0, <1>1, <1>2, <1>6 DEF Finish, Goto, BaseInv, TypeOK
  <2>2. {ds[req[p].b].objs[n] : n \in P} = {}
    BY <1>6
  <2>3. /\ AL!AnswerTo(ds, req[p]) = Ok({ds[req[p].b].objs[n] : n \in P})
        /\ AL!StoreAfter(ds, req[p]) = ds
    BY <1>1, <1>3, <1>4, <1>5, ListingAnswer
  <2>4. Ok({}) # Nil
    <3>1. {} \in Values
      BY DEF Values
    <3> QED
      BY <3>1, AnswersAreNotNil
  <2>5. AL!AnswerTo(ds, req[p]) = Ok({})
    BY <2>2, <2>3
  <2> QED
    BY <1>0, <1>1, <1>2, <1>3, <2>1, <2>3, <2>4, <2>5, Answered
<1>7. CASE P # {}
  <2>1. pc'[p] = "lookup" /\ UNCHANGED res
    BY <1>0, <1>1, <1>2, <1>7 DEF Goto, BaseInv, TypeOK
  <2>2. pc'[p] \in Serving
    BY <2>1 DEF Serving, Body, PCs
  <2>3. Here(p)' = Here(p)
    BY <1>1 DEF Here
  <2>4. {Here(p).objs[n] : n \in Page(Here(p).objs, req[p]) \ P} = {}
    BY <1>3, <1>5
  <2>5. Listed(req[p], P, list[p], Here(p))
    BY <1>3, <1>4, <1>5, <1>7, <2>4 DEF Listed
  <2>6. Found(p)'
    BY <1>1, <1>2, <2>1, <2>3, <2>5 DEF Found, Progress
  <2> QED
    BY <1>0, <1>1, <1>2, <1>3, <2>1, <2>2, <2>6, GoesOn
<1> QED
  BY <1>6, <1>7

(* ipfsObject delivers to ObjectInfo ... *)
LEMMA ServeObjectInfo ==
  ASSUME LockedLookups, BaseInv, NEW p \in Procs, ServeInv(p), pc[p] = "getobject",
         req[p].op = "ObjectInfo", Finish(p, Ok(obj[p])),
         UNCHANGED <<ds, req, obj, list, stage>>
  PROVE  ServeInv(p)' /\ Simulates(p)
<1>1. pc[p] \in Serving /\ pc[p] \in Body
  BY DEF Serving, Body, PCs
<1>2. pc'[p] = "return" /\ res' = [res EXCEPT ![p] = Ok(obj[p])]
  BY DEF Finish, Goto, BaseInv, TypeOK
<1>3. Sought(req[p], stage[p], obj[p], names[p], Here(p), There(p))
  BY <1>1 DEF ServeInv, Found, Progress
<1>4. Here(p) # Nil /\ Here(p).objs[req[p].o] # Nil /\ obj[p] = Here(p).objs[req[p].o]
  BY <1>3 DEF Sought
<1>5. Here(p) = ds[req[p].b]
  BY DEF Here
<1>6. AL!AnswerTo(ds, req[p]) = Ok(obj[p]) /\ AL!StoreAfter(ds, req[p]) = ds
  <2>1. /\ ds[req[p].b] # Nil /\ ds[req[p].b].objs[req[p].o] # Nil
        /\ obj[p] = ds[req[p].b].objs[req[p].o]
    BY <1>4, <1>5
  <2>2. /\ AL!AnswerTo(ds, req[p]) = IF ds[req[p].b].objs[req[p].o] = Nil
                                     THEN ObjectDoesNotExist
                                     ELSE Ok(ds[req[p].b].objs[req[p].o])
        /\ AL!StoreAfter(ds, req[p]) = ds
    BY <2>1, AnswerLook
  <2> QED
    BY <2>1, <2>2
<1>7. Ok(obj[p]) # Nil
  <2>1. obj[p] \in Object \cup {Nil}
    BY DEF BaseInv, TypeOK
  <2> QED
    BY <2>1, AnswersAreNotNil DEF Values
<1>8. stage'[p] # "item" => list'[p] = {}
  BY DEF ServeInv
<1> QED
  BY <1>1, <1>2, <1>6, <1>7, <1>8, Answered

(* ... to CopyObject ... *)
LEMMA ServeCopyRead ==
  ASSUME LockedLookups, BaseInv, NEW p \in Procs, ServeInv(p), pc[p] = "getobject",
         req[p].op = "CopyObject",
         obj' = [obj EXCEPT ![p] =
                   [bucket |-> req[p].b, name |-> req[p].o, data |-> @.data]],
         stage' = [stage EXCEPT ![p] = "main"], Goto(p, "saveobject"),
         UNCHANGED <<ds, req, res, names, list>>
  PROVE  ServeInv(p)' /\ Simulates(p)
<1>1. pc[p] \in Serving /\ pc[p] \in Body
  BY DEF Serving, Body, PCs
<1>2. /\ pc'[p] = "saveobject" /\ stage'[p] = "main"
      /\ obj'[p] = [bucket |-> req[p].b, name |-> req[p].o, data |-> obj[p].data]
  BY DEF Goto, BaseInv, TypeOK
<1>3. /\ Sought(req[p], stage[p], obj[p], names[p], Here(p), There(p))
      /\ req[p].op = "CopyObject" /\ stage[p] # "assert" => Here(p) # Nil
      /\ stage[p] # "item" => list[p] = {}
  BY <1>1 DEF ServeInv, Found, Progress
<1>4. /\ stage[p] = "source" /\ There(p) # Nil /\ There(p).objs[req[p].so] # Nil
      /\ obj[p] = There(p).objs[req[p].so]
  BY <1>3 DEF Sought
<1>5. Here(p)' = Here(p) /\ There(p)' = There(p)
  BY DEF Here, There
<1>6. CopyFound(req[p], obj'[p], There(p))
  BY <1>2, <1>4 DEF CopyFound
<1>7. Found(p)'
  BY <1>2, <1>3, <1>4, <1>5, <1>6 DEF Found, Progress
<1>8. pc'[p] \in Serving
  BY <1>2 DEF Serving, Body, PCs
<1> QED
  BY <1>1, <1>2, <1>3, <1>4, <1>7, <1>8, GoesOn

(* ... and to GetObjectInfos. *)
LEMMA ServeItem ==
  ASSUME PagesAreListings,
         LockedLookups, BaseInv, BaseInv', NEW p \in Procs, ServeInv(p),
         pc[p] = "getobject", req[p].op = "GetObjectInfos",
         NEW n \in Objects, IsNextName(p, n), names' = [names EXCEPT ![p] = @ \ {n}],
         list' = [list EXCEPT ![p] = @ \cup {obj[p]}],
         IF names'[p] = {} THEN Finish(p, Ok(list'[p]))
         ELSE Goto(p, "lookup") /\ UNCHANGED res,
         UNCHANGED <<ds, req, stage>>
  PROVE  ServeInv(p)' /\ Simulates(p)
<1> DEFINE N == names[p] \ {n}
           L == list[p] \cup {obj[p]}
           f == Here(p).objs
           P == Page(f, req[p])
<1>1. pc[p] \in Serving /\ pc[p] \in Body
  BY DEF Serving, Body, PCs
<1>2. names'[p] = N /\ list'[p] = L
  BY DEF BaseInv, TypeOK
<1>3. Found(p)
  BY <1>1 DEF ServeInv
<1>4. stage[p] = "item" /\ \E m \in names[p] : (\A k \in names[p] : m <= k) /\ obj[p] = f[m]
  BY <1>3 DEF Found, Progress, Sought
<1>5. Listed(req[p], names[p], list[p], Here(p))
  BY <1>3, <1>4 DEF Found, Progress
<1>6. n \in names[p] /\ obj[p] = f[n]
  <2>1. PICK m \in names[p] : (\A k \in names[p] : m <= k) /\ obj[p] = f[m]
    BY <1>4
  <2>2. n \in names[p] /\ n <= m /\ m <= n
    BY <2>1 DEF IsNextName
  <2>3. n \in Int /\ m \in Int
    BY <2>2, NamesAreOrdered DEF BaseInv, TypeOK
  <2>4. m = n
    BY <2>2, <2>3, SMTT(20)
  <2> QED
    BY <2>1, <2>2, <2>4
<1>7. L = {f[k] : k \in P \ N} /\ N \subseteq P
  <2>1. names[p] \subseteq P /\ list[p] = {f[k] : k \in P \ names[p]}
    BY <1>5 DEF Listed
  <2> HIDE DEF f, P
  <2> QED
    BY <1>6, <2>1, ReadOne
<1>8. Here(p) = ds[req[p].b] /\ Here(p) # Nil
  BY <1>5 DEF Here, Listed
<1>9. CASE N = {}
  <2>1. pc'[p] = "return" /\ res' = [res EXCEPT ![p] = Ok(L)]
    BY <1>2, <1>9 DEF Finish, Goto, BaseInv, TypeOK
  <2>2. req[p] \in Request
    BY <1>1, ServerTouches
  <2>3. /\ AL!AnswerTo(ds, req[p]) = Ok({f[k] : k \in P})
        /\ AL!StoreAfter(ds, req[p]) = ds
    <3>1. ds[req[p].b] # Nil
      BY <1>8
    <3>2. /\ AL!AnswerTo(ds, req[p]) =
               Ok({ds[req[p].b].objs[k] : k \in Page(ds[req[p].b].objs, req[p])})
          /\ AL!StoreAfter(ds, req[p]) = ds
      BY <2>2, <3>1, ListingAnswer
    <3> QED
      BY <1>8, <3>2
  <2>4. L = {f[k] : k \in P}
    <3> HIDE DEF f, P, L
    <3> QED
      BY <1>7, <1>9
  <2>5. Ok(L) # Nil
    <3>1. L \in SUBSET Object
      BY <1>2 DEF BaseInv, TypeOK
    <3> QED
      BY <3>1, AnswersAreNotNil DEF Values
  <2> HIDE DEF L, f, P
  <2>6. AL!AnswerTo(ds, req[p]) = Ok(L)
    BY <2>3, <2>4
  <2> QED
    BY <1>1, <1>4, <2>1, <2>3, <2>5, <2>6, Answered
<1>10. CASE N # {}
  <2>1. pc'[p] = "lookup" /\ UNCHANGED res
    BY <1>2, <1>10 DEF Goto, BaseInv, TypeOK
  <2>2. pc'[p] \in Serving
    BY <2>1 DEF Serving, Body, PCs
  <2>3. Here(p)' = Here(p)
    BY DEF Here
  <2>4. Listed(req[p], N, L, Here(p))
    BY <1>7, <1>8, <1>10 DEF Listed
  <2> HIDE DEF N, L
  <2>5. Found(p)'
    BY <1>2, <1>4, <2>1, <2>3, <2>4 DEF Found, Progress
  <2> QED
    BY <1>1, <1>4, <2>1, <2>2, <2>5, GoesOn
<1> QED
  BY <1>9, <1>10

LEMMA ServeGetObject ==
  ASSUME PagesAreListings,
         LockedLookups, BaseInv, BaseInv', NEW p \in Procs, ServeInv(p), GetObject(p)
  PROVE  ServeInv(p)' /\ Simulates(p)
<1>1. pc[p] = "getobject" /\ UNCHANGED <<ds, req>>
  BY DEF GetObject, shared
<1>2. CASE req[p].op = "ObjectInfo"
  <2>1. Finish(p, Ok(obj[p])) /\ UNCHANGED <<obj, list, stage>>
    BY <1>2 DEF GetObject
  <2> QED
    BY <1>1, <1>2, <2>1, ServeObjectInfo
<1>3. CASE req[p].op = "CopyObject"
  <2>1. /\ obj' = [obj EXCEPT ![p] =
                     [bucket |-> req[p].b, name |-> req[p].o, data |-> @.data]]
        /\ stage' = [stage EXCEPT ![p] = "main"] /\ Goto(p, "saveobject")
        /\ UNCHANGED <<res, names, list>>
    BY <1>3 DEF GetObject
  <2> QED
    BY <1>1, <1>3, <2>1, ServeCopyRead
<1>4. CASE req[p].op = "GetObjectInfos"
  <2>1. /\ \E n \in Objects : IsNextName(p, n) /\ names' = [names EXCEPT ![p] = @ \ {n}]
        /\ list' = [list EXCEPT ![p] = @ \cup {obj[p]}] /\ UNCHANGED stage
        /\ IF names'[p] = {} THEN Finish(p, Ok(list'[p]))
           ELSE Goto(p, "lookup") /\ UNCHANGED res
    BY <1>4 DEF GetObject
  <2> QED
    BY <1>1, <1>4, <2>1, ServeItem
<1> QED
  BY <1>2, <1>3, <1>4 DEF GetObject

-----------------------------------------------------------------------------
(* Writes                                                                   *)

LEMMA MarshalObjs ==
  ASSUME NEW h \in BucketBlock, NEW k, k.name = h.name, k.info = h.info, NEW f, k.objs = f
  PROVE  Marshal(k) = [h EXCEPT !.objs = f]
BY SMTT(20) DEF Marshal, BucketBlock

(* The bucket at which p writes. *)
LEMMA AtWrite ==
  ASSUME LockedLookups, Held, CoherentInv, NEW p \in Procs, ServeInv(p), pc[p] = "use",
         stage[p] # "source"
  PROVE  /\ BaseInv /\ pc[p] \in Serving /\ req[p] \in Request /\ req[p].b \in Buckets
         /\ Here(p) = ds[req[p].b] /\ ds[req[p].b] \in BucketBlock /\ ds[req[p].b] # Nil
         /\ ds[req[p].b].name = Bkt(p).name /\ ds[req[p].b].info = Bkt(p).info
         /\ ds[req[p].b].objs = Bkt(p).objs
         /\ Found(p) /\ (stage[p] # "item" => list[p] = {})
<1>1. Cur(p) = req[p].b
  BY DEF Cur
<1> QED
  <2>1. /\ pc[p] \in Serving /\ Found(p) /\ req[p] \in Request
        /\ Here(p) = ds[req[p].b] /\ (stage[p] # "item" => list[p] = {})
    BY AtUse
  <2>2. /\ req[p].b \in Buckets /\ ds[req[p].b] \in BucketBlock /\ ds[req[p].b] # Nil
        /\ ds[req[p].b].name = Bkt(p).name /\ ds[req[p].b].info = Bkt(p).info
        /\ ds[req[p].b].objs = Bkt(p).objs
    BY <1>1, UseIsStored
  <2> QED
    BY <2>1, <2>2 DEF Held

LEMMA ServePutObjectHash ==
  ASSUME LockedLookups, Held, CoherentInv, NEW p \in Procs, ServeInv(p), PutObjectHash(p)
  PROVE  ServeInv(p)' /\ Simulates(p)
<1>1. /\ pc[p] = "use" /\ UNCHANGED <<ds, req, res, ent, obj, names, list, stage>>
      /\ req[p].op = "PutObject" \/ (req[p].op = "CopyObject" /\ stage[p] = "main")
  BY DEF PutObjectHash, locals
<1>2. stage[p] # "source" /\ stage[p] # "item"
  BY <1>1 DEF Held, BaseInv, BusyInv
<1>3. /\ BaseInv /\ pc[p] \in Serving /\ Found(p) /\ list[p] = {}
      /\ Here(p) = ds[req[p].b] /\ Here(p) \in BucketBlock /\ Here(p) # Nil
      /\ Here(p).name = Bkt(p).name /\ Here(p).info = Bkt(p).info
      /\ Here(p).objs = Bkt(p).objs
  BY <1>1, <1>2, AtWrite
<1>4. pc'[p] = "savebucket"
  BY <1>3 DEF PutObjectHash, Goto, BaseInv, TypeOK
<1>5. pc'[p] \in Serving
  BY <1>4 DEF Serving, Body, PCs
<1>6. Here(p)' = Here(p) /\ There(p)' = There(p)
  BY <1>1 DEF Here, There
<1>7. Kept(p)' = [Here(p) EXCEPT !.objs[req[p].o] = obj[p]]
  <2> DEFINE k == heap'[ent[p]].bkt
             f == [Here(p).objs EXCEPT ![req[p].o] = obj[p]]
  <2>1. k.name = Here(p).name /\ k.info = Here(p).info /\ k.objs = f
    <3>1. /\ k.name = Bkt(p).name /\ k.info = Bkt(p).info
          /\ k.objs = [Bkt(p).objs EXCEPT ![req[p].o] = obj[p]]
      BY <1>3, PutEffect
    <3> QED
      BY <1>3, <3>1
  <2>2. Kept(p)' = Marshal(Saved(p))'
    BY <1>4 DEF Kept
  <2>3. Saved(p)' = k
    BY <1>1 DEF Saved, Bkt
  <2>4. Marshal(Saved(p))' = Marshal(k)
    BY <2>3 DEF Marshal
  <2>5. [Here(p) EXCEPT !.objs[req[p].o] = obj[p]] = [Here(p) EXCEPT !.objs = f]
    OBVIOUS
  <2> HIDE DEF k, f
  <2>6. Marshal(k) = [Here(p) EXCEPT !.objs = f]
    BY <1>3, <2>1, MarshalObjs
  <2> QED
    BY <2>2, <2>4, <2>5, <2>6
<1>8. Prepared(req[p], obj[p], names[p], Here(p), Kept(p)')
  BY <1>1, <1>3, <1>7 DEF Prepared
<1>9. Found(p)'
  <2>1. req[p].op = "CopyObject" /\ stage[p] = "main" =>
          CopyFound(req[p], obj[p], There(p))
    BY <1>3 DEF Found, Progress
  <2> QED
    BY <1>1, <1>2, <1>3, <1>4, <1>6, <1>8, <2>1 DEF Found, Progress
<1> QED
  BY <1>1, <1>3, <1>4, <1>5, <1>9, GoesOn

LEMMA RemoveAnswerNotNil ==
  ASSUME NEW r, NEW m \in SUBSET Objects
  PROVE  RemoveAnswer(r, m) # Nil
<1>1. m \in Values
  BY DEF Values
<1>2. Nil \in Values
  BY DEF Values
<1> QED
  BY <1>1, <1>2, AnswersAreNotNil DEF RemoveAnswer

(* Removing from a bucket without objects changes nothing. *)
LEMMA RemoveNothing ==
  ASSUME NEW s \in [Buckets -> BucketBlock \cup {Nil}], NEW b \in Buckets,
         s[b] \in BucketBlock, \A o \in Objects : s[b].objs[o] = Nil, NEW ns
  PROVE  [s EXCEPT ![b] = [s[b] EXCEPT !.objs = Removed(s[b].objs, ns)]] = s
<1>1. s[b].objs \in [Objects -> Object \cup {Nil}]
  BY BlockObjs
<1>2. Removed(s[b].objs, ns) = s[b].objs
  BY <1>1 DEF Removed
<1>3. [s[b] EXCEPT !.objs = s[b].objs] = s[b]
  BY SMTT(20) DEF BucketBlock
<1> QED
  BY <1>2, <1>3

LEMMA ServeRemoveObjects ==
  ASSUME LockedLookups, Held, CoherentInv, MadeInv, NEW p \in Procs, ServeInv(p),
         RemoveObjects(p)
  PROVE  ServeInv(p)' /\ Simulates(p)
<1>1. /\ pc[p] = "use" /\ UNCHANGED <<ds, req, ent, obj, list, stage>>
      /\ req[p].op \in {"RemoveObject", "RemoveObjects"}
  BY DEF RemoveObjects
<1>2. stage[p] # "source" /\ stage[p] # "item"
  BY <1>1 DEF Held, BaseInv, BusyInv
<1>3. /\ BaseInv /\ pc[p] \in Serving /\ Found(p) /\ list[p] = {}
      /\ req[p] \in Request /\ req[p].b \in Buckets
      /\ Here(p) = ds[req[p].b] /\ Here(p) \in BucketBlock /\ Here(p) # Nil
      /\ Here(p).name = Bkt(p).name /\ Here(p).info = Bkt(p).info
      /\ Here(p).objs = Bkt(p).objs
  BY <1>1, <1>2, AtWrite
<1>4. req[p].names \subseteq Objects
  BY <1>1, <1>3, ReadFields
<1>5. CASE ~Bkt(p).made
  <2>1. /\ pc'[p] = "return"
        /\ res' = [res EXCEPT ![p] = RemoveAnswer(req[p], req[p].names)]
    BY <1>3, <1>5 DEF RemoveObjects, Finish, Goto, BaseInv, TypeOK
  <2>2. \A o \in Objects : ds[req[p].b].objs[o] = Nil
    <3>1. /\ ent[p] \in Entries /\ heap[ent[p]] # Nil /\ Bkt(p) \in Bucket
      BY <1>1, <1>3, UseIsStored, EntryInUse, Distinct
    <3>2. MadeOK(Bkt(p)) /\ Bkt(p) # Nil
      BY <3>1, Distinct DEF MadeInv, Bkt
    <3> QED
      BY <1>3, <1>5, <3>2 DEF MadeOK
  <2>3. {o \in req[p].names : ds[req[p].b].objs[o] = Nil} = req[p].names
    BY <1>4, <2>2
  <2>4. /\ AL!AnswerTo(ds, req[p]) =
             RemoveAnswer(req[p], {o \in req[p].names : ds[req[p].b].objs[o] = Nil})
        /\ AL!StoreAfter(ds, req[p]) =
             [ds EXCEPT ![req[p].b] =
                [ds[req[p].b] EXCEPT !.objs = Removed(ds[req[p].b].objs, req[p].names)]]
    <3>1. ds[req[p].b] # Nil
      BY <1>3
    <3> QED
      BY <1>1, <3>1, AnswerRemove
  <2>5. AL!AnswerTo(ds, req[p]) = RemoveAnswer(req[p], req[p].names)
    BY <2>3, <2>4
  <2>6. AL!StoreAfter(ds, req[p]) = ds
    <3>1. ds \in [Buckets -> BucketBlock \cup {Nil}] /\ ds[req[p].b] \in BucketBlock
      BY <1>3 DEF BaseInv, TypeOK
    <3> DEFINE b == req[p].b
    <3> HIDE DEF b
    <3>2. [ds EXCEPT ![b] = [ds[b] EXCEPT !.objs = Removed(ds[b].objs, req[p].names)]] = ds
      <4>1. b \in Buckets /\ ds[b] \in BucketBlock /\ \A o \in Objects : ds[b].objs[o] = Nil
        BY <1>3, <2>2, <3>1 DEF b
      <4> QED
        BY <3>1, <4>1, RemoveNothing
    <3> QED
      BY <2>4, <3>2 DEF b
  <2>7. RemoveAnswer(req[p], req[p].names) # Nil
    BY <1>4, RemoveAnswerNotNil
  <2> QED
    BY <1>1, <1>3, <2>1, <2>5, <2>6, <2>7, Answered
<1>6. CASE Bkt(p).made
  <2>1. pc'[p] = "savebucket" /\ UNCHANGED res
    BY <1>3, <1>6 DEF RemoveObjects, Goto, BaseInv, TypeOK
  <2>2. names'[p] = {o \in req[p].names : Bkt(p).objs[o] = Nil}
    BY <1>3, <1>6 DEF RemoveObjects, BaseInv, TypeOK
  <2>3. pc'[p] \in Serving
    BY <2>1 DEF Serving, Body, PCs
  <2>4. Here(p)' = Here(p) /\ There(p)' = There(p)
    BY <1>1 DEF Here, There
  <2>5. Kept(p)' = [Here(p) EXCEPT !.objs = Removed(Here(p).objs, req[p].names)]
    <3> DEFINE k == heap'[ent[p]].bkt
               f == Removed(Here(p).objs, req[p].names)
    <3>1. k.name = Here(p).name /\ k.info = Here(p).info /\ k.objs = f
      <4>1. /\ k.name = Bkt(p).name /\ k.info = Bkt(p).info
            /\ k.objs = [o \in Objects |->
                           IF o \in req[p].names THEN Nil ELSE Bkt(p).objs[o]]
        BY <1>3, <1>6, RemoveEffect
      <4> QED
        BY <1>3, <4>1 DEF Removed
    <3>2. Kept(p)' = Marshal(Saved(p))'
      BY <2>1 DEF Kept
    <3>3. Saved(p)' = k
      BY <1>1 DEF Saved, Bkt
    <3>4. Marshal(Saved(p))' = Marshal(k)
      BY <3>3 DEF Marshal
    <3> HIDE DEF k, f
    <3>5. Marshal(k) = [Here(p) EXCEPT !.objs = f]
      BY ZenonT(60), <1>3, <3>1, MarshalObjs
    <3> QED
      BY <3>2, <3>4, <3>5 DEF f
  <2>6. names'[p] = {n \in req[p].names : Here(p).objs[n] = Nil}
    BY <1>3, <2>2
  <2>7. Prepared(req[p], obj[p], names'[p], Here(p), Kept(p)')
    BY <1>1, <1>3, <2>5, <2>6 DEF Prepared
  <2>8. Found(p)'
    BY <1>1, <1>2, <2>1, <2>4, <2>7 DEF Found, Progress
  <2> QED
    BY <1>1, <1>3, <2>1, <2>3, <2>8, GoesOn
<1> QED
  BY <1>5, <1>6

(* saveBucket's name check succeeds. *)
LEMMA ServeSaveBucket ==
  ASSUME Held, NEW p \in Procs, ServeInv(p), SaveBucket(p)
  PROVE  ServeInv(p)' /\ Simulates(p)
<1>1. /\ pc[p] = "savebucket" /\ UNCHANGED <<ds, heap, ent, obj, names, list, req, stage>>
  BY DEF SaveBucket
<1>2. BaseInv /\ pc[p] \in Saving /\ pc[p] \in Serving
  BY <1>1 DEF Held, Saving, Serving, Body, PCs
<1>3. Saved(p).name = req[p].b
  BY <1>2, SavedGood DEF Held, Good
<1>4. pc'[p] = "dsput" /\ UNCHANGED res
  BY <1>2, <1>3 DEF SaveBucket, Goto, BaseInv, TypeOK
<1>5. pc'[p] \in Serving
  BY <1>4 DEF Serving, Body, PCs
<1>6. Here(p)' = Here(p) /\ There(p)' = There(p) /\ Kept(p)' = Kept(p)
  <2>1. Saved(p)' = Saved(p)
    BY <1>1 DEF Saved, Bkt
  <2>2. Marshal(Saved(p))' = Marshal(Saved(p))
    BY <2>1 DEF Marshal
  <2> QED
    BY <1>1, <1>4, <2>2 DEF Here, There, Kept
<1>7. Found(p)
  BY <1>2 DEF ServeInv
<1>8. Found(p)'
  BY <1>1, <1>4, <1>6, <1>7 DEF Found, Progress
<1> QED
  BY <1>1, <1>2, <1>4, <1>5, <1>8, GoesOn DEF ServeInv

(* What the request makes of the bucket, and the answer. *)
LEMMA CommitAnswer ==
  ASSUME BaseInv, NEW p \in Procs, ServeInv(p), pc[p] = "dsput", stage[p] = "main",
         bhash[p] = Kept(p)
  PROVE  /\ WriteAnswer(p) = AL!AnswerTo(ds, req[p])
         /\ [ds EXCEPT ![req[p].b] = bhash[p]] = AL!StoreAfter(ds, req[p])
         /\ WriteAnswer(p) # Nil
<1>1. pc[p] \in Serving /\ pc[p] \in Saving
  BY DEF Serving, Body, PCs, Saving
<1>2. req[p].op \in {"CreateBucket", "PutObject", "CopyObject", "RemoveObject", "RemoveObjects"}
  BY <1>1 DEF BaseInv, BusyInv, Saving
<1>3. /\ Prepared(req[p], obj[p], names[p], Here(p), bhash[p])
      /\ req[p].op = "CopyObject" => CopyFound(req[p], obj[p], There(p))
  BY <1>1 DEF ServeInv, Found, Progress
<1>4. Here(p) = ds[req[p].b]
  BY <1>2 DEF Here
<1>5. CASE req[p].op = "CreateBucket"
  <2> DEFINE block == [name |-> req[p].b, info |-> req[p].info, objs |-> NoObjects]
  <2>1. ds[req[p].b] = Nil /\ bhash[p] = block
    BY <1>3, <1>4, <1>5 DEF Prepared
  <2>2. /\ AL!AnswerTo(ds, req[p]) = Ok(block)
        /\ AL!StoreAfter(ds, req[p]) = [ds EXCEPT ![req[p].b] = block]
    BY <1>5, <2>1, AnswerCreate
  <2>3. WriteAnswer(p) = Ok(bhash[p])
    BY <1>5, SMTT(20) DEF WriteAnswer
  <2>4. bhash[p] \in Values
    <3>1. bhash[p] # Nil /\ bhash[p] \in BucketBlock \cup {Nil}
      BY DEF BaseInv, BusyInv, TypeOK
    <3> QED
      BY <3>1 DEF Values
  <2> HIDE DEF block
  <2> QED
    BY <2>1, <2>2, <2>3, <2>4, AnswersAreNotNil
<1>6. CASE req[p].op = "PutObject"
  <2> DEFINE x == [bucket |-> req[p].b, name |-> req[p].o, data |-> req[p].data]
  <2>1. ds[req[p].b] # Nil /\ bhash[p] = [ds[req[p].b] EXCEPT !.objs[req[p].o] = obj[p]]
    BY <1>3, <1>4, <1>6 DEF Prepared
  <2>2. obj[p] = x
    BY <1>6 DEF ServeInv
  <2>3. /\ AL!AnswerTo(ds, req[p]) = Ok(Nil)
        /\ AL!StoreAfter(ds, req[p]) = [ds EXCEPT ![req[p].b].objs[req[p].o] = x]
    BY <1>6, <2>1, AnswerPut
  <2>4. WriteAnswer(p) = Ok(Nil)
    BY <1>6, SMTT(20) DEF WriteAnswer
  <2>5. Ok(Nil) # Nil
    BY AnswersAreNotNil DEF Values
  <2> HIDE DEF x
  <2> QED
    BY <2>1, <2>2, <2>3, <2>4, <2>5
<1>7. CASE req[p].op = "CopyObject"
  <2> DEFINE x == [bucket |-> req[p].b, name |-> req[p].o,
                   data |-> ds[req[p].src].objs[req[p].so].data]
  <2>1. ds[req[p].b] # Nil /\ bhash[p] = [ds[req[p].b] EXCEPT !.objs[req[p].o] = obj[p]]
    BY <1>3, <1>4, <1>7 DEF Prepared
  <2>2. There(p) = ds[req[p].src]
    BY <1>7 DEF There
  <2>3. ds[req[p].src] # Nil /\ ds[req[p].src].objs[req[p].so] # Nil /\ obj[p] = x
    BY <1>3, <1>7, <2>2 DEF CopyFound
  <2>4. /\ AL!AnswerTo(ds, req[p]) = Ok(x)
        /\ AL!StoreAfter(ds, req[p]) = [ds EXCEPT ![req[p].b].objs[req[p].o] = x]
    BY <1>7, <2>1, <2>3, AnswerCopy
  <2>5. WriteAnswer(p) = Ok(obj[p])
    BY <1>7, SMTT(20) DEF WriteAnswer
  <2>6. Ok(obj[p]) # Nil
    BY AnswersAreNotNil DEF Values, BaseInv, TypeOK
  <2> HIDE DEF x
  <2> QED
    BY <2>1, <2>3, <2>4, <2>5, <2>6
<1>8. CASE req[p].op \in {"RemoveObject", "RemoveObjects"}
  <2>1. /\ ds[req[p].b] # Nil
        /\ bhash[p] = [ds[req[p].b] EXCEPT !.objs = Removed(ds[req[p].b].objs, req[p].names)]
        /\ names[p] = {n \in req[p].names : ds[req[p].b].objs[n] = Nil}
    BY <1>3, <1>4, <1>8 DEF Prepared
  <2>2. /\ AL!AnswerTo(ds, req[p]) =
             RemoveAnswer(req[p], {n \in req[p].names : ds[req[p].b].objs[n] = Nil})
        /\ AL!StoreAfter(ds, req[p]) =
             [ds EXCEPT ![req[p].b] =
                [ds[req[p].b] EXCEPT !.objs = Removed(ds[req[p].b].objs, req[p].names)]]
    BY <1>8, <2>1, AnswerRemove
  <2>3. WriteAnswer(p) = RemoveAnswer(req[p], names[p])
    BY <1>8, SMTT(20) DEF WriteAnswer
  <2>4. RemoveAnswer(req[p], names[p]) # Nil
    BY RemoveAnswerNotNil DEF BaseInv, TypeOK
  <2> QED
    BY <2>1, <2>2, <2>3, <2>4
<1> QED
  BY <1>2, <1>5, <1>6, <1>7, <1>8

LEMMA ServeDsPut ==
  ASSUME Held, CoherentInv, NEW p \in Procs, ServeInv(p), DsPut(p)
  PROVE  ServeInv(p)' /\ Simulates(p)
<1>1. /\ pc[p] = "dsput" /\ UNCHANGED <<obj, list, req, stage>>
      /\ ds' = [ds EXCEPT ![req[p].b] = bhash[p]]
      /\ res' = [res EXCEPT ![p] = WriteAnswer(p)]
  BY DEF DsPut, locals
<1>2. BaseInv /\ pc[p] \in Serving /\ pc[p] \in Saving /\ pc'[p] = "install"
  BY <1>1 DEF Held, BaseInv, TypeOK, DsPut, Goto, Serving, Body, PCs, Saving
<1>3. stage[p] = "main" /\ bhash[p] = Kept(p)
  BY <1>1, <1>2 DEF Held, NameInv, NameLocal, CoherentInv, View, Kept
<1>4. /\ WriteAnswer(p) = AL!AnswerTo(ds, req[p])
      /\ ds' = AL!StoreAfter(ds, req[p])
      /\ WriteAnswer(p) # Nil
  BY <1>1, <1>2, <1>3, CommitAnswer
<1>5. list'[p] = {}
  BY <1>1, <1>3 DEF ServeInv
<1> QED
  BY <1>1, <1>2, <1>4, <1>5, Answered

(* Once the answer is settled, saveBucket's last step shows nothing new. *)
LEMMA ServeInstall ==
  ASSUME BaseInv, NEW p \in Procs, ServeInv(p), Install(p)
  PROVE  ServeInv(p)' /\ Simulates(p)
<1>1. /\ pc[p] = "install" /\ UNCHANGED <<ds, req, res, stage, obj, list>>
  BY DEF Install
<1>2. pc'[p] = "return"
  BY DEF Install, Goto, BaseInv, TypeOK
<1> QED
  BY <1>1, <1>2 DEF ServeInv, Serving, Body, Simulates

LEMMA ServeUncache ==
  ASSUME BaseInv, NEW p \in Procs, ServeInv(p), Uncache(p)
  PROVE  ServeInv(p)' /\ Simulates(p)
<1>1. /\ pc[p] = "uncache" /\ UNCHANGED <<ds, req, res, stage, obj, names, list>>
  BY DEF Uncache
<1>2. pc'[p] = "dsdelete"
  BY DEF Uncache, Goto, BaseInv, TypeOK
<1>3. pc[p] \in Serving /\ pc'[p] \in Serving
  BY <1>1, <1>2 DEF Serving, Body, PCs
<1>4. Here(p)' = Here(p) /\ There(p)' = There(p)
  BY <1>1 DEF Here, There
<1>5. Found(p)
  BY <1>3 DEF ServeInv
<1>6. Found(p)'
  BY <1>1, <1>2, <1>4, <1>5 DEF Found, Progress
<1> QED
  BY <1>1, <1>2, <1>3, <1>6, GoesOn DEF ServeInv

LEMMA ServeDsDelete ==
  ASSUME BaseInv, NEW p \in Procs, ServeInv(p), DsDelete(p)
  PROVE  ServeInv(p)' /\ Simulates(p)
<1>1. /\ pc[p] = "dsdelete" /\ UNCHANGED <<obj, list, req, stage>>
      /\ ds' = [ds EXCEPT ![req[p].b] = Nil]
      /\ res' = [res EXCEPT ![p] = Ok(Nil)]
  BY DEF DsDelete, Finish, locals
<1>2. pc'[p] = "return" /\ pc[p] \in Serving
  BY <1>1 DEF DsDelete, Finish, Goto, BaseInv, TypeOK, Serving, Body, PCs
<1>3. req[p].op = "DeleteBucket"
  BY <1>1 DEF BaseInv, BusyInv
<1>4. ds[req[p].b] # Nil
  BY <1>1, <1>2, <1>3 DEF ServeInv, Found, Progress, Here
<1>5. /\ AL!AnswerTo(ds, req[p]) = Ok(Nil)
      /\ AL!StoreAfter(ds, req[p]) = [ds EXCEPT ![req[p].b] = Nil]
  BY <1>3, <1>4, AnswerDelete
<1>6. Ok(Nil) # Nil
  BY AnswersAreNotNil DEF Values
<1>7. stage'[p] # "item" => list'[p] = {}
  BY <1>1 DEF ServeInv
<1> QED
  BY <1>1, <1>2, <1>5, <1>6, <1>7, Answered

LEMMA ServeGetBucketNames ==
  ASSUME BaseInv, NEW p \in Procs, ServeInv(p), GetBucketNames(p)
  PROVE  ServeInv(p)' /\ Simulates(p)
<1> DEFINE B == {b \in Buckets : ds[b] # Nil}
<1>1. /\ pc[p] = "query" /\ UNCHANGED <<ds, obj, list, req, stage>>
      /\ res' = [res EXCEPT ![p] = Ok(B)]
  BY DEF GetBucketNames, Finish, shared, locals
<1>2. pc'[p] = "return" /\ pc[p] \in Serving
  BY <1>1 DEF GetBucketNames, Finish, Goto, BaseInv, TypeOK, Serving, Body, PCs
<1>3. req[p].op = "GetBucketNames" /\ (stage[p] # "item" => list[p] = {})
  BY <1>1 DEF ServeInv
<1>4. AL!AnswerTo(ds, req[p]) = Ok(B) /\ AL!StoreAfter(ds, req[p]) = ds
  BY <1>3, AnswerNames
<1>5. Ok(B) # Nil
  BY AnswersAreNotNil DEF Values
<1> HIDE DEF B
<1> QED
  BY <1>1, <1>2, <1>3, <1>4, <1>5, Answered

(* A failing call has no effect on the datastore. *)
LEMMA ServeBackendFails ==
  ASSUME BaseInv, NEW p \in Procs, ServeInv(p), BackendFails(p)
  PROVE  ServeInv(p)' /\ Simulates(p)
<1>1. /\ pc[p] \in Failing /\ UNCHANGED <<ds, obj, list, req, stage>>
      /\ res' = [res EXCEPT ![p] = Backend]
  BY DEF BackendFails, Finish, shared, locals
<1>2. pc'[p] = "return"
  BY DEF BackendFails, Finish, Goto, BaseInv, TypeOK
<1>3. pc[p] \in Serving
  BY <1>1, Switches DEF BackendSteps, Serving, Body, PCs
<1>4. stage'[p] # "item" => list'[p] = {}
  BY <1>1 DEF ServeInv
<1> QED
  BY <1>1, <1>2, <1>3, <1>4, Answered, AnswersAreNotNil

LEMMA ServeStep ==
  ASSUME PagesAreListings,
         LockedLookups, Held, BaseInv', CoherentInv, MadeInv, NEW p \in Procs, ServeInv(p),
         Step(p)
  PROVE  ServeInv(p)' /\ Simulates(p)
<1>0. BaseInv
  BY DEF Held
<1>1. CASE ReadLock(p) \/ AnnounceWrite(p) \/ WriteLock(p)
  BY <1>0, <1>1, ServeLock
<1>2. CASE Return(p)
  BY <1>0, <1>2, ServeReturn
<1>3. CASE Lookup(p) \/ SetNil(p) \/ Fill(p)
  BY <1>3, ServeResolve
<1>4. CASE DsGet(p) \/ Load(p) \/ Fetch(p) \/ SaveObject(p)
  BY <1>0, <1>4, ServePlain
<1>5. CASE GetBucketInfo(p)
  BY <1>5, ServeGetBucketInfo
<1>6. CASE GetObjectHash(p)
  BY <1>6, ServeGetObjectHash
<1>7. CASE FindObject(p)
  BY <1>7, ServeFindObject
<1>8. CASE GetObject(p)
  BY <1>0, <1>8, ServeGetObject
<1>9. CASE GetObjectInfos(p)
  BY <1>9, ServeGetObjectInfos
<1>10. CASE PutObjectHash(p)
  BY <1>10, ServePutObjectHash
<1>11. CASE RemoveObjects(p)
  BY <1>11, ServeRemoveObjects
<1>12. CASE SaveBucket(p) \/ DsPut(p)
  BY <1>12, ServeSaveBucket, ServeDsPut
<1>13. CASE Install(p) \/ Uncache(p)
  BY <1>0, <1>13, ServeInstall, ServeUncache
<1>14. CASE DsDelete(p)
  BY <1>0, <1>14, ServeDsDelete
<1>15. CASE GetBucketNames(p) \/ BackendFails(p)
  BY <1>0, <1>15, ServeGetBucketNames, ServeBackendFails
<1> QED
  BY <1>1, <1>2, <1>3, <1>4, <1>5, <1>6, <1>7, <1>8, <1>9, <1>10, <1>11, <1>12, <1>13,
     <1>14, <1>15 DEF Step

LEMMA ServeCall ==
  ASSUME BaseInv, AtomicInv, NEW p \in Procs, NEW r \in Request, Call(p, r)
  PROVE  AtomicInv' /\ AL!Call(p, r)
<1>1. /\ pc[p] = "idle" /\ UNCHANGED <<ds, heap, res, names, list>>
      /\ req' = [req EXCEPT ![p] = r]
  BY DEF Call, shared
<1>2. req[p] = Nil /\ res[p] = Nil /\ list[p] = {}
  BY <1>1 DEF AtomicInv, ServeInv
<1>3. AL!Call(p, r)
  BY <1>1, <1>2 DEF AL!Call
<1>4. ServeInv(p)'
  <2>1. /\ req'[p] = r /\ res'[p] = Nil /\ list'[p] = {}
        /\ stage'[p] = IF r.op = "CopyObject" THEN "assert" ELSE "main"
        /\ r.op = "PutObject" =>
             obj'[p] = [bucket |-> r.b, name |-> r.o, data |-> r.data]
    BY <1>1, <1>2 DEF Call, BaseInv, TypeOK
  <2>2. /\ pc'[p] \in {"lock", "saveobject", "query", "lookup"}
        /\ pc'[p] = "query" => r.op = "GetBucketNames"
    BY SMTT(20) DEF Call, Goto, Start, BaseInv, TypeOK
  <2>3. Found(p)'
    BY <2>1, <2>2 DEF Found, Progress
  <2> QED
    BY <2>1, <2>2, <2>3 DEF ServeInv
<1>5. ASSUME NEW q \in Procs, q # p PROVE ServeInv(q)'
  <2>1. Same(q) /\ ServeInv(q)
    BY <1>5, SameCall DEF AtomicInv
  <2>2. Here(q)' = Here(q) /\ There(q)' = There(q)
    <3>1. ds' = ds /\ req'[q] = req[q]
      BY <1>1, <2>1 DEF Same
    <3> QED
      BY <3>1 DEF Here, There
  <2>3. Saved(q)' = Saved(q)
    BY <1>1, <2>1 DEF Same, Saved, Bkt
  <2>4. Marshal(Saved(q))' = Marshal(Saved(q))
    BY <2>3 DEF Marshal
  <2>5. Kept(q)' = Kept(q)
    BY <2>1, <2>4 DEF Kept, Same
  <2>6. Found(q)' = Found(q)
    BY <2>1, <2>2, <2>5 DEF Found, Same
  <2> QED
    BY <2>1, <2>6 DEF ServeInv, Same
<1> QED
  BY <1>3, <1>4, <1>5 DEF AtomicInv

(* Every step keeps the invariant and is a step of the abstract ledger. *)
LEMMA AtomicNext ==
  ASSUME PagesAreListings,
         LockedLookups, Held, Held', CoherentInv, MadeInv, AtomicInv, [Next]_vars
  PROVE  AtomicInv' /\ [AL!Next]_(AL!vars)
<1>0. BaseInv /\ BaseInv'
  BY DEF Held
<1>1. CASE UNCHANGED vars
  <2>1. UNCHANGED <<ds, heap, ent, pc, req, res, stage, obj, names, list>>
    BY <1>1 DEF vars, shared, locals
  <2>2. ASSUME NEW p \in Procs PROVE ServeInv(p)'
    <3>1. ServeInv(p) /\ Here(p)' = Here(p) /\ There(p)' = There(p)
      BY <2>1 DEF AtomicInv, Here, There
    <3>2. Saved(p)' = Saved(p)
      BY <2>1 DEF Saved, Bkt
    <3>3. Marshal(Saved(p))' = Marshal(Saved(p))
      BY <3>2 DEF Marshal
    <3>4. Kept(p)' = Kept(p)
      BY <2>1, <3>3 DEF Kept
    <3>5. Found(p)' = Found(p)
      BY <2>1, <3>1, <3>4 DEF Found
    <3> QED
      BY <2>1, <3>1, <3>5 DEF ServeInv
  <2> QED
    BY <2>1, <2>2 DEF AtomicInv, AL!vars
<1>2. ASSUME NEW p \in Procs, NEW r \in Request, Call(p, r)
      PROVE  AtomicInv' /\ [AL!Next]_(AL!vars)
  <2>1. AtomicInv' /\ AL!Call(p, r) /\ r \in AL!Request
    BY <1>0, <1>2, ServeCall, SameRequests
  <2> QED
    BY <2>1 DEF AL!Next
<1>3. ASSUME NEW p \in Procs, Step(p) PROVE AtomicInv' /\ [AL!Next]_(AL!vars)
  <2>1. ServeInv(p)' /\ Simulates(p)
    BY <1>0, <1>3, ServeStep DEF AtomicInv
  <2>2. ASSUME NEW q \in Procs, q # p PROVE ServeInv(q)'
    BY <1>0, <1>3, <2>2, ServeOther DEF AtomicInv
  <2>3. [AL!Next]_(AL!vars)
    BY <2>1 DEF Simulates, AL!Next, AL!vars
  <2> QED
    BY <2>1, <2>2, <2>3 DEF AtomicInv
<1>4. CASE Crash
  <2>1. \A p \in Procs : pc'[p] = "idle" /\ req'[p] = Nil /\ res'[p] = Nil /\ list'[p] = {}
    BY <1>4 DEF Crash
  <2>2. AtomicInv'
    BY <2>1 DEF AtomicInv, ServeInv, Serving, Body
  <2>3. AL!Crash
    BY <1>4 DEF Crash, AL!Crash
  <2> QED
    BY <2>2, <2>3 DEF AL!Next
<1> QED
  BY <1>1, <1>2, <1>3, <1>4 DEF Next
=============================================================================
