---------------------------- MODULE LedgerTypes ----------------------------
(***************************************************************************)
(* The data of the s3x ledger (s3.proto and the *_types in s3.pb.go) and   *)
(* the requests its public functions accept.                               *)
(*                                                                         *)
(* IPFS is content addressed, so a hash is modelled by the value it is the *)
(* hash of: two blocks have the same hash exactly when they are equal, and *)
(* a hash in hand says nothing about whether the block was ever stored.    *)
(***************************************************************************)
EXTENDS Integers, FiniteSets

CONSTANTS
  Buckets,    \* bucket names; integers, ordered as strings.Compare orders names
  Objects,    \* object names; integers, ordered as sort.Strings orders names
  Infos,      \* what BucketInfo holds besides the name (location, creation time)
  Datas,      \* what Object holds besides bucket and name (data hash, size, ...)
  Prefixes,   \* a prefix is modelled by the set of object names that have it
  Maxes,      \* the page limits a listing may ask for (0: no limit)
  Ops,        \* the ledger functions that clients call
  Nil         \* Go's nil, a missing key, no request, no result

ASSUME NamesAreOrdered == Buckets \subseteq Int /\ Objects \subseteq Int

ASSUME ListParameters == Prefixes \subseteq SUBSET Objects /\ Maxes \subseteq Nat

ASSUME FinitelyManyObjects == IsFiniteSet(Objects)

(***************************************************************************)
(* An Object message, and hence its hash.                                  *)
(***************************************************************************)
Object == [bucket : Buckets, name : Objects, data : Datas]

(***************************************************************************)
(* A marshalled Bucket message, and hence its hash: the BucketInfo and the *)
(* map from object names to object hashes (Nil where the key is missing).  *)
(***************************************************************************)
BucketBlock ==
  [name : Buckets, info : Infos, objs : [Objects -> Object \cup {Nil}]]

NoObjects == [o \in Objects |-> Nil]

(***************************************************************************)
(* A Bucket message in memory.  Its Objects field is a Go map that may be  *)
(* nil: made says that the map was allocated.                              *)
(***************************************************************************)
Bucket ==
  [name : Buckets, info : Infos, objs : [Objects -> Object \cup {Nil}],
   made : BOOLEAN]

(***************************************************************************)
(* Bucket.Marshal writes one field per key, so an empty map and a nil map  *)
(* give the same bytes; Bucket.Unmarshal allocates the map when it meets   *)
(* the first key.                                                          *)
(***************************************************************************)
Marshal(b) == [name |-> b.name, info |-> b.info, objs |-> b.objs]

Unmarshal(h) ==
  [name |-> h.name, info |-> h.info, objs |-> h.objs,
   made |-> \E o \in Objects : h.objs[o] # Nil]

(***************************************************************************)
(* A LedgerBucketEntry: the hash, and the lazily loaded Bucket.            *)
(***************************************************************************)
Entry == [hash : BucketBlock, bkt : Bucket \cup {Nil}]

(***************************************************************************)
(* Requests, one set per shape.  b is the bucket (the destination of a     *)
(* copy), o the object, names the objects of a bulk removal.               *)
(***************************************************************************)
CreateRequest == [op : {"CreateBucket"}, b : Buckets, info : Infos]

BucketRequest ==
  [op : {"DeleteBucket", "GetBucketInfo", "GetBucketHash",
         "AssertBucketExits", "NewMultipartUpload"}, b : Buckets]

PutRequest == [op : {"PutObject"}, b : Buckets, o : Objects, data : Datas]

RemoveRequest ==
  [op : {"RemoveObject"}, b : Buckets, names : {{o} : o \in Objects}]
    \cup [op : {"RemoveObjects"}, b : Buckets, names : SUBSET Objects]

ReadRequest == [op : {"ObjectInfo", "GetObjectHash"}, b : Buckets, o : Objects]

ListRequest ==
  [op : {"GetObjectInfos"}, b : Buckets, prefix : Prefixes, from : Objects,
   max : Maxes]

CopyRequest ==
  [op : {"CopyObject"}, b : Buckets, o : Objects, src : Buckets, so : Objects]

NamesRequest == [op : {"GetBucketNames"}]

Request ==
  {r \in CreateRequest \cup BucketRequest \cup PutRequest \cup RemoveRequest
           \cup ReadRequest \cup ListRequest \cup CopyRequest
           \cup NamesRequest : r.op \in Ops}

(* What an answer may carry: what a getter, a listing or a removal returns. *)
Values == {Nil} \cup Infos \cup Object \cup BucketBlock
            \cup (SUBSET Object) \cup (SUBSET Objects) \cup (SUBSET Buckets)

(***************************************************************************)
(* Answers.  The errors are those of gateway-s3x-errors.go; Backend stands *)
(* for whatever error a call to IPFS or to the datastore came back with.   *)
(***************************************************************************)
Ok(v)        == [err |-> "nil", val |-> v]
Failure(e)   == [err |-> e, val |-> Nil]
BucketExists       == Failure("ErrLedgerBucketExists")
BucketDoesNotExist == Failure("ErrLedgerBucketDoesNotExist")
ObjectDoesNotExist == Failure("ErrLedgerObjectDoesNotExist")
Backend            == Failure("backend")

ASSUME NilIsNoAnswer ==
  /\ Nil \notin [err : {"nil"}, val : Values]
  /\ Nil \notin {BucketExists, BucketDoesNotExist, ObjectDoesNotExist, Backend}

(***************************************************************************)
(* The answer to a removal, given the requested names that were not there. *)
(***************************************************************************)
RemoveAnswer(r, missing) ==
  IF r.op = "RemoveObjects" THEN Ok(missing)
  ELSE IF missing = {} THEN Ok(Nil) ELSE ObjectDoesNotExist
=============================================================================
