--------------------------- MODULE GatewayProofs ----------------------------
(***************************************************************************)
(* The handlers over the atomic ledger, for any number of goroutines,      *)
(* buckets and objects, files of any size, any chunk size, any ranges, and *)
(* with failures of the ledger, of IPFS and of the client.                 *)
(***************************************************************************)
EXTENDS Gateway, TLAPS

(* Most leaves are set and function reasoning, for Zenon; those that       *)
(* calculate or split a CASE cite the SMT solver.                          *)
USE ZenonT(30)

-----------------------------------------------------------------------------
(* Byte ranges *)

Valid(h, size) == IsRangeSpec(h) /\ size \in Nat /\ ~IsInvalidRange(h, size)

(* The offset and the length of a valid range lie in the file. *)
LEMMA RangeFits ==
  ASSUME NEW h, NEW size, Valid(h, size)
  PROVE  /\ GetOffset(h, size) \in Nat /\ GetLength(h, size) \in Nat
         /\ GetOffset(h, size) + GetLength(h, size) <= size
         /\ size > 0 => GetLength(h, size) > 0
BY SMTT(20) DEF Valid, IsRangeSpec, IsInvalidRange, GetOffset, GetLength, NoRange

(* They delimit the positions that the range asks for. *)
LEMMA RangeIsDelimited ==
  ASSUME NEW h, NEW size, Valid(h, size), NEW i \in Int
  PROVE  InRange(h, size, i) <=>
           /\ GetOffset(h, size) <= i
           /\ i < GetOffset(h, size) + GetLength(h, size)
BY SMTT(20) DEF Valid, IsRangeSpec, IsInvalidRange, GetOffset, GetLength, NoRange, InRange

-----------------------------------------------------------------------------
(* The loop of ipfsFileDownload *)

DownloadState ==
  [sub : BOOLEAN, start : Nat, length : Nat, pos : Nat, n : Nat, from : Nat,
   torn : BOOLEAN]

(***************************************************************************)
(* A download of length bytes from start on: n of them are written, and    *)
(* as long as none is, start counts what is still to be skipped.  Without  *)
(* start and length everything received is written.                        *)
(***************************************************************************)
Downloading(s, start, length) ==
  /\ s \in DownloadState
  /\ s.sub <=> start # 0 \/ length # 0
  /\ ~s.torn
  /\ IF s.sub
     THEN /\ s.length > 0
          /\ s.n + s.length = length
          /\ s.pos + s.start = start + s.n
          /\ s.n > 0 => s.start = 0 /\ s.from = start
     ELSE /\ s.start = 0
          /\ s.from = 0
          /\ s.n = s.pos

LEMMA DownloadBegins ==
  ASSUME NEW start \in Nat, NEW length \in Nat, start # 0 => length # 0
  PROVE  Downloading(Download(start, length), start, length)
<1> DEFINE s == Download(start, length)
<1>1. /\ s.start = start /\ s.length = length /\ s.pos = 0 /\ s.n = 0 /\ s.from = 0
      /\ s.torn = FALSE /\ s.sub = (start # 0 \/ length # 0)
  BY DEF Download
<1>2. s \in DownloadState
  <2>1. 0 \in Nat /\ (start # 0 \/ length # 0) \in BOOLEAN
    BY SMTT(20)
  <2> QED
    BY <2>1 DEF Download, DownloadState
<1> HIDE DEF s
<1>3. CASE start # 0 \/ length # 0
  <2>1. length > 0 /\ 0 + length = length /\ 0 + start = start + 0 /\ ~(0 > 0)
    BY SMTT(20), <1>3
  <2> QED
    BY <1>1, <1>2, <1>3, <2>1 DEF Downloading, s
<1>4. CASE ~(start # 0 \/ length # 0)
  BY <1>1, <1>2, <1>4 DEF Downloading, s
<1> QED
  BY <1>3, <1>4

(* The state after a chunk that is skipped, and after one that is not. *)
Skipped(s, start, pos) == [s EXCEPT !.start = start, !.pos = pos]

Written(s, start, length, pos, n, from, torn) ==
  [s EXCEPT !.start = start, !.length = length, !.pos = pos, !.n = n, !.from = from,
            !.torn = torn]

Has(t, sub, start, length, pos, n, from, torn) ==
  /\ t \in DownloadState
  /\ t.sub = sub /\ t.start = start /\ t.length = length /\ t.pos = pos
  /\ t.n = n /\ t.from = from /\ t.torn = torn

LEMMA SkippedFields ==
  ASSUME NEW s \in DownloadState, NEW start \in Nat, NEW pos \in Nat
  PROVE  Has(Skipped(s, start, pos), s.sub, start, s.length, pos, s.n, s.from, s.torn)
BY DEF DownloadState, Skipped, Has

LEMMA WrittenFields ==
  ASSUME NEW s \in DownloadState, NEW start \in Nat, NEW length \in Nat, NEW pos \in Nat,
         NEW n \in Nat, NEW from \in Nat, NEW torn \in BOOLEAN
  PROVE  Has(Written(s, start, length, pos, n, from, torn), s.sub, start, length, pos, n,
             from, torn)
BY DEF DownloadState, Written, Has

(* What is wanted has been written when the loop completes. *)
LEMMA DownloadGoesOn ==
  ASSUME NEW start \in Nat, NEW length \in Nat, NEW s, Downloading(s, start, length),
         NEW c \in Nat \ {0}
  PROVE  /\ ~IsComplete(s, c) => Downloading(Received(s, c), start, length)
         /\ IsComplete(s, c) =>
              LET t == Received(s, c)
              IN  length > 0 /\ ~t.torn /\ t.from = start /\ t.n = length
         /\ Received(s, c).pos = s.pos + c
<1> DEFINE t == Received(s, c)
<1>0. /\ s \in DownloadState /\ s.sub \in BOOLEAN /\ s.start \in Nat /\ s.length \in Nat
      /\ s.pos \in Nat /\ s.n \in Nat /\ s.from \in Nat /\ s.torn \in BOOLEAN
  BY DEF Downloading, DownloadState
<1>1. CASE s.sub /\ c < s.start
  <2>1. s.start - c \in Nat /\ s.pos + c \in Nat
    BY SMTT(20), <1>0, <1>1
  <2>2. t = Skipped(s, s.start - c, s.pos + c)
    BY <1>1 DEF Received, Skipped
  <2> HIDE DEF t
  <2>3. Has(t, s.sub, s.start - c, s.length, s.pos + c, s.n, s.from, s.torn)
    BY <1>0, <2>1, <2>2, SkippedFields
  <2>4. ~IsComplete(s, c)
    BY <1>1 DEF IsComplete
  <2>5. Downloading(t, start, length)
    <3>1. ~(s.n > 0) /\ s.pos + c + (s.start - c) = start + s.n
      BY SMTT(20), <1>0, <1>1 DEF Downloading
    <3> QED
      BY <1>1, <2>3, <3>1 DEF Downloading, Has
  <2> QED
    BY <2>3, <2>4, <2>5 DEF Has, t
<1>2. CASE ~(s.sub /\ c < s.start)
  <2> DEFINE cut == IF s.sub THEN s.start ELSE 0
             rest == c - cut
             k == IF s.sub /\ rest > s.length THEN s.length ELSE rest
             start2 == IF s.sub THEN 0 ELSE s.start
             length2 == IF s.sub THEN s.length - k ELSE s.length
             n2 == s.n + k
             pos2 == s.pos + c
             from2 == IF s.n = 0 THEN s.pos + cut ELSE s.from
             torn2 == s.torn \/ (s.n > 0 /\ s.from + s.n # s.pos + cut)
  <2>1. /\ start2 \in Nat /\ length2 \in Nat /\ pos2 \in Nat /\ n2 \in Nat
        /\ from2 \in Nat
    BY SMTT(20), <1>0, <1>2
  <2>2. torn2 \in BOOLEAN
    BY <1>0
  <2>3. t = Written(s, start2, length2, pos2, n2, from2, torn2)
    BY <1>2 DEF Received, Written
  <2> HIDE DEF t
  <2>4. Has(t, s.sub, start2, length2, pos2, n2, from2, torn2)
    <3> HIDE DEF start2, length2, pos2, n2, from2, torn2
    <3> QED
      BY SMTT(20), <1>0, <2>1, <2>2, <2>3, WrittenFields
  <2>5. ~torn2
    <3>1. ~(s.n > 0 /\ s.from + s.n # s.pos + cut)
      BY SMTT(20), <1>0, <1>2 DEF Downloading
    <3> QED
      BY <3>1 DEF Downloading
  <2>6. CASE s.sub /\ length2 = 0
    <3>1. IsComplete(s, c)
      BY <1>2, <2>4, <2>6 DEF IsComplete, Has, t
    <3>2. length > 0 /\ from2 = start /\ n2 = length
      BY SMTT(20), <1>0, <1>2, <2>6 DEF Downloading
    <3> QED
      BY <2>4, <2>5, <3>1, <3>2 DEF Has, t
  <2>7. CASE ~(s.sub /\ length2 = 0)
    <3>1. ~IsComplete(s, c)
      BY <2>4, <2>7 DEF IsComplete, Has, t
    <3>2. CASE s.sub
      <4>1. /\ length2 > 0 /\ n2 + length2 = length
            /\ pos2 + start2 = start + (n2)
            /\ n2 > 0 => start2 = 0 /\ from2 = start
        BY SMTT(20), <1>0, <1>2, <2>7, <3>2 DEF Downloading
      <4>2. s.sub <=> start # 0 \/ length # 0
        BY DEF Downloading
      <4> QED
        BY <2>4, <2>5, <3>1, <3>2, <4>1, <4>2 DEF Downloading, Has, t
    <3>3. CASE ~s.sub
      <4>1. start2 = 0 /\ from2 = 0 /\ n2 = pos2
        BY SMTT(20), <1>0, <1>2, <3>3 DEF Downloading
      <4>2. s.sub <=> start # 0 \/ length # 0
        BY DEF Downloading
      <4> QED
        BY <2>4, <2>5, <3>1, <3>3, <4>1, <4>2 DEF Downloading, Has, t
    <3> QED
      BY <3>2, <3>3
  <2> QED
    BY <2>6, <2>7
<1> QED
  BY <1>1, <1>2

-----------------------------------------------------------------------------
(* The ledger's requests and answers *)

LedgerRequest ==
  CreateRequest \cup BucketRequest \cup PutRequest \cup RemoveRequest \cup ReadRequest
    \cup ListRequest \cup CopyRequest \cup NamesRequest

Store == [Buckets -> BucketBlock \cup {Nil}]

(* A handler's parameters, and its first request. *)
LEMMA ParamFields ==
  ASSUME NEW c \in Param
  PROVE  /\ FirstRequest(c) \in LedgerRequest
         /\ c.h = "PutObject" => c.b \in Buckets /\ c.o \in Objects /\ c.data \in Datas
         /\ c.h = "GetObjectNInfo" =>
              /\ c.b \in Buckets /\ c.o \in Objects /\ c.rs \in Ranges
              /\ FirstRequest(c).op = "ObjectInfo"
         /\ c.h = "ListBuckets" =>
              FirstRequest(c).op = "GetBucketNames" /\ "r" \notin DOMAIN c
<1>1. CASE c \in [h : {"PutObject"}, b : Buckets, o : Objects, data : Datas]
  <2>1. c.h = "PutObject" /\ c.b \in Buckets /\ c.o \in Objects /\ c.data \in Datas
    BY <1>1
  <2>2. FirstRequest(c) = [op |-> "AssertBucketExits", b |-> c.b]
    BY <2>1 DEF FirstRequest
  <2>3. FirstRequest(c) \in BucketRequest
    BY SMTT(20), <2>1, <2>2 DEF BucketRequest
  <2>4. FirstRequest(c) \in LedgerRequest
    BY <2>3 DEF LedgerRequest
  <2> QED
    BY <2>1, <2>2, <2>4
<1>2. CASE c \in [h : {"GetObjectNInfo"}, b : Buckets, o : Objects, rs : Ranges]
  <2>1. c.h = "GetObjectNInfo" /\ c.b \in Buckets /\ c.o \in Objects /\ c.rs \in Ranges
    BY <1>2
  <2>2. FirstRequest(c) = [op |-> "ObjectInfo", b |-> c.b, o |-> c.o]
    BY <2>1 DEF FirstRequest
  <2>3. FirstRequest(c) \in ReadRequest
    BY SMTT(20), <2>1, <2>2 DEF ReadRequest
  <2>4. FirstRequest(c) \in LedgerRequest
    BY <2>3 DEF LedgerRequest
  <2> QED
    BY SMTT(20), <2>1, <2>2, <2>4
<1>3. CASE c \in [h : {"DeleteObjects"}, b : Buckets, names : SUBSET Objects]
  <2>1. c.h = "DeleteObjects" /\ c.b \in Buckets /\ c.names \in SUBSET Objects
    BY <1>3
  <2>2. FirstRequest(c) = [op |-> "RemoveObjects", b |-> c.b, names |-> c.names]
    BY <2>1 DEF FirstRequest
  <2>3. FirstRequest(c) \in RemoveRequest
    BY SMTT(20), <2>1, <2>2 DEF RemoveRequest
  <2>4. FirstRequest(c) \in LedgerRequest
    BY <2>3 DEF LedgerRequest
  <2> QED
    BY <2>1, <2>2, <2>4
<1>4. CASE c \in [h : {"ListBuckets"}]
  <2>1. c.h = "ListBuckets" /\ "r" \notin DOMAIN c
    BY <1>4
  <2>2. FirstRequest(c) = [op |-> "GetBucketNames"]
    BY <2>1 DEF FirstRequest
  <2>3. FirstRequest(c) \in NamesRequest
    BY SMTT(20), <2>1, <2>2 DEF NamesRequest
  <2>4. FirstRequest(c) \in LedgerRequest
    BY <2>3 DEF LedgerRequest
  <2> QED
    BY SMTT(20), <2>1, <2>2, <2>4
<1>5. CASE c \in UNION {[h : {x[1]}, r : {r \in Request : r.op = x[2]}] : x \in OneRequest}
  <2>1. PICK x \in OneRequest : c \in [h : {x[1]}, r : {r \in Request : r.op = x[2]}]
    BY <1>5
  <2>2. c.h = x[1] /\ c.r \in Request
    BY <2>1
  <2>3. c.h \notin {"PutObject", "GetObjectNInfo", "DeleteObjects", "ListBuckets"}
    BY SMTT(20), <2>2 DEF OneRequest
  <2>4. FirstRequest(c) = c.r
    BY <2>3 DEF FirstRequest
  <2> QED
    BY <2>2, <2>3, <2>4 DEF Request, LedgerRequest
<1> QED
  BY <1>1, <1>2, <1>3, <1>4, <1>5 DEF Param

LEMMA LedgerFields ==
  ASSUME NEW r \in LedgerRequest
  PROVE  /\ r.op # "GetBucketNames" => r.b \in Buckets
         /\ r.op = "CreateBucket" => r.info \in Infos
         /\ r.op = "PutObject" => r.o \in Objects /\ r.data \in Datas
         /\ r.op = "ObjectInfo" => r.o \in Objects
         /\ r.op = "CopyObject" => r.o \in Objects /\ r.src \in Buckets /\ r.so \in Objects
BY DEF LedgerRequest, CreateRequest, BucketRequest, PutRequest, RemoveRequest,
       ReadRequest, ListRequest, CopyRequest, NamesRequest

LEMMA Errors ==
  /\ \A v : L!Ok(v) = [err |-> "nil", val |-> v]
  /\ \A v : L!Ok(v).err = "nil" /\ L!Ok(v).val = v
  /\ L!BucketExists.err # "nil" /\ L!BucketDoesNotExist.err # "nil"
  /\ L!ObjectDoesNotExist.err # "nil" /\ L!Backend.err # "nil"
BY DEF L!Ok, L!Failure, L!BucketExists, L!BucketDoesNotExist, L!ObjectDoesNotExist,
       L!Backend

(* The names of the buckets, and an object, as the ledger answers them. *)
LEMMA AnswerNames ==
  ASSUME NEW s, NEW r, r.op = "GetBucketNames"
  PROVE  /\ L!AnswerTo(s, r).val = {b \in Buckets : s[b] # Nil}
         /\ L!StoreAfter(s, r) = s
BY DEF L!AnswerTo, L!StoreAfter, L!Ok

LEMMA AnswerObject ==
  ASSUME NEW s \in Store, NEW r \in LedgerRequest, r.op = "ObjectInfo",
         L!AnswerTo(s, r).err = "nil"
  PROVE  L!AnswerTo(s, r).val \in Object
<1>1. r.b \in Buckets /\ r.o \in Objects
  BY LedgerFields
<1>2. CASE s[r.b] = Nil
  <2>1. L!AnswerTo(s, r) = L!BucketDoesNotExist
    BY <1>2 DEF L!AnswerTo
  <2> QED
    BY <2>1, Errors
<1>3. CASE s[r.b] # Nil
  <2>1. L!AnswerTo(s, r) = IF s[r.b].objs[r.o] = Nil THEN L!ObjectDoesNotExist
                           ELSE L!Ok(s[r.b].objs[r.o])
    BY <1>3 DEF L!AnswerTo
  <2>2. s[r.b].objs[r.o] \in Object \cup {Nil}
    BY <1>1, <1>3 DEF Store, BucketBlock
  <2> QED
    BY <2>1, <2>2, Errors
<1> QED
  BY <1>2, <1>3

(* A store with one object more, or without some objects. *)
With(s, b, o, x) == [s EXCEPT ![b].objs[o] = x]

Without(s, b, ns) ==
  [s EXCEPT ![b].objs = [o \in Objects |-> IF o \in ns THEN Nil ELSE @[o]]]

LEMMA BlockWith ==
  ASSUME NEW s \in Store, NEW b \in Buckets, s[b] # Nil, NEW o \in Objects, NEW x \in Object
  PROVE  With(s, b, o, x) \in Store
<1>1. s[b] \in BucketBlock
  BY DEF Store
<1>2. [s[b].objs EXCEPT ![o] = x] \in [Objects -> Object \cup {Nil}]
  BY <1>1 DEF BucketBlock
<1>3. [s[b] EXCEPT !.objs = [s[b].objs EXCEPT ![o] = x]] \in BucketBlock
  BY <1>1, <1>2 DEF BucketBlock
<1> QED
  BY <1>3 DEF Store, With

LEMMA BlockWithout ==
  ASSUME NEW s \in Store, NEW b \in Buckets, s[b] # Nil, NEW ns
  PROVE  Without(s, b, ns) \in Store
<1>1. s[b] \in BucketBlock
  BY DEF Store
<1>2. [o \in Objects |-> IF o \in ns THEN Nil ELSE s[b].objs[o]]
        \in [Objects -> Object \cup {Nil}]
  BY <1>1 DEF BucketBlock
<1>3. [s[b] EXCEPT !.objs = [o \in Objects |-> IF o \in ns THEN Nil ELSE s[b].objs[o]]]
        \in BucketBlock
  BY <1>1, <1>2 DEF BucketBlock
<1> QED
  BY <1>3 DEF Store, Without

(* Every request leaves a store of buckets that hold objects. *)
LEMMA StoreStays ==
  ASSUME NEW s \in Store, NEW r \in LedgerRequest
  PROVE  L!StoreAfter(s, r) \in Store
<1> DEFINE a == L!AnswerTo(s, r)
<1>1. CASE r.op = "CreateBucket" /\ a.err = "nil"
  <2> DEFINE block == [name |-> r.b, info |-> r.info, objs |-> L!NoObjects]
  <2>1. r.b \in Buckets /\ r.info \in Infos
    BY <1>1, LedgerFields
  <2>2. a = IF s[r.b] = Nil THEN L!Ok(block) ELSE L!BucketExists
    BY <1>1 DEF L!AnswerTo
  <2>3. a.val = block
    <3> HIDE DEF a, block
    <3> QED
      BY <1>1, <2>2, Errors
  <2>4. block \in BucketBlock
    BY <2>1 DEF BucketBlock, L!NoObjects
  <2> HIDE DEF a, block
  <2>5. L!StoreAfter(s, r) = [s EXCEPT ![r.b] = block]
    BY <1>1, <2>3 DEF L!StoreAfter, a
  <2> QED
    BY <2>1, <2>4, <2>5 DEF Store
<1>2. CASE r.op = "DeleteBucket" /\ a.err = "nil"
  <2>1. L!StoreAfter(s, r) = [s EXCEPT ![r.b] = Nil]
    BY <1>2 DEF L!StoreAfter
  <2> QED
    BY <2>1 DEF Store
<1>3. CASE r.op = "PutObject" /\ a.err = "nil"
  <2> DEFINE x == [bucket |-> r.b, name |-> r.o, data |-> r.data]
  <2>1. r.b \in Buckets /\ r.o \in Objects /\ r.data \in Datas
    BY <1>3, LedgerFields
  <2>2. s[r.b] # Nil
    <3>1. s[r.b] = Nil => a = L!BucketDoesNotExist
      BY <1>3 DEF L!AnswerTo
    <3> QED
      BY <1>3, <3>1, Errors
  <2>3. x \in Object
    BY <2>1 DEF Object
  <2>4. L!StoreAfter(s, r) = With(s, r.b, r.o, x)
    BY <1>3 DEF L!StoreAfter, With
  <2> HIDE DEF x
  <2> QED
    BY <2>1, <2>2, <2>3, <2>4, BlockWith
<1>4. CASE r.op = "CopyObject" /\ a.err = "nil"
  <2>1. r.b \in Buckets /\ r.o \in Objects /\ r.src \in Buckets /\ r.so \in Objects
    BY <1>4, LedgerFields
  <2>2. s[r.b] # Nil
    <3>1. s[r.b] = Nil => a = L!BucketDoesNotExist
      BY <1>4 DEF L!AnswerTo
    <3> QED
      BY <1>4, <3>1, Errors
  <2> DEFINE y == s[r.src].objs[r.so]
             x == [bucket |-> r.b, name |-> r.o, data |-> y.data]
  <2>3. a = IF s[r.src] = Nil THEN L!BucketDoesNotExist
            ELSE IF y = Nil THEN L!ObjectDoesNotExist ELSE L!Ok(x)
    BY <1>4, <2>2 DEF L!AnswerTo
  <2>4. s[r.src] # Nil /\ y # Nil /\ a.val = x
    <3> HIDE DEF a, x, y
    <3> QED
      BY <1>4, <2>3, Errors
  <2>5. y \in Object
    BY <2>1, <2>4 DEF Store, BucketBlock
  <2>6. x \in Object
    BY <2>1, <2>5 DEF Object
  <2> HIDE DEF a, x, y
  <2>7. L!StoreAfter(s, r) = With(s, r.b, r.o, x)
    BY <1>4, <2>4 DEF L!StoreAfter, With, a
  <2> QED
    BY <2>1, <2>2, <2>6, <2>7, BlockWith
<1>5. CASE r.op \in {"RemoveObject", "RemoveObjects"} /\ s[r.b] # Nil
  <2>1. r.b \in Buckets
    BY <1>5, LedgerFields
  <2> HIDE DEF a
  <2>2. L!StoreAfter(s, r) = Without(s, r.b, r.names)
    BY <1>5 DEF L!StoreAfter, Without
  <2> QED
    BY <1>5, <2>1, <2>2, BlockWithout
<1>6. CASE /\ ~(r.op = "CreateBucket" /\ a.err = "nil")
           /\ ~(r.op = "DeleteBucket" /\ a.err = "nil")
           /\ ~(r.op = "PutObject" /\ a.err = "nil")
           /\ ~(r.op = "CopyObject" /\ a.err = "nil")
           /\ ~(r.op \in {"RemoveObject", "RemoveObjects"} /\ s[r.b] # Nil)
  <2> HIDE DEF a
  <2>1. L!StoreAfter(s, r) = s
    BY <1>6 DEF L!StoreAfter, a
  <2> QED
    BY <2>1
<1> QED
  BY <1>1, <1>2, <1>3, <1>4, <1>5, <1>6

-----------------------------------------------------------------------------
(* The inductive invariant *)

Stages == {"idle", "first", "upload", "put", "hash", "download", "infos", "done"}

TypeInv ==
  /\ store \in Store
  /\ req \in [Procs -> LedgerRequest \cup {Nil}]
  /\ call \in [Procs -> Calls \cup {Nil}]
  /\ at \in [Procs -> Stages]
  /\ names \in [Procs -> SUBSET Buckets] /\ infos \in [Procs -> SUBSET Buckets]
  /\ always \in [Procs -> SUBSET Buckets] /\ ever \in [Procs -> SUBSET Buckets]
  /\ DOMAIN res = Procs /\ DOMAIN ans = Procs
  /\ DOMAIN stream = Procs /\ DOMAIN info = Procs /\ DOMAIN file = Procs

(***************************************************************************)
(* An answer belongs to the request that is being served, and a handler    *)
(* that waits for an answer has made the request that it goes on from.     *)
(***************************************************************************)
HandlerInv(p) ==
  /\ req[p] = Nil => res[p] = Nil
  /\ res[p] # Nil /\ res[p].err = "nil" =>
       /\ req[p].op = "ObjectInfo" => res[p].val \in Object
       /\ req[p].op = "GetBucketNames" => res[p].val \in SUBSET Buckets
  /\ at[p] # "idle" => call[p] \in Calls
  /\ at[p] \in {"idle", "upload", "download", "done"} => req[p] = Nil
  /\ at[p] = "first" => req[p] = FirstRequest(call[p])
  /\ at[p] \in {"upload", "put"} => call[p].h = "PutObject"
  /\ at[p] = "upload" => stream[p] \in Nat
  /\ at[p] \in {"hash", "download"} => call[p].h = "GetObjectNInfo"
  /\ at[p] = "hash" => req[p].op = "ObjectInfo"
  /\ at[p] = "infos" =>
       call[p].h = "ListBuckets" /\ req[p].op = "GetBucketInfo" /\ req[p].b \in names[p]
  /\ at[p] \notin {"download", "done"} => file[p] = Nil

(* The range that a read has been asked for, in a file of the size that    *)
(* GetObjectNInfo found.                                                   *)
Offset(p) == GetOffset(call[p].rs, info[p].size)
Length(p) == GetLength(call[p].rs, info[p].size)

Served(p) ==
  (at[p] = "done" /\ file[p] # Nil /\ ans[p].err = "nil") =>
    LET s == stream[p]
    IN  /\ ~s.torn
        /\ \A i \in 0..file[p].size + info[p].size :
             (s.from <= i /\ i < s.from + s.n) <=>
               IF info[p].size = 0 THEN i < file[p].size
               ELSE InRange(call[p].rs, info[p].size, i)

(***************************************************************************)
(* The range is that of the first lookup, and the file that the second     *)
(* lookup found is long enough for it.                                     *)
(***************************************************************************)
ReadInv(p) ==
  /\ at[p] \in {"hash", "download"} => Valid(call[p].rs, info[p].size)
  /\ at[p] = "hash" => stream[p] = Download(Offset(p), Length(p))
  /\ at[p] = "download" =>
       /\ file[p].size \in Nat /\ Offset(p) + Length(p) <= file[p].size
       /\ Downloading(stream[p], Offset(p), Length(p))
       /\ stream[p].pos <= file[p].size
  /\ Served(p)

Bracketed(p, S) == always[p] \subseteq S /\ S \subseteq ever[p]

(***************************************************************************)
(* The buckets that were always there are among those that are listed or   *)
(* still to be looked up, and all of these were there at some time.        *)
(***************************************************************************)
ListInv(p) ==
  /\ Listing(p) => Bracketed(p, Existing)
  /\ at[p] = "first" /\ call[p].h = "ListBuckets" /\ res[p] # Nil /\ res[p].err = "nil" =>
       Bracketed(p, res[p].val)
  /\ at[p] = "infos" => Bracketed(p, names[p] \cup infos[p])
  /\ at[p] = "done" /\ call[p].h = "ListBuckets" /\ ans[p].err = "nil" =>
       Bracketed(p, ans[p].val)

Inv(p) == HandlerInv(p) /\ ReadInv(p) /\ ListInv(p)

IInv == TypeInv /\ \A p \in Procs : Inv(p)

-----------------------------------------------------------------------------
(* The goroutines that do not move *)

(* Nothing of q changes, and the ledger does not either. *)
Quiet(q) ==
  /\ store' = store /\ req'[q] = req[q] /\ res'[q] = res[q]
  /\ call'[q] = call[q] /\ at'[q] = at[q] /\ ans'[q] = ans[q]
  /\ stream'[q] = stream[q] /\ info'[q] = info[q] /\ file'[q] = file[q]
  /\ names'[q] = names[q] /\ infos'[q] = infos[q]
  /\ always'[q] = always[q] /\ ever'[q] = ever[q]

LEMMA QuietInv ==
  ASSUME NEW q \in Procs, Inv(q), Quiet(q)
  PROVE  Inv(q)'
<1>1. HandlerInv(q)'
  BY DEF Quiet, Inv, HandlerInv
<1>2. ReadInv(q)'
  BY DEF Quiet, Inv, ReadInv, Served, Offset, Length
<1>3. ListInv(q)'
  BY DEF Quiet, Inv, ListInv, Listing, Existing, Bracketed
<1> QED
  BY <1>1, <1>2, <1>3 DEF Inv

(* The steps that leave the ledger's store alone. *)
Local(p) ==
  \/ Call(p) \/ LedgerFails(p) \/ StreamFails(p) \/ Reply(p) \/ LedgerError(p)
  \/ DeleteObjects(p) \/ UploadFile(p) \/ Send(p) \/ CloseAndRecv(p) \/ PutObject(p)
  \/ GetObjectNInfo(p) \/ GetObject(p) \/ Recv(p) \/ EndOfFile(p) \/ ListBuckets(p)
  \/ GetBucketInfo(p) \/ Return(p)

LEMMA OthersAreQuiet ==
  ASSUME TypeInv, NEW p \in Procs, Local(p), NEW q \in Procs, q # p
  PROVE  Quiet(q)
<1> USE DEF TypeInv, Quiet, Goto, Done, NextRequest, L!Answer, ledger, locals, seen
<1>1. CASE Call(p)
  BY <1>1 DEF Call, L!Call
<1>2. CASE LedgerFails(p)
  BY <1>2 DEF LedgerFails, L!Fail
<1>3. CASE StreamFails(p)
  BY <1>3 DEF StreamFails
<1>4. CASE Reply(p)
  BY <1>4 DEF Reply
<1>5. CASE LedgerError(p)
  BY <1>5 DEF LedgerError
<1>6. CASE DeleteObjects(p)
  BY <1>6 DEF DeleteObjects
<1>7. CASE UploadFile(p)
  BY <1>7 DEF UploadFile
<1>8. CASE Send(p)
  BY <1>8 DEF Send
<1>9. CASE CloseAndRecv(p)
  BY <1>9 DEF CloseAndRecv
<1>10. CASE PutObject(p)
  BY <1>10 DEF PutObject
<1>11. CASE GetObjectNInfo(p)
  <2>1. CASE IsInvalidRange(call[p].rs, res[p].val.data.size)
    BY <1>11, <2>1 DEF GetObjectNInfo
  <2>2. CASE ~IsInvalidRange(call[p].rs, res[p].val.data.size)
    BY SMTT(20), <1>11, <2>2 DEF GetObjectNInfo
  <2> QED
    BY <2>1, <2>2
<1>12. CASE GetObject(p)
  BY <1>12 DEF GetObject
<1>13. CASE Recv(p)
  BY <1>13 DEF Recv
<1>14. CASE EndOfFile(p)
  BY <1>14 DEF EndOfFile
<1>15. CASE ListBuckets(p)
  BY <1>15 DEF ListBuckets, NextInfo
<1>16. CASE GetBucketInfo(p)
  BY <1>16 DEF GetBucketInfo, NextInfo
<1>17. CASE Return(p)
  BY <1>17 DEF Return, Forget
<1> QED
  BY <1>1, <1>2, <1>3, <1>4, <1>5, <1>6, <1>7, <1>8, <1>9, <1>10, <1>11, <1>12, <1>13,
     <1>14, <1>15, <1>16, <1>17 DEF Local

-----------------------------------------------------------------------------
(* The goroutine that moves *)

(* No error becomes a success. *)
LEMMA ErrorsStay == \A e : e # "nil" => toMinioErr(e) # "nil"
BY DEF toMinioErr

(* A handler that ends, with an error or with what it promised. *)
LEMMA Ends ==
  ASSUME NEW p \in Procs, Inv(p), at[p] # "idle", at'[p] = "done", call'[p] = call[p],
         req'[p] = Nil, res'[p] = Nil, always'[p] = always[p], ever'[p] = ever[p],
         ans'[p].err = "nil" =>
           /\ Served(p)'
           /\ call[p].h = "ListBuckets" => Bracketed(p, ans'[p].val)
  PROVE  Inv(p)'
<1>1. HandlerInv(p)'
  BY DEF Inv, HandlerInv
<1>2. ReadInv(p)'
  BY DEF ReadInv, Served
<1>3. ListInv(p)'
  BY DEF ListInv, Listing, Bracketed
<1> QED
  BY <1>1, <1>2, <1>3 DEF Inv

(* Nothing was read: there is no file. *)
LEMMA NothingRead ==
  ASSUME NEW p \in Procs, Inv(p), at[p] \notin {"download", "done"}, file'[p] = file[p]
  PROVE  Served(p)'
BY DEF Inv, HandlerInv, Served

LEMMA CallStep ==
  ASSUME IInv, NEW p \in Procs, Call(p)
  PROVE  TypeInv' /\ Inv(p)'
<1>1. PICK c \in Calls :
        /\ call' = [call EXCEPT ![p] = c]
        /\ L!Call(p, FirstRequest(c))
        /\ LET now == IF c.h = "ListBuckets" THEN Existing ELSE {}
           IN  /\ always' = [always EXCEPT ![p] = now]
               /\ ever' = [ever EXCEPT ![p] = now]
  BY DEF Call
<1>2. FirstRequest(c) \in LedgerRequest
  BY ParamFields, CallsAreCalls
<1>3. Existing \in SUBSET Buckets /\ Existing' = Existing
  BY <1>1 DEF Existing, L!Call
<1>4. TypeInv'
  BY <1>1, <1>2, <1>3 DEF Call, L!Call, Goto, IInv, TypeInv, Stages, locals
<1>5. /\ at'[p] = "first" /\ call'[p] = c /\ req'[p] = FirstRequest(c) /\ res'[p] = res[p]
      /\ req[p] = Nil /\ at[p] = "idle" /\ file'[p] = file[p]
      /\ c.h = "ListBuckets" => always'[p] = Existing /\ ever'[p] = Existing
  BY <1>1 DEF Call, L!Call, Goto, IInv, TypeInv, locals
<1>6. res'[p] = Nil /\ file'[p] = Nil
  BY <1>5 DEF IInv, Inv, HandlerInv
<1>7. HandlerInv(p)'
  BY <1>5, <1>6 DEF HandlerInv
<1>8. ReadInv(p)'
  BY <1>5 DEF ReadInv, Served
<1>9. ListInv(p)'
  BY <1>3, <1>5, <1>6 DEF ListInv, Listing, Bracketed
<1> QED
  BY <1>4, <1>7, <1>8, <1>9 DEF Inv

LEMMA LedgerFailsStep ==
  ASSUME IInv, NEW p \in Procs, LedgerFails(p)
  PROVE  TypeInv' /\ Inv(p)'
<1>1. TypeInv'
  BY DEF LedgerFails, L!Fail, IInv, TypeInv, locals, seen
<1>2. /\ res'[p] = L!Backend /\ req'[p] = req[p] /\ req[p] # Nil /\ store' = store
      /\ call'[p] = call[p] /\ at'[p] = at[p] /\ ans'[p] = ans[p]
      /\ stream'[p] = stream[p] /\ info'[p] = info[p] /\ file'[p] = file[p]
      /\ names'[p] = names[p] /\ infos'[p] = infos[p]
      /\ always'[p] = always[p] /\ ever'[p] = ever[p]
  BY DEF LedgerFails, L!Fail, IInv, TypeInv, locals, seen
<1>3. HandlerInv(p)'
  BY SMTT(20), <1>2, Errors DEF IInv, Inv, HandlerInv
<1>4. ReadInv(p)'
  BY <1>2 DEF IInv, Inv, ReadInv, Served, Offset, Length
<1>5. ListInv(p)'
  BY <1>2, Errors DEF IInv, Inv, ListInv, Listing, Existing, Bracketed
<1> QED
  BY <1>1, <1>3, <1>4, <1>5 DEF Inv

LEMMA ReplyStep ==
  ASSUME IInv, NEW p \in Procs, Reply(p)
  PROVE  TypeInv' /\ Inv(p)'
<1>1. TypeInv'
  BY DEF Reply, L!Answer, Done, Goto, IInv, TypeInv, Stages, locals, seen
<1>2. /\ at[p] = "first" /\ "r" \in DOMAIN call[p] /\ at'[p] = "done"
      /\ call'[p] = call[p] /\ req'[p] = Nil /\ res'[p] = Nil /\ file'[p] = file[p]
      /\ always'[p] = always[p] /\ ever'[p] = ever[p]
  BY DEF Reply, L!Answer, Done, Goto, IInv, TypeInv, locals, seen
<1>3. call[p].h # "ListBuckets"
  BY <1>2, ParamFields, CallsAreCalls DEF IInv, Inv, HandlerInv
<1>4. Served(p)'
  BY <1>2, NothingRead DEF IInv
<1> QED
  BY <1>1, <1>2, <1>3, <1>4, Ends DEF IInv

LEMMA LedgerErrorStep ==
  ASSUME IInv, NEW p \in Procs, LedgerError(p)
  PROVE  TypeInv' /\ Inv(p)'
<1>1. TypeInv'
  BY DEF LedgerError, L!Answer, Done, Goto, IInv, TypeInv, Stages, locals, seen
<1>2. /\ at'[p] = "done" /\ call'[p] = call[p] /\ req'[p] = Nil /\ res'[p] = Nil
      /\ always'[p] = always[p] /\ ever'[p] = ever[p] /\ res[p] # Nil /\ res[p].err # "nil"
      /\ ans'[p].err = toMinioErr(res[p].err)
  BY DEF LedgerError, L!Answer, Done, Goto, IInv, TypeInv, locals, seen
<1>3. at[p] # "idle"
  BY <1>2 DEF IInv, Inv, HandlerInv
<1>4. ans'[p].err # "nil"
  BY <1>2, ErrorsStay
<1> QED
  BY <1>1, <1>2, <1>3, <1>4, Ends DEF IInv

LEMMA DeleteObjectsStep ==
  ASSUME IInv, NEW p \in Procs, DeleteObjects(p)
  PROVE  TypeInv' /\ Inv(p)'
<1>1. TypeInv'
  BY DEF DeleteObjects, L!Answer, Done, Goto, IInv, TypeInv, Stages, locals, seen
<1>2. /\ at[p] = "first" /\ call[p].h = "DeleteObjects" /\ at'[p] = "done"
      /\ call'[p] = call[p] /\ req'[p] = Nil /\ res'[p] = Nil /\ file'[p] = file[p]
      /\ always'[p] = always[p] /\ ever'[p] = ever[p]
  BY DEF DeleteObjects, L!Answer, Done, Goto, IInv, TypeInv, locals, seen
<1>3. Served(p)'
  BY <1>2, NothingRead DEF IInv
<1> QED
  BY <1>1, <1>2, <1>3, Ends DEF IInv

LEMMA StreamFailsStep ==
  ASSUME IInv, NEW p \in Procs, StreamFails(p)
  PROVE  TypeInv' /\ Inv(p)'
<1>1. TypeInv'
  BY DEF StreamFails, Done, Goto, IInv, TypeInv, Stages, ledger, locals, seen
<1>2. /\ at[p] \in {"upload", "download"} /\ at'[p] = "done" /\ call'[p] = call[p]
      /\ req'[p] = req[p] /\ res'[p] = res[p]
      /\ always'[p] = always[p] /\ ever'[p] = ever[p]
      /\ ans'[p].err = toMinioErr("backend")
  BY DEF StreamFails, Done, Goto, IInv, TypeInv, ledger, locals, seen
<1>3. req'[p] = Nil /\ res'[p] = Nil /\ at[p] # "idle"
  BY <1>2 DEF IInv, Inv, HandlerInv
<1>4. ans'[p].err # "nil"
  BY <1>2, ErrorsStay
<1> QED
  BY <1>1, <1>2, <1>3, <1>4, Ends DEF IInv

LEMMA PutObjectStep ==
  ASSUME IInv, NEW p \in Procs, PutObject(p)
  PROVE  TypeInv' /\ Inv(p)'
<1>1. TypeInv'
  BY DEF PutObject, L!Answer, Done, Goto, IInv, TypeInv, Stages, locals, seen
<1>2. /\ at[p] = "put" /\ at'[p] = "done"
      /\ call'[p] = call[p] /\ req'[p] = Nil /\ res'[p] = Nil /\ file'[p] = file[p]
      /\ always'[p] = always[p] /\ ever'[p] = ever[p]
  BY DEF PutObject, L!Answer, Done, Goto, IInv, TypeInv, locals, seen
<1>3. Served(p)'
  BY <1>2, NothingRead DEF IInv
<1>4. call[p].h = "PutObject"
  BY <1>2 DEF IInv, Inv, HandlerInv
<1> QED
  BY <1>1, <1>2, <1>3, <1>4, Ends DEF IInv

LEMMA UploadFileStep ==
  ASSUME IInv, NEW p \in Procs, UploadFile(p)
  PROVE  TypeInv' /\ Inv(p)'
<1>1. TypeInv'
  BY DEF UploadFile, L!Answer, Goto, IInv, TypeInv, Stages, seen
<1>2. /\ at[p] = "first" /\ call[p].h = "PutObject" /\ at'[p] = "upload"
      /\ call'[p] = call[p] /\ req'[p] = Nil /\ res'[p] = Nil /\ file'[p] = file[p]
      /\ stream'[p] = 0
  BY DEF UploadFile, L!Answer, Goto, IInv, TypeInv, seen
<1>3. HandlerInv(p)'
  BY SMTT(20), <1>2 DEF IInv, Inv, HandlerInv
<1>4. ReadInv(p)'
  BY <1>2 DEF ReadInv, Served
<1>5. ListInv(p)'
  BY <1>2 DEF ListInv, Listing
<1> QED
  BY <1>1, <1>3, <1>4, <1>5 DEF Inv

LEMMA SendStep ==
  ASSUME IInv, NEW p \in Procs, Send(p)
  PROVE  TypeInv' /\ Inv(p)'
<1>1. TypeInv'
  BY DEF Send, IInv, TypeInv, ledger, seen
<1>2. PICK k \in 1..ChunkSize : stream' = [stream EXCEPT ![p] = stream[p] + k]
  BY DEF Send
<1>3. /\ at[p] = "upload" /\ at'[p] = "upload" /\ call'[p] = call[p] /\ req'[p] = req[p]
      /\ res'[p] = res[p] /\ file'[p] = file[p] /\ stream'[p] = stream[p] + k
  BY <1>2 DEF Send, IInv, TypeInv, ledger
<1>4. k \in Nat
  BY SMTT(20), Sizes
<1>5. HandlerInv(p)'
  BY SMTT(20), <1>3, <1>4 DEF IInv, Inv, HandlerInv
<1>6. ReadInv(p)'
  BY <1>3 DEF ReadInv, Served
<1>7. ListInv(p)'
  BY <1>3 DEF ListInv, Listing
<1> QED
  BY <1>1, <1>5, <1>6, <1>7 DEF Inv

LEMMA CloseAndRecvStep ==
  ASSUME IInv, NEW p \in Procs, CloseAndRecv(p)
  PROVE  TypeInv' /\ Inv(p)'
<1> DEFINE c == call[p]
           r == [op |-> "PutObject", b |-> c.b, o |-> c.o,
                 data |-> [c.data EXCEPT !.size = stream[p]]]
<1>1. at[p] = "upload" /\ stream[p] = c.data.size
  BY DEF CloseAndRecv
<1>2. c \in Calls /\ c.h = "PutObject"
  BY <1>1 DEF IInv, Inv, HandlerInv
<1>3. c.b \in Buckets /\ c.o \in Objects /\ c.data \in Datas
  BY <1>2, ParamFields, CallsAreCalls
<1>4. [c.data EXCEPT !.size = stream[p]] = c.data
  <2>1. c.data = [id |-> c.data.id, size |-> c.data.size]
    BY <1>3, Sizes
  <2> QED
    BY <1>1, <2>1
<1>5. r \in LedgerRequest
  <2>1. r = [op |-> "PutObject", b |-> c.b, o |-> c.o, data |-> c.data]
    BY <1>4
  <2>2. r \in PutRequest
    BY <1>3, <2>1 DEF PutRequest
  <2> QED
    BY <2>2 DEF LedgerRequest
<1>6. /\ req' = [req EXCEPT ![p] = r] /\ res' = [res EXCEPT ![p] = Nil] /\ store' = store
      /\ at' = [at EXCEPT ![p] = "put"] /\ stream' = [stream EXCEPT ![p] = Nil]
      /\ UNCHANGED <<call, info, file, names, infos, ans, always, ever>>
  BY DEF CloseAndRecv, NextRequest, Goto, seen
<1> HIDE DEF r
<1>7. TypeInv'
  BY <1>5, <1>6 DEF IInv, TypeInv, Stages
<1>8. /\ at'[p] = "put" /\ call'[p] = call[p] /\ req'[p] = r /\ res'[p] = Nil
      /\ file'[p] = file[p]
  BY <1>6 DEF IInv, TypeInv
<1>9. HandlerInv(p)'
  BY <1>1, <1>2, <1>8 DEF IInv, Inv, HandlerInv
<1>10. ReadInv(p)'
  BY <1>8 DEF ReadInv, Served
<1>11. ListInv(p)'
  BY <1>8 DEF ListInv, Listing
<1> QED
  BY <1>7, <1>9, <1>10, <1>11 DEF Inv

LEMMA GetObjectNInfoStep ==
  ASSUME IInv, NEW p \in Procs, GetObjectNInfo(p)
  PROVE  TypeInv' /\ Inv(p)'
<1> DEFINE c == call[p]
           d == res[p].val.data
           r == [op |-> "ObjectInfo", b |-> c.b, o |-> c.o]
<1>1. /\ at[p] = "first" /\ c.h = "GetObjectNInfo" /\ res[p] # Nil /\ res[p].err = "nil"
  BY DEF GetObjectNInfo
<1>2. c \in Calls /\ req[p] = FirstRequest(c)
  BY <1>1 DEF IInv, Inv, HandlerInv
<1>3. /\ c.b \in Buckets /\ c.o \in Objects /\ c.rs \in Ranges /\ req[p].op = "ObjectInfo"
  BY <1>1, <1>2, ParamFields, CallsAreCalls
<1>4. d \in Datas
  <2>1. res[p].val \in Object
    BY <1>1, <1>3 DEF IInv, Inv, HandlerInv
  <2> QED
    BY <2>1 DEF Object
<1>5. CASE IsInvalidRange(c.rs, d.size)
  <2>1. /\ req' = [req EXCEPT ![p] = Nil] /\ res' = [res EXCEPT ![p] = Nil]
        /\ store' = store /\ at' = [at EXCEPT ![p] = "done"]
        /\ ans' = [ans EXCEPT ![p] = [err |-> toMinioErr("InvalidRange"), val |-> Nil]]
        /\ UNCHANGED <<call, stream, info, file, names, infos, always, ever>>
    BY <1>5 DEF GetObjectNInfo, L!Answer, Done, Goto, locals, seen
  <2>2. TypeInv'
    BY <2>1 DEF IInv, TypeInv, Stages
  <2>3. /\ at'[p] = "done" /\ call'[p] = call[p] /\ req'[p] = Nil /\ res'[p] = Nil
        /\ always'[p] = always[p] /\ ever'[p] = ever[p]
        /\ ans'[p].err = toMinioErr("InvalidRange")
    BY <2>1 DEF IInv, TypeInv
  <2>4. ans'[p].err # "nil" /\ at[p] # "idle"
    BY <1>1, <2>3, ErrorsStay
  <2> QED
    BY <2>2, <2>3, <2>4, Ends DEF IInv
<1>6. CASE ~IsInvalidRange(c.rs, d.size)
  <2> DEFINE s == Download(GetOffset(c.rs, d.size), GetLength(c.rs, d.size))
  <2>1. /\ req' = [req EXCEPT ![p] = r] /\ res' = [res EXCEPT ![p] = Nil] /\ store' = store
        /\ at' = [at EXCEPT ![p] = "hash"] /\ info' = [info EXCEPT ![p] = d]
        /\ stream' = [stream EXCEPT ![p] = s]
        /\ UNCHANGED <<call, file, names, infos, ans, always, ever>>
    BY <1>6 DEF GetObjectNInfo, NextRequest, Goto, seen
  <2>2. r \in LedgerRequest /\ r.op = "ObjectInfo"
    <3>1. r \in ReadRequest
      BY <1>3 DEF ReadRequest
    <3> QED
      BY <3>1 DEF LedgerRequest
  <2>3. Valid(c.rs, d.size)
    BY <1>3, <1>4, <1>6, Sizes DEF Valid
  <2> HIDE DEF r, s
  <2>4. TypeInv'
    BY <2>1, <2>2 DEF IInv, TypeInv, Stages
  <2>5. /\ at'[p] = "hash" /\ call'[p] = call[p] /\ req'[p] = r /\ res'[p] = Nil
        /\ file'[p] = file[p] /\ info'[p] = d /\ stream'[p] = s
    BY <2>1 DEF IInv, TypeInv
  <2>6. HandlerInv(p)'
    BY <1>1, <1>2, <2>2, <2>5 DEF IInv, Inv, HandlerInv
  <2>7. ReadInv(p)'
    <3>1. Valid(call'[p].rs, info'[p].size)
      BY <2>3, <2>5
    <3>2. stream'[p] = Download(Offset(p)', Length(p)')
      BY <2>5 DEF Offset, Length, s
    <3> QED
      BY <2>5, <3>1, <3>2 DEF ReadInv, Served
  <2>8. ListInv(p)'
    BY <2>5 DEF ListInv, Listing
  <2> QED
    BY <2>4, <2>6, <2>7, <2>8 DEF Inv
<1> QED
  BY <1>5, <1>6

LEMMA GetObjectStep ==
  ASSUME IInv, NEW p \in Procs, GetObject(p)
  PROVE  TypeInv' /\ Inv(p)'
<1> DEFINE d == res[p].val.data
           s == stream[p]
<1>1. at[p] = "hash" /\ res[p] # Nil /\ res[p].err = "nil"
  BY DEF GetObject
<1>2. /\ call[p] \in Calls /\ call[p].h = "GetObjectNInfo" /\ req[p].op = "ObjectInfo"
      /\ file[p] = Nil
  BY <1>1 DEF IInv, Inv, HandlerInv
<1>3. Valid(call[p].rs, info[p].size) /\ s = Download(Offset(p), Length(p))
  BY <1>1 DEF IInv, Inv, ReadInv
<1>4. d \in Datas /\ d.size \in Nat
  <2>1. res[p].val \in Object
    BY <1>1, <1>2 DEF IInv, Inv, HandlerInv
  <2>2. d \in Datas
    BY <2>1 DEF Object
  <2> QED
    BY <2>2, Sizes
<1>5. CASE d.size < s.start + s.length
  <2>1. /\ req' = [req EXCEPT ![p] = Nil] /\ res' = [res EXCEPT ![p] = Nil]
        /\ store' = store /\ at' = [at EXCEPT ![p] = "done"]
        /\ ans' = [ans EXCEPT ![p] = [err |-> toMinioErr("InvalidRange"), val |-> Nil]]
        /\ UNCHANGED <<call, stream, info, file, names, infos, always, ever>>
    BY <1>5 DEF GetObject, L!Answer, Done, Goto, seen
  <2>2. TypeInv'
    BY <2>1 DEF IInv, TypeInv, Stages
  <2>3. /\ at'[p] = "done" /\ call'[p] = call[p] /\ req'[p] = Nil /\ res'[p] = Nil
        /\ always'[p] = always[p] /\ ever'[p] = ever[p]
        /\ ans'[p].err = toMinioErr("InvalidRange")
    BY <2>1 DEF IInv, TypeInv
  <2>4. ans'[p].err # "nil" /\ at[p] # "idle"
    BY <1>1, <2>3, ErrorsStay
  <2> QED
    BY <2>2, <2>3, <2>4, Ends DEF IInv
<1>6. CASE ~(d.size < s.start + s.length)
  <2>1. /\ req' = [req EXCEPT ![p] = Nil] /\ res' = [res EXCEPT ![p] = Nil]
        /\ store' = store /\ at' = [at EXCEPT ![p] = "download"]
        /\ file' = [file EXCEPT ![p] = d]
        /\ UNCHANGED <<call, stream, info, names, infos, ans, always, ever>>
    BY <1>6 DEF GetObject, L!Answer, Goto, seen
  <2>2. TypeInv'
    BY <2>1 DEF IInv, TypeInv, Stages
  <2>3. /\ at'[p] = "download" /\ call'[p] = call[p] /\ req'[p] = Nil /\ res'[p] = Nil
        /\ file'[p] = d /\ info'[p] = info[p] /\ stream'[p] = s
    BY <2>1 DEF IInv, TypeInv
  <2>4. HandlerInv(p)'
    BY <1>2, <2>3 DEF HandlerInv
  <2>5. Offset(p)' = Offset(p) /\ Length(p)' = Length(p)
    BY <2>3 DEF Offset, Length
  <2>6. s.start = Offset(p) /\ s.length = Length(p) /\ s.pos = 0
    BY SMTT(20), <1>3 DEF Download
  <2>7. /\ Offset(p) \in Nat /\ Length(p) \in Nat /\ (Offset(p) # 0 => Length(p) # 0)
    <3>1. /\ Offset(p) \in Nat /\ Length(p) \in Nat
          /\ Offset(p) + Length(p) <= info[p].size
          /\ info[p].size > 0 => Length(p) > 0
          /\ info[p].size \in Nat
      BY <1>3, RangeFits DEF Offset, Length, Valid
    <3> QED
      BY SMTT(20), <3>1
  <2>8. Downloading(s, Offset(p), Length(p))
    BY <1>3, <2>7, DownloadBegins
  <2>9. Offset(p) + Length(p) <= d.size /\ s.pos <= d.size
    <3> HIDE DEF s, d
    <3> QED
      BY SMTT(20), <1>4, <1>6, <2>6, <2>7
  <2>10. ReadInv(p)'
    <3> HIDE DEF s, d
    <3>1. Valid(call'[p].rs, info'[p].size)
      BY <1>3, <2>3
    <3>2. /\ file'[p].size \in Nat /\ Offset(p)' + Length(p)' <= file'[p].size
          /\ Downloading(stream'[p], Offset(p)', Length(p)')
          /\ stream'[p].pos <= file'[p].size
      BY <1>4, <2>3, <2>5, <2>8, <2>9
    <3> QED
      BY <2>3, <3>1, <3>2 DEF ReadInv, Served
  <2>11. ListInv(p)'
    BY <2>3 DEF ListInv, Listing
  <2> QED
    BY <2>2, <2>4, <2>10, <2>11 DEF Inv
<1> QED
  BY <1>5, <1>6

(* What holds while a file is being read. *)
LEMMA Reading ==
  ASSUME IInv, NEW p \in Procs, at[p] = "download"
  PROVE  /\ call[p] \in Calls /\ call[p].h = "GetObjectNInfo"
         /\ req[p] = Nil /\ res[p] = Nil
         /\ Valid(call[p].rs, info[p].size) /\ info[p].size \in Nat
         /\ Offset(p) \in Nat /\ Length(p) \in Nat
         /\ Offset(p) + Length(p) <= info[p].size
         /\ info[p].size > 0 => Length(p) > 0
         /\ file[p].size \in Nat /\ Offset(p) + Length(p) <= file[p].size
         /\ Downloading(stream[p], Offset(p), Length(p))
         /\ stream[p].pos \in Nat /\ stream[p].pos <= file[p].size
<1>1. /\ call[p] \in Calls /\ call[p].h = "GetObjectNInfo"
      /\ req[p] = Nil /\ res[p] = Nil
  BY DEF IInv, Inv, HandlerInv
<1>2. /\ Valid(call[p].rs, info[p].size) /\ file[p].size \in Nat
      /\ Offset(p) + Length(p) <= file[p].size
      /\ Downloading(stream[p], Offset(p), Length(p))
      /\ stream[p].pos <= file[p].size
  BY DEF IInv, Inv, ReadInv
<1>3. info[p].size \in Nat
  BY <1>2 DEF Valid
<1>4. /\ Offset(p) \in Nat /\ Length(p) \in Nat
      /\ Offset(p) + Length(p) <= info[p].size
      /\ info[p].size > 0 => Length(p) > 0
  BY <1>2, RangeFits DEF Offset, Length
<1>5. stream[p].pos \in Nat
  BY <1>2 DEF Downloading, DownloadState
<1> QED
  BY <1>1, <1>2, <1>3, <1>4, <1>5

LEMMA RecvStep ==
  ASSUME IInv, NEW p \in Procs, Recv(p)
  PROVE  TypeInv' /\ Inv(p)'
<1> DEFINE s == stream[p]
<1>1. PICK k \in 1..ChunkSize :
        /\ s.pos + k <= file[p].size
        /\ stream' = [stream EXCEPT ![p] = Received(s, k)]
        /\ IF IsComplete(s, k) THEN Done(p, "nil", Nil) ELSE UNCHANGED <<at, ans>>
  BY DEF Recv
<1>2. /\ at[p] = "download" /\ UNCHANGED <<store, req, res, call, info, file, names, infos>>
      /\ UNCHANGED <<always, ever>>
  BY DEF Recv, ledger, seen
<1>3. k \in Nat \ {0}
  BY SMTT(20), Sizes
<1> DEFINE t == Received(s, k)
<1>4. /\ stream'[p] = t /\ call'[p] = call[p] /\ info'[p] = info[p] /\ file'[p] = file[p]
      /\ req'[p] = req[p] /\ res'[p] = res[p]
      /\ always'[p] = always[p] /\ ever'[p] = ever[p]
      /\ Offset(p)' = Offset(p) /\ Length(p)' = Length(p)
  BY <1>1, <1>2 DEF IInv, TypeInv, Offset, Length
<1>5. /\ Offset(p) \in Nat /\ Length(p) \in Nat /\ Downloading(s, Offset(p), Length(p))
  BY <1>2, Reading
<1>6. /\ ~IsComplete(s, k) => Downloading(t, Offset(p), Length(p))
      /\ IsComplete(s, k) =>
           Length(p) > 0 /\ ~t.torn /\ t.from = Offset(p) /\ t.n = Length(p)
      /\ t.pos = s.pos + k
  <2> HIDE DEF s, t
  <2> QED
    BY SMTT(20), <1>3, <1>5, DownloadGoesOn DEF t
<1>7. CASE IsComplete(s, k)
  <2>1. at' = [at EXCEPT ![p] = "done"] /\ DOMAIN ans' = Procs
    BY <1>1, <1>7 DEF Done, Goto, IInv, TypeInv
  <2>2. TypeInv'
    BY <1>1, <1>2, <2>1 DEF IInv, TypeInv, Stages
  <2>3. at'[p] = "done"
    BY <2>1 DEF IInv, TypeInv
  <2>4. /\ ~t.torn /\ t.from = Offset(p) /\ t.n = Length(p) /\ info[p].size # 0
        /\ file[p].size \in Nat /\ info[p].size \in Nat
    <3>1. /\ ~t.torn /\ t.from = Offset(p) /\ t.n = Length(p)
      BY <1>6, <1>7
    <3>2. info[p].size # 0 /\ file[p].size \in Nat /\ info[p].size \in Nat
      <4> HIDE DEF s, t
      <4> QED
        BY SMTT(20), <1>2, <1>6, <1>7, Reading
    <3> QED
      BY <3>1, <3>2
  <2>5. ASSUME NEW i \in 0..file[p].size + info[p].size
        PROVE  (t.from <= i /\ i < t.from + t.n) <=> InRange(call[p].rs, info[p].size, i)
    <3>1. i \in Int
      BY SMTT(20), <2>4
    <3>2. InRange(call[p].rs, info[p].size, i) <=>
            Offset(p) <= i /\ i < Offset(p) + Length(p)
      BY <1>2, <3>1, Reading, RangeIsDelimited DEF Offset, Length
    <3> HIDE DEF t
    <3> QED
      BY <2>4, <3>2
  <2>6. Served(p)'
    <3> HIDE DEF t
    <3> QED
      BY <1>4, <2>4, <2>5 DEF Served
  <2>7. call[p].h # "ListBuckets" /\ req'[p] = Nil /\ res'[p] = Nil /\ at[p] # "idle"
    BY <1>2, <1>4, Reading
  <2> QED
    BY <1>4, <2>2, <2>3, <2>6, <2>7, Ends DEF IInv
<1>8. CASE ~IsComplete(s, k)
  <2>1. UNCHANGED <<at, ans>>
    BY <1>1, <1>8
  <2>2. TypeInv'
    BY <1>1, <1>2, <2>1 DEF IInv, TypeInv
  <2>3. HandlerInv(p)'
    BY <1>2, <1>4, <2>1, Reading DEF HandlerInv
  <2>4. ReadInv(p)'
    <3>1. Valid(call'[p].rs, info'[p].size)
      BY <1>2, <1>4, Reading
    <3>2. file'[p].size \in Nat /\ Offset(p)' + Length(p)' <= file'[p].size
      BY <1>2, <1>4, Reading
    <3>3. Downloading(stream'[p], Offset(p)', Length(p)')
      BY <1>4, <1>6, <1>8
    <3>4. stream'[p].pos <= file'[p].size
      BY <1>1, <1>4, <1>6
    <3> QED
      BY <1>2, <2>1, <3>1, <3>2, <3>3, <3>4 DEF ReadInv, Served
  <2>5. ListInv(p)'
    BY <1>2, <2>1 DEF ListInv, Listing
  <2> QED
    BY <2>2, <2>3, <2>4, <2>5 DEF Inv
<1> QED
  BY <1>7, <1>8

LEMMA EndOfFileStep ==
  ASSUME IInv, NEW p \in Procs, EndOfFile(p)
  PROVE  TypeInv' /\ Inv(p)'
<1> DEFINE s == stream[p]
<1>1. /\ at[p] = "download" /\ s.pos = file[p].size
      /\ at' = [at EXCEPT ![p] = "done"] /\ DOMAIN ans' = Procs
      /\ UNCHANGED <<store, req, res, call, stream, info, file, names, infos, always, ever>>
  BY DEF EndOfFile, Done, Goto, IInv, TypeInv, ledger, locals, seen
<1>2. TypeInv'
  BY <1>1 DEF IInv, TypeInv, Stages
<1>3. at'[p] = "done"
  BY <1>1 DEF IInv, TypeInv
<1>4. /\ s \in DownloadState /\ s.start \in Nat /\ s.length \in Nat /\ s.n \in Nat
      /\ s.pos \in Nat
  BY <1>1, Reading DEF Downloading, DownloadState
<1>5. ~s.sub
  <2>1. ASSUME s.sub
        PROVE  /\ s.length > 0 /\ s.n + s.length = Length(p)
               /\ s.pos + s.start = Offset(p) + s.n
    BY <1>1, <2>1, Reading DEF Downloading
  <2> HIDE DEF s
  <2> QED
    BY SMTT(20), <1>1, <1>4, <2>1, Reading
<1>6. /\ ~s.torn /\ s.from = 0 /\ s.n = s.pos /\ Offset(p) = 0 /\ Length(p) = 0
  BY <1>1, <1>5, Reading DEF Downloading
<1>7. info[p].size = 0 /\ file[p].size \in Nat
  <2> HIDE DEF s
  <2> QED
    BY SMTT(20), <1>1, <1>6, Reading
<1>8. \A i \in 0..file[p].size + info[p].size :
        (s.from <= i /\ i < s.from + s.n) <=> i < file[p].size
  <2> HIDE DEF s
  <2> QED
    BY SMTT(20), <1>1, <1>6, <1>7
<1>9. Served(p)'
  <2> HIDE DEF s
  <2>1. ~s.torn
    BY <1>6
  <2> QED
    BY <1>1, <1>7, <1>8, <2>1 DEF Served, s
<1>10. call[p].h # "ListBuckets" /\ req'[p] = Nil /\ res'[p] = Nil /\ at[p] # "idle"
  BY <1>1, Reading
<1> QED
  BY <1>1, <1>2, <1>3, <1>9, <1>10, Ends DEF IInv

(* A listing goes on to the next name, or ends. *)
LEMMA NextInfoStep ==
  ASSUME IInv, NEW p \in Procs, NEW rest, NEW got, NextInfo(p, rest, got),
         UNCHANGED <<call, stream, info, file, seen>>, Listing(p),
         rest \subseteq Buckets, got \subseteq Buckets, Bracketed(p, rest \cup got)
  PROVE  TypeInv' /\ Inv(p)'
<1>1. /\ names' = [names EXCEPT ![p] = rest] /\ infos' = [infos EXCEPT ![p] = got]
      /\ UNCHANGED <<store, call, stream, info, file, always, ever>>
  BY DEF NextInfo, NextRequest, L!Answer, seen
<1>2. /\ at[p] \in {"first", "infos"} /\ call[p].h = "ListBuckets" /\ call[p] \in Calls
      /\ file[p] = Nil
  BY DEF Listing, IInv, Inv, HandlerInv
<1>3. CASE rest = {}
  <2>1. /\ req' = [req EXCEPT ![p] = Nil] /\ res' = [res EXCEPT ![p] = Nil]
        /\ at' = [at EXCEPT ![p] = "done"]
        /\ ans' = [ans EXCEPT ![p] = [err |-> toMinioErr("nil"), val |-> got]]
    BY <1>3 DEF NextInfo, L!Answer, Done, Goto
  <2>2. TypeInv'
    BY <1>1, <2>1 DEF IInv, TypeInv, Stages
  <2>3. /\ at'[p] = "done" /\ call'[p] = call[p] /\ req'[p] = Nil /\ res'[p] = Nil
        /\ file'[p] = file[p] /\ ans'[p].val = got
        /\ always'[p] = always[p] /\ ever'[p] = ever[p]
    BY <1>1, <2>1 DEF IInv, TypeInv
  <2>4. Bracketed(p, ans'[p].val)
    BY <1>3, <2>3 DEF Bracketed
  <2>5. Served(p)'
    BY <1>2, <2>3, NothingRead DEF IInv
  <2>6. at[p] # "idle"
    BY <1>2
  <2> QED
    BY <2>2, <2>3, <2>4, <2>5, <2>6, Ends DEF IInv
<1>4. CASE rest # {}
  <2>1. PICK b \in rest : NextRequest(p, [op |-> "GetBucketInfo", b |-> b])
    BY <1>4 DEF NextInfo
  <2> DEFINE r == [op |-> "GetBucketInfo", b |-> b]
  <2>2. r \in LedgerRequest /\ r.op = "GetBucketInfo" /\ r.b = b
    <3>1. r \in BucketRequest
      BY <2>1 DEF BucketRequest
    <3> QED
      BY <3>1 DEF LedgerRequest
  <2>3. /\ req' = [req EXCEPT ![p] = r] /\ res' = [res EXCEPT ![p] = Nil]
        /\ at' = [at EXCEPT ![p] = "infos"] /\ UNCHANGED ans
    BY <1>4, <2>1 DEF NextInfo, NextRequest, Goto
  <2> HIDE DEF r
  <2>4. TypeInv'
    BY <1>1, <2>2, <2>3 DEF IInv, TypeInv, Stages
  <2>5. /\ at'[p] = "infos" /\ call'[p] = call[p] /\ req'[p] = r /\ res'[p] = Nil
        /\ file'[p] = file[p] /\ names'[p] = rest /\ infos'[p] = got
        /\ always'[p] = always[p] /\ ever'[p] = ever[p] /\ store' = store
    BY <1>1, <2>3 DEF IInv, TypeInv
  <2>6. HandlerInv(p)'
    BY <1>2, <2>2, <2>5 DEF HandlerInv
  <2>7. ReadInv(p)'
    BY <2>5 DEF ReadInv, Served
  <2>8. ListInv(p)'
    <3>1. Bracketed(p, Existing)
      BY DEF IInv, Inv, ListInv
    <3>2. Existing' = Existing /\ \A S : Bracketed(p, S)' <=> Bracketed(p, S)
      BY <2>5 DEF Existing, Bracketed
    <3> QED
      BY <2>5, <3>1, <3>2 DEF ListInv, Listing, Bracketed
  <2> QED
    BY <2>4, <2>6, <2>7, <2>8 DEF Inv
<1> QED
  BY <1>3, <1>4

LEMMA ListBucketsStep ==
  ASSUME IInv, NEW p \in Procs, ListBuckets(p)
  PROVE  TypeInv' /\ Inv(p)'
<1>1. /\ at[p] = "first" /\ call[p].h = "ListBuckets" /\ res[p] # Nil /\ res[p].err = "nil"
      /\ NextInfo(p, res[p].val, {}) /\ UNCHANGED <<call, stream, info, file, seen>>
  BY DEF ListBuckets
<1>2. req[p] = FirstRequest(call[p]) /\ call[p] \in Calls
  BY <1>1 DEF IInv, Inv, HandlerInv
<1>3. req[p].op = "GetBucketNames"
  BY <1>1, <1>2, ParamFields, CallsAreCalls
<1>4. res[p].val \subseteq Buckets
  BY <1>1, <1>3 DEF IInv, Inv, HandlerInv
<1>5. Bracketed(p, res[p].val \cup {})
  BY <1>1 DEF IInv, Inv, ListInv, Bracketed
<1>6. Listing(p)
  BY <1>1 DEF Listing
<1> QED
  BY SMTT(20), <1>1, <1>4, <1>5, <1>6, NextInfoStep

LEMMA GetBucketInfoStep ==
  ASSUME IInv, NEW p \in Procs, GetBucketInfo(p)
  PROVE  TypeInv' /\ Inv(p)'
<1> DEFINE rest == names[p] \ {req[p].b}
           got == infos[p] \cup {req[p].b}
<1>1. /\ at[p] = "infos" /\ NextInfo(p, rest, got)
      /\ UNCHANGED <<call, stream, info, file, seen>>
  BY DEF GetBucketInfo
<1>2. call[p].h = "ListBuckets" /\ req[p].b \in names[p]
  BY <1>1 DEF IInv, Inv, HandlerInv
<1>3. rest \subseteq Buckets /\ got \subseteq Buckets
  BY <1>2 DEF IInv, TypeInv
<1>4. rest \cup got = names[p] \cup infos[p]
  BY <1>2
<1>5. Bracketed(p, rest \cup got)
  BY <1>1, <1>4 DEF IInv, Inv, ListInv
<1>6. Listing(p)
  BY <1>1, <1>2 DEF Listing
<1> HIDE DEF rest, got
<1> QED
  BY <1>1, <1>3, <1>5, <1>6, NextInfoStep

LEMMA ReturnStep ==
  ASSUME IInv, NEW p \in Procs, Return(p)
  PROVE  TypeInv' /\ Inv(p)'
<1>1. TypeInv'
  BY DEF Return, Forget, Goto, IInv, TypeInv, Stages, ledger
<1>2. /\ at[p] = "done" /\ at'[p] = "idle" /\ req'[p] = req[p] /\ res'[p] = res[p]
      /\ file'[p] = Nil
  BY DEF Return, Forget, Goto, IInv, TypeInv, ledger
<1>3. HandlerInv(p)'
  BY <1>2 DEF IInv, Inv, HandlerInv
<1>4. ReadInv(p)'
  BY <1>2 DEF ReadInv, Served
<1>5. ListInv(p)'
  BY <1>2 DEF ListInv, Listing
<1> QED
  BY <1>1, <1>3, <1>4, <1>5 DEF Inv

-----------------------------------------------------------------------------
(* The ledger serves a request: what exists may change for every listing *)

LEMMA ServeStep ==
  ASSUME IInv, NEW p \in Procs, Serve(p)
  PROVE  IInv'
<1>1. /\ req[p] # Nil /\ res' = [res EXCEPT ![p] = L!AnswerTo(store, req[p])]
      /\ store' = L!StoreAfter(store, req[p])
      /\ UNCHANGED <<req, call, at, stream, info, file, names, infos, ans>>
  BY DEF Serve, L!Serve, locals
<1>2. /\ always' = [q \in Procs |-> IF Listing(q) THEN always[q] \cap Existing'
                                    ELSE always[q]]
      /\ ever' = [q \in Procs |-> IF Listing(q) THEN ever[q] \cup Existing' ELSE ever[q]]
  BY DEF Serve
<1>3. req[p] \in LedgerRequest /\ store \in Store
  BY <1>1 DEF IInv, TypeInv
<1>4. store' \in Store
  BY <1>1, <1>3, StoreStays
<1>5. Existing' \subseteq Buckets
  BY DEF Existing
<1>6. TypeInv'
  <2>1. always' \in [Procs -> SUBSET Buckets] /\ ever' \in [Procs -> SUBSET Buckets]
    BY <1>2, <1>5 DEF IInv, TypeInv
  <2> QED
    BY <1>1, <1>4, <2>1 DEF IInv, TypeInv
<1>7. ASSUME NEW q \in Procs
      PROVE  Inv(q)'
  <2>1. /\ req'[q] = req[q] /\ call'[q] = call[q] /\ at'[q] = at[q] /\ ans'[q] = ans[q]
        /\ stream'[q] = stream[q] /\ info'[q] = info[q] /\ file'[q] = file[q]
        /\ names'[q] = names[q] /\ infos'[q] = infos[q]
    BY <1>1
  <2>2. /\ q = p => res'[q] = L!AnswerTo(store, req[q])
        /\ q # p => res'[q] = res[q]
    BY <1>1 DEF IInv, TypeInv
  <2>3. /\ Listing(q) => /\ always'[q] = always[q] \cap Existing'
                         /\ ever'[q] = ever[q] \cup Existing'
        /\ ~Listing(q) => always'[q] = always[q] /\ ever'[q] = ever[q]
    BY <1>2
  <2>4. HandlerInv(q)'
    <3>1. CASE q = p
      <4>1. res'[q].err = "nil" =>
              /\ req[q].op = "ObjectInfo" => res'[q].val \in Object
              /\ req[q].op = "GetBucketNames" => res'[q].val \in SUBSET Buckets
        <5>1. res'[q].err = "nil" /\ req[q].op = "ObjectInfo" => res'[q].val \in Object
          BY <1>3, <2>2, <3>1, AnswerObject
        <5>2. req[q].op = "GetBucketNames" => res'[q].val \in SUBSET Buckets
          BY SMTT(20), <2>2, <3>1, AnswerNames
        <5> QED
          BY <5>1, <5>2
      <4> QED
        BY <1>1, <2>1, <3>1, <4>1 DEF IInv, Inv, HandlerInv
    <3>2. CASE q # p
      BY <2>1, <2>2, <3>2 DEF IInv, Inv, HandlerInv
    <3> QED
      BY <3>1, <3>2
  <2>5. ReadInv(q)'
    BY <2>1 DEF IInv, Inv, ReadInv, Served, Offset, Length
  <2>6. ListInv(q)'
    <3>1. Listing(q)' <=> Listing(q)
      BY <2>1 DEF Listing
    <3>2. ASSUME NEW S, Bracketed(q, S)
          PROVE  Bracketed(q, S)'
      BY <2>3, <3>2 DEF Bracketed
    <3>3. Listing(q)' => Bracketed(q, Existing)'
      BY <2>3, <3>1 DEF Bracketed
    <3>4. ASSUME at[q] = "first", call[q].h = "ListBuckets", res'[q] # Nil,
                 res'[q].err = "nil"
          PROVE  Bracketed(q, res[q].val)'
      <4>1. CASE q = p
        <5>1. req[q] = FirstRequest(call[q]) /\ call[q] \in Calls
          BY <3>4 DEF IInv, Inv, HandlerInv
        <5>2. req[q].op = "GetBucketNames"
          BY <3>4, <5>1, ParamFields, CallsAreCalls
        <5>3. store' = store /\ res'[q].val = {b \in Buckets : store[b] # Nil}
          <6>1. /\ L!AnswerTo(store, req[q]).val = {b \in Buckets : store[b] # Nil}
                /\ L!StoreAfter(store, req[q]) = store
            BY <5>2, AnswerNames
          <6>2. store' = L!StoreAfter(store, req[q]) /\ res'[q] = L!AnswerTo(store, req[q])
            BY <1>1, <2>2, <4>1
          <6> QED
            BY <6>1, <6>2
        <5>4. res'[q].val = Existing'
          BY <5>3 DEF Existing
        <5>5. Listing(q)'
          BY <3>1, <3>4 DEF Listing
        <5> QED
          BY <3>3, <5>4, <5>5 DEF Bracketed
      <4>2. CASE q # p
        <5>1. Bracketed(q, res[q].val)
          BY <2>2, <3>4, <4>2 DEF IInv, Inv, ListInv
        <5> QED
          BY <2>2, <2>3, <4>2, <5>1 DEF Bracketed
      <4> QED
        BY <4>1, <4>2
    <3>5. at[q] = "infos" => Bracketed(q, names[q] \cup infos[q])'
      <4>1. at[q] = "infos" => Bracketed(q, names[q] \cup infos[q])
        BY DEF IInv, Inv, ListInv
      <4> QED
        BY <2>1, <2>3, <4>1 DEF Bracketed
    <3>6. at[q] = "done" /\ call[q].h = "ListBuckets" /\ ans[q].err = "nil" =>
            Bracketed(q, ans[q].val)'
      <4>1. at[q] = "done" /\ call[q].h = "ListBuckets" /\ ans[q].err = "nil" =>
              Bracketed(q, ans[q].val)
        BY DEF IInv, Inv, ListInv
      <4> QED
        BY <2>1, <2>3, <4>1 DEF Bracketed
    <3> QED
      BY <2>1, <3>3, <3>4, <3>5, <3>6 DEF ListInv
  <2> QED
    BY <2>4, <2>5, <2>6 DEF Inv
<1> QED
  BY <1>6, <1>7 DEF IInv

-----------------------------------------------------------------------------
LEMMA IInvInit == Init => IInv
<1> SUFFICES ASSUME Init PROVE IInv
  OBVIOUS
<1>1. TypeInv
  BY DEF Init, L!Init, TypeInv, Store, Stages
<1>2. ASSUME NEW p \in Procs
      PROVE  Inv(p)
  <2>1. at[p] = "idle" /\ req[p] = Nil /\ res[p] = Nil /\ file[p] = Nil
    BY DEF Init, L!Init
  <2>2. HandlerInv(p)
    BY <2>1 DEF HandlerInv
  <2>3. ReadInv(p)
    BY <2>1 DEF ReadInv, Served
  <2>4. ListInv(p)
    BY <2>1 DEF ListInv, Listing
  <2> QED
    BY <2>2, <2>3, <2>4 DEF Inv
<1> QED
  BY <1>1, <1>2 DEF IInv

LEMMA LocalStep ==
  ASSUME IInv, NEW p \in Procs, Local(p)
  PROVE  IInv'
<1>1. TypeInv' /\ Inv(p)'
  BY CallStep, LedgerFailsStep, StreamFailsStep, ReplyStep, LedgerErrorStep,
     DeleteObjectsStep, UploadFileStep, SendStep, CloseAndRecvStep, PutObjectStep,
     GetObjectNInfoStep, GetObjectStep, RecvStep, EndOfFileStep, ListBucketsStep,
     GetBucketInfoStep, ReturnStep DEF Local
<1>2. ASSUME NEW q \in Procs, q # p
      PROVE  Inv(q)'
  BY <1>2, OthersAreQuiet, QuietInv DEF IInv
<1> QED
  BY <1>1, <1>2 DEF IInv

LEMMA IInvNext == IInv /\ [Next]_vars => IInv'
<1> SUFFICES ASSUME IInv, [Next]_vars PROVE IInv'
  OBVIOUS
<1>1. ASSUME NEW p \in Procs, Call(p) \/ Step(p) \/ LedgerFails(p) \/ StreamFails(p)
      PROVE  IInv'
  <2>1. Serve(p) \/ Local(p)
    BY <1>1 DEF Step, Local
  <2> QED
    BY <2>1, ServeStep, LocalStep
<1>2. CASE UNCHANGED vars
  <2>1. UNCHANGED <<store, req, res, call, at, stream, info, file, names, infos, ans>>
        /\ UNCHANGED <<always, ever>>
    BY <1>2 DEF vars, ledger, locals, seen
  <2>2. TypeInv'
    BY <2>1 DEF IInv, TypeInv
  <2>3. \A q \in Procs : Inv(q)'
    BY <2>1, QuietInv DEF IInv, Quiet
  <2> QED
    BY <2>2, <2>3 DEF IInv
<1> QED
  BY <1>1, <1>2 DEF Next

(***************************************************************************)
(* The handlers keep the inductive invariant: what each has asked of the   *)
(* ledger, read, written and listed so far belongs to its call.            *)
(***************************************************************************)
THEOREM HandlersHold == Spec => []IInv
BY IInvInit, IInvNext, PTL DEF Spec

(***************************************************************************)
(* Every object in the ledger has the whole file that some client sent,    *)
(* whatever the sizes and the chunks and wherever an upload breaks off:    *)
(* ipfsFileUpload reads to EOF before PutObject makes its ledger request.  *)
(***************************************************************************)
THEOREM FilesStayWhole == Spec => []StoredFilesAreWhole
<1>1. IInv => StoredFilesAreWhole
  <2> SUFFICES ASSUME IInv, NEW b \in Existing, NEW o \in Objects,
                      store[b].objs[o] # Nil
               PROVE  store[b].objs[o].data \in Datas
    BY DEF StoredFilesAreWhole
  <2>1. b \in Buckets /\ store[b] # Nil
    BY DEF Existing
  <2>2. store[b].objs[o] \in Object
    BY <2>1 DEF IInv, TypeInv, Store, BucketBlock
  <2> QED
    BY <2>2 DEF Object
<1> QED
  BY <1>1, HandlersHold, PTL

(***************************************************************************)
(* A read that ends without an error has written exactly the range that    *)
(* the client asked for, in order and once each, for every file and chunk  *)
(* size and every range, also when the object is replaced between the      *)
(* lookup of GetObjectNInfo and that of GetObject.                         *)
(***************************************************************************)
THEOREM ReadsAreServed == Spec => []ReadsServeTheRange
<1>1. IInv => ReadsServeTheRange
  BY DEF IInv, Inv, ReadInv, Served, ReadsServeTheRange
<1> QED
  BY <1>1, HandlersHold, PTL

(***************************************************************************)
(* A successful ListBuckets lists every bucket that existed all the time   *)
(* of the call and none that existed at no time of it, for any number of   *)
(* goroutines that create and delete buckets in between.                   *)
(***************************************************************************)
THEOREM ListingsAreBracketed == Spec => []ListingIsBracketed
<1>1. IInv => ListingIsBracketed
  BY DEF IInv, Inv, ListInv, Bracketed, ListingIsBracketed
<1> QED
  BY <1>1, HandlersHold, PTL
=============================================================================
