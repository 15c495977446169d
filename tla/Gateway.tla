------------------------------ MODULE Gateway ------------------------------
(***************************************************************************)
(* The handlers of gateway-s3x-object.go and gateway-s3x-bucket.go as      *)
(* sequences of requests to the ledger, which is AtomicLedger here, and of *)
(* steps of the file streams of ipfs.go.  A file is an identity and a      *)
(* size: data in an object is the file's hash and the size that the        *)
(* gateway recorded for it.                                                *)
(***************************************************************************)
EXTENDS LedgerTypes, Streams

CONSTANTS
  Procs,        \* the goroutines that serve requests
  ChunkSize,    \* the most that one Read or one Recv delivers
  Ranges,       \* the Range headers that clients send
  Calls,        \* the calls that clients make
  CanFail       \* whether IPFS, the datastore or the client may fail

(***************************************************************************)
(* The handlers' parameters.  A handler of one ledger request has that     *)
(* request as its parameter.                                               *)
(***************************************************************************)
OneRequest ==
  {<<"MakeBucketWithLocation", "CreateBucket">>, <<"DeleteBucket", "DeleteBucket">>,
   <<"GetBucketInfo", "GetBucketInfo">>, <<"DeleteObject", "RemoveObject">>,
   <<"GetObjectInfo", "ObjectInfo">>, <<"ListObjects", "GetObjectInfos">>,
   <<"ListObjectsV2", "GetObjectInfos">>, <<"GetHash", "GetBucketHash">>,
   <<"GetHash", "ObjectInfo">>, <<"GetHash", "GetObjectHash">>}

Param ==
  [h : {"PutObject"}, b : Buckets, o : Objects, data : Datas]
    \cup [h : {"GetObjectNInfo"}, b : Buckets, o : Objects, rs : Ranges]
    \cup [h : {"DeleteObjects"}, b : Buckets, names : SUBSET Objects]
    \cup [h : {"ListBuckets"}]
    \cup UNION {[h : {x[1]}, r : {r \in Request : r.op = x[2]}] : x \in OneRequest}

ASSUME Sizes ==
  /\ ChunkSize \in Nat \ {0}
  /\ \A d \in Datas : d.size \in Nat /\ d = [id |-> d.id, size |-> d.size]
  /\ \A h \in Ranges : IsRangeSpec(h)

ASSUME CallsAreCalls == Calls \subseteq Param

VARIABLES
  store, req, res,  \* of the ledger
  call,             \* the handler's parameters, Nil when the goroutine is idle
  at,               \* its next step
  stream,           \* the state of its upload or download
  info,             \* objinfo: what GetObjectNInfo tells the client
  file,             \* what GetObjectDataHash returned: the file to be read
  names, infos,     \* ListBuckets: the names still to do, the buckets done
  ans,              \* the answer of the handler
  always, ever      \* the buckets that were there all the time, and at some
                    \* time, since ListBuckets was called

L == INSTANCE AtomicLedger

ledger == <<store, req, res>>
locals == <<stream, info, file, names, infos>>
seen   == <<always, ever>>
vars   == <<ledger, call, at, locals, ans, seen>>

FirstRequest(c) ==
  CASE c.h = "PutObject"      -> [op |-> "AssertBucketExits", b |-> c.b]
    [] c.h = "GetObjectNInfo" -> [op |-> "ObjectInfo", b |-> c.b, o |-> c.o]
    [] c.h = "DeleteObjects"  ->
         [op |-> "RemoveObjects", b |-> c.b, names |-> c.names]
    [] c.h = "ListBuckets"    -> [op |-> "GetBucketNames"]
    [] OTHER                  -> c.r

toMinioErr(e) ==
  CASE e = "ErrLedgerBucketDoesNotExist" -> "BucketNotFound"
    [] e = "ErrLedgerObjectDoesNotExist" -> "ObjectNotFound"
    [] e = "ErrLedgerBucketExists"       -> "BucketAlreadyExists"
    [] OTHER                             -> e

Init ==
  /\ L!Init
  /\ call = [p \in Procs |-> Nil]
  /\ at = [p \in Procs |-> "idle"]
  /\ stream = [p \in Procs |-> Nil]
  /\ info = [p \in Procs |-> Nil]
  /\ file = [p \in Procs |-> Nil]
  /\ names = [p \in Procs |-> {}]
  /\ infos = [p \in Procs |-> {}]
  /\ ans = [p \in Procs |-> Nil]
  /\ always = [p \in Procs |-> {}]
  /\ ever = [p \in Procs |-> {}]

Existing == {b \in Buckets : store[b] # Nil}

Listing(p) == at[p] \in {"first", "infos"} /\ call[p].h = "ListBuckets"

-----------------------------------------------------------------------------
Goto(p, l) == at' = [at EXCEPT ![p] = l]

(* The handler is done and answers e, with v when it answers nothing else. *)
Done(p, e, v) ==
  /\ ans' = [ans EXCEPT ![p] = [err |-> toMinioErr(e), val |-> v]]
  /\ Goto(p, "done")

(* MinIO calls a handler, which makes its first request to the ledger. *)
Call(p) ==
  /\ at[p] = "idle"
  /\ \E c \in Calls :
       /\ call' = [call EXCEPT ![p] = c]
       /\ L!Call(p, FirstRequest(c))
       /\ LET now == IF c.h = "ListBuckets" THEN Existing ELSE {}
          IN  /\ always' = [always EXCEPT ![p] = now]
              /\ ever' = [ever EXCEPT ![p] = now]
  /\ Goto(p, "first")
  /\ UNCHANGED <<locals, ans>>

(* The ledger serves a request, or fails; the others' histories go on. *)
Serve(p) ==
  /\ L!Serve(p)
  /\ always' = [q \in Procs |-> IF Listing(q) THEN always[q] \cap Existing'
                                ELSE always[q]]
  /\ ever' = [q \in Procs |-> IF Listing(q) THEN ever[q] \cup Existing'
                              ELSE ever[q]]
  /\ UNCHANGED <<call, at, locals, ans>>

LedgerFails(p) ==
  /\ CanFail
  /\ L!Fail(p)
  /\ UNCHANGED <<call, at, locals, ans, seen>>

(* What follows an answer of the ledger: the next request, or none. *)
NextRequest(p, r) ==
  /\ req' = [req EXCEPT ![p] = r]
  /\ res' = [res EXCEPT ![p] = Nil]
  /\ UNCHANGED store

-----------------------------------------------------------------------------
(* The handlers that return whatever the ledger answers.  GetHash, of the  *)
(* info API, has one status for all errors.                                *)
Reply(p) ==
  /\ at[p] = "first" /\ "r" \in DOMAIN call[p]
  /\ L!Answer(p)
  /\ Done(p, IF call[p].h = "GetHash" /\ res[p].err # "nil" THEN "Internal"
             ELSE res[p].err, res[p].val)
  /\ UNCHANGED <<call, locals, seen>>

(* Any handler's ledger request fails. *)
LedgerError(p) ==
  /\ res[p] # Nil /\ res[p].err # "nil" /\ "r" \notin DOMAIN call[p]
  /\ L!Answer(p)
  /\ Done(p, res[p].err, Nil)
  /\ UNCHANGED <<call, locals, seen>>

(***************************************************************************)
(* DeleteObjects answers one error for each missing name.  The caller, the *)
(* front end, looks up one for each name that it gave, and panics when     *)
(* there are fewer.                                                        *)
(***************************************************************************)
DeleteObjects(p) ==
  /\ at[p] = "first" /\ call[p].h = "DeleteObjects"
  /\ res[p] # Nil /\ res[p].err = "nil"
  /\ L!Answer(p)
  /\ Done(p, IF Cardinality(res[p].val) < Cardinality(call[p].names)
             THEN "panic" ELSE "nil", res[p].val)
  /\ UNCHANGED <<call, locals, seen>>

-----------------------------------------------------------------------------
(* PutObject: the bucket exists, the upload begins. *)
UploadFile(p) ==
  /\ at[p] = "first" /\ call[p].h = "PutObject"
  /\ res[p] # Nil /\ res[p].err = "nil"
  /\ L!Answer(p)
  /\ stream' = [stream EXCEPT ![p] = 0]
  /\ Goto(p, "upload")
  /\ UNCHANGED <<call, info, file, names, infos, ans, seen>>

(* Mutant: EOF ends the loop also when the last Read brought data with it. *)
SendDropsLast(p) ==
  /\ at[p] = "upload"
  /\ \E k \in 1..ChunkSize, eof \in BOOLEAN :
       /\ stream[p] + k <= call[p].data.size
       /\ eof => stream[p] + k = call[p].data.size
       /\ IF eof
          THEN /\ NextRequest(p, [op |-> "PutObject", b |-> call[p].b, o |-> call[p].o,
                              data |-> [call[p].data EXCEPT !.size = stream[p]]])
               /\ Goto(p, "put")
               /\ stream' = [stream EXCEPT ![p] = Nil]
          ELSE /\ stream' = [stream EXCEPT ![p] = @ + k]
               /\ UNCHANGED <<ledger, at>>
  /\ UNCHANGED <<call, info, file, names, infos, ans, seen>>

(* One Read of at most a chunk, and its Send, which EOF does not prevent. *)
Send(p) ==
  /\ at[p] = "upload"
  /\ \E k \in 1..ChunkSize :
       /\ stream[p] + k <= call[p].data.size
       /\ stream' = [stream EXCEPT ![p] = @ + k]
  /\ UNCHANGED <<ledger, call, at, info, file, names, infos, ans, seen>>

(* Mutant: the loop does not end at EOF. *)
CloseAndRecvForever(p) ==
  /\ at[p] = "upload" /\ stream[p] = call[p].data.size
  /\ UNCHANGED vars

(* Read reports EOF and nothing else: CloseAndRecv, then the ledger. *)
CloseAndRecv(p) ==
  /\ at[p] = "upload" /\ stream[p] = call[p].data.size
  /\ NextRequest(p, [op |-> "PutObject", b |-> call[p].b, o |-> call[p].o,
                 data |-> [call[p].data EXCEPT !.size = stream[p]]])
  /\ stream' = [stream EXCEPT ![p] = Nil]
  /\ Goto(p, "put")
  /\ UNCHANGED <<call, info, file, names, infos, ans, seen>>

PutObject(p) ==
  /\ at[p] = "put" /\ res[p] # Nil /\ res[p].err = "nil"
  /\ L!Answer(p)
  /\ Done(p, "nil", Nil)
  /\ UNCHANGED <<call, locals, seen>>

-----------------------------------------------------------------------------
(* GetObjectNInfo: the answer, and the goroutine that runs GetObject. *)
GetObjectNInfo(p) ==
  LET c == call[p] IN
  /\ at[p] = "first" /\ c.h = "GetObjectNInfo"
  /\ res[p] # Nil /\ res[p].err = "nil"
  /\ LET size == res[p].val.data.size IN
     IF IsInvalidRange(c.rs, size)
     THEN /\ L!Answer(p)
          /\ Done(p, "InvalidRange", Nil)
          /\ UNCHANGED locals
     ELSE /\ NextRequest(p, [op |-> "ObjectInfo", b |-> c.b, o |-> c.o])
          /\ info' = [info EXCEPT ![p] = res[p].val.data]
          /\ stream' = [stream EXCEPT ![p] =
               Download(GetOffset(c.rs, size), GetLength(c.rs, size))]
          /\ Goto(p, "hash")
          /\ UNCHANGED <<file, names, infos, ans>>
  /\ UNCHANGED <<call, seen>>

(* Mutant: the range is not compared with the file. *)
GetObjectUnchecked(p) ==
  /\ at[p] = "hash" /\ res[p] # Nil /\ res[p].err = "nil"
  /\ L!Answer(p)
  /\ Goto(p, "download")
  /\ file' = [file EXCEPT ![p] = res[p].val.data]
  /\ UNCHANGED <<call, stream, info, names, infos, ans, seen>>

(* GetObject: the file is looked up, again, and must hold the range. *)
GetObject(p) ==
  /\ at[p] = "hash" /\ res[p] # Nil /\ res[p].err = "nil"
  /\ L!Answer(p)
  /\ IF res[p].val.data.size < stream[p].start + stream[p].length
     THEN Done(p, "InvalidRange", Nil) /\ UNCHANGED file
     ELSE /\ Goto(p, "download")
          /\ file' = [file EXCEPT ![p] = res[p].val.data]
          /\ UNCHANGED ans
  /\ UNCHANGED <<call, stream, info, names, infos, seen>>

(* One Recv and the Write of what is wanted of it. *)
Recv(p) ==
  /\ at[p] = "download"
  /\ \E k \in 1..ChunkSize :
       /\ stream[p].pos + k <= file[p].size
       /\ stream' = [stream EXCEPT ![p] = Received(@, k)]
       /\ IF IsComplete(stream[p], k) THEN Done(p, "nil", Nil)
          ELSE UNCHANGED <<at, ans>>
  /\ UNCHANGED <<ledger, call, info, file, names, infos, seen>>

(* Recv reports EOF. *)
EndOfFile(p) ==
  /\ at[p] = "download" /\ stream[p].pos = file[p].size
  /\ Done(p, "nil", Nil)
  /\ UNCHANGED <<ledger, call, locals, seen>>

(* Read or Send, Recv or Write fail: the client or IPFS went away. *)
StreamFails(p) ==
  /\ CanFail
  /\ at[p] \in {"upload", "download"}
  /\ Done(p, "backend", Nil)
  /\ UNCHANGED <<ledger, call, locals, seen>>

-----------------------------------------------------------------------------
(* ListBuckets: the names, then the information of one after the other. *)
NextInfo(p, rest, got) ==
  /\ names' = [names EXCEPT ![p] = rest]
  /\ infos' = [infos EXCEPT ![p] = got]
  /\ IF rest = {} THEN L!Answer(p) /\ Done(p, "nil", got)
     ELSE /\ \E b \in rest : NextRequest(p, [op |-> "GetBucketInfo", b |-> b])
          /\ Goto(p, "infos")
          /\ UNCHANGED ans

ListBuckets(p) ==
  /\ at[p] = "first" /\ call[p].h = "ListBuckets"
  /\ res[p] # Nil /\ res[p].err = "nil"
  /\ NextInfo(p, res[p].val, {})
  /\ UNCHANGED <<call, stream, info, file, seen>>

(* Mutant: a bucket that is gone ends the listing. *)
GetBucketInfoBreaks(p) ==
  /\ at[p] = "infos" /\ res[p] # Nil
  /\ IF res[p].err = "nil"
     THEN NextInfo(p, names[p] \ {req[p].b}, infos[p] \cup {req[p].b})
     ELSE L!Answer(p) /\ Done(p, "nil", infos[p]) /\ UNCHANGED <<names, infos>>
  /\ UNCHANGED <<call, stream, info, file, seen>>

GetBucketInfo(p) ==
  /\ at[p] = "infos" /\ res[p] # Nil /\ res[p].err = "nil"
  /\ NextInfo(p, names[p] \ {req[p].b}, infos[p] \cup {req[p].b})
  /\ UNCHANGED <<call, stream, info, file, seen>>

-----------------------------------------------------------------------------
(* The answer is delivered and the goroutine ends. *)
Forget(p) ==
  /\ call' = [call EXCEPT ![p] = Nil]
  /\ stream' = [stream EXCEPT ![p] = Nil]
  /\ info' = [info EXCEPT ![p] = Nil]
  /\ file' = [file EXCEPT ![p] = Nil]
  /\ names' = [names EXCEPT ![p] = {}]
  /\ infos' = [infos EXCEPT ![p] = {}]
  /\ ans' = [ans EXCEPT ![p] = Nil]
  /\ always' = [always EXCEPT ![p] = {}]
  /\ ever' = [ever EXCEPT ![p] = {}]

Return(p) ==
  /\ at[p] = "done"
  /\ Forget(p)
  /\ Goto(p, "idle")
  /\ UNCHANGED ledger

Step(p) ==
  \/ Serve(p) \/ Reply(p) \/ LedgerError(p) \/ DeleteObjects(p)
  \/ UploadFile(p) \/ Send(p) \/ CloseAndRecv(p) \/ PutObject(p)
  \/ GetObjectNInfo(p) \/ GetObject(p) \/ Recv(p) \/ EndOfFile(p)
  \/ ListBuckets(p) \/ GetBucketInfo(p) \/ Return(p)

Next ==
  \E p \in Procs : Call(p) \/ Step(p) \/ LedgerFails(p) \/ StreamFails(p)

Spec == Init /\ [][Next]_vars

(* Runnable goroutines run, and calls to the backends return; none of them *)
(* has to fail.                                                            *)
FairSpec == Spec /\ \A p \in Procs : WF_vars(Step(p))

-----------------------------------------------------------------------------
(***************************************************************************)
(* Every object in the ledger has a whole file that some client sent:      *)
(* ipfsFileUpload neither loses the end of the content (a Read may deliver *)
(* data together with EOF) nor lets PutObject record an upload that broke  *)
(* off.                                                                    *)
(***************************************************************************)
StoredFilesAreWhole ==
  \A b \in Existing, o \in Objects :
    store[b].objs[o] # Nil => store[b].objs[o].data \in Datas

(***************************************************************************)
(* A read that ends without an error has written, in order and once each,  *)
(* exactly the positions that the client's range names in a file of the    *)
(* size that GetObjectNInfo reported; when that size is 0, ipfsFileDownload *)
(* takes the empty range for the whole file it finds.  This is so even     *)
(* when the object is replaced between the two lookups.                    *)
(***************************************************************************)
ReadsServeTheRange ==
  \A p \in Procs :
    (at[p] = "done" /\ file[p] # Nil /\ ans[p].err = "nil") =>
      LET s == stream[p]
      IN  /\ ~s.torn
          /\ \A i \in 0..file[p].size + info[p].size :
               (s.from <= i /\ i < s.from + s.n) <=>
                 IF info[p].size = 0 THEN i < file[p].size
                 ELSE InRange(call[p].rs, info[p].size, i)

(***************************************************************************)
(* A successful ListBuckets lists every bucket that existed from its call  *)
(* to its answer, and none that existed at no time in between, although    *)
(* the names and each bucket's information are separate ledger requests.   *)
(***************************************************************************)
ListingIsBracketed ==
  \A p \in Procs :
    (at[p] = "done" /\ call[p].h = "ListBuckets" /\ ans[p].err = "nil") =>
      always[p] \subseteq ans[p].val /\ ans[p].val \subseteq ever[p]

(***************************************************************************)
(* Every handler returns: the upload and download loops end, and each      *)
(* answer of the ledger is followed by a step.                             *)
(***************************************************************************)
EveryHandlerReturns == \A p \in Procs : at[p] # "idle" ~> at[p] = "idle"

(***************************************************************************)
(* The front end answers a bulk deletion that the ledger carried out.      *)
(***************************************************************************)
BulkDeletesAreAnswered ==
  \A p \in Procs : at[p] = "done" => ans[p].err # "panic"
=============================================================================
