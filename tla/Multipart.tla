----------------------------- MODULE Multipart -----------------------------
(***************************************************************************)
(* Multipart uploads of the s3x gateway: the handlers of                   *)
(* gateway-s3x-multipart.go and the ledger functions under them.  An       *)
(* upload is a MultipartUpload message, cached in l.MultipartUploads,      *)
(* shared by pointer, and saved whole under one datastore key.             *)
(*                                                                         *)
(* plocker is a RWMutex per upload; pmapLocker makes every access to the   *)
(* map one step, the datastore call inside it included.  A request to the  *)
(* bucket ledger is one step, as AtomicLedger promises.  All uploads are   *)
(* to one bucket.                                                          *)
(***************************************************************************)
EXTENDS Integers, FiniteSets, Sequences

CONSTANTS
  Procs,        \* the goroutines that serve requests
  Ids,          \* upload ids, as many as ksuid.New may hand out
  Objects,      \* object names
  Parts,        \* part numbers that clients use
  MaxPart,      \* the largest part number the ledger accepts (10000)
  Datas,        \* contents of parts
  Empty,        \* the content of a part of size 0
  Puts,         \* pairs of a part number and a content that clients upload
  Lists,        \* the part lists that CompleteMultipartUpload may be given
  Addrs,        \* addresses for MultipartUpload messages
  Failing,      \* the steps whose backend call may fail
  CanCrash,     \* whether the process may stop and start again
  Nil           \* nil, a missing key, no request

ASSUME Numbers == Parts \subseteq Int /\ MaxPart \in Int /\ Addrs \subseteq Int

ASSUME Requests == Puts \subseteq Parts \X Datas /\ Lists \subseteq Seq(Parts)

(* The steps that call the backend. *)
ASSUME BackendSteps ==
  Failing \subseteq {"upload", "newput", "get", "putpart", "build", "putobject", "delete"}

(* Every upload may be cached and every goroutine may hold one more. *)
ASSUME EnoughAddrs == Cardinality(Addrs) > Cardinality(Ids) + Cardinality(Procs)

VARIABLES
  exists,       \* the bucket is in the ledger
  store,        \* its objects
  ds,           \* the datastore: upload id -> marshalled MultipartUpload or Nil
  uploads,      \* l.MultipartUploads: upload id -> address or Nil
  heap,         \* address -> MultipartUpload
  readers,      \* plocker: upload id -> goroutines that hold it for reading
  writer,       \* plocker: upload id -> goroutine that holds or awaits it
  pc, req, ans, \* each goroutine's next step, request and answer
  m,            \* its local variable m *MultipartUpload
  buf,          \* PutObjectPart: data; CompleteMultipartUpload: the Object
  issued,       \* ids that clients know
  deleted,      \* ids that DeleteMultipartID has removed
  expected      \* id -> part number -> the contents a client may expect, any
                \* once the upload was deleted

locks  == <<readers, writer>>
ledger == <<exists, store>>
known  == <<issued, deleted, expected>>
vars   == <<ledger, ds, uploads, heap, locks, pc, req, ans, m, buf, known>>

(***************************************************************************)
(* A size is modelled by the contents it is the size of.                   *)
(***************************************************************************)
Content == UNION {[1..Len(l) -> Datas] : l \in Lists}
Upload  == [name : Objects, size : Content \cup {Nil},
            parts : [Parts -> Datas \cup {Nil}]]
Object  == [name : Objects, size : Content \cup {Nil}, data : Content]
NoParts == [n \in Parts |-> Nil]

Request ==
  [op : {"NewMultipartUpload"}, id : Ids, o : Objects]
    \cup [op : {"PutObjectPart"}, id : Ids, put : Puts]
    \cup [op : {"ListObjectParts", "AbortMultipartUpload"}, id : Ids, o : Objects]
    \cup [op : {"CompleteMultipartUpload"}, id : Ids, o : Objects,
          list : Lists, userDefined : BOOLEAN]

(* The answers; those that name a bucket, an upload or a part are errors. *)
Answers == {"nil", "ErrInvalidPartNumber", "ErrLedgerBucketDoesNotExist",
            "ErrInvalidUploadID", "panic", "PartNumber", "backend"}

PCs == {"idle", "assert", "upload", "newmap", "newput", "rlock", "wlock",
        "wwait", "get", "setpart", "putpart", "list", "build", "size", "copy",
        "putobject", "abort", "delete", "return"}

ASSUME NilIsNew == /\ Nil \notin Procs /\ Nil \notin Addrs /\ Nil \notin Datas
                   /\ Nil \notin Request /\ Nil \notin Upload

TypeOK ==
  /\ exists \in BOOLEAN
  /\ store \in [Objects -> Object \cup {Nil}]
  /\ ds \in [Ids -> Upload \cup {Nil}]
  /\ uploads \in [Ids -> Addrs \cup {Nil}]
  /\ heap \in [Addrs -> Upload \cup {Nil}]
  /\ readers \in [Ids -> SUBSET Procs]
  /\ writer \in [Ids -> Procs \cup {Nil}]
  /\ pc \in [Procs -> PCs]
  /\ req \in [Procs -> Request \cup {Nil}]
  /\ ans \in [Procs -> Answers \cup {Nil}]
  /\ m \in [Procs -> Addrs \cup {Nil}]
  /\ buf \in [Procs -> Upload \cup Object \cup {Nil}]
  /\ issued \subseteq Ids /\ deleted \subseteq Ids
  /\ expected \in [Ids -> [Parts -> SUBSET (Datas \cup {Nil})]]

Init ==
  /\ exists = TRUE
  /\ store = [o \in Objects |-> Nil]
  /\ ds = [i \in Ids |-> Nil]
  /\ uploads = [i \in Ids |-> Nil]
  /\ heap = [a \in Addrs |-> Nil]
  /\ readers = [i \in Ids |-> {}]
  /\ writer = [i \in Ids |-> Nil]
  /\ pc = [p \in Procs |-> "idle"]
  /\ req = [p \in Procs |-> Nil]
  /\ ans = [p \in Procs |-> Nil]
  /\ m = [p \in Procs |-> Nil]
  /\ buf = [p \in Procs |-> Nil]
  /\ issued = {}
  /\ deleted = {}
  /\ expected = [i \in Ids |-> [n \in Parts |-> {Nil}]]
-----------------------------------------------------------------------------
Id(p) == req[p].id
Op(p) == req[p].op
Number(p) == req[p].put[1]
Data(p) == req[p].put[2]
Goto(p, l) == pc' = [pc EXCEPT ![p] = l]

Finish(p, a) ==
  /\ ans' = [ans EXCEPT ![p] = a]
  /\ Goto(p, "return")

(* The heap h without the messages that neither the map nor a local reaches. *)
Collect(h, map, locs) ==
  [a \in Addrs |-> IF (\E i \in Ids : map[i] = a) \/ (\E p \in Procs : locs[p] = a)
                   THEN h[a] ELSE Nil]

IsNextFree(a) == heap[a] = Nil /\ \A b \in Addrs : heap[b] = Nil => a <= b

(***************************************************************************)
(* A client's call.  Ids come from ksuid.New, so only an id that was       *)
(* answered can be named; New names one that was never used.               *)
(***************************************************************************)
Call(p, r) ==
  /\ pc[p] = "idle"
  /\ IF r.op = "NewMultipartUpload"
     THEN /\ r.id \notin issued \cup deleted
          /\ ds[r.id] = Nil /\ uploads[r.id] = Nil
          /\ \A q \in Procs : req[q] # Nil => Id(q) # r.id
     ELSE r.id \in issued
  /\ req' = [req EXCEPT ![p] = r]
  /\ Goto(p, CASE r.op = "ListObjectParts" -> "rlock"
               [] r.op = "AbortMultipartUpload" -> "abort"
               [] OTHER -> "assert")
  /\ UNCHANGED <<ledger, ds, uploads, heap, locks, ans, m, buf, known>>

(***************************************************************************)
(* AssertBucketExits: before anything else; in PutObjectPart once more     *)
(* after ipfsFileUpload and the check of the part number; in               *)
(* AbortMultipartUpload, which also ends a completion, before the deletion.*)
(***************************************************************************)
AfterAssert(p) ==
  CASE pc[p] = "upload" -> "wlock"
    [] pc[p] = "abort" -> "delete"
    [] Op(p) = "NewMultipartUpload" -> "newmap"
    [] Op(p) = "PutObjectPart" -> "upload"
    [] Op(p) = "CompleteMultipartUpload" -> "rlock"

AssertBucketExits(p) ==
  /\ pc[p] \in {"assert", "upload", "abort"}
  /\ IF pc[p] = "upload" /\ Number(p) > MaxPart
     THEN Finish(p, "ErrInvalidPartNumber")
     ELSE IF ~exists THEN Finish(p, "ErrLedgerBucketDoesNotExist")
     ELSE Goto(p, AfterAssert(p)) /\ UNCHANGED ans
  /\ UNCHANGED <<ledger, ds, uploads, heap, locks, req, m, buf, known>>

(* NewMultipartUpload: the map, then the datastore. *)
NewInMap(p) ==
  /\ pc[p] = "newmap"
  /\ \E a \in Addrs :
       /\ IsNextFree(a)
       /\ heap' = [heap EXCEPT ![a] = [name |-> req[p].o, size |-> Nil, parts |-> NoParts]]
       /\ uploads' = [uploads EXCEPT ![Id(p)] = a]
       /\ m' = [m EXCEPT ![p] = a]
  /\ Goto(p, "newput")
  /\ UNCHANGED <<ledger, ds, locks, req, ans, buf, known>>

NewInDs(p) ==
  /\ pc[p] = "newput"
  /\ ds' = [ds EXCEPT ![Id(p)] = heap[m[p]]]
  /\ Finish(p, "nil")
  /\ UNCHANGED <<ledger, uploads, heap, locks, req, m, buf, known>>
-----------------------------------------------------------------------------
(* plocker.read and plocker.write; a writer that waits keeps new readers out. *)

(* Mutant: GetObjectDetails without its read lock. *)
RLockNothing(p) ==
  /\ pc[p] = "rlock"
  /\ Goto(p, "get")
  /\ UNCHANGED <<ledger, ds, uploads, heap, locks, req, ans, m, buf, known>>

RLock(p) ==
  /\ pc[p] = "rlock" /\ writer[Id(p)] = Nil
  /\ readers' = [readers EXCEPT ![Id(p)] = @ \cup {p}]
  /\ Goto(p, "get")
  /\ UNCHANGED <<ledger, ds, uploads, heap, writer, req, ans, m, buf, known>>

(* Mutant: PutObjectPart locks the upload for reading only. *)
AnnounceRead(p) ==
  /\ pc[p] = "wlock" /\ writer[Id(p)] = Nil
  /\ readers' = [readers EXCEPT ![Id(p)] = @ \cup {p}]
  /\ Goto(p, "get")
  /\ UNCHANGED <<ledger, ds, uploads, heap, writer, req, ans, m, buf, known>>

AnnounceWrite(p) ==
  /\ pc[p] = "wlock" /\ writer[Id(p)] = Nil
  /\ writer' = [writer EXCEPT ![Id(p)] = p]
  /\ Goto(p, "wwait")
  /\ UNCHANGED <<ledger, ds, uploads, heap, readers, req, ans, m, buf, known>>

WLock(p) ==
  /\ pc[p] = "wwait" /\ readers[Id(p)] = {}
  /\ Goto(p, "get")
  /\ UNCHANGED <<ledger, ds, uploads, heap, locks, req, ans, m, buf, known>>

(***************************************************************************)
(* getMultipartLoaded.  Without an upload GetObjectDetails releases the    *)
(* lock and returns a nil unlock function, which ListObjectParts defers    *)
(* before it looks at the error: the deferred call of nil panics.          *)
(***************************************************************************)
AfterGet(p) ==
  CASE Op(p) = "PutObjectPart" -> "setpart"
    [] Op(p) = "ListObjectParts" -> "list"
    [] Op(p) = "CompleteMultipartUpload" -> "build"

GetMultipart(p) ==
  /\ pc[p] = "get"
  /\ \/ /\ uploads[Id(p)] # Nil
        /\ m' = [m EXCEPT ![p] = uploads[Id(p)]]
        /\ Goto(p, AfterGet(p))
        /\ UNCHANGED <<uploads, heap, ans>>
     \/ /\ uploads[Id(p)] = Nil /\ ds[Id(p)] # Nil
        /\ \E a \in Addrs :
             /\ IsNextFree(a)
             /\ heap' = [heap EXCEPT ![a] = ds[Id(p)]]
             /\ uploads' = [uploads EXCEPT ![Id(p)] = a]
             /\ m' = [m EXCEPT ![p] = a]
        /\ Goto(p, AfterGet(p))
        /\ UNCHANGED ans
     \/ /\ uploads[Id(p)] = Nil /\ ds[Id(p)] = Nil
        /\ Finish(p, IF Op(p) = "ListObjectParts" THEN "panic" ELSE "ErrInvalidUploadID")
        /\ UNCHANGED <<uploads, heap, m>>
  /\ UNCHANGED <<ledger, ds, locks, req, buf, known>>

(* Until the upload is deleted, p's part may be found with a content in s. *)
Expect(p, s) ==
  expected' = IF Id(p) \in deleted THEN expected
              ELSE [expected EXCEPT ![Id(p)][Number(p)] = s]

(***************************************************************************)
(* PutObjectPart changes the message in place and marshals it, ...         *)
(***************************************************************************)
SetPart(p) ==
  /\ pc[p] = "setpart"
  /\ heap' = [heap EXCEPT ![m[p]].parts[Number(p)] = Data(p)]
  /\ buf' = [buf EXCEPT ![p] = heap'[m[p]]]
  /\ Expect(p, expected[Id(p)][Number(p)] \cup {Data(p)})
  /\ Goto(p, "putpart")
  /\ UNCHANGED <<ledger, ds, uploads, locks, req, ans, m, issued, deleted>>

(* ... and saves it; from here on the part is acknowledged. *)
PutPart(p) ==
  /\ pc[p] = "putpart"
  /\ ds' = [ds EXCEPT ![Id(p)] = buf[p]]
  /\ Expect(p, {Data(p)})
  /\ Finish(p, "nil")
  /\ UNCHANGED <<ledger, uploads, heap, locks, req, m, buf, issued, deleted>>

ListObjectParts(p) ==
  /\ pc[p] = "list"
  /\ Finish(p, IF heap[m[p]].name # req[p].o THEN "ErrInvalidUploadID" ELSE "nil")
  /\ UNCHANGED <<ledger, ds, uploads, heap, locks, req, m, buf, known>>
-----------------------------------------------------------------------------
(* CompleteMultipartUpload, which holds the read lock up to its return. *)

(* Mutant: a part that was never uploaded is not noticed. *)
BuildUnchecked(p) ==
  LET data == [i \in 1..Len(req[p].list) |-> heap[m[p]].parts[req[p].list[i]]]
  IN  /\ pc[p] = "build"
      /\ buf' = [buf EXCEPT ![p] = [name |-> req[p].o, size |-> data, data |-> data]]
      /\ Goto(p, "size")
      /\ UNCHANGED <<ledger, ds, uploads, heap, locks, req, ans, m, known>>

(* The loop over uploadedParts, and ipfsSaveProtoNode. *)
BuildNode(p) ==
  LET data == [i \in 1..Len(req[p].list) |-> heap[m[p]].parts[req[p].list[i]]]
      bad(c) == \E i \in DOMAIN data : data[i] = c
  IN  /\ pc[p] = "build"
      /\ IF bad(Nil) \/ bad(Empty)
         THEN Finish(p, "PartNumber") /\ UNCHANGED buf
         ELSE /\ buf' = [buf EXCEPT ![p] = [name |-> req[p].o, size |-> data, data |-> data]]
              /\ Goto(p, "size")
              /\ UNCHANGED ans
      /\ UNCHANGED <<ledger, ds, uploads, heap, locks, req, m, known>>

(* With user metadata a new ObjectInfo; otherwise the upload's own, changed. *)
SetSize(p) ==
  /\ pc[p] = "size"
  /\ IF req[p].userDefined
     THEN Goto(p, "putobject") /\ UNCHANGED heap
     ELSE /\ heap' = [heap EXCEPT ![m[p]].size = buf[p].data]
          /\ Goto(p, "copy")
  /\ UNCHANGED <<ledger, ds, uploads, locks, req, ans, m, buf, known>>

CopyInfo(p) ==
  /\ pc[p] = "copy"
  /\ buf' = [buf EXCEPT ![p].name = heap[m[p]].name, ![p].size = heap[m[p]].size]
  /\ Goto(p, "putobject")
  /\ UNCHANGED <<ledger, ds, uploads, heap, locks, req, ans, m, known>>

PutObject(p) ==
  /\ pc[p] = "putobject"
  /\ IF exists
     THEN /\ store' = [store EXCEPT ![req[p].o] = buf[p]]
          /\ Goto(p, "abort")
          /\ UNCHANGED ans
     ELSE /\ Finish(p, "ErrLedgerBucketDoesNotExist")
          /\ UNCHANGED store
  /\ UNCHANGED <<exists, ds, uploads, heap, locks, req, m, buf, known>>

(***************************************************************************)
(* DeleteMultipartID, for which no upload lock is taken.  The datastore    *)
(* may or may not report that the key was missing.                         *)
(***************************************************************************)
DeleteMultipartID(p) ==
  /\ pc[p] = "delete"
  /\ uploads' = [uploads EXCEPT ![Id(p)] = Nil]
  /\ heap' = Collect(heap, uploads', m)
  /\ ds' = [ds EXCEPT ![Id(p)] = Nil]
  /\ deleted' = deleted \cup {Id(p)}
  /\ expected' = [expected EXCEPT ![Id(p)] = [n \in Parts |-> Datas \cup {Nil}]]
  /\ \E e \in IF ds[Id(p)] = Nil THEN {"nil", "ErrInvalidUploadID"} ELSE {"nil"} : Finish(p, e)
  /\ UNCHANGED <<ledger, locks, req, m, buf, issued>>
-----------------------------------------------------------------------------
(* A backend call fails; a failed deletion has already changed the map. *)
BackendFails(p) ==
  /\ pc[p] \in Failing
  /\ pc[p] = "get" => uploads[Id(p)] = Nil
  /\ IF pc[p] = "delete"
     THEN /\ uploads' = [uploads EXCEPT ![Id(p)] = Nil]
          /\ heap' = Collect(heap, uploads', m)
     ELSE UNCHANGED <<uploads, heap>>
  /\ Finish(p, "backend")
  /\ UNCHANGED <<ledger, ds, locks, req, m, buf, known>>

(* Mutant: a failed CompleteMultipartUpload returns without its unlock. *)
ReturnLocked(p) ==
  /\ pc[p] = "return"
  /\ pc' = [pc EXCEPT ![p] = "idle"]
  /\ req' = [req EXCEPT ![p] = Nil]
  /\ ans' = [ans EXCEPT ![p] = Nil]
  /\ m' = [m EXCEPT ![p] = Nil]
  /\ buf' = [buf EXCEPT ![p] = Nil]
  /\ heap' = Collect(heap, uploads, m')
  /\ readers' = [readers EXCEPT ![Id(p)] = IF ans[p] = "PartNumber" THEN @ ELSE @ \ {p}]
  /\ writer' = [writer EXCEPT ![Id(p)] = IF @ = p THEN Nil ELSE @]
  /\ issued' = IF Op(p) = "NewMultipartUpload" /\ ans[p] = "nil"
               THEN issued \cup {Id(p)} ELSE issued
  /\ UNCHANGED <<ledger, ds, uploads, deleted, expected>>

(* The deferred unlock, and the answer. *)
Return(p) ==
  /\ pc[p] = "return"
  /\ pc' = [pc EXCEPT ![p] = "idle"]
  /\ req' = [req EXCEPT ![p] = Nil]
  /\ ans' = [ans EXCEPT ![p] = Nil]
  /\ m' = [m EXCEPT ![p] = Nil]
  /\ buf' = [buf EXCEPT ![p] = Nil]
  /\ heap' = Collect(heap, uploads, m')
  /\ readers' = [readers EXCEPT ![Id(p)] = @ \ {p}]
  /\ writer' = [writer EXCEPT ![Id(p)] = IF @ = p THEN Nil ELSE @]
  /\ issued' = IF Op(p) = "NewMultipartUpload" /\ ans[p] = "nil"
               THEN issued \cup {Id(p)} ELSE issued
  /\ UNCHANGED <<ledger, ds, uploads, deleted, expected>>

(* Other requests create the bucket and delete it with its objects. *)
CreateBucket ==
  /\ ~exists
  /\ exists' = TRUE
  /\ UNCHANGED <<store, ds, uploads, heap, locks, pc, req, ans, m, buf, known>>

DeleteBucket ==
  /\ exists
  /\ exists' = FALSE
  /\ store' = [o \in Objects |-> Nil]
  /\ UNCHANGED <<ds, uploads, heap, locks, pc, req, ans, m, buf, known>>

(* The process stops and starts again on the same datastore. *)
Crash ==
  /\ CanCrash
  /\ uploads' = [i \in Ids |-> Nil]
  /\ heap' = [a \in Addrs |-> Nil]
  /\ readers' = [i \in Ids |-> {}]
  /\ writer' = [i \in Ids |-> Nil]
  /\ pc' = [p \in Procs |-> "idle"]
  /\ req' = [p \in Procs |-> Nil]
  /\ ans' = [p \in Procs |-> Nil]
  /\ m' = [p \in Procs |-> Nil]
  /\ buf' = [p \in Procs |-> Nil]
  /\ UNCHANGED <<ledger, ds, known>>

Step(p) ==
  \/ AssertBucketExits(p) \/ NewInMap(p) \/ NewInDs(p)
  \/ RLock(p) \/ AnnounceWrite(p) \/ WLock(p) \/ GetMultipart(p)
  \/ SetPart(p) \/ PutPart(p) \/ ListObjectParts(p)
  \/ BuildNode(p) \/ SetSize(p) \/ CopyInfo(p) \/ PutObject(p)
  \/ DeleteMultipartID(p) \/ BackendFails(p) \/ Return(p)

Next ==
  \/ \E p \in Procs : \E r \in Request : Call(p, r)
  \/ \E p \in Procs : Step(p)
  \/ CreateBucket \/ DeleteBucket \/ Crash

Spec == Init /\ [][Next]_vars
-----------------------------------------------------------------------------
(***************************************************************************)
(* A part that PutObjectPart acknowledged stays in the saved upload, and   *)
(* with the content that was last acknowledged, or one of a later attempt  *)
(* that came back with an error; and the upload stays until it is deleted. *)
(* Parts of one upload arrive concurrently and each saves the whole map,   *)
(* so that without the upload's lock one of them would be lost.            *)
(***************************************************************************)
PartsSurvive ==
  \A i \in issued \ deleted :
    ds[i] # Nil /\ \A n \in Parts : ds[i].parts[n] \in expected[i][n]

(***************************************************************************)
(* CompleteMultipartUpload joins parts that are current while it runs: its *)
(* read lock keeps PutObjectPart out until the object is stored.           *)
(***************************************************************************)
CompletesCurrentParts ==
  \A p \in Procs : pc[p] \in {"size", "copy", "putobject"} =>
    \A i \in DOMAIN buf[p].data :
      buf[p].data[i] \in expected[Id(p)][req[p].list[i]]

(***************************************************************************)
(* The size recorded with a completed object is that of its data: "the     *)
(* objectInfo field is used to contain the information associated wth the  *)
(* object".  Two completions of one upload write the size to the           *)
(* ObjectInfo that they share, under a read lock, and copy it from there.  *)
(***************************************************************************)
SizeMatchesData == \A o \in Objects : store[o] # Nil => store[o].size = store[o].data

(***************************************************************************)
(* An upload that DeleteMultipartID removed, for an abort or at the end of *)
(* a completion, is gone: no later request finds it.                       *)
(***************************************************************************)
DeletedUploadsStayGone == \A i \in deleted : ds[i] = Nil /\ uploads[i] = Nil

(***************************************************************************)
(* Every path of the handlers gives the upload's lock back, exactly once:  *)
(* a goroutine that serves no request holds none, and nobody holds one for *)
(* an upload other than the one it serves.                                 *)
(***************************************************************************)
LocksAreReturned ==
  \A i \in Ids, p \in Procs :
    p \in readers[i] \/ writer[i] = p => pc[p] # "idle" /\ Id(p) = i
=============================================================================
