-------------------------- MODULE MultipartProofs --------------------------
(***************************************************************************)
(* Multipart uploads for any number of goroutines, uploads and parts: no   *)
(* acknowledged part is lost, completions join current parts, and locks    *)
(* are returned.                                                           *)
(***************************************************************************)
EXTENDS Multipart, TLAPS

USE ZenonT(20)

-----------------------------------------------------------------------------
(* The inductive invariant. *)

Readers == {"ListObjectParts", "CompleteMultipartUpload"}

(* Which request may be where in its handler, and when it has its message. *)
Control(p) ==
  /\ pc[p] = "idle" <=> req[p] = Nil
  /\ pc[p] = "idle" => m[p] = Nil
  /\ pc[p] = "assert" =>
       Op(p) \in {"NewMultipartUpload", "PutObjectPart", "CompleteMultipartUpload"}
  /\ pc[p] \in {"newmap", "newput"} => Op(p) = "NewMultipartUpload"
  /\ pc[p] \in {"upload", "wlock", "wwait", "setpart", "putpart"} => Op(p) = "PutObjectPart"
  /\ pc[p] = "rlock" => Op(p) \in Readers
  /\ pc[p] = "get" => Op(p) \in Readers \cup {"PutObjectPart"}
  /\ pc[p] = "list" => Op(p) = "ListObjectParts"
  /\ pc[p] \in {"build", "size", "copy", "putobject"} => Op(p) = "CompleteMultipartUpload"
  /\ pc[p] \in {"abort", "delete"} =>
       Op(p) \in {"AbortMultipartUpload", "CompleteMultipartUpload"}
  /\ pc[p] \in {"newput", "setpart", "putpart", "list", "build", "size", "copy"} =>
       m[p] # Nil

(* p has the lock of its upload: for reading, or for writing and alone. *)
Holds(p) ==
  \/ Op(p) \in Readers /\ p \in readers[Id(p)]
  \/ Op(p) = "PutObjectPart" /\ writer[Id(p)] = p /\ readers[Id(p)] = {}

Locked(p) ==
  /\ m[p] # Nil => Op(p) = "NewMultipartUpload" \/ Holds(p)
  /\ pc[p] = "wwait" => writer[Id(p)] = p
  /\ pc[p] \in {"get", "setpart", "putpart", "list", "build", "size", "copy", "putobject"}
       => Holds(p)

(* Nobody has the lock of an upload other than the one it serves. *)
LockInv ==
  \A i \in Ids, p \in Procs :
    /\ p \in readers[i] => pc[p] # "idle" /\ Id(p) = i /\ Op(p) \in Readers
    /\ writer[i] = p => pc[p] # "idle" /\ Id(p) = i /\ Op(p) = "PutObjectPart"

(* The id of a new upload is nobody else's until it is answered. *)
IdInv ==
  \A p \in Procs : req[p] # Nil =>
    IF Op(p) = "NewMultipartUpload"
    THEN /\ Id(p) \notin issued \cup deleted
         /\ \A q \in Procs \ {p} : req[q] # Nil => Id(q) # Id(p)
    ELSE Id(p) \in issued

(* The message u has for each part of upload i what a client may expect. *)
Current(u, i) == \A n \in Parts : u.parts[n] \in expected[i][n]

(* What is saved is current, and an upload is saved before it is answered. *)
SavedInv ==
  /\ \A i \in Ids : ds[i] # Nil => Current(ds[i], i)
  /\ \A i \in issued \ deleted : ds[i] # Nil
  /\ \A p \in Procs :
       pc[p] = "return" /\ Op(p) = "NewMultipartUpload" /\ ans[p] = "nil" => ds[Id(p)] # Nil

(* The address a belongs to upload i: by the map or by a local variable. *)
Refers(a, i) == uploads[i] = a \/ \E p \in Procs : m[p] = a /\ Id(p) = i

(* A message belongs to one upload, and is current. *)
HeapInv ==
  \A a \in Addrs, i \in Ids : Refers(a, i) =>
    /\ heap[a] # Nil /\ Current(heap[a], i)
    /\ \A j \in Ids : Refers(a, j) => j = i

(***************************************************************************)
(* While a part is put, nobody else has a copy of the message: when the    *)
(* acknowledgement narrows what may be expected, all that is left has it.  *)
(***************************************************************************)
Putting(p) ==
  /\ pc[p] \in {"setpart", "putpart"} => uploads[Id(p)] \in {Nil, m[p]}
  /\ pc[p] = "putpart" =>
       /\ buf[p] \in Upload /\ Current(buf[p], Id(p))
       /\ buf[p].parts[Number(p)] = Data(p)
       /\ heap[m[p]].parts[Number(p)] = Data(p)

Completing(p) ==
  pc[p] \in {"size", "copy", "putobject"} =>
    /\ buf[p] \in Object
    /\ DOMAIN buf[p].data = DOMAIN req[p].list
    /\ \A k \in DOMAIN req[p].list : buf[p].data[k] \in expected[Id(p)][req[p].list[k]]

ExpectedInv ==
  /\ \A i \in deleted, n \in Parts : expected[i][n] = Datas \cup {Nil}
  /\ \A i \in Ids \ (issued \cup deleted), n \in Parts : expected[i][n] = {Nil}

Local(p) == Control(p) /\ Locked(p) /\ Putting(p) /\ Completing(p)

IInv ==
  /\ TypeOK
  /\ \A p \in Procs : Local(p)
  /\ LockInv
  /\ IdInv
  /\ SavedInv
  /\ HeapInv
  /\ ExpectedInv

-----------------------------------------------------------------------------
(* Requests. *)

LEMMA RequestFacts ==
  ASSUME NEW r \in Request
  PROVE  /\ r.id \in Ids
         /\ r.op \in Readers \cup {"NewMultipartUpload", "PutObjectPart", "AbortMultipartUpload"}
         /\ r.op # "PutObjectPart" => r.o \in Objects
         /\ r.op = "PutObjectPart" => r.put[1] \in Parts /\ r.put[2] \in Datas
         /\ r.op = "CompleteMultipartUpload" => r.list \in Lists /\ r.list \in Seq(Parts)
BY Requests DEF Request, Readers

LEMMA Served ==
  ASSUME TypeOK, NEW p \in Procs, Control(p), pc[p] # "idle"
  PROVE  /\ req[p] \in Request /\ req[p] # Nil /\ Id(p) \in Ids
         /\ Op(p) \in Readers \cup {"NewMultipartUpload", "PutObjectPart", "AbortMultipartUpload"}
         /\ Op(p) # "PutObjectPart" => req[p].o \in Objects
         /\ Op(p) = "PutObjectPart" => Number(p) \in Parts /\ Data(p) \in Datas
         /\ Op(p) = "CompleteMultipartUpload" =>
              req[p].list \in Lists /\ req[p].list \in Seq(Parts)
<1>1. req[p] \in Request /\ req[p] # Nil
  BY DEF TypeOK, Control
<1>. QED
  BY <1>1, RequestFacts DEF Id, Op, Number, Data

(* The write lock of an upload is held by one goroutine, and no reader. *)
LEMMA WriterAlone ==
  ASSUME NEW p \in Procs, NEW q \in Procs, Holds(p), Holds(q),
         Op(p) = "PutObjectPart", Id(q) = Id(p)
  PROVE  q = p
BY DEF Holds, Readers

-----------------------------------------------------------------------------
(* What the steps of one goroutine leave to the others. *)

Untouched(q) ==
  /\ pc'[q] = pc[q] /\ req'[q] = req[q] /\ m'[q] = m[q] /\ buf'[q] = buf[q]

(* What may be expected of upload i does not become less. *)
Grows(i) == \A n \in Parts : expected[i][n] \subseteq expected'[i][n]

LEMMA LocalKept ==
  ASSUME TypeOK, NEW q \in Procs, Local(q), Untouched(q),
         Holds(q) => Holds(q)',
         pc[q] = "wwait" => writer'[Id(q)] = q,
         pc[q] \in {"setpart", "putpart"} => uploads'[Id(q)] \in {Nil, uploads[Id(q)]},
         pc[q] = "putpart" => heap'[m[q]].parts[Number(q)] = heap[m[q]].parts[Number(q)],
         pc[q] \in {"putpart", "size", "copy", "putobject"} => Grows(Id(q))
  PROVE  Local(q)'
<1>1. Op(q)' = Op(q) /\ Id(q)' = Id(q) /\ Number(q)' = Number(q) /\ Data(q)' = Data(q)
  BY DEF Untouched, Op, Id, Number, Data
<1>2. Control(q)'
  BY <1>1 DEF Local, Control, Untouched
<1>3. Locked(q)'
  BY <1>1 DEF Local, Locked, Untouched
<1>4. Putting(q)'
  BY <1>1 DEF Local, Putting, Untouched, Current, Grows
<1>5. Completing(q)'
  <2>. SUFFICES ASSUME pc[q] \in {"size", "copy", "putobject"}
                PROVE  Completing(q)'
    BY DEF Completing, Untouched
  <2>1. Op(q) = "CompleteMultipartUpload" /\ pc[q] # "idle"
    BY DEF Local, Control
  <2>2. \A k \in DOMAIN req[q].list : req[q].list[k] \in Parts
    BY SMT, <2>1, Served DEF Local
  <2>. QED
    BY <1>1, <2>2 DEF Local, Completing, Untouched, Grows
<1>. QED
  BY <1>2, <1>3, <1>4, <1>5 DEF Local

(* No message gains a reference, and those that are referred to are current. *)
LEMMA HeapKept ==
  ASSUME HeapInv,
         \A a \in Addrs, i \in Ids : Refers(a, i)' =>
           Refers(a, i) /\ (heap[a] # Nil)' /\ Current(heap[a], i)'
  PROVE  HeapInv'
BY DEF HeapInv

(* Another goroutine that stands still keeps its part of the invariant. *)
LEMMA OthersKept ==
  ASSUME IInv, NEW p \in Procs, \A q \in Procs \ {p} : Untouched(q),
         UNCHANGED <<locks, uploads, expected>>,
         \A q \in Procs \ {p} : pc[q] = "putpart" =>
           heap'[m[q]].parts[Number(q)] = heap[m[q]].parts[Number(q)]
  PROVE  \A q \in Procs \ {p} : Local(q)'
<1>. SUFFICES ASSUME NEW q \in Procs \ {p}
              PROVE  Local(q)'
  OBVIOUS
<1>1. TypeOK /\ Local(q) /\ Untouched(q)
  BY DEF IInv
<1>2. Holds(q) => Holds(q)'
  BY <1>1 DEF Holds, Untouched, Op, Id, locks
<1>3. /\ pc[q] = "wwait" => writer'[Id(q)] = q
      /\ uploads'[Id(q)] \in {Nil, uploads[Id(q)]}
  BY <1>1 DEF Local, Locked, locks
<1>4. Grows(Id(q))
  BY DEF Grows
<1>. QED
  BY <1>1, <1>2, <1>3, <1>4, LocalKept

(* Requests and what clients know stay as they are. *)
LEMMA IdsKept ==
  ASSUME IInv, UNCHANGED <<req, known>>
  PROVE  IdInv' /\ ExpectedInv'
<1>1. \A q \in Procs : Op(q)' = Op(q) /\ Id(q)' = Id(q)
  BY DEF Op, Id
<1>2. IdInv'
  BY <1>1 DEF IInv, IdInv, known
<1>3. ExpectedInv'
  BY DEF IInv, ExpectedInv, known
<1>. QED
  BY <1>2, <1>3

LEMMA SavedKept ==
  ASSUME IInv, NEW p \in Procs, UNCHANGED <<ds, req, known>>,
         \A q \in Procs \ {p} : pc'[q] = pc[q] /\ ans'[q] = ans[q],
         pc'[p] = "return" /\ Op(p) = "NewMultipartUpload" => ans'[p] # "nil"
  PROVE  SavedInv'
<1>1. \A q \in Procs : Op(q)' = Op(q) /\ Id(q)' = Id(q)
  BY DEF Op, Id
<1>. QED
  BY <1>1 DEF IInv, SavedInv, Current, known

LEMMA HeapUnchanged ==
  ASSUME IInv, UNCHANGED <<uploads, heap, req, m, known>>
  PROVE  HeapInv'
<1>1. \A a \in Addrs, i \in Ids : Refers(a, i)' => Refers(a, i)
  BY DEF Refers, Id
<1>2. \A a \in Addrs, i \in Ids : Current(heap[a], i) => Current(heap[a], i)'
  BY DEF Current, known
<1>. QED
  BY <1>1, <1>2, HeapKept DEF IInv, HeapInv

(***************************************************************************)
(* Only p's own place, buffer and answer change: then only what the        *)
(* invariant says of p is in question.                                     *)
(***************************************************************************)
LEMMA QuietStep ==
  ASSUME IInv, TypeOK', NEW p \in Procs, pc[p] # "idle", pc'[p] # "idle",
         UNCHANGED <<ds, uploads, heap, locks, req, m, known>>,
         \A q \in Procs \ {p} : Untouched(q) /\ ans'[q] = ans[q],
         Local(p)',
         pc'[p] = "return" /\ Op(p) = "NewMultipartUpload" => ans'[p] # "nil"
  PROVE  IInv'
<1>1. \A q \in Procs : Local(q)'
  BY OthersKept DEF known
<1>2. \A q \in Procs : Op(q)' = Op(q) /\ Id(q)' = Id(q)
  BY DEF Op, Id
<1>3. LockInv'
  BY <1>2 DEF IInv, LockInv, Untouched, locks
<1>4. IdInv' /\ ExpectedInv'
  BY IdsKept
<1>5. SavedInv'
  BY SavedKept DEF Untouched
<1>6. HeapInv'
  BY HeapUnchanged
<1>. QED
  BY <1>1, <1>3, <1>4, <1>5, <1>6 DEF IInv

(* Only the bucket changes. *)
LEMMA BucketStep ==
  ASSUME IInv, TypeOK', UNCHANGED <<ds, uploads, heap, locks, pc, req, ans, m, buf, known>>
  PROVE  IInv'
<1>1. \A q \in Procs : Op(q)' = Op(q) /\ Id(q)' = Id(q)
  BY DEF Op, Id
<1>2. ASSUME NEW q \in Procs
      PROVE  Local(q)'
  <2>1. TypeOK /\ Local(q) /\ Untouched(q) /\ Grows(Id(q))
    BY DEF IInv, Untouched, Grows, known
  <2>2. Holds(q) => Holds(q)'
    BY <1>1 DEF Holds, locks
  <2>3. pc[q] = "wwait" => writer'[Id(q)] = q
    BY <2>1 DEF Local, Locked, locks
  <2>. QED
    BY <2>1, <2>2, <2>3, LocalKept
<1>3. LockInv'
  BY <1>1 DEF IInv, LockInv, locks
<1>4. SavedInv'
  BY <1>1 DEF IInv, SavedInv, Current, known
<1>. QED
  BY <1>2, <1>3, <1>4, IdsKept, HeapUnchanged DEF IInv

-----------------------------------------------------------------------------
(* Steps that leave everything shared alone. *)

LEMMA Moved ==
  ASSUME TypeOK, NEW p \in Procs, NEW l \in PCs, Goto(p, l)
  PROVE  /\ pc' \in [Procs -> PCs] /\ pc'[p] = l
         /\ \A q \in Procs \ {p} : pc'[q] = pc[q]
BY DEF TypeOK, Goto

LEMMA Finished ==
  ASSUME TypeOK, NEW p \in Procs, NEW a \in Answers, Finish(p, a)
  PROVE  /\ pc' \in [Procs -> PCs] /\ pc'[p] = "return"
         /\ ans' \in [Procs -> Answers \cup {Nil}] /\ ans'[p] = a
         /\ \A q \in Procs \ {p} : pc'[q] = pc[q] /\ ans'[q] = ans[q]
BY DEF TypeOK, Finish, Goto, PCs

(* A request that comes to its end keeps its message and its lock. *)
LEMMA ReturnLocal ==
  ASSUME NEW p \in Procs, Local(p), pc[p] # "idle", pc'[p] = "return",
         UNCHANGED <<req, m, locks>>
  PROVE  Local(p)'
<1>1. Op(p)' = Op(p) /\ (Holds(p)' <=> Holds(p))
  BY DEF Op, Holds, Id, locks
<1>. QED
  BY <1>1 DEF Local, Control, Locked, Putting, Completing

LEMMA FinishStep ==
  ASSUME IInv, NEW p \in Procs, pc[p] # "idle", NEW a \in Answers, Finish(p, a),
         UNCHANGED <<ledger, ds, uploads, heap, locks, req, m, buf, known>>,
         Op(p) = "NewMultipartUpload" => a # "nil"
  PROVE  IInv'
<1>1. TypeOK /\ Local(p)
  BY DEF IInv
<1>2. TypeOK'
  BY <1>1, Finished DEF TypeOK, ledger, locks, known
<1>3. \A q \in Procs \ {p} : Untouched(q) /\ ans'[q] = ans[q]
  BY <1>1, Finished DEF Untouched
<1>4. pc'[p] = "return" /\ ans'[p] = a
  BY <1>1, Finished
<1>5. Local(p)'
  BY <1>1, <1>4, ReturnLocal
<1>. QED
  BY <1>2, <1>3, <1>4, <1>5, QuietStep

LEMMA GotoStep ==
  ASSUME IInv, NEW p \in Procs, pc[p] # "idle", NEW l \in PCs \ {"idle", "return"}, Goto(p, l),
         UNCHANGED <<ledger, ds, uploads, heap, locks, req, ans, m, buf, known>>,
         Local(p)'
  PROVE  IInv'
<1>1. TypeOK
  BY DEF IInv
<1>2. TypeOK'
  BY <1>1, Moved DEF TypeOK, ledger, locks, known
<1>3. \A q \in Procs \ {p} : Untouched(q) /\ ans'[q] = ans[q]
  BY <1>1, Moved DEF Untouched
<1>4. pc'[p] = l
  BY <1>1, Moved
<1>. QED
  BY <1>2, <1>3, <1>4, QuietStep

LEMMA AfterAssertIs ==
  ASSUME NEW p \in Procs, Control(p), pc[p] \in {"assert", "upload", "abort"}
  PROVE  \/ AfterAssert(p) = "wlock" /\ Op(p) = "PutObjectPart"
         \/ AfterAssert(p) = "delete" /\ Op(p) \in {"AbortMultipartUpload", "CompleteMultipartUpload"}
         \/ AfterAssert(p) = "newmap" /\ Op(p) = "NewMultipartUpload"
         \/ AfterAssert(p) = "upload" /\ Op(p) = "PutObjectPart"
         \/ AfterAssert(p) = "rlock" /\ Op(p) = "CompleteMultipartUpload"
<1>1. CASE pc[p] = "upload"
  BY SMT, <1>1 DEF AfterAssert, Control
<1>2. CASE pc[p] = "abort"
  BY SMT, <1>2 DEF AfterAssert, Control
<1>3. CASE pc[p] = "assert"
  BY <1>3 DEF AfterAssert, Control
<1>. QED
  BY <1>1, <1>2, <1>3

LEMMA AssertBucketExitsStep ==
  ASSUME IInv, NEW p \in Procs, AssertBucketExits(p)
  PROVE  IInv'
<1>1. /\ TypeOK /\ Local(p) /\ pc[p] # "idle" /\ pc[p] \in {"assert", "upload", "abort"}
      /\ UNCHANGED <<ledger, ds, uploads, heap, locks, req, m, buf, known>>
  BY DEF IInv, AssertBucketExits
<1>2. CASE \E a \in Answers \ {"nil"} : Finish(p, a)
  BY <1>1, <1>2, FinishStep
<1>3. CASE Goto(p, AfterAssert(p)) /\ UNCHANGED ans
  <2>1. /\ AfterAssert(p) \in {"wlock", "delete", "newmap", "upload", "rlock"}
        /\ AfterAssert(p) \in PCs \ {"idle", "return"}
    BY <1>1, AfterAssertIs DEF Local, PCs
  <2>2. pc'[p] = AfterAssert(p)
    BY <1>1, <1>3, <2>1, Moved
  <2>3. Op(p)' = Op(p) /\ (Holds(p)' <=> Holds(p))
    BY <1>1 DEF Op, Holds, Id, locks
  <2>4. Control(p)'
    BY <1>1, <2>1, <2>2, <2>3, AfterAssertIs DEF Local, Control, Readers
  <2>5. Locked(p)' /\ Putting(p)' /\ Completing(p)'
    BY <1>1, <2>1, <2>2, <2>3 DEF Local, Locked, Putting, Completing
  <2>. QED
    BY <1>1, <1>3, <2>1, <2>4, <2>5, GotoStep DEF Local
<1>. QED
  BY <1>2, <1>3 DEF AssertBucketExits, Answers

LEMMA WLockStep ==
  ASSUME IInv, NEW p \in Procs, WLock(p)
  PROVE  IInv'
<1>1. /\ TypeOK /\ Local(p) /\ pc[p] = "wwait" /\ readers[Id(p)] = {} /\ Goto(p, "get")
      /\ UNCHANGED <<ledger, ds, uploads, heap, locks, req, ans, m, buf, known>>
  BY DEF IInv, WLock
<1>2. pc'[p] = "get"
  BY <1>1, Moved DEF PCs
<1>3. Op(p) = "PutObjectPart" /\ Op(p)' = Op(p) /\ Holds(p) /\ (Holds(p)' <=> Holds(p))
  BY <1>1 DEF Op, Holds, Id, locks, Local, Control, Locked
<1>4. Local(p)'
  BY <1>1, <1>2, <1>3 DEF Local, Control, Locked, Putting, Completing
<1>. QED
  BY <1>1, <1>4, GotoStep DEF PCs

LEMMA ListObjectPartsStep ==
  ASSUME IInv, NEW p \in Procs, ListObjectParts(p)
  PROVE  IInv'
<1>1. pc[p] = "list" /\ Op(p) = "ListObjectParts"
  BY DEF IInv, Local, Control, ListObjectParts
<1>2. \E a \in Answers : Finish(p, a)
  BY DEF ListObjectParts, Answers
<1>. QED
  BY <1>1, <1>2, FinishStep DEF ListObjectParts

(* p goes on with the object b in its buffer. *)
LEMMA BufferStep ==
  ASSUME IInv, NEW p \in Procs, pc[p] \in {"build", "size", "copy"},
         NEW l \in {"size", "copy", "putobject"}, Goto(p, l), NEW b \in Object,
         l = "copy" => m[p] # Nil,
         buf' = [buf EXCEPT ![p] = b],
         DOMAIN b.data = DOMAIN req[p].list,
         \A k \in DOMAIN req[p].list : b.data[k] \in expected[Id(p)][req[p].list[k]],
         UNCHANGED <<ledger, ds, uploads, heap, locks, req, ans, m, known>>
  PROVE  IInv'
<1>1. TypeOK /\ Local(p) /\ pc[p] # "idle" /\ Op(p) = "CompleteMultipartUpload" /\ m[p] # Nil
  BY DEF IInv, Local, Control
<1>2. pc' \in [Procs -> PCs] /\ pc'[p] = l /\ \A q \in Procs \ {p} : pc'[q] = pc[q]
  BY <1>1, Moved DEF PCs
<1>3. buf'[p] = b /\ \A q \in Procs \ {p} : buf'[q] = buf[q]
  BY <1>1 DEF TypeOK
<1>4. TypeOK'
  BY <1>1, <1>2 DEF TypeOK, ledger, locks, known
<1>5. Op(p)' = Op(p) /\ Id(p)' = Id(p) /\ (Holds(p)' <=> Holds(p))
  BY DEF Op, Holds, Id, locks
<1>6. Control(p)' /\ Locked(p)' /\ Putting(p)'
  BY <1>1, <1>2, <1>5 DEF Local, Control, Locked, Putting
<1>7. Completing(p)'
  BY <1>2, <1>3, <1>5 DEF Completing, known
<1>8. \A q \in Procs \ {p} : Untouched(q)
  BY <1>2, <1>3 DEF Untouched
<1>. QED
  BY <1>1, <1>2, <1>4, <1>6, <1>7, <1>8, QuietStep DEF Local

LEMMA BuildNodeStep ==
  ASSUME IInv, NEW p \in Procs, BuildNode(p)
  PROVE  IInv'
<1>. DEFINE data == [i \in 1..Len(req[p].list) |-> heap[m[p]].parts[req[p].list[i]]]
            bad(c) == \E i \in DOMAIN data : data[i] = c
<1>1. /\ TypeOK /\ Local(p) /\ pc[p] = "build" /\ Op(p) = "CompleteMultipartUpload"
      /\ m[p] # Nil
      /\ UNCHANGED <<ledger, ds, uploads, heap, locks, req, m, known>>
  BY DEF IInv, BuildNode, Local, Control
<1>2. CASE bad(Nil) \/ bad(Empty)
  <2>1. Finish(p, "PartNumber") /\ UNCHANGED buf
    BY <1>2 DEF BuildNode
  <2>. QED
    BY <1>1, <2>1, FinishStep DEF Answers
<1>3. CASE ~(bad(Nil) \/ bad(Empty))
  <2>. DEFINE b == [name |-> req[p].o, size |-> data, data |-> data]
  <2>1. buf' = [buf EXCEPT ![p] = b] /\ Goto(p, "size") /\ UNCHANGED ans
    BY <1>3 DEF BuildNode
  <2>2. /\ req[p].list \in Lists /\ req[p].list \in Seq(Parts) /\ req[p].o \in Objects
        /\ Id(p) \in Ids
    BY <1>1, Served DEF Local
  <2>3. m[p] \in Addrs /\ Refers(m[p], Id(p)) /\ heap[m[p]] \in Upload /\ Current(heap[m[p]], Id(p))
    BY SMT, <1>1, <2>2 DEF IInv, HeapInv, Refers, TypeOK
  <2>4. /\ DOMAIN data = DOMAIN req[p].list
        /\ \A k \in DOMAIN req[p].list : req[p].list[k] \in Parts
    BY SMT, <2>2
  <2>5. \A k \in DOMAIN req[p].list :
          /\ data[k] = heap[m[p]].parts[req[p].list[k]]
          /\ data[k] \in Datas \cup {Nil} /\ data[k] \in expected[Id(p)][req[p].list[k]]
    BY <2>2, <2>3, <2>4 DEF Upload, Current
  <2>6. data \in [1..Len(req[p].list) -> Datas]
    BY <1>3, <2>2, <2>4, <2>5
  <2>7. data \in Content
    BY <2>2, <2>6 DEF Content
  <2>8. b \in Object
    BY <2>2, <2>7 DEF Object
  <2>. HIDE DEF data
  <2>. QED
    BY <1>1, <2>1, <2>4, <2>5, <2>8, BufferStep
<1>. QED
  BY <1>2, <1>3

LEMMA CopyInfoStep ==
  ASSUME IInv, NEW p \in Procs, CopyInfo(p)
  PROVE  IInv'
<1>. DEFINE b == [buf[p] EXCEPT !.name = heap[m[p]].name, !.size = heap[m[p]].size]
<1>1. /\ TypeOK /\ Local(p) /\ pc[p] = "copy" /\ Op(p) = "CompleteMultipartUpload"
      /\ m[p] # Nil /\ buf[p] \in Object /\ Goto(p, "putobject")
      /\ UNCHANGED <<ledger, ds, uploads, heap, locks, req, ans, m, known>>
  BY DEF IInv, CopyInfo, Local, Control, Completing
<1>2. buf' = [buf EXCEPT ![p] = b]
  BY <1>1 DEF CopyInfo, TypeOK
<1>3. heap[m[p]] \in Upload
  <2>1. Id(p) \in Ids
    BY <1>1, Served DEF Local
  <2>. QED
    BY SMT, <1>1, <2>1 DEF IInv, HeapInv, Refers, TypeOK
<1>4. b \in Object /\ b.data = buf[p].data
  BY <1>1, <1>3 DEF Object, Upload
<1>5. /\ DOMAIN b.data = DOMAIN req[p].list
      /\ \A k \in DOMAIN req[p].list : b.data[k] \in expected[Id(p)][req[p].list[k]]
  BY <1>1, <1>4 DEF Local, Completing
<1>. HIDE DEF b
<1>. QED
  BY <1>1, <1>2, <1>4, <1>5, BufferStep

LEMMA PutObjectStep ==
  ASSUME IInv, NEW p \in Procs, PutObject(p)
  PROVE  IInv'
<1>1. /\ TypeOK /\ Local(p) /\ pc[p] = "putobject" /\ Op(p) = "CompleteMultipartUpload"
      /\ buf[p] \in Object /\ Holds(p)
      /\ UNCHANGED <<exists, ds, uploads, heap, locks, req, m, buf, known>>
  BY DEF IInv, PutObject, Local, Control, Locked, Completing
<1>2. CASE exists
  <2>1. Goto(p, "abort") /\ UNCHANGED ans /\ store' = [store EXCEPT ![req[p].o] = buf[p]]
    BY <1>2 DEF PutObject
  <2>2. pc' \in [Procs -> PCs] /\ pc'[p] = "abort" /\ \A q \in Procs \ {p} : pc'[q] = pc[q]
    BY <1>1, <2>1, Moved DEF PCs
  <2>3. store' \in [Objects -> Object \cup {Nil}]
    BY <1>1, <2>1 DEF TypeOK
  <2>4. TypeOK'
    BY <1>1, <2>1, <2>2, <2>3 DEF TypeOK, locks, known
  <2>5. Op(p)' = Op(p) /\ (Holds(p)' <=> Holds(p))
    BY <1>1 DEF Op, Holds, Id, locks
  <2>6. Local(p)'
    BY <1>1, <2>2, <2>5 DEF Local, Control, Locked, Putting, Completing
  <2>7. \A q \in Procs \ {p} : Untouched(q) /\ ans'[q] = ans[q]
    BY <1>1, <2>1, <2>2 DEF Untouched
  <2>. QED
    BY <1>1, <2>2, <2>4, <2>6, <2>7, QuietStep
<1>3. CASE ~exists
  <2>1. Finish(p, "ErrLedgerBucketDoesNotExist") /\ UNCHANGED store
    BY <1>3 DEF PutObject
  <2>. QED
    BY <1>1, <2>1, FinishStep DEF Answers, ledger
<1>. QED
  BY <1>2, <1>3

-----------------------------------------------------------------------------
(* Steps that change a lock. *)

LEMMA RLockStep ==
  ASSUME IInv, NEW p \in Procs, RLock(p)
  PROVE  IInv'
<1>1. /\ TypeOK /\ Local(p) /\ pc[p] = "rlock" /\ writer[Id(p)] = Nil /\ Op(p) \in Readers
      /\ Id(p) \in Ids
      /\ readers' = [readers EXCEPT ![Id(p)] = @ \cup {p}] /\ Goto(p, "get")
      /\ UNCHANGED <<ledger, ds, uploads, heap, writer, req, ans, m, buf, known>>
  BY Served DEF IInv, RLock, Local, Control
<1>2. pc' \in [Procs -> PCs] /\ pc'[p] = "get" /\ \A q \in Procs \ {p} : pc'[q] = pc[q]
  BY <1>1, Moved DEF PCs
<1>3. TypeOK'
  BY <1>1, <1>2 DEF TypeOK, ledger, known
<1>4. /\ readers'[Id(p)] = readers[Id(p)] \cup {p}
      /\ \A i \in Ids \ {Id(p)} : readers'[i] = readers[i]
  BY <1>1 DEF TypeOK
<1>5. \A q \in Procs : Op(q)' = Op(q) /\ Id(q)' = Id(q)
  BY <1>1 DEF Op, Id
<1>6. Local(p)'
  BY <1>1, <1>2, <1>4, <1>5 DEF Local, Control, Locked, Holds, Putting, Completing, Readers
<1>7. ASSUME NEW q \in Procs \ {p}
      PROVE  Local(q)'
  <2>1. Local(q) /\ Untouched(q) /\ Grows(Id(q))
    BY <1>1, <1>2 DEF IInv, Untouched, Grows, known
  <2>2. Holds(q) => Holds(q)'
    BY SMT, <1>1, <1>4, <1>5, NilIsNew DEF Holds, TypeOK
  <2>3. pc[q] = "wwait" => writer'[Id(q)] = q
    BY <1>1, <2>1 DEF Local, Locked
  <2>. QED
    BY <1>1, <2>1, <2>2, <2>3, LocalKept
<1>8. LockInv'
  BY SMT, <1>1, <1>2, <1>4, <1>5 DEF IInv, LockInv
<1>9. SavedInv'
  BY <1>1, <1>2, SavedKept
<1>10. IdInv' /\ ExpectedInv' /\ HeapInv'
  BY <1>1, IdsKept, HeapUnchanged
<1>. QED
  BY <1>3, <1>6, <1>7, <1>8, <1>9, <1>10 DEF IInv

LEMMA AnnounceWriteStep ==
  ASSUME IInv, NEW p \in Procs, AnnounceWrite(p)
  PROVE  IInv'
<1>1. /\ TypeOK /\ Local(p) /\ pc[p] = "wlock" /\ writer[Id(p)] = Nil
      /\ Op(p) = "PutObjectPart" /\ Id(p) \in Ids
      /\ writer' = [writer EXCEPT ![Id(p)] = p] /\ Goto(p, "wwait")
      /\ UNCHANGED <<ledger, ds, uploads, heap, readers, req, ans, m, buf, known>>
  BY Served DEF IInv, AnnounceWrite, Local, Control
<1>2. pc' \in [Procs -> PCs] /\ pc'[p] = "wwait" /\ \A q \in Procs \ {p} : pc'[q] = pc[q]
  BY <1>1, Moved DEF PCs
<1>3. TypeOK'
  BY <1>1, <1>2 DEF TypeOK, ledger, known
<1>4. writer'[Id(p)] = p /\ \A i \in Ids \ {Id(p)} : writer'[i] = writer[i]
  BY <1>1 DEF TypeOK
<1>5. \A q \in Procs : Op(q)' = Op(q) /\ Id(q)' = Id(q)
  BY <1>1 DEF Op, Id
<1>6. Local(p)'
  BY <1>1, <1>2, <1>4, <1>5 DEF Local, Control, Locked, Holds, Putting, Completing, Readers
<1>7. ASSUME NEW q \in Procs \ {p}
      PROVE  Local(q)'
  <2>1. Local(q) /\ Untouched(q) /\ Grows(Id(q))
    BY <1>1, <1>2 DEF IInv, Untouched, Grows, known
  <2>2. writer[Id(q)] = q => Id(q) # Id(p)
    BY <1>1, NilIsNew
  <2>3. writer[Id(q)] = q /\ pc[q] # "idle" => writer'[Id(q)] = q
    BY <1>1, <1>4, <2>1, <2>2, Served DEF Local
  <2>4. pc[q] = "wwait" => writer'[Id(q)] = q
    BY <2>1, <2>3 DEF Local, Locked
  <2>5. CASE pc[q] = "idle"
    BY <2>1, <2>5, <1>5 DEF Local, Control, Locked, Putting, Completing, Untouched
  <2>6. CASE pc[q] # "idle"
    <3>1. Holds(q) => Holds(q)'
      BY <1>1, <1>5, <2>3, <2>6 DEF Holds
    <3>. QED
      BY <1>1, <2>1, <2>4, <3>1, LocalKept
  <2>. QED
    BY <2>5, <2>6
<1>8. LockInv'
  BY SMT, <1>1, <1>2, <1>4, <1>5 DEF IInv, LockInv
<1>9. SavedInv'
  BY <1>1, <1>2, SavedKept
<1>10. IdInv' /\ ExpectedInv' /\ HeapInv'
  BY <1>1, IdsKept, HeapUnchanged
<1>. QED
  BY <1>3, <1>6, <1>7, <1>8, <1>9, <1>10 DEF IInv

-----------------------------------------------------------------------------
(* Steps that make a message or give one to a goroutine. *)

(* Nothing belongs to an address that is free. *)
LEMMA NewMessage ==
  ASSUME IInv, NEW p \in Procs, pc[p] # "idle", NEW a \in Addrs, heap[a] = Nil,
         NEW u \in Upload, Current(u, Id(p)),
         heap' = [heap EXCEPT ![a] = u], uploads' = [uploads EXCEPT ![Id(p)] = a],
         m' = [m EXCEPT ![p] = a],
         NEW l \in PCs \ {"idle", "return"}, Goto(p, l),
         UNCHANGED <<ledger, ds, locks, req, ans, buf, known>>,
         \A q \in Procs \ {p} : pc[q] \in {"setpart", "putpart"} => Id(q) # Id(p),
         Local(p)'
  PROVE  IInv'
<1>1. TypeOK /\ Local(p) /\ Id(p) \in Ids /\ HeapInv
  BY Served DEF IInv, Local
<1>2. pc' \in [Procs -> PCs] /\ pc'[p] = l /\ \A q \in Procs \ {p} : pc'[q] = pc[q]
  BY <1>1, Moved
<1>3. /\ heap' \in [Addrs -> Upload \cup {Nil}] /\ uploads' \in [Ids -> Addrs \cup {Nil}]
      /\ m' \in [Procs -> Addrs \cup {Nil}]
  BY <1>1 DEF TypeOK
<1>4. TypeOK'
  BY <1>1, <1>2, <1>3 DEF TypeOK, ledger, locks, known
<1>5. /\ heap'[a] = u /\ \A b \in Addrs \ {a} : heap'[b] = heap[b]
      /\ uploads'[Id(p)] = a /\ \A i \in Ids \ {Id(p)} : uploads'[i] = uploads[i]
      /\ m'[p] = a /\ \A q \in Procs \ {p} : m'[q] = m[q]
  BY <1>1 DEF TypeOK
<1>6. \A q \in Procs : Op(q)' = Op(q) /\ Id(q)' = Id(q)
  BY DEF Op, Id
<1>7. ASSUME NEW i \in Ids, Refers(a, i)
      PROVE  FALSE
  BY <1>1, <1>7 DEF HeapInv
<1>8. ASSUME NEW q \in Procs \ {p}
      PROVE  Local(q)'
  <2>1. Local(q) /\ Untouched(q) /\ Grows(Id(q))
    BY <1>2, <1>5 DEF IInv, Untouched, Grows, known
  <2>2. Holds(q) => Holds(q)'
    BY <1>6 DEF Holds, locks
  <2>3. pc[q] = "wwait" => writer'[Id(q)] = q
    BY <2>1 DEF Local, Locked, locks
  <2>4. ASSUME pc[q] \in {"setpart", "putpart"}
        PROVE  /\ uploads'[Id(q)] = uploads[Id(q)]
               /\ heap'[m[q]] = heap[m[q]]
    <3>1. Id(q) \in Ids /\ Id(q) # Id(p) /\ m[q] # Nil /\ m[q] \in Addrs
      BY <1>1, <2>1, <2>4, Served DEF Local, Control, TypeOK
    <3>2. m[q] # a
      BY <3>1, <1>7 DEF Refers
    <3>. QED
      BY <3>1, <3>2, <1>5
  <2>. QED
    BY <1>1, <2>1, <2>2, <2>3, <2>4, LocalKept
<1>9. LockInv'
  BY SMT, <1>2, <1>6 DEF IInv, LockInv, locks
<1>10. SavedInv'
  BY <1>2, SavedKept
<1>11. HeapInv'
  <2>1. ASSUME NEW b \in Addrs, NEW i \in Ids, Refers(b, i)'
        PROVE  IF b = a THEN i = Id(p) ELSE Refers(b, i)
    BY SMT, <1>5, <1>6, <1>7, <2>1 DEF Refers
  <2>2. \A b \in Addrs \ {a}, i \in Ids : Refers(b, i) => (heap[b] # Nil)' /\ Current(heap[b], i)'
    BY <1>1, <1>5 DEF HeapInv, Current, known
  <2>3. (heap[a] # Nil)' /\ Current(heap[a], Id(p))'
    BY <1>5, <1>6, NilIsNew DEF Current, known
  <2>. QED
    BY SMT, <1>1, <1>6, <2>1, <2>2, <2>3 DEF HeapInv
<1>. QED
  BY <1>4, <1>8, <1>9, <1>10, <1>11, IdsKept DEF IInv

LEMMA NewInMapStep ==
  ASSUME IInv, NEW p \in Procs, NewInMap(p)
  PROVE  IInv'
<1>1. /\ TypeOK /\ Local(p) /\ pc[p] = "newmap" /\ Op(p) = "NewMultipartUpload"
      /\ Goto(p, "newput")
      /\ UNCHANGED <<ledger, ds, locks, req, ans, buf, known>>
  BY DEF IInv, NewInMap, Local, Control
<1>2. Id(p) \in Ids /\ req[p] # Nil /\ req[p].o \in Objects
  BY <1>1, Served DEF Local
<1>. DEFINE u == [name |-> req[p].o, size |-> Nil, parts |-> NoParts]
<1>3. PICK a \in Addrs : /\ IsNextFree(a)
                         /\ heap' = [heap EXCEPT ![a] = u]
                         /\ uploads' = [uploads EXCEPT ![Id(p)] = a]
                         /\ m' = [m EXCEPT ![p] = a]
  BY DEF NewInMap
<1>4. heap[a] = Nil
  BY <1>3 DEF IsNextFree
<1>5. u \in Upload
  BY <1>2 DEF Upload, NoParts
<1>6. Current(u, Id(p))
  BY <1>1, <1>2 DEF IInv, IdInv, ExpectedInv, Current, NoParts
<1>. HIDE DEF u
<1>7. pc'[p] = "newput" /\ m'[p] = a /\ a # Nil /\ Op(p)' = Op(p) /\ "newput" \in PCs
  BY <1>1, <1>3, NilIsNew DEF Goto, TypeOK, Op, PCs
<1>8. Local(p)'
  BY <1>1, <1>2, <1>7 DEF Local, Control, Locked, Putting, Completing
<1>9. \A q \in Procs \ {p} : pc[q] \in {"setpart", "putpart"} => Id(q) # Id(p)
  BY <1>1, <1>2, Served DEF IInv, IdInv, Local
<1>. QED
  BY <1>1, <1>3, <1>4, <1>5, <1>6, <1>7, <1>8, <1>9, NewMessage

LEMMA AfterGetIs ==
  ASSUME NEW p \in Procs, Op(p) \in Readers \cup {"PutObjectPart"}
  PROVE  /\ AfterGet(p) \in PCs \ {"idle", "return"}
         /\ AfterGet(p) \in {"setpart", "list", "build"}
         /\ AfterGet(p) = "setpart" => Op(p) = "PutObjectPart"
         /\ AfterGet(p) = "list" => Op(p) = "ListObjectParts"
         /\ AfterGet(p) = "build" => Op(p) = "CompleteMultipartUpload"
BY DEF AfterGet, Readers, PCs

(* The message that a goroutine has got is that of the map. *)
LEMMA GotLocal ==
  ASSUME IInv, NEW p \in Procs, pc[p] = "get", pc'[p] = AfterGet(p), UNCHANGED <<req, locks>>,
         m'[p] # Nil, uploads'[Id(p)] = m'[p]
  PROVE  Local(p)'
<1>1. Local(p) /\ Op(p) \in Readers \cup {"PutObjectPart"} /\ Holds(p) /\ req[p] # Nil
  BY DEF IInv, Local, Control, Locked
<1>2. Op(p)' = Op(p) /\ Id(p)' = Id(p) /\ Holds(p)'
  BY <1>1 DEF Op, Holds, Id, locks
<1>3. Control(p)' /\ Locked(p)'
  BY <1>1, <1>2, AfterGetIs DEF Control, Locked
<1>4. Putting(p)' /\ Completing(p)'
  BY <1>1, <1>2, AfterGetIs DEF Putting, Completing
<1>. QED
  BY <1>3, <1>4 DEF Local

(* Who puts a part has the upload for itself. *)
LEMMA PutterAlone ==
  ASSUME IInv, NEW p \in Procs, NEW q \in Procs, pc[p] \in {"setpart", "putpart"},
         Holds(q) \/ m[q] # Nil, pc[q] # "idle", Id(q) = Id(p)
  PROVE  q = p
<1>1. /\ Local(p) /\ Local(q) /\ Op(p) = "PutObjectPart" /\ Holds(p)
      /\ req[p] # Nil /\ req[q] # Nil
  BY DEF IInv, Local, Control, Locked
<1>2. Op(q) # "NewMultipartUpload"
  BY <1>1 DEF IInv, IdInv
<1>3. Holds(q)
  BY <1>1, <1>2 DEF Local, Locked
<1>. QED
  BY <1>1, <1>3, WriterAlone

LEMMA GetMultipartStep ==
  ASSUME IInv, NEW p \in Procs, GetMultipart(p)
  PROVE  IInv'
<1>1. /\ TypeOK /\ Local(p) /\ pc[p] = "get" /\ Op(p) \in Readers \cup {"PutObjectPart"}
      /\ Holds(p) /\ UNCHANGED <<ledger, ds, locks, req, buf, known>>
  BY DEF IInv, GetMultipart, Local, Control, Locked
<1>2. Id(p) \in Ids /\ req[p] # Nil
  BY <1>1, Served DEF Local
<1>3. \A q \in Procs \ {p} : pc[q] \in {"setpart", "putpart"} => Id(q) # Id(p)
  BY <1>1, PutterAlone
<1>4. CASE /\ uploads[Id(p)] # Nil /\ m' = [m EXCEPT ![p] = uploads[Id(p)]]
           /\ Goto(p, AfterGet(p)) /\ UNCHANGED <<uploads, heap, ans>>
  <2>1. /\ pc' \in [Procs -> PCs] /\ pc'[p] = AfterGet(p) /\ pc'[p] \notin {"idle", "return"}
        /\ \A q \in Procs \ {p} : pc'[q] = pc[q]
    BY <1>1, <1>4, Moved, AfterGetIs
  <2>2. /\ m' \in [Procs -> Addrs \cup {Nil}] /\ m'[p] = uploads[Id(p)]
        /\ \A q \in Procs \ {p} : m'[q] = m[q]
    BY <1>1, <1>2, <1>4 DEF TypeOK
  <2>3. TypeOK'
    BY <1>1, <1>4, <2>1, <2>2 DEF TypeOK, ledger, locks, known
  <2>4. Local(p)'
    BY <1>1, <1>4, <2>1, <2>2, GotLocal
  <2>5. \A q \in Procs \ {p} : Untouched(q)
    BY <1>1, <2>1, <2>2 DEF Untouched
  <2>6. \A q \in Procs \ {p} : Local(q)'
    BY <1>1, <1>4, <2>5, OthersKept DEF known
  <2>7. \A q \in Procs : Op(q)' = Op(q) /\ Id(q)' = Id(q)
    BY <1>1 DEF Op, Id
  <2>8. LockInv'
    BY <1>1, <2>1, <2>7 DEF IInv, LockInv, locks
  <2>9. SavedInv'
    BY <1>1, <1>4, <2>1, SavedKept
  <2>10. HeapInv'
    <3>1. \A a \in Addrs, i \in Ids : Refers(a, i)' => Refers(a, i)
      BY <1>4, <2>2, <2>7 DEF Refers
    <3>2. \A a \in Addrs, i \in Ids : Current(heap[a], i) => Current(heap[a], i)'
      BY <1>1, <1>4 DEF Current, known
    <3>. QED
      BY <1>4, <3>1, <3>2, HeapKept DEF IInv, HeapInv
  <2>. QED
    BY <1>1, <2>3, <2>4, <2>6, <2>8, <2>9, <2>10, IdsKept DEF IInv
<1>5. CASE /\ uploads[Id(p)] = Nil /\ ds[Id(p)] # Nil
           /\ \E a \in Addrs :
                /\ IsNextFree(a)
                /\ heap' = [heap EXCEPT ![a] = ds[Id(p)]]
                /\ uploads' = [uploads EXCEPT ![Id(p)] = a]
                /\ m' = [m EXCEPT ![p] = a]
           /\ Goto(p, AfterGet(p)) /\ UNCHANGED ans
  <2>1. PICK a \in Addrs : /\ IsNextFree(a)
                           /\ heap' = [heap EXCEPT ![a] = ds[Id(p)]]
                           /\ uploads' = [uploads EXCEPT ![Id(p)] = a]
                           /\ m' = [m EXCEPT ![p] = a]
    BY <1>5
  <2>2. heap[a] = Nil /\ ds[Id(p)] \in Upload /\ Current(ds[Id(p)], Id(p))
    BY <1>1, <1>2, <1>5, <2>1 DEF IsNextFree, TypeOK, IInv, SavedInv
  <2>3. AfterGet(p) \in PCs \ {"idle", "return"} /\ pc'[p] = AfterGet(p)
    BY <1>1, <1>5, Moved, AfterGetIs
  <2>4. m'[p] = a /\ uploads'[Id(p)] = a /\ a # Nil
    BY <1>1, <1>2, <2>1, NilIsNew DEF TypeOK
  <2>5. Local(p)'
    BY <1>1, <2>3, <2>4, GotLocal
  <2>6. Goto(p, AfterGet(p)) /\ UNCHANGED <<ledger, ds, locks, req, ans, buf, known>>
    BY <1>1, <1>5
  <2>. QED
    BY <1>1, <1>3, <2>1, <2>2, <2>3, <2>5, <2>6, NewMessage
<1>6. CASE /\ uploads[Id(p)] = Nil /\ ds[Id(p)] = Nil
           /\ Finish(p, IF Op(p) = "ListObjectParts" THEN "panic" ELSE "ErrInvalidUploadID")
           /\ UNCHANGED <<uploads, heap, m>>
  <2>1. \E a \in Answers \ {"nil"} : Finish(p, a)
    BY <1>6 DEF Answers
  <2>. QED
    BY <1>1, <1>6, <2>1, FinishStep
<1>. QED
  BY <1>4, <1>5, <1>6 DEF GetMultipart

-----------------------------------------------------------------------------
(* Steps that change a message or save one. *)

(* The message that a goroutine has is that of its upload. *)
LEMMA OwnMessage ==
  ASSUME IInv, NEW p \in Procs, pc[p] # "idle", m[p] # Nil
  PROVE  /\ m[p] \in Addrs /\ heap[m[p]] # Nil /\ heap[m[p]] \in Upload
         /\ Current(heap[m[p]], Id(p))
         /\ \A i \in Ids : Refers(m[p], i) => i = Id(p)
<1>1. TypeOK /\ Local(p) /\ HeapInv
  BY DEF IInv
<1>2. Id(p) \in Ids /\ m[p] \in Addrs
  BY <1>1, Served DEF Local, TypeOK
<1>3. Refers(m[p], Id(p))
  BY <1>2 DEF Refers
<1>4. /\ heap[m[p]] # Nil /\ Current(heap[m[p]], Id(p))
      /\ \A i \in Ids : Refers(m[p], i) => i = Id(p)
  BY <1>1, <1>2, <1>3 DEF HeapInv
<1>. QED
  BY <1>1, <1>2, <1>4 DEF TypeOK

LEMMA NewInDsStep ==
  ASSUME IInv, NEW p \in Procs, NewInDs(p)
  PROVE  IInv'
<1>1. /\ TypeOK /\ Local(p) /\ pc[p] = "newput" /\ m[p] # Nil
      /\ ds' = [ds EXCEPT ![Id(p)] = heap[m[p]]] /\ Finish(p, "nil")
      /\ UNCHANGED <<ledger, uploads, heap, locks, req, m, buf, known>>
  BY DEF IInv, NewInDs, Local, Control
<1>2. Id(p) \in Ids /\ m[p] \in Addrs
  BY <1>1, Served DEF Local, TypeOK
<1>3. heap[m[p]] # Nil /\ heap[m[p]] \in Upload /\ Current(heap[m[p]], Id(p))
  BY <1>1, OwnMessage
<1>4. /\ pc' \in [Procs -> PCs] /\ pc'[p] = "return" /\ ans' \in [Procs -> Answers \cup {Nil}]
      /\ \A q \in Procs \ {p} : pc'[q] = pc[q] /\ ans'[q] = ans[q]
  BY <1>1, Finished DEF Answers
<1>5. /\ ds' \in [Ids -> Upload \cup {Nil}] /\ ds'[Id(p)] = heap[m[p]]
      /\ \A i \in Ids \ {Id(p)} : ds'[i] = ds[i]
  BY <1>1, <1>2, <1>3 DEF TypeOK
<1>6. TypeOK'
  BY <1>1, <1>4, <1>5 DEF TypeOK, ledger, locks, known
<1>7. \A q \in Procs : Op(q)' = Op(q) /\ Id(q)' = Id(q)
  BY <1>1 DEF Op, Id
<1>8. Local(p)'
  BY <1>1, <1>4, ReturnLocal
<1>9. \A q \in Procs \ {p} : Untouched(q)
  BY <1>1, <1>4 DEF Untouched
<1>10. \A q \in Procs \ {p} : Local(q)'
  BY <1>1, <1>9, OthersKept DEF known
<1>11. LockInv'
  BY <1>1, <1>4, <1>7 DEF IInv, LockInv, locks
<1>12. SavedInv'
  <2>1. \A i \in Ids : ds'[i] # Nil => Current(ds[i], i)'
    BY <1>1, <1>3, <1>5 DEF IInv, SavedInv, Current, known
  <2>2. \A i \in Ids : ds[i] # Nil => ds'[i] # Nil
    BY <1>3, <1>5
  <2>3. \A i \in issued' \ deleted' : ds'[i] # Nil
    BY <1>1, <2>2 DEF IInv, SavedInv, TypeOK, known
  <2>4. ASSUME NEW q \in Procs, pc'[q] = "return", Op(q) = "NewMultipartUpload", ans'[q] = "nil"
        PROVE  ds'[Id(q)] # Nil
    <3>1. CASE q = p
      BY <3>1, <1>3, <1>5
    <3>2. CASE q # p
      <4>1. pc[q] = "return" /\ ans[q] = "nil" /\ Local(q)
        BY <3>2, <2>4, <1>4 DEF IInv
      <4>2. Id(q) \in Ids /\ ds[Id(q)] # Nil
        BY <1>1, <2>4, <4>1, Served DEF IInv, SavedInv, Local
      <4>. QED
        BY <2>2, <4>2
    <3>. QED
      BY <3>1, <3>2
  <2>. QED
    BY <1>7, <2>1, <2>3, <2>4 DEF SavedInv
<1>. QED
  BY <1>1, <1>6, <1>8, <1>10, <1>11, <1>12, IdsKept, HeapUnchanged DEF IInv

(* The step to the upload's own size, if the client sent no metadata. *)
LEMMA SetSizeStep ==
  ASSUME IInv, NEW p \in Procs, SetSize(p)
  PROVE  IInv'
<1>1. /\ TypeOK /\ Local(p) /\ pc[p] = "size" /\ Op(p) = "CompleteMultipartUpload"
      /\ m[p] # Nil /\ buf[p] \in Object /\ Holds(p) /\ req[p] # Nil
      /\ UNCHANGED <<ledger, ds, uploads, locks, req, ans, m, buf, known>>
  BY DEF IInv, SetSize, Local, Control, Locked, Completing
<1>2. Op(p)' = Op(p) /\ Id(p)' = Id(p) /\ Holds(p)'
  BY <1>1 DEF Op, Holds, Id, locks
<1>3. ASSUME pc'[p] \in {"copy", "putobject"}
      PROVE  Local(p)'
  <2>1. Control(p)' /\ Locked(p)' /\ Putting(p)'
    BY <1>1, <1>2, <1>3 DEF Control, Locked, Putting
  <2>2. Completing(p)'
    BY <1>1, <1>2 DEF Local, Completing, known
  <2>. QED
    BY <2>1, <2>2 DEF Local
<1>4. CASE Goto(p, "putobject") /\ UNCHANGED heap
  <2>1. pc'[p] = "putobject" /\ "putobject" \in PCs \ {"idle", "return"}
    BY <1>1, <1>4, Moved DEF PCs
  <2>. QED
    BY <1>1, <1>3, <1>4, <2>1, GotoStep
<1>5. CASE Goto(p, "copy") /\ heap' = [heap EXCEPT ![m[p]].size = buf[p].data]
  <2>1. /\ m[p] \in Addrs /\ heap[m[p]] \in Upload /\ heap \in [Addrs -> Upload \cup {Nil}]
        /\ buf[p].data \in Content
    BY <1>1, OwnMessage DEF TypeOK, Object
  <2>2. /\ heap'[m[p]] \in Upload /\ heap'[m[p]].parts = heap[m[p]].parts
        /\ \A a \in Addrs \ {m[p]} : heap'[a] = heap[a]
    BY <1>5, <2>1 DEF Upload
  <2>3. heap' \in [Addrs -> Upload \cup {Nil}]
    BY <1>5, <2>1, <2>2
  <2>4. pc' \in [Procs -> PCs] /\ pc'[p] = "copy" /\ \A q \in Procs \ {p} : pc'[q] = pc[q]
    BY <1>1, <1>5, Moved DEF PCs
  <2>5. TypeOK'
    BY <1>1, <2>3, <2>4 DEF TypeOK, ledger, locks, known
  <2>6. \A q \in Procs \ {p} : Untouched(q)
    BY <1>1, <2>4 DEF Untouched
  <2>7. ASSUME NEW q \in Procs \ {p}, pc[q] = "putpart"
        PROVE  heap'[m[q]].parts[Number(q)] = heap[m[q]].parts[Number(q)]
    <3>1. m[q] \in Addrs
      BY <2>7 DEF IInv, Local, Control, TypeOK
    <3>. QED
      BY <3>1, <2>2
  <2>8. \A q \in Procs \ {p} : Local(q)'
    BY <1>1, <2>6, <2>7, OthersKept DEF known
  <2>9. Local(p)'
    BY <1>3, <2>4
  <2>10. \A q \in Procs : Op(q)' = Op(q) /\ Id(q)' = Id(q)
    BY <1>1 DEF Op, Id
  <2>11. LockInv'
    BY <1>1, <2>4, <2>10 DEF IInv, LockInv, locks
  <2>12. SavedInv'
    BY <1>1, <2>4, SavedKept
  <2>13. HeapInv'
    <3>1. \A a \in Addrs, i \in Ids : Refers(a, i)' => Refers(a, i)
      BY <1>1, <2>10 DEF Refers
    <3>2. \A a \in Addrs : heap[a] # Nil => heap'[a] # Nil
      BY <2>1, <2>2, NilIsNew
    <3>3. \A a \in Addrs, i \in Ids : Current(heap[a], i) => Current(heap[a], i)'
      BY <1>1, <2>2 DEF Current, known
    <3>. QED
      BY <3>1, <3>2, <3>3, HeapKept DEF IInv, HeapInv
  <2>. QED
    BY <1>1, <2>5, <2>8, <2>9, <2>11, <2>12, <2>13, IdsKept DEF IInv
<1>. QED
  BY <1>4, <1>5 DEF SetSize

(* What a client may expect changes for one part of one upload. *)
LEMMA ExpectFacts ==
  ASSUME TypeOK, ExpectedInv, NEW p \in Procs, Id(p) \in Ids, Number(p) \in Parts,
         NEW s \in SUBSET (Datas \cup {Nil}), Expect(p, s), Id(p) \in issued,
         UNCHANGED <<issued, deleted>>
  PROVE  /\ expected' \in [Ids -> [Parts -> SUBSET (Datas \cup {Nil})]]
         /\ \A i \in Ids \ {Id(p)} : expected'[i] = expected[i]
         /\ \A n \in Parts \ {Number(p)} : expected'[Id(p)][n] = expected[Id(p)][n]
         /\ expected'[Id(p)][Number(p)] =
              IF Id(p) \in deleted THEN Datas \cup {Nil} ELSE s
         /\ ExpectedInv'
<1>1. CASE Id(p) \in deleted
  BY <1>1 DEF Expect, TypeOK, ExpectedInv
<1>2. CASE Id(p) \notin deleted
  <2>1. expected' = [expected EXCEPT ![Id(p)][Number(p)] = s]
    BY <1>2 DEF Expect
  <2>. DEFINE e == [expected[Id(p)] EXCEPT ![Number(p)] = s]
  <2>2. expected' = [expected EXCEPT ![Id(p)] = e]
    BY <2>1
  <2>3. expected[Id(p)] \in [Parts -> SUBSET (Datas \cup {Nil})]
    BY DEF TypeOK
  <2>4. /\ e \in [Parts -> SUBSET (Datas \cup {Nil})] /\ e[Number(p)] = s
        /\ \A n \in Parts \ {Number(p)} : e[n] = expected[Id(p)][n]
    BY <2>3
  <2>. HIDE DEF e
  <2>5. /\ expected' \in [Ids -> [Parts -> SUBSET (Datas \cup {Nil})]] /\ expected'[Id(p)] = e
        /\ \A i \in Ids \ {Id(p)} : expected'[i] = expected[i]
    BY <2>2, <2>4 DEF TypeOK
  <2>6. ExpectedInv'
    <3>1. \A i \in deleted' : i \in deleted /\ expected'[i] = expected[i]
      BY <1>2, <2>5 DEF TypeOK
    <3>2. \A i \in Ids \ (issued' \cup deleted') :
            i \notin issued \cup deleted /\ expected'[i] = expected[i]
      BY <2>5
    <3>. QED
      BY SMT, <3>1, <3>2 DEF ExpectedInv
  <2>. QED
    BY <1>2, <2>4, <2>5, <2>6
<1>. QED
  BY <1>1, <1>2

LEMMA SetPartStep ==
  ASSUME IInv, NEW p \in Procs, SetPart(p)
  PROVE  IInv'
<1>1. /\ TypeOK /\ Local(p) /\ pc[p] = "setpart" /\ Op(p) = "PutObjectPart"
      /\ m[p] # Nil /\ req[p] # Nil /\ Holds(p) /\ uploads[Id(p)] \in {Nil, m[p]}
      /\ heap' = [heap EXCEPT ![m[p]].parts[Number(p)] = Data(p)]
      /\ buf' = [buf EXCEPT ![p] = heap'[m[p]]]
      /\ Expect(p, expected[Id(p)][Number(p)] \cup {Data(p)})
      /\ Goto(p, "putpart")
      /\ UNCHANGED <<ledger, ds, uploads, locks, req, ans, m, issued, deleted>>
  BY DEF IInv, SetPart, Local, Control, Locked, Putting
<1>2. /\ Id(p) \in Ids /\ Number(p) \in Parts /\ Data(p) \in Datas /\ Id(p) \in issued
  BY <1>1, Served DEF Local, IInv, IdInv
<1>3. /\ m[p] \in Addrs /\ heap[m[p]] \in Upload /\ Current(heap[m[p]], Id(p))
      /\ \A i \in Ids : Refers(m[p], i) => i = Id(p)
  BY <1>1, OwnMessage
<1>4. expected[Id(p)][Number(p)] \cup {Data(p)} \in SUBSET (Datas \cup {Nil})
  BY <1>1, <1>2 DEF TypeOK
<1>5. /\ expected' \in [Ids -> [Parts -> SUBSET (Datas \cup {Nil})]]
      /\ \A i \in Ids \ {Id(p)} : expected'[i] = expected[i]
      /\ \A n \in Parts \ {Number(p)} : expected'[Id(p)][n] = expected[Id(p)][n]
      /\ expected'[Id(p)][Number(p)] = IF Id(p) \in deleted THEN Datas \cup {Nil}
                                       ELSE expected[Id(p)][Number(p)] \cup {Data(p)}
      /\ ExpectedInv'
  BY <1>1, <1>2, <1>4, ExpectFacts DEF IInv
<1>6. \A i \in Ids : Grows(i)
  <2>1. expected[Id(p)][Number(p)] \subseteq Datas \cup {Nil}
    BY <1>1, <1>2 DEF TypeOK
  <2>. QED
    BY <1>5, <2>1 DEF Grows
<1>7. /\ heap'[m[p]] \in Upload
      /\ heap'[m[p]].parts[Number(p)] = Data(p)
      /\ \A n \in Parts \ {Number(p)} : heap'[m[p]].parts[n] = heap[m[p]].parts[n]
      /\ heap' \in [Addrs -> Upload \cup {Nil}]
      /\ \A a \in Addrs \ {m[p]} : heap'[a] = heap[a]
  <2>. DEFINE u == [heap[m[p]] EXCEPT !.parts[Number(p)] = Data(p)]
  <2>1. heap[m[p]].parts \in [Parts -> Datas \cup {Nil}]
    BY <1>3 DEF Upload
  <2>2. /\ u \in Upload /\ u.parts[Number(p)] = Data(p)
        /\ \A n \in Parts \ {Number(p)} : u.parts[n] = heap[m[p]].parts[n]
    BY <1>2, <1>3, <2>1 DEF Upload
  <2>3. heap' = [heap EXCEPT ![m[p]] = u]
    BY <1>1
  <2>. HIDE DEF u
  <2>. QED
    BY <1>1, <1>3, <2>2, <2>3 DEF TypeOK
<1>8. Current(heap[m[p]], Id(p))'
  <2>1. Id(p)' = Id(p) /\ m'[p] = m[p]
    BY <1>1 DEF Id
  <2>2. \A n \in Parts : heap'[m[p]].parts[n] \in expected'[Id(p)][n]
    BY SMT, <1>2, <1>3, <1>5, <1>7 DEF Current
  <2>. QED
    BY <2>1, <2>2 DEF Current
<1>9. pc' \in [Procs -> PCs] /\ pc'[p] = "putpart" /\ \A q \in Procs \ {p} : pc'[q] = pc[q]
  BY <1>1, Moved DEF PCs
<1>10. /\ buf' \in [Procs -> Upload \cup Object \cup {Nil}] /\ buf'[p] = heap'[m[p]]
       /\ \A q \in Procs \ {p} : buf'[q] = buf[q]
  BY <1>1, <1>7 DEF TypeOK
<1>11. TypeOK'
  BY <1>1, <1>5, <1>7, <1>9, <1>10 DEF TypeOK, ledger, locks
<1>12. \A q \in Procs : Op(q)' = Op(q) /\ Id(q)' = Id(q) /\ Number(q)' = Number(q) /\ Data(q)' = Data(q)
  BY <1>1 DEF Op, Id, Number, Data
<1>13. Local(p)'
  <2>1. Holds(p)'
    BY <1>1, <1>12 DEF Holds, locks
  <2>2. Control(p)' /\ Locked(p)'
    BY <1>1, <1>9, <1>12, <2>1 DEF Control, Locked
  <2>3. Current(buf[p], Id(p))'
    BY <1>1, <1>8, <1>10 DEF Current
  <2>4. Putting(p)' /\ Completing(p)'
    BY <1>1, <1>7, <1>9, <1>10, <1>12, <2>3 DEF Putting, Completing
  <2>. QED
    BY <2>2, <2>4 DEF Local
<1>14. ASSUME NEW q \in Procs \ {p}
       PROVE  Local(q)'
  <2>1. Local(q) /\ Untouched(q)
    BY <1>1, <1>9, <1>10 DEF IInv, Untouched
  <2>2. Holds(q) => Holds(q)'
    BY <1>1, <1>12 DEF Holds, locks
  <2>3. pc[q] = "wwait" => writer'[Id(q)] = q
    BY <1>1, <2>1 DEF Local, Locked, locks
  <2>4. pc[q] # "idle" => Grows(Id(q))
    BY <1>1, <1>6, <2>1, Served DEF Local
  <2>5. ASSUME pc[q] = "putpart"
        PROVE  heap'[m[q]] = heap[m[q]]
    <3>1. Id(q) \in Ids /\ m[q] # Nil /\ m[q] \in Addrs
      BY <1>1, <2>1, <2>5, Served DEF Local, Control, TypeOK
    <3>2. Id(q) # Id(p)
      BY <1>1, <2>5, <3>1, PutterAlone
    <3>3. m[q] # m[p]
      BY <1>3, <3>1, <3>2 DEF Refers
    <3>. QED
      BY <1>7, <3>1, <3>3
  <2>. QED
    BY <1>1, <2>1, <2>2, <2>3, <2>4, <2>5, LocalKept
<1>15. LockInv'
  BY <1>1, <1>9, <1>12 DEF IInv, LockInv, locks
<1>16. IdInv'
  BY <1>1, <1>12 DEF IInv, IdInv
<1>17. SavedInv'
  <2>1. \A i \in Ids : Current(ds[i], i) => Current(ds[i], i)'
    BY <1>1, <1>6 DEF Current, Grows
  <2>. QED
    BY <1>1, <1>9, <1>12, <2>1 DEF IInv, SavedInv
<1>18. HeapInv'
  <2>1. \A a \in Addrs, i \in Ids : Refers(a, i)' => Refers(a, i)
    BY <1>1, <1>12 DEF Refers
  <2>2. \A a \in Addrs : heap[a] # Nil => heap'[a] # Nil
    BY <1>7, NilIsNew
  <2>3. \A a \in Addrs \ {m[p]}, i \in Ids : Current(heap[a], i) => Current(heap[a], i)'
    BY <1>6, <1>7 DEF Current, Grows
  <2>4. \A i \in Ids : Refers(m[p], i) => Current(heap[m[p]], i)'
    BY <1>1, <1>3, <1>8, <1>12 DEF Current
  <2>5. \A a \in Addrs, i \in Ids : Refers(a, i) => Current(heap[a], i)'
    BY SMT, <1>1, <2>3, <2>4 DEF IInv, HeapInv, Current
  <2>. QED
    BY <2>1, <2>2, <2>5, HeapKept DEF IInv, HeapInv
<1>. QED
  BY <1>5, <1>11, <1>13, <1>14, <1>15, <1>16, <1>17, <1>18 DEF IInv

LEMMA PutPartStep ==
  ASSUME IInv, NEW p \in Procs, PutPart(p)
  PROVE  IInv'
<1>1. /\ TypeOK /\ Local(p) /\ pc[p] = "putpart" /\ Op(p) = "PutObjectPart"
      /\ m[p] # Nil /\ req[p] # Nil /\ Holds(p) /\ uploads[Id(p)] \in {Nil, m[p]}
      /\ buf[p] \in Upload /\ Current(buf[p], Id(p))
      /\ buf[p].parts[Number(p)] = Data(p) /\ heap[m[p]].parts[Number(p)] = Data(p)
      /\ ds' = [ds EXCEPT ![Id(p)] = buf[p]]
      /\ Expect(p, {Data(p)}) /\ Finish(p, "nil")
      /\ UNCHANGED <<ledger, uploads, heap, locks, req, m, buf, issued, deleted>>
  BY DEF IInv, PutPart, Local, Control, Locked, Putting
<1>2. Id(p) \in Ids /\ Number(p) \in Parts /\ Data(p) \in Datas /\ Id(p) \in issued
  BY <1>1, Served DEF Local, IInv, IdInv
<1>3. m[p] \in Addrs /\ Current(heap[m[p]], Id(p))
  BY <1>1, OwnMessage
<1>4. /\ expected' \in [Ids -> [Parts -> SUBSET (Datas \cup {Nil})]]
      /\ \A i \in Ids \ {Id(p)} : expected'[i] = expected[i]
      /\ \A n \in Parts \ {Number(p)} : expected'[Id(p)][n] = expected[Id(p)][n]
      /\ Data(p) \in expected'[Id(p)][Number(p)]
      /\ ExpectedInv'
  <2>1. {Data(p)} \in SUBSET (Datas \cup {Nil})
    BY <1>2
  <2>. QED
    BY <1>1, <1>2, <2>1, ExpectFacts DEF IInv
<1>5. /\ pc' \in [Procs -> PCs] /\ pc'[p] = "return" /\ ans' \in [Procs -> Answers \cup {Nil}]
      /\ \A q \in Procs \ {p} : pc'[q] = pc[q] /\ ans'[q] = ans[q]
  BY <1>1, Finished DEF Answers
<1>6. /\ ds' \in [Ids -> Upload \cup {Nil}] /\ ds'[Id(p)] = buf[p] /\ buf[p] # Nil
      /\ \A i \in Ids \ {Id(p)} : ds'[i] = ds[i]
  BY <1>1, <1>2, NilIsNew DEF TypeOK
<1>7. TypeOK'
  BY <1>1, <1>4, <1>5, <1>6 DEF TypeOK, ledger, locks
<1>8. \A q \in Procs : Op(q)' = Op(q) /\ Id(q)' = Id(q)
  BY <1>1 DEF Op, Id
<1>9. Local(p)'
  BY <1>1, <1>5, ReturnLocal
<1>10. ASSUME NEW q \in Procs \ {p}
       PROVE  Local(q)'
  <2>1. Local(q) /\ Untouched(q)
    BY <1>1, <1>5 DEF IInv, Untouched
  <2>2. Holds(q) => Holds(q)'
    BY <1>1, <1>8 DEF Holds, locks
  <2>3. pc[q] = "wwait" => writer'[Id(q)] = q
    BY <1>1, <2>1 DEF Local, Locked, locks
  <2>4. ASSUME pc[q] \in {"putpart", "size", "copy", "putobject"}
        PROVE  Grows(Id(q))
    <3>1. Id(q) \in Ids /\ Holds(q)
      BY <1>1, <2>1, <2>4, Served DEF Local, Locked
    <3>2. Id(q) # Id(p)
      BY <1>1, <2>4, <3>1, PutterAlone
    <3>. QED
      BY <1>4, <3>1, <3>2 DEF Grows
  <2>. QED
    BY <1>1, <2>1, <2>2, <2>3, <2>4, LocalKept
<1>11. LockInv'
  BY <1>1, <1>5, <1>8 DEF IInv, LockInv, locks
<1>12. IdInv'
  BY <1>1, <1>8 DEF IInv, IdInv
<1>13. SavedInv'
  <2>1. \A n \in Parts : buf[p].parts[n] \in expected'[Id(p)][n]
    BY <1>1, <1>2, <1>4 DEF Current
  <2>2. \A i \in Ids : ds'[i] # Nil => Current(ds[i], i)'
    BY <1>4, <1>6, <2>1 DEF IInv, SavedInv, Current
  <2>3. \A i \in Ids : ds[i] # Nil => ds'[i] # Nil
    BY <1>6
  <2>4. \A i \in issued' \ deleted' : ds'[i] # Nil
    BY <1>1, <2>3 DEF IInv, SavedInv, TypeOK
  <2>5. ASSUME NEW q \in Procs, pc'[q] = "return", Op(q) = "NewMultipartUpload", ans'[q] = "nil"
        PROVE  ds'[Id(q)] # Nil
    <3>1. pc[q] = "return" /\ ans[q] = "nil" /\ Local(q)
      BY <2>5, <1>1, <1>5 DEF IInv
    <3>2. Id(q) \in Ids /\ ds[Id(q)] # Nil
      BY <1>1, <2>5, <3>1, Served DEF IInv, SavedInv, Local
    <3>. QED
      BY <2>3, <3>2
  <2>. QED
    BY <1>8, <2>2, <2>4, <2>5 DEF SavedInv
<1>14. HeapInv'
  <2>1. \A a \in Addrs, i \in Ids : Refers(a, i)' => Refers(a, i)
    BY <1>1, <1>8 DEF Refers
  <2>2. ASSUME NEW a \in Addrs, Refers(a, Id(p))
        PROVE  a = m[p]
    <3>1. CASE uploads[Id(p)] = a
      BY <1>1, <3>1, NilIsNew
    <3>2. ASSUME NEW q \in Procs, m[q] = a, Id(q) = Id(p)
          PROVE  a = m[p]
      <4>1. m[q] # Nil /\ pc[q] # "idle"
        BY <3>2, NilIsNew DEF IInv, Local, Control
      <4>. QED
        BY <1>1, <3>2, <4>1, PutterAlone
    <3>. QED
      BY <2>2, <3>1, <3>2 DEF Refers
  <2>3. \A n \in Parts : heap[m[p]].parts[n] \in expected'[Id(p)][n]
    BY <1>1, <1>2, <1>3, <1>4 DEF Current
  <2>4. ASSUME NEW a \in Addrs, NEW i \in Ids, Refers(a, i)
        PROVE  heap'[a] # Nil /\ Current(heap[a], i)'
    <3>1. heap[a] # Nil /\ Current(heap[a], i)
      BY <2>4 DEF IInv, HeapInv
    <3>2. CASE i = Id(p)
      BY <1>1, <2>2, <2>3, <2>4, <3>1, <3>2 DEF Current
    <3>3. CASE i # Id(p)
      BY <1>1, <1>4, <3>1, <3>3 DEF Current
    <3>. QED
      BY <3>2, <3>3
  <2>. QED
    BY <2>1, <2>4, HeapKept DEF IInv
<1>. QED
  BY <1>4, <1>7, <1>9, <1>10, <1>11, <1>12, <1>13, <1>14 DEF IInv

-----------------------------------------------------------------------------
(* Steps that drop a message. *)

(* The map forgets the upload of p; who has its message keeps it. *)
LEMMA Dropped ==
  ASSUME IInv, NEW p \in Procs, pc[p] = "delete", NEW e \in Answers, Finish(p, e),
         uploads' = [uploads EXCEPT ![Id(p)] = Nil], heap' = Collect(heap, uploads', m),
         UNCHANGED <<locks, req, m, buf>>, \A i \in Ids : Grows(i)
  PROVE  /\ uploads' \in [Ids -> Addrs \cup {Nil}] /\ heap' \in [Addrs -> Upload \cup {Nil}]
         /\ \A q \in Procs : Local(q)'
         /\ LockInv' /\ HeapInv'
<1>1. TypeOK /\ Local(p) /\ Id(p) \in Ids
  BY Served DEF IInv, Local
<1>2. /\ pc' \in [Procs -> PCs] /\ pc'[p] = "return"
      /\ \A q \in Procs \ {p} : pc'[q] = pc[q] /\ ans'[q] = ans[q]
  BY <1>1, Finished
<1>3. /\ uploads' \in [Ids -> Addrs \cup {Nil}]
      /\ \A i \in Ids : uploads'[i] \in {Nil, uploads[i]}
  BY <1>1 DEF TypeOK
<1>4. /\ heap' \in [Addrs -> Upload \cup {Nil}]
      /\ \A a \in Addrs, i \in Ids : uploads'[i] = a => heap'[a] = heap[a]
      /\ \A a \in Addrs, q \in Procs : m[q] = a => heap'[a] = heap[a]
  BY <1>1 DEF Collect, TypeOK
<1>5. \A q \in Procs : Op(q)' = Op(q) /\ Id(q)' = Id(q)
  BY DEF Op, Id
<1>6. Local(p)'
  BY <1>1, <1>2, ReturnLocal
<1>7. ASSUME NEW q \in Procs \ {p}
      PROVE  Local(q)'
  <2>1. Local(q) /\ Untouched(q)
    BY <1>2 DEF IInv, Untouched
  <2>2. Holds(q) => Holds(q)'
    BY <1>5 DEF Holds, locks
  <2>3. pc[q] = "wwait" => writer'[Id(q)] = q
    BY <2>1 DEF Local, Locked, locks
  <2>4. pc[q] # "idle" => Grows(Id(q)) /\ uploads'[Id(q)] \in {Nil, uploads[Id(q)]}
    BY <1>1, <1>3, <2>1, Served DEF Local
  <2>5. pc[q] = "putpart" => heap'[m[q]] = heap[m[q]]
    BY <1>1, <1>4, <2>1 DEF Local, Control, TypeOK
  <2>. QED
    BY <1>1, <2>1, <2>2, <2>3, <2>4, <2>5, LocalKept
<1>8. LockInv'
  BY <1>2, <1>5 DEF IInv, LockInv, locks
<1>9. HeapInv'
  <2>1. \A a \in Addrs, i \in Ids : Refers(a, i)' => Refers(a, i) /\ heap'[a] = heap[a]
    BY <1>3, <1>4, <1>5, NilIsNew DEF Refers
  <2>2. \A a \in Addrs, i \in Ids :
          heap'[a] = heap[a] /\ Current(heap[a], i) => Current(heap[a], i)'
    BY DEF Current, Grows
  <2>. QED
    BY <2>1, <2>2, HeapKept DEF IInv, HeapInv
<1>. QED
  BY <1>3, <1>4, <1>6, <1>7, <1>8, <1>9

LEMMA DeleteMultipartIDStep ==
  ASSUME IInv, NEW p \in Procs, DeleteMultipartID(p)
  PROVE  IInv'
<1>1. /\ TypeOK /\ Local(p) /\ pc[p] = "delete" /\ Op(p) # "NewMultipartUpload" /\ req[p] # Nil
      /\ uploads' = [uploads EXCEPT ![Id(p)] = Nil] /\ heap' = Collect(heap, uploads', m)
      /\ ds' = [ds EXCEPT ![Id(p)] = Nil] /\ deleted' = deleted \cup {Id(p)}
      /\ expected' = [expected EXCEPT ![Id(p)] = [n \in Parts |-> Datas \cup {Nil}]]
      /\ UNCHANGED <<ledger, locks, req, m, buf, issued>>
  BY DEF IInv, DeleteMultipartID, Local, Control
<1>2. PICK e \in {"nil", "ErrInvalidUploadID"} : Finish(p, e)
  BY DEF DeleteMultipartID
<1>3. Id(p) \in Ids /\ Id(p) \in issued /\ e \in Answers
  BY <1>1, Served DEF Local, IInv, IdInv, Answers
<1>4. /\ pc' \in [Procs -> PCs] /\ pc'[p] = "return" /\ ans' \in [Procs -> Answers \cup {Nil}]
      /\ \A q \in Procs \ {p} : pc'[q] = pc[q] /\ ans'[q] = ans[q]
  BY <1>1, <1>2, <1>3, Finished
<1>5. /\ expected' \in [Ids -> [Parts -> SUBSET (Datas \cup {Nil})]]
      /\ \A i \in Ids \ {Id(p)} : expected'[i] = expected[i]
      /\ \A n \in Parts : expected'[Id(p)][n] = Datas \cup {Nil}
  BY <1>1, <1>3 DEF TypeOK
<1>6. \A i \in Ids : Grows(i)
  <2>1. \A n \in Parts : expected[Id(p)][n] \subseteq Datas \cup {Nil}
    BY <1>1, <1>3 DEF TypeOK
  <2>. QED
    BY <1>5, <2>1 DEF Grows
<1>7. /\ uploads' \in [Ids -> Addrs \cup {Nil}] /\ heap' \in [Addrs -> Upload \cup {Nil}]
      /\ \A q \in Procs : Local(q)'
      /\ LockInv' /\ HeapInv'
  BY <1>1, <1>2, <1>3, <1>6, Dropped
<1>8. /\ ds' \in [Ids -> Upload \cup {Nil}] /\ ds'[Id(p)] = Nil
      /\ \A i \in Ids \ {Id(p)} : ds'[i] = ds[i]
  BY <1>1, <1>3 DEF TypeOK
<1>9. TypeOK'
  BY <1>1, <1>3, <1>4, <1>5, <1>7, <1>8 DEF TypeOK, ledger, locks
<1>10. \A q \in Procs : Op(q)' = Op(q) /\ Id(q)' = Id(q)
  BY <1>1 DEF Op, Id
<1>11. IdInv'
  BY <1>1, <1>3, <1>10 DEF IInv, IdInv
<1>12. ExpectedInv'
  <2>0. deleted' = deleted \cup {Id(p)} /\ deleted \subseteq Ids /\ issued' = issued
    BY <1>1 DEF TypeOK
  <2>1. \A i \in deleted' : i = Id(p) \/ (i \in deleted /\ expected'[i] = expected[i])
    BY <1>5, <2>0
  <2>2. \A i \in Ids \ (issued' \cup deleted') :
          i \notin issued \cup deleted /\ expected'[i] = expected[i]
    BY <1>3, <1>5, <2>0
  <2>3. \A i \in deleted', n \in Parts : expected'[i][n] = Datas \cup {Nil}
    BY SMT, <1>5, <2>1 DEF IInv, ExpectedInv
  <2>4. \A i \in Ids \ (issued' \cup deleted'), n \in Parts : expected'[i][n] = {Nil}
    BY <2>2 DEF IInv, ExpectedInv
  <2>. QED
    BY <2>3, <2>4 DEF ExpectedInv
<1>13. SavedInv'
  <2>1. \A i \in Ids : ds'[i] # Nil => Current(ds[i], i)'
    BY <1>5, <1>8 DEF IInv, SavedInv, Current
  <2>2. \A i \in issued' \ deleted' : ds'[i] # Nil
    BY <1>1, <1>8 DEF IInv, SavedInv, TypeOK
  <2>3. ASSUME NEW q \in Procs, pc'[q] = "return", Op(q) = "NewMultipartUpload", ans'[q] = "nil"
        PROVE  ds'[Id(q)] # Nil
    <3>1. pc[q] = "return" /\ ans[q] = "nil" /\ Local(q)
      BY <2>3, <1>1, <1>4 DEF IInv
    <3>2. Id(q) \in Ids /\ ds[Id(q)] # Nil /\ req[q] # Nil
      BY <1>1, <2>3, <3>1, Served DEF IInv, SavedInv, Local
    <3>3. Id(q) # Id(p)
      BY <1>3, <2>3, <3>2 DEF IInv, IdInv
    <3>. QED
      BY <1>8, <3>2, <3>3
  <2>. QED
    BY <1>10, <2>1, <2>2, <2>3 DEF SavedInv
<1>. QED
  BY <1>7, <1>9, <1>11, <1>12, <1>13 DEF IInv

LEMMA BackendFailsStep ==
  ASSUME IInv, NEW p \in Procs, pc[p] # "idle", BackendFails(p)
  PROVE  IInv'
<1>1. /\ TypeOK /\ Local(p) /\ Finish(p, "backend") /\ "backend" \in Answers
      /\ UNCHANGED <<ledger, ds, locks, req, m, buf, known>>
  BY DEF IInv, BackendFails, Answers
<1>2. CASE pc[p] # "delete"
  <2>1. UNCHANGED <<uploads, heap>>
    BY <1>2 DEF BackendFails
  <2>. QED
    BY <1>1, <2>1, FinishStep
<1>3. CASE pc[p] = "delete"
  <2>1. uploads' = [uploads EXCEPT ![Id(p)] = Nil] /\ heap' = Collect(heap, uploads', m)
    BY <1>3 DEF BackendFails
  <2>2. \A i \in Ids : Grows(i)
    BY <1>1 DEF Grows, known
  <2>3. /\ uploads' \in [Ids -> Addrs \cup {Nil}] /\ heap' \in [Addrs -> Upload \cup {Nil}]
        /\ \A q \in Procs : Local(q)'
        /\ LockInv' /\ HeapInv'
    BY <1>1, <1>3, <2>1, <2>2, Dropped
  <2>4. /\ pc' \in [Procs -> PCs] /\ ans'[p] = "backend" /\ ans' \in [Procs -> Answers \cup {Nil}]
        /\ \A q \in Procs \ {p} : pc'[q] = pc[q] /\ ans'[q] = ans[q]
    BY <1>1, Finished
  <2>5. TypeOK'
    BY <1>1, <2>3, <2>4 DEF TypeOK, ledger, locks, known
  <2>6. SavedInv'
    BY <1>1, <2>4, SavedKept
  <2>. QED
    BY <1>1, <2>3, <2>5, <2>6, IdsKept DEF IInv
<1>. QED
  BY <1>2, <1>3

LEMMA ReturnStep ==
  ASSUME IInv, NEW p \in Procs, Return(p)
  PROVE  IInv'
<1>1. /\ TypeOK /\ Local(p) /\ pc[p] = "return" /\ req[p] # Nil /\ Id(p) \in Ids
      /\ UNCHANGED <<ledger, ds, uploads, deleted, expected>>
  BY Served DEF IInv, Return, Local, Control
<1>2. /\ pc' \in [Procs -> PCs] /\ pc'[p] = "idle"
      /\ req' \in [Procs -> Request \cup {Nil}] /\ req'[p] = Nil
      /\ ans' \in [Procs -> Answers \cup {Nil}]
      /\ m' \in [Procs -> Addrs \cup {Nil}] /\ m'[p] = Nil
      /\ buf' \in [Procs -> Upload \cup Object \cup {Nil}]
  BY <1>1 DEF TypeOK, Return, PCs
<1>3. \A q \in Procs \ {p} : Untouched(q) /\ ans'[q] = ans[q]
  BY <1>1 DEF TypeOK, Return, Untouched
<1>4. \A q \in Procs \ {p} : Op(q)' = Op(q) /\ Id(q)' = Id(q)
  BY <1>3 DEF Op, Id, Untouched
<1>5. /\ heap' \in [Addrs -> Upload \cup {Nil}]
      /\ \A a \in Addrs, i \in Ids : uploads[i] = a => heap'[a] = heap[a]
      /\ \A a \in Addrs, q \in Procs : m'[q] = a => heap'[a] = heap[a]
  BY <1>1 DEF TypeOK, Return, Collect
<1>6. /\ readers' \in [Ids -> SUBSET Procs] /\ readers'[Id(p)] = readers[Id(p)] \ {p}
      /\ \A i \in Ids \ {Id(p)} : readers'[i] = readers[i]
  BY <1>1 DEF TypeOK, Return
<1>7. /\ writer' \in [Ids -> Procs \cup {Nil}]
      /\ writer'[Id(p)] = IF writer[Id(p)] = p THEN Nil ELSE writer[Id(p)]
      /\ \A i \in Ids \ {Id(p)} : writer'[i] = writer[i]
  BY <1>1 DEF TypeOK, Return
<1>8. /\ issued' \in SUBSET Ids /\ issued \subseteq issued' /\ issued' \subseteq issued \cup {Id(p)}
      /\ Id(p) \in issued' \ issued => Op(p) = "NewMultipartUpload" /\ ans[p] = "nil"
  BY <1>1 DEF TypeOK, Return
<1>9. TypeOK'
  BY <1>1, <1>2, <1>5, <1>6, <1>7, <1>8 DEF TypeOK, ledger
<1>10. \A i \in Ids : /\ p \notin readers'[i] /\ writer'[i] # p
                      /\ readers'[i] = readers[i] \ {p}
                      /\ \A q \in Procs \ {p} : writer'[i] = q <=> writer[i] = q
  <2>1. \A i \in Ids \ {Id(p)} : p \notin readers[i] /\ writer[i] # p
    BY DEF IInv, LockInv
  <2>. QED
    BY <1>6, <1>7, <2>1, NilIsNew
<1>11. LockInv'
  <2>. SUFFICES ASSUME NEW i \in Ids, NEW q \in Procs \ {p}
                PROVE  /\ q \in readers'[i] => pc'[q] # "idle" /\ Id(q)' = i /\ Op(q)' \in Readers
                       /\ writer'[i] = q => pc'[q] # "idle" /\ Id(q)' = i /\ Op(q)' = "PutObjectPart"
    BY ZenonT(60), <1>10 DEF LockInv
  <2>1. /\ q \in readers[i] => pc[q] # "idle" /\ Id(q) = i /\ Op(q) \in Readers
        /\ writer[i] = q => pc[q] # "idle" /\ Id(q) = i /\ Op(q) = "PutObjectPart"
    BY DEF IInv, LockInv
  <2>. QED
    BY <1>3, <1>4, <1>10, <2>1 DEF Untouched
<1>12. Local(p)'
  BY <1>2 DEF Local, Control, Locked, Putting, Completing
<1>13. ASSUME NEW q \in Procs \ {p}, pc[q] # "idle"
       PROVE  Local(q)'
  <2>1. Local(q) /\ Untouched(q) /\ Grows(Id(q)) /\ Id(q) \in Ids
    BY <1>1, <1>3, <1>13, Served DEF IInv, Grows, Local
  <2>2. Holds(q) => Holds(q)'
    BY <1>4, <1>10, <2>1 DEF Holds
  <2>3. pc[q] = "wwait" => writer'[Id(q)] = q
    BY <1>10, <2>1 DEF Local, Locked
  <2>4. pc[q] = "putpart" => heap'[m[q]] = heap[m[q]]
    BY <1>1, <1>5, <2>1 DEF Local, Control, TypeOK, Untouched
  <2>. QED
    BY <1>1, <2>1, <2>2, <2>3, <2>4, LocalKept
<1>14. ASSUME NEW q \in Procs \ {p}, pc[q] = "idle"
       PROVE  Local(q)'
  <2>1. pc'[q] = "idle" /\ req'[q] = Nil /\ m'[q] = Nil
    BY <1>3, <1>14 DEF IInv, Local, Control, Untouched
  <2>. QED
    BY <2>1 DEF Local, Control, Locked, Putting, Completing
<1>15. IdInv'
  <2>. SUFFICES ASSUME NEW q \in Procs \ {p}, req[q] # Nil
                PROVE  IF Op(q) = "NewMultipartUpload"
                       THEN /\ Id(q) \notin issued' \cup deleted
                            /\ \A r \in Procs \ {q} : req'[r] # Nil => Id(r)' # Id(q)
                       ELSE Id(q) \in issued'
    <3>1. \A q \in Procs : req'[q] # Nil =>
            q # p /\ req[q] # Nil /\ Op(q)' = Op(q) /\ Id(q)' = Id(q)
      BY <1>2, <1>3, <1>4 DEF Untouched
    <3>. QED
      BY <1>1, <3>1 DEF IdInv
  <2>1. CASE Op(q) = "NewMultipartUpload"
    <3>1. /\ Id(q) \notin issued \cup deleted
          /\ \A r \in Procs \ {q} : req[r] # Nil => Id(r) # Id(q)
      BY <2>1 DEF IInv, IdInv
    <3>2. Id(q) \notin issued' \cup deleted
      BY <1>1, <1>8, <3>1
    <3>3. \A r \in Procs \ {q} : req'[r] # Nil => Id(r)' # Id(q)
      BY <1>2, <1>3, <1>4, <3>1 DEF Untouched
    <3>. QED
      BY <2>1, <3>2, <3>3
  <2>2. CASE Op(q) # "NewMultipartUpload"
    BY <1>8, <2>2 DEF IInv, IdInv
  <2>. QED
    BY <2>1, <2>2
<1>16. SavedInv'
  <2>1. \A i \in issued' \ deleted : ds[i] # Nil
    BY <1>1, <1>8 DEF IInv, SavedInv
  <2>2. \A q \in Procs : pc'[q] = "return" =>
          q # p /\ pc[q] = "return" /\ ans'[q] = ans[q] /\ Op(q)' = Op(q) /\ Id(q)' = Id(q)
    BY <1>2, <1>3, <1>4 DEF Untouched
  <2>3. \A i \in Ids : ds[i] # Nil => Current(ds[i], i)'
    BY <1>1 DEF IInv, SavedInv, Current
  <2>. QED
    BY <1>1, <2>1, <2>2, <2>3 DEF IInv, SavedInv
<1>17. HeapInv'
  <2>1. \A a \in Addrs, i \in Ids : Refers(a, i)' => Refers(a, i) /\ heap'[a] = heap[a]
    <3>1. \A a \in Addrs, q \in Procs : m'[q] = a => q # p /\ m[q] = a /\ Id(q)' = Id(q)
      BY <1>2, <1>3, <1>4, NilIsNew DEF Untouched
    <3>2. uploads' = uploads
      BY <1>1
    <3>. QED
      BY ZenonT(60), <1>5, <3>1, <3>2 DEF Refers
  <2>2. \A a \in Addrs, i \in Ids :
          heap'[a] = heap[a] /\ Current(heap[a], i) => Current(heap[a], i)'
    BY <1>1 DEF Current
  <2>. QED
    BY <2>1, <2>2, HeapKept DEF IInv, HeapInv
<1>18. ExpectedInv'
  BY <1>1, <1>8 DEF IInv, ExpectedInv
<1>. QED
  BY <1>9, <1>11, <1>12, <1>13, <1>14, <1>15, <1>16, <1>17, <1>18 DEF IInv

-----------------------------------------------------------------------------
(* Calls, and the process as a whole. *)

LEMMA CallStep ==
  ASSUME IInv, NEW p \in Procs, NEW r \in Request, Call(p, r)
  PROVE  IInv'
<1>1. /\ TypeOK /\ Local(p) /\ pc[p] = "idle" /\ m[p] = Nil /\ req[p] = Nil
      /\ req' = [req EXCEPT ![p] = r]
      /\ UNCHANGED <<ledger, ds, uploads, heap, locks, ans, m, buf, known>>
  BY DEF IInv, Call, Local, Control
<1>2. req' \in [Procs -> Request \cup {Nil}] /\ req'[p] = r /\ r # Nil
  BY <1>1, NilIsNew DEF TypeOK
<1>3. \A q \in Procs \ {p} : Op(q)' = Op(q) /\ Id(q)' = Id(q) /\ req'[q] = req[q]
  BY <1>1 DEF Op, Id, TypeOK
<1>4. Op(p)' = r.op /\ Id(p)' = r.id
  BY <1>2 DEF Op, Id
<1>5. r.op \in Readers \cup {"NewMultipartUpload", "PutObjectPart", "AbortMultipartUpload"}
  BY RequestFacts
<1>6. PICK l \in {"rlock", "abort", "assert"} :
        /\ Goto(p, l)
        /\ l = "rlock" => r.op = "ListObjectParts"
        /\ l = "abort" => r.op = "AbortMultipartUpload"
        /\ l = "assert" => r.op \notin {"ListObjectParts", "AbortMultipartUpload"}
  BY SMT DEF Call
<1>7. pc' \in [Procs -> PCs] /\ pc'[p] = l /\ \A q \in Procs \ {p} : pc'[q] = pc[q]
  BY <1>1, <1>6, Moved DEF PCs
<1>8. TypeOK'
  BY <1>1, <1>2, <1>7 DEF TypeOK, ledger, locks, known
<1>9. Local(p)'
  <2>1. Control(p)'
    BY <1>1, <1>2, <1>4, <1>5, <1>6, <1>7 DEF Control, Readers
  <2>2. Locked(p)' /\ Putting(p)' /\ Completing(p)'
    BY <1>1, <1>6, <1>7 DEF Locked, Putting, Completing
  <2>. QED
    BY <2>1, <2>2 DEF Local
<1>10. \A q \in Procs \ {p} : Untouched(q)
  BY <1>1, <1>3, <1>7 DEF Untouched
<1>11. \A q \in Procs \ {p} : Local(q)'
  BY <1>1, <1>10, OthersKept DEF known
<1>12. LockInv'
  <2>1. \A i \in Ids : p \notin readers[i] /\ writer[i] # p
    BY <1>1 DEF IInv, LockInv
  <2>2. readers' = readers /\ writer' = writer
    BY <1>1 DEF locks
  <2>. QED
    BY <1>3, <1>7, <2>1, <2>2 DEF IInv, LockInv
<1>13. IdInv'
  <2>1. IF r.op = "NewMultipartUpload"
        THEN r.id \notin issued \cup deleted /\ \A q \in Procs : req[q] # Nil => Id(q) # r.id
        ELSE r.id \in issued
    BY DEF Call
  <2>2. ASSUME NEW q \in Procs \ {p}, req[q] # Nil, Op(q) = "NewMultipartUpload"
        PROVE  r.id # Id(q)
    BY <2>1, <2>2 DEF IInv, IdInv
  <2>3. ASSUME NEW q \in Procs, req'[q] # Nil, Op(q)' = "NewMultipartUpload"
        PROVE  /\ Id(q)' \notin issued \cup deleted
               /\ \A s \in Procs \ {q} : req'[s] # Nil => Id(s)' # Id(q)'
    <3>1. CASE q = p
      BY <1>3, <1>4, <2>1, <2>3, <3>1
    <3>2. CASE q # p
      BY <1>2, <1>3, <1>4, <2>2, <2>3, <3>2 DEF IInv, IdInv
    <3>. QED
      BY <3>1, <3>2
  <2>4. ASSUME NEW q \in Procs, req'[q] # Nil, Op(q)' # "NewMultipartUpload"
        PROVE  Id(q)' \in issued
    <3>1. CASE q = p
      BY <1>4, <2>1, <2>4, <3>1
    <3>2. CASE q # p
      BY <1>3, <2>4, <3>2 DEF IInv, IdInv
    <3>. QED
      BY <3>1, <3>2
  <2>5. issued' = issued /\ deleted' = deleted
    BY <1>1 DEF known
  <2>. QED
    BY <2>3, <2>4, <2>5 DEF IdInv
<1>14. SavedInv'
  BY <1>1, <1>3, <1>6, <1>7 DEF IInv, SavedInv, Current, known
<1>15. HeapInv'
  <2>1. \A a \in Addrs, i \in Ids : Refers(a, i)' => Refers(a, i)
    BY <1>1, <1>3, NilIsNew DEF Refers
  <2>2. \A a \in Addrs, i \in Ids : Current(heap[a], i) => Current(heap[a], i)'
    BY <1>1 DEF Current, known
  <2>. QED
    BY <1>1, <2>1, <2>2, HeapKept DEF IInv, HeapInv
<1>16. ExpectedInv'
  BY <1>1 DEF IInv, ExpectedInv, known
<1>. QED
  BY <1>8, <1>9, <1>11, <1>12, <1>13, <1>14, <1>15, <1>16 DEF IInv

LEMMA CrashStep ==
  ASSUME IInv, Crash
  PROVE  IInv'
<1>1. TypeOK'
  BY DEF IInv, TypeOK, Crash, ledger, known, PCs
<1>2. \A p \in Procs : pc'[p] = "idle" /\ req'[p] = Nil /\ m'[p] = Nil
  BY DEF Crash
<1>3. \A p \in Procs : Local(p)'
  BY <1>2 DEF Local, Control, Locked, Putting, Completing
<1>4. LockInv'
  BY NilIsNew DEF LockInv, Crash
<1>5. IdInv'
  BY <1>2 DEF IdInv
<1>6. SavedInv' /\ ExpectedInv'
  BY <1>2 DEF IInv, SavedInv, ExpectedInv, Current, Crash, known
<1>7. HeapInv'
  BY <1>2, NilIsNew DEF HeapInv, Refers, Crash
<1>. QED
  BY <1>1, <1>3, <1>4, <1>5, <1>6, <1>7 DEF IInv

-----------------------------------------------------------------------------
(* The invariant holds at the start and is kept by every step. *)

LEMMA Initial == Init => IInv
<1>. SUFFICES ASSUME Init
              PROVE  IInv
  OBVIOUS
<1>1. TypeOK
  BY DEF Init, TypeOK, PCs
<1>2. \A p \in Procs : pc[p] = "idle" /\ req[p] = Nil /\ m[p] = Nil
  BY DEF Init
<1>3. \A p \in Procs : Local(p)
  BY <1>2 DEF Local, Control, Locked, Putting, Completing
<1>4. LockInv
  BY NilIsNew DEF LockInv, Init
<1>5. IdInv
  BY <1>2 DEF IdInv
<1>6. SavedInv /\ ExpectedInv
  BY <1>2 DEF SavedInv, ExpectedInv, Init
<1>7. HeapInv
  BY <1>2, NilIsNew DEF HeapInv, Refers, Init
<1>. QED
  BY <1>1, <1>3, <1>4, <1>5, <1>6, <1>7 DEF IInv

(* Nothing happens in an idle goroutine but a call. *)
LEMMA StepKeeps ==
  ASSUME IInv, NEW p \in Procs, Step(p)
  PROVE  IInv'
<1>1. CASE BackendFails(p) /\ pc[p] # "idle"
  BY <1>1, BackendFailsStep
<1>2. CASE ~BackendFails(p)
  BY <1>2, AssertBucketExitsStep, NewInMapStep, NewInDsStep, RLockStep, AnnounceWriteStep,
     WLockStep, GetMultipartStep, SetPartStep, PutPartStep, ListObjectPartsStep,
     BuildNodeStep, SetSizeStep, CopyInfoStep, PutObjectStep, DeleteMultipartIDStep,
     ReturnStep DEF Step
<1>3. CASE BackendFails(p) /\ pc[p] = "idle"
  BY <1>3, BackendSteps DEF BackendFails
<1>. QED
  BY <1>1, <1>2, <1>3

LEMMA Inductive == IInv /\ [Next]_vars => IInv'
<1>. SUFFICES ASSUME IInv, [Next]_vars
              PROVE  IInv'
  OBVIOUS
<1>1. ASSUME NEW p \in Procs, NEW r \in Request, Call(p, r)
      PROVE  IInv'
  BY <1>1, CallStep
<1>2. ASSUME NEW p \in Procs, Step(p)
      PROVE  IInv'
  BY <1>2, StepKeeps
<1>3. CASE CreateBucket
  <2>1. TypeOK'
    BY <1>3 DEF IInv, TypeOK, CreateBucket, locks, known
  <2>. QED
    BY <1>3, <2>1, BucketStep DEF CreateBucket
<1>4. CASE DeleteBucket
  <2>1. TypeOK'
    BY <1>4 DEF IInv, TypeOK, DeleteBucket, locks, known
  <2>. QED
    BY <1>4, <2>1, BucketStep DEF DeleteBucket
<1>5. CASE Crash
  BY <1>5, CrashStep
<1>6. CASE UNCHANGED vars
  <2>1. TypeOK'
    BY <1>6 DEF IInv, TypeOK, vars, ledger, locks, known
  <2>. QED
    BY <1>6, <2>1, BucketStep DEF vars
<1>. QED
  BY <1>1, <1>2, <1>3, <1>4, <1>5, <1>6 DEF Next

LEMMA Invariant == Spec => []IInv
BY Initial, Inductive, PTL DEF Spec

-----------------------------------------------------------------------------
(* The variables have their types. *)
THEOREM TypeCorrect == Spec => []TypeOK
<1>1. IInv => TypeOK
  BY DEF IInv
<1>. QED
  BY <1>1, Invariant, PTL

(***************************************************************************)
(* No part that PutObjectPart acknowledged is lost, whatever parts, aborts *)
(* and completions run beside it, whichever backend call fails, and        *)
(* wherever the process stops: the datastore keeps what the last           *)
(* acknowledged or a later failed call sent.                               *)
(***************************************************************************)
THEOREM PartsNeverLost == Spec => []PartsSurvive
<1>1. IInv => PartsSurvive
  BY DEF IInv, TypeOK, SavedInv, Current, PartsSurvive
<1>. QED
  BY <1>1, Invariant, PTL

(***************************************************************************)
(* From BuildNode until PutObject CompleteMultipartUpload has the current  *)
(* contents of the parts of its list, in the order of the list.            *)
(***************************************************************************)
THEOREM CompletionsAreCurrent == Spec => []CompletesCurrentParts
<1>1. IInv => CompletesCurrentParts
  BY DEF IInv, Local, Completing, CompletesCurrentParts
<1>. QED
  BY <1>1, Invariant, PTL

(***************************************************************************)
(* Every handler gives the lock of its upload back on every path, also     *)
(* after an error, a panic or a lost upload.                               *)
(***************************************************************************)
THEOREM LocksComeBack == Spec => []LocksAreReturned
<1>1. IInv => LocksAreReturned
  BY DEF IInv, LockInv, LocksAreReturned
<1>. QED
  BY <1>1, Invariant, PTL
=============================================================================
