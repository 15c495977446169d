-------------------------- MODULE LedgerInvariants --------------------------
(***************************************************************************)
(* What the bucket locks exclude, the names that entries and objects       *)
(* carry, and what the requests that lock every bucket they resolve may    *)
(* rely on: the steps of the ledger preserve LockInv, NameInv, AbsentInv,  *)
(* CoherentInv and MadeInv.                                                *)
(***************************************************************************)
EXTENDS LedgerProofs

(* The leaves below are set and function reasoning, which Zenon does best;  *)
(* those that need the SMT solver cite it.                                  *)
USE ZenonT(30)

-----------------------------------------------------------------------------
(* What a step of one goroutine may change                                  *)

BodyStep(p) ==
  \/ Lookup(p) \/ DsGet(p) \/ SetNil(p) \/ Fill(p) \/ Load(p) \/ Fetch(p)
  \/ GetBucketInfo(p) \/ GetObjectHash(p) \/ FindObject(p) \/ GetObject(p)
  \/ GetObjectInfos(p) \/ SaveObject(p) \/ PutObjectHash(p) \/ RemoveObjects(p)
  \/ SaveBucket(p) \/ DsPut(p) \/ Install(p) \/ Uncache(p) \/ DsDelete(p)
  \/ GetBucketNames(p) \/ BackendFails(p)

(* A step of the body stays in the body and leaves the locks alone. *)
LEMMA BodyStays ==
  ASSUME BaseInv, NEW p \in Procs, BodyStep(p)
  PROVE  /\ pc[p] \in Body /\ pc'[p] \in Body
         /\ UNCHANGED <<readers, writer, nlocks, req>>
<1>1. pc[p] \in Body
  <2>1. pc[p] \in PCs
    BY DEF BaseInv, TypeOK
  <2>2. pc[p] \notin {"idle", "lock", "lockwait"}
    BY Switches
       DEF BodyStep, Lookup, DsGet, SetNil, Fill, Load, Fetch, GetBucketInfo,
           GetObjectHash, FindObject, GetObject, GetObjectInfos, SaveObject,
           PutObjectHash, RemoveObjects, SaveBucket, DsPut, Install, Uncache,
           DsDelete, GetBucketNames, BackendFails, BackendSteps
  <2> QED
    BY <2>1, <2>2 DEF Body
<1>2. UNCHANGED <<readers, writer, nlocks, req>>
  BY DEF BodyStep, Lookup, DsGet, SetNil, Fill, Load, Fetch, GetBucketInfo,
         GetObjectHash, FindObject, GetObject, GetObjectInfos, SaveObject,
         PutObjectHash, RemoveObjects, SaveBucket, DsPut, Install, Uncache,
         DsDelete, GetBucketNames, BackendFails, locks
<1>3. PICK l \in Body : pc' = [pc EXCEPT ![p] = l]
  <2>1. CASE Lookup(p) \/ SetNil(p) \/ Fill(p)
    <3>1. CASE \E e, h, c : Resolved(p, e, h, c)
      BY <3>1 DEF Resolved, Goto, Finish, Body, PCs
    <3>2. CASE Goto(p, "dsget")
      BY <3>2 DEF Goto, Body, PCs
    <3> QED
      BY <2>1, <3>1, <3>2 DEF Lookup, SetNil, Fill
  <2>2. CASE DsGet(p) \/ Load(p) \/ Fetch(p) \/ GetBucketInfo(p) \/ GetObjectHash(p)
    BY <2>2 DEF DsGet, Load, Fetch, GetBucketInfo, GetObjectHash, Goto, Finish, Body, PCs
  <2>3. CASE FindObject(p) \/ GetObject(p) \/ GetObjectInfos(p) \/ RemoveObjects(p)
    BY <2>3 DEF FindObject, GetObject, GetObjectInfos, RemoveObjects, Goto, Finish,
                Body, PCs
  <2>4. CASE SaveObject(p) \/ PutObjectHash(p) \/ SaveBucket(p) \/ DsPut(p) \/ Install(p)
    BY <2>4 DEF SaveObject, PutObjectHash, SaveBucket, DsPut, Install, Goto, Finish,
                Body, PCs
  <2>5. CASE Uncache(p) \/ DsDelete(p) \/ GetBucketNames(p) \/ BackendFails(p)
    BY <2>5 DEF Uncache, DsDelete, GetBucketNames, BackendFails, Goto, Finish, Body, PCs
  <2> QED
    BY <2>1, <2>2, <2>3, <2>4, <2>5 DEF BodyStep
<1> QED
  BY <1>1, <1>2, <1>3 DEF BaseInv, TypeOK

-----------------------------------------------------------------------------
(* Locks                                                                    *)

LEMMA PlanLocks ==
  ASSUME NEW r \in Request
  PROVE  /\ Len(LockPlan(r)) \in Nat
         /\ LockPlan(r) = <<>> <=> Len(LockPlan(r)) = 0
         /\ \A i \in 1 .. Len(LockPlan(r)) : LockPlan(r)[i].b \in Buckets
<1>1. /\ r.op \in WriteOps \cup ReadOps \cup {"CopyObject"} => r.b \in Buckets
      /\ r.op = "CopyObject" => r.src \in Buckets
  BY RequestFields DEF WriteOps, ReadOps
<1>2. W(r.b).b = r.b /\ R(r.b).b = r.b /\ R(r.src).b = r.src
  BY SMTT(20) DEF W, R
<1>3. CASE LockPlan(r) = <<>>
  BY <1>3, SMTT(20)
<1>4. CASE LockPlan(r) = <<W(r.b)>> \/ LockPlan(r) = <<R(r.b)>>
  BY <1>1, <1>2, <1>4, PlanShape, SMTT(20)
<1>5. CASE LockPlan(r) = <<R(r.src), W(r.b)>> \/ LockPlan(r) = <<W(r.b), R(r.src)>>
  BY <1>1, <1>2, <1>5, PlanShape, SMTT(20)
<1> QED
  BY <1>3, <1>4, <1>5, PlanShape

(* A goroutine at work has counted locks of its request, which name buckets. *)
LEMMA Counted ==
  ASSUME BaseInv, NEW p \in Procs, LockInv(p), pc[p] # "idle"
  PROVE  /\ req[p] \in Request /\ nlocks[p] \in Nat /\ Len(LockPlan(req[p])) \in Nat
         /\ nlocks[p] <= Len(LockPlan(req[p]))
         /\ \A i \in 1 .. nlocks[p] : LockPlan(req[p])[i].b \in Buckets
         /\ pc[p] \in {"lock", "lockwait"} => NextLock(p).b \in Buckets
<1>1. req[p] \in Request /\ nlocks[p] \in Nat
  BY DEF BaseInv, TypeOK, BusyInv
<1>2. /\ Len(LockPlan(req[p])) \in Nat
      /\ \A i \in 1 .. Len(LockPlan(req[p])) : LockPlan(req[p])[i].b \in Buckets
  BY <1>1, PlanLocks
<1>3. pc[p] \in {"lock", "lockwait"} \/ pc[p] \in Body
  BY DEF BaseInv, TypeOK, Body
<1>4. nlocks[p] <= Len(LockPlan(req[p]))
  BY <1>1, <1>2, <1>3, SMTT(20) DEF LockInv
<1>5. pc[p] \in {"lock", "lockwait"} => nlocks[p] + 1 \in 1 .. Len(LockPlan(req[p]))
  BY <1>1, <1>2, SMTT(20) DEF LockInv
<1>6. \A i \in 1 .. nlocks[p] : i \in 1 .. Len(LockPlan(req[p]))
  BY <1>1, <1>2, <1>4, SMTT(20)
<1> QED
  BY <1>1, <1>2, <1>4, <1>5, <1>6 DEF NextLock

LEMMA LockInit == Init => \A p \in Procs : LockInv(p)
BY DEF Init, LockInv

(* A goroutine keeps what it has when another one takes or returns a lock. *)
LEMMA LockOther ==
  ASSUME BaseInv, NEW q \in Procs, LockInv(q), Same(q),
         \A b \in Buckets : q \in readers[b] => q \in readers'[b],
         \A b \in Buckets : writer[b] = q => writer'[b] = q,
         \A b \in Buckets : writer[b] = q => readers'[b] \subseteq readers[b]
  PROVE  LockInv(q)'
<1>1. /\ pc'[q] = pc[q] /\ req'[q] = req[q] /\ nlocks'[q] = nlocks[q]
  BY DEF Same
<1>2. ASSUME NEW i \in 1 .. nlocks[q], pc[q] # "idle"
      PROVE  Has(q, LockPlan(req[q])[i])'
  <2> DEFINE l == LockPlan(req[q])[i]
  <2>1. Has(q, l) /\ l.b \in Buckets
    BY <1>2, Counted DEF LockInv
  <2>2. l' = l
    BY <1>1
  <2> HIDE DEF l
  <2>3. IF l.mode = "read" THEN q \in readers'[l.b]
        ELSE writer'[l.b] = q /\ readers'[l.b] = {}
    BY <2>1 DEF Has
  <2>4. Has(q, l)'
    BY <2>2, <2>3 DEF Has
  <2> QED
    BY <2>4 DEF l
<1>3. pc[q] = "lockwait" => NextLock(q).b \in Buckets
  BY Counted
<1> QED
  BY <1>1, <1>2, <1>3 DEF LockInv, NextLock

(* p takes its next lock, or has it: what Locked does. *)
LEMMA LockTaken ==
  ASSUME BaseInv, NEW p \in Procs, LockInv(p), pc[p] \in {"lock", "lockwait"},
         Locked(p, nlocks[p] + 1), UNCHANGED req,
         \A i \in 1 .. nlocks[p] + 1 : Has(p, LockPlan(req[p])[i])'
  PROVE  LockInv(p)'
<1> DEFINE n == nlocks[p]
           len == Len(LockPlan(req[p]))
<1>1. n \in Nat /\ len \in Nat /\ n < len
  BY Counted DEF LockInv
<1>2. /\ nlocks'[p] = n + 1
      /\ pc'[p] = IF n + 1 < len THEN "lock" ELSE Start(req[p])
  BY DEF Locked, Goto, BaseInv, TypeOK
<1>3. Start(req[p]) \in {"saveobject", "query", "lookup"}
  BY SMTT(20) DEF Start
<1> HIDE DEF n, len
<1>4. (n + 1 < len \/ n + 1 = len) /\ (n + 1 = len => ~(n + 1 < len))
  BY <1>1, SMTT(20)
<1>6. \A i \in 1 .. nlocks'[p] : Has(p, LockPlan(req[p])[i])'
  BY <1>2 DEF n
<1>7. pc'[p] \notin {"idle", "lockwait"}
  BY <1>2, <1>3
<1>8. /\ pc'[p] = "lock" => nlocks'[p] < len
      /\ pc'[p] \in Body => nlocks'[p] = len
  BY <1>2, <1>3, <1>4 DEF Body
<1>9. len' = len
  BY DEF len
<1> QED
  BY <1>6, <1>7, <1>8, <1>9 DEF LockInv, len

LEMMA LockRead ==
  ASSUME BaseInv, \A q \in Procs : LockInv(q), NEW p \in Procs, ReadLock(p)
  PROVE  \A q \in Procs : LockInv(q)'
<1> DEFINE b0 == NextLock(p).b
<1>1. /\ pc[p] = "lock" /\ NextLock(p).mode = "read" /\ writer[b0] = Nil
      /\ readers' = [readers EXCEPT ![b0] = @ \cup {p}]
      /\ Locked(p, nlocks[p] + 1) /\ UNCHANGED <<writer, req>>
  BY DEF ReadLock
<1>2. b0 \in Buckets
  BY <1>1, Counted
<1>3. /\ \A b \in Buckets : b # b0 => readers'[b] = readers[b]
      /\ readers'[b0] = readers[b0] \cup {p}
  BY <1>1, <1>2 DEF BaseInv, TypeOK
<1>4. \A q \in Procs, b \in Buckets :
        /\ q \in readers[b] => q \in readers'[b]
        /\ writer[b] = q => writer'[b] = q /\ readers'[b] = readers[b]
  BY <1>1, <1>3, Distinct
<1>5. ASSUME NEW q \in Procs, q # p PROVE LockInv(q)'
  <2>1. Same(q)
    BY <1>5, SameStep DEF Step
  <2> QED
    BY <1>4, <2>1, LockOther
<1>6. LockInv(p)'
  <2>1. ASSUME NEW i \in 1 .. nlocks[p] + 1 PROVE Has(p, LockPlan(req[p])[i])'
    <3> DEFINE l == LockPlan(req[p])[i]
    <3>1. i \in 1 .. nlocks[p] \/ i = nlocks[p] + 1
      BY <1>1, Counted, SMTT(20)
    <3> DEFINE G == IF l.mode = "read" THEN p \in readers'[l.b]
                    ELSE writer'[l.b] = p /\ readers'[l.b] = {}
    <3>2. ASSUME i \in 1 .. nlocks[p] PROVE G
      <4>1. Has(p, l) /\ l.b \in Buckets
        BY <1>1, <3>2, Counted DEF LockInv
      <4> HIDE DEF l
      <4> QED
        BY <1>4, <4>1 DEF Has
    <3>3. ASSUME i = nlocks[p] + 1 PROVE G
      BY <1>1, <1>3, <3>3 DEF NextLock
    <3>4. G
      BY <3>1, <3>2, <3>3
    <3>5. l' = l
      BY <1>1
    <3> HIDE DEF l
    <3>6. Has(p, l)'
      BY <3>4, <3>5 DEF Has
    <3> QED
      BY <3>6 DEF l
  <2> QED
    BY <1>1, <2>1, LockTaken
<1> QED
  BY <1>5, <1>6

LEMMA LockAnnounce ==
  ASSUME BaseInv, \A q \in Procs : LockInv(q), NEW p \in Procs, AnnounceWrite(p)
  PROVE  \A q \in Procs : LockInv(q)'
<1> DEFINE b0 == NextLock(p).b
<1>1. /\ pc[p] = "lock" /\ NextLock(p).mode = "write" /\ writer[b0] = Nil
      /\ writer' = [writer EXCEPT ![b0] = p]
      /\ pc' = [pc EXCEPT ![p] = "lockwait"]
      /\ UNCHANGED <<readers, nlocks, req>>
  BY DEF AnnounceWrite, Goto
<1>2. b0 \in Buckets
  BY <1>1, Counted
<1>3. /\ \A b \in Buckets : b # b0 => writer'[b] = writer[b]
      /\ writer'[b0] = p
  BY <1>1, <1>2 DEF BaseInv, TypeOK
<1>4. \A q \in Procs, b \in Buckets :
        writer[b] = q => writer'[b] = q /\ readers'[b] = readers[b]
  BY <1>1, <1>3, Distinct
<1>5. ASSUME NEW q \in Procs, q # p PROVE LockInv(q)'
  <2>1. Same(q)
    BY <1>5, SameStep DEF Step
  <2> QED
    BY <1>1, <1>4, <2>1, LockOther
<1>6. LockInv(p)'
  <2>1. ASSUME NEW i \in 1 .. nlocks[p] PROVE Has(p, LockPlan(req[p])[i])'
    <3> DEFINE l == LockPlan(req[p])[i]
    <3>1. Has(p, l) /\ l.b \in Buckets
      BY <1>1, Counted DEF LockInv
    <3>2. l' = l
      BY <1>1
    <3> HIDE DEF l
    <3>3. IF l.mode = "read" THEN p \in readers'[l.b]
          ELSE writer'[l.b] = p /\ readers'[l.b] = {}
      BY <1>1, <1>4, <3>1 DEF Has
    <3>4. Has(p, l)'
      BY <3>2, <3>3 DEF Has
    <3> QED
      BY <3>4 DEF l
  <2>2. pc'[p] = "lockwait" /\ nlocks'[p] = nlocks[p] /\ req'[p] = req[p]
    BY <1>1 DEF BaseInv, TypeOK
  <2>3. nlocks[p] < Len(LockPlan(req[p]))
    BY <1>1 DEF LockInv
  <2>4. NextLock(p)' = NextLock(p)
    BY <1>1 DEF NextLock
  <2> QED
    BY <1>1, <1>3, <2>1, <2>2, <2>3, <2>4 DEF LockInv, Body
<1> QED
  BY <1>5, <1>6

LEMMA LockWrite ==
  ASSUME BaseInv, \A q \in Procs : LockInv(q), NEW p \in Procs, WriteLock(p)
  PROVE  \A q \in Procs : LockInv(q)'
<1>1. /\ pc[p] = "lockwait" /\ readers[NextLock(p).b] = {}
      /\ Locked(p, nlocks[p] + 1) /\ UNCHANGED <<readers, writer, req>>
  BY DEF WriteLock
<1>2. ASSUME NEW q \in Procs, q # p PROVE LockInv(q)'
  <2>1. Same(q)
    BY <1>2, SameStep DEF Step
  <2> QED
    BY <1>1, <2>1, LockOther
<1>3. LockInv(p)'
  <2>1. ASSUME NEW i \in 1 .. nlocks[p] + 1 PROVE Has(p, LockPlan(req[p])[i])'
    <3>1. i \in 1 .. nlocks[p] \/ i = nlocks[p] + 1
      BY <1>1, Counted, SMTT(20)
    <3>2. CASE i \in 1 .. nlocks[p]
      BY <1>1, <3>2 DEF LockInv, Has
    <3>3. CASE i = nlocks[p] + 1
      <4>1. Has(p, NextLock(p))
        BY <1>1 DEF LockInv, Has
      <4>2. Has(p, LockPlan(req[p])[i])
        BY <3>3, <4>1 DEF NextLock
      <4> QED
        BY <1>1, <4>2 DEF Has
    <3> QED
      BY <3>1, <3>2, <3>3
  <2> QED
    BY <1>1, <2>1, LockTaken
<1> QED
  BY <1>2, <1>3

LEMMA LockReturn ==
  ASSUME BaseInv, \A q \in Procs : LockInv(q), NEW p \in Procs, Return(p)
  PROVE  \A q \in Procs : LockInv(q)'
<1>1. ASSUME NEW q \in Procs, q # p PROVE LockInv(q)'
  <2>1. Same(q)
    BY <1>1, SameStep DEF Step
  <2>2. \A b \in Buckets :
          /\ q \in readers[b] => q \in readers'[b]
          /\ writer[b] = q => writer'[b] = q
          /\ readers'[b] \subseteq readers[b]
    BY <1>1 DEF Return
  <2> QED
    BY <2>1, <2>2, LockOther
<1>2. pc'[p] = "idle" /\ nlocks'[p] = 0
  BY DEF Return, Goto, BaseInv, TypeOK
<1> QED
  BY <1>1, <1>2 DEF LockInv

LEMMA LockCall ==
  ASSUME BaseInv, \A q \in Procs : LockInv(q), NEW p \in Procs, NEW r \in Request,
         Call(p, r)
  PROVE  \A q \in Procs : LockInv(q)'
<1>1. ASSUME NEW q \in Procs, q # p PROVE LockInv(q)'
  <2>1. Same(q)
    BY <1>1, SameCall
  <2> QED
    BY <2>1, LockOther DEF Call, locks
<1>2. LockInv(p)'
  <2>1. /\ pc'[p] = IF LockPlan(r) = <<>> THEN Start(r) ELSE "lock"
        /\ req'[p] = r /\ nlocks'[p] = 0
    BY DEF Call, Goto, locks, BaseInv, TypeOK, LockInv
  <2>2. Start(r) \in {"saveobject", "query", "lookup"}
    BY SMTT(20) DEF Start
  <2>3. \A i \in 1 .. 0 : FALSE
    BY SMTT(20)
  <2>4. Len(LockPlan(r)) \in Nat /\ (LockPlan(r) = <<>> <=> Len(LockPlan(r)) = 0)
    BY PlanLocks
  <2>5. LockPlan(r) # <<>> => 0 < Len(LockPlan(r))
    BY <2>4, SMTT(20)
  <2>6. pc'[p] # "lockwait" /\ pc'[p] # "idle"
    BY <2>1, <2>2
  <2>7. pc'[p] \in {"lock", "lockwait"} => 0 < Len(LockPlan(r))
    BY <2>1, <2>2, <2>5
  <2>8. pc'[p] \in Body => Len(LockPlan(r)) = 0
    BY <2>1, <2>4 DEF Body
  <2> QED
    BY <2>1, <2>3, <2>6, <2>7, <2>8 DEF LockInv
<1> QED
  BY <1>1, <1>2

LEMMA LockBody ==
  ASSUME BaseInv, \A q \in Procs : LockInv(q), NEW p \in Procs, BodyStep(p)
  PROVE  \A q \in Procs : LockInv(q)'
<1>1. /\ pc[p] \in Body /\ pc'[p] \in Body /\ UNCHANGED <<readers, writer, nlocks, req>>
  BY BodyStays
<1>2. ASSUME NEW q \in Procs, q # p PROVE LockInv(q)'
  <2>1. Same(q)
    BY <1>2, SameStep DEF Step, BodyStep
  <2> QED
    BY <1>1, <2>1, LockOther
<1>3. LockInv(p)'
  BY <1>1 DEF LockInv, Has, Body
<1> QED
  BY <1>2, <1>3

LEMMA LockNext ==
  ASSUME BaseInv, \A q \in Procs : LockInv(q), [Next]_vars
  PROVE  \A q \in Procs : LockInv(q)'
<1>1. CASE UNCHANGED vars
  <2>1. ASSUME NEW q \in Procs PROVE Same(q)
    BY <1>1 DEF vars, locals, locks, Same
  <2>2. UNCHANGED <<readers, writer>>
    BY <1>1 DEF vars, locks
  <2> QED
    BY <2>1, <2>2, LockOther
<1>2. CASE \E p \in Procs : \E r \in Request : Call(p, r)
  BY <1>2, LockCall
<1>3. ASSUME NEW p \in Procs, Step(p) PROVE \A q \in Procs : LockInv(q)'
  BY <1>3, LockRead, LockAnnounce, LockWrite, LockReturn, LockBody DEF Step, BodyStep
<1>4. CASE Crash
  BY <1>4 DEF Crash, LockInv
<1> QED
  BY <1>1, <1>2, <1>3, <1>4 DEF Next

-----------------------------------------------------------------------------
(* Names                                                                    *)

LEMMA NameInit == Init => NameInv
<1> SUFFICES ASSUME Init PROVE NameInv
  OBVIOUS
<1>1. /\ \A b \in Buckets : ds[b] = Nil /\ cache[b] = Absent
      /\ \A e \in Entries : heap[e] = Nil
      /\ \A p \in Procs : pc[p] = "idle"
  BY DEF Init
<1>2. \A p \in Procs : NameLocal(p)
  BY <1>1 DEF NameLocal, Resolving, Saving
<1> QED
  BY <1>1, <1>2, Distinct DEF NameInv

(* An entry stays its bucket's when it changes. *)
LEMMA NameKept ==
  ASSUME BaseInv, NameInv, NEW p \in Procs, Step(p), NEW e \in Entries,
         heap[e] # Nil, heap'[e] # Nil
  PROVE  heap'[e].hash = heap[e].hash /\ GoodEntry(heap'[e], heap'[e].hash.name)
<1>0. GoodEntry(heap[e], heap[e].hash.name)
  BY DEF NameInv
<1>1. CASE heap'[e] = heap[e]
  BY <1>0, <1>1
<1>2. CASE InPlace(p, e) /\ Fetch(p)
  <2> DEFINE h == heap[ent[p]].hash
  <2>1. Unmarshal(h).name = h.name /\ Unmarshal(h).objs = h.objs
    BY SMTT(20) DEF Unmarshal
  <2>2. e = ent[p] /\ heap'[e].hash = heap[e].hash
    BY <1>2 DEF InPlace
  <2>3. CASE UNCHANGED heap
    BY <1>0, <2>3
  <2>4. CASE heap'[ent[p]].bkt = Unmarshal(h)
    <3>1. Good(h, h.name)
      BY <1>0, <2>2 DEF GoodEntry
    <3> HIDE DEF h
    <3>2. Good(Unmarshal(h), h.name)
      BY <2>1, <3>1 DEF Good
    <3> QED
      BY <1>0, <2>2, <2>4, <3>2 DEF GoodEntry, h
  <2> QED
    BY <1>2, <2>3, <2>4, FetchEffect
<1>3. CASE InPlace(p, e) /\ PutObjectHash(p)
  <2>1. /\ pc[p] = "use" /\ Storing(p) /\ stage[p] # "source"
    BY <1>3 DEF PutObjectHash, Storing, BaseInv, BusyInv
  <2>2. /\ heap[ent[p]].hash.name = req[p].b
        /\ obj[p].bucket = req[p].b /\ obj[p].name = req[p].o
    BY <2>1 DEF NameInv, NameLocal, Cur, Resolving
  <2>3. heap[ent[p]].bkt # Nil
    BY <2>1 DEF BaseInv, BusyInv
  <2>4. /\ e = ent[p] /\ heap'[e].hash = heap[e].hash
        /\ heap'[e].bkt.name = Bkt(p).name
        /\ heap'[e].bkt.objs = [Bkt(p).objs EXCEPT ![req[p].o] = obj[p]]
    BY <1>3, PutEffect DEF InPlace
  <2>5. Bkt(p).objs \in [Objects -> Object \cup {Nil}]
    <3>1. Bkt(p) \in Bucket
      BY <1>3, PutEffect
    <3> QED
      BY <3>1, SMTT(20) DEF Bucket
  <2>6. Good(Bkt(p), req[p].b)
    BY <1>0, <2>2, <2>3, <2>4 DEF GoodEntry, Bkt
  <2>7. Good(heap'[e].bkt, req[p].b)
    <3> SUFFICES ASSUME NEW o \in Objects, heap'[e].bkt.objs[o] # Nil
                 PROVE  /\ heap'[e].bkt.objs[o].bucket = req[p].b
                        /\ heap'[e].bkt.objs[o].name = o
      BY <2>4, <2>6 DEF Good
    <3>1. CASE o = req[p].o
      BY <2>2, <2>4, <2>5, <3>1
    <3>2. CASE o # req[p].o
      BY <2>4, <2>5, <2>6, <3>2 DEF Good
    <3> QED
      BY <3>1, <3>2
  <2> QED
    BY <1>0, <2>2, <2>4, <2>7 DEF GoodEntry
<1>4. CASE InPlace(p, e) /\ RemoveObjects(p)
  <2>1. heap[ent[p]].bkt # Nil
    BY <1>4 DEF RemoveObjects, BaseInv, BusyInv
  <2>2. e = ent[p] /\ heap'[e].hash = heap[e].hash
    BY <1>4 DEF InPlace
  <2>3. Good(Bkt(p), heap[e].hash.name)
    BY <1>0, <2>1, <2>2 DEF GoodEntry, Bkt
  <2>4. CASE UNCHANGED heap
    BY <1>0, <2>4
  <2>5. CASE /\ heap'[ent[p]].bkt.name = Bkt(p).name
             /\ heap'[ent[p]].bkt.objs =
                  [o \in Objects |-> IF o \in req[p].names THEN Nil ELSE Bkt(p).objs[o]]
    <3>1. Good(heap'[e].bkt, heap[e].hash.name)
      BY <2>2, <2>3, <2>5 DEF Good
    <3> QED
      BY <1>0, <2>2, <3>1 DEF GoodEntry
  <2> QED
    BY <1>4, <2>4, <2>5, RemoveEffect
<1> QED
  BY <1>1, <1>2, <1>3, <1>4, EntryKept DEF InPlace

(* What a goroutine that does not move has in hand stays its bucket's. *)
LEMMA HandKept ==
  ASSUME BaseInv, BaseInv', NameInv, NEW p \in Procs, Step(p), NEW q \in Procs,
         ent'[q] = ent[q], ent[q] # Nil
  PROVE  heap'[ent'[q]].hash = heap[ent[q]].hash
<1>1. ent[q] \in Entries /\ heap[ent[q]] # Nil /\ heap'[ent[q]] # Nil
  BY DEF BaseInv, HeapInv, TypeOK
<1> QED
  BY <1>1, NameKept

(* The datastore, the heap and the map. *)
LEMMA NameShared ==
  ASSUME BaseInv, BaseInv', NameInv, NEW p \in Procs, Step(p)
  PROVE  /\ \A b \in Buckets : ds'[b] # Nil => Good(ds'[b], b)
         /\ \A e \in Entries : heap'[e] # Nil => GoodEntry(heap'[e], heap'[e].hash.name)
         /\ \A b \in Buckets : cache'[b] \in Entries => heap'[cache'[b]].hash.name = b
<1>1. ASSUME NEW b \in Buckets, ds'[b] # Nil PROVE Good(ds'[b], b)
  BY <1>1, DsChange DEF NameInv, NameLocal
<1>2. ASSUME NEW h, NEW x, NEW b, Good(h, b), x # Nil => Good(x, b)
      PROVE  GoodEntry([hash |-> h, bkt |-> x], [hash |-> h, bkt |-> x].hash.name)
  <2> DEFINE y == [hash |-> h, bkt |-> x]
  <2>1. y.hash = h /\ y.bkt = x
    BY SMTT(20)
  <2> HIDE DEF y
  <2>2. y.hash.name = b
    BY <1>2, <2>1 DEF Good
  <2>3. GoodEntry(y, b)
    BY <1>2, <2>1 DEF GoodEntry
  <2> QED
    BY <2>2, <2>3 DEF y
<1>3. ASSUME NEW e \in Entries, heap'[e] # Nil
      PROVE  GoodEntry(heap'[e], heap'[e].hash.name)
  <2>1. CASE heap[e] # Nil
    BY <1>3, <2>1, NameKept
  <2>2. CASE pc[p] = "fill" /\ heap'[e] = [hash |-> bhash[p], bkt |-> Nil]
    <3>1. Good(bhash[p], Cur(p))
      BY <2>2 DEF NameInv, NameLocal
    <3> QED
      BY <1>2, <2>2, <3>1
  <2>3. CASE pc[p] = "install" /\ heap'[e] = [hash |-> bhash[p], bkt |-> Saved(p)]
    <3>1. Good(bhash[p], req[p].b)
      BY <2>3 DEF NameInv, NameLocal
    <3>2. Good(Saved(p), req[p].b)
      BY <2>3, SavedGood DEF Saving
    <3> QED
      BY <1>2, <2>3, <3>1, <3>2
  <2> QED
    BY <1>3, <2>1, <2>2, <2>3, EntryNew
<1>4. ASSUME NEW b \in Buckets, cache'[b] \in Entries
      PROVE  heap'[cache'[b]].hash.name = b
  <2>1. CASE cache'[b] = cache[b]
    <3>1. heap[cache[b]] # Nil /\ heap'[cache[b]] # Nil
      BY <1>4, <2>1 DEF BaseInv, HeapInv
    <3>2. heap'[cache[b]].hash = heap[cache[b]].hash
      BY <1>4, <2>1, <3>1, NameKept
    <3> QED
      BY <1>4, <2>1, <3>2 DEF NameInv
  <2>2. CASE /\ pc[p] = "fill" /\ b = Cur(p)
             /\ heap'[cache'[b]] = [hash |-> bhash[p], bkt |-> Nil]
    <3>1. heap'[cache'[b]].hash = bhash[p]
      BY <2>2, SMTT(20)
    <3> QED
      BY <2>2, <3>1 DEF NameInv, NameLocal, Good
  <2>3. CASE /\ pc[p] = "install" /\ b = req[p].b
             /\ heap'[cache'[b]] = [hash |-> bhash[p], bkt |-> Saved(p)]
    <3>1. heap'[cache'[b]].hash = bhash[p]
      BY <2>3, SMTT(20)
    <3> QED
      BY <2>3, <3>1 DEF NameInv, NameLocal, Good
  <2> QED
    BY <1>4, <2>1, <2>2, <2>3, CacheChange, Distinct
<1> QED
  BY <1>1, <1>3, <1>4

(* The goroutines that do not move. *)
LEMMA NameOther ==
  ASSUME BaseInv, BaseInv', NameInv, NEW p \in Procs, Step(p), NEW q \in Procs, q # p
  PROVE  NameLocal(q)'
<1>1. Same(q) /\ NameLocal(q)
  BY SameStep DEF NameInv
<1>2. ent[q] # Nil => heap'[ent'[q]].hash = heap[ent[q]].hash
  BY <1>1, HandKept DEF Same
<1>3. /\ pc[q] \in {"load", "fetch", "use"} => ent[q] # Nil
      /\ pc[q] \in Saving /\ req[q].op # "CreateBucket" => ent[q] # Nil
  BY DEF BaseInv, BusyInv, Saving
<1> QED
  BY <1>1, <1>2, <1>3 DEF Same, NameLocal, Cur, Storing, Resolving, Saving

(* The stage of every request that neither copies nor lists. *)
LEMMA MainStage ==
  ASSUME BaseInv, NEW p \in Procs, pc[p] # "idle",
         req[p].op \notin {"CopyObject", "GetObjectInfos"}
  PROVE  stage[p] = "main"
BY DEF BaseInv, BusyInv, TypeOK, Stages

(* The goroutine that moves, in getBucketNilable ... *)
LEMMA NameResolve ==
  ASSUME BaseInv, BaseInv', NameInv, NEW p \in Procs,
         Lookup(p) \/ SetNil(p) \/ Fill(p)
  PROVE  NameLocal(p)'
<1>0. Step(p) /\ pc[p] \in Resolving /\ req[p] \in Request
      /\ UNCHANGED <<req, obj>> /\ req[p].op # "GetBucketNames" /\ pc[p] # "idle"
  BY CurIsBucket
     DEF Step, Lookup, SetNil, Fill, Resolving, BaseInv, BusyInv
<1>1. Storing(p) => obj[p].bucket = req[p].b /\ obj[p].name = req[p].o
  BY <1>0 DEF NameInv, NameLocal
<1>2. CASE pc'[p] = "dsget" /\ UNCHANGED stage
  BY <1>0, <1>1, <1>2 DEF NameLocal, Saving, Storing
<1>3. CASE Outcome(p) /\ ent'[p] = cache'[Cur(p)]
  <2>1. CASE pc'[p] = "return" \/ pc'[p] = "uncache"
    BY <2>1 DEF NameLocal, Saving, Resolving
  <2>2. CASE pc'[p] = "savebucket"
    <3>1. ent'[p] = Nil /\ req[p].op = "CreateBucket" /\ stage'[p] = stage[p]
      BY <1>3, <2>2 DEF Outcome
    <3>2. stage[p] = "main"
      BY <1>0, <3>1, MainStage
    <3> QED
      BY <1>0, <2>2, <3>1, <3>2 DEF NameLocal, Saving, Resolving
  <2>3. CASE pc'[p] = "lookup"
    <3>1. stage[p] = "assert" /\ stage'[p] = "source"
      BY <1>3, <2>3 DEF Outcome
    <3>2. req[p].op = "CopyObject"
      BY <1>0, <3>1 DEF BaseInv, BusyInv
    <3> QED
      BY <1>0, <2>3, <3>1, <3>2 DEF NameLocal, Storing, Saving
  <2>4. CASE pc'[p] = "load"
    <3>1. /\ ent'[p] # Nil /\ stage[p] # "assert" /\ stage'[p] = stage[p]
          /\ req[p].op \notin {"CreateBucket", "AssertBucketExits",
                              "NewMultipartUpload", "GetBucketHash", "DeleteBucket"}
      BY <1>3, <2>4 DEF Outcome
    <3>2. req[p].op \in LoadingOps
      BY <1>0, <3>1, RequestOps
    <3>3. Cur(p) \in Buckets /\ ent'[p] \in Entries
      BY <1>0, <3>1, CurIsBucket DEF BaseInv, TypeOK
    <3>4. heap'[ent'[p]].hash.name = Cur(p)
      BY <1>0, <1>3, <3>3, NameShared
    <3>5. Cur(p)' = Cur(p) /\ (Storing(p)' <=> Storing(p))
      BY <1>0, <3>1 DEF Cur, Storing
    <3> QED
      BY <1>0, <1>1, <2>4, <3>1, <3>2, <3>4, <3>5 DEF NameLocal, Saving
  <2> QED
    BY <1>3, <2>1, <2>2, <2>3, <2>4 DEF Outcome
<1> QED
  BY <1>2, <1>3, LookupOutcome

(* ... with locks to take, ... *)
LEMMA NameLock ==
  ASSUME BaseInv, NameInv, NEW p \in Procs,
         ReadLock(p) \/ AnnounceWrite(p) \/ WriteLock(p)
  PROVE  NameLocal(p)'
<1>1. UNCHANGED <<obj, req, stage>> /\ pc[p] \in {"lock", "lockwait"}
  BY DEF ReadLock, AnnounceWrite, WriteLock, locals
<1>2. pc'[p] \in {"lock", "lockwait", "saveobject", "query", "lookup"}
  BY SMTT(20) DEF ReadLock, AnnounceWrite, WriteLock, Locked, Goto, Start, BaseInv, TypeOK
<1>3. Storing(p) => obj[p].bucket = req[p].b /\ obj[p].name = req[p].o
  BY <1>1 DEF NameInv, NameLocal
<1> QED
  BY <1>1, <1>2, <1>3 DEF NameLocal, Storing, Saving

(* ... or in the rest of its body. *)
LEMMA NameUse ==
  ASSUME BaseInv, BaseInv', NameInv, NEW p \in Procs,
         DsGet(p) \/ Load(p) \/ Fetch(p) \/ PutObjectHash(p) \/ RemoveObjects(p)
  PROVE  NameLocal(p)'
<1>0. Step(p) /\ pc[p] # "idle"
  BY DEF Step, DsGet, Load, Fetch, PutObjectHash, RemoveObjects
<1>1. UNCHANGED <<req, stage, obj, ent>>
  BY DEF DsGet, Load, Fetch, PutObjectHash, RemoveObjects, locals
<1>2. pc[p] \in Resolving
  BY DEF DsGet, Load, Fetch, PutObjectHash, RemoveObjects, Resolving
<1>3. Storing(p) => obj[p].bucket = req[p].b /\ obj[p].name = req[p].o
  BY <1>2 DEF NameInv, NameLocal
<1>4. Cur(p)' = Cur(p) /\ (Storing(p)' <=> Storing(p))
  BY <1>1 DEF Cur, Storing
<1>5. CASE DsGet(p)
  <2>1. bhash'[p] = ds[Cur(p)] /\ Cur(p) \in Buckets
    BY <1>2, <1>5, CurIsBucket DEF DsGet, BaseInv, TypeOK
  <2>2. /\ pc'[p] \in {"setnil", "fill"}
        /\ pc'[p] = "fill" => ds[Cur(p)] # Nil
    BY <1>5 DEF DsGet, Goto, BaseInv, TypeOK
  <2>3. pc'[p] = "fill" => Good(bhash'[p], Cur(p))
    BY <2>1, <2>2 DEF NameInv
  <2> QED
    BY <1>1, <1>3, <1>4, <2>2, <2>3 DEF NameLocal, Saving
<1>6. ASSUME pc[p] \in {"load", "fetch", "use"}
      PROVE  /\ heap'[ent'[p]].hash.name = Cur(p)
             /\ req[p].op \in LoadingOps /\ stage[p] # "assert"
  <2>1. ent[p] # Nil
    BY <1>6 DEF BaseInv, BusyInv
  <2>2. heap'[ent'[p]].hash = heap[ent[p]].hash
    BY <1>0, <1>1, <2>1, HandKept
  <2> QED
    BY <1>6, <2>2 DEF NameInv, NameLocal
<1>7. CASE Load(p) \/ Fetch(p)
  <2>1. pc[p] \in {"load", "fetch"} /\ pc'[p] \in {"fetch", "use", "panic"}
    BY <1>7 DEF Load, Fetch, Goto, BaseInv, TypeOK
  <2> QED
    BY <1>1, <1>3, <1>4, <1>6, <2>1 DEF NameLocal, Saving
<1>8. CASE PutObjectHash(p) \/ RemoveObjects(p)
  <2>1. /\ pc[p] = "use" /\ pc'[p] \in {"savebucket", "return"}
        /\ stage[p] = "main" /\ req[p].op # "CreateBucket"
    <3>1. pc[p] = "use" /\ pc'[p] \in {"savebucket", "return"}
      BY <1>8 DEF PutObjectHash, RemoveObjects, Goto, Finish, BaseInv, TypeOK
    <3> QED
      BY <1>0, <1>8, <3>1, MainStage DEF PutObjectHash, RemoveObjects
  <2>2. Cur(p) = req[p].b
    BY <2>1 DEF Cur
  <2> QED
    BY <1>1, <1>6, <2>1, <2>2 DEF NameLocal, Saving, Resolving
<1> QED
  BY <1>5, <1>7, <1>8

LEMMA NameRest ==
  ASSUME BaseInv, BaseInv', NameInv, NEW p \in Procs,
         \/ Return(p) \/ GetBucketInfo(p) \/ GetObjectHash(p) \/ FindObject(p)
         \/ GetObject(p) \/ GetObjectInfos(p) \/ SaveObject(p) \/ SaveBucket(p)
         \/ DsPut(p) \/ Install(p) \/ Uncache(p) \/ DsDelete(p) \/ GetBucketNames(p)
         \/ BackendFails(p)
  PROVE  NameLocal(p)'
<1>1. CASE \/ Return(p) \/ GetBucketInfo(p) \/ GetObjectHash(p) \/ FindObject(p)
           \/ Install(p) \/ Uncache(p) \/ DsDelete(p) \/ GetBucketNames(p)
           \/ BackendFails(p)
  <2>1. pc'[p] \in {"idle", "return", "getobject", "dsdelete"}
    BY <1>1 DEF Return, GetBucketInfo, GetObjectHash, FindObject, Install, Uncache,
                DsDelete, GetBucketNames, BackendFails, Goto, Finish, BaseInv, TypeOK
  <2> QED
    BY <2>1 DEF NameLocal, Resolving, Saving
<1>2. CASE SaveObject(p)
  <2>1. pc[p] = "saveobject" /\ pc'[p] = "lookup" /\ UNCHANGED <<obj, req, stage>>
    BY <1>2 DEF SaveObject, Goto, locals, BaseInv, TypeOK
  <2> QED
    BY <2>1 DEF NameInv, NameLocal, Storing, Saving
<1>3. CASE GetObjectInfos(p)
  <2>1. pc'[p] \in {"lookup", "return"} /\ req'[p].op = "GetObjectInfos"
    BY <1>3 DEF GetObjectInfos, Goto, Finish, BaseInv, TypeOK
  <2> QED
    BY <2>1 DEF NameLocal, Storing, Saving, Resolving
<1>4. CASE GetObject(p)
  <2>1. CASE req[p].op = "CopyObject"
    <3>1. pc'[p] = "saveobject" /\ UNCHANGED req
      BY <1>4, <2>1 DEF GetObject, Goto, BaseInv, TypeOK
    <3>2. obj'[p] = [bucket |-> req[p].b, name |-> req[p].o, data |-> obj[p].data]
      BY <1>4, <2>1 DEF GetObject, BaseInv, TypeOK
    <3>3. obj'[p].bucket = req[p].b /\ obj'[p].name = req[p].o
      BY <3>2, SMTT(20)
    <3> QED
      BY <3>1, <3>3 DEF NameLocal, Saving
  <2>2. CASE req[p].op # "CopyObject"
    <3>1. /\ UNCHANGED req /\ req[p].op \in {"ObjectInfo", "GetObjectInfos"}
          /\ \E l \in {"return", "lookup"} : pc' = [pc EXCEPT ![p] = l]
      BY <1>4, <2>2 DEF GetObject, Goto, Finish
    <3>2. pc'[p] \in {"return", "lookup"}
      BY <3>1 DEF BaseInv, TypeOK
    <3> QED
      BY <3>1, <3>2 DEF NameLocal, Storing, Saving, Resolving
  <2> QED
    BY <2>1, <2>2
<1>5. CASE SaveBucket(p) \/ DsPut(p)
  <2>0. pc[p] \in Saving /\ UNCHANGED <<heap, ent, req, stage>> /\ NameLocal(p)
    BY <1>5 DEF SaveBucket, DsPut, Saving, locals, NameInv
  <2>1. CASE SaveBucket(p)
    <3>1. CASE pc'[p] = "return"
      BY <3>1 DEF NameLocal, Resolving, Saving
    <3>2. CASE pc'[p] = "dsput" /\ bhash'[p] = Marshal(Saved(p))
      BY <2>0, <3>2, SavedGood DEF NameLocal, Resolving, Saving
    <3> QED
      BY <2>1, <3>1, <3>2 DEF SaveBucket, Goto, Finish, BaseInv, TypeOK
  <2>2. CASE DsPut(p)
    <3>1. pc[p] = "dsput" /\ pc'[p] = "install" /\ bhash' = bhash
      BY <2>2 DEF DsPut, Goto, locals, BaseInv, TypeOK
    <3> QED
      BY <2>0, <3>1 DEF NameLocal, Resolving, Saving
  <2> QED
    BY <1>5, <2>1, <2>2
<1> QED
  BY <1>1, <1>2, <1>3, <1>4, <1>5

LEMMA NameCall ==
  ASSUME BaseInv, NameInv, NEW p \in Procs, NEW r \in Request, Call(p, r)
  PROVE  NameInv'
<1>1. UNCHANGED <<ds, heap, cache, ent>>
  BY DEF Call, shared
<1>2. ASSUME NEW q \in Procs, q # p PROVE NameLocal(q)'
  <2>1. Same(q) /\ NameLocal(q)
    BY <1>2, SameCall DEF NameInv
  <2> QED
    BY <1>1, <2>1 DEF Same, NameLocal, Cur, Storing, Resolving, Saving
<1>3. NameLocal(p)'
  <2>1. /\ req'[p] = r /\ stage'[p] = IF r.op = "CopyObject" THEN "assert" ELSE "main"
        /\ r.op = "PutObject" =>
             obj'[p] = [bucket |-> r.b, name |-> r.o, data |-> r.data]
    BY DEF Call, BaseInv, TypeOK
  <2>2. pc'[p] \in {"lock", "saveobject", "query", "lookup"}
    BY SMTT(20) DEF Call, Goto, Start, BaseInv, TypeOK
  <2>3. r.op = "PutObject" => obj'[p].bucket = r.b /\ obj'[p].name = r.o
    BY <2>1, SMTT(20)
  <2> QED
    BY <2>1, <2>2, <2>3 DEF NameLocal, Storing, Saving
<1> QED
  BY <1>1, <1>2, <1>3 DEF NameInv

LEMMA NameNext ==
  ASSUME BaseInv, BaseInv', NameInv, [Next]_vars
  PROVE  NameInv'
<1>0. BaseInv'
  OBVIOUS
<1>1. CASE UNCHANGED vars
  <2>1. UNCHANGED <<ds, heap, cache, ent, bhash, obj, pc, req, stage>>
    BY <1>1 DEF vars, shared, locals
  <2> QED
    BY <2>1 DEF NameInv, NameLocal, Cur, Storing
<1>2. CASE \E p \in Procs : \E r \in Request : Call(p, r)
  BY <1>2, NameCall
<1>3. ASSUME NEW p \in Procs, Step(p) PROVE NameInv'
  <2>1. NameLocal(p)'
    BY <1>0, <1>3, NameLock, NameResolve, NameUse, NameRest DEF Step
  <2>2. \A q \in Procs : NameLocal(q)'
    BY <1>0, <1>3, <2>1, NameOther
  <2> QED
    BY <1>0, <1>3, <2>2, NameShared DEF NameInv
<1>4. CASE Crash
  <2>1. /\ ds' = ds
        /\ \A b \in Buckets : cache'[b] = Absent
        /\ \A e \in Entries : heap'[e] = Nil
        /\ \A p \in Procs : pc'[p] = "idle"
    BY <1>4 DEF Crash
  <2>2. \A p \in Procs : NameLocal(p)'
    BY <2>1 DEF NameLocal, Resolving, Saving
  <2> QED
    BY <2>1, <2>2, Distinct DEF NameInv
<1> QED
  BY <1>1, <1>2, <1>3, <1>4 DEF Next

(* Two goroutines hold the same entry only for the same bucket. *)
LEMMA NoRace ==
  ASSUME BaseInv, NameInv, \A q \in Procs : LockInv(q)
  PROVE  NoDataRace
<1> SUFFICES ASSUME NEW p \in Procs, NEW q \in Procs, p # q, Mutating(p),
                    pc[q] \in {"use", "savebucket"}, ent[p] = ent[q]
             PROVE  FALSE
  BY DEF NoDataRace
<1>1. /\ pc[p] = "use" /\ stage[p] = "main"
      /\ req[p].op \in {"PutObject", "CopyObject", "RemoveObject", "RemoveObjects"}
  BY DEF Mutating
<1>2. Writes(p, req[p].b)
  BY <1>1 DEF Writes, Body, PCs, WriteOps
<1>3. ent[p] # Nil /\ heap[ent[p]].hash.name = req[p].b
  BY <1>1 DEF BaseInv, BusyInv, NameInv, NameLocal, Cur
<1>4. CASE pc[q] = "use"
  <2>1. Cur(q) = req[p].b /\ req[q].op \in LoadingOps
    BY <1>3, <1>4 DEF NameInv, NameLocal
  <2>2. stage[q] = "source" => req[q].op = "CopyObject"
    BY <1>4 DEF BaseInv, BusyInv
  <2>3. Writes(q, req[p].b) \/ Reads(q, req[p].b)
    BY <1>4, <2>1, <2>2
       DEF Writes, Reads, Body, PCs, WriteOps, ReadOps, LoadingOps, Cur
  <2> QED
    BY <1>2, <2>3, Exclusive
<1>5. CASE pc[q] = "savebucket"
  <2>1. /\ req[q].op \in {"CreateBucket", "PutObject", "CopyObject",
                          "RemoveObject", "RemoveObjects"}
        /\ req[q].op = "CreateBucket" => ent[q] = Nil
        /\ req[q].op # "CreateBucket" => heap[ent[q]].hash.name = req[q].b
    BY <1>5 DEF BaseInv, BusyInv, NameInv, NameLocal, Saving
  <2>2. Writes(q, req[p].b)
    BY <1>3, <1>5, <2>1 DEF Writes, Body, PCs, WriteOps
  <2> QED
    BY <1>2, <2>2, Exclusive
<1> QED
  BY <1>4, <1>5

-----------------------------------------------------------------------------
(* Who may be at a bucket                                                   *)

LEMMA OneChanger ==
  ASSUME BaseInv, \A q \in Procs : LockInv(q),
         NEW p \in Procs, NEW q \in Procs, pc[p] \in Changing, pc[q] \in Changing,
         req[p].b = req[q].b
  PROVE  p = q
BY ChangerWrites, Alone DEF Touches

(* Only Install is a step at "install". *)
LEMMA AtInstall ==
  ASSUME NEW p \in Procs, Step(p), pc[p] = "install"
  PROVE  Install(p)
BY Switches
   DEF Step, ReadLock, AnnounceWrite, WriteLock, Return, Lookup, DsGet, SetNil, Fill,
       Load, Fetch, GetBucketInfo, GetObjectHash, FindObject, GetObject,
       GetObjectInfos, SaveObject, PutObjectHash, RemoveObjects, SaveBucket, DsPut,
       Uncache, DsDelete, GetBucketNames, BackendFails, BackendSteps

(* The datastore changes under the bucket of no goroutine that resolves. *)
LEMMA DsStays ==
  ASSUME LockedLookups, BaseInv, \A q \in Procs : LockInv(q),
         NEW p \in Procs, Step(p), NEW q \in Procs, pc[q] \in Resolving
  PROVE  ds'[Cur(q)] = ds[Cur(q)]
<1>1. Cur(q) \in Buckets
  BY CurIsBucket
<1>2. SUFFICES ASSUME ds'[Cur(q)] # ds[Cur(q)] PROVE FALSE
  OBVIOUS
<1>3. Cur(q) = req[p].b /\ pc[p] \in {"dsput", "dsdelete"}
  BY <1>1, <1>2, DsChange
<1> QED
  BY <1>3, NoOtherChanger DEF Changing, Saving

LEMMA DsStaysOther ==
  ASSUME BaseInv, \A q \in Procs : LockInv(q), NEW p \in Procs, Step(p),
         NEW q \in Procs, q # p, pc[q] \in Changing
  PROVE  ds'[req[q].b] = ds[req[q].b]
<1>1. req[q].b \in Buckets
  BY CurIsBucket, SavedType, RequestFields DEF BaseInv, BusyInv, TypeOK, Changing, Saving
<1>2. SUFFICES ASSUME ds'[req[q].b] # ds[req[q].b] PROVE FALSE
  OBVIOUS
<1>3. req[q].b = req[p].b /\ pc[p] \in {"dsput", "dsdelete"}
  BY <1>1, <1>2, DsChange
<1> QED
  BY <1>3, OneChanger DEF Changing, Saving

(* Which step leads where. *)
LEMMA Arrivals ==
  ASSUME BaseInv, NEW p \in Procs, Step(p)
  PROVE  /\ pc'[p] \in {"setnil", "fill"} => DsGet(p)
         /\ pc'[p] \in {"load", "uncache"} => Lookup(p) \/ SetNil(p) \/ Fill(p)
         /\ pc'[p] \in {"fetch", "use"} => Load(p) \/ Fetch(p)
         /\ pc'[p] = "savebucket" => \/ Lookup(p) \/ SetNil(p) \/ Fill(p)
                                     \/ PutObjectHash(p) \/ RemoveObjects(p)
         /\ pc'[p] = "dsput" => SaveBucket(p)
         /\ pc'[p] = "install" => DsPut(p)
         /\ pc'[p] = "dsdelete" => Uncache(p)
<1>1. CASE ReadLock(p) \/ AnnounceWrite(p) \/ WriteLock(p)
  <2>1. pc'[p] \in {"lock", "lockwait", "saveobject", "query", "lookup"}
    BY <1>1, SMTT(20)
       DEF ReadLock, AnnounceWrite, WriteLock, Locked, Goto, Start, BaseInv, TypeOK
  <2> QED
    BY <2>1
<1>2. CASE Lookup(p) \/ SetNil(p) \/ Fill(p)
  <2>1. pc'[p] \in {"dsget", "savebucket", "return", "uncache", "lookup", "load"}
    BY <1>2, LookupOutcome DEF Outcome
  <2> QED
    BY <1>2, <2>1
<1>3. CASE Load(p) \/ Fetch(p) \/ DsGet(p)
  <2>1. /\ DsGet(p) => pc'[p] \in {"setnil", "fill"}
        /\ Load(p) \/ Fetch(p) => pc'[p] \in {"fetch", "use", "panic"}
    BY DEF Load, Fetch, DsGet, Goto, BaseInv, TypeOK
  <2> QED
    BY <1>3, <2>1
<1>4. CASE GetObject(p)
  <2>1. PICK l \in {"return", "saveobject", "lookup"} : pc' = [pc EXCEPT ![p] = l]
    BY <1>4 DEF GetObject, Goto, Finish
  <2>2. pc'[p] = l
    BY <2>1 DEF BaseInv, TypeOK
  <2> QED
    BY <2>1, <2>2
<1>5. CASE \/ Return(p) \/ GetBucketInfo(p) \/ GetObjectHash(p) \/ FindObject(p)
           \/ GetObjectInfos(p) \/ SaveObject(p) \/ Install(p) \/ DsDelete(p)
           \/ GetBucketNames(p) \/ BackendFails(p)
  <2>1. pc'[p] \in {"idle", "return", "getobject", "lookup"}
    BY <1>5 DEF Return, GetBucketInfo, GetObjectHash, FindObject, GetObjectInfos,
                SaveObject, Install, DsDelete, GetBucketNames, BackendFails, Goto,
                Finish, BaseInv, TypeOK
  <2> QED
    BY <2>1
<1>6. CASE PutObjectHash(p) \/ RemoveObjects(p)
  <2>1. pc'[p] \in {"savebucket", "return"}
    BY <1>6 DEF PutObjectHash, RemoveObjects, Goto, Finish, BaseInv, TypeOK
  <2> QED
    BY <1>6, <2>1
<1>7. CASE SaveBucket(p) \/ DsPut(p) \/ Uncache(p)
  <2>1. /\ SaveBucket(p) => pc'[p] \in {"dsput", "return"}
        /\ DsPut(p) => pc'[p] = "install"
        /\ Uncache(p) => pc'[p] = "dsdelete"
    BY DEF SaveBucket, DsPut, Uncache, Goto, Finish, BaseInv, TypeOK
  <2> QED
    BY <1>7, <2>1
<1> QED
  BY <1>1, <1>2, <1>3, <1>4, <1>5, <1>6, <1>7 DEF Step

-----------------------------------------------------------------------------
(* A bucket that is recorded as missing                                     *)

(***************************************************************************)
(* The map records a bucket as missing while the datastore has none, or    *)
(* has just got it from the goroutine about to replace the record; what a  *)
(* goroutine found missing under its lock stays missing until it writes.   *)
(***************************************************************************)
AbsentLocal(p) ==
  /\ pc[p] = "setnil" => ds[Cur(p)] = Nil
  /\ pc[p] \in {"savebucket", "dsput"} /\ req[p].op = "CreateBucket" =>
       ds[req[p].b] = Nil

AbsentInv ==
  /\ \A b \in Buckets : cache[b] = Nil =>
       ds[b] = Nil \/ \E p \in Procs : pc[p] = "install" /\ req[p].b = b
  /\ \A p \in Procs : AbsentLocal(p)

LEMMA AbsentInit == Init => AbsentInv
<1> SUFFICES ASSUME Init PROVE AbsentInv
  OBVIOUS
<1>1. /\ \A b \in Buckets : ds[b] = Nil
      /\ \A p \in Procs : pc[p] = "idle"
  BY DEF Init
<1> QED
  BY <1>1 DEF AbsentInv, AbsentLocal

(* The map. *)
LEMMA AbsentCache ==
  ASSUME LockedLookups, BaseInv, AbsentInv, \A q \in Procs : LockInv(q),
         NEW p \in Procs, Step(p), NEW b \in Buckets, cache'[b] = Nil
  PROVE  ds'[b] = Nil \/ \E q \in Procs : pc'[q] = "install" /\ req'[q].b = b
<1>1. CASE cache[b] # Nil
  <2>1. pc[p] = "setnil" /\ b = Cur(p)
    BY <1>1, CacheChange, Distinct
  <2>2. ds'[b] = ds[b]
    BY <2>1, DsStays DEF Resolving
  <2> QED
    BY <2>1, <2>2 DEF AbsentInv, AbsentLocal
<1>2. CASE cache[b] = Nil /\ ds[b] = Nil
  <2> SUFFICES ASSUME ds'[b] # Nil
               PROVE  \E q \in Procs : pc'[q] = "install" /\ req'[q].b = b
    OBVIOUS
  <2>1. b = req[p].b /\ pc[p] = "dsput"
    BY <1>2, DsChange
  <2>2. DsPut(p) \/ ds' = ds
    BY <2>1 DEF Step, ReadLock, AnnounceWrite, WriteLock, Return, Lookup, DsGet,
         SetNil, Fill, Load, Fetch, GetBucketInfo, GetObjectHash, FindObject, GetObject,
         GetObjectInfos, SaveObject, PutObjectHash, RemoveObjects, SaveBucket, Install,
         Uncache, DsDelete, GetBucketNames, BackendFails, shared
  <2>3. DsPut(p)
    BY <1>2, <2>2
  <2>4. pc'[p] = "install" /\ req'[p].b = b
    BY <2>1, <2>3 DEF DsPut, Goto, BaseInv, TypeOK
  <2> QED
    BY <2>4
<1>3. CASE cache[b] = Nil /\ \E q \in Procs : pc[q] = "install" /\ req[q].b = b
  <2>1. PICK q \in Procs : pc[q] = "install" /\ req[q].b = b
    BY <1>3
  <2>2. CASE q = p
    <3>1. Install(p)
      BY <2>1, <2>2, AtInstall
    <3>2. \E e \in Entries : cache' = [cache EXCEPT ![b] = e]
      BY <2>1, <2>2, <3>1 DEF Install
    <3>3. cache'[b] \in Entries
      BY <3>2 DEF BaseInv, TypeOK
    <3> QED
      BY <3>3, Distinct
  <2>3. CASE q # p
    BY <2>1, <2>3, SameStep DEF Same
  <2> QED
    BY <2>2, <2>3
<1> QED
  BY <1>1, <1>2, <1>3 DEF AbsentInv

(* The goroutine that moves. *)
LEMMA AbsentOwn ==
  ASSUME LockedLookups, BaseInv, AbsentInv, \A q \in Procs : LockInv(q),
         NEW p \in Procs, Step(p)
  PROVE  AbsentLocal(p)'
<1>1. CASE pc'[p] = "setnil"
  <2>1. DsGet(p)
    BY <1>1, Arrivals
  <2>2. UNCHANGED <<ds, req, stage>> /\ ds[Cur(p)] = Nil
    BY <1>1, <2>1 DEF DsGet, Goto, shared, BaseInv, TypeOK
  <2> QED
    BY <1>1, <2>2 DEF AbsentLocal, Cur
<1>2. CASE pc'[p] = "savebucket" /\ (Lookup(p) \/ SetNil(p) \/ Fill(p))
  <2>1. /\ pc[p] \in Resolving /\ UNCHANGED <<req, ds>>
        /\ Outcome(p) /\ ent'[p] = cache'[Cur(p)]
    BY <1>2, LookupOutcome DEF Resolving, Lookup, SetNil, Fill
  <2>2. ent'[p] = Nil /\ req[p].op = "CreateBucket"
    BY <1>2, <2>1 DEF Outcome
  <2>3. stage[p] = "main" /\ Cur(p) = req[p].b /\ req[p].b \in Buckets
    BY <2>1, <2>2, MainStage, CurIsBucket DEF Resolving, Cur
  <2>4. cache'[req[p].b] = Nil
    BY <2>1, <2>2, <2>3
  <2>5. ASSUME NEW q \in Procs, pc'[q] = "install", req'[q].b = req[p].b PROVE FALSE
    <3>1. q # p
      BY <1>2, <2>5
    <3>2. pc[q] = "install" /\ req[q].b = Cur(p)
      BY <2>3, <2>5, <3>1, SameStep DEF Same
    <3> QED
      BY <2>1, <3>2, NoOtherChanger DEF Changing, Saving
  <2>6. ds'[req[p].b] = Nil
    BY <2>3, <2>4, <2>5, AbsentCache
  <2> QED
    BY <1>2, <2>1, <2>6 DEF AbsentLocal
<1>3. CASE pc'[p] = "savebucket" /\ (PutObjectHash(p) \/ RemoveObjects(p))
  <2>1. req'[p].op # "CreateBucket"
    BY <1>3 DEF PutObjectHash, RemoveObjects
  <2> QED
    BY <1>3, <2>1 DEF AbsentLocal
<1>4. CASE pc'[p] = "dsput"
  <2>1. SaveBucket(p)
    BY <1>4, Arrivals
  <2>2. pc[p] = "savebucket" /\ UNCHANGED <<ds, req>>
    BY <2>1 DEF SaveBucket
  <2> QED
    BY <1>4, <2>2 DEF AbsentInv, AbsentLocal
<1> QED
  BY <1>1, <1>2, <1>3, <1>4, Arrivals DEF AbsentLocal

LEMMA AbsentOther ==
  ASSUME LockedLookups, BaseInv, AbsentInv, \A q \in Procs : LockInv(q),
         NEW p \in Procs, Step(p), NEW q \in Procs, q # p
  PROVE  AbsentLocal(q)'
<1>1. Same(q) /\ AbsentLocal(q)
  BY SameStep DEF AbsentInv
<1>2. Cur(q)' = Cur(q)
  BY <1>1 DEF Same, Cur
<1>3. pc[q] = "setnil" => ds'[Cur(q)] = ds[Cur(q)]
  BY DsStays DEF Resolving
<1>4. pc[q] \in {"savebucket", "dsput"} => ds'[req[q].b] = ds[req[q].b]
  BY DsStaysOther DEF Changing, Saving
<1> QED
  BY <1>1, <1>2, <1>3, <1>4 DEF Same, AbsentLocal

LEMMA AbsentNext ==
  ASSUME LockedLookups, BaseInv, AbsentInv, \A q \in Procs : LockInv(q), [Next]_vars
  PROVE  AbsentInv'
<1>1. CASE UNCHANGED vars
  <2>1. UNCHANGED <<ds, cache, pc, req, stage>>
    BY <1>1 DEF vars, shared
  <2> QED
    BY <2>1 DEF AbsentInv, AbsentLocal, Cur
<1>2. ASSUME NEW p \in Procs, NEW r \in Request, Call(p, r) PROVE AbsentInv'
  <2>1. UNCHANGED <<ds, cache>> /\ pc[p] = "idle"
    BY <1>2 DEF Call, shared
  <2>2. pc'[p] \in {"lock", "saveobject", "query", "lookup"}
    BY <1>2, SMTT(20) DEF Call, Goto, Start, BaseInv, TypeOK
  <2>3. \A q \in Procs : q # p => Same(q)
    BY <1>2, SameCall
  <2>4. ASSUME NEW q \in Procs, q # p PROVE AbsentLocal(q)'
    <3>1. Same(q) /\ AbsentLocal(q)
      BY <2>3, <2>4 DEF AbsentInv
    <3> QED
      BY <2>1, <3>1 DEF AbsentLocal, Same, Cur
  <2>5. AbsentLocal(p)'
    BY <2>2 DEF AbsentLocal
  <2>6. ASSUME NEW q \in Procs, pc[q] = "install" PROVE pc'[q] = "install" /\ req'[q] = req[q]
    <3>1. q # p
      BY <2>1, <2>6
    <3> QED
      BY <2>3, <2>6, <3>1 DEF Same
  <2>7. ASSUME NEW b \in Buckets, cache'[b] = Nil
        PROVE  ds'[b] = Nil \/ \E q \in Procs : pc'[q] = "install" /\ req'[q].b = b
    BY <2>1, <2>6, <2>7 DEF AbsentInv
  <2> QED
    BY <2>4, <2>5, <2>7 DEF AbsentInv
<1>3. ASSUME NEW p \in Procs, Step(p) PROVE AbsentInv'
  BY <1>3, AbsentCache, AbsentOwn, AbsentOther DEF AbsentInv
<1>4. CASE Crash
  <2>1. /\ \A b \in Buckets : cache'[b] = Absent
        /\ \A p \in Procs : pc'[p] = "idle"
    BY <1>4 DEF Crash
  <2> QED
    BY <2>1, Distinct DEF AbsentInv, AbsentLocal
<1> QED
  BY <1>1, <1>2, <1>3, <1>4 DEF Next

-----------------------------------------------------------------------------
(* The cache and the datastore                                              *)

LEMMA CoherentInit == Init => CoherentInv
<1> SUFFICES ASSUME Init PROVE CoherentInv
  OBVIOUS
<1>1. /\ \A b \in Buckets : cache[b] = Absent
      /\ \A p \in Procs : pc[p] = "idle"
  BY DEF Init
<1> QED
  BY <1>1 DEF CoherentInv, Coherent, View

(* The goroutines that do not move. *)
LEMMA ViewOther ==
  ASSUME LockedLookups, Held, BaseInv', CoherentInv, NEW p \in Procs, Step(p),
         NEW q \in Procs, q # p
  PROVE  View(q)'
<1>0. BaseInv /\ NameInv /\ \A r \in Procs : LockInv(r)
  BY DEF Held
<1>1. Same(q) /\ View(q) /\ Cur(q)' = Cur(q)
  BY <1>0, SameStep DEF CoherentInv, Same, Cur
<1>2. pc[q] \in Resolving => ds'[Cur(q)] = ds[Cur(q)]
  BY <1>0, DsStays
<1>3. ASSUME pc[q] \in {"load", "fetch", "use"} PROVE cache'[Cur(q)] = cache[Cur(q)]
  <2>0. pc[q] \in Resolving /\ Cur(q) \in Buckets /\ ent[q] = cache[Cur(q)]
    BY <1>0, <1>1, <1>3, CurIsBucket DEF Resolving, View
  <2>1. cache[Cur(q)] \in Entries
    BY <1>0, <1>3, <2>0, EntryInUse DEF BaseInv, BusyInv
  <2>2. ds[Cur(q)] # Nil
    <3>1. Matches(heap[ent[q]], ds[Cur(q)])
      BY <2>0, <2>1, ResolvedIsCoherent, Distinct DEF Coherent
    <3>2. heap[ent[q]] \in Entry
      BY <1>0, <2>0, <2>1, EntryInUse, Distinct
    <3>3. heap[ent[q]].hash \in BucketBlock
      BY <3>2, SMTT(20) DEF Entry
    <3> QED
      BY <3>1, <3>3, Distinct DEF Matches
  <2> SUFFICES ASSUME cache'[Cur(q)] # cache[Cur(q)] PROVE FALSE
    OBVIOUS
  <2>3. CASE pc[p] = "setnil" /\ Cur(q) = Cur(p)
    BY <2>2, <2>3 DEF CoherentInv, View
  <2>4. CASE pc[p] = "fill" /\ cache[Cur(q)] = Absent
    BY <2>1, <2>4, Distinct
  <2>5. CASE pc[p] \in {"install", "uncache"} /\ Cur(q) = req[p].b
    BY <1>0, <2>0, <2>5, NoOtherChanger DEF Changing, Saving
  <2> QED
    BY <1>0, <2>0, <2>3, <2>4, <2>5, CacheChange
<1>4. ASSUME pc[q] = "dsdelete" PROVE cache'[req[q].b] = cache[req[q].b]
  <2>0. req[q].b \in Buckets
    BY <1>0, <1>4, RequestFields DEF BaseInv, BusyInv, TypeOK
  <2> SUFFICES ASSUME cache'[req[q].b] # cache[req[q].b] PROVE FALSE
    OBVIOUS
  <2>1. CASE pc[p] \in {"setnil", "fill"} /\ req[q].b = Cur(p)
    BY <1>0, <1>4, <2>1, NoOtherChanger DEF Changing, Resolving
  <2>2. CASE pc[p] \in {"install", "uncache"} /\ req[q].b = req[p].b
    BY <1>0, <1>4, <2>2, OneChanger DEF Changing, Saving
  <2> QED
    BY <1>0, <2>0, <2>1, <2>2, CacheChange
<1>5. pc[q] \in {"dsput", "install"} => Saved(q)' = Saved(q)
  BY SavedStays DEF Saving
<1>6. pc[q] = "install" => ds'[req[q].b] = ds[req[q].b]
  BY <1>0, DsStaysOther DEF Changing, Saving
<1>7. pc[q] \in {"dsput", "install"} => Marshal(Saved(q))' = Marshal(Saved(q))
  BY <1>5 DEF Marshal
<1> QED
  BY <1>1, <1>2, <1>3, <1>4, <1>6, <1>7 DEF Same, View, Resolving

(* The goroutine that moves. *)
LEMMA ViewOwn ==
  ASSUME Held, CoherentInv, NEW p \in Procs, Step(p)
  PROVE  View(p)'
<1>0. BaseInv /\ View(p)
  BY DEF Held, CoherentInv
<1>1. CASE pc'[p] \in {"setnil", "fill"}
  <2>1. DsGet(p)
    BY <1>0, <1>1, Arrivals
  <2>2. /\ UNCHANGED <<ds, req, stage>> /\ bhash'[p] = ds[Cur(p)]
        /\ pc'[p] = "setnil" => ds[Cur(p)] = Nil
    BY <1>0, <2>1 DEF DsGet, Goto, shared, BaseInv, TypeOK
  <2> QED
    BY <1>1, <2>2 DEF View, Cur
<1>2. CASE pc'[p] = "load"
  <2>1. Lookup(p) \/ SetNil(p) \/ Fill(p)
    BY <1>0, <1>2, Arrivals
  <2>2. Outcome(p) /\ ent'[p] = cache'[Cur(p)] /\ UNCHANGED req
    BY <1>0, <1>2, <2>1, LookupOutcome
  <2>3. stage'[p] = stage[p]
    BY <1>2, <2>2 DEF Outcome
  <2> QED
    BY <1>2, <2>2, <2>3 DEF View, Cur
<1>3. CASE pc'[p] \in {"fetch", "use"}
  <2>1. Load(p) \/ Fetch(p)
    BY <1>0, <1>3, Arrivals
  <2>2. pc[p] \in {"load", "fetch"} /\ UNCHANGED <<cache, ent, req, stage>>
    BY <2>1 DEF Load, Fetch, shared, locals
  <2> QED
    BY <1>0, <1>3, <2>2 DEF View, Cur
<1>4. CASE pc'[p] = "dsput"
  <2>1. SaveBucket(p)
    BY <1>0, <1>4, Arrivals
  <2>2. UNCHANGED <<heap, ent, req>> /\ bhash'[p] = Marshal(Saved(p))
    BY <1>0, <1>4, <2>1 DEF SaveBucket, Goto, Finish, BaseInv, TypeOK
  <2>3. Saved(p)' = Saved(p)
    BY <2>2 DEF Saved, Bkt
  <2>4. Marshal(Saved(p))' = Marshal(Saved(p))
    BY <2>3 DEF Marshal
  <2> QED
    BY <1>4, <2>2, <2>4 DEF View
<1>5. CASE pc'[p] = "install"
  <2>1. DsPut(p)
    BY <1>0, <1>5, Arrivals
  <2>2. pc[p] = "dsput" /\ UNCHANGED <<heap, ent, req, bhash>>
    BY <2>1 DEF DsPut, locals
  <2>3. Saved(p)' = Saved(p)
    BY <2>2 DEF Saved, Bkt
  <2>4. Marshal(Saved(p))' = Marshal(Saved(p))
    BY <2>3 DEF Marshal
  <2>5. ds'[req[p].b] = bhash[p]
    BY <1>0, <2>1, <2>2, SavedType DEF DsPut, BaseInv, TypeOK, Saving
  <2> QED
    BY <1>0, <1>5, <2>2, <2>4, <2>5 DEF View
<1>6. CASE pc'[p] = "dsdelete"
  <2>1. Uncache(p)
    BY <1>0, <1>6, Arrivals
  <2>2. pc[p] = "uncache" /\ UNCHANGED req /\ cache' = [cache EXCEPT ![req[p].b] = Absent]
    BY <2>1 DEF Uncache
  <2>3. req[p].b \in Buckets
    BY <1>0, <2>2, RequestFields DEF BaseInv, BusyInv, TypeOK
  <2>4. cache'[req[p].b] = Absent
    BY <1>0, <2>2, <2>3 DEF BaseInv, TypeOK
  <2> QED
    BY <1>6, <2>2, <2>4 DEF View
<1> QED
  BY <1>1, <1>2, <1>3, <1>4, <1>5, <1>6 DEF View

(* Marshal undoes Unmarshal. *)
LEMMA MarshalUnmarshal ==
  ASSUME NEW h \in BucketBlock
  PROVE  Marshal(Unmarshal(h)) = h
BY SMTT(20) DEF Marshal, Unmarshal, BucketBlock

(* A bucket that p commits is committed on, or coherent again. *)
LEMMA CommitStep ==
  ASSUME SavesSucceed, Held, CoherentInv, NEW p \in Procs, Step(p),
         pc[p] \in {"savebucket", "dsput", "install", "dsdelete"},
         NEW b \in Buckets, req[p].b = b
  PROVE  Committing(b)' \/ Coherent(b)'
<1>0. BaseInv /\ NameInv /\ View(p)
  BY DEF Held, CoherentInv
<1>1. \/ SaveBucket(p) \/ DsPut(p) \/ Install(p) \/ DsDelete(p)
      \/ pc[p] = "dsdelete" /\ BackendFails(p)
  BY Switches
     DEF Step, ReadLock, AnnounceWrite, WriteLock, Return, Lookup, DsGet, SetNil, Fill,
         Load, Fetch, GetBucketInfo, GetObjectHash, FindObject, GetObject,
         GetObjectInfos, SaveObject, PutObjectHash, RemoveObjects, Uncache,
         GetBucketNames, BackendFails, BackendSteps, SavesSucceed
<1>2. CASE SaveBucket(p) \/ DsPut(p)
  <2>1. pc'[p] \in {"dsput", "install"} /\ req' = req
    <3>1. SaveBucket(p) => Saved(p).name = req[p].b
      BY <1>0, SavedGood DEF SaveBucket, Saving, Good
    <3> QED
      BY <1>0, <1>2, <3>1 DEF SaveBucket, DsPut, Goto, BaseInv, TypeOK
  <2> QED
    BY <2>1 DEF Committing
<1>3. CASE Install(p)
  <2>1. PICK e \in Entries :
          /\ cache' = [cache EXCEPT ![b] = e]
          /\ heap' = Collect([heap EXCEPT ![e] = [hash |-> bhash[p], bkt |-> Saved(p)]],
                             cache', ent')
    BY <1>3 DEF Install
  <2>2. cache'[b] = e
    BY <1>0, <2>1 DEF BaseInv, TypeOK
  <2> DEFINE h == [heap EXCEPT ![e] = [hash |-> bhash[p], bkt |-> Saved(p)]]
  <2>3. heap'[e] = h[e]
    <3> HIDE DEF h
    <3>1. heap' = Collect(h, cache', ent')
      BY <2>1 DEF h
    <3> QED
      BY <2>2, <3>1, NotFreed
  <2>4. heap'[cache'[b]] = [hash |-> bhash[p], bkt |-> Saved(p)]
    BY <1>0, <2>2, <2>3 DEF BaseInv, TypeOK
  <2>5. bhash[p] = ds'[b] /\ Marshal(Saved(p)) = ds'[b]
    <3>1. pc[p] = "install" /\ ds' = ds
      BY <1>3 DEF Install
    <3>2. bhash[p] = Marshal(Saved(p)) /\ ds[b] = bhash[p]
      BY <1>0, <3>1 DEF View
    <3> QED
      BY <3>1, <3>2
  <2>6. Matches([hash |-> bhash[p], bkt |-> Saved(p)], ds'[b])
    <3>1. /\ [hash |-> bhash[p], bkt |-> Saved(p)].hash = bhash[p]
          /\ [hash |-> bhash[p], bkt |-> Saved(p)].bkt = Saved(p)
      BY SMTT(20)
    <3> QED
      BY <2>5, <3>1 DEF Matches
  <2>7. Matches(heap'[cache'[b]], ds'[b])
    BY <2>4, <2>6
  <2> QED
    BY <2>2, <2>7 DEF Coherent, Matches
<1>4. CASE pc[p] = "dsdelete" /\ (DsDelete(p) \/ BackendFails(p))
  <2>1. cache'[b] = Absent
    BY <1>0, <1>4 DEF DsDelete, BackendFails, shared, View
  <2> QED
    BY <2>1 DEF Coherent
<1> QED
  BY <1>1, <1>2, <1>3, <1>4 DEF DsDelete

(* A coherent bucket stays so, until a writer begins to commit it. *)
LEMMA CoherentStep ==
  ASSUME LockedLookups, Held, BaseInv', CoherentInv, NEW p \in Procs, Step(p),
         NEW b \in Buckets, Coherent(b), ~Committing(b)
  PROVE  Committing(b)' \/ Coherent(b)'
<1>0. BaseInv /\ NameInv /\ View(p)
  BY DEF Held, CoherentInv
<1>1. ds'[b] = ds[b]
  BY <1>0, DsChange DEF Committing
<1>2. CASE cache'[b] # cache[b]
  <2>1. CASE pc[p] = "setnil" /\ b = Cur(p) /\ cache'[b] = Nil
    BY <1>0, <1>1, <2>1 DEF View, Coherent
  <2>2. CASE /\ pc[p] = "fill" /\ b = Cur(p) /\ cache'[b] \in Entries
             /\ heap'[cache'[b]] = [hash |-> bhash[p], bkt |-> Nil]
    <3>1. heap'[cache'[b]].hash = bhash[p] /\ heap'[cache'[b]].bkt = Nil
      BY <2>2, SMTT(20)
    <3> QED
      BY <1>0, <1>1, <2>2, <3>1 DEF View, Coherent, Matches
  <2>3. CASE pc[p] = "uncache" /\ cache'[b] = Absent
    BY <2>3 DEF Coherent
  <2>4. CASE pc[p] = "install" /\ b = req[p].b
    BY <2>4 DEF Committing
  <2> QED
    BY <1>0, <1>2, <2>1, <2>2, <2>3, <2>4, CacheChange
<1>3. CASE cache'[b] = cache[b] /\ cache[b] \notin Entries
  BY <1>1, <1>3 DEF Coherent
<1>4. CASE cache'[b] = cache[b] /\ cache[b] \in Entries
  <2> DEFINE e == cache[b]
  <2>1. heap[e] # Nil /\ heap'[e] # Nil
    BY <1>0, <1>4 DEF BaseInv, HeapInv
  <2>2. Matches(heap[e], ds[b]) /\ heap[e].hash.name = b
    BY <1>0, <1>4, Distinct DEF Coherent, NameInv
  <2>3. CASE heap'[e] = heap[e]
    BY <1>1, <1>4, <2>2, <2>3 DEF Coherent
  <2>4. CASE InPlace(p, e) /\ Fetch(p)
    <3>1. heap'[e].hash = heap[e].hash /\ e = ent[p]
      BY <2>4 DEF InPlace
    <3>2. UNCHANGED heap \/ heap'[e].bkt = Unmarshal(heap[e].hash)
      BY <1>0, <2>4, <3>1, FetchEffect
    <3>3. heap[e].hash \in BucketBlock
      <4>1. heap[e] \in Entry
        BY <1>0, <1>4, <2>1 DEF BaseInv, TypeOK
      <4> QED
        BY <4>1, SMTT(20) DEF Entry
    <3>4. CASE UNCHANGED heap
      BY <1>1, <1>4, <2>2, <3>4 DEF Coherent
    <3>5. CASE heap'[e].bkt = Unmarshal(heap[e].hash)
      <4>1. Marshal(heap'[e].bkt) = heap[e].hash
        BY <3>3, <3>5, MarshalUnmarshal
      <4>2. Matches(heap'[e], ds'[b])
        BY <1>1, <2>2, <3>1, <4>1 DEF Matches
      <4> QED
        BY <1>4, <4>2 DEF Coherent
    <3> QED
      BY <3>2, <3>4, <3>5
  <2>5. CASE InPlace(p, e) /\ (PutObjectHash(p) \/ RemoveObjects(p))
    <3>1. b = req[p].b /\ req' = req
      BY <2>2, <2>5, InPlaceName DEF PutObjectHash, RemoveObjects
    <3>2. CASE pc'[p] = "savebucket"
      BY <3>1, <3>2 DEF Committing
    <3>3. CASE UNCHANGED heap
      BY <1>1, <1>4, <2>2, <3>3 DEF Coherent
    <3>4. pc'[p] = "savebucket" \/ UNCHANGED heap
      BY <1>0, <2>5 DEF PutObjectHash, RemoveObjects, Goto, BaseInv, TypeOK
    <3> QED
      BY <3>2, <3>3, <3>4
  <2> QED
    BY <1>0, <1>4, <2>1, <2>3, <2>4, <2>5, EntryKept DEF InPlace
<1> QED
  BY <1>2, <1>3, <1>4

LEMMA CoherentNext ==
  ASSUME LockedLookups, SavesSucceed, Held, Held', CoherentInv, [Next]_vars
  PROVE  CoherentInv'
<1>0. BaseInv /\ BaseInv'
  BY DEF Held
<1>1. CASE UNCHANGED vars
  <2>1. UNCHANGED <<ds, cache, heap, ent, bhash, pc, req, stage>>
    BY <1>1 DEF vars, shared, locals
  <2> QED
    BY <2>1 DEF CoherentInv, Coherent, Matches, Marshal, Committing, View, Saved, Bkt, Cur
<1>2. ASSUME NEW p \in Procs, NEW r \in Request, Call(p, r) PROVE CoherentInv'
  <2>1. UNCHANGED <<ds, cache, heap>> /\ pc[p] = "idle"
    BY <1>2 DEF Call, shared
  <2>2. pc'[p] \in {"lock", "saveobject", "query", "lookup"}
    BY <1>0, <1>2, SMTT(20) DEF Call, Goto, Start, BaseInv, TypeOK
  <2>3. ASSUME NEW q \in Procs, q # p PROVE Same(q)
    BY <1>0, <1>2, <2>3, SameCall
  <2>4. ASSUME NEW q \in Procs PROVE View(q)'
    <3>1. CASE q = p
      BY <2>2, <3>1 DEF View
    <3>2. CASE q # p
      <4>1. Same(q) /\ View(q)
        BY <2>3, <3>2 DEF CoherentInv
      <4>2. Saved(q)' = Saved(q) /\ Cur(q)' = Cur(q)
        BY <2>1, <4>1 DEF Same, Cur, Saved, Bkt
      <4>3. Marshal(Saved(q))' = Marshal(Saved(q))
        BY <4>2 DEF Marshal
      <4> QED
        BY <2>1, <4>1, <4>2, <4>3 DEF View, Same
    <3> QED
      BY <3>1, <3>2
  <2>5. ASSUME NEW b \in Buckets PROVE Committing(b)' \/ Coherent(b)'
    <3>1. CASE Coherent(b)
      BY <2>1, <3>1 DEF Coherent
    <3>2. CASE Committing(b)
      <4>1. PICK q \in Procs :
              /\ pc[q] \in {"savebucket", "dsput", "install", "dsdelete"}
              /\ req[q].b = b
        BY <3>2 DEF Committing
      <4>2. q # p
        BY <2>1, <4>1
      <4> QED
        BY <2>3, <4>1, <4>2 DEF Same, Committing
    <3> QED
      BY <3>1, <3>2 DEF CoherentInv
  <2> QED
    BY <2>4, <2>5 DEF CoherentInv
<1>3. ASSUME NEW p \in Procs, Step(p) PROVE CoherentInv'
  <2>1. \A q \in Procs : View(q)'
    BY <1>0, <1>3, ViewOwn, ViewOther
  <2>2. ASSUME NEW b \in Buckets PROVE Committing(b)' \/ Coherent(b)'
    <3>1. CASE Committing(b)
      <4>1. PICK q \in Procs :
              /\ pc[q] \in {"savebucket", "dsput", "install", "dsdelete"}
              /\ req[q].b = b
        BY <3>1 DEF Committing
      <4>2. CASE q = p
        BY <1>3, <4>1, <4>2, CommitStep
      <4>3. CASE q # p
        BY <1>0, <1>3, <4>1, <4>3, SameStep DEF Same, Committing
      <4> QED
        BY <4>2, <4>3
    <3>2. CASE ~Committing(b)
      BY <1>0, <1>3, <3>2, CoherentStep DEF CoherentInv
    <3> QED
      BY <3>1, <3>2
  <2> QED
    BY <2>1, <2>2 DEF CoherentInv
<1>4. CASE Crash
  <2>1. /\ \A b \in Buckets : cache'[b] = Absent
        /\ \A p \in Procs : pc'[p] = "idle"
    BY <1>4 DEF Crash
  <2> QED
    BY <2>1 DEF CoherentInv, Coherent, View
<1> QED
  BY <1>1, <1>2, <1>3, <1>4 DEF Next

-----------------------------------------------------------------------------
(* A Bucket without a map has no objects                                    *)

(* Unmarshal allocates the map when it meets a key. *)
LEMMA UnmarshalMade ==
  ASSUME NEW h
  PROVE  MadeOK(Unmarshal(h))
BY SMTT(20) DEF MadeOK, Unmarshal

LEMMA MadeNew ==
  ASSUME BaseInv, MadeInv, NEW p \in Procs, pc[p] = "install"
  PROVE  MadeOK(Saved(p))
<1>1. CASE req[p].op = "CreateBucket"
  <2> DEFINE x == [name |-> req[p].b, info |-> req[p].info, objs |-> NoObjects,
                   made |-> FALSE]
  <2>1. x.objs = NoObjects
    BY SMTT(20)
  <2>2. Saved(p) = x
    BY <1>1 DEF Saved
  <2> HIDE DEF x
  <2> QED
    BY <2>1, <2>2 DEF MadeOK, NoObjects
<1>2. CASE req[p].op # "CreateBucket"
  <2>1. ent[p] # Nil
    BY <1>2 DEF BaseInv, BusyInv, Saving
  <2>2. ent[p] \in Entries /\ heap[ent[p]] # Nil
    BY <2>1, EntryInUse, Distinct
  <2> QED
    BY <1>2, <2>2 DEF MadeInv, Saved, Bkt
<1> QED
  BY <1>1, <1>2

LEMMA MadeStep ==
  ASSUME BaseInv, MadeInv, NEW p \in Procs, Step(p), NEW e \in Entries, heap'[e] # Nil
  PROVE  MadeOK(heap'[e].bkt)
<1>1. CASE heap[e] = Nil
  <2>1. CASE heap'[e] = [hash |-> bhash[p], bkt |-> Nil]
    <3>1. heap'[e].bkt = Nil
      BY <2>1, SMTT(20)
    <3> QED
      BY <3>1 DEF MadeOK
  <2>2. CASE pc[p] = "install" /\ heap'[e] = [hash |-> bhash[p], bkt |-> Saved(p)]
    <3>1. heap'[e].bkt = Saved(p)
      BY <2>2, SMTT(20)
    <3> QED
      BY <2>2, <3>1, MadeNew
  <2> QED
    BY <1>1, <2>1, <2>2, EntryNew
<1>2. CASE heap[e] # Nil /\ heap'[e] = heap[e]
  BY <1>2 DEF MadeInv
<1>3. CASE heap[e] # Nil /\ InPlace(p, e)
  <2>0. e = ent[p] /\ MadeOK(heap[e].bkt) /\ Bkt(p) = heap[e].bkt
    BY <1>3 DEF InPlace, MadeInv, Bkt
  <2>1. CASE Fetch(p)
    <3>1. UNCHANGED heap \/ heap'[e].bkt = Unmarshal(heap[e].hash)
      BY <2>0, <2>1, FetchEffect
    <3> QED
      BY <2>0, <3>1, UnmarshalMade
  <2>2. CASE PutObjectHash(p)
    <3>1. heap'[e].bkt.made = TRUE
      BY <2>0, <2>2, PutEffect
    <3> QED
      BY <3>1 DEF MadeOK
  <2>3. CASE RemoveObjects(p)
    <3>1. UNCHANGED heap \/ heap'[e].bkt.made
      BY <2>0, <2>3, RemoveEffect
    <3> QED
      BY <2>0, <3>1 DEF MadeOK
  <2> QED
    BY <1>3, <2>1, <2>2, <2>3 DEF InPlace
<1> QED
  BY <1>1, <1>2, <1>3, EntryKept

LEMMA MadeNext ==
  ASSUME BaseInv, MadeInv, [Next]_vars
  PROVE  MadeInv'
<1>1. CASE UNCHANGED vars
  BY <1>1 DEF vars, shared, MadeInv
<1>2. ASSUME NEW p \in Procs, NEW r \in Request, Call(p, r) PROVE MadeInv'
  BY <1>2 DEF Call, shared, MadeInv
<1>3. ASSUME NEW p \in Procs, Step(p) PROVE MadeInv'
  BY <1>3, MadeStep DEF MadeInv
<1>4. CASE Crash
  BY <1>4 DEF Crash, MadeInv
<1> QED
  BY <1>1, <1>2, <1>3, <1>4 DEF Next
=============================================================================
