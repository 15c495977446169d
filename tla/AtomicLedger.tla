---------------------------- MODULE AtomicLedger ----------------------------
(***************************************************************************)
(* What the ledger promises: a store of buckets on which every request     *)
(* takes effect at one instant between its call and its answer, or fails   *)
(* without any effect.  A process crash forgets the requests in progress   *)
(* and keeps the store.                                                    *)
(***************************************************************************)
EXTENDS LedgerTypes

CONSTANT Procs          \* the goroutines that serve requests

VARIABLES
  store,                \* bucket name -> its content, Nil when there is none
  req,                  \* the request each goroutine is serving
  res                   \* its answer, once there is one

vars == <<store, req, res>>

Init ==
  /\ store = [b \in Buckets |-> Nil]
  /\ req = [p \in Procs |-> Nil]
  /\ res = [p \in Procs |-> Nil]

(***************************************************************************)
(* A listing: of the names with the prefix that do not precede startsFrom, *)
(* an initial segment, cut only where it reaches max names.                *)
(***************************************************************************)
Listing(objs, r) ==
  LET matching == {n \in r.prefix : objs[n] # Nil /\ ~(n < r.from)}
  IN  CHOOSE P \in SUBSET matching :
        /\ \A n \in P, m \in matching : m < n => m \in P
        /\ IF r.max > 0 /\ Cardinality(matching) > r.max
           THEN Cardinality(P) = r.max ELSE P = matching

(***************************************************************************)
(* The sequential specification: the answer to r on store s, and the store *)
(* it leaves.                                                              *)
(***************************************************************************)
AnswerTo(s, r) ==
  CASE r.op = "GetBucketNames" -> Ok({b \in Buckets : s[b] # Nil})
    [] r.op = "CreateBucket" ->
         IF s[r.b] = Nil
         THEN Ok([name |-> r.b, info |-> r.info, objs |-> NoObjects])
         ELSE BucketExists
    [] r.op \notin {"CreateBucket", "GetBucketNames"} /\ s[r.b] = Nil ->
         BucketDoesNotExist
    [] OTHER ->
         CASE r.op \in {"DeleteBucket", "AssertBucketExits",
                        "NewMultipartUpload", "PutObject"} -> Ok(Nil)
           [] r.op = "GetBucketInfo" -> Ok(s[r.b].info)
           [] r.op = "GetBucketHash" -> Ok(s[r.b])
           [] r.op \in {"RemoveObject", "RemoveObjects"} ->
                RemoveAnswer(r, {o \in r.names : s[r.b].objs[o] = Nil})
           [] r.op \in {"ObjectInfo", "GetObjectHash"} ->
                IF s[r.b].objs[r.o] = Nil THEN ObjectDoesNotExist
                ELSE Ok(s[r.b].objs[r.o])
           [] r.op = "GetObjectInfos" ->
                Ok({s[r.b].objs[n] : n \in Listing(s[r.b].objs, r)})
           [] r.op = "CopyObject" ->
                IF s[r.src] = Nil THEN BucketDoesNotExist
                ELSE IF s[r.src].objs[r.so] = Nil THEN ObjectDoesNotExist
                ELSE Ok([bucket |-> r.b, name |-> r.o,
                         data |-> s[r.src].objs[r.so].data])

StoreAfter(s, r) ==
  LET a == AnswerTo(s, r)
  IN  CASE r.op = "CreateBucket" /\ a.err = "nil" -> [s EXCEPT ![r.b] = a.val]
        [] r.op = "DeleteBucket" /\ a.err = "nil" -> [s EXCEPT ![r.b] = Nil]
        [] r.op = "PutObject" /\ a.err = "nil" ->
             [s EXCEPT ![r.b].objs[r.o] =
                [bucket |-> r.b, name |-> r.o, data |-> r.data]]
        [] r.op = "CopyObject" /\ a.err = "nil" ->
             [s EXCEPT ![r.b].objs[r.o] = a.val]
        [] r.op \in {"RemoveObject", "RemoveObjects"} /\ s[r.b] # Nil ->
             [s EXCEPT ![r.b].objs =
                [o \in Objects |-> IF o \in r.names THEN Nil ELSE @[o]]]
        [] OTHER -> s

-----------------------------------------------------------------------------
Call(p, r) ==
  /\ req[p] = Nil
  /\ req' = [req EXCEPT ![p] = r]
  /\ UNCHANGED <<store, res>>

Serve(p) ==
  /\ req[p] # Nil /\ res[p] = Nil
  /\ res' = [res EXCEPT ![p] = AnswerTo(store, req[p])]
  /\ store' = StoreAfter(store, req[p])
  /\ UNCHANGED req

Fail(p) ==
  /\ req[p] # Nil /\ res[p] = Nil
  /\ res' = [res EXCEPT ![p] = Backend]
  /\ UNCHANGED <<store, req>>

Answer(p) ==
  /\ res[p] # Nil
  /\ req' = [req EXCEPT ![p] = Nil]
  /\ res' = [res EXCEPT ![p] = Nil]
  /\ UNCHANGED store

Crash ==
  /\ req' = [p \in Procs |-> Nil]
  /\ res' = [p \in Procs |-> Nil]
  /\ UNCHANGED store

Next ==
  \/ \E p \in Procs : \E r \in Request : Call(p, r)
  \/ \E p \in Procs : Serve(p) \/ Fail(p) \/ Answer(p)
  \/ Crash

Spec == Init /\ [][Next]_vars
=============================================================================
