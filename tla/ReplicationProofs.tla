------------------------- MODULE ReplicationProofs -------------------------
(***************************************************************************)
(* The safety of the CRDT adapters for any number of replicas, writers,    *)
(* nodes and faults.                                                       *)
(***************************************************************************)
EXTENDS Replication, TLAPS

USE SMTT(20), Zenon

-----------------------------------------------------------------------------
(* The inductive invariant. *)

TypeInv ==
  /\ dag \subseteq Blocks
  /\ net \in [Replicas -> SUBSET Blocks] /\ resp \in [Replicas -> SUBSET Blocks]
  /\ marks \in [Replicas -> SUBSET Blocks] /\ merged \in [Replicas -> SUBSET Blocks]
  /\ life \in [Replicas -> {"off", "stream", "crdt", "up", "cancelled", "wait"}]
  /\ open \in [Replicas -> BOOLEAN] /\ ctx \in [Replicas -> BOOLEAN]
  /\ reader \in [Replicas -> {"none", "next", "ended"}]
  /\ put \in [Replicas -> {"idle", "add", "mark", "merge", "send"}]
  /\ blk \in [Replicas -> Blocks \cup {Nil}]
  /\ job \in [Replicas -> [Blocks -> {Nil, "get", "set", "merge"}]]

(* A mark is set only for a node that the DAG service has, and a node is   *)
(* merged only after its mark is set, by a fetch or by an update.          *)
Ordered(r) ==
  /\ merged[r] \subseteq marks[r] /\ marks[r] \subseteq dag
  /\ \A c \in Blocks : job[r][c] \in {"set", "merge"} => c \in dag
  /\ \A c \in Blocks : job[r][c] = "merge" => c \in marks[r]
  /\ put[r] # "idle" => blk[r] \in Blocks
  /\ put[r] \in {"mark", "merge", "send"} => blk[r] \in dag
  /\ put[r] \in {"merge", "send"} => blk[r] \in marks[r]

(* What may exist at each step of opening and closing. *)
Lifecycle(r) ==
  /\ life[r] \in {"off", "stream", "crdt"} =>
       reader[r] = "none" /\ put[r] = "idle" /\ \A c \in Blocks : job[r][c] = Nil
  /\ life[r] \in {"off", "wait"} => ~open[r]
  /\ life[r] \in {"off", "cancelled", "wait"} => ~ctx[r]

Unharmed == happened \cap {"close", "crash", "badger"} = {}

Processed(r, c) ==
  c \in merged[r] \/ job[r][c] = "merge" \/ (put[r] = "merge" /\ blk[r] = c)

(* Until the process ends or badger fails, badger is open and every mark   *)
(* is followed by its merge.                                               *)
Working(r) ==
  Unharmed => /\ life[r] \notin {"cancelled", "wait"}
              /\ life[r] # "off" => open[r]
              /\ \A c \in marks[r] : Processed(r, c)

Inv == TypeInv /\ \A r \in Replicas : Ordered(r) /\ Lifecycle(r) /\ Working(r)

-----------------------------------------------------------------------------
(* A step of one replica leaves the others' invariant alone. *)
Still(q) ==
  /\ marks'[q] = marks[q] /\ merged'[q] = merged[q] /\ life'[q] = life[q]
  /\ open'[q] = open[q] /\ ctx'[q] = ctx[q] /\ reader'[q] = reader[q]
  /\ put'[q] = put[q] /\ blk'[q] = blk[q] /\ job'[q] = job[q]

LEMMA OneReplica ==
  ASSUME Inv, TypeInv', NEW r \in Replicas, \A q \in Replicas \ {r} : Still(q),
         dag \subseteq dag', happened \subseteq happened',
         Ordered(r)', Lifecycle(r)', Working(r)'
  PROVE  Inv'
<1>1. ASSUME NEW q \in Replicas \ {r}
      PROVE  Ordered(q)' /\ Lifecycle(q)' /\ Working(q)'
  <2>1. Ordered(q) /\ Lifecycle(q) /\ Working(q) /\ Still(q)
    BY DEF Inv
  <2>2. Ordered(q)'
    BY <2>1 DEF Ordered, Still
  <2>3. Lifecycle(q)'
    BY <2>1 DEF Lifecycle, Still
  <2>4. Working(q)'
    BY <2>1 DEF Working, Unharmed, Processed, Still
  <2>. QED
    BY <2>2, <2>3, <2>4
<1>. QED
  BY <1>1 DEF Inv

-----------------------------------------------------------------------------
(* One lemma for each action. *)

LEMMA OpenStoreStep ==
  ASSUME Inv, NEW r \in Replicas, OpenStore(r)
  PROVE  Inv'
<1>1. TypeInv /\ Ordered(r) /\ Lifecycle(r) /\ Working(r)
  BY DEF Inv
<1>2. TypeInv'
  BY <1>1 DEF TypeInv, OpenStore, Goto, bc, upd
<1>3. \A q \in Replicas \ {r} : Still(q)
  BY <1>1 DEF TypeInv, Still, OpenStore, Goto, bc, upd
<1>4. dag \subseteq dag' /\ happened \subseteq happened'
  BY DEF OpenStore
<1>5. Ordered(r)'
  BY <1>1 DEF TypeInv, Ordered, OpenStore, Goto, bc, upd
<1>6. Lifecycle(r)'
  BY <1>1 DEF TypeInv, Lifecycle, OpenStore, Goto, bc, upd
<1>7. Working(r)'
  BY <1>1 DEF TypeInv, Ordered, Lifecycle, Working, Unharmed, Processed,
     OpenStore, Goto, bc, upd
<1>. QED
  BY <1>2, <1>3, <1>4, <1>5, <1>6, <1>7, OneReplica

LEMMA OpenStreamStep ==
  ASSUME Inv, NEW r \in Replicas, OpenStream(r)
  PROVE  Inv'
<1>1. TypeInv /\ Ordered(r) /\ Lifecycle(r) /\ Working(r)
  BY DEF Inv
<1>2. TypeInv'
  BY <1>1 DEF TypeInv, OpenStream, Goto, upd
<1>3. \A q \in Replicas \ {r} : Still(q)
  BY <1>1 DEF TypeInv, Still, OpenStream, Goto, upd
<1>4. dag \subseteq dag' /\ happened \subseteq happened'
  BY DEF OpenStream
<1>5. Ordered(r)'
  BY <1>1 DEF TypeInv, Ordered, OpenStream, Goto, upd
<1>6. Lifecycle(r)'
  BY <1>1 DEF TypeInv, Lifecycle, OpenStream, Goto, upd
<1>7. Working(r)'
  BY <1>1 DEF TypeInv, Ordered, Lifecycle, Working, Unharmed, Processed,
     OpenStream, Goto, upd
<1>. QED
  BY <1>2, <1>3, <1>4, <1>5, <1>6, <1>7, OneReplica

LEMMA OpenCrdtStep ==
  ASSUME Inv, NEW r \in Replicas, OpenCrdt(r)
  PROVE  Inv'
<1>1. TypeInv /\ Ordered(r) /\ Lifecycle(r) /\ Working(r)
  BY DEF Inv
<1>2. TypeInv'
  BY <1>1 DEF TypeInv, OpenCrdt, Goto, upd
<1>3. \A q \in Replicas \ {r} : Still(q)
  BY <1>1 DEF TypeInv, Still, OpenCrdt, Goto, upd
<1>4. dag \subseteq dag' /\ happened \subseteq happened'
  BY DEF OpenCrdt
<1>5. Ordered(r)'
  BY <1>1 DEF TypeInv, Ordered, OpenCrdt, Goto, upd
<1>6. Lifecycle(r)'
  BY <1>1 DEF TypeInv, Lifecycle, OpenCrdt, Goto, upd
<1>7. Working(r)'
  BY <1>1 DEF TypeInv, Ordered, Lifecycle, Working, Unharmed, Processed, OpenCrdt,
     Goto, upd
<1>. QED
  BY <1>2, <1>3, <1>4, <1>5, <1>6, <1>7, OneReplica

LEMMA OpenFailsStep ==
  ASSUME Inv, NEW r \in Replicas, OpenFails(r)
  PROVE  Inv'
<1>1. TypeInv /\ Ordered(r) /\ Lifecycle(r) /\ Working(r)
  BY DEF Inv
<1>2. TypeInv'
  BY <1>1 DEF TypeInv, OpenFails, Goto, Volatile, Fault
<1>3. \A q \in Replicas \ {r} : Still(q)
  BY <1>1 DEF TypeInv, Still, OpenFails, Goto, Volatile, Fault
<1>4. dag \subseteq dag' /\ happened \subseteq happened'
  BY DEF OpenFails, Fault
<1>5. Ordered(r)'
  BY <1>1, NilIsNew DEF TypeInv, Ordered, OpenFails, Goto, Volatile, Fault
<1>6. Lifecycle(r)'
  BY <1>1, NilIsNew DEF TypeInv, Lifecycle, OpenFails, Goto, Volatile, Fault
<1>7. Working(r)'
  BY <1>1, NilIsNew DEF TypeInv, Ordered, Lifecycle, Working, Unharmed, Processed,
     OpenFails, Goto, Volatile, Fault
<1>. QED
  BY <1>2, <1>3, <1>4, <1>5, <1>6, <1>7, OneReplica

LEMMA CancelStep ==
  ASSUME Inv, NEW r \in Replicas, Cancel(r)
  PROVE  Inv'
<1>1. TypeInv /\ Ordered(r) /\ Lifecycle(r) /\ Working(r)
  BY DEF Inv
<1>2. TypeInv'
  BY <1>1 DEF TypeInv, Cancel, Goto, Fault, bc, upd
<1>3. \A q \in Replicas \ {r} : Still(q)
  BY <1>1 DEF TypeInv, Still, Cancel, Goto, Fault, bc, upd
<1>4. dag \subseteq dag' /\ happened \subseteq happened'
  BY DEF Cancel, Fault
<1>5. Ordered(r)'
  BY <1>1 DEF TypeInv, Ordered, Cancel, Goto, Fault, bc, upd
<1>6. Lifecycle(r)'
  BY <1>1 DEF TypeInv, Lifecycle, Cancel, Goto, Fault, bc, upd
<1>7. Working(r)'
  BY <1>1 DEF TypeInv, Ordered, Lifecycle, Working, Unharmed, Processed, Cancel,
     Goto, Fault, bc, upd
<1>. QED
  BY <1>2, <1>3, <1>4, <1>5, <1>6, <1>7, OneReplica

LEMMA CloseStoreStep ==
  ASSUME Inv, NEW r \in Replicas, CloseStore(r)
  PROVE  Inv'
<1>1. TypeInv /\ Ordered(r) /\ Lifecycle(r) /\ Working(r)
  BY DEF Inv
<1>2. TypeInv'
  BY <1>1 DEF TypeInv, CloseStore, Goto, bc, upd
<1>3. \A q \in Replicas \ {r} : Still(q)
  BY <1>1 DEF TypeInv, Still, CloseStore, Goto, bc, upd
<1>4. dag \subseteq dag' /\ happened \subseteq happened'
  BY DEF CloseStore
<1>5. Ordered(r)'
  BY <1>1 DEF TypeInv, Ordered, CloseStore, Goto, bc, upd
<1>6. Lifecycle(r)'
  BY <1>1 DEF TypeInv, Lifecycle, CloseStore, Goto, bc, upd
<1>7. Working(r)'
  BY <1>1 DEF TypeInv, Ordered, Lifecycle, Working, Unharmed, Processed,
     CloseStore, Goto, bc, upd
<1>. QED
  BY <1>2, <1>3, <1>4, <1>5, <1>6, <1>7, OneReplica

LEMMA CloseCrdtStep ==
  ASSUME Inv, NEW r \in Replicas, CloseCrdt(r)
  PROVE  Inv'
<1>1. TypeInv /\ Ordered(r) /\ Lifecycle(r) /\ Working(r)
  BY DEF Inv
<1>2. TypeInv'
  BY <1>1 DEF TypeInv, CloseCrdt, Goto, Volatile
<1>3. \A q \in Replicas \ {r} : Still(q)
  BY <1>1 DEF TypeInv, Still, CloseCrdt, Goto, Volatile
<1>4. dag \subseteq dag' /\ happened \subseteq happened'
  BY DEF CloseCrdt
<1>5. Ordered(r)'
  BY <1>1, NilIsNew DEF TypeInv, Ordered, CloseCrdt, Goto, Volatile
<1>6. Lifecycle(r)'
  BY <1>1, NilIsNew DEF TypeInv, Lifecycle, CloseCrdt, Goto, Volatile
<1>7. Working(r)'
  BY <1>1, NilIsNew DEF TypeInv, Ordered, Lifecycle, Working, Unharmed, Processed,
     CloseCrdt, Goto, Volatile
<1>. QED
  BY <1>2, <1>3, <1>4, <1>5, <1>6, <1>7, OneReplica

LEMMA CrashStep ==
  ASSUME Inv, NEW r \in Replicas, Crash(r)
  PROVE  Inv'
<1>1. TypeInv /\ Ordered(r) /\ Lifecycle(r) /\ Working(r)
  BY DEF Inv
<1>2. TypeInv'
  BY <1>1 DEF TypeInv, Crash, Goto, Volatile, Fault
<1>3. \A q \in Replicas \ {r} : Still(q)
  BY <1>1 DEF TypeInv, Still, Crash, Goto, Volatile, Fault
<1>4. dag \subseteq dag' /\ happened \subseteq happened'
  BY DEF Crash, Fault
<1>5. Ordered(r)'
  BY <1>1, NilIsNew DEF TypeInv, Ordered, Crash, Goto, Volatile, Fault
<1>6. Lifecycle(r)'
  BY <1>1, NilIsNew DEF TypeInv, Lifecycle, Crash, Goto, Volatile, Fault
<1>7. Working(r)'
  BY <1>1, NilIsNew DEF TypeInv, Ordered, Lifecycle, Working, Unharmed, Processed,
     Crash, Goto, Volatile, Fault
<1>. QED
  BY <1>2, <1>3, <1>4, <1>5, <1>6, <1>7, OneReplica

LEMMA RecvStep ==
  ASSUME Inv, NEW r \in Replicas, NEW ms \in SUBSET net[r], Recv(r, ms)
  PROVE  Inv'
<1>1. TypeInv /\ Ordered(r) /\ Lifecycle(r) /\ Working(r)
  BY DEF Inv
<1>2. TypeInv'
  BY <1>1 DEF TypeInv, Recv, proc, upd
<1>3. \A q \in Replicas \ {r} : Still(q)
  BY <1>1 DEF TypeInv, Still, Recv, proc, upd
<1>4. dag \subseteq dag' /\ happened \subseteq happened'
  BY DEF Recv
<1>5. Ordered(r)'
  BY <1>1 DEF TypeInv, Ordered, Recv, proc, upd
<1>6. Lifecycle(r)'
  BY <1>1 DEF TypeInv, Lifecycle, Recv, proc, upd
<1>7. Working(r)'
  BY <1>1 DEF TypeInv, Ordered, Lifecycle, Working, Unharmed, Processed, Recv,
     proc, upd
<1>. QED
  BY <1>2, <1>3, <1>4, <1>5, <1>6, <1>7, OneReplica

LEMMA RecvFailsStep ==
  ASSUME Inv, NEW r \in Replicas, RecvFails(r)
  PROVE  Inv'
<1>1. TypeInv /\ Ordered(r) /\ Lifecycle(r) /\ Working(r)
  BY DEF Inv
<1>2. TypeInv'
  BY <1>1 DEF TypeInv, RecvFails, Fault, proc, upd
<1>3. \A q \in Replicas \ {r} : Still(q)
  BY <1>1 DEF TypeInv, Still, RecvFails, Fault, proc, upd
<1>4. dag \subseteq dag' /\ happened \subseteq happened'
  BY DEF RecvFails, Fault
<1>5. Ordered(r)'
  BY <1>1 DEF TypeInv, Ordered, RecvFails, Fault, proc, upd
<1>6. Lifecycle(r)'
  BY <1>1 DEF TypeInv, Lifecycle, RecvFails, Fault, proc, upd
<1>7. Working(r)'
  BY <1>1 DEF TypeInv, Ordered, Lifecycle, Working, Unharmed, Processed,
     RecvFails, Fault, proc, upd
<1>. QED
  BY <1>2, <1>3, <1>4, <1>5, <1>6, <1>7, OneReplica

LEMMA NextMessageStep ==
  ASSUME Inv, NEW r \in Replicas, NextMessage(r)
  PROVE  Inv'
<1>1. TypeInv /\ Ordered(r) /\ Lifecycle(r) /\ Working(r)
  BY DEF Inv
<1>2. TypeInv'
  BY <1>1 DEF TypeInv, NextMessage, HasBlock, proc, upd
<1>3. \A q \in Replicas \ {r} : Still(q)
  BY <1>1 DEF TypeInv, Still, NextMessage, HasBlock, proc, upd
<1>4. dag \subseteq dag' /\ happened \subseteq happened'
  BY DEF NextMessage
<1>5. Ordered(r)'
  BY <1>1, NilIsNew DEF TypeInv, Ordered, NextMessage, HasBlock, proc, upd
<1>6. Lifecycle(r)'
  BY <1>1, NilIsNew DEF TypeInv, Lifecycle, NextMessage, HasBlock, proc, upd
<1>7. Working(r)'
  BY <1>1, NilIsNew DEF TypeInv, Ordered, Lifecycle, Working, Unharmed, Processed,
     NextMessage, HasBlock, proc, upd
<1>. QED
  BY <1>2, <1>3, <1>4, <1>5, <1>6, <1>7, OneReplica

LEMMA NextFailsStep ==
  ASSUME Inv, NEW r \in Replicas, NextFails(r)
  PROVE  Inv'
<1>1. TypeInv /\ Ordered(r) /\ Lifecycle(r) /\ Working(r)
  BY DEF Inv
<1>2. TypeInv'
  BY <1>1 DEF TypeInv, NextFails, proc, upd
<1>3. \A q \in Replicas \ {r} : Still(q)
  BY <1>1 DEF TypeInv, Still, NextFails, proc, upd
<1>4. dag \subseteq dag' /\ happened \subseteq happened'
  BY DEF NextFails
<1>5. Ordered(r)'
  BY <1>1 DEF TypeInv, Ordered, NextFails, proc, upd
<1>6. Lifecycle(r)'
  BY <1>1 DEF TypeInv, Lifecycle, NextFails, proc, upd
<1>7. Working(r)'
  BY <1>1 DEF TypeInv, Ordered, Lifecycle, Working, Unharmed, Processed,
     NextFails, proc, upd
<1>. QED
  BY <1>2, <1>3, <1>4, <1>5, <1>6, <1>7, OneReplica

LEMMA GetStep ==
  ASSUME Inv, NEW r \in Replicas, NEW c \in Blocks, Get(r, c)
  PROVE  Inv'
<1>1. TypeInv /\ Ordered(r) /\ Lifecycle(r) /\ Working(r)
  BY DEF Inv
<1>2. TypeInv'
  BY <1>1 DEF TypeInv, Get, Job, proc, bc, upd
<1>3. \A q \in Replicas \ {r} : Still(q)
  BY <1>1 DEF TypeInv, Still, Get, Job, proc, bc, upd
<1>4. dag \subseteq dag' /\ happened \subseteq happened'
  BY DEF Get
<1>5. Ordered(r)'
  BY <1>1, NilIsNew DEF TypeInv, Ordered, Get, Job, proc, bc, upd
<1>6. Lifecycle(r)'
  BY <1>1, NilIsNew DEF TypeInv, Lifecycle, Get, Job, proc, bc, upd
<1>7. Working(r)'
  BY <1>1, NilIsNew DEF TypeInv, Ordered, Lifecycle, Working, Unharmed, Processed,
     Get, Job, proc, bc, upd
<1>. QED
  BY <1>2, <1>3, <1>4, <1>5, <1>6, <1>7, OneReplica

LEMMA GetFailsStep ==
  ASSUME Inv, NEW r \in Replicas, NEW c \in Blocks, GetFails(r, c)
  PROVE  Inv'
<1>1. TypeInv /\ Ordered(r) /\ Lifecycle(r) /\ Working(r)
  BY DEF Inv
<1>2. TypeInv'
  BY <1>1 DEF TypeInv, GetFails, Job, Fault, proc, bc, upd
<1>3. \A q \in Replicas \ {r} : Still(q)
  BY <1>1 DEF TypeInv, Still, GetFails, Job, Fault, proc, bc, upd
<1>4. dag \subseteq dag' /\ happened \subseteq happened'
  BY DEF GetFails, Fault
<1>5. Ordered(r)'
  BY <1>1, NilIsNew DEF TypeInv, Ordered, GetFails, Job, Fault, proc, bc, upd
<1>6. Lifecycle(r)'
  BY <1>1, NilIsNew DEF TypeInv, Lifecycle, GetFails, Job, Fault, proc, bc, upd
<1>7. Working(r)'
  BY <1>1, NilIsNew DEF TypeInv, Ordered, Lifecycle, Working, Unharmed, Processed,
     GetFails, Job, Fault, proc, bc, upd
<1>. QED
  BY <1>2, <1>3, <1>4, <1>5, <1>6, <1>7, OneReplica

LEMMA SetBlockStep ==
  ASSUME Inv, NEW r \in Replicas, NEW c \in Blocks, SetBlock(r, c)
  PROVE  Inv'
<1>1. TypeInv /\ Ordered(r) /\ Lifecycle(r) /\ Working(r)
  BY DEF Inv
<1>2. TypeInv'
  BY <1>1 DEF TypeInv, SetBlock, Job, proc, bc, upd
<1>3. \A q \in Replicas \ {r} : Still(q)
  BY <1>1 DEF TypeInv, Still, SetBlock, Job, proc, bc, upd
<1>4. dag \subseteq dag' /\ happened \subseteq happened'
  BY DEF SetBlock
<1>5. Ordered(r)'
  BY <1>1, NilIsNew DEF TypeInv, Ordered, SetBlock, Job, proc, bc, upd
<1>6. Lifecycle(r)'
  BY <1>1, NilIsNew DEF TypeInv, Lifecycle, SetBlock, Job, proc, bc, upd
<1>7. Working(r)'
  BY <1>1, NilIsNew DEF TypeInv, Ordered, Lifecycle, Working, Unharmed, Processed,
     SetBlock, Job, proc, bc, upd
<1>. QED
  BY <1>2, <1>3, <1>4, <1>5, <1>6, <1>7, OneReplica

LEMMA MergeStep ==
  ASSUME Inv, NEW r \in Replicas, NEW c \in Blocks, Merge(r, c)
  PROVE  Inv'
<1>1. TypeInv /\ Ordered(r) /\ Lifecycle(r) /\ Working(r)
  BY DEF Inv
<1>2. TypeInv'
  BY <1>1 DEF TypeInv, Merge, HasBlock, proc, bc, upd
<1>3. \A q \in Replicas \ {r} : Still(q)
  BY <1>1 DEF TypeInv, Still, Merge, HasBlock, proc, bc, upd
<1>4. dag \subseteq dag' /\ happened \subseteq happened'
  BY DEF Merge
<1>5. Ordered(r)'
  BY <1>1, NilIsNew DEF TypeInv, Ordered, Merge, HasBlock, proc, bc, upd
<1>6. Lifecycle(r)'
  BY <1>1, NilIsNew DEF TypeInv, Lifecycle, Merge, HasBlock, proc, bc, upd
<1>7. Working(r)'
  BY <1>1, NilIsNew DEF TypeInv, Ordered, Lifecycle, Working, Unharmed, Processed,
     Merge, HasBlock, proc, bc, upd
<1>. QED
  BY <1>2, <1>3, <1>4, <1>5, <1>6, <1>7, OneReplica

LEMMA StoreFailsStep ==
  ASSUME Inv, NEW r \in Replicas, NEW c \in Blocks, StoreFails(r, c)
  PROVE  Inv'
<1>1. TypeInv /\ Ordered(r) /\ Lifecycle(r) /\ Working(r)
  BY DEF Inv
<1>2. TypeInv'
  BY <1>1 DEF TypeInv, StoreFails, Job, Fault, proc, bc, upd
<1>3. \A q \in Replicas \ {r} : Still(q)
  BY <1>1 DEF TypeInv, Still, StoreFails, Job, Fault, proc, bc, upd
<1>4. dag \subseteq dag' /\ happened \subseteq happened'
  BY DEF StoreFails, Fault
<1>5. Ordered(r)'
  BY <1>1, NilIsNew DEF TypeInv, Ordered, StoreFails, Job, Fault, proc, bc, upd
<1>6. Lifecycle(r)'
  BY <1>1, NilIsNew DEF TypeInv, Lifecycle, StoreFails, Job, Fault, proc, bc, upd
<1>7. Working(r)'
  BY <1>1, NilIsNew DEF TypeInv, Ordered, Lifecycle, Working, Unharmed, Processed,
     StoreFails, Job, Fault, proc, bc, upd
<1>. QED
  BY <1>2, <1>3, <1>4, <1>5, <1>6, <1>7, OneReplica

LEMMA UpdateStep ==
  ASSUME Inv, NEW r \in Replicas, NEW c \in Blocks, Update(r, c)
  PROVE  Inv'
<1>1. TypeInv /\ Ordered(r) /\ Lifecycle(r) /\ Working(r)
  BY DEF Inv
<1>2. TypeInv'
  BY <1>1 DEF TypeInv, Update, Put, proc, bc
<1>3. \A q \in Replicas \ {r} : Still(q)
  BY <1>1 DEF TypeInv, Still, Update, Put, proc, bc
<1>4. dag \subseteq dag' /\ happened \subseteq happened'
  BY DEF Update
<1>5. Ordered(r)'
  BY <1>1 DEF TypeInv, Ordered, Update, Put, proc, bc
<1>6. Lifecycle(r)'
  BY <1>1 DEF TypeInv, Lifecycle, Update, Put, proc, bc
<1>7. Working(r)'
  BY <1>1 DEF TypeInv, Ordered, Lifecycle, Working, Unharmed, Processed, Update,
     Put, proc, bc
<1>. QED
  BY <1>2, <1>3, <1>4, <1>5, <1>6, <1>7, OneReplica

LEMMA AddManyStep ==
  ASSUME Inv, NEW r \in Replicas, AddMany(r)
  PROVE  Inv'
<1>1. TypeInv /\ Ordered(r) /\ Lifecycle(r) /\ Working(r)
  BY DEF Inv
<1>2. TypeInv'
  BY <1>1 DEF TypeInv, Ordered, AddMany, Put, proc, bc
<1>3. \A q \in Replicas \ {r} : Still(q)
  BY <1>1 DEF TypeInv, Still, AddMany, Put, proc, bc
<1>4. dag \subseteq dag' /\ happened \subseteq happened'
  BY DEF AddMany
<1>5. Ordered(r)'
  BY <1>1 DEF TypeInv, Ordered, AddMany, Put, proc, bc
<1>6. Lifecycle(r)'
  BY <1>1 DEF TypeInv, Lifecycle, AddMany, Put, proc, bc
<1>7. Working(r)'
  BY <1>1 DEF TypeInv, Ordered, Lifecycle, Working, Unharmed, Processed, AddMany,
     Put, proc, bc
<1>. QED
  BY <1>2, <1>3, <1>4, <1>5, <1>6, <1>7, OneReplica

LEMMA SetOwnBlockStep ==
  ASSUME Inv, NEW r \in Replicas, SetOwnBlock(r)
  PROVE  Inv'
<1>1. TypeInv /\ Ordered(r) /\ Lifecycle(r) /\ Working(r)
  BY DEF Inv
<1>2. TypeInv'
  BY <1>1 DEF TypeInv, Ordered, SetOwnBlock, Put, proc, bc
<1>3. \A q \in Replicas \ {r} : Still(q)
  BY <1>1 DEF TypeInv, Still, SetOwnBlock, Put, proc, bc
<1>4. dag \subseteq dag' /\ happened \subseteq happened'
  BY DEF SetOwnBlock
<1>5. Ordered(r)'
  BY <1>1 DEF TypeInv, Ordered, SetOwnBlock, Put, proc, bc
<1>6. Lifecycle(r)'
  BY <1>1 DEF TypeInv, Lifecycle, SetOwnBlock, Put, proc, bc
<1>7. Working(r)'
  BY <1>1 DEF TypeInv, Ordered, Lifecycle, Working, Unharmed, Processed,
     SetOwnBlock, Put, proc, bc
<1>. QED
  BY <1>2, <1>3, <1>4, <1>5, <1>6, <1>7, OneReplica

LEMMA MergeOwnStep ==
  ASSUME Inv, NEW r \in Replicas, MergeOwn(r)
  PROVE  Inv'
<1>1. TypeInv /\ Ordered(r) /\ Lifecycle(r) /\ Working(r)
  BY DEF Inv
<1>2. TypeInv'
  BY <1>1 DEF TypeInv, Ordered, MergeOwn, Put, proc, bc
<1>3. \A q \in Replicas \ {r} : Still(q)
  BY <1>1 DEF TypeInv, Still, MergeOwn, Put, proc, bc
<1>4. dag \subseteq dag' /\ happened \subseteq happened'
  BY DEF MergeOwn
<1>5. Ordered(r)'
  BY <1>1 DEF TypeInv, Ordered, MergeOwn, Put, proc, bc
<1>6. Lifecycle(r)'
  BY <1>1 DEF TypeInv, Lifecycle, MergeOwn, Put, proc, bc
<1>7. Working(r)'
  BY <1>1 DEF TypeInv, Ordered, Lifecycle, Working, Unharmed, Processed, MergeOwn,
     Put, proc, bc
<1>. QED
  BY <1>2, <1>3, <1>4, <1>5, <1>6, <1>7, OneReplica

LEMMA BroadcastStep ==
  ASSUME Inv, NEW r \in Replicas, Broadcast(r)
  PROVE  Inv'
<1>1. TypeInv /\ Ordered(r) /\ Lifecycle(r) /\ Working(r)
  BY DEF Inv
<1>2. TypeInv'
  BY <1>1 DEF TypeInv, Ordered, Broadcast, Put, Sent, Others, proc, bc
<1>3. \A q \in Replicas \ {r} : Still(q)
  BY <1>1 DEF TypeInv, Still, Broadcast, Put, Sent, Others, proc, bc
<1>4. dag \subseteq dag' /\ happened \subseteq happened'
  BY DEF Broadcast
<1>5. Ordered(r)'
  BY <1>1 DEF TypeInv, Ordered, Broadcast, Put, Sent, Others, proc, bc
<1>6. Lifecycle(r)'
  BY <1>1 DEF TypeInv, Lifecycle, Broadcast, Put, Sent, Others, proc, bc
<1>7. Working(r)'
  BY <1>1 DEF TypeInv, Ordered, Lifecycle, Working, Unharmed, Processed,
     Broadcast, Put, Sent, Others, proc, bc
<1>. QED
  BY <1>2, <1>3, <1>4, <1>5, <1>6, <1>7, OneReplica

LEMMA UpdateFailsStep ==
  ASSUME Inv, NEW r \in Replicas, UpdateFails(r)
  PROVE  Inv'
<1>1. TypeInv /\ Ordered(r) /\ Lifecycle(r) /\ Working(r)
  BY DEF Inv
<1>2. TypeInv'
  BY <1>1 DEF TypeInv, UpdateFails, Put, Fault, proc, bc
<1>3. \A q \in Replicas \ {r} : Still(q)
  BY <1>1 DEF TypeInv, Still, UpdateFails, Put, Fault, proc, bc
<1>4. dag \subseteq dag' /\ happened \subseteq happened'
  BY DEF UpdateFails, Fault
<1>5. Ordered(r)'
  BY <1>1 DEF TypeInv, Ordered, UpdateFails, Put, Fault, proc, bc
<1>6. Lifecycle(r)'
  BY <1>1 DEF TypeInv, Lifecycle, UpdateFails, Put, Fault, proc, bc
<1>7. Working(r)'
  BY <1>1 DEF TypeInv, Ordered, Lifecycle, Working, Unharmed, Processed,
     UpdateFails, Put, Fault, proc, bc
<1>. QED
  BY <1>2, <1>3, <1>4, <1>5, <1>6, <1>7, OneReplica

LEMMA RebroadcastStep ==
  ASSUME Inv, NEW r \in Replicas, NEW to \in SUBSET Others(r), Rebroadcast(r, to)
  PROVE  Inv'
<1>1. TypeInv /\ Ordered(r) /\ Lifecycle(r) /\ Working(r)
  BY DEF Inv
<1>2. TypeInv'
  BY <1>1 DEF TypeInv, Rebroadcast, Sent, Heads, proc, bc, upd
<1>3. \A q \in Replicas \ {r} : Still(q)
  BY <1>1 DEF TypeInv, Still, Rebroadcast, Sent, Heads, proc, bc, upd
<1>4. dag \subseteq dag' /\ happened \subseteq happened'
  BY DEF Rebroadcast
<1>5. Ordered(r)'
  BY <1>1 DEF TypeInv, Ordered, Rebroadcast, Sent, Heads, proc, bc, upd
<1>6. Lifecycle(r)'
  BY <1>1 DEF TypeInv, Lifecycle, Rebroadcast, Sent, Heads, proc, bc, upd
<1>7. Working(r)'
  BY <1>1 DEF TypeInv, Ordered, Lifecycle, Working, Unharmed, Processed,
     Rebroadcast, Sent, Heads, proc, bc, upd
<1>. QED
  BY <1>2, <1>3, <1>4, <1>5, <1>6, <1>7, OneReplica

-----------------------------------------------------------------------------
LEMMA Inductive ==
  ASSUME Inv, [Next]_vars
  PROVE  Inv'
<1>1. ASSUME NEW r \in Replicas, Opening(r) \/ Closing(r) \/ Reading(r) \/ RecvFails(r)
      PROVE  Inv'
  BY <1>1, OpenStoreStep, OpenStreamStep, OpenCrdtStep, CloseStoreStep, CloseCrdtStep,
     NextMessageStep, NextFailsStep, RecvFailsStep DEF Opening, Closing, Reading
<1>2. ASSUME NEW r \in Replicas, Updating(r) \/ UpdateFails(r)
      PROVE  Inv'
  BY <1>2, AddManyStep, SetOwnBlockStep, MergeOwnStep, BroadcastStep, UpdateFailsStep
  DEF Updating
<1>3. ASSUME NEW r \in Replicas, OpenFails(r) \/ Cancel(r) \/ Crash(r)
      PROVE  Inv'
  BY <1>3, OpenFailsStep, CancelStep, CrashStep
<1>4. ASSUME NEW r \in Replicas, NEW c \in Blocks,
             Fetching(r, c) \/ GetFails(r, c) \/ StoreFails(r, c) \/ Update(r, c)
      PROVE  Inv'
  BY <1>4, GetStep, SetBlockStep, MergeStep, StoreFailsStep, GetFailsStep, UpdateStep
  DEF Fetching
<1>5. ASSUME NEW r \in Replicas, \/ \E ms \in SUBSET net[r] : Recv(r, ms)
                                 \/ \E to \in SUBSET Others(r) : Rebroadcast(r, to)
      PROVE  Inv'
  BY <1>5, RecvStep, RebroadcastStep
<1>6. CASE UNCHANGED vars
  BY <1>6 DEF Inv, TypeInv, Ordered, Lifecycle, Working, Unharmed, Processed,
     vars, proc, bc, upd
<1>. QED
  BY <1>1, <1>2, <1>3, <1>4, <1>5, <1>6 DEF Next

LEMMA Initial == Init => Inv
BY NilIsNew DEF Init, Inv, TypeInv, Ordered, Lifecycle, Working, Unharmed, Processed

LEMMA Invariant == Spec => []Inv
BY Initial, Inductive, PTL DEF Spec

(* HasBlock's marks lie between the nodes that are merged and those that   *)
(* the DAG service has, through every failure, shutdown and crash.         *)
THEOREM MarksStayBetween == Spec => []MarksAreBetween
<1>1. Inv => MarksAreBetween
  BY DEF Inv, Ordered, MarksAreBetween
<1>. QED
  BY <1>1, Invariant, PTL

(* Until a process ends or badger fails, HasBlock is true only of nodes    *)
(* that are processed or about to be.                                      *)
THEOREM MarkedGetsProcessed == Spec => []MarkedIsProcessed
<1>1. Inv => MarkedIsProcessed
  BY DEF Inv, Working, Unharmed, Processed, MarkedIsProcessed
<1>. QED
  BY <1>1, Invariant, PTL

(* newCrdtLedgerStore, when it fails, and Close release what was opened.   *)
THEOREM StopReleases == Spec => []StoppedIsReleased
<1>1. Inv => StoppedIsReleased
  BY DEF Inv, Lifecycle, StoppedIsReleased
<1>. QED
  BY <1>1, Invariant, PTL
=============================================================================
