---------------------------- MODULE Replication ----------------------------
(***************************************************************************)
(* The ledger's datastore when it is a CRDT: the broadcaster               *)
(* (crdt_broadcaster.go), the DAG syncer (crdt_dagsyncer.go), and opening  *)
(* and closing (newCrdtLedgerStore, ledgerStore.Close).  Several replicas  *)
(* share the DAG service and a pubsub topic that may lose, duplicate and   *)
(* reorder messages.                                                       *)
(*                                                                         *)
(* The CRDT itself is a library.  What it does is known here only by its   *)
(* calls of the two adapters: an update is one node, which links the heads *)
(* so far, is added and broadcast; a node that is received, or linked by a *)
(* node being merged, is fetched and merged unless HasBlock; heads are     *)
(* broadcast again from time to time.                                      *)
(***************************************************************************)
EXTENDS Integers, FiniteSets

CONSTANTS
  Replicas,
  Writers,      \* the replicas whose clients make updates
  Blocks,       \* the nodes that updates may create
  Faults,       \* the faults that may happen, of FaultKinds, each once
  MaxFaults,    \* how many of them may happen in one behaviour
  Nil

(* A replica is shut down, or dies; a stream, the DAG service, badger fail. *)
FaultKinds == {"close", "crash", "stream", "dag", "badger"}

ASSUME FaultsAreKinds == Faults \subseteq FaultKinds /\ MaxFaults \in Nat
ASSUME NilIsNew == Nil \notin Blocks \cup {"get", "set", "merge"}

VARIABLES
  dag,          \* the DAG service: the nodes it stores
  links,        \* the nodes that a node links
  net,          \* the topic: messages on their way to each replica
  marks,        \* badger: the keys that HasBlock looks for
  merged,       \* badger: the nodes that the CRDT has merged
  life,         \* each replica's step in opening and closing
  open,         \* badger is open
  ctx,          \* the context of the broadcaster is not cancelled
  recv,         \* the goroutine of newCrdtBroadcaster: none, recv, send, ended
  resp,         \* messages of the last Recv that it has yet to pass on
  reader,       \* the CRDT's loop around Next: none, next, ended
  put, blk,     \* the update in progress: its step and its node
  job,          \* each node's step in being fetched: Nil, get, set, merge
  happened      \* the faults that have happened

bc   == <<recv, resp, reader>>
proc == <<life, open, ctx>>
upd  == <<put, blk>>
vars == <<dag, links, net, marks, merged, proc, bc, upd, job, happened>>

Init ==
  /\ dag = {}
  /\ links = [c \in Blocks |-> {}]
  /\ net = [r \in Replicas |-> {}]
  /\ marks = [r \in Replicas |-> {}]
  /\ merged = [r \in Replicas |-> {}]
  /\ life = [r \in Replicas |-> "off"]
  /\ open = [r \in Replicas |-> FALSE]
  /\ ctx = [r \in Replicas |-> FALSE]
  /\ recv = [r \in Replicas |-> "none"]
  /\ resp = [r \in Replicas |-> {}]
  /\ reader = [r \in Replicas |-> "none"]
  /\ put = [r \in Replicas |-> "idle"]
  /\ blk = [r \in Replicas |-> Nil]
  /\ job = [r \in Replicas |-> [c \in Blocks |-> Nil]]
  /\ happened = {}
-----------------------------------------------------------------------------
Goto(r, l) == life' = [life EXCEPT ![r] = l]

Fault(k) ==
  /\ k \in Faults \ happened /\ Cardinality(happened) < MaxFaults
  /\ happened' = happened \cup {k}

(* What the process of r holds in memory, when it is gone. *)
Volatile(r) ==
  /\ recv' = [recv EXCEPT ![r] = "none"]
  /\ resp' = [resp EXCEPT ![r] = {}]
  /\ reader' = [reader EXCEPT ![r] = "none"]
  /\ put' = [put EXCEPT ![r] = "idle"]
  /\ blk' = [blk EXCEPT ![r] = Nil]
  /\ job' = [job EXCEPT ![r] = [c \in Blocks |-> Nil]]

(***************************************************************************)
(* newCrdtLedgerStore.  When a later step fails the deferred cleanup       *)
(* cancels the context and closes badger.                                  *)
(***************************************************************************)
OpenStore(r) ==
  /\ life[r] = "off"
  /\ open' = [open EXCEPT ![r] = TRUE]
  /\ ctx' = [ctx EXCEPT ![r] = TRUE]
  /\ Goto(r, "stream")
  /\ UNCHANGED <<dag, links, net, marks, merged, bc, upd, job, happened>>

OpenStream(r) ==
  /\ life[r] = "stream"
  /\ recv' = [recv EXCEPT ![r] = "recv"]
  /\ Goto(r, "crdt")
  /\ UNCHANGED <<dag, links, net, marks, merged, open, ctx, resp, reader, upd,
                 job, happened>>

OpenCrdt(r) ==
  /\ life[r] = "crdt"
  /\ reader' = [reader EXCEPT ![r] = "next"]
  /\ Goto(r, "up")
  /\ UNCHANGED <<dag, links, net, marks, merged, open, ctx, recv, resp, upd, job,
                 happened>>

(* Mutant: a failed start leaves badger open. *)
OpenFailsOpen(r) ==
  /\ \/ life[r] = "stream" /\ Fault("stream")
     \/ life[r] = "crdt" /\ Fault("badger")
  /\ Goto(r, "off")
  /\ ctx' = [ctx EXCEPT ![r] = FALSE]
  /\ Volatile(r)
  /\ UNCHANGED <<dag, links, net, marks, merged, open>>

OpenFails(r) ==
  /\ \/ life[r] = "stream" /\ Fault("stream")
     \/ life[r] = "crdt" /\ Fault("badger")
  /\ Goto(r, "off")
  /\ open' = [open EXCEPT ![r] = FALSE]
  /\ ctx' = [ctx EXCEPT ![r] = FALSE]
  /\ Volatile(r)
  /\ UNCHANGED <<dag, links, net, marks, merged>>

(***************************************************************************)
(* ledgerStore.Close: the cleanup cancels the context and closes badger;   *)
(* then the CRDT is closed, which waits for its goroutines.                *)
(***************************************************************************)
(* Mutant: the broadcaster's context is not cancelled first. *)
CancelNothing(r) ==
  /\ life[r] = "up" /\ Fault("close")
  /\ Goto(r, "cancelled")
  /\ UNCHANGED <<dag, links, net, marks, merged, open, ctx, bc, upd, job>>

Cancel(r) ==
  /\ life[r] = "up" /\ Fault("close")
  /\ ctx' = [ctx EXCEPT ![r] = FALSE]
  /\ Goto(r, "cancelled")
  /\ UNCHANGED <<dag, links, net, marks, merged, open, bc, upd, job>>

CloseStore(r) ==
  /\ life[r] = "cancelled"
  /\ open' = [open EXCEPT ![r] = FALSE]
  /\ Goto(r, "wait")
  /\ UNCHANGED <<dag, links, net, marks, merged, ctx, bc, upd, job, happened>>

CloseCrdt(r) ==
  /\ life[r] = "wait" /\ reader[r] = "ended"
  /\ put[r] = "idle" /\ \A c \in Blocks : job[r][c] = Nil
  /\ Goto(r, "off")
  /\ Volatile(r)
  /\ UNCHANGED <<dag, links, net, marks, merged, open, ctx, happened>>

(* The process dies; what badger has stays. *)
Crash(r) ==
  /\ life[r] # "off" /\ Fault("crash")
  /\ Goto(r, "off")
  /\ open' = [open EXCEPT ![r] = FALSE]
  /\ ctx' = [ctx EXCEPT ![r] = FALSE]
  /\ Volatile(r)
  /\ UNCHANGED <<dag, links, net, marks, merged>>

-----------------------------------------------------------------------------
(* The broadcaster's goroutine.  One response may hold several messages,  *)
(* in any order, since the topic does not keep one.                       *)
Recv(r, ms) ==
  /\ recv[r] = "recv" /\ ctx[r] /\ ms # {}
  /\ resp' = [resp EXCEPT ![r] = ms]
  /\ net' = [net EXCEPT ![r] = @ \ ms]
  /\ recv' = [recv EXCEPT ![r] = "send"]
  /\ UNCHANGED <<dag, links, marks, merged, proc, reader, upd, job, happened>>

(* Recv fails: b.err is set and the channel closed. *)
RecvFails(r) ==
  /\ recv[r] = "recv"
  /\ IF ctx[r] THEN Fault("stream") ELSE UNCHANGED happened
  /\ recv' = [recv EXCEPT ![r] = "ended"]
  /\ UNCHANGED <<dag, links, net, marks, merged, proc, resp, reader, upd, job>>

(* Mutant: HasBlock asks the DAG service, which all replicas share. *)
HasBlockRemote(r, c) == c \in dag

HasBlock(r, c) == c \in marks[r]

(* A message passes through the channel, and the reader of Next handles it. *)
NextMessage(r) ==
  /\ recv[r] = "send" /\ reader[r] = "next"
  /\ \E c \in resp[r] :
       /\ resp' = [resp EXCEPT ![r] = @ \ {c}]
       /\ recv' = [recv EXCEPT ![r] = IF resp[r] = {c} THEN "recv" ELSE "send"]
       /\ job' = IF open[r] /\ ~HasBlock(r, c) /\ job[r][c] = Nil
                 THEN [job EXCEPT ![r][c] = "get"] ELSE job
  /\ reader' = [reader EXCEPT ![r] = IF life[r] = "wait" THEN "ended" ELSE "next"]
  /\ UNCHANGED <<dag, links, net, marks, merged, proc, upd, happened>>

(* Next finds the channel closed; the reader ends once the CRDT is closing. *)
NextFails(r) ==
  /\ recv[r] = "ended" /\ reader[r] = "next" /\ life[r] = "wait"
  /\ reader' = [reader EXCEPT ![r] = "ended"]
  /\ UNCHANGED <<dag, links, net, marks, merged, proc, recv, resp, upd, job, happened>>
-----------------------------------------------------------------------------
(* crdtDAGSyncer.Get of a node, with setBlock, and then the CRDT's merge.  *)
Job(r, c, s) == job' = [job EXCEPT ![r][c] = s]

Get(r, c) ==
  /\ job[r][c] = "get" /\ c \in dag
  /\ Job(r, c, "set")
  /\ UNCHANGED <<dag, links, net, marks, merged, proc, bc, upd, happened>>

(* Mutant: a node that could not be fetched is marked. *)
GetFailsMarks(r, c) ==
  /\ job[r][c] = "get" /\ Fault("dag")
  /\ Job(r, c, Nil)
  /\ marks' = [marks EXCEPT ![r] = @ \cup {c}]
  /\ UNCHANGED <<dag, links, net, merged, proc, bc, upd>>

GetFails(r, c) ==
  /\ job[r][c] = "get" /\ Fault("dag")
  /\ Job(r, c, Nil)
  /\ UNCHANGED <<dag, links, net, marks, merged, proc, bc, upd>>

SetBlock(r, c) ==
  /\ job[r][c] = "set" /\ open[r]
  /\ marks' = [marks EXCEPT ![r] = @ \cup {c}]
  /\ Job(r, c, "merge")
  /\ UNCHANGED <<dag, links, net, merged, proc, bc, upd, happened>>

Merge(r, c) ==
  /\ job[r][c] = "merge" /\ open[r]
  /\ merged' = [merged EXCEPT ![r] = @ \cup {c}]
  /\ job' = [job EXCEPT ![r] =
       [d \in Blocks |-> IF d = c THEN Nil
                         ELSE IF d \in links[c] /\ ~HasBlock(r, d) /\ @[d] = Nil
                         THEN "get" ELSE @[d]]]
  /\ UNCHANGED <<dag, links, net, marks, proc, bc, upd, happened>>

(* Badger fails, or is closed already. *)
StoreFails(r, c) ==
  /\ job[r][c] \in {"set", "merge"}
  /\ IF open[r] THEN Fault("badger") ELSE UNCHANGED happened
  /\ Job(r, c, Nil)
  /\ UNCHANGED <<dag, links, net, marks, merged, proc, bc, upd>>

-----------------------------------------------------------------------------
(* An update: crdtDAGSyncer.Add, the merge, Broadcast.                     *)
Heads(r) == {c \in merged[r] : \A d \in merged[r] : c \notin links[d]}

Put(r, s) == put' = [put EXCEPT ![r] = s]

Update(r, c) ==
  /\ r \in Writers /\ life[r] = "up" /\ put[r] = "idle"
  /\ c \notin dag /\ \A q \in Replicas : blk[q] # c
  /\ links' = [links EXCEPT ![c] = Heads(r)]
  /\ blk' = [blk EXCEPT ![r] = c]
  /\ Put(r, "add")
  /\ UNCHANGED <<dag, net, marks, merged, proc, bc, job, happened>>

(* Mutant: the node is marked before it is stored. *)
AddManyMarksFirst(r) ==
  /\ put[r] = "add" /\ open[r]
  /\ marks' = [marks EXCEPT ![r] = @ \cup {blk[r]}]
  /\ Put(r, "mark")
  /\ UNCHANGED <<dag, links, net, merged, proc, bc, blk, job, happened>>

AddMany(r) ==
  /\ put[r] = "add"
  /\ dag' = dag \cup {blk[r]}
  /\ Put(r, "mark")
  /\ UNCHANGED <<links, net, marks, merged, proc, bc, blk, job, happened>>

SetOwnBlock(r) ==
  /\ put[r] = "mark" /\ open[r]
  /\ marks' = [marks EXCEPT ![r] = @ \cup {blk[r]}]
  /\ Put(r, "merge")
  /\ UNCHANGED <<dag, links, net, merged, proc, bc, blk, job, happened>>

MergeOwn(r) ==
  /\ put[r] = "merge" /\ open[r]
  /\ merged' = [merged EXCEPT ![r] = @ \cup {blk[r]}]
  /\ Put(r, "send")
  /\ UNCHANGED <<dag, links, net, marks, proc, bc, blk, job, happened>>

(* Send reaches the topic while the stream lasts, and the replicas in to. *)
Sent(r, cs, to) ==
  net' = IF ctx[r] /\ recv[r] # "ended"
         THEN [q \in Replicas |-> IF q \in to THEN net[q] \cup cs ELSE net[q]]
         ELSE net

Others(r) == Replicas \ {r}

Broadcast(r) ==
  /\ put[r] = "send"
  /\ \E to \in SUBSET Others(r) : Sent(r, {blk[r]}, to)
  /\ Put(r, "idle")
  /\ blk' = [blk EXCEPT ![r] = Nil]
  /\ UNCHANGED <<dag, links, marks, merged, proc, bc, job, happened>>

UpdateFails(r) ==
  /\ \/ put[r] = "add" /\ Fault("dag")
     \/ put[r] \in {"mark", "merge"} /\ open[r] /\ Fault("badger")
     \/ put[r] \in {"mark", "merge"} /\ ~open[r] /\ UNCHANGED happened
  /\ Put(r, "idle")
  /\ blk' = [blk EXCEPT ![r] = Nil]
  /\ UNCHANGED <<dag, links, net, marks, merged, proc, bc, job>>

Rebroadcast(r, to) ==
  /\ life[r] = "up"
  /\ Sent(r, Heads(r), to)
  /\ UNCHANGED <<dag, links, marks, merged, proc, bc, upd, job, happened>>

-----------------------------------------------------------------------------
Opening(r)   == OpenStore(r) \/ OpenStream(r) \/ OpenCrdt(r)
Closing(r)   == CloseStore(r) \/ CloseCrdt(r)
Reading(r)   == NextMessage(r) \/ NextFails(r) \/ (~ctx[r] /\ RecvFails(r))
Updating(r)  == AddMany(r) \/ SetOwnBlock(r) \/ MergeOwn(r) \/ Broadcast(r)
                  \/ (~open[r] /\ UpdateFails(r))
Fetching(r, c) == Get(r, c) \/ SetBlock(r, c) \/ Merge(r, c)
                  \/ (~open[r] /\ StoreFails(r, c))

Next ==
  \E r \in Replicas :
    \/ Opening(r) \/ Closing(r) \/ Reading(r) \/ Updating(r)
    \/ \E to \in SUBSET Others(r) : Rebroadcast(r, to)
    \/ \E ms \in SUBSET net[r] : Recv(r, ms)
    \/ OpenFails(r) \/ Cancel(r) \/ Crash(r) \/ RecvFails(r) \/ UpdateFails(r)
    \/ \E c \in Blocks : \/ Fetching(r, c) \/ GetFails(r, c) \/ StoreFails(r, c) \/ Update(r, c)

Spec == Init /\ [][Next]_vars

(***************************************************************************)
(* Goroutines run and calls return.  Heads are broadcast again for ever,   *)
(* not always in vain, and a message that waits in a stream is received.   *)
(***************************************************************************)
FairSpec ==
  /\ Spec
  /\ \A r \in Replicas :
       /\ WF_vars(Opening(r)) /\ WF_vars(Closing(r)) /\ WF_vars(Reading(r))
       /\ WF_vars(Updating(r)) /\ WF_vars(Rebroadcast(r, Others(r)))
       /\ WF_vars(Recv(r, net[r]))
       /\ \A c \in Blocks : WF_vars(Fetching(r, c))

-----------------------------------------------------------------------------
(***************************************************************************)
(* HasBlock is told the truth about both sides: a node that a replica has  *)
(* merged is marked, so that it is never merged again, and a marked node   *)
(* is in the DAG service, so that whoever hears of it can fetch it.  Both  *)
(* through failures, shutdowns and crashes.                                *)
(***************************************************************************)
MarksAreBetween == \A r \in Replicas : merged[r] \subseteq marks[r] /\ marks[r] \subseteq dag

(***************************************************************************)
(* "HasBlock returns true if the block is locally available (therefore, it *)
(* is considered processed)": what is marked is merged or about to be, as  *)
(* long as badger works and no process ends in between.                    *)
(***************************************************************************)
MarkedIsProcessed ==
  happened \cap {"close", "crash", "badger"} = {} =>
    \A r \in Replicas : \A c \in marks[r] :
      c \in merged[r] \/ job[r][c] = "merge" \/ (put[r] = "merge" /\ blk[r] = c)

(***************************************************************************)
(* A replica that is not running has released what it opened, whichever    *)
(* step of opening failed and however it was closed.                       *)
(***************************************************************************)
StoppedIsReleased == \A r \in Replicas : life[r] = "off" => ~open[r] /\ ~ctx[r]

(***************************************************************************)
(* Close comes back: cancelling the context ends Recv, hence the channel,  *)
(* hence the reader that the CRDT waits for, whatever was on its way.      *)
(***************************************************************************)
CloseReturns == \A r \in Replicas : life[r] = "cancelled" ~> life[r] = "off"

(***************************************************************************)
(* Every update reaches every replica although messages are lost, repeated *)
(* and reordered, unless one of the other faults happens.                  *)
(***************************************************************************)
Replicated ==
  \A c \in Blocks, r \in Replicas :
    (\E q \in Replicas : c \in merged[q]) ~> (c \in merged[r] \/ happened # {})
=============================================================================
