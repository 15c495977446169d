------------------------------- MODULE DSync -------------------------------
(***************************************************************************)
(* MinIO's distributed read-write lock: DRWMutex (pkg/dsync) over one      *)
(* locker per node (cmd/local-locker.go), which the nodes' lock            *)
(* maintenance (cmd/lock-rest-server.go) clears of stale entries.  A       *)
(* client is one lock instance, with an id of its own, that locks once.    *)
(*                                                                         *)
(* All clients lock the same names, which a locker grants or refuses as    *)
(* one.  A call may fail before or after it reached the locker, or reach   *)
(* it when the caller has given up; a release may be late or lost; a node  *)
(* may restart, which empties its locker and ends its clients.             *)
(***************************************************************************)
EXTENDS Integers, FiniteSets

CONSTANTS
  Nodes,        \* the lockers
  Writers,      \* the clients that call GetLock
  Readers,      \* the clients that call GetRLock
  Home,         \* the node each client runs on
  Checkers,     \* the nodes whose lock maintenance runs
  MaxTries,     \* how often each client tries to get the lock
  MaxFaults,    \* how many calls, releases and nodes may fail
  Nil

Clients == Writers \cup Readers
N == Cardinality(Nodes)

ASSUME ConstantsType ==
  /\ IsFiniteSet(Nodes) /\ Nodes \subseteq Int /\ Checkers \subseteq Nodes
  /\ Writers \cap Readers = {}
  /\ Home \in [Clients -> Nodes]
  /\ MaxTries \in [Clients -> Nat] /\ MaxFaults \in Nat
  /\ Nil \notin Clients

VARIABLES
  entries,      \* lockMap: node -> client -> the number of its entries
  maint,        \* node -> its lockMaintenance in progress, or Nil
  pc,           \* client: idle, wait, drain, held, retry, done
  locks,        \* *locks, then dm.writeLocks: the nodes that granted
  failed,       \* locksFailed
  tries,        \* the number of attempts
  call,         \* client -> node -> none, sent, or the answer yes, no in ch
  late,         \* node -> the clients whose call arrives after they gave up
  rel,          \* client -> node -> the number of releases on their way
  faults,       \* the number of faults so far
  shaken        \* the clients that were locking when some node restarted

server == <<entries, maint>>
client == <<pc, locks, failed, tries, call>>
vars   == <<server, client, late, rel, faults, shaken>>

Maint == [todo : SUBSET Clients, cur : Clients, left : SUBSET Nodes, count : Nat]

TypeOK ==
  /\ entries \in [Nodes -> [Clients -> Nat]]
  /\ maint \in [Nodes -> Maint \cup {Nil}]
  /\ pc \in [Clients -> {"idle", "wait", "drain", "held", "retry", "done"}]
  /\ locks \in [Clients -> SUBSET Nodes]
  /\ failed \in [Clients -> Nat]
  /\ tries \in [Clients -> Nat]
  /\ call \in [Clients -> [Nodes -> {"none", "sent", "yes", "no"}]]
  /\ late \in [Nodes -> SUBSET Clients]
  /\ rel \in [Clients -> [Nodes -> Nat]]
  /\ faults \in Nat
  /\ shaken \subseteq Clients

Init ==
  /\ entries = [n \in Nodes |-> [c \in Clients |-> 0]]
  /\ maint = [n \in Nodes |-> Nil]
  /\ pc = [c \in Clients |-> "idle"]
  /\ locks = [c \in Clients |-> {}]
  /\ failed = [c \in Clients |-> 0]
  /\ tries = [c \in Clients |-> 0]
  /\ call = [c \in Clients |-> [n \in Nodes |-> "none"]]
  /\ late = [n \in Nodes |-> {}]
  /\ rel = [c \in Clients |-> [n \in Nodes |-> 0]]
  /\ faults = 0
  /\ shaken = {}

Fault == faults < MaxFaults /\ faults' = faults + 1

-----------------------------------------------------------------------------
(* The lockers. *)

IsWriteLock(n) == \E w \in Writers : entries[n][w] > 0

(* canTakeLock for a writer; for a reader the condition of RLock. *)
CanTakeLock(c, n) ==
  IF c \in Writers THEN \A d \in Clients : entries[n][d] = 0 ELSE ~IsWriteLock(n)

AddEntry(c, n) == entries' = [entries EXCEPT ![n][c] = @ + 1]

(* Mutant: an entry that is not there is removed. *)
RemoveEntryMissing(c, n) == entries' = [entries EXCEPT ![n][c] = @ - 1]

(* removeEntry: the first, hence the oldest, entry of that id, if any. *)
RemoveEntry(c, n) ==
  entries' = [entries EXCEPT ![n][c] = IF @ > 0 THEN @ - 1 ELSE @]

(* localLocker.Lock and RLock, and the answer. *)
HandleLock(c, n) ==
  /\ call[c][n] = "sent"
  /\ IF CanTakeLock(c, n)
     THEN AddEntry(c, n) /\ call' = [call EXCEPT ![c][n] = "yes"]
     ELSE UNCHANGED entries /\ call' = [call EXCEPT ![c][n] = "no"]
  /\ UNCHANGED <<maint, pc, locks, failed, tries, late, rel, faults, shaken>>

(* The locker grants the lock and the answer is lost. *)
AnswerLost(c, n) ==
  /\ call[c][n] = "sent" /\ CanTakeLock(c, n) /\ Fault
  /\ AddEntry(c, n)
  /\ call' = [call EXCEPT ![c][n] = "no"]
  /\ UNCHANGED <<maint, pc, locks, failed, tries, late, rel, shaken>>

(* The call fails; the locker never sees it, or sees it later. *)
CallFails(c, n) ==
  /\ call[c][n] = "sent" /\ Fault
  /\ call' = [call EXCEPT ![c][n] = "no"]
  /\ late' \in {late, [late EXCEPT ![n] = @ \cup {c}]}
  /\ UNCHANGED <<server, pc, locks, failed, tries, rel, shaken>>

LateCall(c, n) ==
  /\ c \in late[n]
  /\ late' = [late EXCEPT ![n] = @ \ {c}]
  /\ IF CanTakeLock(c, n) THEN AddEntry(c, n) ELSE UNCHANGED entries
  /\ UNCHANGED <<maint, client, rel, faults, shaken>>

(* localLocker.Unlock and RUnlock, which refuse the wrong kind of lock. *)
HandleRelease(c, n) ==
  /\ rel[c][n] > 0
  /\ rel' = [rel EXCEPT ![c][n] = @ - 1]
  /\ IF (c \in Writers) <=> IsWriteLock(n) THEN RemoveEntry(c, n)
     ELSE UNCHANGED entries
  /\ UNCHANGED <<maint, client, late, faults, shaken>>

ReleaseLost(c, n) ==
  /\ rel[c][n] > 0 /\ Fault
  /\ rel' = [rel EXCEPT ![c][n] = @ - 1]
  /\ UNCHANGED <<server, client, late, shaken>>

-----------------------------------------------------------------------------
(* The clients. *)

(* Mutant: half of the nodes, rounded down. *)
QuorumHalf(c) == N \div 2

Quorum(c) == IF c \in Writers THEN N \div 2 + 1 ELSE (N + 1) \div 2

(* sendRelease to every node of S; errors are only logged. *)
SendReleases(c, S) ==
  rel' = [rel EXCEPT ![c] = [n \in Nodes |-> IF n \in S THEN @[n] + 1 ELSE @[n]]]

(* An attempt of lockBlocking begins: lock broadcasts its request. *)
Lock(c) ==
  /\ pc[c] \in {"idle", "retry"} /\ tries[c] < MaxTries[c]
  /\ pc' = [pc EXCEPT ![c] = "wait"]
  /\ call' = [call EXCEPT ![c] = [n \in Nodes |-> "sent"]]
  /\ tries' = [tries EXCEPT ![c] = @ + 1]
  /\ UNCHANGED <<server, locks, failed, late, rel, faults, shaken>>

(* Whether n's answer is the last one. *)
IsLast(c, n) == \A m \in Nodes \ {n} : call[c][m] = "none"

Received(c, n) == call' = [call EXCEPT ![c][n] = "none"]

Grant(c, n) ==
  /\ pc[c] = "wait" /\ call[c][n] = "yes"
  /\ Received(c, n)
  /\ locks' = [locks EXCEPT ![c] = @ \cup {n}]
  /\ pc' = IF IsLast(c, n) THEN [pc EXCEPT ![c] = "drain"] ELSE pc
  /\ UNCHANGED <<server, failed, tries, late, rel, faults, shaken>>

(* releaseAll, and the end of the loop. *)
GiveBack(c) ==
  /\ SendReleases(c, locks[c])
  /\ locks' = [locks EXCEPT ![c] = {}]

Refuse(c, n) ==
  /\ pc[c] = "wait" /\ call[c][n] = "no"
  /\ Received(c, n)
  /\ failed' = [failed EXCEPT ![c] = @ + 1]
  /\ IF failed'[c] > N - Quorum(c)
     THEN GiveBack(c) /\ pc' = [pc EXCEPT ![c] = "drain"]
     ELSE /\ pc' = IF IsLast(c, n) THEN [pc EXCEPT ![c] = "drain"] ELSE pc
          /\ UNCHANGED <<locks, rel>>
  /\ UNCHANGED <<server, tries, late, faults, shaken>>

QuorumMet(c) == Cardinality(locks[c]) >= Quorum(c)

Timeout(c) ==
  /\ pc[c] = "wait"
  /\ pc' = [pc EXCEPT ![c] = "drain"]
  /\ IF QuorumMet(c) THEN UNCHANGED <<locks, rel>> ELSE GiveBack(c)
  /\ UNCHANGED <<server, failed, tries, call, late, faults, shaken>>

(* The goroutine releases the grants that came too late to count.  lock    *)
(* waits for all the answers but not for this goroutine.                   *)
LateGrant(c, n) ==
  /\ pc[c] = "drain" /\ call[c][n] = "yes"
  /\ Received(c, n)
  /\ SendReleases(c, {n})
  /\ UNCHANGED <<server, pc, locks, failed, tries, late, faults, shaken>>

(* Mutant: lock returns and forgets the answers that it did not count. *)
ReturnForgets(c) ==
  /\ pc[c] = "drain" /\ \A n \in Nodes : call[c][n] # "sent"
  /\ call' = [call EXCEPT ![c] = [n \in Nodes |-> "none"]]
  /\ pc' = [pc EXCEPT ![c] = IF QuorumMet(c) THEN "held" ELSE "retry"]
  /\ failed' = [failed EXCEPT ![c] = 0]
  /\ UNCHANGED <<server, locks, tries, late, rel, faults, shaken>>

Return(c) ==
  /\ pc[c] = "drain" /\ \A n \in Nodes : call[c][n] # "sent"
  /\ SendReleases(c, {n \in Nodes : call[c][n] = "yes"})
  /\ call' = [call EXCEPT ![c] = [n \in Nodes |-> "none"]]
  /\ pc' = [pc EXCEPT ![c] = IF QuorumMet(c) THEN "held" ELSE "retry"]
  /\ failed' = [failed EXCEPT ![c] = 0]
  /\ UNCHANGED <<server, locks, tries, late, faults, shaken>>

(* The timeout of lockBlocking has passed, or the context is done. *)
GiveUp(c) ==
  /\ pc[c] = "retry"
  /\ pc' = [pc EXCEPT ![c] = "done"]
  /\ UNCHANGED <<server, locks, failed, tries, call, late, rel, faults, shaken>>

Unlock(c) ==
  /\ pc[c] = "held"
  /\ GiveBack(c)
  /\ pc' = [pc EXCEPT ![c] = "done"]
  /\ UNCHANGED <<server, failed, tries, call, late, faults, shaken>>

-----------------------------------------------------------------------------
(***************************************************************************)
(* lockMaintenance.  An entry is due when it is older than two minutes,    *)
(* and every call and release of the attempt that made it has ended by     *)
(* then: an attempt lasts a second and a call at most one minute.  The     *)
(* check at n asks all nodes in turn whether they have an entry of the     *)
(* same id; a node that does not answer counts as one that has.  The count *)
(* is kept by name, so that it is not reset from one entry to the next.    *)
(***************************************************************************)
IsDue(c, n) ==
  /\ entries[n][c] > 0
  /\ pc[c] \notin {"wait", "drain"} /\ rel[c][n] = 0 /\ c \notin late[n]

Due(n) == {c \in Clients : IsDue(c, n)}

(* getLongLivedLocks: some of the entries that are due, in some order. *)
GetLongLivedLocks(n, S) ==
  /\ n \in Checkers /\ maint[n] = Nil
  /\ \E c \in S : maint' = [maint EXCEPT ![n] =
       [todo |-> S \ {c}, cur |-> c, left |-> Nodes, count |-> 0]]
  /\ UNCHANGED <<entries, client, late, rel, faults, shaken>>

(* The nodes are asked in the order of their endpoints. *)
Ask(n, m, held) ==
  /\ maint[n] # Nil /\ m \in maint[n].left
  /\ \A k \in maint[n].left : m <= k
  /\ maint' = [maint EXCEPT ![n] =
       [todo |-> @.todo, cur |-> @.cur, left |-> @.left \ {m},
        count |-> IF held THEN @.count + 1 ELSE @.count]]

(* Expired, at m. *)
Expired(n, m) ==
  /\ Ask(n, m, entries[m][maint[n].cur] > 0)
  /\ UNCHANGED <<entries, client, late, rel, faults, shaken>>

ExpiredFails(n, m) ==
  /\ Ask(n, m, TRUE) /\ Fault
  /\ UNCHANGED <<entries, client, late, rel, shaken>>

(* Mutant: an entry must be at all the nodes. *)
PurgeQuorumAll(c) == N

PurgeQuorum(c) == IF c \in Writers THEN N \div 2 + 1 ELSE N \div 2

NextEntry(n) ==
  \/ /\ maint[n].todo = {}
     /\ maint' = [maint EXCEPT ![n] = Nil]
  \/ \E c \in maint[n].todo : maint' = [maint EXCEPT ![n] =
       [todo |-> @.todo \ {c}, cur |-> c, left |-> Nodes, count |-> @.count]]

(* removeEntryIfExists, when too few nodes have the entry. *)
Purge(n) ==
  /\ maint[n] # Nil /\ maint[n].left = {}
  /\ IF maint[n].count < PurgeQuorum(maint[n].cur)
     THEN RemoveEntry(maint[n].cur, n) ELSE UNCHANGED entries
  /\ NextEntry(n)
  /\ UNCHANGED <<client, late, rel, faults, shaken>>

-----------------------------------------------------------------------------
(***************************************************************************)
(* A node stops and starts again: its locker is empty, its maintenance and *)
(* its clients are gone.  What those had sent arrived before or is lost.   *)
(***************************************************************************)
Restart(n) ==
  LET dead == {c \in Clients : Home[c] = n} IN
  /\ Fault
  /\ entries' = [entries EXCEPT ![n] = [c \in Clients |-> 0]]
  /\ maint' = [maint EXCEPT ![n] = Nil]
  /\ pc' = [c \in Clients |-> IF c \in dead THEN "done" ELSE pc[c]]
  /\ locks' = [c \in Clients |-> IF c \in dead THEN {} ELSE locks[c]]
  /\ call' = [c \in Clients |-> IF c \in dead THEN [m \in Nodes |-> "none"] ELSE call[c]]
  /\ rel' = [c \in Clients |-> IF c \in dead THEN [m \in Nodes |-> 0] ELSE rel[c]]
  /\ late' = [m \in Nodes |-> late[m] \ dead]
  /\ shaken' = shaken \cup {c \in Clients : pc[c] # "idle"}
  /\ failed' = [c \in Clients |-> IF c \in dead THEN 0 ELSE failed[c]]
  /\ UNCHANGED tries

ClientStep(c) ==
  \/ Lock(c) \/ Timeout(c) \/ Return(c) \/ Unlock(c)
  \/ \E n \in Nodes : Grant(c, n) \/ Refuse(c, n) \/ LateGrant(c, n)

NodeStep(c, n) == HandleLock(c, n) \/ LateCall(c, n) \/ HandleRelease(c, n)

Maintain(n) ==
  \/ GetLongLivedLocks(n, Due(n))
  \/ \E m \in Nodes : Expired(n, m)
  \/ Purge(n)

Next ==
  \/ \E c \in Clients : ClientStep(c) \/ GiveUp(c)
  \/ \E c \in Clients, n \in Nodes :
       \/ NodeStep(c, n) \/ AnswerLost(c, n) \/ CallFails(c, n) \/ ReleaseLost(c, n)
  \/ \E n \in Nodes :
       \/ Maintain(n) \/ Restart(n)
       \/ \E S \in SUBSET Due(n) : GetLongLivedLocks(n, S)
       \/ \E m \in Nodes : ExpiredFails(n, m)

Spec == Init /\ [][Next]_vars

-----------------------------------------------------------------------------
(***************************************************************************)
(* The mutex: a writer that holds the lock holds it alone.  Each locker    *)
(* excludes by itself, quorums of lockers overlap, and neither late grants *)
(* and releases nor the maintenance take a locker's entry from a holder.   *)
(* Only a restart, which empties a locker, can break it, for those who     *)
(* were locking at that time.                                              *)
(***************************************************************************)
Exclusion ==
  \A c \in Writers \ shaken, d \in Clients \ shaken :
    pc[c] = "held" /\ pc[d] = "held" => c = d

(***************************************************************************)
(* A locker that a holder counts on has its entry until it is released:    *)
(* the maintenance, which compares ids and asks the nodes one by one while *)
(* they change, purges no lock that is held.                               *)
(***************************************************************************)
HeldIsRecorded ==
  \A c \in Clients \ shaken : pc[c] = "held" => \A n \in locks[c] : entries[n][c] > 0

(***************************************************************************)
(* Without faults nothing is left behind: when an attempt has failed or    *)
(* the lock was released, every entry that is still at a locker has a      *)
(* release on its way, those granted after the timeout included.           *)
(***************************************************************************)
NothingIsLeaked ==
  faults = 0 =>
    \A c \in Clients : pc[c] \in {"retry", "done"} =>
      \A n \in Nodes : entries[n][c] <= rel[c][n]
=============================================================================
