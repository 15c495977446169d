---------------------------- MODULE DSyncProofs -----------------------------
(***************************************************************************)
(* The distributed lock for any number of nodes, clients, attempts and     *)
(* faults: its inductive invariant, which the steps of the clients, of the *)
(* lockers and of the maintenance preserve, and what follows from it.      *)
(***************************************************************************)
EXTENDS DSync, FiniteSetTheorems, TLAPS

(* Most leaves are set and function reasoning, for Zenon; those that count *)
(* or calculate cite the SMT solver.                                       *)
USE ZenonT(30)

-----------------------------------------------------------------------------
(* The inductive invariant. *)

(* A locker excludes by itself. *)
NodeInv ==
  \A n \in Nodes : \A w \in Writers, d \in Clients :
    entries[n][w] > 0 /\ entries[n][d] > 0 => d = w

(* The calls whose answer a client has not received. *)
Out(c) == {n \in Nodes : call[c][n] # "none"}

(***************************************************************************)
(* Where a client is in lock: while it waits every node has granted, has   *)
(* refused or is still out, and a quorum is still possible; an attempt     *)
(* that ends without a quorum has kept nothing.                            *)
(***************************************************************************)
ClientInv(c) ==
  /\ \A n \in locks[c] : call[c][n] = "none"
  /\ pc[c] \in {"idle", "retry"} => failed[c] = 0
  /\ pc[c] \in {"idle", "retry", "done"} => locks[c] = {}
  /\ pc[c] \notin {"wait", "drain"} => \A n \in Nodes : call[c][n] = "none"
  /\ pc[c] = "idle" => \A n \in Nodes : rel[c][n] = 0
  /\ pc[c] = "wait" =>
       /\ failed[c] <= N - Quorum(c)
       /\ Cardinality(locks[c]) + failed[c] + Cardinality(Out(c)) >= N
  /\ pc[c] = "drain" => locks[c] = {} \/ QuorumMet(c)
  /\ pc[c] = "held" => QuorumMet(c)

(* The entries at n that c accounts for: granted, or with a release sent. *)
Granted(c, n) == IF n \in locks[c] \/ call[c][n] = "yes" THEN 1 ELSE 0
Owed(c, n) == Granted(c, n) + rel[c][n]

Steady(c) == c \notin shaken /\ pc[c] # "done"

RecordInv == \A c \in Clients, n \in Nodes : Steady(c) => entries[n][c] >= Owed(c, n)

(***************************************************************************)
(* An entry that the maintenance of n has in hand is one more than its     *)
(* client accounts for, or belongs to a holder, and then all the nodes of  *)
(* the holder that were asked have been counted.                           *)
(***************************************************************************)
InHand(n) == maint[n].todo \cup {maint[n].cur}

HolderCounted(c, n) ==
  /\ pc[c] = "held" /\ n \in locks[c]
  /\ c = maint[n].cur => Cardinality(locks[c] \ maint[n].left) <= maint[n].count

MaintInv ==
  \A n \in Nodes : maint[n] # Nil =>
    /\ maint[n].cur \notin maint[n].todo
    /\ \A c \in InHand(n) :
         Steady(c) => entries[n][c] > Owed(c, n) \/ HolderCounted(c, n)

LeakInv ==
  faults = 0 => \A c \in Clients, n \in Nodes :
                  entries[n][c] <= Owed(c, n) /\ c \notin late[n]

IInv ==
  /\ TypeOK
  /\ NodeInv
  /\ \A c \in Clients : ClientInv(c)
  /\ RecordInv
  /\ MaintInv
  /\ LeakInv

-----------------------------------------------------------------------------
(* Quorums. *)

LEMMA CountsAreNat ==
  ASSUME NEW S, S \subseteq Nodes
  PROVE  IsFiniteSet(S) /\ Cardinality(S) \in Nat
BY FS_Subset, FS_CardinalityType, ConstantsType

LEMMA QuorumFacts ==
  ASSUME NEW c \in Clients
  PROVE  /\ N \in Nat /\ Quorum(c) \in Nat
         /\ PurgeQuorum(c) <= Quorum(c)
         /\ \A w \in Writers : Quorum(w) + Quorum(c) > N
<1>1. N \in Nat
  BY CountsAreNat DEF N
<1>. QED
  BY SMTT(20), <1>1 DEF Quorum, PurgeQuorum

LEMMA QuorumsOverlap ==
  ASSUME TypeOK, NEW w \in Writers, NEW c \in Clients, QuorumMet(w), QuorumMet(c)
  PROVE  \E n \in Nodes : n \in locks[w] /\ n \in locks[c]
<1>1. w \in Clients
  BY DEF Clients
<1>2. locks[w] \subseteq Nodes /\ locks[c] \subseteq Nodes
  BY <1>1 DEF TypeOK
<1>3. /\ Cardinality(locks[w]) \in Nat /\ Cardinality(locks[c]) \in Nat
      /\ IsFiniteSet(Nodes)
  BY <1>2, CountsAreNat, ConstantsType
<1>4. Cardinality(locks[w]) + Cardinality(locks[c]) > Cardinality(Nodes)
  BY SMTT(20), <1>1, <1>3, QuorumFacts DEF QuorumMet, N
<1>. QED
  BY <1>2, <1>3, <1>4, FS_MajoritiesIntersect

-----------------------------------------------------------------------------
(* Types. *)

LEMMA TypeInit == Init => TypeOK
BY SMTT(20) DEF Init, TypeOK

(* The two-step functions, updated at one place. *)
LEMMA EntriesType ==
  ASSUME TypeOK, NEW c \in Clients, NEW n \in Nodes, AddEntry(c, n) \/ RemoveEntry(c, n)
  PROVE  entries' \in [Nodes -> [Clients -> Nat]]
<1>. entries \in [Nodes -> [Clients -> Nat]]
  BY DEF TypeOK
<1>1. CASE AddEntry(c, n)
  BY SMTT(20), <1>1 DEF AddEntry
<1>2. CASE RemoveEntry(c, n)
  BY SMTT(20), <1>2 DEF RemoveEntry
<1>. QED
  BY <1>1, <1>2

LEMMA CallType ==
  ASSUME TypeOK, NEW c \in Clients, NEW n \in Nodes, NEW a \in {"none", "yes", "no"},
         call' = [call EXCEPT ![c][n] = a]
  PROVE  call' \in [Clients -> [Nodes -> {"none", "sent", "yes", "no"}]]
BY DEF TypeOK

LEMMA RelType ==
  ASSUME TypeOK, NEW c \in Clients, NEW S, SendReleases(c, S)
  PROVE  rel' \in [Clients -> [Nodes -> Nat]]
BY SMTT(20) DEF TypeOK, SendReleases

LEMMA ReleasedType ==
  ASSUME TypeOK, NEW c \in Clients, NEW n \in Nodes, rel[c][n] > 0,
         rel' = [rel EXCEPT ![c][n] = @ - 1]
  PROVE  rel' \in [Clients -> [Nodes -> Nat]]
BY SMTT(20) DEF TypeOK

LEMMA GiveBackType ==
  ASSUME TypeOK, NEW c \in Clients, GiveBack(c)
  PROVE  /\ rel' \in [Clients -> [Nodes -> Nat]]
         /\ locks' \in [Clients -> SUBSET Nodes]
<1>1. rel' \in [Clients -> [Nodes -> Nat]]
  BY RelType DEF GiveBack
<1>2. locks' \in [Clients -> SUBSET Nodes]
  BY DEF TypeOK, GiveBack
<1>. QED
  BY <1>1, <1>2

LEMMA AskType ==
  ASSUME maint \in [Nodes -> Maint \cup {Nil}],
         NEW n \in Nodes, NEW m \in Nodes, NEW held, Ask(n, m, held)
  PROVE  maint' \in [Nodes -> Maint \cup {Nil}]
BY SMTT(20) DEF Ask, Maint

LEMMA TypeStep ==
  ASSUME TypeOK, [Next]_vars
  PROVE  TypeOK'
<1>1. ASSUME NEW c \in Clients, NEW n \in Nodes, HandleLock(c, n)
      PROVE  TypeOK'
  <2>1. entries' \in [Nodes -> [Clients -> Nat]]
    BY <1>1, EntriesType DEF HandleLock, TypeOK
  <2>2. call' \in [Clients -> [Nodes -> {"none", "sent", "yes", "no"}]]
    BY <1>1, CallType DEF HandleLock
  <2>. QED
    BY <1>1, <2>1, <2>2 DEF TypeOK, server, client, Fault, HandleLock
<1>2. ASSUME NEW c \in Clients, NEW n \in Nodes, AnswerLost(c, n)
      PROVE  TypeOK'
  <2>1. entries' \in [Nodes -> [Clients -> Nat]]
    BY <1>2, EntriesType DEF AnswerLost
  <2>2. call' \in [Clients -> [Nodes -> {"none", "sent", "yes", "no"}]]
    BY <1>2, CallType DEF AnswerLost
  <2>. QED
    BY SMTT(20), <1>2, <2>1, <2>2 DEF TypeOK, server, client, Fault, AnswerLost
<1>3. ASSUME NEW c \in Clients, NEW n \in Nodes, CallFails(c, n)
      PROVE  TypeOK'
  <2>1. call' \in [Clients -> [Nodes -> {"none", "sent", "yes", "no"}]]
    BY <1>3, CallType DEF CallFails
  <2>2. late' \in [Nodes -> SUBSET Clients]
    BY SMTT(20), <1>3 DEF CallFails, TypeOK
  <2>. QED
    BY SMTT(20), <1>3, <2>1, <2>2 DEF TypeOK, server, client, Fault, CallFails
<1>4. ASSUME NEW c \in Clients, NEW n \in Nodes, LateCall(c, n)
      PROVE  TypeOK'
  <2>1. entries' \in [Nodes -> [Clients -> Nat]]
    BY <1>4, EntriesType DEF LateCall, TypeOK
  <2>. QED
    BY <1>4, <2>1 DEF TypeOK, server, client, Fault, LateCall
<1>5. ASSUME NEW c \in Clients, NEW n \in Nodes, HandleRelease(c, n)
      PROVE  TypeOK'
  <2>1. entries' \in [Nodes -> [Clients -> Nat]]
    BY <1>5, EntriesType DEF HandleRelease, TypeOK
  <2>2. rel' \in [Clients -> [Nodes -> Nat]]
    BY <1>5, ReleasedType DEF HandleRelease
  <2>. QED
    BY <1>5, <2>1, <2>2 DEF TypeOK, server, client, Fault, HandleRelease
<1>6. ASSUME NEW c \in Clients, NEW n \in Nodes, ReleaseLost(c, n)
      PROVE  TypeOK'
  <2>1. rel' \in [Clients -> [Nodes -> Nat]]
    BY <1>6, ReleasedType DEF ReleaseLost
  <2>. QED
    BY SMTT(20), <1>6, <2>1 DEF TypeOK, server, client, Fault, ReleaseLost
<1>7. ASSUME NEW c \in Clients, Lock(c)
      PROVE  TypeOK'
  BY SMTT(20), <1>7 DEF TypeOK, server, client, Fault, Lock
<1>8. ASSUME NEW c \in Clients, NEW n \in Nodes, Grant(c, n)
      PROVE  TypeOK'
  <2>1. call' \in [Clients -> [Nodes -> {"none", "sent", "yes", "no"}]]
    BY <1>8, CallType DEF Grant, Received
  <2>2. locks' \in [Clients -> SUBSET Nodes]
    BY <1>8 DEF Grant, TypeOK
  <2>. QED
    BY <1>8, <2>1, <2>2 DEF TypeOK, server, client, Fault, Grant
<1>9. ASSUME NEW c \in Clients, NEW n \in Nodes, Refuse(c, n)
      PROVE  TypeOK'
  <2>1. call' \in [Clients -> [Nodes -> {"none", "sent", "yes", "no"}]]
    BY <1>9, CallType DEF Refuse, Received
  <2>2. locks' \in [Clients -> SUBSET Nodes] /\ rel' \in [Clients -> [Nodes -> Nat]]
    BY <1>9, GiveBackType DEF Refuse, TypeOK
  <2>3. failed' \in [Clients -> Nat]
    BY SMTT(20), <1>9 DEF Refuse, TypeOK
  <2>4. pc' \in [Clients -> {"idle", "wait", "drain", "held", "retry", "done"}]
    BY <1>9 DEF Refuse, TypeOK
  <2>. QED
    BY <1>9, <2>1, <2>2, <2>3, <2>4 DEF TypeOK, server, Refuse
<1>10. ASSUME NEW c \in Clients, Timeout(c)
      PROVE  TypeOK'
  <2>1. locks' \in [Clients -> SUBSET Nodes] /\ rel' \in [Clients -> [Nodes -> Nat]]
    BY <1>10, GiveBackType DEF Timeout, TypeOK
  <2>. QED
    BY <1>10, <2>1 DEF TypeOK, server, client, Fault, Timeout
<1>11. ASSUME NEW c \in Clients, NEW n \in Nodes, LateGrant(c, n)
      PROVE  TypeOK'
  <2>1. call' \in [Clients -> [Nodes -> {"none", "sent", "yes", "no"}]]
    BY <1>11, CallType DEF LateGrant, Received
  <2>2. rel' \in [Clients -> [Nodes -> Nat]]
    BY <1>11, RelType DEF LateGrant
  <2>. QED
    BY <1>11, <2>1, <2>2 DEF TypeOK, server, client, Fault, LateGrant
<1>12. ASSUME NEW c \in Clients, Return(c)
      PROVE  TypeOK'
  <2>1. rel' \in [Clients -> [Nodes -> Nat]]
    BY <1>12, RelType DEF Return
  <2>. QED
    BY <1>12, <2>1 DEF TypeOK, server, client, Fault, Return
<1>13. ASSUME NEW c \in Clients, GiveUp(c) \/ Unlock(c)
      PROVE  TypeOK'
  <2>1. locks' \in [Clients -> SUBSET Nodes] /\ rel' \in [Clients -> [Nodes -> Nat]]
    BY <1>13, GiveBackType DEF GiveUp, Unlock, TypeOK
  <2>. QED
    BY <1>13, <2>1 DEF TypeOK, server, client, Fault, GiveUp, Unlock
<1>14. ASSUME NEW n \in Nodes, NEW S \in SUBSET Clients, GetLongLivedLocks(n, S)
      PROVE  TypeOK'
  <2>1. maint' \in [Nodes -> Maint \cup {Nil}]
    BY SMTT(20), <1>14 DEF GetLongLivedLocks, TypeOK, Maint
  <2>. QED
    BY <1>14, <2>1 DEF TypeOK, server, client, Fault, GetLongLivedLocks
<1>15. ASSUME NEW n \in Nodes, NEW m \in Nodes, Expired(n, m) \/ ExpiredFails(n, m)
      PROVE  TypeOK'
  <2>1. maint' \in [Nodes -> Maint \cup {Nil}]
    BY <1>15, AskType DEF Expired, ExpiredFails, TypeOK
  <2>2. UNCHANGED <<entries, client, late, rel, shaken>> /\ (faults' = faults \/ Fault)
    BY <1>15 DEF Expired, ExpiredFails
  <2>. QED
    BY SMTT(20), <2>1, <2>2 DEF TypeOK, client, Fault
<1>16. ASSUME NEW n \in Nodes, Purge(n)
      PROVE  TypeOK'
  <2>1. maint[n].cur \in Clients
    BY <1>16 DEF Purge, TypeOK, Maint
  <2>2. entries' \in [Nodes -> [Clients -> Nat]]
    BY <1>16, <2>1, EntriesType DEF Purge, TypeOK
  <2>3. maint' \in [Nodes -> Maint \cup {Nil}]
    BY SMTT(20), <1>16 DEF Purge, NextEntry, TypeOK, Maint
  <2>. QED
    BY <1>16, <2>1, <2>2, <2>3 DEF TypeOK, server, client, Fault, Purge
<1>17. ASSUME NEW n \in Nodes, Restart(n)
      PROVE  TypeOK'
  <2>1. entries' \in [Nodes -> [Clients -> Nat]]
    BY <1>17 DEF Restart, TypeOK
  <2>2. maint' \in [Nodes -> Maint \cup {Nil}]
    BY <1>17 DEF Restart, TypeOK
  <2>3. rel' \in [Clients -> [Nodes -> Nat]]
         /\ call' \in [Clients -> [Nodes -> {"none", "sent", "yes", "no"}]]
         /\ late' \in [Nodes -> SUBSET Clients]
    BY <1>17 DEF Restart, TypeOK
  <2>. QED
    BY SMTT(20), <1>17, <2>1, <2>2, <2>3 DEF TypeOK, server, client, Fault, Restart
<1>18. ASSUME UNCHANGED vars
      PROVE  TypeOK'
  BY <1>18 DEF TypeOK, server, client, vars
<1>. QED
  BY <1>1, <1>2, <1>3, <1>4, <1>5, <1>6, <1>7, <1>8, <1>9, <1>10, <1>11, <1>12,
     <1>13, <1>14, <1>15, <1>16, <1>17, <1>18
  DEF Next, ClientStep, NodeStep, Maintain, Due


-----------------------------------------------------------------------------
(* Steps of a client. *)

Same(d) ==
  /\ pc'[d] = pc[d] /\ locks'[d] = locks[d] /\ failed'[d] = failed[d]
  /\ call'[d] = call[d] /\ rel'[d] = rel[d]

LEMMA ClientOther ==
  ASSUME NEW d \in Clients, ClientInv(d), Same(d)
  PROVE  ClientInv(d)'
<1>1. Out(d)' = Out(d) /\ (QuorumMet(d)' <=> QuorumMet(d))
  BY DEF Same, Out, QuorumMet
<1>. QED
  BY <1>1 DEF ClientInv, Same

(***************************************************************************)
(* What a locker has beyond what a client accounts for does not shrink,    *)
(* and a holder stays one or stops being steady.                           *)
(***************************************************************************)
LEMMA RecordKept ==
  ASSUME TypeOK, TypeOK', RecordInv, MaintInv, maint' = maint,
         \A d \in Clients : Steady(d)' => Steady(d),
         \A d \in Clients, m \in Nodes :
           Steady(d)' => entries'[m][d] + Owed(d, m) >= entries[m][d] + Owed(d, m)',
         \A d \in Clients :
           Steady(d)' /\ pc[d] = "held" => pc'[d] = "held" /\ locks'[d] = locks[d]
  PROVE  RecordInv' /\ MaintInv'
<1>1. \A d \in Clients, m \in Nodes :
        /\ entries[m][d] \in Nat /\ entries'[m][d] \in Nat
        /\ Owed(d, m) \in Nat /\ Owed(d, m)' \in Nat
  BY SMTT(20) DEF TypeOK, Owed, Granted
<1>2. RecordInv'
  BY SMTT(20), <1>1 DEF RecordInv
<1>3. ASSUME NEW n \in Nodes, maint[n] # Nil, NEW c \in InHand(n), Steady(c)'
      PROVE  (entries[n][c] > Owed(c, n))' \/ HolderCounted(c, n)'
  <2>1. c \in Clients
    BY <1>3 DEF InHand, TypeOK, Maint
  <2>2. entries[n][c] > Owed(c, n) \/ HolderCounted(c, n)
    BY <1>3, <2>1 DEF MaintInv
  <2>3. CASE entries[n][c] > Owed(c, n)
    BY SMTT(20), <1>1, <1>3, <2>1, <2>3
  <2>4. CASE HolderCounted(c, n)
    BY <1>3, <2>1, <2>4 DEF HolderCounted
  <2>. QED
    BY <2>2, <2>3, <2>4
<1>4. MaintInv'
  BY <1>3 DEF MaintInv, InHand
<1>. QED
  BY <1>2, <1>4

LEMMA LeakKept ==
  ASSUME TypeOK, TypeOK', LeakInv, late' = late, faults' = 0 => faults = 0,
         faults' = 0 => \A d \in Clients, m \in Nodes :
           entries'[m][d] + Owed(d, m) <= entries[m][d] + Owed(d, m)'
  PROVE  LeakInv'
<1>1. \A d \in Clients, m \in Nodes :
        /\ entries[m][d] \in Nat /\ entries'[m][d] \in Nat
        /\ Owed(d, m) \in Nat /\ Owed(d, m)' \in Nat
  BY SMTT(20) DEF TypeOK, Owed, Granted
<1>. QED
  BY SMTT(20), <1>1 DEF LeakInv

(* A step of client c on its own variables. *)
LEMMA ClientMoves ==
  ASSUME IInv, TypeOK', NEW c \in Clients,
         UNCHANGED <<entries, maint, late, faults, shaken>>,
         \A d \in Clients \ {c} : Same(d),
         pc[c] # "done", pc[c] = "held" => pc'[c] = "done",
         \A m \in Nodes : Owed(c, m)' = Owed(c, m),
         ClientInv(c)'
  PROVE  IInv'
<1>1. \A d \in Clients : ClientInv(d)'
  BY ClientOther DEF IInv
<1>2. \A d \in Clients, m \in Nodes : Owed(d, m)' = Owed(d, m)
  BY DEF Owed, Granted, Same
<1>3. \A d \in Clients, m \in Nodes : entries[m][d] \in Nat /\ Owed(d, m) \in Nat
  BY SMTT(20) DEF IInv, TypeOK, Owed, Granted
<1>4. \A d \in Clients : Steady(d)' => Steady(d)
  BY DEF Steady, Same
<1>5. \A d \in Clients :
        Steady(d)' /\ pc[d] = "held" => pc'[d] = "held" /\ locks'[d] = locks[d]
  BY DEF Steady, Same
<1>6. \A d \in Clients, m \in Nodes :
        /\ entries'[m][d] + Owed(d, m) >= entries[m][d] + Owed(d, m)'
        /\ entries'[m][d] + Owed(d, m) <= entries[m][d] + Owed(d, m)'
  BY SMTT(20), <1>2, <1>3
<1>7. RecordInv' /\ MaintInv'
  BY <1>4, <1>5, <1>6, RecordKept DEF IInv
<1>8. LeakInv'
  BY <1>6, LeakKept DEF IInv
<1>9. NodeInv'
  BY DEF IInv, NodeInv
<1>. QED
  BY <1>1, <1>7, <1>8, <1>9 DEF IInv

(* c gives back its locks: the releases take their place in the account. *)
LEMMA GiveBackOwed ==
  ASSUME TypeOK, NEW c \in Clients, GiveBack(c),
         \A n \in locks[c] : call[c][n] # "yes",
         \A n \in Nodes : call'[c][n] = "yes" <=> call[c][n] = "yes"
  PROVE  /\ locks'[c] = {}
         /\ \A d \in Clients \ {c} : locks'[d] = locks[d] /\ rel'[d] = rel[d]
         /\ \A m \in Nodes : Owed(c, m)' = Owed(c, m)
<1>1. /\ locks'[c] = {}
      /\ \A d \in Clients \ {c} : locks'[d] = locks[d] /\ rel'[d] = rel[d]
      /\ \A m \in Nodes :
           rel'[c][m] = IF m \in locks[c] THEN rel[c][m] + 1 ELSE rel[c][m]
  BY DEF GiveBack, SendReleases, TypeOK
<1>2. \A m \in Nodes : rel[c][m] \in Nat
  BY DEF TypeOK
<1>3. \A m \in Nodes : Owed(c, m)' = Owed(c, m)
  BY SMTT(20), <1>1, <1>2 DEF Owed, Granted
<1>. QED
  BY <1>1, <1>3

LEMMA QuorumFits ==
  ASSUME NEW c \in Clients
  PROVE  Quorum(c) <= N
<1>1. Nodes # {} /\ IsFiniteSet(Nodes)
  BY ConstantsType
<1>2. Cardinality(Nodes) # 0
  BY <1>1, FS_EmptySet
<1>3. N \in Nat /\ N # 0
  BY <1>2, QuorumFacts DEF N
<1>. QED
  BY SMTT(20), <1>3 DEF Quorum

LEMMA LockStep ==
  ASSUME IInv, TypeOK', NEW c \in Clients, Lock(c)
  PROVE  IInv'
<1>1. ClientInv(c) /\ TypeOK /\ pc[c] \in {"idle", "retry"}
  BY DEF IInv, Lock
<1>2. /\ pc'[c] = "wait" /\ locks'[c] = {} /\ failed'[c] = 0 /\ rel' = rel
      /\ locks[c] = {}
      /\ \A n \in Nodes : call[c][n] = "none" /\ call'[c][n] = "sent"
  BY <1>1 DEF Lock, ClientInv, TypeOK
<1>3. \A d \in Clients \ {c} : Same(d)
  BY <1>1 DEF Lock, Same, TypeOK
<1>4. \A m \in Nodes : Owed(c, m)' = Owed(c, m)
  BY <1>2 DEF Owed, Granted
<1>5. Out(c)' = Nodes
  BY <1>2 DEF Out
<1>6. Cardinality({}) = 0 /\ Cardinality(Nodes) = N /\ N \in Nat /\ Quorum(c) \in Nat
  BY FS_EmptySet, QuorumFacts DEF N
<1>7. Cardinality(locks'[c]) + failed'[c] + Cardinality(Out(c)') >= N
  BY SMTT(20), <1>2, <1>5, <1>6
<1>8. failed'[c] <= N - Quorum(c)
  BY SMTT(20), <1>2, <1>6, QuorumFits
<1>9. ClientInv(c)'
  BY <1>2, <1>7, <1>8 DEF ClientInv
<1>. QED
  BY <1>1, <1>3, <1>4, <1>9, ClientMoves DEF Lock, server

(* An answer is received: one call fewer is out. *)
LEMMA ReceivedOne ==
  ASSUME TypeOK, NEW c \in Clients, NEW n \in Nodes, call[c][n] # "none", Received(c, n)
  PROVE  /\ call'[c][n] = "none"
         /\ \A m \in Nodes \ {n} : call'[c][m] = call[c][m]
         /\ \A d \in Clients \ {c} : call'[d] = call[d]
         /\ Cardinality(Out(c)') = Cardinality(Out(c)) - 1
         /\ Cardinality(Out(c)) \in Nat
         /\ IsLast(c, n) => Cardinality(Out(c)') = 0
<1>1. /\ call'[c][n] = "none"
      /\ \A m \in Nodes \ {n} : call'[c][m] = call[c][m]
      /\ \A d \in Clients \ {c} : call'[d] = call[d]
  BY DEF TypeOK, Received
<1>2. Out(c)' = Out(c) \ {n} /\ n \in Out(c)
  BY <1>1 DEF Out
<1>3. IsFiniteSet(Out(c)) /\ Cardinality(Out(c)) \in Nat
  BY CountsAreNat DEF Out
<1>4. Cardinality(Out(c)') = Cardinality(Out(c)) - 1
  BY <1>2, <1>3, FS_RemoveElement
<1>5. ASSUME IsLast(c, n)
      PROVE  Cardinality(Out(c)') = 0
  <2>1. Out(c)' = {}
    BY <1>1, <1>5 DEF IsLast, Out
  <2>. QED
    BY <2>1, FS_EmptySet
<1>. QED
  BY <1>1, <1>3, <1>4, <1>5

LEMMA GrantStep ==
  ASSUME IInv, TypeOK', NEW c \in Clients, NEW n \in Nodes, Grant(c, n)
  PROVE  IInv'
<1>1. ClientInv(c) /\ TypeOK /\ pc[c] = "wait" /\ call[c][n] = "yes"
  BY DEF IInv, Grant
<1>2. /\ call'[c][n] = "none"
      /\ \A m \in Nodes \ {n} : call'[c][m] = call[c][m]
      /\ \A d \in Clients \ {c} : call'[d] = call[d]
      /\ Cardinality(Out(c)') = Cardinality(Out(c)) - 1
      /\ Cardinality(Out(c)) \in Nat
      /\ IsLast(c, n) => Cardinality(Out(c)') = 0
  BY <1>1, ReceivedOne DEF Grant
<1>3. /\ locks'[c] = locks[c] \cup {n} /\ rel' = rel /\ failed' = failed
      /\ pc'[c] = IF IsLast(c, n) THEN "drain" ELSE "wait"
      /\ \A d \in Clients \ {c} : locks'[d] = locks[d] /\ pc'[d] = pc[d]
  BY <1>1 DEF Grant, TypeOK
<1>4. \A d \in Clients \ {c} : Same(d)
  BY <1>2, <1>3 DEF Same
<1>5. \A m \in Nodes : Owed(c, m)' = Owed(c, m)
  BY <1>1, <1>2, <1>3 DEF Owed, Granted
<1>6. locks[c] \subseteq Nodes /\ n \notin locks[c]
  BY <1>1 DEF TypeOK, ClientInv
<1>7. IsFiniteSet(locks[c]) /\ Cardinality(locks[c]) \in Nat
  BY <1>6, CountsAreNat
<1>8. Cardinality(locks'[c]) = Cardinality(locks[c]) + 1
  BY <1>3, <1>6, <1>7, FS_AddElement
<1>9. /\ failed[c] \in Nat /\ failed[c] <= N - Quorum(c) /\ N \in Nat /\ Quorum(c) \in Nat
      /\ Cardinality(locks[c]) + failed[c] + Cardinality(Out(c)) >= N
  BY <1>1, QuorumFacts DEF TypeOK, ClientInv
<1>10. Cardinality(locks'[c]) + failed'[c] + Cardinality(Out(c)') >= N
  BY SMTT(20), <1>2, <1>3, <1>7, <1>8, <1>9
<1>11. IsLast(c, n) => QuorumMet(c)'
  BY SMTT(20), <1>2, <1>3, <1>7, <1>8, <1>9 DEF QuorumMet
<1>12. \A m \in locks'[c] : call'[c][m] = "none"
  BY <1>1, <1>2, <1>3, <1>6 DEF ClientInv
<1>13. ClientInv(c)'
  BY <1>3, <1>9, <1>10, <1>11, <1>12 DEF ClientInv
<1>. QED
  BY <1>1, <1>4, <1>5, <1>13, ClientMoves DEF Grant, server

LEMMA RefuseStep ==
  ASSUME IInv, TypeOK', NEW c \in Clients, NEW n \in Nodes, Refuse(c, n)
  PROVE  IInv'
<1>1. ClientInv(c) /\ TypeOK /\ pc[c] = "wait" /\ call[c][n] = "no"
  BY DEF IInv, Refuse
<1>2. /\ call'[c][n] = "none"
      /\ \A m \in Nodes \ {n} : call'[c][m] = call[c][m]
      /\ \A d \in Clients \ {c} : call'[d] = call[d]
      /\ Cardinality(Out(c)') = Cardinality(Out(c)) - 1
      /\ Cardinality(Out(c)) \in Nat
      /\ IsLast(c, n) => Cardinality(Out(c)') = 0
  BY <1>1, ReceivedOne DEF Refuse
<1>3. /\ failed'[c] = failed[c] + 1
      /\ \A d \in Clients \ {c} : failed'[d] = failed[d] /\ pc'[d] = pc[d]
      /\ pc'[c] \in {"wait", "drain"}
  BY <1>1 DEF Refuse, TypeOK
<1>4. locks[c] \subseteq Nodes /\ \A m \in locks[c] : call[c][m] = "none"
  BY <1>1 DEF TypeOK, ClientInv
<1>5. \A m \in Nodes : call'[c][m] = "yes" <=> call[c][m] = "yes"
  BY <1>1, <1>2
<1>6. CASE failed'[c] > N - Quorum(c)
  <2>1. GiveBack(c) /\ pc'[c] = "drain"
    BY <1>1, <1>6 DEF Refuse, TypeOK
  <2>2. /\ locks'[c] = {}
        /\ \A d \in Clients \ {c} : locks'[d] = locks[d] /\ rel'[d] = rel[d]
        /\ \A m \in Nodes : Owed(c, m)' = Owed(c, m)
    BY <1>1, <1>4, <1>5, <2>1, GiveBackOwed
  <2>3. \A d \in Clients \ {c} : Same(d)
    BY <1>2, <1>3, <2>2 DEF Same
  <2>4. ClientInv(c)'
    BY <2>1, <2>2 DEF ClientInv
  <2>. QED
    BY <1>1, <2>2, <2>3, <2>4, ClientMoves DEF Refuse, server
<1>7. CASE ~(failed'[c] > N - Quorum(c))
  <2>1. /\ locks' = locks /\ rel' = rel
        /\ pc'[c] = IF IsLast(c, n) THEN "drain" ELSE "wait"
    BY <1>1, <1>7 DEF Refuse, TypeOK
  <2>2. \A d \in Clients \ {c} : Same(d)
    BY <1>2, <1>3, <2>1 DEF Same
  <2>3. \A m \in Nodes : Owed(c, m)' = Owed(c, m)
    BY <1>5, <2>1 DEF Owed, Granted
  <2>4. /\ failed[c] \in Nat /\ N \in Nat /\ Quorum(c) \in Nat
        /\ Cardinality(locks[c]) \in Nat
        /\ Cardinality(locks[c]) + failed[c] + Cardinality(Out(c)) >= N
    BY <1>1, <1>4, CountsAreNat, QuorumFacts DEF TypeOK, ClientInv
  <2>5. /\ failed'[c] <= N - Quorum(c)
        /\ Cardinality(locks'[c]) + failed'[c] + Cardinality(Out(c)') >= N
    BY SMTT(20), <1>2, <1>3, <1>7, <2>1, <2>4
  <2>6. IsLast(c, n) => QuorumMet(c)'
    BY SMTT(20), <1>2, <1>3, <2>1, <2>4, <2>5 DEF QuorumMet
  <2>7. \A m \in locks'[c] : call'[c][m] = "none"
    BY <1>2, <1>4, <2>1
  <2>8. ClientInv(c)'
    BY <2>1, <2>5, <2>6, <2>7 DEF ClientInv
  <2>. QED
    BY <1>1, <2>2, <2>3, <2>8, ClientMoves DEF Refuse, server
<1>. QED
  BY <1>6, <1>7

LEMMA TimeoutStep ==
  ASSUME IInv, TypeOK', NEW c \in Clients, Timeout(c)
  PROVE  IInv'
<1>1. ClientInv(c) /\ TypeOK /\ pc[c] = "wait"
  BY DEF IInv, Timeout
<1>2. pc'[c] = "drain" /\ call' = call /\ failed' = failed
  BY <1>1 DEF Timeout, TypeOK
<1>3. \A d \in Clients \ {c} : pc'[d] = pc[d]
  BY <1>1 DEF Timeout, TypeOK
<1>4. \A m \in locks[c] : call[c][m] = "none"
  BY <1>1 DEF ClientInv
<1>5. CASE QuorumMet(c)
  <2>1. locks' = locks /\ rel' = rel
    BY <1>5 DEF Timeout
  <2>2. \A d \in Clients \ {c} : Same(d)
    BY <1>2, <1>3, <2>1 DEF Same
  <2>3. \A m \in Nodes : Owed(c, m)' = Owed(c, m)
    BY <1>2, <2>1 DEF Owed, Granted
  <2>4. QuorumMet(c)'
    BY <1>5, <2>1 DEF QuorumMet
  <2>5. ClientInv(c)'
    BY <1>2, <1>4, <2>1, <2>4 DEF ClientInv
  <2>. QED
    BY <1>1, <2>2, <2>3, <2>5, ClientMoves DEF Timeout, server
<1>6. CASE ~QuorumMet(c)
  <2>1. GiveBack(c)
    BY <1>6 DEF Timeout
  <2>2. /\ locks'[c] = {}
        /\ \A d \in Clients \ {c} : locks'[d] = locks[d] /\ rel'[d] = rel[d]
        /\ \A m \in Nodes : Owed(c, m)' = Owed(c, m)
    BY <1>1, <1>2, <1>4, <2>1, GiveBackOwed
  <2>3. \A d \in Clients \ {c} : Same(d)
    BY <1>2, <1>3, <2>2 DEF Same
  <2>4. ClientInv(c)'
    BY <1>2, <2>2 DEF ClientInv
  <2>. QED
    BY <1>1, <2>2, <2>3, <2>4, ClientMoves DEF Timeout, server
<1>. QED
  BY <1>5, <1>6

(* Grants that came too late become releases. *)
LEMMA LateOwed ==
  ASSUME TypeOK, NEW c \in Clients, NEW S \in SUBSET Nodes, SendReleases(c, S),
         \A m \in S : call[c][m] = "yes" /\ call'[c][m] = "none" /\ m \notin locks[c],
         \A m \in Nodes \ S : call'[c][m] = "yes" <=> call[c][m] = "yes",
         locks' = locks
  PROVE  /\ \A m \in Nodes : Owed(c, m)' = Owed(c, m)
         /\ \A d \in Clients \ {c} : rel'[d] = rel[d]
<1>1. \A m \in Nodes : rel'[c][m] = IF m \in S THEN rel[c][m] + 1 ELSE rel[c][m]
  BY DEF SendReleases, TypeOK
<1>2. \A m \in Nodes : rel[c][m] \in Nat
  BY DEF TypeOK
<1>3. \A m \in Nodes : Owed(c, m)' = Owed(c, m)
  BY SMTT(20), <1>1, <1>2 DEF Owed, Granted
<1>4. \A d \in Clients \ {c} : rel'[d] = rel[d]
  BY DEF SendReleases, TypeOK
<1>. QED
  BY <1>3, <1>4

LEMMA LateGrantStep ==
  ASSUME IInv, TypeOK', NEW c \in Clients, NEW n \in Nodes, LateGrant(c, n)
  PROVE  IInv'
<1>1. ClientInv(c) /\ TypeOK /\ pc[c] = "drain" /\ call[c][n] = "yes"
  BY DEF IInv, LateGrant
<1>2. /\ call'[c][n] = "none"
      /\ \A m \in Nodes \ {n} : call'[c][m] = call[c][m]
      /\ \A d \in Clients \ {c} : call'[d] = call[d]
  BY <1>1, ReceivedOne DEF LateGrant
<1>3. locks' = locks /\ pc' = pc /\ failed' = failed /\ n \notin locks[c]
  BY <1>1 DEF LateGrant, ClientInv
<1>4. /\ \A m \in Nodes : Owed(c, m)' = Owed(c, m)
      /\ \A d \in Clients \ {c} : rel'[d] = rel[d]
  BY SMTT(20), <1>1, <1>2, <1>3, LateOwed DEF LateGrant
<1>5. \A d \in Clients \ {c} : Same(d)
  BY <1>2, <1>3, <1>4 DEF Same
<1>6. locks[c] \subseteq Nodes
  BY <1>1 DEF TypeOK
<1>7. ClientInv(c)'
  BY <1>1, <1>2, <1>3, <1>6 DEF ClientInv, QuorumMet
<1>. QED
  BY <1>1, <1>3, <1>4, <1>5, <1>7, ClientMoves DEF LateGrant, server

LEMMA ReturnStep ==
  ASSUME IInv, TypeOK', NEW c \in Clients, Return(c)
  PROVE  IInv'
<1>1. ClientInv(c) /\ TypeOK /\ pc[c] = "drain"
  BY DEF IInv, Return
<1>2. /\ \A m \in Nodes : call'[c][m] = "none"
      /\ \A d \in Clients \ {c} : call'[d] = call[d]
      /\ pc'[c] = IF QuorumMet(c) THEN "held" ELSE "retry"
      /\ \A d \in Clients \ {c} : pc'[d] = pc[d] /\ failed'[d] = failed[d]
      /\ locks' = locks /\ failed'[c] = 0
  BY <1>1 DEF Return, TypeOK
<1>3. \A m \in {k \in Nodes : call[c][k] = "yes"} : m \notin locks[c]
  BY <1>1 DEF ClientInv
<1>4. /\ \A m \in Nodes : Owed(c, m)' = Owed(c, m)
      /\ \A d \in Clients \ {c} : rel'[d] = rel[d]
  BY <1>1, <1>2, <1>3, LateOwed DEF Return
<1>5. \A d \in Clients \ {c} : Same(d)
  BY <1>2, <1>4 DEF Same
<1>6. locks[c] \subseteq Nodes
  BY <1>1 DEF TypeOK
<1>7. ClientInv(c)'
  BY <1>1, <1>2, <1>6 DEF ClientInv, QuorumMet
<1>. QED
  BY <1>1, <1>4, <1>5, <1>7, ClientMoves DEF Return, server

LEMMA EndStep ==
  ASSUME IInv, TypeOK', NEW c \in Clients, GiveUp(c) \/ Unlock(c)
  PROVE  IInv'
<1>1. ClientInv(c) /\ TypeOK /\ pc[c] \in {"retry", "held"}
  BY DEF IInv, GiveUp, Unlock
<1>2. /\ pc'[c] = "done" /\ call' = call /\ failed' = failed
      /\ \A d \in Clients \ {c} : pc'[d] = pc[d]
  BY <1>1 DEF GiveUp, Unlock, TypeOK
<1>3. \A m \in Nodes : call[c][m] = "none"
  BY <1>1 DEF ClientInv
<1>4. locks[c] \subseteq Nodes
  BY <1>1 DEF TypeOK
<1>5. /\ locks'[c] = {}
      /\ \A d \in Clients \ {c} : locks'[d] = locks[d] /\ rel'[d] = rel[d]
      /\ \A m \in Nodes : Owed(c, m)' = Owed(c, m)
  <2>1. CASE GiveUp(c)
    BY <1>1, <1>2, <2>1 DEF GiveUp, ClientInv, Owed, Granted
  <2>2. CASE Unlock(c)
    BY <1>1, <1>2, <1>3, <1>4, <2>2, GiveBackOwed DEF Unlock
  <2>. QED
    BY <2>1, <2>2
<1>6. \A d \in Clients \ {c} : Same(d)
  BY <1>2, <1>5 DEF Same
<1>7. ClientInv(c)'
  BY <1>2, <1>3, <1>5 DEF ClientInv
<1>8. UNCHANGED <<entries, maint, late, faults, shaken>>
  BY DEF GiveUp, Unlock, server
<1>. QED
  BY <1>1, <1>2, <1>5, <1>6, <1>7, <1>8, ClientMoves

-----------------------------------------------------------------------------
(* Steps of a locker, which concern one client c at one node n. *)

LEMMA AddedEntry ==
  ASSUME TypeOK, NodeInv, NEW c \in Clients, NEW n \in Nodes,
         CanTakeLock(c, n), AddEntry(c, n)
  PROVE  /\ entries'[n][c] = entries[n][c] + 1
         /\ \A d \in Clients, m \in Nodes :
              <<d, m>> # <<c, n>> => entries'[m][d] = entries[m][d]
         /\ NodeInv'
<1>1. \A d \in Clients, m \in Nodes :
        entries'[m][d] = IF d = c /\ m = n THEN entries[m][d] + 1 ELSE entries[m][d]
  BY DEF TypeOK, AddEntry
<1>2. \A d \in Clients, m \in Nodes : entries[m][d] \in Nat
  BY DEF TypeOK
<1>3. NodeInv'
  BY <1>1, <1>2 DEF NodeInv, CanTakeLock, IsWriteLock, Clients
<1>. QED
  BY <1>1, <1>3

LEMMA RemovedEntry ==
  ASSUME TypeOK, NodeInv, NEW c \in Clients, NEW n \in Nodes, RemoveEntry(c, n)
  PROVE  /\ entries'[n][c] = IF entries[n][c] > 0 THEN entries[n][c] - 1 ELSE entries[n][c]
         /\ \A d \in Clients, m \in Nodes :
              <<d, m>> # <<c, n>> => entries'[m][d] = entries[m][d]
         /\ NodeInv'
<1>1. \A d \in Clients, m \in Nodes :
        entries'[m][d] = IF d = c /\ m = n /\ entries[m][d] > 0
                         THEN entries[m][d] - 1 ELSE entries[m][d]
  BY DEF TypeOK, RemoveEntry
<1>2. \A d \in Clients, m \in Nodes : entries[m][d] \in Nat
  BY DEF TypeOK
<1>3. NodeInv'
  BY <1>1, <1>2 DEF NodeInv, Clients
<1>. QED
  BY <1>1, <1>2, <1>3

LEMMA NodeMoves ==
  ASSUME IInv, TypeOK', NEW c \in Clients, NEW n \in Nodes,
         UNCHANGED <<maint, pc, locks, failed, shaken>>,
         \A d \in Clients, m \in Nodes : <<d, m>> # <<c, n>> =>
           /\ entries'[m][d] = entries[m][d]
           /\ call'[d][m] = call[d][m] /\ rel'[d][m] = rel[d][m],
         call'[c][n] = "none" <=> call[c][n] = "none",
         pc[c] = "idle" => rel'[c][n] = 0,
         NodeInv',
         Steady(c) => entries'[n][c] + Owed(c, n) >= entries[n][c] + Owed(c, n)',
         LeakInv'
  PROVE  IInv'
<1>1. \A d \in Clients, m \in Nodes : call'[d][m] = "none" <=> call[d][m] = "none"
  OBVIOUS
<1>2. \A d \in Clients : ClientInv(d)'
  <2>. SUFFICES ASSUME NEW d \in Clients
               PROVE  ClientInv(d)'
    OBVIOUS
  <2>1. ClientInv(d) /\ locks[d] \subseteq Nodes
    BY DEF IInv, TypeOK
  <2>2. Out(d)' = Out(d) /\ (QuorumMet(d)' <=> QuorumMet(d))
    BY <1>1 DEF Out, QuorumMet
  <2>3. pc[d] = "idle" => \A m \in Nodes : rel'[d][m] = 0
    BY <2>1 DEF ClientInv
  <2>. QED
    BY <1>1, <2>1, <2>2, <2>3 DEF ClientInv
<1>3. \A d \in Clients, m \in Nodes : <<d, m>> # <<c, n>> =>
        Owed(d, m)' = Owed(d, m) /\ entries'[m][d] = entries[m][d]
  BY DEF Owed, Granted
<1>4. \A d \in Clients, m \in Nodes : entries[m][d] \in Nat /\ Owed(d, m) \in Nat
  BY SMTT(20) DEF IInv, TypeOK, Owed, Granted
<1>5. \A d \in Clients : Steady(d)' <=> Steady(d)
  BY DEF Steady
<1>6. \A d \in Clients, m \in Nodes :
        Steady(d)' => entries'[m][d] + Owed(d, m) >= entries[m][d] + Owed(d, m)'
  BY SMTT(20), <1>3, <1>4, <1>5
<1>7. RecordInv' /\ MaintInv'
  BY <1>5, <1>6, RecordKept DEF IInv
<1>. QED
  BY <1>2, <1>7 DEF IInv

(* Without faults: no entry is added that is not accounted for. *)
LEMMA NodeLeak ==
  ASSUME TypeOK, TypeOK', LeakInv, NEW c \in Clients, NEW n \in Nodes,
         UNCHANGED <<locks, late, faults>>,
         \A d \in Clients, m \in Nodes : <<d, m>> # <<c, n>> =>
           /\ entries'[m][d] = entries[m][d]
           /\ call'[d][m] = call[d][m] /\ rel'[d][m] = rel[d][m],
         faults = 0 => entries'[n][c] <= Owed(c, n)'
  PROVE  LeakInv'
<1>1. \A d \in Clients, m \in Nodes : <<d, m>> # <<c, n>> => Owed(d, m)' = Owed(d, m)
  BY DEF Owed, Granted
<1>. QED
  BY <1>1 DEF LeakInv

LEMMA HandleLockStep ==
  ASSUME IInv, TypeOK', NEW c \in Clients, NEW n \in Nodes, HandleLock(c, n)
  PROVE  IInv'
<1>1. /\ TypeOK /\ NodeInv /\ ClientInv(c) /\ LeakInv /\ call[c][n] = "sent"
      /\ n \notin locks[c]
  BY DEF IInv, HandleLock, ClientInv
<1>2. /\ \A d \in Clients, m \in Nodes : <<d, m>> # <<c, n>> => call'[d][m] = call[d][m]
      /\ call'[c][n] = IF CanTakeLock(c, n) THEN "yes" ELSE "no"
      /\ UNCHANGED <<maint, pc, locks, failed, late, rel, faults, shaken>>
  BY SMTT(20), <1>1 DEF HandleLock, TypeOK
<1>3. /\ entries'[n][c] = IF CanTakeLock(c, n) THEN entries[n][c] + 1 ELSE entries[n][c]
      /\ \A d \in Clients, m \in Nodes :
           <<d, m>> # <<c, n>> => entries'[m][d] = entries[m][d]
      /\ NodeInv'
  <2>1. CASE CanTakeLock(c, n)
    BY <1>1, <2>1, AddedEntry DEF HandleLock
  <2>2. CASE ~CanTakeLock(c, n)
    BY <1>1, <2>2 DEF HandleLock, NodeInv
  <2>. QED
    BY <2>1, <2>2
<1>4. entries[n][c] \in Nat /\ rel[c][n] \in Nat
  BY SMTT(20), <1>1 DEF TypeOK
<1>5. entries'[n][c] + Owed(c, n) = entries[n][c] + Owed(c, n)'
  BY SMTT(20), <1>1, <1>2, <1>3, <1>4 DEF Owed, Granted
<1>6. Owed(c, n) \in Nat /\ Owed(c, n)' \in Nat /\ entries'[n][c] \in Nat
  BY SMTT(20), <1>1, <1>2, <1>3, <1>4 DEF Owed, Granted
<1>7. LeakInv'
  <2>1. faults = 0 => entries'[n][c] <= Owed(c, n)'
    BY SMTT(20), <1>1, <1>4, <1>5, <1>6 DEF LeakInv
  <2>. QED
    BY <1>1, <1>2, <1>3, <2>1, NodeLeak
<1>8. pc[c] = "idle" => rel'[c][n] = 0
  BY <1>1, <1>2 DEF ClientInv
<1>9. entries'[n][c] + Owed(c, n) >= entries[n][c] + Owed(c, n)'
  BY SMTT(20), <1>4, <1>5, <1>6
<1>. QED
  BY <1>1, <1>2, <1>3, <1>7, <1>8, <1>9, NodeMoves

(* A fault has happened. *)
LEMMA FaultLeak ==
  ASSUME TypeOK, Fault
  PROVE  LeakInv'
BY SMTT(20) DEF TypeOK, Fault, LeakInv

LEMMA AnswerLostStep ==
  ASSUME IInv, TypeOK', NEW c \in Clients, NEW n \in Nodes, AnswerLost(c, n)
  PROVE  IInv'
<1>1. /\ TypeOK /\ NodeInv /\ ClientInv(c) /\ call[c][n] = "sent" /\ n \notin locks[c]
  BY DEF IInv, AnswerLost, ClientInv
<1>2. /\ \A d \in Clients, m \in Nodes : <<d, m>> # <<c, n>> => call'[d][m] = call[d][m]
      /\ call'[c][n] = "no"
      /\ UNCHANGED <<maint, pc, locks, failed, late, rel, shaken>>
  BY SMTT(20), <1>1 DEF AnswerLost, TypeOK
<1>3. /\ entries'[n][c] = entries[n][c] + 1
      /\ \A d \in Clients, m \in Nodes :
           <<d, m>> # <<c, n>> => entries'[m][d] = entries[m][d]
      /\ NodeInv'
  BY <1>1, AddedEntry DEF AnswerLost
<1>4. entries[n][c] \in Nat /\ rel[c][n] \in Nat
  BY SMTT(20), <1>1 DEF TypeOK
<1>5. entries'[n][c] + Owed(c, n) >= entries[n][c] + Owed(c, n)'
  BY SMTT(20), <1>1, <1>2, <1>3, <1>4 DEF Owed, Granted
<1>6. LeakInv'
  BY <1>1, FaultLeak DEF AnswerLost
<1>7. pc[c] = "idle" => rel'[c][n] = 0
  BY <1>1, <1>2 DEF ClientInv
<1>. QED
  BY <1>1, <1>2, <1>3, <1>5, <1>6, <1>7, NodeMoves

LEMMA CallFailsStep ==
  ASSUME IInv, TypeOK', NEW c \in Clients, NEW n \in Nodes, CallFails(c, n)
  PROVE  IInv'
<1>1. TypeOK /\ NodeInv /\ ClientInv(c) /\ call[c][n] = "sent"
  BY DEF IInv, CallFails
<1>2. /\ \A d \in Clients, m \in Nodes : <<d, m>> # <<c, n>> => call'[d][m] = call[d][m]
      /\ call'[c][n] = "no"
      /\ UNCHANGED <<entries, maint, pc, locks, failed, rel, shaken>>
  BY SMTT(20), <1>1 DEF CallFails, TypeOK, server
<1>3. NodeInv'
  BY <1>1, <1>2 DEF NodeInv
<1>4. entries[n][c] \in Nat /\ rel[c][n] \in Nat
  BY <1>1 DEF TypeOK
<1>5. entries'[n][c] + Owed(c, n) >= entries[n][c] + Owed(c, n)'
  BY SMTT(20), <1>1, <1>2, <1>4 DEF Owed, Granted
<1>6. LeakInv'
  BY <1>1, FaultLeak DEF CallFails
<1>7. pc[c] = "idle" => rel'[c][n] = 0
  BY <1>1, <1>2 DEF ClientInv
<1>. QED
  BY <1>1, <1>2, <1>3, <1>5, <1>6, <1>7, NodeMoves

LEMMA LateCallStep ==
  ASSUME IInv, TypeOK', NEW c \in Clients, NEW n \in Nodes, LateCall(c, n)
  PROVE  IInv'
<1>1. TypeOK /\ NodeInv /\ ClientInv(c) /\ LeakInv /\ c \in late[n]
  BY DEF IInv, LateCall
<1>2. UNCHANGED <<maint, pc, locks, failed, call, rel, faults, shaken>>
  BY DEF LateCall, client
<1>3. /\ entries'[n][c] \in {entries[n][c], entries[n][c] + 1}
      /\ \A d \in Clients, m \in Nodes :
           <<d, m>> # <<c, n>> => entries'[m][d] = entries[m][d]
      /\ NodeInv'
  <2>1. CASE CanTakeLock(c, n)
    BY <1>1, <2>1, AddedEntry DEF LateCall
  <2>2. CASE ~CanTakeLock(c, n)
    BY <1>1, <2>2 DEF LateCall, NodeInv
  <2>. QED
    BY <2>1, <2>2
<1>4. entries[n][c] \in Nat /\ rel[c][n] \in Nat
  BY <1>1 DEF TypeOK
<1>5. entries'[n][c] + Owed(c, n) >= entries[n][c] + Owed(c, n)'
  BY SMTT(20), <1>2, <1>3, <1>4 DEF Owed, Granted
<1>6. LeakInv'
  BY <1>1, <1>2 DEF LeakInv
<1>7. pc[c] = "idle" => rel'[c][n] = 0
  BY <1>1, <1>2 DEF ClientInv
<1>. QED
  BY <1>2, <1>3, <1>5, <1>6, <1>7, NodeMoves

LEMMA HandleReleaseStep ==
  ASSUME IInv, TypeOK', NEW c \in Clients, NEW n \in Nodes, HandleRelease(c, n)
  PROVE  IInv'
<1>1. /\ TypeOK /\ NodeInv /\ ClientInv(c) /\ LeakInv /\ RecordInv
      /\ rel[c][n] > 0 /\ entries[n][c] \in Nat /\ rel[c][n] \in Nat
  BY SMTT(20) DEF IInv, HandleRelease, TypeOK
<1>2. /\ \A d \in Clients, m \in Nodes : <<d, m>> # <<c, n>> => rel'[d][m] = rel[d][m]
      /\ rel'[c][n] = rel[c][n] - 1
      /\ UNCHANGED <<maint, pc, locks, failed, call, late, faults, shaken>>
  BY SMTT(20), <1>1 DEF HandleRelease, TypeOK, client
<1>3. /\ entries'[n][c] \in {entries[n][c], entries[n][c] - 1}
      /\ entries'[n][c] = entries[n][c] =>
           entries[n][c] = 0 \/ ~(c \in Writers <=> IsWriteLock(n))
      /\ \A d \in Clients, m \in Nodes :
           <<d, m>> # <<c, n>> => entries'[m][d] = entries[m][d]
      /\ NodeInv'
  <2>1. CASE c \in Writers <=> IsWriteLock(n)
    BY SMTT(20), <1>1, <2>1, RemovedEntry DEF HandleRelease
  <2>2. CASE ~(c \in Writers <=> IsWriteLock(n))
    BY <1>1, <2>2 DEF HandleRelease, NodeInv
  <2>. QED
    BY <2>1, <2>2
<1>4. Owed(c, n) = Owed(c, n)' + 1 /\ Owed(c, n)' \in Nat
  BY SMTT(20), <1>1, <1>2 DEF Owed, Granted
<1>5. entries'[n][c] + Owed(c, n) >= entries[n][c] + Owed(c, n)'
  BY SMTT(20), <1>1, <1>3, <1>4
<1>6. LeakInv'
  <2>1. ~(c \in Writers <=> IsWriteLock(n)) => entries[n][c] = 0
    <3>1. ASSUME c \in Writers, ~IsWriteLock(n)
          PROVE  entries[n][c] = 0
      BY SMTT(20), <1>1, <3>1 DEF IsWriteLock
    <3>2. ASSUME c \notin Writers, IsWriteLock(n)
          PROVE  entries[n][c] = 0
      BY SMTT(20), <1>1, <3>2 DEF IsWriteLock, NodeInv
    <3>. QED
      BY <3>1, <3>2
  <2>2. faults = 0 => entries[n][c] <= Owed(c, n)
    BY <1>1 DEF LeakInv
  <2>3. faults = 0 => entries'[n][c] <= Owed(c, n)'
    BY SMTT(20), <1>1, <1>3, <1>4, <2>1, <2>2
  <2>. QED
    BY <1>1, <1>2, <1>3, <2>3, NodeLeak
<1>7. pc[c] = "idle" => rel'[c][n] = 0
  BY SMTT(20), <1>1 DEF ClientInv
<1>. QED
  BY <1>2, <1>3, <1>5, <1>6, <1>7, NodeMoves

LEMMA ReleaseLostStep ==
  ASSUME IInv, TypeOK', NEW c \in Clients, NEW n \in Nodes, ReleaseLost(c, n)
  PROVE  IInv'
<1>1. /\ TypeOK /\ NodeInv /\ ClientInv(c)
      /\ rel[c][n] > 0 /\ entries[n][c] \in Nat /\ rel[c][n] \in Nat
  BY SMTT(20) DEF IInv, ReleaseLost, TypeOK
<1>2. /\ \A d \in Clients, m \in Nodes : <<d, m>> # <<c, n>> => rel'[d][m] = rel[d][m]
      /\ rel'[c][n] = rel[c][n] - 1
      /\ UNCHANGED <<entries, maint, pc, locks, failed, call, late, shaken>>
  BY SMTT(20), <1>1 DEF ReleaseLost, TypeOK, client, server
<1>3. NodeInv'
  BY <1>1, <1>2 DEF NodeInv
<1>4. entries'[n][c] + Owed(c, n) >= entries[n][c] + Owed(c, n)'
  BY SMTT(20), <1>1, <1>2 DEF Owed, Granted
<1>5. LeakInv'
  BY <1>1, FaultLeak DEF ReleaseLost
<1>6. pc[c] = "idle" => rel'[c][n] = 0
  BY SMTT(20), <1>1 DEF ClientInv
<1>. QED
  BY <1>2, <1>3, <1>4, <1>5, <1>6, NodeMoves

-----------------------------------------------------------------------------
(* Steps of the maintenance. *)

LEMMA MaintMoves ==
  ASSUME IInv, TypeOK', UNCHANGED <<entries, pc, locks, failed, call, rel, shaken>>,
         late' = late /\ (faults' = 0 => faults = 0), MaintInv'
  PROVE  IInv'
<1>1. \A d \in Clients : ClientInv(d)'
  BY ClientOther DEF IInv, Same
<1>2. \A d \in Clients, m \in Nodes : Owed(d, m)' = Owed(d, m)
  BY DEF Owed, Granted
<1>3. NodeInv' /\ RecordInv' /\ LeakInv'
  BY <1>2 DEF IInv, NodeInv, RecordInv, LeakInv, Steady
<1>. QED
  BY <1>1, <1>3 DEF IInv

LEMMA GetLongLivedLocksStep ==
  ASSUME IInv, TypeOK', NEW n \in Nodes, NEW S \in SUBSET Due(n), GetLongLivedLocks(n, S)
  PROVE  IInv'
<1>1. TypeOK /\ MaintInv /\ \A c \in Clients : ClientInv(c)
  BY DEF IInv
<1>2. UNCHANGED <<entries, pc, locks, failed, call, rel, late, faults, shaken>>
  BY DEF GetLongLivedLocks, client
<1>3. PICK e \in S : maint' = [maint EXCEPT ![n] =
                       [todo |-> S \ {e}, cur |-> e, left |-> Nodes, count |-> 0]]
  BY DEF GetLongLivedLocks
<1>4. /\ maint'[n].cur = e /\ maint'[n].todo = S \ {e}
      /\ maint'[n].left = Nodes /\ maint'[n].count = 0
      /\ \A m \in Nodes \ {n} : maint'[m] = maint[m]
  BY <1>1, <1>3 DEF TypeOK
<1>5. ASSUME NEW c \in S, Steady(c)'
      PROVE  (entries[n][c] > Owed(c, n))' \/ HolderCounted(c, n)'
  <2>1. /\ c \in Clients /\ entries[n][c] > 0 /\ pc[c] \notin {"wait", "drain", "done"}
        /\ rel[c][n] = 0 /\ ClientInv(c)
    BY <1>1, <1>2, <1>5 DEF Due, IsDue, Steady
  <2>2. call[c][n] = "none" /\ (n \in locks[c] => pc[c] = "held")
    BY <1>1, <2>1 DEF ClientInv, TypeOK
  <2>3. CASE n \notin locks[c]
    BY SMTT(20), <1>2, <2>1, <2>2, <2>3 DEF Owed, Granted
  <2>4. CASE n \in locks[c]
    <3>1. locks[c] \ Nodes = {}
      BY <1>1, <2>1 DEF TypeOK
    <3>2. Cardinality(locks[c] \ Nodes) = 0
      BY <3>1, FS_EmptySet
    <3>. QED
      BY SMTT(20), <1>2, <1>4, <2>2, <2>4, <3>2 DEF HolderCounted
  <2>. QED
    BY <2>3, <2>4
<1>6. \A d \in Clients, m \in Nodes : Owed(d, m)' = Owed(d, m) /\ (Steady(d)' <=> Steady(d))
  BY <1>2 DEF Owed, Granted, Steady
<1>7. ASSUME NEW m \in Nodes \ {n}, maint[m] # Nil, NEW c \in InHand(m), Steady(c)'
      PROVE  (entries[m][c] > Owed(c, m))' \/ HolderCounted(c, m)'
  <2>1. c \in Clients
    BY <1>1, <1>7 DEF InHand, TypeOK, Maint
  <2>. QED
    BY <1>1, <1>2, <1>4, <1>6, <1>7, <2>1 DEF MaintInv, HolderCounted
<1>8. MaintInv'
  BY SMTT(20), <1>1, <1>4, <1>5, <1>7 DEF MaintInv, InHand
<1>. QED
  BY <1>2, <1>8, MaintMoves

(* A node of the holder that is asked has its entry, and is counted. *)
LEMMA AskStep ==
  ASSUME IInv, TypeOK', NEW n \in Nodes, NEW m \in Nodes,
         NEW held \in BOOLEAN, Ask(n, m, held),
         entries[m][maint[n].cur] > 0 => held,
         UNCHANGED <<entries, pc, locks, failed, call, rel, late, shaken>>,
         faults' = 0 => faults = 0
  PROVE  IInv'
<1>1. TypeOK /\ MaintInv /\ RecordInv /\ maint[n] \in Maint
  BY DEF IInv, TypeOK, Ask
<1>2. /\ maint'[n].cur = maint[n].cur /\ maint'[n].todo = maint[n].todo
      /\ maint'[n].left = maint[n].left \ {m}
      /\ maint'[n].count = IF held THEN maint[n].count + 1 ELSE maint[n].count
      /\ \A k \in Nodes \ {n} : maint'[k] = maint[k]
      /\ m \in maint[n].left /\ maint[n] # Nil
  BY <1>1 DEF Ask, TypeOK
<1>3. \A d \in Clients, k \in Nodes : Owed(d, k)' = Owed(d, k) /\ (Steady(d)' <=> Steady(d))
  BY DEF Owed, Granted, Steady
<1>4. ASSUME NEW c \in Clients, c = maint[n].cur, Steady(c), HolderCounted(c, n)
      PROVE  HolderCounted(c, n)'
  <2>1. locks[c] \ maint[n].left \subseteq Nodes /\ maint[n].count \in Nat
    BY <1>1 DEF TypeOK, Maint
  <2>2. /\ IsFiniteSet(locks[c] \ maint[n].left)
        /\ Cardinality(locks[c] \ maint[n].left) \in Nat
    BY <2>1, CountsAreNat
  <2>3. Cardinality(locks[c] \ maint[n].left) <= maint[n].count
    BY <1>4 DEF HolderCounted
  <2>4. CASE m \in locks[c]
    <3>1. entries[m][c] \in Nat /\ rel[c][m] \in Nat /\ entries[m][c] >= Owed(c, m)
      BY SMTT(20), <1>1, <1>4 DEF TypeOK, RecordInv
    <3>2. entries[m][c] > 0
      BY SMTT(20), <2>4, <3>1 DEF Owed, Granted
    <3>3. maint'[n].count = maint[n].count + 1
      BY <1>2, <1>4, <3>2
    <3>4. /\ locks[c] \ maint'[n].left = (locks[c] \ maint[n].left) \cup {m}
          /\ m \notin locks[c] \ maint[n].left
      BY <1>2, <2>4
    <3>5. Cardinality(locks[c] \ maint'[n].left) = Cardinality(locks[c] \ maint[n].left) + 1
      BY <2>2, <3>4, FS_AddElement
    <3>. QED
      BY SMTT(20), <1>4, <2>1, <2>2, <2>3, <3>3, <3>5 DEF HolderCounted
  <2>5. CASE m \notin locks[c]
    <3>1. locks[c] \ maint'[n].left = locks[c] \ maint[n].left
      BY <1>2, <2>5
    <3>2. maint'[n].count >= maint[n].count
      BY SMTT(20), <1>2, <2>1
    <3>3. maint'[n].count \in Nat
      BY SMTT(20), <1>2, <2>1
    <3>4. Cardinality(locks[c] \ maint'[n].left) <= maint'[n].count
      BY SMTT(20), <2>1, <2>2, <2>3, <3>1, <3>2, <3>3
    <3>. QED
      BY <1>4, <3>4 DEF HolderCounted
  <2>. QED
    BY <2>4, <2>5
<1>5. ASSUME NEW k \in Nodes, maint[k] # Nil, NEW c \in InHand(k), Steady(c)'
      PROVE  (entries[k][c] > Owed(c, k))' \/ HolderCounted(c, k)'
  <2>1. c \in Clients
    BY <1>1, <1>5 DEF InHand, TypeOK, Maint
  <2>2. Steady(c) /\ (entries[k][c] > Owed(c, k) \/ HolderCounted(c, k))
    BY <1>1, <1>3, <1>5, <2>1 DEF MaintInv
  <2>3. CASE entries[k][c] > Owed(c, k)
    BY <1>3, <2>1, <2>3
  <2>4. CASE HolderCounted(c, k) /\ k = n /\ c = maint[n].cur
    BY <1>4, <2>1, <2>2, <2>4
  <2>5. CASE HolderCounted(c, k) /\ ~(k = n /\ c = maint[n].cur)
    BY <1>2, <2>5 DEF HolderCounted
  <2>. QED
    BY <2>2, <2>3, <2>4, <2>5
<1>6. \A k \in Nodes : InHand(k)' = InHand(k) /\ (maint'[k] # Nil => maint[k] # Nil)
                       /\ maint'[k].cur = maint[k].cur /\ maint'[k].todo = maint[k].todo
  BY <1>2 DEF InHand
<1>7. MaintInv'
  BY <1>1, <1>5, <1>6 DEF MaintInv
<1>. QED
  BY <1>7, MaintMoves

(* What is purged is more than its client accounts for. *)
LEMMA PurgeStep ==
  ASSUME IInv, TypeOK', NEW n \in Nodes, Purge(n)
  PROVE  IInv'
<1>. DEFINE e == maint[n].cur
<1>1. /\ TypeOK /\ NodeInv /\ MaintInv /\ RecordInv /\ LeakInv
      /\ \A c \in Clients : ClientInv(c)
      /\ maint[n] # Nil /\ maint[n].left = {} /\ maint[n] \in Maint /\ e \in Clients
  BY DEF IInv, TypeOK, Purge, Maint
<1>2. UNCHANGED <<pc, locks, failed, call, rel, late, faults, shaken>>
  BY DEF Purge, client
<1>3. \A d \in Clients, m \in Nodes :
        /\ Owed(d, m)' = Owed(d, m) /\ (Steady(d)' <=> Steady(d))
        /\ Owed(d, m) \in Nat /\ entries[m][d] \in Nat
  BY SMTT(20), <1>1, <1>2 DEF Owed, Granted, Steady, TypeOK
<1>4. /\ entries'[n][e] = IF maint[n].count < PurgeQuorum(e) /\ entries[n][e] > 0
                          THEN entries[n][e] - 1 ELSE entries[n][e]
      /\ \A d \in Clients, m \in Nodes :
           <<d, m>> # <<e, n>> => entries'[m][d] = entries[m][d]
      /\ NodeInv'
  <2>1. CASE maint[n].count < PurgeQuorum(e)
    BY <1>1, <2>1, RemovedEntry DEF Purge
  <2>2. CASE ~(maint[n].count < PurgeQuorum(e))
    BY <1>1, <2>2 DEF Purge, NodeInv
  <2>. QED
    BY <2>1, <2>2
<1>5. ASSUME maint[n].count < PurgeQuorum(e), Steady(e)
      PROVE  entries[n][e] > Owed(e, n)
  <2>1. SUFFICES ASSUME HolderCounted(e, n)
                 PROVE  FALSE
    BY <1>1, <1>5 DEF MaintInv, InHand
  <2>2. locks[e] \ maint[n].left = locks[e]
    BY <1>1
  <2>3. Cardinality(locks[e]) <= maint[n].count /\ QuorumMet(e)
    BY <1>1, <2>1, <2>2 DEF HolderCounted, ClientInv
  <2>4. Cardinality(locks[e]) \in Nat /\ maint[n].count \in Nat
    BY <1>1, CountsAreNat DEF TypeOK, Maint
  <2>5. /\ Quorum(e) \in Nat /\ PurgeQuorum(e) \in Nat /\ PurgeQuorum(e) <= Quorum(e)
    <3>1. N \in Nat
      BY CountsAreNat DEF N
    <3>. QED
      BY SMTT(20), <1>1, <3>1, QuorumFacts DEF PurgeQuorum
  <2>. QED
    BY SMTT(20), <1>5, <2>3, <2>4, <2>5 DEF QuorumMet
<1>6. RecordInv'
  <2>. SUFFICES ASSUME NEW d \in Clients, NEW m \in Nodes, Steady(d)'
                PROVE  (entries[m][d] >= Owed(d, m))'
    BY DEF RecordInv
  <2>1. /\ Steady(d) /\ entries[m][d] >= Owed(d, m) /\ Owed(d, m)' = Owed(d, m)
        /\ Owed(d, m) \in Nat /\ entries[m][d] \in Nat
    BY <1>1, <1>3 DEF RecordInv
  <2>2. CASE <<d, m>> = <<e, n>>
    BY SMTT(20), <1>4, <1>5, <2>1, <2>2
  <2>3. CASE <<d, m>> # <<e, n>>
    BY <1>4, <2>1, <2>3
  <2>. QED
    BY <2>2, <2>3
<1>7. LeakInv'
  <2>1. \A d \in Clients, m \in Nodes : entries'[m][d] <= entries[m][d]
    BY SMTT(20), <1>1, <1>3, <1>4
  <2>2. \A d \in Clients, m \in Nodes : entries'[m][d] \in Nat
    BY DEF TypeOK
  <2>. QED
    BY SMTT(20), <1>1, <1>2, <1>3, <2>1, <2>2 DEF LeakInv
<1>8. \A d \in Clients : ClientInv(d)'
  BY <1>1, <1>2, ClientOther DEF Same
<1>9. /\ \A m \in Nodes \ {n} : maint'[m] = maint[m]
      /\ \/ maint'[n] = Nil
         \/ /\ InHand(n)' \subseteq maint[n].todo /\ maint'[n].left = Nodes
            /\ maint'[n].cur \notin maint'[n].todo /\ maint'[n].count \in Nat
  <2>1. CASE maint' = [maint EXCEPT ![n] = Nil]
    BY <1>1, <2>1 DEF TypeOK
  <2>2. ASSUME NEW c \in maint[n].todo, maint' = [maint EXCEPT ![n] =
                 [todo |-> @.todo \ {c}, cur |-> c, left |-> Nodes, count |-> @.count]]
        PROVE  <1>9!:
    BY <1>1, <2>2 DEF TypeOK, InHand, Maint
  <2>. QED
    BY <2>1, <2>2 DEF Purge, NextEntry
<1>10. ASSUME NEW m \in Nodes, maint'[m] # Nil, NEW c \in InHand(m)', Steady(c)'
       PROVE  (entries[m][c] > Owed(c, m))' \/ HolderCounted(c, m)'
  <2>1. CASE m = n
    <3>1. /\ c \in Clients /\ c \in maint[n].todo /\ c # e /\ c \in InHand(n)
          /\ maint'[n].left = Nodes /\ maint'[n].count \in Nat
      BY <1>1, <1>9, <1>10, <2>1 DEF MaintInv, InHand, Maint
    <3>2. entries[n][c] > Owed(c, n) \/ HolderCounted(c, n)
      BY <1>1, <1>3, <1>10, <3>1 DEF MaintInv
    <3>3. CASE entries[n][c] > Owed(c, n)
      BY <1>3, <1>4, <2>1, <3>1, <3>3
    <3>4. CASE HolderCounted(c, n)
      <4>1. locks[c] \ Nodes = {}
        BY <1>1, <3>1 DEF TypeOK
      <4>2. Cardinality(locks[c] \ Nodes) = 0
        BY <4>1, FS_EmptySet
      <4>. QED
        BY SMTT(20), <1>2, <2>1, <3>1, <3>4, <4>2 DEF HolderCounted
    <3>. QED
      BY <3>2, <3>3, <3>4
  <2>2. CASE m # n
    <3>1. maint'[m] = maint[m] /\ c \in InHand(m) /\ c \in Clients
      BY <1>1, <1>9, <1>10, <2>2 DEF InHand, TypeOK, Maint
    <3>2. entries[m][c] > Owed(c, m) \/ HolderCounted(c, m)
      BY <1>1, <1>3, <1>10, <3>1 DEF MaintInv
    <3>. QED
      BY <1>2, <1>3, <1>4, <2>2, <3>1, <3>2 DEF HolderCounted
  <2>. QED
    BY <2>1, <2>2
<1>11. MaintInv'
  BY <1>1, <1>9, <1>10 DEF MaintInv
<1>. QED
  BY <1>4, <1>6, <1>7, <1>8, <1>11 DEF IInv

-----------------------------------------------------------------------------
(* A restart: only clients that are still idle stay steady. *)
LEMMA RestartStep ==
  ASSUME IInv, TypeOK', NEW n \in Nodes, Restart(n)
  PROVE  IInv'
<1>1. TypeOK /\ NodeInv /\ MaintInv /\ \A c \in Clients : ClientInv(c)
  BY DEF IInv
<1>2. /\ \A m \in Nodes, c \in Clients :
           entries'[m][c] = IF m = n THEN 0 ELSE entries[m][c]
      /\ maint'[n] = Nil /\ \A m \in Nodes \ {n} : maint'[m] = maint[m]
  BY <1>1 DEF Restart, TypeOK
<1>3. \A c \in Clients : Home[c] = n =>
        /\ pc'[c] = "done" /\ locks'[c] = {} /\ \A m \in Nodes : call'[c][m] = "none"
  BY DEF Restart
<1>4. \A c \in Clients : Home[c] # n => Same(c)
  BY DEF Restart, Same
<1>5. shaken' = shaken \cup {c \in Clients : pc[c] # "idle"}
  BY DEF Restart
<1>6. NodeInv'
  BY SMTT(20), <1>1, <1>2 DEF NodeInv, Clients
<1>7. \A c \in Clients : ClientInv(c)'
  <2>1. ASSUME NEW c \in Clients, Home[c] = n
        PROVE  ClientInv(c)'
    BY <1>3, <2>1 DEF ClientInv
  <2>2. ASSUME NEW c \in Clients, Home[c] # n
        PROVE  ClientInv(c)'
    BY <1>1, <1>4, <2>2, ClientOther
  <2>. QED
    BY <2>1, <2>2
<1>8. ASSUME NEW c \in Clients, Steady(c)'
      PROVE  /\ Steady(c) /\ pc[c] = "idle"
             /\ \A m \in Nodes : Owed(c, m) = 0 /\ Owed(c, m)' = 0
  <2>1. Steady(c) /\ pc[c] = "idle" /\ Same(c)
    BY <1>3, <1>4, <1>5, <1>8 DEF Steady
  <2>2. \A m \in Nodes : Owed(c, m) = 0
    BY SMTT(20), <1>1, <2>1 DEF ClientInv, Owed, Granted
  <2>3. \A m \in Nodes : Owed(c, m)' = Owed(c, m)
    BY <2>1 DEF Same, Owed, Granted
  <2>. QED
    BY <2>1, <2>2, <2>3
<1>9. RecordInv'
  <2>1. \A m \in Nodes, c \in Clients : entries'[m][c] \in Nat
    BY DEF TypeOK
  <2>. QED
    BY SMTT(20), <1>8, <2>1 DEF RecordInv
<1>10. ASSUME NEW m \in Nodes, maint'[m] # Nil, NEW c \in InHand(m)', Steady(c)'
       PROVE  (entries[m][c] > Owed(c, m))'
  <2>1. m # n /\ maint'[m] = maint[m] /\ c \in InHand(m) /\ c \in Clients
    BY <1>1, <1>2, <1>10 DEF InHand, TypeOK, Maint
  <2>2. entries[m][c] > Owed(c, m) \/ HolderCounted(c, m)
    BY <1>1, <1>8, <1>10, <2>1 DEF MaintInv
  <2>. QED
    BY <1>2, <1>8, <1>10, <2>1, <2>2 DEF HolderCounted
<1>11. MaintInv'
  BY <1>1, <1>2, <1>10 DEF MaintInv
<1>12. LeakInv'
  BY <1>1, FaultLeak DEF Restart
<1>. QED
  BY <1>6, <1>7, <1>9, <1>11, <1>12 DEF IInv

-----------------------------------------------------------------------------
LEMMA Inductive ==
  ASSUME IInv, [Next]_vars
  PROVE  IInv'
<1>1. TypeOK'
  BY TypeStep DEF IInv
<1>2. ASSUME NEW c \in Clients, ClientStep(c) \/ GiveUp(c)
      PROVE  IInv'
  BY <1>1, <1>2, LockStep, GrantStep, RefuseStep, TimeoutStep, LateGrantStep,
     ReturnStep, EndStep DEF ClientStep
<1>3. ASSUME NEW c \in Clients, NEW n \in Nodes,
             \/ NodeStep(c, n) \/ AnswerLost(c, n)
             \/ CallFails(c, n) \/ ReleaseLost(c, n)
      PROVE  IInv'
  BY <1>1, <1>3, HandleLockStep, LateCallStep, HandleReleaseStep, AnswerLostStep,
     CallFailsStep, ReleaseLostStep DEF NodeStep
<1>4. ASSUME NEW n \in Nodes, NEW S \in SUBSET Due(n), GetLongLivedLocks(n, S)
      PROVE  IInv'
  BY <1>1, <1>4, GetLongLivedLocksStep
<1>5. ASSUME NEW n \in Nodes, NEW m \in Nodes, Expired(n, m)
      PROVE  IInv'
  <2>. DEFINE h == entries[m][maint[n].cur] > 0
  <2>1. h \in BOOLEAN /\ Ask(n, m, h) /\ (h => h)
    BY SMTT(20), <1>5 DEF Expired
  <2>2. UNCHANGED <<entries, pc, locks, failed, call, rel, late, faults, shaken>>
    BY <1>5 DEF Expired, client
  <2>. QED
    BY <1>1, <2>1, <2>2, AskStep
<1>6. ASSUME NEW n \in Nodes, NEW m \in Nodes, ExpiredFails(n, m)
      PROVE  IInv'
  <2>1. Ask(n, m, TRUE) /\ Fault
    BY <1>6 DEF ExpiredFails
  <2>2. UNCHANGED <<entries, pc, locks, failed, call, rel, late, shaken>>
    BY <1>6 DEF ExpiredFails, client
  <2>3. faults' = 0 => faults = 0
    BY SMTT(20), <2>1 DEF Fault, IInv, TypeOK
  <2>. QED
    BY <1>1, <2>1, <2>2, <2>3, AskStep
<1>7. ASSUME NEW n \in Nodes, Purge(n) \/ Restart(n)
      PROVE  IInv'
  BY <1>1, <1>7, PurgeStep, RestartStep
<1>8. ASSUME UNCHANGED vars
      PROVE  IInv'
  <2>1. MaintInv'
    BY <1>8 DEF IInv, MaintInv, InHand, HolderCounted, Steady, Owed, Granted,
       vars, server, client
  <2>. QED
    BY <1>1, <1>8, <2>1, MaintMoves DEF vars, server, client
<1>9. ASSUME NEW n \in Nodes, Maintain(n)
      PROVE  IInv'
  BY <1>4, <1>5, <1>7, <1>9 DEF Maintain
<1>. QED
  BY <1>2, <1>3, <1>4, <1>6, <1>7, <1>8, <1>9 DEF Next

LEMMA Initial == Init => IInv
<1>. SUFFICES ASSUME Init
              PROVE  IInv
  OBVIOUS
<1>1. TypeOK
  BY TypeInit
<1>2. NodeInv /\ RecordInv /\ MaintInv /\ LeakInv
  BY SMTT(20) DEF Init, NodeInv, RecordInv, MaintInv, LeakInv, Owed, Granted, Clients
<1>3. \A c \in Clients : ClientInv(c)
  BY DEF Init, ClientInv
<1>. QED
  BY <1>1, <1>2, <1>3 DEF IInv

LEMMA Invariant == Spec => []IInv
BY Initial, Inductive, PTL DEF Spec

-----------------------------------------------------------------------------
(* The types of the lock's state: no counter of drwmutex.go or of a locker *)
(* goes below zero, however calls and releases fail or cross.              *)
THEOREM TypeCorrect == Spec => []TypeOK
BY Invariant, PTL DEF IInv

(***************************************************************************)
(* The mutual exclusion of DRWMutex: with any number of nodes, clients,    *)
(* attempts and faults, a writer that holds the lock, and was not locking  *)
(* during a restart, holds it alone among such clients.                    *)
(***************************************************************************)
THEOREM LockExcludes == Spec => []Exclusion
<1>1. IInv => Exclusion
  <2>. SUFFICES ASSUME IInv, NEW c \in Writers \ shaken, NEW d \in Clients \ shaken,
                       pc[c] = "held", pc[d] = "held"
                PROVE  c = d
    BY DEF Exclusion
  <2>1. c \in Clients /\ QuorumMet(c) /\ QuorumMet(d)
    BY DEF IInv, ClientInv, Clients
  <2>2. PICK n \in Nodes : n \in locks[c] /\ n \in locks[d]
    BY <2>1, QuorumsOverlap DEF IInv
  <2>3. entries[n][c] >= Owed(c, n) /\ entries[n][d] >= Owed(d, n)
    BY <2>1 DEF IInv, RecordInv, Steady
  <2>4. /\ entries[n][c] \in Nat /\ entries[n][d] \in Nat
        /\ rel[c][n] \in Nat /\ rel[d][n] \in Nat
    BY <2>1 DEF IInv, TypeOK
  <2>5. entries[n][c] > 0 /\ entries[n][d] > 0
    BY SMTT(20), <2>2, <2>3, <2>4 DEF Owed, Granted
  <2>. QED
    BY <2>5 DEF IInv, NodeInv
<1>. QED
  BY <1>1, Invariant, PTL

(* Neither late releases nor lockMaintenance take an entry that a holder   *)
(* counts on from its locker.                                              *)
THEOREM HoldersStayRecorded == Spec => []HeldIsRecorded
<1>1. IInv => HeldIsRecorded
  <2>. SUFFICES ASSUME IInv, NEW c \in Clients \ shaken, pc[c] = "held", NEW n \in locks[c]
                PROVE  entries[n][c] > 0
    BY DEF HeldIsRecorded
  <2>1. n \in Nodes /\ entries[n][c] >= Owed(c, n)
    BY DEF IInv, TypeOK, RecordInv, Steady
  <2>2. entries[n][c] \in Nat /\ rel[c][n] \in Nat
    BY <2>1 DEF IInv, TypeOK
  <2>. QED
    BY SMTT(20), <2>1, <2>2 DEF Owed, Granted
<1>. QED
  BY <1>1, Invariant, PTL

(* Without faults, an attempt that failed and a lock that was released     *)
(* leave nothing at a locker that no release will remove.                  *)
THEOREM NothingLeaks == Spec => []NothingIsLeaked
<1>1. IInv => NothingIsLeaked
  <2>. SUFFICES ASSUME IInv, faults = 0, NEW c \in Clients,
                       pc[c] \in {"retry", "done"}, NEW n \in Nodes
                PROVE  entries[n][c] <= rel[c][n]
    BY DEF NothingIsLeaked
  <2>1. ClientInv(c) /\ TypeOK
    BY DEF IInv
  <2>2. locks[c] = {} /\ call[c][n] = "none"
    BY <2>1 DEF ClientInv
  <2>3. rel[c][n] \in Nat
    BY <2>1 DEF TypeOK
  <2>. QED
    BY SMTT(20), <2>2, <2>3 DEF IInv, LeakInv, Owed, Granted
<1>. QED
  BY <1>1, Invariant, PTL
=============================================================================
