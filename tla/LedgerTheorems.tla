--------------------------- MODULE LedgerTheorems ---------------------------
(***************************************************************************)
(* What the bucket locks achieve, for any number of buckets, objects and   *)
(* goroutines: no data race, objects that name their own key, a creation   *)
(* only where no bucket is, a cache that agrees with the datastore, and an *)
(* implementation of AtomicLedger.                                         *)
(***************************************************************************)
EXTENDS LedgerInvariants, AtomicSteps, FiniteSetTheorems

(* The leaves below are set and function reasoning, which Zenon does best;  *)
(* those that need the SMT solver cite it.                                  *)
USE ZenonT(30)

-----------------------------------------------------------------------------
(* The page of a listing                                                    *)

(* A finite set of names that is not empty has a first and a last name. *)
LEMMA FirstAndLast ==
  ASSUME NEW S \in SUBSET Int, IsFiniteSet(S), S # {}
  PROVE  /\ \E x \in S : \A y \in S : x <= y
         /\ \E x \in S : \A y \in S : y <= x
<1>1. IsWellFoundedOn(StrictSubsetOrdering(S), SUBSET S)
  <2>1. FiniteSubsetsOf(S) = SUBSET S
    BY FS_FiniteSubsetsOfFinite
  <2>2. IsWellFoundedOn(StrictSubsetOrdering(S), FiniteSubsetsOf(S))
    BY FS_StrictSubsetOrderingWellFounded
  <2> QED
    BY <2>1, <2>2
<1>2. \E x \in S : \A y \in S : x <= y
  <2> DEFINE B(x) == {m \in S : m < x}
             T == {B(x) : x \in S}
  <2>1. T \subseteq SUBSET S /\ T # {}
    OBVIOUS
  <2> HIDE DEF T
  <2>2. PICK t \in T : \A u \in T : ~(<<u, t>> \in StrictSubsetOrdering(S))
    BY <1>1, <2>1, WFMin
  <2>3. PICK x \in S : t = B(x)
    BY DEF T
  <2>4. ASSUME NEW y \in S, ~(x <= y) PROVE FALSE
    <3>1. y < x /\ ~(y < y) /\ \A m \in Int : m < y => m < x
      BY <2>4, SMTT(20)
    <3>2. B(y) \subseteq B(x) /\ B(y) # B(x)
      BY <3>1
    <3>3. B(y) \in SUBSET S /\ B(x) \in SUBSET S /\ B(y) \in T
      BY DEF T
    <3> HIDE DEF B
    <3>4. <<B(y), B(x)>> \in StrictSubsetOrdering(S)
      BY <3>2, <3>3, SMTT(20) DEF StrictSubsetOrdering
    <3> QED
      BY <2>2, <2>3, <3>3, <3>4
  <2> QED
    BY <2>4
<1>3. \E x \in S : \A y \in S : y <= x
  <2> DEFINE B(x) == {m \in S : x < m}
             T == {B(x) : x \in S}
  <2>1. T \subseteq SUBSET S /\ T # {}
    OBVIOUS
  <2> HIDE DEF T
  <2>2. PICK t \in T : \A u \in T : ~(<<u, t>> \in StrictSubsetOrdering(S))
    BY <1>1, <2>1, WFMin
  <2>3. PICK x \in S : t = B(x)
    BY DEF T
  <2>4. ASSUME NEW y \in S, ~(y <= x) PROVE FALSE
    <3>1. x < y /\ ~(y < y) /\ \A m \in Int : y < m => x < m
      BY <2>4, SMTT(20)
    <3>2. B(y) \subseteq B(x) /\ B(y) # B(x)
      BY <3>1
    <3>3. B(y) \in SUBSET S /\ B(x) \in SUBSET S /\ B(y) \in T
      BY DEF T
    <3> HIDE DEF B
    <3>4. <<B(y), B(x)>> \in StrictSubsetOrdering(S)
      BY <3>2, <3>3, SMTT(20) DEF StrictSubsetOrdering
    <3> QED
      BY <2>2, <2>3, <3>3, <3>4
  <2> QED
    BY <2>4
<1> QED
  BY <1>2, <1>3

(* P holds the first names of M. *)
Initial(P, M) == P \subseteq M /\ \A n \in P, m \in M : m < n => m \in P

(* Of two initial segments of M, those of one size are the same. *)
LEMMA InitialUnique ==
  ASSUME NEW M \in SUBSET Int, IsFiniteSet(M), NEW P, NEW Q, Initial(P, M), Initial(Q, M),
         Cardinality(P) = Cardinality(Q)
  PROVE  P = Q
<1>1. ASSUME NEW A, NEW B, Initial(A, M), Initial(B, M), ~(A \subseteq B)
      PROVE  B \subseteq A
  <2>1. PICK x \in A : x \notin B
    BY <1>1
  <2>2. ASSUME NEW y \in B PROVE y \in A
    <3>1. x \in Int /\ y \in Int /\ x \in M /\ y \in M
      BY <1>1 DEF Initial
    <3>2. x < y \/ x = y \/ y < x
      BY <3>1, SMTT(20)
    <3> QED
      BY <1>1, <2>1, <3>1, <3>2 DEF Initial
  <2> QED
    BY <2>2
<1>2. P \subseteq Q \/ Q \subseteq P
  BY <1>1
<1>3. IsFiniteSet(P) /\ IsFiniteSet(Q)
  BY FS_Subset DEF Initial
<1> QED
  BY <1>2, <1>3, FS_Subset

(***************************************************************************)
(* The names of M with fewer than k names of M before them: all of M, or   *)
(* its first k.                                                            *)
(***************************************************************************)
First(k, M) == {n \in M : Cardinality({m \in M : m < n}) < k}

LEMMA FirstSize ==
  ASSUME NEW M \in SUBSET Int, IsFiniteSet(M), NEW k \in Nat
  PROVE  /\ Initial(First(k, M), M)
         /\ Cardinality(M) <= k => First(k, M) = M
         /\ Cardinality(M) > k => Cardinality(First(k, M)) = k
<1> DEFINE B(n) == {m \in M : m < n}
           P == First(k, M)
<1>0. \A n \in M : B(n) \in SUBSET M /\ n \notin B(n)
  <2>1. \A n \in Int : ~(n < n)
    BY SMTT(20)
  <2> QED
    BY <2>1
<1>1. Cardinality(M) \in Nat
      /\ \A n \in M : IsFiniteSet(B(n)) /\ Cardinality(B(n)) \in Nat
  BY <1>0, FS_Subset, FS_CardinalityType
<1>2. P \subseteq M /\ IsFiniteSet(P) /\ Cardinality(P) \in Nat
      /\ \A n \in M : n \in P <=> Cardinality(B(n)) < k
  <2>1. P \subseteq M /\ \A n \in M : n \in P <=> Cardinality(B(n)) < k
    BY DEF First
  <2> HIDE DEF P
  <2> QED
    BY <2>1, FS_Subset, FS_CardinalityType
<1> HIDE DEF P
<1>3. Initial(P, M)
  <2> SUFFICES ASSUME NEW n \in P, NEW m \in M, m < n PROVE m \in P
    BY <1>2 DEF Initial
  <2>1. n \in M
    BY <1>2
  <2>2. \A x \in M : x < m => x < n
    BY <2>1, SMTT(20)
  <2>3. B(m) \in SUBSET B(n)
    BY <2>2
  <2>4. Cardinality(B(m)) <= Cardinality(B(n)) /\ Cardinality(B(n)) < k
    <3> HIDE DEF B
    <3> QED
      BY <1>1, <1>2, <2>1, <2>3, FS_Subset
  <2>5. Cardinality(B(m)) < k
    <3> HIDE DEF B
    <3> QED
      BY <1>1, <2>1, <2>4, SMTT(20)
  <2> QED
    BY <1>2, <2>5
<1>4. ASSUME Cardinality(M) <= k PROVE P = M
  <2>1. ASSUME NEW n \in M PROVE Cardinality(B(n)) < k
    <3>1. B(n) # M /\ B(n) \in SUBSET M
      BY <1>0
    <3> HIDE DEF B
    <3>2. Cardinality(B(n)) <= Cardinality(M) /\ Cardinality(M) # Cardinality(B(n))
      BY <3>1, FS_Subset
    <3> QED
      BY <1>1, <1>4, <3>2, SMTT(20)
  <2> QED
    BY <1>2, <2>1
<1>5. ASSUME Cardinality(M) > k PROVE Cardinality(P) = k
  <2>1. Cardinality(P) <= k
    <3>1. CASE P = {}
      BY <3>1, FS_EmptySet, SMTT(20)
    <3>2. CASE P # {}
      <4>1. PICK x \in P : \A y \in P : y <= x
        <5>1. P \in SUBSET Int
          BY <1>2
        <5> QED
          BY <1>2, <3>2, <5>1, FirstAndLast
      <4>2. x \in M
        BY <1>2
      <4>3. \A y \in P : y # x => y < x
        BY <1>2, <4>1, SMTT(20)
      <4>4. P \ {x} = B(x)
        <5>1. P \ {x} \subseteq B(x)
          BY <1>2, <4>3
        <5>2. B(x) \subseteq P \ {x}
          BY <1>0, <1>3, <4>2 DEF Initial
        <5> QED
          BY <5>1, <5>2
      <4> HIDE DEF B
      <4>5. Cardinality(P \ {x}) = Cardinality(P) - 1
        BY <1>2, FS_RemoveElement
      <4>6. Cardinality(B(x)) < k
        BY <1>2, <4>2
      <4> QED
        BY <1>2, <4>4, <4>5, <4>6, SMTT(20)
    <3> QED
      BY <3>1, <3>2
  <2>2. M \ P # {}
    <3> SUFFICES ASSUME M \ P = {} PROVE FALSE
      OBVIOUS
    <3>1. P = M
      BY <1>2
    <3> QED
      BY <1>5, <1>1, <2>1, <3>1, SMTT(20)
  <2>3. PICK x \in M \ P : \A y \in M \ P : x <= y
    <3>1. M \ P \in SUBSET Int /\ IsFiniteSet(M \ P)
      BY FS_Subset
    <3> QED
      BY <2>2, <3>1, FirstAndLast
  <2>4. B(x) \subseteq P
    <3>1. \A y \in M : y < x => ~(x <= y)
      BY SMTT(20)
    <3> QED
      BY <2>3, <3>1
  <2>5. ~(Cardinality(B(x)) < k)
    BY <1>2
  <2> HIDE DEF B
  <2>6. Cardinality(B(x)) <= Cardinality(P) /\ Cardinality(B(x)) \in Nat
    BY <1>1, <1>2, <2>4, FS_Subset
  <2> QED
    BY <1>2, <2>1, <2>5, <2>6, SMTT(20)
<1> QED
  BY <1>3, <1>4, <1>5 DEF P

(***************************************************************************)
(* The page that GetObjectInfos picks by counting is the listing that the  *)
(* abstract ledger asks for.                                               *)
(***************************************************************************)
LEMMA PageIsListing ==
  ASSUME NEW objs, NEW r, r.prefix \in SUBSET Objects, r.from \in Int, r.max \in Nat
  PROVE  AL!Listing(objs, r) = Page(objs, r)
<1> DEFINE M == {n \in Objects : objs[n] # Nil /\ n \in r.prefix /\ r.from <= n}
           C(P) == /\ \A n \in P, m \in M : m < n => m \in P
                   /\ IF r.max > 0 /\ Cardinality(M) > r.max
                      THEN Cardinality(P) = r.max ELSE P = M
<1>1. {n \in r.prefix : objs[n] # Nil /\ ~(n < r.from)} = M
  <2>1. \A n \in Int : ~(n < r.from) <=> r.from <= n
    BY SMTT(20)
  <2> QED
    BY <2>1, NamesAreOrdered
<1>2. M \in SUBSET Int /\ IsFiniteSet(M)
  <2>1. M \in SUBSET Objects
    OBVIOUS
  <2> HIDE DEF M
  <2> QED
    BY <2>1, NamesAreOrdered, FinitelyManyObjects, FS_Subset
<1>3. AL!Listing(objs, r) = CHOOSE P \in SUBSET M : C(P)
  <2> DEFINE N == {n \in r.prefix : objs[n] # Nil /\ ~(n < r.from)}
             L(X) == CHOOSE P \in SUBSET X :
                       /\ \A n \in P, m \in X : m < n => m \in P
                       /\ IF r.max > 0 /\ Cardinality(X) > r.max
                          THEN Cardinality(P) = r.max ELSE P = X
  <2>1. AL!Listing(objs, r) = L(N)
    BY DEF AL!Listing, AL!Cardinality, Cardinality
  <2>2. L(N) = L(M)
    <3> HIDE DEF L, N, M
    <3> QED
      BY <1>1 DEF N
  <2> QED
    BY <2>1, <2>2
<1>4. Page(objs, r) = IF r.max > 0 THEN First(r.max, M) ELSE M
  <2>1. Page(objs, r) =
          {n \in M : r.max > 0 => Cardinality({m \in M : m < n}) < r.max}
    BY DEF Page
  <2> HIDE DEF M
  <2>2. CASE r.max > 0
    BY <2>1, <2>2 DEF First
  <2>3. CASE ~(r.max > 0)
    BY <2>1, <2>3
  <2> QED
    BY <2>2, <2>3
<1> HIDE DEF M
<1>5. Cardinality(M) \in Nat
  BY <1>2, FS_CardinalityType
<1>6. CASE r.max > 0 /\ Cardinality(M) > r.max
  <2> DEFINE P0 == First(r.max, M)
  <2>1. Initial(P0, M) /\ Cardinality(P0) = r.max
    BY <1>2, <1>6, FirstSize
  <2> HIDE DEF P0
  <2>2. P0 \in SUBSET M /\ C(P0)
    BY <1>6, <2>1 DEF Initial
  <2>3. ASSUME NEW P \in SUBSET M, C(P) PROVE P = P0
    <3>1. Initial(P, M) /\ Cardinality(P) = Cardinality(P0)
      BY <1>6, <2>1, <2>3 DEF Initial
    <3> QED
      BY <1>2, <2>1, <3>1, InitialUnique
  <2> HIDE DEF C
  <2>4. (CHOOSE P \in SUBSET M : C(P)) = P0
    BY <2>2, <2>3
  <2> QED
    BY <1>3, <1>4, <1>6, <2>4 DEF P0
<1>7. CASE ~(r.max > 0 /\ Cardinality(M) > r.max)
  <2>1. C(M) /\ M \in SUBSET M
    BY <1>7
  <2>2. \A P \in SUBSET M : C(P) => P = M
    BY <1>7
  <2> HIDE DEF C
  <2>3. (CHOOSE P \in SUBSET M : C(P)) = M
    BY <2>1, <2>2
  <2>4. Page(objs, r) = M
    <3>1. CASE r.max > 0
      <4>1. Cardinality(M) <= r.max
        BY <1>5, <1>7, <3>1, SMTT(20)
      <4> QED
        BY <1>2, <1>4, <3>1, <4>1, FirstSize
    <3>2. CASE ~(r.max > 0)
      BY <1>4, <3>2
    <3> QED
      BY <3>1, <3>2
  <2> QED
    BY <1>3, <2>3, <2>4
<1> QED
  BY <1>6, <1>7

-----------------------------------------------------------------------------
(* Results                                                                  *)

(***************************************************************************)
(* The types, the locks and the names, which no failure and no restart     *)
(* disturbs.                                                               *)
(***************************************************************************)
LEMMA HeldInit == Init => Held
BY BaseInit, NameInit, LockInit DEF Held

LEMMA HeldNext == Held /\ [Next]_vars => Held'
BY BaseNext, NameNext, LockNext DEF Held

LEMMA HeldHolds == Spec => []Held
<1>1. Init => Held
  BY HeldInit
<1>2. Held /\ [Next]_vars => Held'
  BY HeldNext
<1> QED
  BY <1>1, <1>2, PTL DEF Spec

(***************************************************************************)
(* InfoMatchesKey holds in every reachable state: an object's ObjectInfo   *)
(* names the bucket and the key it is stored under, also after CopyObject, *)
(* for every number of buckets, objects and goroutines, whatever calls     *)
(* fail and whenever the process restarts.                                 *)
(***************************************************************************)
THEOREM InfosMatchKeys == Spec => []InfoMatchesKey
<1>1. Held => InfoMatchesKey
  BY DEF Held, NameInv, InfoMatchesKey, Good
<1> QED
  BY <1>1, HeldHolds, PTL

(***************************************************************************)
(* NoDataRace holds in every reachable state: the bucket locks keep every  *)
(* goroutine off a Bucket message that another one changes in place, since *)
(* two goroutines hold the same entry only for the same bucket.            *)
(***************************************************************************)
THEOREM RaceFree == Spec => []NoDataRace
<1>1. Held => NoDataRace
  BY NoRace DEF Held
<1> QED
  BY <1>1, HeldHolds, PTL

(***************************************************************************)
(* CreatesOnlyIfAbsent holds of every behaviour in which every lookup is   *)
(* locked: the write of a CreateBucket never replaces a bucket, whatever   *)
(* calls fail and whenever the process restarts.  An unlocked lookup may   *)
(* record a bucket as missing that has been created since.                 *)
(***************************************************************************)
THEOREM CreateIsFresh == LockedLookups => (Spec => CreatesOnlyIfAbsent)
<1> SUFFICES ASSUME LockedLookups PROVE Spec => CreatesOnlyIfAbsent
  OBVIOUS
<1> DEFINE I == BaseInv /\ (\A q \in Procs : LockInv(q)) /\ AbsentInv
           A == \A p \in Procs :
                  DsPut(p) /\ req[p].op = "CreateBucket" => ds[req[p].b] = Nil
<1>1. Init => I
  BY BaseInit, LockInit, AbsentInit
<1>2. I /\ [Next]_vars => I'
  BY BaseNext, LockNext, AbsentNext
<1>3. I => A
  BY DEF AbsentInv, AbsentLocal, DsPut
<1>4. CreatesOnlyIfAbsent <=> [][A]_vars
  BY DEF CreatesOnlyIfAbsent
<1> HIDE DEF I, A
<1> QED
  BY <1>1, <1>2, <1>3, <1>4, PTL DEF Spec

(***************************************************************************)
(* CacheCoherent holds in every reachable state when every lookup is       *)
(* locked and saveBucket's calls succeed, whatever else fails and whenever *)
(* the process restarts: outside a commit, what the map holds for a bucket *)
(* is what the datastore holds.  Neither hypothesis can be dropped: an     *)
(* unlocked lookup may record as missing a bucket that was created while   *)
(* it asked, and a failed write leaves in the map a change that was not    *)
(* stored.                                                                 *)
(***************************************************************************)
THEOREM CacheIsCoherent ==
  LockedLookups /\ SavesSucceed => (Spec => []CacheCoherent)
<1> SUFFICES ASSUME LockedLookups, SavesSucceed PROVE Spec => []CacheCoherent
  OBVIOUS
<1>1. Init => Held /\ CoherentInv
  BY HeldInit, CoherentInit
<1>2. Held /\ CoherentInv /\ [Next]_vars => (Held /\ CoherentInv)'
  <2>1. Held /\ [Next]_vars => Held'
    BY HeldNext
  <2> QED
    BY <2>1, CoherentNext
<1>3. Held /\ CoherentInv => CacheCoherent
  BY Distinct DEF CoherentInv, Coherent, Matches, CacheCoherent
<1> QED
  BY <1>1, <1>2, <1>3, PTL DEF Spec

(***************************************************************************)
(* Atomic: the ledger implements AtomicLedger when every lookup is locked  *)
(* and saveBucket's calls succeed.  Whatever requests run at the same time *)
(* and whenever the process restarts, every answer is the one the          *)
(* sequential specification gives on the datastore of some instant between *)
(* call and return, and the datastore changes as it says at that instant.  *)
(***************************************************************************)
THEOREM LedgerIsAtomic ==
  LockedLookups /\ SavesSucceed => (Spec => Atomic)
<1> SUFFICES ASSUME LockedLookups, SavesSucceed PROVE Spec => Atomic
  OBVIOUS
<1> DEFINE Inv == Held /\ CoherentInv /\ MadeInv /\ AtomicInv
<1>1. Init => Inv
  <2>1. Init => MadeInv
    BY DEF Init, MadeInv
  <2> QED
    BY <2>1, HeldInit, CoherentInit, ServeInit
<1>2. Inv /\ [Next]_vars => Inv' /\ [AL!Next]_(AL!vars)
  <2> SUFFICES ASSUME Inv, [Next]_vars PROVE Inv' /\ [AL!Next]_(AL!vars)
    OBVIOUS
  <2>0. Held'
    BY HeldNext
  <2>1. Held' /\ CoherentInv'
    BY <2>0, CoherentNext
  <2>2. MadeInv'
    BY MadeNext DEF Held
  <2>3. AtomicInv' /\ [AL!Next]_(AL!vars)
    BY <2>1, PageIsListing, AtomicNext DEF PagesAreListings
  <2> QED
    BY <2>1, <2>2, <2>3
<1>3. Init => AL!Init
  BY DEF Init, AL!Init
<1> HIDE DEF Inv
<1> QED
  BY <1>1, <1>2, <1>3, PTL DEF Spec, Atomic, AL!Spec
=============================================================================
