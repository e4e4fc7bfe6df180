---------------------------- MODULE RuntimeProofs ----------------------------
(***************************************************************************)
(* Theorems about two parts of the runtime that every bank relies on.      *)
(*                                                                         *)
(* AccountLocks, for any number of accounts and transactions: the table of *)
(* locks is exactly what the holders locked, and no two holders conflict.  *)
(*                                                                         *)
(* StatusCache, for any blockhashes, keys and slots, any number of roots   *)
(* kept and any sequence of calls: clear_slot_entries does not panic, and  *)
(* a snapshot has all that is not older than the roots.                    *)
(***************************************************************************)
EXTENDS AccountLocks, StatusCache, FiniteSetTheorems, WellFoundedInduction, TLAPS

USE Zenon

Readers(k) == {h \in held : k \in Readonly[h]}

(* TableExact makes the type inductive; NoConflict needs the exact table. *)
LocksInv == LocksTypeOK /\ TableExact /\ NoConflict

(* The readers of a key are finitely many. *)
LEMMA ReadersFinite ==
    ASSUME LocksTypeOK, NEW k \in Accounts
    PROVE  IsFiniteSet(Readers(k)) /\ Cardinality(Readers(k)) \in Nat
<1>1. Readers(k) \subseteq Holders  BY DEF LocksTypeOK, Readers
<1> QED  BY <1>1, LockAssumption, FS_Subset, FS_CardinalityType

(* The empty table. *)
LEMMA InitLocksInv == LocksInit => LocksInv
<1> SUFFICES ASSUME LocksInit PROVE LocksInv  OBVIOUS
<1>1. LocksTypeOK  BY DEF LocksInit, LocksTypeOK, NoLocks
<1>2. TableExact
  <2>1. \A k \in Accounts : {h \in held : k \in Readonly[h]} = {}  BY DEF LocksInit
  <2> QED  BY <2>1, FS_EmptySet DEF LocksInit, NoLocks, TableExact
<1>3. NoConflict  BY DEF LocksInit, NoConflict
<1> QED  BY <1>1, <1>2, <1>3 DEF LocksInv

(* Taking all locks of one transaction. *)
LEMMA LockInv ==
    ASSUME LocksInv, NEW h \in Holders, Lock(h)
    PROVE  LocksInv'
<1> USE LockAssumption
<1>0. LocksTypeOK /\ TableExact /\ NoConflict  BY DEF LocksInv
<1>1. LocksTypeOK'  BY <1>0, SMTT(30) DEF LocksTypeOK, Lock, lock_account
<1>2. TableExact'
  <2>1. locks'.write = UNION {Writable[g] : g \in held'}
    BY <1>0, SMTT(30) DEF TableExact, Lock, lock_account
  <2>2. ASSUME NEW k \in Accounts
        PROVE  locks'.readonly[k] = Cardinality({g \in held' : k \in Readonly[g]})
    <3>1. locks.readonly[k] = Cardinality(Readers(k))  BY <1>0 DEF TableExact, Readers
    <3>2. IsFiniteSet(Readers(k)) /\ Cardinality(Readers(k)) \in Nat  BY <1>0, ReadersFinite
    <3>3. locks'.readonly[k] = locks.readonly[k] + (IF k \in Readonly[h] THEN 1 ELSE 0)
      BY DEF Lock, lock_account
    <3>4. CASE k \in Readonly[h]
      <4>1. {g \in held' : k \in Readonly[g]} = Readers(k) \cup {h}  BY <3>4 DEF Lock, Readers
      <4>2. h \notin Readers(k)  BY DEF Lock, Readers
      <4>3. Cardinality(Readers(k) \cup {h}) = Cardinality(Readers(k)) + 1
        BY <3>2, <4>2, FS_AddElement
      <4> QED  BY <3>1, <3>3, <3>4, <4>1, <4>3
    <3>5. CASE k \notin Readonly[h]
      <4>1. {g \in held' : k \in Readonly[g]} = Readers(k)  BY <3>5 DEF Lock, Readers
      <4>2. locks.readonly[k] + 0 = locks.readonly[k]  BY <3>1, <3>2, SMTT(30)
      <4>3. locks'.readonly[k] = locks.readonly[k]  BY <3>3, <3>5, <4>2
      <4> QED  BY <3>1, <4>1, <4>3
    <3> QED  BY <3>4, <3>5
  <2> QED  BY <2>1, <2>2 DEF TableExact
<1>3. NoConflict'
  <2>1. ASSUME NEW g \in held PROVE ~Conflict(g, h) /\ ~Conflict(h, g)
    <3>1. g \in Holders /\ Writable[g] \subseteq locks.write  BY <1>0 DEF LocksTypeOK, TableExact
    <3>2. ASSUME NEW k \in Readonly[g] PROVE locks.readonly[k] # 0
      <4>1. k \in Accounts /\ g \in Readers(k)  BY <3>1 DEF Readers
      <4>2. Cardinality(Readers(k)) # 0  BY <4>1, <1>0, ReadersFinite, FS_EmptySet
      <4> QED  BY <4>1, <4>2, <1>0 DEF TableExact, Readers
    <3> QED  BY <3>1, <3>2 DEF Lock, CanLock, Conflict
  <2> QED  BY <2>1, <1>0 DEF NoConflict, Lock
<1> QED  BY <1>1, <1>2, <1>3 DEF LocksInv

(* Giving back all locks of one holder. *)
LEMMA UnlockInv ==
    ASSUME LocksInv, NEW h \in Holders, Unlock(h)
    PROVE  LocksInv'
<1> USE LockAssumption
<1>0. LocksTypeOK /\ TableExact /\ NoConflict  BY DEF LocksInv
<1>1. LocksTypeOK'  BY <1>0, SMTT(30) DEF LocksTypeOK, Unlock, unlock_account
<1>2. TableExact'
  <2>1. locks'.write = UNION {Writable[g] : g \in held'}
    <3>1. \A g \in held \ {h} : Writable[g] \cap Writable[h] = {}
      BY <1>0 DEF NoConflict, Conflict, Unlock
    <3> QED  BY <1>0, <3>1, SMTT(30) DEF TableExact, Unlock, unlock_account
  <2>2. ASSUME NEW k \in Accounts
        PROVE  locks'.readonly[k] = Cardinality({g \in held' : k \in Readonly[g]})
    <3>1. locks.readonly[k] = Cardinality(Readers(k))  BY <1>0 DEF TableExact, Readers
    <3>2. IsFiniteSet(Readers(k)) /\ Cardinality(Readers(k)) \in Nat  BY <1>0, ReadersFinite
    <3>3. CASE k \in Readonly[h]
      <4>1. {g \in held' : k \in Readonly[g]} = Readers(k) \ {h}  BY DEF Unlock, Readers
      <4>2. h \in Readers(k)  BY <3>3 DEF Unlock, Readers
      <4>3. Cardinality(Readers(k) \ {h}) = Cardinality(Readers(k)) - 1
        BY <3>2, <4>2, FS_RemoveElement
      <4>4. Cardinality(Readers(k)) # 0  BY <3>2, <4>2, FS_EmptySet
      <4>5. locks'.readonly[k] = locks.readonly[k] - 1
        BY <3>1, <3>2, <3>3, <4>4, SMTT(30) DEF Unlock, unlock_account
      <4> QED  BY <3>1, <4>1, <4>3, <4>5
    <3>4. CASE k \notin Readonly[h]
      <4>1. {g \in held' : k \in Readonly[g]} = Readers(k)  BY <3>4 DEF Unlock, Readers
      <4> QED  BY <3>1, <3>4, <4>1 DEF Unlock, unlock_account
    <3> QED  BY <3>3, <3>4
  <2> QED  BY <2>1, <2>2 DEF TableExact
<1>3. NoConflict'  BY <1>0 DEF NoConflict, Unlock, Conflict
<1> QED  BY <1>1, <1>2, <1>3 DEF LocksInv

(* The inductive invariant. *)
LEMMA LocksInvHolds == LocksSpec => []LocksInv
<1>1. LocksInv /\ [LocksNext]_locksVars => LocksInv'
  <2> SUFFICES ASSUME LocksInv, [LocksNext]_locksVars PROVE LocksInv'  OBVIOUS
  <2>1. ASSUME NEW h \in Holders, Lock(h) PROVE LocksInv'  BY <2>1, LockInv
  <2>2. ASSUME NEW h \in Holders, Unlock(h) PROVE LocksInv'  BY <2>2, UnlockInv
  <2>3. CASE UNCHANGED locksVars
    BY <2>3 DEF locksVars, LocksInv, LocksTypeOK, TableExact, NoConflict, Conflict
  <2> QED  BY <2>1, <2>2, <2>3 DEF LocksNext
<1> QED  BY <1>1, InitLocksInv, PTL DEF LocksSpec

(***************************************************************************)
(* Two transactions that hold locks at the same time never conflict,       *)
(* however many there are: lock_account checks readers and writers.  The   *)
(* table of locks always is what the holders took, so that after the last  *)
(* batch is dropped every account can be locked again.                     *)
(***************************************************************************)
THEOREM LocksAreOK == LocksSpec => []LocksOK
<1>1. LocksInv => LocksOK  BY DEF LocksInv, LocksOK
<1> QED  BY <1>1, LocksInvHolds, PTL

-----------------------------------------------------------------------------
CacheType ==
    [max : [Hashes -> Slots \cup {NoSlot}], forks : SUBSET Statuses,
     slot_deltas : SUBSET Statuses, roots : SUBSET Slots]

Lost(sc) == sc.forks \ sc.slot_deltas

(***************************************************************************)
(* The highest slot of a blockhash is at least that of each of its         *)
(* entries.  Something is lost only when there are as many roots as are    *)
(* kept, so that a root added below them is itself forgotten at once.      *)
(***************************************************************************)
GoodCache(sc) ==
    /\ sc \in CacheType
    /\ sc.slot_deltas \subseteq sc.forks
    /\ \A f \in sc.forks : f.slot <= sc.max[f.hash]
    /\ IsFiniteSet(sc.roots)
    /\ Lost(sc) # {} => Cardinality(sc.roots) >= MAX_CACHE_ENTRIES
    /\ \A f \in Lost(sc), r \in sc.roots : f.slot < r

CacheInv == GoodCache(status_cache)

(* A set of naturals that is not empty has a smallest element. *)
LEMMA NatMin ==
    ASSUME NEW T \in SUBSET Nat, T # {}
    PROVE  \E x \in T : \A y \in T : x <= y
<1> DEFINE R == OpToRel(<, Nat)
<1>1. IsWellFoundedOn(R, Nat)  BY NatLessThanWellFounded
<1>2. PICK x \in T : \A y \in T : ~(<<y, x>> \in R)
  <2> HIDE DEF R
  <2> QED  BY <1>1, WFMin
<1>3. \A y \in T : ~(y < x)  BY <1>2 DEF OpToRel
<1> QED  BY <1>3, SMTT(30)

(* The numbers of a cache are integers. *)
LEMMA CacheNumbers ==
    ASSUME NEW sc \in CacheType
    PROVE  /\ \A h \in Hashes : sc.max[h] \in Int
           /\ \A f \in sc.forks : f.hash \in Hashes /\ f.slot \in Nat
           /\ sc.roots \in SUBSET Nat
<1>1. sc.roots \subseteq Slots /\ sc.forks \subseteq Statuses
       /\ sc.max \in [Hashes -> Slots \cup {NoSlot}]
  BY DEF CacheType
<1>2. ASSUME NEW f \in sc.forks PROVE f.hash \in Hashes /\ f.slot \in Slots
  BY <1>1 DEF Statuses
<1>3. Slots \subseteq Nat  BY CacheAssumption
<1>4. Slots \cup {NoSlot} \subseteq Int  BY <1>3, SMTT(30) DEF NoSlot
<1>5. ASSUME NEW h \in Hashes PROVE sc.max[h] \in Int
  <2>1. sc.max[h] \in Slots \cup {NoSlot}  BY <1>1
  <2> QED  BY <2>1, <1>4
<1>6. sc.roots \in SUBSET Nat  BY <1>1, <1>3
<1>7. \A f \in sc.forks : f.hash \in Hashes /\ f.slot \in Nat  BY <1>2, <1>3
<1> QED  BY <1>5, <1>6, <1>7

(* A new cache. *)
LEMMA DefaultGood == GoodCache(Default)
<1>1. IsFiniteSet({0})  BY FS_Singleton
<1> QED  BY <1>1, CacheAssumption DEF GoodCache, Lost, CacheType, Default, NoSlot

(* Inserting raises the highest slot of the blockhashes inserted. *)
LEMMA InsertGood ==
    ASSUME NEW sc, GoodCache(sc), NEW slot \in Slots, NEW entries \in SUBSET Entries
    PROVE  GoodCache(insert(sc, entries, slot))
<1> DEFINE new == insert(sc, entries, slot)
<1> USE CacheAssumption
<1>0. sc \in CacheType  BY DEF GoodCache
<1>1. At(entries, slot) \subseteq Statuses  BY SMTT(30) DEF At, Entries, Statuses
<1>2. /\ new.max = [h \in Hashes |->
                      IF (\E e \in entries : e.hash = h) /\ sc.max[h] < slot THEN slot
                      ELSE sc.max[h]]
      /\ new.forks = sc.forks \cup At(entries, slot)
      /\ new.slot_deltas = sc.slot_deltas \cup At(entries, slot)
      /\ new.roots = sc.roots
  BY DEF insert
<1>3. new \in CacheType
  <2>1. new = [max |-> new.max, forks |-> new.forks, slot_deltas |-> new.slot_deltas,
               roots |-> new.roots]
    BY DEF insert
  <2>2. new.max \in [Hashes -> Slots \cup {NoSlot}]  BY <1>0, <1>2 DEF CacheType
  <2>3. new.forks \subseteq Statuses /\ new.slot_deltas \subseteq Statuses /\ new.roots \subseteq Slots
    BY <1>0, <1>1, <1>2 DEF CacheType
  <2> HIDE DEF new
  <2> QED  BY <2>1, <2>2, <2>3 DEF CacheType
<1>4. new.slot_deltas \subseteq new.forks  BY <1>2 DEF GoodCache
<1>5. ASSUME NEW f \in new.forks PROVE f.slot <= new.max[f.hash]
  <2>0. f.hash \in Hashes /\ f.slot \in Nat /\ new.max[f.hash] \in Int  BY <1>3, CacheNumbers
  <2>1. sc.max[f.hash] \in Int /\ slot \in Int  BY <1>0, <2>0, CacheNumbers, SMTT(30)
  <2>2. CASE f \in sc.forks
    <3>1. f.slot <= sc.max[f.hash]  BY <2>2 DEF GoodCache
    <3>2. new.max[f.hash] \in {sc.max[f.hash], slot} /\ ~(sc.max[f.hash] > new.max[f.hash])
      BY <1>2, <2>0, <2>1, SMTT(30)
    <3> HIDE DEF new
    <3> QED  BY <2>0, <2>1, <3>1, <3>2, SMTT(30)
  <2>3. CASE f \in At(entries, slot)
    <3>1. f.slot = slot /\ \E e \in entries : e.hash = f.hash  BY <2>3, SMTT(30) DEF At
    <3>2. ~(slot > new.max[f.hash])  BY <1>2, <2>0, <2>1, <3>1, SMTT(30)
    <3> HIDE DEF new
    <3> QED  BY <2>0, <2>1, <3>1, <3>2, SMTT(30)
  <2> QED  BY <1>2, <2>2, <2>3
<1>6. insert(sc, entries, slot) = new  OBVIOUS
<1>7. Lost(new) \subseteq Lost(sc)  BY <1>2 DEF Lost
<1>8. new.roots = sc.roots  BY <1>2
<1> HIDE DEF new
<1> QED  BY <1>3, <1>4, <1>5, <1>6, <1>7, <1>8 DEF GoodCache

(***************************************************************************)
(* A root more.  Purging removes blockhashes by their highest slot and     *)
(* deltas by their own, so that the deltas stay cached, and what is lost   *)
(* is not above the root that goes.                                        *)
(***************************************************************************)
LEMMA AddRootGood ==
    ASSUME NEW sc, GoodCache(sc), NEW slot \in Slots
    PROVE  GoodCache(add_root(sc, slot))
<1> DEFINE roots == sc.roots \cup {slot}
           mid == [max |-> sc.max, forks |-> sc.forks, slot_deltas |-> sc.slot_deltas, roots |-> roots]
<1> USE CacheAssumption
<1>0. sc \in CacheType  BY DEF GoodCache
<1>1. mid \in CacheType  BY DEF GoodCache, CacheType
<1>2. add_root(sc, slot) = purge_roots(mid)  BY DEF add_root
<1>3. /\ IsFiniteSet(sc.roots) /\ IsFiniteSet(roots)
      /\ Cardinality(sc.roots) \in Nat /\ Cardinality(roots) \in Nat
      /\ slot \notin sc.roots => Cardinality(roots) = Cardinality(sc.roots) + 1
  BY FS_AddElement, FS_CardinalityType DEF GoodCache
<1>4. roots \in SUBSET Nat /\ slot \in Nat  BY <1>0, CacheNumbers
<1>5. CASE Cardinality(roots) <= MAX_CACHE_ENTRIES
  <2>1. purge_roots(mid) = mid  BY <1>5 DEF purge_roots
  <2>2. \A f \in mid.forks : f.slot <= mid.max[f.hash]  BY DEF GoodCache
  <2>3. mid.slot_deltas \subseteq mid.forks  BY DEF GoodCache
  <2>4. Lost(mid) = Lost(sc) /\ mid.roots = roots  BY DEF Lost
  <2>5. slot \notin sc.roots => Lost(sc) = {}  BY <1>3, <1>5, SMTT(30) DEF GoodCache
  <2>6. slot \in sc.roots => roots = sc.roots  OBVIOUS
  <2>7. Lost(mid) # {} => Cardinality(mid.roots) >= MAX_CACHE_ENTRIES
    BY <2>4, <2>5, <2>6 DEF GoodCache
  <2>8. \A f \in Lost(mid), r \in mid.roots : f.slot < r  BY <2>4, <2>5, <2>6 DEF GoodCache
  <2>9. IsFiniteSet(mid.roots)  BY <1>3, <2>4
  <2> HIDE DEF mid
  <2> QED  BY <1>1, <1>2, <2>1, <2>2, <2>3, <2>7, <2>8, <2>9 DEF GoodCache
<1>6. CASE ~(Cardinality(roots) <= MAX_CACHE_ENTRIES)
  <2> DEFINE min == Oldest(roots)
             new == [max |-> [h \in Hashes |-> IF sc.max[h] > min THEN sc.max[h] ELSE NoSlot],
                     forks |-> {f \in sc.forks : sc.max[f.hash] > min},
                     slot_deltas |-> {f \in sc.slot_deltas : f.slot > min},
                     roots |-> roots \ {min}]
  <2>0. min \in Nat /\ min \in roots /\ \A r \in roots : min <= r
    BY <1>4, NatMin DEF Oldest
  <2>1. purge_roots(mid) = new  BY <1>6 DEF purge_roots
  <2>2. new \in CacheType  BY <1>0 DEF CacheType
  <2>3. new.slot_deltas \subseteq new.forks
    <3> SUFFICES ASSUME NEW f \in sc.slot_deltas, f.slot > min
                 PROVE  f \in sc.forks /\ sc.max[f.hash] > min
      OBVIOUS
    <3>1. f \in sc.forks /\ f.slot <= sc.max[f.hash]  BY DEF GoodCache
    <3>2. f.slot \in Int /\ sc.max[f.hash] \in Int  BY <1>0, <3>1, CacheNumbers, SMTT(30)
    <3>3. min \in Int  BY <2>0, SMTT(30)
    <3> HIDE DEF min
    <3> QED  BY <3>1, <3>2, <3>3, SMTT(30)
  <2>4. ASSUME NEW f \in new.forks PROVE f.slot <= new.max[f.hash]
    <3>1. f \in sc.forks /\ sc.max[f.hash] > min /\ f.hash \in Hashes
      BY <1>0 DEF CacheType, Statuses
    <3> QED  BY <3>1 DEF GoodCache
  <2>5. IsFiniteSet(new.roots) /\ Cardinality(new.roots) >= MAX_CACHE_ENTRIES
    <3>1. IsFiniteSet(roots \ {min}) /\ Cardinality(roots \ {min}) = Cardinality(roots) - 1
      <4> HIDE DEF roots, min
      <4> QED  BY <1>3, <2>0, FS_RemoveElement
    <3> QED  BY <1>3, <1>6, <3>1, SMTT(30)
  <2>6. ASSUME NEW f \in Lost(new), NEW r \in new.roots PROVE f.slot < r
    <3>1. f \in sc.forks /\ (f \in Lost(sc) \/ ~(f.slot > min))  BY DEF Lost
    <3>2. f.slot \in Nat  BY <1>0, <3>1, CacheNumbers
    <3>3. r \in roots /\ r \in Nat /\ min < r
      <4>1. r \in roots /\ r # min  OBVIOUS
      <4>2. r \in Nat  BY <1>4, <4>1
      <4> HIDE DEF min, roots
      <4> QED  BY <2>0, <4>1, <4>2, SMTT(30)
    <3>4. CASE ~(f.slot > min)
      <4> HIDE DEF min
      <4> QED  BY <2>0, <3>2, <3>3, <3>4, SMTT(30)
    <3>5. CASE f \in Lost(sc)
      <4>1. \A q \in sc.roots : f.slot < q  BY <3>5 DEF GoodCache
      <4>2. CASE r \in sc.roots  BY <4>1, <4>2
      <4>3. CASE r \notin sc.roots
        <5>1. min \in sc.roots  BY <2>0, <3>3, <4>3
        <5>2. f.slot < min  BY <4>1, <5>1
        <5> HIDE DEF min
        <5> QED  BY <2>0, <3>2, <3>3, <5>2, SMTT(30)
      <4> QED  BY <4>2, <4>3
    <3> QED  BY <3>1, <3>4, <3>5
  <2> HIDE DEF new
  <2> QED  BY <1>2, <2>1, <2>2, <2>3, <2>4, <2>5, <2>6 DEF GoodCache
<1> QED  BY <1>5, <1>6

(* Only a blockhash without entries loses its highest slot. *)
LEMMA ClearGood ==
    ASSUME NEW sc, GoodCache(sc), NEW slot \in Slots
    PROVE  GoodCache(clear_slot_entries(sc, slot))
<1> DEFINE cleared == {f \in sc.slot_deltas : f.slot = slot}
           forks == sc.forks \ cleared
           new == [max |-> [h \in Hashes |->
                     IF (\E f \in cleared : f.hash = h) /\ ~(\E f \in forks : f.hash = h)
                     THEN NoSlot ELSE sc.max[h]],
                   forks |-> forks,
                   slot_deltas |-> sc.slot_deltas \ cleared,
                   roots |-> sc.roots]
<1>0. sc \in CacheType  BY DEF GoodCache
<1>1. clear_slot_entries(sc, slot) = new  BY DEF clear_slot_entries
<1>2. new \in CacheType
  <2>1. new.max \in [Hashes -> Slots \cup {NoSlot}]  BY <1>0 DEF CacheType
  <2>2. forks \subseteq Statuses /\ sc.slot_deltas \ cleared \subseteq Statuses
         /\ sc.roots \subseteq Slots
    BY <1>0 DEF CacheType
  <2> QED  BY <2>1, <2>2 DEF CacheType
<1>3. new.slot_deltas \subseteq new.forks  BY DEF GoodCache
<1>4. ASSUME NEW f \in new.forks PROVE f.slot <= new.max[f.hash]
  <2>1. f \in sc.forks /\ f.hash \in Hashes  BY <1>0, CacheNumbers
  <2>2. new.max[f.hash] = sc.max[f.hash]  BY <2>1
  <2>3. f.slot <= sc.max[f.hash]  BY <2>1 DEF GoodCache
  <2> HIDE DEF new
  <2> QED  BY <2>2, <2>3
<1>5. Lost(new) \subseteq Lost(sc) /\ new.roots = sc.roots  BY DEF Lost
<1> HIDE DEF new
<1> QED  BY <1>1, <1>2, <1>3, <1>4, <1>5 DEF GoodCache

(* Every call keeps the invariant. *)
LEMMA CacheInvHolds == CacheSpec => []CacheInv
<1>1. CacheInit => CacheInv  BY DefaultGood DEF CacheInit, CacheInv
<1>2. ASSUME CacheInv, [CacheNext]_status_cache PROVE CacheInv'
  <2>0. GoodCache(status_cache)  BY <1>2 DEF CacheInv
  <2>1. ASSUME NEW slot \in Slots, AddRoot(slot) PROVE CacheInv'
    BY <2>0, <2>1, AddRootGood DEF AddRoot, CacheInv
  <2>2. ASSUME NEW slot \in Slots, ClearSlotEntries(slot) PROVE CacheInv'
    BY <2>0, <2>2, ClearGood DEF ClearSlotEntries, CacheInv
  <2>3. ASSUME NEW slot \in Slots, NEW entries \in SUBSET Entries, Insert(slot, entries)
        PROVE  CacheInv'
    BY <2>0, <2>3, InsertGood DEF Insert, CacheInv
  <2>4. ASSUME NEW slot \in Slots, NEW entries \in SUBSET Entries, NEW is_root \in BOOLEAN,
               AppendDelta(slot, is_root, entries)
        PROVE  CacheInv'
    <3>1. GoodCache(insert(status_cache, entries, slot))  BY <2>0, InsertGood
    <3>2. GoodCache(add_root(insert(status_cache, entries, slot), slot))  BY <3>1, AddRootGood
    <3> QED  BY <2>4, <3>1, <3>2 DEF AppendDelta, append, CacheInv
  <2>5. CASE Renew  BY <2>5, DefaultGood DEF Renew, CacheInv
  <2>6. CASE UNCHANGED status_cache  BY <2>0, <2>6 DEF CacheInv
  <2> QED  BY <1>2, <2>1, <2>2, <2>3, <2>4, <2>5, <2>6 DEF CacheNext
<1> QED  BY <1>1, <1>2, PTL DEF CacheSpec

(***************************************************************************)
(* Whatever the order of inserting, rooting, clearing and restoring, each  *)
(* entry a delta names is cached, so that clear_slot_entries does not      *)
(* panic, and all that snapshots miss is older than every root kept.       *)
(***************************************************************************)
THEOREM CacheIsOK == CacheSpec => []CacheOK
<1>1. CacheInv => CacheOK
  <2> SUFFICES ASSUME GoodCache(status_cache) PROVE CacheOK  BY DEF CacheInv
  <2>1. CacheTypeOK  BY DEF GoodCache, CacheType, CacheTypeOK
  <2>2. ClearNeverPanics  BY DEF GoodCache, ClearNeverPanics
  <2>3. SnapshotLosesOnlyOld  BY DEF GoodCache, Lost, SnapshotLosesOnlyOld
  <2> QED  BY <2>1, <2>2, <2>3 DEF CacheOK
<1> QED  BY <1>1, CacheInvHolds, PTL
=============================================================================
