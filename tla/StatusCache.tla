----------------------------- MODULE StatusCache ------------------------------
(***************************************************************************)
(* The cache of transaction statuses all banks share                       *)
(* (runtime/src/status_cache.rs): which key was processed with which       *)
(* blockhash in which slot.  A status itself, and which 20 bytes of a key  *)
(* are kept, are left out: slices of different keys are taken to differ.   *)
(*                                                                         *)
(*   max         for each cached blockhash the highest slot it was seen in *)
(*   forks       the cached entries                                        *)
(*   slot_deltas the same entries by slot, as snapshots need them          *)
(*   roots       the rooted slots still kept                               *)
(***************************************************************************)
EXTENDS Integers, FiniteSets

CONSTANTS
    Hashes,             \* blockhashes and durable nonces
    Keys,               \* message hashes and signatures
    Slots,              \* slot numbers, a set of naturals with 0
    MAX_CACHE_ENTRIES   \* number of roots kept

ASSUME CacheAssumption ==
    /\ Slots \subseteq Nat /\ 0 \in Slots
    /\ MAX_CACHE_ENTRIES \in Nat \ {0}

VARIABLE status_cache

NoSlot == -1
Entries == [hash : Hashes, key : Keys]
Statuses == [hash : Hashes, key : Keys, slot : Slots]

(* "0 is always a root." *)
Default ==
    [max |-> [h \in Hashes |-> NoSlot], forks |-> {}, slot_deltas |-> {}, roots |-> {0}]

At(entries, slot) == {[hash |-> e.hash, key |-> e.key, slot |-> slot] : e \in entries}

(* Faulty variant: the highest slot of a blockhash is not raised. *)
InsertKeepsMax(sc, entries, slot) ==
    [sc EXCEPT
        !.max = [h \in Hashes |->
                   IF sc.max[h] = NoSlot /\ (\E e \in entries : e.hash = h) THEN slot
                   ELSE sc.max[h]],
        !.forks = @ \cup At(entries, slot),
        !.slot_deltas = @ \cup At(entries, slot)]

(* insert, for several keys of one slot. *)
insert(sc, entries, slot) ==
    [max |-> [h \in Hashes |->
                IF (\E e \in entries : e.hash = h) /\ sc.max[h] < slot THEN slot
                ELSE sc.max[h]],
     forks |-> sc.forks \cup At(entries, slot),
     slot_deltas |-> sc.slot_deltas \cup At(entries, slot),
     roots |-> sc.roots]

Oldest(S) == CHOOSE s \in S : \A r \in S : s <= r

purge_roots(sc) ==
    IF Cardinality(sc.roots) <= MAX_CACHE_ENTRIES THEN sc
    ELSE LET min == Oldest(sc.roots)
         IN  [max |-> [h \in Hashes |-> IF sc.max[h] > min THEN sc.max[h] ELSE NoSlot],
              forks |-> {f \in sc.forks : sc.max[f.hash] > min},
              slot_deltas |-> {f \in sc.slot_deltas : f.slot > min},
              roots |-> sc.roots \ {min}]

add_root(sc, slot) ==
    purge_roots([max |-> sc.max, forks |-> sc.forks, slot_deltas |-> sc.slot_deltas,
                 roots |-> sc.roots \cup {slot}])

(* A blockhash with no entries left is forgotten. *)
clear_slot_entries(sc, slot) ==
    LET cleared == {f \in sc.slot_deltas : f.slot = slot}
        forks == sc.forks \ cleared
    IN  [max |-> [h \in Hashes |->
                    IF (\E f \in cleared : f.hash = h) /\ ~(\E f \in forks : f.hash = h)
                    THEN NoSlot ELSE sc.max[h]],
         forks |-> forks,
         slot_deltas |-> sc.slot_deltas \ cleared,
         roots |-> sc.roots]

(* slot_deltas, for one slot: what a snapshot keeps of it. *)
Delta(sc, slot) == {[hash |-> f.hash, key |-> f.key] : f \in {d \in sc.slot_deltas : d.slot = slot}}

(* append, for the delta of one slot. *)
append(sc, slot, is_root, entries) ==
    IF is_root THEN add_root(insert(sc, entries, slot), slot) ELSE insert(sc, entries, slot)

get_status(sc, hash, key, ancestor_slots) ==
    \E f \in sc.forks : f.hash = hash /\ f.key = key /\ f.slot \in ancestor_slots \cup sc.roots

-----------------------------------------------------------------------------
CacheInit == status_cache = Default

Insert(slot, entries) == status_cache' = insert(status_cache, entries, slot)

AddRoot(slot) == status_cache' = add_root(status_cache, slot)

ClearSlotEntries(slot) == status_cache' = clear_slot_entries(status_cache, slot)

AppendDelta(slot, is_root, entries) == status_cache' = append(status_cache, slot, is_root, entries)

(* A restart begins with a new cache. *)
Renew == status_cache' = Default

CacheNext ==
    \/ \E slot \in Slots : AddRoot(slot) \/ ClearSlotEntries(slot)
    \/ \E slot \in Slots, entries \in SUBSET Entries :
          Insert(slot, entries) \/ \E is_root \in BOOLEAN : AppendDelta(slot, is_root, entries)
    \/ Renew

CacheSpec == CacheInit /\ [][CacheNext]_status_cache

-----------------------------------------------------------------------------
(* Types of the variables. *)
CacheTypeOK ==
    /\ status_cache.max \in [Hashes -> Slots \cup {NoSlot}]
    /\ status_cache.forks \subseteq Statuses
    /\ status_cache.slot_deltas \subseteq Statuses
    /\ status_cache.roots \subseteq Slots

(***************************************************************************)
(* What a slot's delta names is cached under its blockhash and key: the    *)
(* two panics of clear_slot_entries cannot happen.  purge_roots removes    *)
(* cached blockhashes by their highest slot and deltas by their own.       *)
(***************************************************************************)
ClearNeverPanics == status_cache.slot_deltas \subseteq status_cache.forks

(***************************************************************************)
(* What is cached but in no delta any more, and so is lost when a          *)
(* validator starts from a snapshot, is older than every root kept.        *)
(***************************************************************************)
SnapshotLosesOnlyOld ==
    \A f \in status_cache.forks \ status_cache.slot_deltas :
        \A r \in status_cache.roots : f.slot < r

(* The two views of the status cache agree as far as clear_slot_entries and   *)
(* snapshots need, whatever is inserted, rooted, cleared and appended, in any *)
(* order.                                                                     *)
CacheOK ==
    /\ CacheTypeOK
    /\ ClearNeverPanics
    /\ SnapshotLosesOnlyOld
=============================================================================
