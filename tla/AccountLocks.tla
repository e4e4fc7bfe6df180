----------------------------- MODULE AccountLocks -----------------------------
(***************************************************************************)
(* The table of account locks of a bank (runtime/src/accounts.rs): the     *)
(* accounts locked for writing, and a count of readers for the others.     *)
(* lock_account takes all locks of a transaction or none; a batch's locks  *)
(* are given back when the batch is dropped.  The specification lets       *)
(* transactions lock and unlock one by one; Banking uses the operators for *)
(* whole batches.                                                          *)
(***************************************************************************)
EXTENDS Integers, FiniteSets

CONSTANTS
    Accounts,   \* account keys
    Holders,    \* transactions of the batches in flight
    Writable,   \* Writable[h]: the keys h locks for writing
    Readonly    \* Readonly[h]: the keys h locks for reading

(* The keys of a message are distinct, so no key is in both lists. *)
ASSUME LockAssumption ==
    /\ IsFiniteSet(Holders)
    /\ Writable \in [Holders -> SUBSET Accounts]
    /\ Readonly \in [Holders -> SUBSET Accounts]
    /\ \A h \in Holders : Writable[h] \cap Readonly[h] = {}

VARIABLES
    locks,  \* AccountLocks: write_locks and readonly_locks
    held    \* transactions whose lock result is Ok and whose batch exists

locksVars == <<locks, held>>

NoLocks == [write |-> {}, readonly |-> [k \in Accounts |-> 0]]

(* Faulty variant: a writer looks for other writers only. *)
CanLockPastReaders(l, writable, readonly) ==
    /\ \A k \in writable : k \notin l.write
    /\ \A k \in readonly : k \notin l.write

CanLock(l, writable, readonly) ==
    /\ \A k \in writable : k \notin l.write /\ l.readonly[k] = 0
    /\ \A k \in readonly : k \notin l.write

lock_account(l, writable, readonly) ==
    [write |-> l.write \cup writable,
     readonly |-> [k \in Accounts |-> l.readonly[k] + (IF k \in readonly THEN 1 ELSE 0)]]

unlock_account(l, writable, readonly) ==
    [write |-> l.write \ writable,
     readonly |-> [k \in Accounts |->
                     IF k \in readonly /\ l.readonly[k] > 0 THEN l.readonly[k] - 1
                     ELSE l.readonly[k]]]

LocksInit ==
    /\ locks = NoLocks
    /\ held = {}

Lock(h) ==
    /\ h \notin held
    /\ CanLock(locks, Writable[h], Readonly[h])
    /\ locks' = lock_account(locks, Writable[h], Readonly[h])
    /\ held' = held \cup {h}

Unlock(h) ==
    /\ h \in held
    /\ locks' = unlock_account(locks, Writable[h], Readonly[h])
    /\ held' = held \ {h}

LocksNext == \E h \in Holders : Lock(h) \/ Unlock(h)

LocksSpec == LocksInit /\ [][LocksNext]_locksVars

-----------------------------------------------------------------------------
(* Types of the variables. *)
LocksTypeOK ==
    /\ locks \in [write : SUBSET Accounts, readonly : [Accounts -> Nat]]
    /\ held \in SUBSET Holders

Conflict(g, h) ==
    \/ Writable[g] \cap (Writable[h] \cup Readonly[h]) # {}
    \/ Readonly[g] \cap Writable[h] # {}

(***************************************************************************)
(* No two transactions that hold locks at the same time write an account   *)
(* the other one uses, although the table does not say who holds a lock.   *)
(***************************************************************************)
NoConflict == \A g, h \in held : g # h => ~Conflict(g, h)

(***************************************************************************)
(* The table is exactly what the holders locked: no lock is left behind by *)
(* a transaction that could not lock or was unlocked, and none is missing. *)
(***************************************************************************)
TableExact ==
    /\ locks.write = UNION {Writable[h] : h \in held}
    /\ \A k \in Accounts : locks.readonly[k] = Cardinality({h \in held : k \in Readonly[h]})

(* The lock table of Accounts is exact, and transactions that hold locks at *)
(* the same time do not conflict.                                           *)
LocksOK ==
    /\ LocksTypeOK
    /\ NoConflict
    /\ TableExact
=============================================================================
