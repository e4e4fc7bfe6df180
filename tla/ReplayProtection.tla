--------------------------- MODULE ReplayProtection ---------------------------
(***************************************************************************)
(* Why no transaction is processed twice on a fork: the blockhash queue of *)
(* each bank, the status cache the banks share, and durable nonces         *)
(* (runtime/src/bank.rs, blockhash_queue.rs, nonce_keyed_account.rs).      *)
(*                                                                         *)
(* Banks are created by the replay stage, which also roots and dumps them; *)
(* transactions are processed by other threads at any time, also between   *)
(* the steps of squash.  A restart begins from the last snapshot.          *)
(*                                                                         *)
(* There is one nonce account.  A transaction is told apart by its recent  *)
(* blockhash and its instruction.                                          *)
(***************************************************************************)
EXTENDS Integers, FiniteSets, Sequences, Bags, FiniteSetsExt, SequencesExt

CONSTANTS
    MaxSlot, MaxDumps, MaxRestarts, \* bounds
    MaxBanks, MaxTransactions,      \* bounds on the banks and on a fork's transactions
    Instructions,                   \* a subset of AllInstructions
    accounts_hash_interval_slots,
    snapshot_interval_slots,        \* of archives, full or incremental
    MAX_PROCESSING_AGE,
    MAX_RECENT_BLOCKHASHES

AllInstructions == {"transfer", "initialize", "advance", "withdraw"}

(* 150 and 300 in sdk/program/src/clock.rs; the intervals are is_snapshot_config_valid's. *)
AgeAssumption ==
    /\ MaxSlot \in Nat /\ MaxDumps \in Nat /\ MaxRestarts \in Nat
    /\ MaxBanks \in Nat /\ MaxTransactions \in Nat
    /\ Instructions \subseteq AllInstructions
    /\ MAX_PROCESSING_AGE \in Nat \ {0}
    /\ MAX_RECENT_BLOCKHASHES \in Nat
    /\ MAX_PROCESSING_AGE <= MAX_RECENT_BLOCKHASHES
    /\ accounts_hash_interval_slots \in Nat \ {0}
    /\ snapshot_interval_slots \in Nat \ {0}
    /\ snapshot_interval_slots % accounts_hash_interval_slots = 0

VARIABLES
    banks,          \* by slot, the banks in bank forks
    rooting,        \* what set_root has still to do: roots to add, a snapshot to request
    last_accounts_hash_slot,
    request,        \* the last snapshot request not handled yet
    status_cache,
    blockstore,     \* the version of each slot we have, and its parent if known
    snapshot,       \* the last one: a root's bank and the deltas of the roots
    loading,        \* deltas a restart has still to append
    restarts

vars == <<banks, rooting, last_accounts_hash_slot, request, status_cache, blockstore,
          snapshot, loading, restarts>>
snapshots == <<last_accounts_hash_slot, request, snapshot>>

LedgerSlots == 0 .. MaxSlot
NoSlot == -1
NoNonce == -1

(* The last blockhash of a version of a slot, and the nonce made from it: the *)
(* two have different domains. *)
BlockHash(slot, version) == slot + version * (MaxSlot + 1)
BlockHashes == 0 .. BlockHash(MaxSlot, MaxDumps)
Recent(h) == [domain |-> "block", of |-> h]
DurableNonce(h) == [domain |-> "nonce", of |-> h]
RecentHashes == [domain : {"block", "nonce"}, of : BlockHashes]

Transactions == [recent_blockhash : RecentHashes, instruction : Instructions]
TransactionKeys == [kind : {"message", "signature"}, tx : Transactions]

Cache == INSTANCE StatusCache WITH
    Hashes <- RecentHashes, Keys <- TransactionKeys, Slots <- LedgerSlots,
    MAX_CACHE_ENTRIES <- MAX_RECENT_BLOCKHASHES

-----------------------------------------------------------------------------
(* BlockhashQueue *)

check_hash_age(queue, recent) ==
    /\ recent.domain = "block" /\ recent.of \in DOMAIN queue.ages
    /\ queue.height - queue.ages[recent.of] <= MAX_PROCESSING_AGE

register_hash(queue, h) ==
    LET height == queue.height + 1
        kept == {g \in DOMAIN queue.ages :
                   Cardinality(DOMAIN queue.ages) >= MAX_RECENT_BLOCKHASHES
                      => height - queue.ages[g] <= MAX_RECENT_BLOCKHASHES}
    IN  [height |-> height, last |-> h,
         ages |-> [g \in kept \cup {h} |-> IF g = h THEN height ELSE queue.ages[g]]]

NoRequest == [slot |-> NoSlot]

Genesis ==
    [parent |-> NoSlot, ancestors |-> {0}, frozen |-> TRUE, nonce |-> NoNonce, done |-> EmptyBag,
     queue |-> [height |-> 0, last |-> 0, ages |-> [g \in {0} |-> 0]]]

Init ==
    /\ banks = [s \in {0} |-> Genesis]
    /\ rooting = << >>
    /\ last_accounts_hash_slot = 0
    /\ request = NoRequest
    /\ status_cache = Cache!Default
    /\ blockstore = [s \in LedgerSlots |-> [parent |-> NoSlot, version |-> 0]]
    /\ snapshot = [bank |-> Genesis, slot |-> 0, deltas |-> << >>]
    /\ loading = << >>
    /\ restarts = 0

-----------------------------------------------------------------------------
(* Bank::parents: up to the bank that was squashed last. *)
parents(slot) ==
    LET up[s \in LedgerSlots] == IF banks[s].parent = NoSlot THEN {} ELSE {banks[s].parent} \cup up[banks[s].parent]
    IN  up[slot]

ReplayIdle == rooting = << >> /\ loading = << >>

(* new_from_parent.  done, the messages processed on the fork, is a history variable. *)
new_from_parent(p, slot) ==
    /\ ReplayIdle /\ banks[p].frozen
    /\ slot > p /\ slot \notin DOMAIN banks /\ Cardinality(DOMAIN banks) < MaxBanks
    /\ blockstore[slot].parent \in {NoSlot, p}
    /\ blockstore' = [blockstore EXCEPT ![slot].parent = p]
    /\ banks' = [s \in DOMAIN banks \cup {slot} |->
                   IF s = slot
                   THEN [banks[p] EXCEPT !.parent = p, !.frozen = FALSE,
                                         !.ancestors = {slot, p} \cup parents(p)]
                   ELSE banks[s]]
    /\ UNCHANGED <<rooting, status_cache, snapshots, loading, restarts>>

(* The last tick registers the block's last hash; then the bank is frozen. *)
register_tick(slot) ==
    /\ ~banks[slot].frozen
    /\ banks' = [banks EXCEPT ![slot].frozen = TRUE,
                              ![slot].queue = register_hash(@, BlockHash(slot, blockstore[slot].version))]
    /\ UNCHANGED <<rooting, status_cache, blockstore, snapshots, loading, restarts>>

check_transaction_for_nonce(b, tx) ==
    /\ tx.instruction = "advance"
    /\ tx.recent_blockhash # DurableNonce(b.queue.last)
    /\ b.nonce # NoNonce /\ tx.recent_blockhash = DurableNonce(b.nonce)

MessageKey(tx) == [kind |-> "message", tx |-> tx]

(* Faulty variant: only the bank's own ancestors are looked at. *)
ProcessedByAncestor(b, tx) ==
    \E f \in status_cache.forks : f.hash = tx.recent_blockhash /\ f.key = MessageKey(tx)
                                   /\ f.slot \in b.ancestors

is_transaction_already_processed(b, tx) ==
    Cache!get_status(status_cache, tx.recent_blockhash, MessageKey(tx), b.ancestors)

(* The nonce account after an instruction that succeeds. *)
NonceAfter(b, instruction) ==
    CASE instruction = "initialize" /\ b.nonce = NoNonce -> {b.queue.last}
      [] instruction = "advance" /\ b.nonce \notin {NoNonce, b.queue.last} -> {b.queue.last}
      [] instruction = "withdraw" /\ b.nonce \notin {NoNonce, b.queue.last} -> {NoNonce}
      [] OTHER -> {}

(* What execution and collect_accounts_to_store leave in the account: a transaction that *)
(* fails changes nothing, except that one paid for by a nonce advances it.               *)
StoredNonces(b, tx) ==
    IF check_hash_age(b.queue, tx.recent_blockhash) THEN {b.nonce} \cup NonceAfter(b, tx.instruction)
    ELSE {b.queue.last}

(* check_transactions, execution and update_transaction_statuses. *)
process_transaction(slot, tx) ==
    LET b == banks[slot]
    IN  /\ ~b.frozen /\ BagCardinality(b.done) < MaxTransactions
        /\ check_hash_age(b.queue, tx.recent_blockhash) \/ check_transaction_for_nonce(b, tx)
        /\ ~is_transaction_already_processed(b, tx)
        /\ \E nonce \in StoredNonces(b, tx) :
              banks' = [banks EXCEPT ![slot].nonce = nonce,
                                     ![slot].done = @ (+) SetToBag({tx})]
        /\ Cache!Insert(slot, [hash : {tx.recent_blockhash},
                               key : [kind : {"message", "signature"}, tx : {tx}]])
        /\ UNCHANGED <<rooting, blockstore, snapshots, loading, restarts>>

-----------------------------------------------------------------------------
root == CHOOSE s \in DOMAIN banks : banks[s].parent = NoSlot

Descendants(slot) == {s \in DOMAIN banks : s = slot \/ slot \in banks[s].ancestors}

(* The steps of squash: each bank up to the last one squashed becomes a root of the *)
(* cache, the newest first. *)
Squash(slots) ==
    [i \in DOMAIN slots |-> [op |-> "add_root", slot |-> slots[i]]]

(* do_set_root_return_metrics: the newest bank due for an accounts hash, an ancestor of    *)
(* the new root or the root itself, is squashed first, and a snapshot of the root requested.  *)
(* Banks off the new root are pruned at the end; nothing they do in between matters.          *)
set_root(slot) ==
    LET path == SetToSortSeq({slot} \cup parents(slot), >)
        due == {i \in DOMAIN path :
                  /\ banks[path[i]].queue.height % accounts_hash_interval_slots = 0
                  /\ path[i] > last_accounts_hash_slot}
        first == Min(due)
    IN  /\ ReplayIdle /\ banks[slot].frozen /\ slot # root
        /\ IF due = {}
           THEN rooting' = Squash(path) /\ UNCHANGED last_accounts_hash_slot
           ELSE /\ rooting' = Squash(SubSeq(path, first, Len(path)))
                              \o <<[op |-> "request", slot |-> slot]>>
                              \o (IF first = 1 THEN << >> ELSE Squash(SubSeq(path, 1, first)))
                /\ last_accounts_hash_slot' = path[first]
        /\ banks' = [s \in Descendants(slot) |->
                       IF s = slot THEN [banks[s] EXCEPT !.parent = NoSlot] ELSE banks[s]]
        /\ UNCHANGED <<request, status_cache, blockstore, snapshot, loading, restarts>>

squash ==
    /\ rooting # << >> /\ rooting[1].op = "add_root"
    /\ Cache!AddRoot(rooting[1].slot)
    /\ rooting' = Tail(rooting)
    /\ UNCHANGED <<banks, blockstore, snapshots, loading, restarts>>

(* The request holds the root's bank and the deltas of the roots the cache has now. *)
send_snapshot_request ==
    LET kept == SetToSortSeq(status_cache.roots, <)
    IN  /\ rooting # << >> /\ rooting[1].op = "request"
        /\ request' = [slot |-> rooting[1].slot, bank |-> banks[rooting[1].slot],
                       deltas |-> [i \in DOMAIN kept |->
                           [slot |-> kept[i], entries |-> Cache!Delta(status_cache, kept[i])]]]
        /\ rooting' = Tail(rooting)
        /\ UNCHANGED <<banks, last_accounts_hash_slot, status_cache, blockstore, snapshot, loading,
                       restarts>>

(* The accounts background service handles the last request, and archives it if due. *)
handle_snapshot_requests ==
    /\ request # NoRequest
    /\ snapshot' = IF request.bank.queue.height % snapshot_interval_slots = 0 THEN request
                   ELSE snapshot
    /\ request' = NoRequest
    /\ UNCHANGED <<banks, rooting, last_accounts_hash_slot, status_cache, blockstore, loading, restarts>>

(* A slot is dumped with its descendants; other versions of them may arrive later. *)
purge_unconfirmed_duplicate_slot(slot) ==
    /\ ReplayIdle /\ slot # root /\ blockstore[slot].version < MaxDumps
    /\ banks' = [s \in DOMAIN banks \ Descendants(slot) |-> banks[s]]
    /\ blockstore' = [s \in LedgerSlots |->
                        IF s \in Descendants(slot)
                        THEN [parent |-> NoSlot, version |-> Min({blockstore[s].version + 1, MaxDumps})]
                        ELSE blockstore[s]]
    /\ status_cache' = FoldSet(LAMBDA s, sc : Cache!clear_slot_entries(sc, s),
                               status_cache, Descendants(slot))
    /\ UNCHANGED <<rooting, snapshots, loading, restarts>>

Restart ==
    /\ restarts < MaxRestarts
    /\ restarts' = restarts + 1
    /\ banks' = [s \in {snapshot.slot} |-> snapshot.bank]
    /\ Cache!Renew
    /\ rooting' = << >>
    /\ loading' = snapshot.deltas
    /\ last_accounts_hash_slot' = snapshot.slot
    /\ request' = NoRequest
    /\ UNCHANGED <<blockstore, snapshot>>

(* bank.src.append: all deltas are loaded before the first bank is made. *)
LoadDelta ==
    /\ loading # << >>
    /\ Cache!AppendDelta(loading[1].slot, TRUE, loading[1].entries)
    /\ loading' = Tail(loading)
    /\ UNCHANGED <<banks, rooting, blockstore, snapshots, restarts>>

Next ==
    \/ \E p \in DOMAIN banks, slot \in LedgerSlots : new_from_parent(p, slot)
    \/ \E slot \in DOMAIN banks :
          \/ register_tick(slot)
          \/ set_root(slot)
          \/ purge_unconfirmed_duplicate_slot(slot)
          \/ \E tx \in Transactions : process_transaction(slot, tx)
    \/ squash \/ send_snapshot_request \/ handle_snapshot_requests \/ Restart \/ LoadDelta

Spec == Init /\ [][Next]_vars

-----------------------------------------------------------------------------
(***************************************************************************)
(* No fork has a transaction twice, although the cache forgets old roots,  *)
(* a restart forgets everything that is not in the snapshot, and a nonce   *)
(* transaction never gets too old.                                         *)
(***************************************************************************)
ProcessedOnce ==
    \A s \in DOMAIN banks : \A tx \in BagToSet(banks[s].done) : CopiesIn(tx, banks[s].done) = 1

(***************************************************************************)
(* Only what this fork processed is found already processed: not what      *)
(* another fork did, nor a dumped version of the slot.                     *)
(***************************************************************************)
StatusesAreTrue ==
    \A s \in DOMAIN banks : \A f \in status_cache.forks :
        (f.key.kind = "message" /\ f.slot \in banks[s].ancestors \cup status_cache.roots)
           => BagIn(f.key.tx, banks[s].done)

(* check_transactions lets a transaction into a fork once, and keeps out only *)
(* what is on the fork already.                                               *)
ReplayOK ==
    /\ ProcessedOnce
    /\ StatusesAreTrue
=============================================================================
