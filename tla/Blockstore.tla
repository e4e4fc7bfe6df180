------------------------------ MODULE Blockstore ------------------------------
(***************************************************************************)
(* How shreds become slots and slots a tree (ledger/src/blockstore.rs).    *)
(*                                                                         *)
(* A block is sent as data shreds and coding shreds that arrive in any     *)
(* order, some of them never.  A batch of shreds is inserted under a lock  *)
(* and written at once: the metadata of every slot touched, the shreds     *)
(* that erasure coding gives back, the links between parent and child, and *)
(* is_connected, which says that all of a slot's ancestors are complete.   *)
(* A leader may send several versions of a block; a wrong version is       *)
(* cleared, so that the right one can be fetched.  The process may die.    *)
(***************************************************************************)
EXTENDS Integers, Sequences, FiniteSets, FiniteSetsExt, SequencesExt, TLC

CONSTANT
  Ledgers       \* [blocks, NumCoding, MaxBatch, MaxChecks, MaxClears, MaxCrashes, MaxRoot]: what
                \* leaders send, a set of [slot, version, parent, last, ends]; the number of
                \* coding shreds of a block, which is one erasure set; and bounds on the shreds
                \* of a batch, the shreds that wait for the check for duplicates, the slots
                \* cleared, the crashes and the roots

ASSUME BlocksAssumption ==
  \A l \in Ledgers : \A b, c \in l.blocks :
    /\ b.slot = c.slot /\ b.version = c.version => b = c
    /\ b.parent < b.slot \/ b.slot = 0
    /\ b.last \in b.ends

VARIABLES
  ledger,       \* one of Ledgers
  meta,         \* cf::SlotMeta: slot -> metadata, for the slots that have some
  data,         \* cf::ShredData and the data index: slot -> (index -> version)
  coding,       \* cf::ShredCode and the coding index
  erasure,      \* cf::ErasureMeta: slot -> number of data shreds
  orphans,      \* cf::Orphans
  dead,         \* cf::DeadSlots
  proofs,       \* cf::DuplicateSlots: slot -> the two shreds
  last_root,
  clearing,     \* the metadata clear_unconfirmed_slot is about to write back
  checks,       \* shreds sent to the thread that looks for duplicates
  signal,       \* a signal for the replay stage waits in its channel
  completed,    \* history: slots that were announced as complete
  told,         \* history: data sets that were announced: <<slot, first, last>>
  told_again,   \* history: a data set was announced twice
  panicked,     \* a shred that has to be stored was not
  clears, crashes

Blocks == ledger.blocks
LedgerSlots == {b.slot : b \in Blocks} \cup {b.parent : b \in Blocks}
Versions == {b.version : b \in Blocks}

(* None is stored as u64::MAX. *)
None == 99

(* What the network delivers; everybody has slot 0 from the start. *)
Sent == {b \in Blocks : b.slot # 0}
DataShreds == UNION {{[type |-> "Data", slot |-> b.slot, version |-> b.version, index |-> i] :
                      i \in 0..b.last} : b \in Sent}
CodeShreds == {[type |-> "Code", slot |-> b.slot, version |-> b.version, index |-> i] :
                 b \in Sent, i \in 0..ledger.NumCoding - 1}
Shreds == DataShreds \cup CodeShreds

BlockOf(shred) == CHOOSE b \in Blocks : b.slot = shred.slot /\ b.version = shred.version
last_in_slot(shred) == shred.index = BlockOf(shred).last
data_complete(shred) == shred.index \in BlockOf(shred).ends
num_data_shreds(shred) == BlockOf(shred).last + 1

stored == <<meta, data, coding, erasure, orphans, dead, proofs>>
history == <<completed, told, told_again>>
ledgerVars == <<ledger, stored, last_root, clearing, checks, signal, history, panicked, clears, crashes>>

-----------------------------------------------------------------------------
(* SlotMeta *)

new_meta(slot, parent_slot) ==
  [consumed |-> 0, received |-> 0, last_index |-> None, parent_slot |-> parent_slot,
   next_slots |-> <<>>, is_connected |-> slot = 0, completed_data_indexes |-> {}]

new_orphan(slot) == new_meta(slot, None)

is_orphan(m) == m.parent_slot = None
is_full(m) == m.last_index # None /\ m.consumed = m.last_index + 1

NotClearing == [slot |-> None, meta |-> new_orphan(1)]

With(f, k, v) == (k :> v) @@ f
Without(f, k) == [x \in DOMAIN f \ {k} |-> f[x]]

Metas == [consumed : Nat, received : Nat, last_index : Nat, parent_slot : LedgerSlots \cup {None},
          next_slots : Seq(LedgerSlots), is_connected : BOOLEAN, completed_data_indexes : SUBSET Nat]

LedgerTypeOK ==
  /\ DOMAIN meta \subseteq LedgerSlots /\ \A s \in DOMAIN meta : meta[s] \in Metas /\ meta[s].consumed <= meta[s].received
  /\ \A f \in {data, coding} :
       /\ DOMAIN f = LedgerSlots
       /\ \A s \in LedgerSlots : DOMAIN f[s] \subseteq Nat /\ \A i \in DOMAIN f[s] : f[s][i] \in Versions
  /\ DOMAIN erasure \subseteq LedgerSlots
  /\ orphans \subseteq LedgerSlots /\ dead \subseteq LedgerSlots
  /\ DOMAIN proofs \subseteq LedgerSlots /\ \A s \in DOMAIN proofs : proofs[s] \in Shreds \X Shreds
  /\ last_root \in LedgerSlots
  /\ clearing.slot \in LedgerSlots \cup {None}
  /\ checks \subseteq Shreds
  /\ signal \in BOOLEAN /\ told_again \in BOOLEAN /\ panicked \in BOOLEAN
  /\ completed \subseteq LedgerSlots
  /\ clears \in 0..ledger.MaxClears /\ crashes \in 0..ledger.MaxCrashes

-----------------------------------------------------------------------------
(* Inserting shreds.  w is the state of one batch: copies of what is stored, *)
(* the slots inserted into and what is to be told.                           *)

verify_shred_slots(slot, parent_slot, root) ==
  \/ slot = 0 /\ parent_slot = 0 /\ root = 0
  \/ parent_slot < slot /\ parent_slot >= root

(* get_slot_meta_entry: an orphan learns its parent. *)
get_slot_meta_entry(w, shred) ==
  LET s == shred.slot  parent == BlockOf(shred).parent
  IN  IF s \notin DOMAIN w.meta THEN new_meta(s, parent)
      ELSE IF is_orphan(w.meta[s]) THEN [w.meta[s] EXCEPT !.parent_slot = parent]
      ELSE w.meta[s]

(* A proof is stored at once, not with the batch, and only the first one. *)
store_duplicate_if_not_existing(p, slot, shred1, shred2) ==
  IF slot \in DOMAIN p THEN p ELSE With(p, slot, <<shred1, shred2>>)

StoredShred(w, slot, index) ==
  [type |-> "Data", slot |-> slot, version |-> w.data[slot][index], index |-> index]

(* The data sets that a new shred completes: the one that ends in it and the *)
(* one that it is otherwise in.                                              *)
update_completed_data_indexes(is_last_in_data, index, received, ends) ==
  LET start == Max({0} \cup {e + 1 : e \in {e \in ends : e < index}})
      later == {e \in ends : e > index}
      own == IF is_last_in_data THEN {<<start, index>>} ELSE {}
      next == IF later = {} THEN {}
              ELSE {<<IF is_last_in_data THEN index + 1 ELSE start, Min(later)>>}
  IN  {r \in own \cup next : r[1]..r[2] \subseteq received}

(* Faulty variant: consumed counts the shreds instead of the consecutive ones. *)
CountConsumed(m, shred, received) ==
  [m EXCEPT !.received = Max({shred.index + 1, @}),
            !.consumed = Cardinality(received),
            !.last_index = IF last_in_slot(shred) /\ @ = None THEN shred.index ELSE @,
            !.completed_data_indexes = @ \cup (IF data_complete(shred) THEN {shred.index} ELSE {})]

update_slot_meta(m, shred, received) ==
  [m EXCEPT !.received = Max({shred.index + 1, @}),
            !.consumed = IF @ # shred.index THEN @
                         ELSE CHOOSE n \in shred.index + 1..shred.index + 1 + Cardinality(received) :
                                n \notin received /\ shred.index..n - 1 \subseteq received,
            !.last_index = IF last_in_slot(shred) /\ @ = None THEN shred.index ELSE @,
            !.completed_data_indexes = @ \cup (IF data_complete(shred) THEN {shred.index} ELSE {})]

(* The erasure sets for which recovery is tried: for a data shred, only if   *)
(* the set is known.                                                         *)
CodedSets(coded, s) == IF s \in DOMAIN erasure THEN coded \cup {s} ELSE coded

insert_data_shred(w, m, shred) ==
  LET s == shred.slot
      held == With(w.data[s], shred.index, shred.version)
      sets == update_completed_data_indexes(data_complete(shred), shred.index, DOMAIN held,
                                            m.completed_data_indexes)
      ranges == {<<s, r[1], r[2]>> : r \in sets}
  IN  [w EXCEPT !.data[s] = held,
                !.meta = With(@, s, update_slot_meta(m, shred, DOMAIN held)),
                !.inserted = @ \cup {s},
                !.coded = CodedSets(@, s),
                !.told = @ \cup ranges,
                !.told_again = @ \/ ranges \cap w.told # {}]

(* The index of the stored shred that a new shred contradicts, if any: the   *)
(* last of the slot, or a higher one than a shred that says it is the last.  *)
Contradicts(w, m, shred) ==
  IF m.last_index # None /\ shred.index >= m.last_index THEN m.last_index
  ELSE IF last_in_slot(shred) /\ shred.index < m.received THEN m.received - 1
  ELSE None

(* A shred says that the slot ends before one that came already. *)
EndsEarly(m, shred) == last_in_slot(shred) /\ shred.index < m.received /\ ~ is_full(m)

(* check_insert_data_shred with should_insert_data_shred. *)
check_insert_data_shred(w, shred) ==
  LET s == shred.slot
      m == get_slot_meta_entry(w, shred)
      kept == [w EXCEPT !.meta = With(@, s, m)]
      end == Contradicts(w, m, shred)
      marked == IF EndsEarly(m, shred) THEN [kept EXCEPT !.dead = @ \cup {s}] ELSE kept
  IN  IF shred.index < m.consumed \/ shred.index \in DOMAIN w.data[s]
      THEN [kept EXCEPT !.checks = @ \cup {shred}]
      ELSE IF end # None
      THEN IF end \notin DOMAIN w.data[s] THEN [marked EXCEPT !.panicked = TRUE]
           ELSE [marked EXCEPT !.proofs =
                   store_duplicate_if_not_existing(@, s, StoredShred(w, s, end), shred)]
      ELSE IF ~ verify_shred_slots(s, m.parent_slot, last_root) THEN marked
      ELSE insert_data_shred(marked, m, shred)

(* A coding shred has to agree with the erasure configuration of its set;   *)
(* one that does not is reported with a stored one that differs from it.    *)
check_insert_coding_shred(w, shred) ==
  LET s == shred.slot
      config == IF s \in DOMAIN w.erasure THEN w.erasure[s] ELSE num_data_shreds(shred)
      conflicting == {c \in CodeShreds : /\ c.slot = s /\ c.index \in DOMAIN w.coding[s]
                                         /\ c.version = w.coding[s][c.index]
                                         /\ num_data_shreds(c) # num_data_shreds(shred)}
      taken == [w EXCEPT !.erasure = With(@, s, config), !.coded = @ \cup {s}]
  IN  IF shred.index \in DOMAIN w.coding[s] THEN [w EXCEPT !.checks = @ \cup {shred}]
      ELSE IF s <= last_root THEN w
      ELSE IF config # num_data_shreds(shred)
      THEN IF conflicting # {}
           THEN [taken EXCEPT !.proofs =
                   store_duplicate_if_not_existing(@, s, CHOOSE c \in conflicting : TRUE, shred)]
           ELSE taken
      ELSE [taken EXCEPT !.coding[s] = With(@, shred.index, shred.version)]

check_insert_shred(w, shred) ==
  IF shred.type = "Data" THEN check_insert_data_shred(w, shred)
  ELSE check_insert_coding_shred(w, shred)

-----------------------------------------------------------------------------
(* Recovery *)

(* ErasureMeta::status *)
CanRecover(n, num_data, num_coding) == num_data < n /\ num_data + num_coding >= n

(* recover_shreds: decoding takes the first n shreds of the set, data before *)
(* coding.  What it gives back for shreds of several versions does not carry *)
(* the leader's signature, and is dropped.                                   *)
Recovered(w, s) ==
  LET n == w.erasure[s]
      held == DOMAIN w.data[s] \cap 0..n - 1
      code == DOMAIN w.coding[s]
      used == {c \in code : Cardinality({d \in code : d <= c}) <= n - Cardinality(held)}
      mixed == {w.data[s][i] : i \in held} \cup {w.coding[s][i] : i \in used}
  IN  IF CanRecover(n, Cardinality(held), Cardinality(code)) /\ Cardinality(mixed) = 1
      THEN {d \in DataShreds : d.slot = s /\ d.version \in mixed /\ d.index \in 0..n - 1 \ held}
      ELSE {}

(* try_shred_recovery for the sets that the batch touched; what is recovered *)
(* is inserted like a shred from the network.                                *)
Recover(w) ==
  LET found == UNION {Recovered(w, s) : s \in w.coded}
      order == SetToSortSeq(found, LAMBDA c, d : c.slot < d.slot \/ (c.slot = d.slot /\ c.index < d.index))
  IN  IF found = {} THEN w ELSE FoldLeft(check_insert_data_shred, w, order)

-----------------------------------------------------------------------------
(* Chaining *)

MetaOrOrphan(metas, s) == IF s \in DOMAIN metas THEN metas[s] ELSE new_orphan(s)

is_newly_completed_slot(metas, s) ==
  /\ is_full(metas[s])
  /\ s \in DOMAIN meta => metas[s].consumed # meta[s].consumed

(* Faulty variant: the children are marked, not their children. *)
MarkChildren(metas, slot) ==
  LET marked == {slot} \cup Range(metas[slot].next_slots)
  IN  [s \in DOMAIN metas \cup marked |->
         IF s \in marked THEN [MetaOrOrphan(metas, s) EXCEPT !.is_connected = TRUE] ELSE metas[s]]

(* traverse_children_mut from a slot down to the first slots that are not full. *)
Propagate(metas, slot) ==
  LET reached[s \in LedgerSlots] ==
        \/ s = slot
        \/ \E p \in DOMAIN metas : /\ p < s /\ reached[p]
                                   /\ is_full(metas[p]) /\ s \in Range(metas[p].next_slots)
      marked == {s \in LedgerSlots : reached[s]}
  IN  [s \in DOMAIN metas \cup marked |->
         IF s \in marked THEN [MetaOrOrphan(metas, s) EXCEPT !.is_connected = TRUE] ELSE metas[s]]

(* chain_new_slot_to_prev_slot *)
Chain(metas, slot) ==
  LET prev_slot == metas[slot].parent_slot
      prev == MetaOrOrphan(metas, prev_slot)
  IN  With(With(metas, slot, [metas[slot] EXCEPT !.is_connected = prev.is_connected /\ is_full(prev)]),
           prev_slot, [prev EXCEPT !.next_slots = Append(@, slot)])

WasOrphan(slot) == slot \in DOMAIN meta /\ is_orphan(meta[slot])

(* The parent of a new slot, or of an orphan, was not known before. *)
IsNew(slot) == slot # 0 /\ (slot \notin DOMAIN meta \/ WasOrphan(slot))

UpdateOrphans(known, chained, slot) ==
  LET prev_slot == chained[slot].parent_slot
      found == IF IsNew(slot) /\ is_orphan(chained[prev_slot]) THEN {prev_slot} ELSE {}
  IN  (known \cup found) \ (IF WasOrphan(slot) THEN {slot} ELSE {})

handle_chaining_for_slot(c, slot) ==
  LET chained == IF IsNew(slot) THEN Chain(c.meta, slot) ELSE c.meta
  IN  [meta |-> IF is_newly_completed_slot(chained, slot) /\ chained[slot].is_connected
                THEN Propagate(chained, slot) ELSE chained,
       orphans |-> UpdateOrphans(c.orphans, chained, slot)]

(* handle_chaining: slots that were only looked at are dropped; the others   *)
(* come in the order of a hash map.                                          *)
handle_chaining(w, order) ==
  FoldLeft(handle_chaining_for_slot,
           [meta |-> [s \in DOMAIN meta \cup w.inserted |-> IF s \in w.inserted THEN w.meta[s] ELSE meta[s]],
            orphans |-> orphans],
           order)

(* Faulty variant: a slot that is not new is no reason for a signal. *)
SignalNewSlots(metas, s) ==
  /\ metas[s].is_connected
  /\ s \notin DOMAIN meta /\ metas[s].consumed # 0

slot_has_updates(metas, s) ==
  /\ metas[s].is_connected
  /\ IF s \in DOMAIN meta THEN meta[s].consumed # metas[s].consumed ELSE metas[s].consumed # 0

(* The shreds of a batch and what is recovered with them. *)
Inserted(batch) ==
  Recover(FoldLeft(check_insert_shred,
                   [meta |-> meta, data |-> data, coding |-> coding, erasure |-> erasure, dead |-> dead,
                    proofs |-> proofs, checks |-> checks, inserted |-> {}, coded |-> {},
                    told |-> told, told_again |-> told_again, panicked |-> panicked],
                   batch))

(* insert_shreds_handle_duplicate, for shreds from the network. *)
InsertShreds(batch) ==
  LET w == Inserted(batch)
  IN  /\ clearing.slot = None
      /\ Cardinality(w.checks) <= ledger.MaxChecks
      /\ \E order \in SetToSeqs(w.inserted) :
           LET c == handle_chaining(w, order)
           IN  /\ meta' = c.meta
               /\ orphans' = c.orphans
               /\ signal' = (signal \/ \E s \in w.inserted : slot_has_updates(c.meta, s))
               /\ completed' = completed \cup {s \in w.inserted : is_newly_completed_slot(c.meta, s)}
      /\ data' = w.data /\ coding' = w.coding /\ erasure' = w.erasure
      /\ dead' = w.dead /\ proofs' = w.proofs /\ checks' = w.checks
      /\ told' = w.told /\ told_again' = w.told_again /\ panicked' = w.panicked
      /\ UNCHANGED <<last_root, clearing, clears, crashes>>

(* The process dies before the batch is written: only a proof is stored. *)
DieInserting(batch) ==
  /\ clearing.slot = None
  /\ crashes < ledger.MaxCrashes
  /\ crashes' = crashes + 1
  /\ proofs' = Inserted(batch).proofs
  /\ proofs' # proofs
  /\ checks' = {}
  /\ signal' = FALSE
  /\ UNCHANGED <<meta, data, coding, erasure, orphans, dead, last_root, clearing, history, panicked, clears>>

-----------------------------------------------------------------------------
(* The other users of the blockstore *)

(* is_shred_duplicate: the shred stored in the same place, if it differs. *)
Existing(shred) ==
  LET column == IF shred.type = "Data" THEN data ELSE coding
  IN  {[shred EXCEPT !.version = v] : v \in {v \in Versions \ {shred.version} :
         shred.index \in DOMAIN column[shred.slot] /\ column[shred.slot][shred.index] = v}}

(* run_check_duplicate, in a thread of its own. *)
CheckDuplicate(shred) ==
  /\ shred \in checks
  /\ checks' = checks \ {shred}
  /\ proofs' = IF shred.slot \in DOMAIN proofs \/ Existing(shred) = {} THEN proofs
               ELSE With(proofs, shred.slot, <<CHOOSE e \in Existing(shred) : TRUE, shred>>)
  /\ UNCHANGED <<meta, data, coding, erasure, orphans, dead, last_root, clearing, signal, history,
                 panicked, clears, crashes>>

(* The replay stage takes the signal. *)
TakeSignal ==
  /\ signal /\ signal' = FALSE
  /\ UNCHANGED <<stored, last_root, clearing, checks, history, panicked, clears, crashes>>

(* The slots from a slot back to the first known one. *)
Lineage[s \in LedgerSlots] ==
  {s} \cup IF s \in DOMAIN meta /\ meta[s].parent_slot \in LedgerSlots \ {s} THEN Lineage[meta[s].parent_slot] ELSE {}

(* set_roots: the replay stage roots slots that it replayed. *)
set_roots(root) ==
  /\ root > last_root /\ root <= ledger.MaxRoot
  /\ last_root \in Lineage[root]
  /\ \A s \in Lineage[root] : is_full(meta[s]) /\ s \notin dead
  /\ last_root' = root
  /\ UNCHANGED <<stored, clearing, checks, signal, history, panicked, clears, crashes>>

(* What replay clears: a slot with several versions that are not the right   *)
(* one, with what was replayed on top of it.                                 *)
Clearable(s) ==
  /\ s \in DOMAIN meta /\ s > last_root
  /\ \E d \in Lineage[s] : Cardinality({b \in Blocks : b.slot = d}) > 1

(* clear_unconfirmed_slot: a write that deletes everything of a slot ...    *)
PurgeUnconfirmedSlot(s) ==
  /\ clearing.slot = None /\ clears < ledger.MaxClears
  /\ Clearable(s)
  /\ clearing' = [slot |-> s, meta |-> meta[s]]
  /\ meta' = Without(meta, s)
  /\ data' = [data EXCEPT ![s] = <<>>]
  /\ coding' = [coding EXCEPT ![s] = <<>>]
  /\ erasure' = Without(erasure, s)
  /\ orphans' = orphans \ {s}
  /\ dead' = dead \ {s}
  /\ proofs' = Without(proofs, s)
  /\ clears' = clears + 1
  /\ completed' = completed \ {s}
  /\ told' = {t \in told : t[1] # s}
  /\ UNCHANGED <<last_root, checks, signal, told_again, panicked, crashes>>

(* ... and another one that puts back metadata with the slot's children. *)
RestoreNextSlots ==
  /\ clearing.slot # None
  /\ meta' = With(meta, clearing.slot,
                  [new_orphan(clearing.slot) EXCEPT !.next_slots = clearing.meta.next_slots])
  /\ clearing' = NotClearing
  /\ UNCHANGED <<data, coding, erasure, orphans, dead, proofs, last_root, checks, signal, history,
                 panicked, clears, crashes>>

(* The process dies and opens the blockstore again. *)
Crash ==
  /\ crashes < ledger.MaxCrashes
  /\ crashes' = crashes + 1
  /\ clearing' = NotClearing
  /\ checks' = {}
  /\ signal' = FALSE
  /\ UNCHANGED <<stored, last_root, history, panicked, clears>>

Batches == {b \in UNION {[1..n -> Shreds] : n \in 1..ledger.MaxBatch} : IsInjective(b)}

(* create_new_ledger: slot 0 is complete and the root. *)
LedgerInit ==
  /\ ledger \in Ledgers
  /\ LET genesis == CHOOSE b \in Blocks : b.slot = 0
     IN  /\ meta = [s \in {0} |-> [new_meta(0, 0) EXCEPT !.consumed = genesis.last + 1, !.received = genesis.last + 1,
                                                 !.last_index = genesis.last,
                                                 !.completed_data_indexes = genesis.ends]]
         /\ data = [s \in LedgerSlots |-> IF s = 0 THEN [i \in 0..genesis.last |-> genesis.version] ELSE <<>>]
  /\ coding = [s \in LedgerSlots |-> <<>>]
  /\ erasure = <<>>
  /\ orphans = {} /\ dead = {} /\ proofs = <<>>
  /\ last_root = 0
  /\ clearing = NotClearing
  /\ checks = {} /\ signal = FALSE
  /\ completed = {0}
  /\ told = {<<0, 0, 0>>} /\ told_again = FALSE /\ panicked = FALSE
  /\ clears = 0 /\ crashes = 0

LedgerNext ==
  /\ UNCHANGED ledger
  /\ \/ \E batch \in Batches : InsertShreds(batch)
     \/ \E batch \in Batches : DieInserting(batch)
     \/ \E shred \in checks : CheckDuplicate(shred)
     \/ TakeSignal
     \/ \E s \in LedgerSlots : set_roots(s)
     \/ \E s \in LedgerSlots : PurgeUnconfirmedSlot(s)
     \/ RestoreNextSlots
     \/ Crash

LedgerSpec == LedgerInit /\ [][LedgerNext]_ledgerVars

-----------------------------------------------------------------------------
(* Properties *)

(* handle_chaining, traverse_children_mut: whatever the order in which slots *)
(* and shreds arrive, a slot is connected exactly when its parent is         *)
(* connected and full, as long as nothing was cleared.                       *)
ConnectedExact ==
  clears = 0 =>
    \A s \in DOMAIN meta \ {0} :
      meta[s].is_connected <=>
        /\ ~ is_orphan(meta[s])
        /\ meta[meta[s].parent_slot].is_connected /\ is_full(meta[meta[s].parent_slot])

(* chain_new_slot_to_prev_slot: next_slots holds the slots whose parent this *)
(* is, each of them once, and a parent has metadata as soon as a child does, *)
(* as long as nothing was cleared.                                           *)
LinksExact ==
  clears = 0 =>
    \A p \in DOMAIN meta :
      /\ Range(meta[p].next_slots) = {s \in DOMAIN meta \ {0} : meta[s].parent_slot = p}
      /\ IsInjective(meta[p].next_slots)
      /\ meta[p].parent_slot \in DOMAIN meta \cup {None}

(* handle_chaining_for_slot: the Orphans column, from which repair starts,   *)
(* has exactly the slots that were heard of and have no parent yet, as long  *)
(* as nothing was cleared.                                                   *)
OrphansExact == clears = 0 => orphans = {s \in DOMAIN meta : is_orphan(meta[s])}

(* insert_data_shred, update_slot_meta: consumed, received, last_index and   *)
(* the data-complete indexes say what is stored, recovered shreds included.  *)
MetaMatchesData ==
  \A s \in DOMAIN meta :
    LET held == DOMAIN data[s]
        shred(i) == [slot |-> s, index |-> i, version |-> data[s][i]]
        lasts == {i \in held : last_in_slot(shred(i))}
    IN  /\ meta[s].consumed = Min({i \in 0..Cardinality(held) : i \notin held})
        /\ meta[s].received = Max({0} \cup {i + 1 : i \in held})
        /\ meta[s].last_index = (IF lasts = {} THEN None ELSE Max(held))
        /\ Cardinality(lasts) <= 1
        /\ meta[s].completed_data_indexes = {i \in held : data_complete(shred(i))}

(* is_newly_completed_slot: a slot is announced when its last hole is filled, *)
(* no matter by which shred.                                                  *)
CompletedIsTold == completed = {s \in DOMAIN meta : is_full(meta[s])}

(* update_completed_data_indexes: every complete data set is announced, and  *)
(* none of them twice.                                                       *)
DataSetsExact ==
  /\ ~ told_again
  /\ \A s \in DOMAIN meta :
       LET ends == meta[s].completed_data_indexes
           first(e) == Max({0} \cup {f + 1 : f \in {f \in ends : f < e}})
       IN  {t \in told : t[1] = s} =
             {<<s, first(e), e>> : e \in {e \in ends : first(e)..e \subseteq DOMAIN data[s]}}

(* slot_has_updates: when there is more to replay from a connected slot, a   *)
(* signal waits for the replay stage.                                        *)
ProgressIsSignalled ==
  [][\A s \in DOMAIN meta' :
       LET replayable == IF s \in DOMAIN meta /\ meta[s].is_connected THEN meta[s].consumed ELSE 0
       IN  meta'[s].is_connected /\ meta'[s].consumed > replayable => signal']_ledgerVars

(* try_shred_recovery: no erasure set is left that could be recovered, of a  *)
(* slot that comes in one version.                                           *)
NothingToRecover ==
  \A s \in DOMAIN erasure :
    Cardinality({b \in Blocks : b.slot = s}) = 1 =>
      Recovered([data |-> data, coding |-> coding, erasure |-> erasure], s) = {}

(* traverse_children_mut, clear_unconfirmed_slot: also when slots are cleared *)
(* and fetched again, a slot that can be replayed is known to be connected,   *)
(* and is in its parent's next_slots.                                         *)
ReplayableIsLinked ==
  clearing.slot = None =>
    \A s \in DOMAIN meta \ {0} :
      LET parent == meta[s].parent_slot
      IN  parent \in DOMAIN meta =>
            /\ s \in Range(meta[parent].next_slots)
            /\ meta[parent].is_connected /\ is_full(meta[parent]) => meta[s].is_connected

(* The tree of slots that SlotMeta and the Orphans column make is the one the *)
(* shreds describe.                                                           *)
SlotTreeExact ==
  /\ ConnectedExact
  /\ LinksExact
  /\ OrphansExact
  /\ ReplayableIsLinked

(* get_data_shred_from_just_inserted_or_db: the shred that a new shred       *)
(* contradicts is stored.                                                    *)
EndingShredIsStored == ~ panicked

(* store_duplicate_if_not_existing, run_check_duplicate: the two shreds of a *)
(* proof are of the same slot and of different versions.                     *)
ProofIsReal ==
  \A s \in DOMAIN proofs :
    /\ proofs[s][1].slot = s /\ proofs[s][2].slot = s
    /\ proofs[s][1].version # proofs[s][2].version

(* check_insert_data_shred: a slot that could never be completed, because a  *)
(* shred said that it ends before one that is stored, is marked dead, unless *)
(* the process died after the proof was stored.                              *)
StuckIsDead ==
  crashes = 0 => \A s \in DOMAIN proofs :
    proofs[s][2].type = "Data" /\ last_in_slot(proofs[s][2]) /\ proofs[s][2].index < proofs[s][1].index
      => s \in dead

(* insert_shreds keeps the metadata of every slot equal to what its shreds   *)
(* say, announces what is complete once, recovers what can be recovered, and *)
(* stores only true proofs of duplicates.                                    *)
SlotMetaExact ==
  /\ LedgerTypeOK
  /\ MetaMatchesData
  /\ CompletedIsTold
  /\ DataSetsExact
  /\ NothingToRecover
  /\ EndingShredIsStored
  /\ ProofIsReal
  /\ StuckIsDead

=============================================================================
