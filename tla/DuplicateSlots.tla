---------------------------- MODULE DuplicateSlots ----------------------------
(***************************************************************************)
(* Slots of which the leader made several blocks.  This validator replays  *)
(* the one it received; notices tell it that a slot has several blocks,    *)
(* which one the cluster confirmed, or which one a sample of the cluster   *)
(* has frozen, in any order and before or after its own block is frozen.   *)
(* Fork choice must leave a block out until it is confirmed, and a block   *)
(* that is not the confirmed one is dumped and received again.             *)
(*                                                                         *)
(* core/src/cluster_slot_state_verifier.rs decides what a notice changes;  *)
(* core/src/replay_stage.rs calls it, phase by phase of its loop.          *)
(***************************************************************************)
EXTENDS Integers, FiniteSets, Sequences, FiniteSetsExt, SequencesExt, TLC

CONSTANTS
    Keys,           \* blocks: pairs of a slot and a hash, both numbers
    Genesis,        \* the root at the start
    Parents,        \* the parent of each other block
    Worlds          \* what the cluster may do, see World

Slots == {k[1] : k \in Keys}
Hashes == {k[2] : k \in Keys}

(* confirmed: the blocks the cluster confirms, at most one of a slot;       *)
(* sampled: blocks a sample of the cluster may name; dead: blocks whose     *)
(* replay fails.                                                            *)
World == [confirmed : SUBSET Keys, sampled : SUBSET Keys, dead : SUBSET Keys]
Confirmable == UNION {w.confirmed : w \in Worlds}

ASSUME DuplicateSlotsAssumption ==
    /\ Keys \subseteq Nat \X (Nat \ {0}) /\ Genesis \in Keys
    /\ \A k \in Keys \ {Genesis} : Parents[k] \in Keys /\ Parents[k][1] < k[1]
    /\ Worlds \subseteq World
    /\ \A w \in Worlds : /\ w.confirmed \cap w.dead = {}
                         /\ \A k \in w.confirmed : k # Genesis /\ Parents[k] \in w.confirmed \cup {Genesis}
                         /\ \A k, l \in w.confirmed : k[1] = l[1] => k = l

VARIABLES
    world,
    blockstore,     \* the block received for each slot, or NoKey
    bank_forks,     \* for each slot the bank: its status and its block
    root,
    fork_choice,    \* HeaviestSubtreeForkChoice
    duplicate_slots_tracker,          \* slots known to have several blocks
    gossip_duplicate_confirmed_slots, \* the confirmed hash of each slot, or NoHash
    epoch_slots_frozen_slots,         \* the sampled hash of each slot, or NoHash
    duplicate_slots_to_repair,        \* the hash to repair of each slot, or NoHash
    descendants,    \* of each bank, taken at the start of the loop
    pc,             \* phase of the replay loop
    fault           \* an assertion of the code that failed
duplicatesVars == <<world, blockstore, bank_forks, root, fork_choice, duplicate_slots_tracker,
          gossip_duplicate_confirmed_slots, epoch_slots_frozen_slots, duplicate_slots_to_repair,
          descendants, pc, fault>>

FC == INSTANCE HeaviestSubtree WITH
        Trees <- {Parents}, Voters <- {}, SlotsPerEpoch <- 1, Stake <- <<>>, parents <- Parents

NoKey == <<-1, 0>>
NoHash == -1
Default == 0        \* Hash::default(), the hash of a bank that is not frozen

NoBank == [status |-> "none", key |-> NoKey]
Frozen(s) == bank_forks[s].status = "frozen"
FrozenKey(s) == bank_forks[s].key

(* BankStatus::bank_hash: of a frozen or dead bank only. *)
bank_hash(s) ==
    CASE Frozen(s) -> FrozenKey(s)[2]
      [] bank_forks[s].status = "dead" -> Default
      [] OTHER -> NoHash

IsDuplicateConfirmed(fc, k) == k \in FC!Blocks(fc) /\ fc.fork_infos[k].is_duplicate_confirmed

-----------------------------------------------------------------------------
(* cluster_slot_state_verifier *)

MarkSlotDuplicate(h) == [change |-> "mark", hash |-> h]
RepairDuplicateConfirmedVersion(h) == [change |-> "repair", hash |-> h]
DuplicateConfirmedSlotMatchesCluster(h) == [change |-> "matches", hash |-> h]

(* Faulty variant: what gossip said before is forgotten. *)
ReplayConfirmedOnly(fc, s, hash) ==
    IF hash # NoHash /\ IsDuplicateConfirmed(fc, <<s, hash>>) THEN hash ELSE NoHash

(* What replay confirmed goes before what gossip says. *)
get_duplicate_confirmed_hash(fc, s, hash) ==
    IF hash # NoHash /\ IsDuplicateConfirmed(fc, <<s, hash>>) THEN hash ELSE gossip_duplicate_confirmed_slots[s]

check_duplicate_confirmed_hash_against_frozen_hash(confirmed, frozen) ==
    IF confirmed # frozen
    THEN <<MarkSlotDuplicate(frozen), RepairDuplicateConfirmedVersion(confirmed)>>
    ELSE <<DuplicateConfirmedSlotMatchesCluster(frozen)>>

check_epoch_slots_hash_against_frozen_hash(sampled, frozen) ==
    IF sampled # frozen
    THEN <<MarkSlotDuplicate(frozen), RepairDuplicateConfirmedVersion(sampled)>>
    ELSE <<>>

(* A bank is frozen, or dead with the default hash. *)
on_frozen_slot(fc, s, hash) ==
    LET confirmed == get_duplicate_confirmed_hash(fc, s, hash)
    IN  CASE confirmed # NoHash -> check_duplicate_confirmed_hash_against_frozen_hash(confirmed, hash)
          [] confirmed = NoHash /\ epoch_slots_frozen_slots[s] # NoHash ->
                check_epoch_slots_hash_against_frozen_hash(epoch_slots_frozen_slots[s], hash)
          [] OTHER -> IF s \in duplicate_slots_tracker THEN <<MarkSlotDuplicate(hash)>> ELSE <<>>

on_duplicate_confirmed(hash, confirmed) ==
    IF hash = NoHash THEN <<>>
    ELSE check_duplicate_confirmed_hash_against_frozen_hash(confirmed, hash)

on_duplicate(fc, s, hash) ==
    IF hash = NoHash \/ get_duplicate_confirmed_hash(fc, s, hash) # NoHash THEN <<>>
    ELSE <<MarkSlotDuplicate(hash)>>

on_epoch_slots_frozen(fc, s, hash, sampled) ==
    IF hash = NoHash \/ get_duplicate_confirmed_hash(fc, s, hash) # NoHash THEN <<>>
    ELSE check_epoch_slots_hash_against_frozen_hash(sampled, hash)

(* Fork choice, the slots to repair and a failed assertion after the changes. *)
apply_state_changes(s, fc, changes) ==
    LET apply(st, c) ==
            LET k == <<s, c.hash>>
            IN  CASE c.change = "mark" ->
                        IF IsDuplicateConfirmed(st.fork_choice, k) THEN [st EXCEPT !.fault = "confirmed block marked"]
                        ELSE IF k \in FC!Blocks(st.fork_choice)
                        THEN [st EXCEPT !.fork_choice = FC!mark_fork_invalid_candidate(@, k)]
                        ELSE st
                  [] c.change = "repair" -> [st EXCEPT !.repair[s] = c.hash]
                  [] c.change = "matches" ->
                        IF k \notin FC!Blocks(st.fork_choice) THEN [st EXCEPT !.fault = "confirmed block unknown"]
                        ELSE [st EXCEPT !.fork_choice = FC!mark_fork_valid_candidate(@, k), !.repair[s] = NoHash]
    IN  FoldLeft(apply, [fork_choice |-> fc, repair |-> duplicate_slots_to_repair, fault |-> fault], changes)

(* check_slot_agrees_with_cluster, after the early returns of each notice. *)
Apply(s, fc, changes) ==
    LET st == apply_state_changes(s, fc, IF s <= root THEN <<>> ELSE changes)
    IN  /\ fork_choice' = st.fork_choice
        /\ duplicate_slots_to_repair' = st.repair
        /\ fault' = st.fault

-----------------------------------------------------------------------------
(* The replay loop *)

DuplicatesInit ==
    /\ world \in Worlds
    /\ blockstore = [s \in Slots |-> IF s = Genesis[1] THEN Genesis ELSE NoKey]
    /\ bank_forks = [s \in Slots |-> IF s = Genesis[1] THEN [status |-> "frozen", key |-> Genesis] ELSE NoBank]
    /\ root = Genesis[1]
    /\ fork_choice = FC!new(Genesis)
    /\ duplicate_slots_tracker = {}
    /\ gossip_duplicate_confirmed_slots = [s \in Slots |-> NoHash]
    /\ epoch_slots_frozen_slots = [s \in Slots |-> NoHash]
    /\ duplicate_slots_to_repair = [s \in Slots |-> NoHash]
    /\ descendants = <<>>
    /\ pc = "start"
    /\ fault = "none"

(* Some block of a slot is received, with shreds or by repair. *)
ReceiveBlock(k) ==
    /\ pc = "start" /\ k[1] > root /\ blockstore[k[1]] = NoKey
    /\ blockstore' = [blockstore EXCEPT ![k[1]] = k]
    /\ UNCHANGED <<world, bank_forks, root, fork_choice, duplicate_slots_tracker, gossip_duplicate_confirmed_slots,
                   epoch_slots_frozen_slots, duplicate_slots_to_repair, descendants, pc, fault>>

(* Slots with a bank that has the bank of slot s below it. *)
Above(banks, s) ==
    LET on[t \in Slots] ==
            /\ banks[t].status # "none" /\ banks[t].key # Genesis
            /\ LET p == Parents[banks[t].key][1] IN p = s \/ (p > s /\ on[p])
    IN  {t \in Slots : on[t]}

(* A bank for each received block whose parent's slot has a frozen bank. *)
generate_new_bank_forks ==
    /\ pc = "start"
    /\ LET new == {s \in Slots : /\ blockstore[s] # NoKey /\ bank_forks[s] = NoBank
                                 /\ s > root /\ Frozen(Parents[blockstore[s]][1])
                                 /\ Parents[blockstore[s]][1] >= root}
       IN  bank_forks' = [s \in Slots |-> IF s \in new THEN [status |-> "active", key |-> blockstore[s]]
                                          ELSE bank_forks[s]]
    /\ descendants' = [s \in {t \in Slots : bank_forks'[t].status # "none"} |-> Above(bank_forks', s)]
    /\ pc' = "replay"
    /\ UNCHANGED <<world, blockstore, root, fork_choice, duplicate_slots_tracker, gossip_duplicate_confirmed_slots,
                   epoch_slots_frozen_slots, duplicate_slots_to_repair, fault>>

(* A block can be replayed on its own parent only. *)
Replayable(k) == k \notin world.dead /\ FrozenKey(Parents[k][1]) = Parents[k]

(* replay_active_banks: an active bank is complete and freezes. *)
FreezeBank(s) ==
    /\ pc = "replay" /\ bank_forks[s].status = "active" /\ Replayable(bank_forks[s].key)
    /\ LET k == bank_forks[s].key
           fc == FC!add_new_leaf_slot(fork_choice, k, Parents[k])
       IN  /\ bank_forks' = [bank_forks EXCEPT ![s].status = "frozen"]
           /\ Apply(s, fc, on_frozen_slot(fc, s, k[2]))
    /\ UNCHANGED <<world, blockstore, root, duplicate_slots_tracker, gossip_duplicate_confirmed_slots,
                   epoch_slots_frozen_slots, descendants, pc>>

mark_dead_slot(s) ==
    /\ pc = "replay" /\ bank_forks[s].status = "active" /\ ~Replayable(bank_forks[s].key)
    /\ bank_forks' = [bank_forks EXCEPT ![s].status = "dead"]
    /\ Apply(s, fork_choice, on_frozen_slot(fork_choice, s, Default))
    /\ UNCHANGED <<world, blockstore, root, duplicate_slots_tracker, gossip_duplicate_confirmed_slots,
                   epoch_slots_frozen_slots, descendants, pc>>

process_epoch_slots_frozen_dead_slots(k) ==
    /\ pc = "epoch_slots" /\ k \in world.sampled /\ k[1] > root
    /\ epoch_slots_frozen_slots[k[1]] # k[2]
    /\ epoch_slots_frozen_slots' = [epoch_slots_frozen_slots EXCEPT ![k[1]] = k[2]]
    /\ Apply(k[1], fork_choice, on_epoch_slots_frozen(fork_choice, k[1], bank_hash(k[1]), k[2]))
    /\ UNCHANGED <<world, blockstore, bank_forks, root, duplicate_slots_tracker, gossip_duplicate_confirmed_slots,
                   descendants, pc>>

process_gossip_duplicate_confirmed_slots(k) ==
    /\ pc = "confirmed" /\ k \in world.confirmed /\ k[1] > root
    /\ gossip_duplicate_confirmed_slots[k[1]] = NoHash
    /\ gossip_duplicate_confirmed_slots' = [gossip_duplicate_confirmed_slots EXCEPT ![k[1]] = k[2]]
    /\ LET hash == bank_hash(k[1])
       IN  Apply(k[1], fork_choice,
                 IF hash # NoHash /\ IsDuplicateConfirmed(fork_choice, <<k[1], hash>>) THEN <<>>
                 ELSE on_duplicate_confirmed(hash, k[2]))
    /\ UNCHANGED <<world, blockstore, bank_forks, root, duplicate_slots_tracker, epoch_slots_frozen_slots,
                   descendants, pc>>

process_duplicate_slots(s) ==
    /\ pc = "duplicate" /\ s > root /\ s \notin duplicate_slots_tracker
    /\ \E k, l \in Keys : k # l /\ k[1] = s /\ l[1] = s
    /\ duplicate_slots_tracker' = duplicate_slots_tracker \cup {s}
    /\ Apply(s, fork_choice, on_duplicate(fork_choice, s, bank_hash(s)))
    /\ UNCHANGED <<world, blockstore, bank_forks, root, gossip_duplicate_confirmed_slots, epoch_slots_frozen_slots,
                   descendants, pc>>

(* The votes in a frozen descendant confirm a bank, which so is the cluster's. *)
mark_slots_confirmed(s) ==
    /\ pc = "stats" /\ s > root /\ Frozen(s) /\ FrozenKey(s) \in world.confirmed
    /\ \E t \in Above(bank_forks, s) : Frozen(t)
    /\ ~IsDuplicateConfirmed(fork_choice, FrozenKey(s))
    /\ Apply(s, fork_choice, on_duplicate_confirmed(FrozenKey(s)[2], FrozenKey(s)[2]))
    /\ UNCHANGED <<world, blockstore, bank_forks, root, duplicate_slots_tracker, gossip_duplicate_confirmed_slots,
                   epoch_slots_frozen_slots, descendants, pc>>

Phases == <<"replay", "epoch_slots", "confirmed", "duplicate", "stats", "select", "root", "dump">>

(* The next phase.  select_forks and dump_then_repair_correct_slots have     *)
(* actions of their own.                                                     *)
NextPhase ==
    /\ pc \notin {"start", "select", "dump"}
    /\ pc' = Phases[1 + CHOOSE i \in 1..Len(Phases) : Phases[i] = pc]
    /\ UNCHANGED <<world, blockstore, bank_forks, root, fork_choice, duplicate_slots_tracker,
                   gossip_duplicate_confirmed_slots, epoch_slots_frozen_slots, duplicate_slots_to_repair,
                   descendants, fault>>

IsFrozenBank(k) == bank_forks[k[1]] = [status |-> "frozen", key |-> k]

(* select_forks: the banks of the best block, and of the best one on the fork *)
(* last voted for, which may be any block.                                    *)
select_forks ==
    /\ pc = "select"
    /\ fault' = IF \A k \in FC!Blocks(fork_choice) :
                    LET best == fork_choice.fork_infos[k].best_slot
                    IN  IsFrozenBank(best) \/ (best = k /\ k # fork_choice.root)
                THEN fault ELSE "best bank missing"
    /\ pc' = "root"
    /\ UNCHANGED <<world, blockstore, bank_forks, root, fork_choice, duplicate_slots_tracker,
                   gossip_duplicate_confirmed_slots, epoch_slots_frozen_slots, duplicate_slots_to_repair,
                   descendants>>

From(f, s, none) == [t \in Slots |-> IF t >= s THEN f[t] ELSE none]

(* A vote for the best bank roots an ancestor.  Banks below it may be kept    *)
(* from the highest root the cluster confirmed on.                            *)
handle_new_root(k, highest) ==
    /\ pc = "root" /\ k \in FC!Ancestors(fork_choice, FC!best_overall_slot(fork_choice)) \ {fork_choice.root}
    /\ highest <= k[1]
    /\ root' = k[1]
    /\ bank_forks' = [t \in Slots |->
                        IF \/ t = k[1] \/ t \in Above(bank_forks, k[1])
                           \/ t < k[1] /\ t >= highest /\ k[1] \in Above(bank_forks, t)
                        THEN bank_forks[t] ELSE NoBank]
    /\ fork_choice' = FC!set_root(fork_choice, k)
    /\ duplicate_slots_tracker' = {t \in duplicate_slots_tracker : t >= k[1]}
    /\ gossip_duplicate_confirmed_slots' = From(gossip_duplicate_confirmed_slots, k[1], NoHash)
    /\ epoch_slots_frozen_slots' = From(epoch_slots_frozen_slots, k[1], NoHash)
    /\ pc' = "dump"
    /\ UNCHANGED <<world, blockstore, duplicate_slots_to_repair, descendants, fault>>

(* Faulty variant: the blocks stay in the blockstore. *)
PurgeKeepsBlocks(s) ==
    LET purged == descendants[s] \cup {s}
    IN  /\ bank_forks' = [t \in Slots |-> IF t \in purged THEN NoBank ELSE bank_forks[t]]
        /\ blockstore' = blockstore
        /\ descendants' = [t \in DOMAIN descendants \ purged |-> descendants[t] \ purged]
        /\ fault' = IF \A t \in purged : bank_forks[t] # NoBank THEN fault ELSE "bank purged before"

(* The slot's bank and all that are built on it are dropped, their blocks deleted. *)
purge_unconfirmed_duplicate_slot(s) ==
    LET purged == descendants[s] \cup {s}
    IN  /\ bank_forks' = [t \in Slots |-> IF t \in purged THEN NoBank ELSE bank_forks[t]]
        /\ blockstore' = [t \in Slots |-> IF t \in purged THEN NoKey ELSE blockstore[t]]
        /\ descendants' = [t \in DOMAIN descendants \ purged |-> descendants[t] \ purged]
        /\ fault' = IF \A t \in purged : bank_forks[t] # NoBank THEN fault ELSE "bank purged before"

(* One entry of dump_then_repair_correct_slots; they come in any order. *)
dump_then_repair_correct_slots(s) ==
    /\ pc = "dump" /\ duplicate_slots_to_repair[s] # NoHash
    /\ duplicate_slots_to_repair' = [duplicate_slots_to_repair EXCEPT ![s] = NoHash]
    /\ IF bank_hash(s) \in {NoHash, duplicate_slots_to_repair[s]}
       THEN UNCHANGED <<bank_forks, blockstore, descendants, fault>>
       ELSE purge_unconfirmed_duplicate_slot(s)
    /\ UNCHANGED <<world, root, fork_choice, duplicate_slots_tracker, gossip_duplicate_confirmed_slots,
                   epoch_slots_frozen_slots, pc>>

NextIteration ==
    /\ pc = "dump" /\ \A s \in Slots : duplicate_slots_to_repair[s] = NoHash
    /\ pc' = "start" /\ descendants' = <<>>
    /\ UNCHANGED <<world, blockstore, bank_forks, root, fork_choice, duplicate_slots_tracker,
                   gossip_duplicate_confirmed_slots, epoch_slots_frozen_slots, duplicate_slots_to_repair, fault>>

DuplicatesNext ==
    \/ \E k \in Keys : \/ ReceiveBlock(k) \/ process_epoch_slots_frozen_dead_slots(k)
                       \/ process_gossip_duplicate_confirmed_slots(k)
                       \/ \E highest \in Slots : handle_new_root(k, highest)
    \/ \E s \in Slots : \/ FreezeBank(s) \/ mark_dead_slot(s) \/ process_duplicate_slots(s)
                        \/ mark_slots_confirmed(s) \/ dump_then_repair_correct_slots(s)
    \/ generate_new_bank_forks \/ NextPhase \/ select_forks \/ NextIteration

DuplicatesSpec == DuplicatesInit /\ [][DuplicatesNext]_duplicatesVars

(***************************************************************************)
(* The loop goes on; no bank stays active for ever, since its block is     *)
(* completed some time; and repair, which asks for any block of a slot,    *)
(* does not get only others than the one the cluster confirmed.            *)
(***************************************************************************)
LoopRuns == []<>(pc = "start") /\ []<>(pc = "dump")
BanksFinish == \A s \in Slots : []<>(bank_forks[s].status # "active")
RepairServes ==
    \A k \in Confirmable :
        []<>(k \in world.confirmed /\ k[1] > root /\ blockstore[k[1]] = NoKey) => []<>(blockstore[k[1]] = k)

DuplicatesFairness == LoopRuns /\ BanksFinish /\ RepairServes

-----------------------------------------------------------------------------
(* Types of the variables. *)
DuplicatesTypeOK ==
    /\ world \in Worlds
    /\ blockstore \in [Slots -> Keys \cup {NoKey}]
    /\ bank_forks \in [Slots -> [status : {"none", "active", "dead", "frozen"}, key : Keys \cup {NoKey}]]
    /\ root \in Slots /\ fork_choice.root[1] = root
    /\ duplicate_slots_tracker \subseteq Slots
    /\ {gossip_duplicate_confirmed_slots, epoch_slots_frozen_slots, duplicate_slots_to_repair}
         \subseteq [Slots -> Hashes \cup {NoHash}]
    /\ DOMAIN descendants \subseteq Slots
    /\ pc \in {"start"} \cup Range(Phases)

(***************************************************************************)
(* No assertion of the code fails: no confirmed block is marked, the best  *)
(* block and the best one on the fork last voted for have banks when       *)
(* select_forks unwraps them, and no bank is purged twice.                 *)
(***************************************************************************)
AssertionsHold == fault = "none"

(* The root is never dumped, although slots to repair outlive roots. *)
RootIsKept == IsFrozenBank(fork_choice.root)

(***************************************************************************)
(* Whatever the order of notices and replay, when a bank to vote for is    *)
(* selected each frozen bank of a slot that gossip confirmed is judged by  *)
(* that: the confirmed one is confirmed in fork choice, another one is no  *)
(* candidate and will be dumped.                                           *)
(***************************************************************************)
AgreesWithCluster ==
    pc = "select" =>
        \A s \in Slots :
            s > root /\ Frozen(s) /\ gossip_duplicate_confirmed_slots[s] # NoHash =>
                IF FrozenKey(s)[2] = gossip_duplicate_confirmed_slots[s]
                THEN IsDuplicateConfirmed(fork_choice, FrozenKey(s)) /\ duplicate_slots_to_repair[s] = NoHash
                ELSE /\ ~FC!IsCandidate(fork_choice, FrozenKey(s))
                     /\ duplicate_slots_to_repair[s] = gossip_duplicate_confirmed_slots[s]

(***************************************************************************)
(* A frozen block known to be one of several is no candidate until it is   *)
(* confirmed, or named by a sample of the cluster, whatever came first.    *)
(***************************************************************************)
KnownDuplicateExcluded ==
    pc = "select" =>
        \A s \in duplicate_slots_tracker :
            /\ s > root /\ Frozen(s)
            /\ ~IsDuplicateConfirmed(fork_choice, FrozenKey(s))
            /\ epoch_slots_frozen_slots[s] # FrozenKey(s)[2]
            => ~FC!IsCandidate(fork_choice, FrozenKey(s))

(* The replay stage's view of slots with several versions: no assertion fails, *)
(* the root stays, and at every selection of a bank fork choice agrees with    *)
(* what is known about duplicates.                                             *)
DuplicatesOK ==
    /\ DuplicatesTypeOK
    /\ AssertionsHold
    /\ RootIsKept
    /\ AgreesWithCluster
    /\ KnownDuplicateExcluded

(* What gossip says of a block and its ancestors has come in. *)
Heard(k) ==
    \A a \in world.confirmed : a[1] <= k[1] => a[1] <= root \/ gossip_duplicate_confirmed_slots[a[1]] = a[2]

(***************************************************************************)
(* Once gossip has confirmed a block and its ancestors, the block is       *)
(* frozen some time, whichever version was replayed before, or a root has  *)
(* passed its slot or left its fork.                                       *)
(***************************************************************************)
ConfirmedIsReplayed ==
    \A k \in Confirmable :
        (k \in world.confirmed /\ Heard(k)) ~>
            \/ IsFrozenBank(k) \/ root >= k[1]
            \/ fork_choice.root \notin world.confirmed \cup {Genesis}
=============================================================================
