------------------------------- MODULE Commitment -------------------------------
(***************************************************************************)
(* What a validator tells RPC clients of the cluster's commitment:         *)
(* core/src/commitment_service.rs and runtime/src/commitment.rs.           *)
(*                                                                         *)
(* After each of its votes the replay stage sends the bank and its root    *)
(* through a channel.  The service skips all but the last, adds up what    *)
(* the vote accounts of that bank say of each ancestor, and replaces the   *)
(* cache, of which only the highest confirmed root is kept from going      *)
(* back.  The replay stage reads that root when it prunes bank_forks.      *)
(*                                                                         *)
(* Voters of the cluster vote along one fork; our validator may follow     *)
(* another one for a while, on which fewer of their votes have landed.     *)
(***************************************************************************)
EXTENDS Lockouts, BlockTree, SequencesExt

CONSTANTS
  Voters,
  Stake,         \* voter -> stake
  Voted,         \* the fork that voters vote on and that our validator roots
  MaxChannel     \* most messages in the channel

VARIABLES
  bank_slots,    \* the slots in bank_forks
  accounts,      \* slot -> voter -> [votes, root]: the vote accounts of a bank
  root_slot,     \* the root of bank_forks
  roots,         \* the roots in the status cache, which the banks share
  last_vote,     \* the bank our validator voted for last
  channel,       \* CommitmentAggregationData: [bank, root]
  cache,         \* BlockCommitmentCache
  aggregated     \* history: the banks that were aggregated

commitmentVars == <<bank_slots, accounts, root_slot, roots, last_vote, channel, cache, aggregated>>

total_stake == MapThenSumSet(LAMBDA v : Stake[v], Voters)

(* VOTE_THRESHOLD_SIZE *)
Majority(stake) == 3 * stake > 2 * total_stake

-----------------------------------------------------------------------------
(* Bank::status_cache_ancestors: also roots above the bank, set since then. *)
status_cache_ancestors(bank) ==
  LET all == roots \cup {a \in Fork[bank] : a >= Min(roots)}
  IN  [i \in 1 .. Cardinality(all) |-> CHOOSE a \in all : Cardinality({x \in all : x <= a}) = i]

(* The number of ancestors, from the oldest, that are not above the slot. *)
Through(ancestors, slot) == Cardinality({i \in DOMAIN ancestors : ancestors[i] <= slot})

(* Where the votes start to count: behind the voter's root.  The code sets   *)
(* the index at the first ancestor above the root, and only there.           *)
IndexAfterRoot(ancestors, state) ==
  IF Through(ancestors, state.root) = Len(ancestors) THEN 0 ELSE Through(ancestors, state.root)

(* aggregate_commitment_for_vote_account: the levels at which this account   *)
(* counts for each ancestor.  Level MAX_LOCKOUT_HISTORY + 1 is rooted.       *)
aggregate_commitment_for_vote_account(ancestors, state) ==
  LET rooted == [i \in DOMAIN ancestors |->
                   IF ancestors[i] <= state.root THEN {MAX_LOCKOUT_HISTORY + 1} ELSE {}]
      Count(acc, vote) ==
        LET next == Through(ancestors, vote.slot)
        IN  [index |-> IF next > acc.index THEN next ELSE acc.index,
             levels |-> [i \in DOMAIN ancestors |->
                IF i > acc.index /\ i <= next
                  THEN acc.levels[i] \cup {vote.confirmation_count} ELSE acc.levels[i]]]
  IN  FoldLeft(Count, [index |-> IndexAfterRoot(ancestors, state), levels |-> rooted],
               state.votes).levels

(* aggregate_commitment: ancestor -> level -> stake. *)
aggregate_commitment(ancestors, bank) ==
  LET levels == [v \in Voters |->
                   aggregate_commitment_for_vote_account(ancestors, accounts[bank][v])]
  IN  [a \in Range(ancestors) |->
         LET i == CHOOSE j \in DOMAIN ancestors : ancestors[j] = a
         IN  [level \in 1 .. MAX_LOCKOUT_HISTORY + 1 |->
                MapThenSumSet(LAMBDA v : Stake[v], {v \in Voters : level \in levels[v][i]})]]

(* get_highest_confirmed_root: rooted slots from the highest down, until     *)
(* enough stake has rooted one or a later one.                               *)
get_highest_confirmed_root(bank) ==
  LET Rooted(r) == MapThenSumSet(LAMBDA v : Stake[v], {v \in Voters : accounts[bank][v].root >= r})
      enough == {r \in {accounts[bank][v].root : v \in Voters} : r # NoSlot /\ Majority(Rooted(r))}
  IN  Max(enough \cup {0})

(* get_confirmation_count: the lowest level at which enough stake is locked  *)
(* out is found from the top; here only whether there is one matters.        *)
IsConfirmed(commitment, slot) ==
  /\ slot \in DOMAIN commitment
  /\ Majority(FoldFunction(+, 0, commitment[slot]))

highest_slot_with_confirmation(commitment, bank, from) ==
  Max({s \in from .. bank - 1 : IsConfirmed(commitment, s)} \cup {from})

-----------------------------------------------------------------------------
(* A bank is created and frozen.  For each voter the vote for the parent     *)
(* has landed in it or not.                                                  *)
FreezeBank(s, landed) ==
  /\ s \notin DOMAIN accounts /\ s > root_slot
  /\ Parent[s] \in bank_slots
  /\ Parent[s] \in Voted \cup {0}
  /\ bank_slots' = bank_slots \cup {s}
  /\ accounts' = accounts @@ s :>
       [v \in Voters |->
          LET before == accounts[Parent[s]][v]
              after == process_next_vote_slot(before.votes, before.root, Parent[s])
          IN  IF v \in landed THEN [votes |-> after.votes, root |-> after.root] ELSE before]
  /\ UNCHANGED <<root_slot, roots, last_vote, channel, cache, aggregated>>

(* Faulty variant: banks are pruned up to the new root. *)
PruneToRoot(r) == {b \in bank_slots : r \in Fork[b]}

(* BankForks::prune_non_rooted *)
prune_non_rooted(r) ==
  {b \in bank_slots : r \in Fork[b] \/ (b \in Fork[r] /\ b >= cache.highest_confirmed_root)}

(* handle_votable_bank: a root, if the vote makes one, then the message. *)
handle_votable_bank(bank, r) ==
  /\ bank \in bank_slots /\ bank > last_vote
  /\ last_vote' = bank
  /\ r \in Fork[bank] \cap (Voted \cup {0}) /\ r >= root_slot
  /\ Len(channel) < MaxChannel
  /\ root_slot' = r
  /\ roots' = roots \cup {a \in Fork[r] : a >= root_slot}
  /\ bank_slots' = IF r = root_slot THEN bank_slots ELSE prune_non_rooted(r)
  /\ channel' = Append(channel, [bank |-> bank, root |-> r])
  /\ UNCHANGED <<accounts, cache, aggregated>>

(* Faulty variant: the cache is replaced as a whole. *)
KeptRoot(new) == new

NewestRoot(new) == Max({new, cache.highest_confirmed_root})

(* run and update_commitment_cache. *)
update_commitment_cache ==
  /\ channel # <<>>
  /\ LET data == channel[Len(channel)]
         commitment == aggregate_commitment(status_cache_ancestors(data.bank), data.bank)
     IN  /\ cache' = [slot |-> data.bank, root |-> data.root, block_commitment |-> commitment,
                      highest_confirmed_root |-> NewestRoot(get_highest_confirmed_root(data.bank)),
                      highest_confirmed_slot |->
                        highest_slot_with_confirmation(commitment, data.bank, data.root)]
         /\ aggregated' = aggregated \cup {data.bank}
  /\ channel' = <<>>
  /\ UNCHANGED <<bank_slots, accounts, root_slot, roots, last_vote>>

CommitmentInit ==
  /\ bank_slots = {0}
  /\ accounts = 0 :> [v \in Voters |-> [votes |-> <<>>, root |-> NoSlot]]
  /\ root_slot = 0
  /\ roots = {0}
  /\ last_vote = 0
  /\ channel = <<>>
  /\ cache = [slot |-> 0, root |-> 0, block_commitment |-> <<>>,
              highest_confirmed_root |-> 0, highest_confirmed_slot |-> 0]
  /\ aggregated = {}

CommitmentNext ==
  \/ \E s \in Slots, landed \in SUBSET Voters : FreezeBank(s, landed)
  \/ \E bank \in bank_slots, r \in Slots \cup {0} : handle_votable_bank(bank, r)
  \/ update_commitment_cache

CommitmentSpec == CommitmentInit /\ [][CommitmentNext]_commitmentVars

-----------------------------------------------------------------------------
(* Types; every stake in the cache is part of the whole. *)
CommitmentTypeOK ==
  /\ bank_slots \subseteq Slots \cup {0} /\ root_slot \in bank_slots /\ roots \subseteq Slots \cup {0}
  /\ last_vote \in DOMAIN accounts
  /\ \A i \in DOMAIN channel : channel[i].bank \in DOMAIN accounts
  /\ \A a \in DOMAIN cache.block_commitment :
       FoldFunction(+, 0, cache.block_commitment[a]) \in 0 .. total_stake

(* Each vote account counts once for an ancestor: as rooted when its root is *)
(* not below it, else with the confirmations of the oldest vote that is not  *)
(* below it, else not at all.                                                *)
CountedOnce ==
  \A bank \in Range([i \in DOMAIN channel |-> channel[i].bank]), v \in Voters :
    LET ancestors == status_cache_ancestors(bank)
        state == accounts[bank][v]
        levels == aggregate_commitment_for_vote_account(ancestors, state)
    IN  \A i \in DOMAIN ancestors :
          LET above == {j \in DOMAIN state.votes : state.votes[j].slot >= ancestors[i]}
          IN  levels[i] = IF ancestors[i] <= state.root THEN {MAX_LOCKOUT_HISTORY + 1}
                          ELSE IF above # {} THEN {state.votes[Min(above)].confirmation_count}
                          ELSE {}

(* The slot of finalized commitment never goes back, also when our validator *)
(* changes to a fork on which fewer votes have landed.                       *)
FinalizedNeverBack ==
  [][cache'.highest_confirmed_root >= cache.highest_confirmed_root]_commitmentVars

(* The bank of finalized commitment is in bank_forks: what is pruned at a    *)
(* new root is below the root that the cache had by then.                    *)
FinalizedIsKept == cache.highest_confirmed_root \in bank_slots

(* What is told to be finalized was rooted by two thirds in a bank of ours.  *)
FinalizedIsRooted ==
  cache.highest_confirmed_root > 0 =>
    \E bank \in aggregated :
      Majority(MapThenSumSet(LAMBDA v : Stake[v],
        {v \in Voters : accounts[bank][v].root >= cache.highest_confirmed_root}))

(* A slot told to be confirmed is our root, or two thirds have voted for it  *)
(* or for a descendant in the bank the cache is about.                       *)
ConfirmedIsVoted ==
  cache.highest_confirmed_slot > cache.root =>
    /\ cache.highest_confirmed_slot \in Fork[cache.slot]
    /\ Majority(MapThenSumSet(LAMBDA v : Stake[v],
         {v \in Voters : LET state == accounts[cache.slot][v]
                         IN  \/ state.root >= cache.highest_confirmed_slot
                             \/ last_voted_slot(state.votes) >= cache.highest_confirmed_slot}))

(* What AggregateCommitmentService publishes is what the votes in a bank say: *)
(* two thirds for what is confirmed, two thirds of the roots for what is      *)
(* finalized.                                                                 *)
CommitmentOK ==
  /\ CommitmentTypeOK
  /\ FinalizedIsKept
  /\ FinalizedIsRooted
  /\ ConfirmedIsVoted
  /\ CountedOnce
=============================================================================
