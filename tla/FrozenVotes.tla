------------------------------ MODULE FrozenVotes -----------------------------
(***************************************************************************)
(* The latest votes of other validators for blocks this validator has     *)
(* frozen (core/src/latest_validator_votes_for_frozen_banks.rs), fed from  *)
(* gossip and from replayed blocks, with the gossip votes that wait for    *)
(* their block (core/src/unfrozen_gossip_verified_vote_hashes.rs).  The    *)
(* gossip side is read by the switch proof; the replay side goes to fork   *)
(* choice bank by bank.  A slot may be dumped and replayed in another      *)
(* version.                                                                *)
(***************************************************************************)
EXTENDS Integers, FiniteSets, SequencesExt, FiniteSetsExt

CONSTANTS
    Versions,       \* blocks: pairs of a slot and a hash, both numbers
    FirstRoot,      \* the root at the start
    Parents,        \* the parent of each other block
    Validators,     \* vote accounts
    Landed          \* the vote a block's bank has last of a voter: Landed[key][voter], a block or NoVote

NoVote == <<-1, 0>>
NoHash == 0

ASSUME FrozenVotesAssumption ==
    /\ Versions \subseteq Nat \X (Nat \ {NoHash}) /\ FirstRoot \in Versions
    /\ \A k \in Versions \ {FirstRoot} : Parents[k] \in Versions /\ Parents[k][1] < k[1]
    /\ \A k \in Versions : Landed[k] \in [Validators -> {l \in Versions : l[1] < k[1]} \cup {NoVote}]

VARIABLES
    latest,         \* LatestValidatorVotesForFrozenBanks
    unfrozen,       \* votes_per_slot: pairs of voter and block
    progress,       \* the frozen hash of each slot with a bank, and NoHash
    computed,       \* slots whose votes have been collected
    tree_blocks,    \* blocks known to fork choice
    root,
    heard,          \* ghost: gossip votes received, pairs of voter and block
    given,          \* ghost: votes given to fork choice
    landed          \* ghost: votes collected from banks
frozenVotesVars == <<latest, unfrozen, progress, computed, tree_blocks, root, heard, given, landed>>

VersionSlots == {k[1] : k \in Versions}
NoVotes == [slot |-> -1, hashes |-> {}]

-----------------------------------------------------------------------------
(* The vote map of a voter after check_add_vote with a frozen block. *)
MaxVotes(old, k) ==
    CASE k[1] > old.slot -> [slot |-> k[1], hashes |-> {k[2]}]
      [] k[1] = old.slot -> [old EXCEPT !.hashes = @ \cup {k[2]}]
      [] OTHER -> old

(* The set of votes for fork choice after the same.  A voter without an     *)
(* entry gets the default one, slot 0, when its latest slot is voted again. *)
DirtyVotes(dirty, old, k) ==
    CASE k[1] > old.slot -> [slot |-> k[1], hashes |-> {k[2]}]
      [] k[1] = old.slot /\ k[2] \notin old.hashes ->
            [slot |-> IF dirty = NoVotes THEN 0 ELSE dirty.slot, hashes |-> dirty.hashes \cup {k[2]}]
      [] OTHER -> dirty

check_add_gossip_vote(lv, v, k) == [lv EXCEPT !.gossip[v] = MaxVotes(@, k)]

check_add_replay_vote(lv, v, k) ==
    [lv EXCEPT !.replay[v] = MaxVotes(@, k),
               !.dirty[v] = DirtyVotes(@, lv.replay[v], k)]

take_votes_dirty_set(lv, r) ==
    UNION {{<<v, <<lv.dirty[v].slot, h>>>> : h \in lv.dirty[v].hashes} : v \in {w \in Validators : lv.dirty[w].slot >= r}}

(* Faulty variant: only votes for slots above the latest frozen one wait. *)
WaitIfNewer(v, k) ==
    IF k \in tree_blocks
    THEN /\ latest' = check_add_gossip_vote(latest, v, k)
         /\ UNCHANGED unfrozen
    ELSE /\ unfrozen' = unfrozen \cup (IF k[1] > latest.gossip[v].slot THEN {<<v, k>>} ELSE {})
         /\ UNCHANGED latest

(* UnfrozenGossipVerifiedVoteHashes::add_vote: a vote for a block that is    *)
(* not frozen waits unless the voter has a frozen vote for a later slot.     *)
add_vote(v, k) ==
    IF k \in tree_blocks
    THEN /\ latest' = check_add_gossip_vote(latest, v, k)
         /\ UNCHANGED unfrozen
    ELSE /\ unfrozen' = unfrozen \cup (IF k[1] >= latest.gossip[v].slot THEN {<<v, k>>} ELSE {})
         /\ UNCHANGED latest

-----------------------------------------------------------------------------
FrozenVotesInit ==
    /\ latest = [gossip |-> [v \in Validators |-> NoVotes], replay |-> [v \in Validators |-> NoVotes],
                 dirty |-> [v \in Validators |-> NoVotes]]
    /\ unfrozen = {}
    /\ progress = [s \in VersionSlots |-> IF s = FirstRoot[1] THEN FirstRoot[2] ELSE NoHash]
    /\ computed = {FirstRoot[1]}
    /\ tree_blocks = {FirstRoot}
    /\ root = FirstRoot[1]
    /\ heard = {} /\ given = {} /\ landed = {}

process_gossip_verified_vote_hashes(v, k) ==
    /\ <<v, k>> \notin heard
    /\ heard' = heard \cup {<<v, k>>}
    /\ add_vote(v, k)
    /\ UNCHANGED <<progress, computed, tree_blocks, root, given, landed>>

(* replay_active_banks: a bank is complete, and votes that waited for it count. *)
FreezeBank(k) ==
    /\ progress[k[1]] = NoHash /\ k[1] > root
    /\ progress[Parents[k][1]] = Parents[k][2]
    /\ progress' = [progress EXCEPT ![k[1]] = k[2]]
    /\ tree_blocks' = tree_blocks \cup {k}
    /\ LET waiting == {w \in unfrozen : w[2] = k}
       IN  /\ latest' = FoldSet(LAMBDA w, lv : check_add_gossip_vote(lv, w[1], k), latest, waiting)
           /\ unfrozen' = unfrozen \ waiting
    /\ UNCHANGED <<computed, root, heard, given, landed>>

(* The last votes a bank has, for slots that have a frozen bank. *)
LastVotes(bank) ==
    {<<v, <<Landed[bank][v][1], progress[Landed[bank][v][1]]>>>> :
        v \in {w \in Validators : Landed[bank][w] # NoVote /\ progress[Landed[bank][w][1]] # NoHash}}

(* collect_vote_lockouts for one bank; fork choice then takes what is new. *)
collect_vote_lockouts(st, slot) ==
    LET votes == LastVotes(<<slot, progress[slot]>>)
        lv == FoldSet(LAMBDA w, l : check_add_replay_vote(l, w[1], w[2]), st.latest, votes)
    IN  [latest |-> [lv EXCEPT !.dirty = [v \in Validators |-> NoVotes]],
         given |-> st.given \cup {take_votes_dirty_set(lv, root)}, landed |-> st.landed \cup votes]

compute_bank_stats ==
    LET new == {s \in VersionSlots : progress[s] # NoHash} \ computed
        all == FoldLeft(collect_vote_lockouts, [latest |-> latest, given |-> given, landed |-> landed],
                        SetToSortSeq(new, <))
    IN  /\ new # {}
        /\ computed' = computed \cup new
        /\ latest' = all.latest /\ given' = all.given /\ landed' = all.landed
        /\ UNCHANGED <<unfrozen, progress, tree_blocks, root, heard>>

(* Slots with a bank built on the bank of a slot, that one included. *)
Descendants(s) ==
    LET on[t \in VersionSlots] ==
            /\ progress[t] # NoHash
            /\ t = s \/ (<<t, progress[t]>> # FirstRoot /\ t > s /\ on[Parents[<<t, progress[t]>>][1]])
    IN  {t \in VersionSlots : on[t]}

(* Another version of the slot is to be repaired: its banks go, fork choice *)
(* keeps its blocks.                                                        *)
purge_unconfirmed_duplicate_slot(s) ==
    /\ s > root /\ progress[s] # NoHash
    /\ progress' = [t \in VersionSlots |-> IF t \in Descendants(s) THEN NoHash ELSE progress[t]]
    /\ computed' = computed \ Descendants(s)
    /\ UNCHANGED <<latest, unfrozen, tree_blocks, root, heard, given, landed>>

handle_new_root(s) ==
    /\ s > root /\ progress[s] # NoHash /\ s \in computed
    /\ root' = s
    /\ progress' = [t \in VersionSlots |-> IF t \in Descendants(s) THEN progress[t] ELSE NoHash]
    /\ computed' = computed \cap Descendants(s)
    /\ LET built[k \in Versions] == \/ k = <<s, progress[s]>>
                                    \/ k[1] > s /\ built[Parents[k]]
       IN  tree_blocks' = {k \in tree_blocks : built[k]}
    /\ unfrozen' = {w \in unfrozen : w[2][1] >= s}
    /\ UNCHANGED <<latest, heard, given, landed>>

FrozenVotesNext ==
    \/ \E v \in Validators, k \in Versions \ {FirstRoot} : process_gossip_verified_vote_hashes(v, k)
    \/ \E k \in Versions \ {FirstRoot} : FreezeBank(k)
    \/ compute_bank_stats
    \/ \E s \in VersionSlots : purge_unconfirmed_duplicate_slot(s) \/ handle_new_root(s)

FrozenVotesSpec == FrozenVotesInit /\ [][FrozenVotesNext]_frozenVotesVars

-----------------------------------------------------------------------------
Votes == Validators \X Versions
Latest == [slot : VersionSlots \cup {-1}, hashes : SUBSET {k[2] : k \in Versions}]

(* Types of the variables. *)
FrozenVotesTypeOK ==
    /\ latest \in [gossip : [Validators -> Latest], replay : [Validators -> Latest], dirty : [Validators -> Latest]]
    /\ unfrozen \subseteq Votes /\ heard \subseteq Votes /\ landed \subseteq Votes
    /\ progress \in [VersionSlots -> {NoHash} \cup {k[2] : k \in Versions}]
    /\ computed \subseteq {s \in VersionSlots : progress[s] # NoHash}
    /\ FirstRoot \in tree_blocks \/ root > FirstRoot[1]
    /\ root \in VersionSlots

(***************************************************************************)
(* A vote heard in gossip counts for the switch proof as soon as its block *)
(* is frozen, whichever comes first and however often the slot is dumped:  *)
(* max_gossip_frozen_votes names the block or has a later slot.            *)
(***************************************************************************)
GossipVotesCounted ==
    \A w \in heard :
        w[2] \in tree_blocks =>
            LET max == latest.gossip[w[1]]
            IN  max.slot > w[2][1] \/ (max.slot = w[2][1] /\ w[2][2] \in max.hashes)

(***************************************************************************)
(* Only votes that were heard, for blocks that were frozen, are counted,   *)
(* and no vote waits for a block that fork choice has.                     *)
(***************************************************************************)
NoVoteWaitsForFrozen ==
    /\ \A w \in unfrozen : w[2] \notin tree_blocks
    /\ \A v \in Validators : \A h \in latest.gossip[v].hashes : <<v, <<latest.gossip[v].slot, h>>>> \in heard

(***************************************************************************)
(* Fork choice never gets two votes of one voter at once, for which        *)
(* generate_update_operations panics.                                      *)
(***************************************************************************)
OneVotePerBatch ==
    \A batch \in given : \A w, x \in batch : w[1] = x[1] => w = x

(* Votes of gossip and of replay meet in LatestValidatorVotesForFrozenBanks:   *)
(* none is lost, none waits for a frozen block, and fork choice can take every *)
(* batch.                                                                      *)
GossipVotesOK ==
    /\ FrozenVotesTypeOK
    /\ GossipVotesCounted
    /\ NoVoteWaitsForFrozen
    /\ OneVotePerBatch
=============================================================================
