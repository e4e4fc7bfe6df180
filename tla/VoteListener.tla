----------------------------- MODULE VoteListener -----------------------------
(***************************************************************************)
(* The thread that counts the votes it sees on gossip and in replay        *)
(* (core/src/cluster_info_vote_listener.rs, vote_stake_tracker.rs) and     *)
(* notifies the slots that reach the threshold for duplicate confirmation  *)
(* and for optimistic confirmation; and the check that what was confirmed  *)
(* optimistically was rooted (optimistic_confirmation_verifier.rs).  The   *)
(* same vote arrives many times, by both ways and in any order.            *)
(***************************************************************************)
EXTENDS Integers, Sequences, FiniteSets, FiniteSetsExt, SequencesExt

CONSTANTS
    Voters,
    Stake,              \* of each voter
    Blocks,             \* pairs of a slot and a hash; a slot may have two
    Parent,             \* of each block but the genesis block
    Genesis,
    Votes,              \* [voter, slots, hash]; the hash is that of the greatest slot
    StakeHorizon,       \* the root bank knows the stakes of slots up to this far ahead
    MaxBatch            \* bound on votes received at once, by each way

ListenerAssumption ==
    /\ Stake \in [Voters -> Nat] /\ StakeHorizon \in Nat /\ MaxBatch \in Nat
    /\ Genesis \in Blocks /\ Parent \in [Blocks \ {Genesis} -> Blocks]
    /\ \A b \in Blocks \ {Genesis} : Parent[b][1] < b[1]
    /\ \A v \in Votes : v.voter \in Voters /\ v.slots # {} /\ <<Max(v.slots), v.hash>> \in Blocks

VotedSlots == {b[1] : b \in Blocks}
StakeOf == [voters \in SUBSET Voters |-> MapThenSumSet(LAMBDA v : Stake[v], voters)]
Total == StakeOf[Voters]
LastVote(vote) == <<Max(vote.slots), vote.hash>>

(* DUPLICATE_THRESHOLD and VOTE_THRESHOLD_SIZE of the total stake, rounded down. *)
DuplicateThreshold == (Total * 52) \div 100
OptimisticThreshold == (Total * 2) \div 3

(* The blocks from a block down to the genesis block. *)
ChainOf[b \in Blocks] == IF b = Genesis THEN {b} ELSE {b} \cup ChainOf[Parent[b]]

VARIABLES
    trackers,           \* slot_vote_trackers: of each slot that has one
    loop,               \* where process_votes_loop is: "start", "gossip" or "replay"
    root_bank,          \* the root it has read
    diff,               \* triples of a slot, a voter and whether gossip showed the vote
    received,           \* number of votes of this batch
    new_optimistic_confirmed_slots,
    unchecked_slots,    \* blocks confirmed optimistically, not yet checked
    bank_root,          \* the root of bank forks and blockstore
    duplicate_notices,  \* number of notices sent for each block
    optimistic_notices,
    reported,           \* blocks logged as not rooted, with whether their votes were at hand
    propagated,         \* voters handed to the replay stage for each slot
    verified_root,      \* ghost: the root of the last check
    counted             \* ghost: pairs of a voter and a block, of the votes that had to count
notices == <<duplicate_notices, optimistic_notices>>
batch == <<diff, received, new_optimistic_confirmed_slots>>
vars == <<trackers, loop, root_bank, batch, unchecked_slots, bank_root, notices, reported, propagated, verified_root, counted>>

NoTracker == [voted |-> [v \in {} |-> FALSE], optimistic |-> [h \in {} |-> {}], updates |-> {}, gossip_only_stake |-> 0]
TrackerOf(t, s) == IF s \in DOMAIN t THEN t[s] ELSE NoTracker
WithTracker(t, s, tracker) == [k \in DOMAIN t \cup {s} |-> IF k = s THEN tracker ELSE t[k]]

-----------------------------------------------------------------------------
Reaches(threshold, old_stake, new_stake) == old_stake <= threshold /\ threshold < new_stake

IsNew(voted, voter) == voter \notin voted

(* track_new_votes_and_notify_confirmations. *)
track(vote, is_gossip) ==
    LET root == root_bank[1]
        slots == {s \in vote.slots : s > root /\ s <= root + StakeHorizon}
        last == LastVote(vote)
        tracker == TrackerOf(trackers, last[1])
        voted == IF last[2] \in DOMAIN tracker.optimistic THEN tracker.optimistic[last[2]] ELSE {}
        is_last == last[1] \in slots
        is_new == is_last /\ IsNew(voted, vote.voter)
        old_stake == StakeOf[voted]
        new_stake == old_stake + Stake[vote.voter]
        optimistic == [h \in DOMAIN tracker.optimistic \cup {last[2]} |->
                          IF h = last[2] THEN voted \cup {vote.voter} ELSE tracker.optimistic[h]]
        recorded == IF is_last /\ ~is_new /\ ~is_gossip THEN {} ELSE slots
        NoticeFor(threshold) == IF is_new /\ Reaches(threshold, old_stake, new_stake) THEN 1 ELSE 0
    IN  /\ trackers' = IF is_last THEN WithTracker(trackers, last[1], [tracker EXCEPT !.optimistic = optimistic])
                       ELSE trackers
        /\ diff' = diff \cup {<<s, vote.voter, is_gossip>> : s \in recorded}
        /\ duplicate_notices' = [duplicate_notices EXCEPT ![last] = @ + NoticeFor(DuplicateThreshold)]
        /\ optimistic_notices' = [optimistic_notices EXCEPT ![last] = @ + NoticeFor(OptimisticThreshold)]
        /\ new_optimistic_confirmed_slots' =
              new_optimistic_confirmed_slots \cup {b \in {last} : NoticeFor(OptimisticThreshold) = 1}
        /\ counted' = counted \cup {<<vote.voter, b>> : b \in {c \in {last} : is_last}}

(* The next vote that waited on gossip when the batch was taken, or, after those, in replay. *)
filter_and_confirm_with_new_votes(vote) ==
    /\ received < MaxBatch
    /\ \/ loop = "gossip" /\ track(vote, TRUE)
       \/ loop = "replay" /\ track(vote, FALSE)
    /\ received' = received + 1
    /\ UNCHANGED <<loop, root_bank, unchecked_slots, bank_root, reported, propagated, verified_root>>

TakeReplayedVotes ==
    /\ loop = "gossip"
    /\ loop' = "replay" /\ received' = 0
    /\ UNCHANGED <<trackers, root_bank, diff, new_optimistic_confirmed_slots, unchecked_slots, bank_root, notices,
                   reported, propagated, verified_root, counted>>

(* Faulty variant: a voter seen in replay first is new again when gossip shows the vote again. *)
NewWheneverOnGossip(tracker, v, on_gossip) == v \in DOMAIN tracker.voted => on_gossip

(* What is kept of a slot's diff: new voters, and voters seen on gossip for the first time. *)
NewFor(tracker, v, on_gossip) == v \in DOMAIN tracker.voted => (on_gossip /\ ~tracker.voted[v])

(* The diff of one slot goes into its tracker. *)
Apply(tracker, s) ==
    LET seen == {d[2] : d \in {e \in diff : e[1] = s}}
        new == {v \in seen : NewFor(tracker, v, <<s, v, TRUE>> \in diff)}
    IN  [tracker EXCEPT
            !.voted = [v \in DOMAIN @ \cup new |-> IF v \in new THEN <<s, v, TRUE>> \in diff ELSE @[v]],
            !.updates = @ \cup new,
            !.gossip_only_stake = @ + StakeOf[{v \in new : <<s, v, TRUE>> \in diff}]]

(* The end of filter_and_confirm_with_new_votes, and add_new_optimistic_confirmed_slots. *)
FinishBatch ==
    LET touched == {d[1] : d \in diff}
    IN  /\ loop = "replay"
        /\ trackers' = [s \in DOMAIN trackers \cup touched |->
                          IF s \in touched THEN Apply(TrackerOf(trackers, s), s) ELSE trackers[s]]
        /\ unchecked_slots' = unchecked_slots \cup {b \in new_optimistic_confirmed_slots : b[1] > Genesis[1]}
        /\ loop' = "start" /\ diff' = {} /\ received' = 0 /\ new_optimistic_confirmed_slots' = {}
        /\ UNCHANGED <<root_bank, bank_root, notices, reported, propagated, verified_root, counted>>

(* verify_for_unrooted_optimistic_slots, for one block; the ancestors a root bank knows of end *)
(* at an earlier root.                                                                         *)
Unrooted(b, ancestors) ==
    \/ b[1] = bank_root[1] /\ b # bank_root
    \/ b[1] \notin ancestors /\ b[1] \notin {a[1] : a \in ChainOf[bank_root]}

purge_stale_state(t) == [s \in {k \in DOMAIN t : k >= bank_root[1]} |-> t[s]]

(* process_votes_loop reads the root, which it looks at only now and then. *)
ReadRoot ==
    /\ loop = "start"
    /\ root_bank' = bank_root /\ loop' = "gossip"
    /\ \/ UNCHANGED <<trackers, unchecked_slots, reported, verified_root>>
       \/ \E low \in {a[1] : a \in ChainOf[bank_root]} :
            LET ancestors == {a[1] : a \in ChainOf[bank_root]} \cap (low .. bank_root[1])
                before == {b \in unchecked_slots : b[1] <= bank_root[1]}
            IN  /\ unchecked_slots' = unchecked_slots \ before
                /\ reported' = reported \cup
                      {<<b, b[1] \in DOMAIN trackers>> : b \in {a \in before : Unrooted(a, ancestors)}}
                /\ trackers' = purge_stale_state(trackers)
                /\ verified_root' = bank_root
    /\ UNCHANGED <<batch, bank_root, notices, propagated, counted>>

(* The replay stage takes the voters that are new for a slot: update_propagation_status. *)
get_voted_slot_updates(s) ==
    /\ s \in DOMAIN trackers /\ trackers[s].updates # {}
    /\ propagated' = [propagated EXCEPT ![s] = @ \cup trackers[s].updates]
    /\ trackers' = [trackers EXCEPT ![s].updates = {}]
    /\ UNCHANGED <<loop, root_bank, batch, unchecked_slots, bank_root, notices, reported, verified_root, counted>>

(* The replay stage roots a block: in the blockstore, then in bank forks. *)
SetRoot(b) ==
    /\ b # bank_root /\ bank_root \in ChainOf[b]
    /\ bank_root' = b
    /\ UNCHANGED <<trackers, loop, root_bank, batch, unchecked_slots, notices, reported, propagated, verified_root, counted>>

-----------------------------------------------------------------------------
Init ==
    /\ trackers = [s \in {} |-> NoTracker] /\ unchecked_slots = {} /\ bank_root = Genesis
    /\ loop = "start" /\ root_bank = Genesis /\ diff = {} /\ received = 0 /\ new_optimistic_confirmed_slots = {}
    /\ duplicate_notices = [b \in Blocks |-> 0] /\ optimistic_notices = [b \in Blocks |-> 0]
    /\ reported = {} /\ propagated = [s \in VotedSlots |-> {}] /\ verified_root = Genesis /\ counted = {}

Next ==
    \/ ReadRoot
    \/ \E vote \in Votes : filter_and_confirm_with_new_votes(vote)
    \/ TakeReplayedVotes
    \/ FinishBatch
    \/ \E s \in VotedSlots : get_voted_slot_updates(s)
    \/ \E b \in Blocks : SetRoot(b)

Spec == Init /\ [][Next]_vars

-----------------------------------------------------------------------------
(* The trackers, notices and roots. *)
TypeOK ==
    /\ DOMAIN trackers \subseteq {s \in VotedSlots : s >= verified_root[1]}
    /\ \A s \in DOMAIN trackers : DOMAIN trackers[s].voted \cup trackers[s].updates \subseteq Voters
    /\ unchecked_slots \subseteq {b \in Blocks : b[1] > verified_root[1]}
    /\ bank_root \in Blocks /\ verified_root \in ChainOf[bank_root]

CountedStake(b) == StakeOf[{v \in Voters : <<v, b>> \in counted}]

(* A block is notified once, and exactly if voters with more than the threshold of the stake *)
(* voted for it as their last slot: each voter counts once, by whichever way, how often and  *)
(* in whatever order its vote came, and although votes are purged behind the root.           *)
NotifiedOnceByStake ==
    \A b \in Blocks :
        /\ duplicate_notices[b] = IF CountedStake(b) > DuplicateThreshold THEN 1 ELSE 0
        /\ optimistic_notices[b] = IF CountedStake(b) > OptimisticThreshold THEN 1 ELSE 0

(* Two versions of a slot are both confirmed only if more than a third of the stake voted for *)
(* both, and every block confirmed optimistically was confirmed as a duplicate before.        *)
ConfirmedNeedsEquivocation ==
    \A b, c \in Blocks :
        /\ optimistic_notices[b] > 0 => duplicate_notices[b] > 0
        /\ b # c /\ b[1] = c[1] /\ optimistic_notices[b] > 0 /\ optimistic_notices[c] > 0 =>
              3 * StakeOf[{v \in Voters : <<v, b>> \in counted /\ <<v, c>> \in counted}] > Total

(* The gossip-only stake of a slot is the stake of the voters seen on gossip, each once, and *)
(* the replay stage is handed every voter of the slot.                                       *)
GossipStakeExact ==
    \A s \in DOMAIN trackers :
        /\ trackers[s].gossip_only_stake = StakeOf[{v \in DOMAIN trackers[s].voted : trackers[s].voted[v]}]
        /\ DOMAIN trackers[s].voted = trackers[s].updates \cup propagated[s]

(* A block that was confirmed optimistically and whose slot was not rooted is reported when *)
(* the root has passed it, with its votes still at hand; none whose block was rooted is.    *)
UnrootedSlotReported ==
    /\ \A b \in Blocks :
         optimistic_notices[b] > 0 /\ b[1] <= verified_root[1] /\ b[1] \notin {a[1] : a \in ChainOf[verified_root]} =>
             <<b, TRUE>> \in reported
    /\ \A r \in reported : r[2] /\ r[1] \notin ChainOf[verified_root]

(* The notices of ClusterInfoVoteListener and the report of             *)
(* OptimisticConfirmationVerifier are what the votes justify, each vote *)
(* counted once.                                                        *)
NoticesExact ==
    /\ TypeOK
    /\ NotifiedOnceByStake
    /\ ConfirmedNeedsEquivocation
    /\ GossipStakeExact
    /\ UnrootedSlotReported
=============================================================================
