---------------------------- MODULE MCConfirmation ----------------------------
(***************************************************************************)
(* VoteListener, ConfirmedBank and Commitment for TLC.  One of them runs   *)
(* while the others stay in their initial states; VoteListener runs in two *)
(* settings, on a slot with two versions and on two forks.                 *)
(***************************************************************************)
EXTENDS ConfirmedBank, Commitment, TLC

CONSTANTS v1, v2, v3

(* ConfirmedBank and Commitment: blocks 1, 2, 3 and beside 3 block 4. *)
TwoForks == 1 :> 0 @@ 2 :> 1 @@ 3 :> 2 @@ 4 :> 2
EqualStakes == [v \in Voters |-> 1]

VARIABLES
    trackers, loop, root_bank, diff, received, new_optimistic_confirmed_slots, unchecked_slots,
    bank_root, duplicate_notices, optimistic_notices, reported, propagated, verified_root, counted,
    setting     \* of VoteListener

V(voter, slots, hash) == [voter |-> voter, slots |-> slots, hash |-> hash]
G == <<0, 1>>

(* Slot 1 with two versions, and its child; two of three voters vote for either version. *)
VersionBlocks == {G, <<1, 1>>, <<1, 2>>, <<2, 1>>}
Versions == INSTANCE VoteListener WITH
    Voters <- {v1, v2, v3}, Stake <- v1 :> 2 @@ v2 :> 2 @@ v3 :> 1,
    Blocks <- VersionBlocks, Genesis <- G,
    Parent <- [b \in VersionBlocks \ {G} |-> IF b = <<2, 1>> THEN <<1, 1>> ELSE G],
    Votes <- {V(v1, {1}, 1), V(v2, {1}, 1), V(v1, {1}, 2), V(v2, {1}, 2)},
    StakeHorizon <- 2, MaxBatch <- 1

(* Two forks: slots 1 and 3 against slot 2. *)
ForkBlocks == {G, <<1, 1>>, <<2, 1>>, <<3, 1>>}
Forks == INSTANCE VoteListener WITH
    Voters <- {v1, v2}, Stake <- v1 :> 3 @@ v2 :> 1,
    Blocks <- ForkBlocks, Genesis <- G,
    Parent <- [b \in ForkBlocks \ {G} |-> IF b = <<3, 1>> THEN <<1, 1>> ELSE G],
    Votes <- {V(v1, {2}, 1), V(v2, {1, 3}, 1)},
    StakeHorizon <- 2, MaxBatch <- 1

ASSUME SettingsAssumption == Versions!ListenerAssumption /\ Forks!ListenerAssumption

listenerVars ==
    <<trackers, loop, root_bank, diff, received, new_optimistic_confirmed_slots, unchecked_slots,
      bank_root, duplicate_notices, optimistic_notices, reported, propagated, verified_root, counted,
      setting>>

ListenerInit ==
    \/ setting = "versions" /\ Versions!Init
    \/ setting = "forks" /\ Forks!Init
ListenerNext ==
    \/ setting = "versions" /\ Versions!Next /\ UNCHANGED setting
    \/ setting = "forks" /\ Forks!Next /\ UNCHANGED setting

ListenerQuiet == setting = "forks" /\ Forks!Init

MCInit == TrackerInit /\ CommitmentInit /\ ListenerInit

MCNext ==
    \/ ListenerQuiet /\ CommitmentInit /\ TrackerNext /\ UNCHANGED <<listenerVars, commitmentVars>>
    \/ ListenerQuiet /\ TrackerInit /\ CommitmentNext /\ UNCHANGED <<listenerVars, trackerVars>>
    \/ TrackerInit /\ CommitmentInit /\ ListenerNext /\ UNCHANGED <<trackerVars, commitmentVars>>

MCSpec == MCInit /\ [][MCNext]_<<trackerVars, commitmentVars, listenerVars>> /\ TrackerFairness

(* NoticesExact of VoteListener, for slots with two versions and for forks: *)
(* ClusterInfoVoteListener's notices are what the votes justify.            *)
NoticesExact ==
    IF setting = "versions" THEN Versions!NoticesExact ELSE Forks!NoticesExact
=============================================================================
