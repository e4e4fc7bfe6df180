----------------------------- MODULE MCConsensus -----------------------------
(***************************************************************************)
(* Tower, HeaviestSubtree and FrozenVotes for TLC.  One runs while the     *)
(* others stay in their initial states.                                    *)
(***************************************************************************)
EXTENDS MCTower, HeaviestSubtree, FrozenVotes

CONSTANTS v1, v2

(* HeaviestSubtree: the leader of slot 2 made two blocks. *)
MCKeys == {<<0, 1>>, <<1, 1>>, <<2, 1>>, <<2, 2>>, <<3, 1>>}
MCGenesis == <<0, 1>>

(* Two chains of two blocks; and both blocks of slot 2 under slot 1. *)
MCTrees ==
    {<<1, 1>> :> <<0, 1>> @@ <<2, 1>> :> <<1, 1>> @@ <<2, 2>> :> <<0, 1>> @@ <<3, 1>> :> <<2, 2>>,
     <<1, 1>> :> <<0, 1>> @@ <<2, 1>> :> <<1, 1>> @@ <<2, 2>> :> <<1, 1>> @@ <<3, 1>> :> <<2, 1>>}

(* The stakes change with the epoch. *)
MCStake == (v1 :> (0 :> 1 @@ 1 :> 3)) @@ (v2 :> (0 :> 2 @@ 1 :> 2))

(* FrozenVotes: slot 1 has two versions with a block on each; slot 2 too. *)
MCVersions == {<<0, 1>>, <<1, 1>>, <<1, 2>>, <<2, 1>>, <<2, 2>>}
MCParents ==
    <<1, 1>> :> <<0, 1>> @@ <<1, 2>> :> <<0, 1>> @@ <<2, 1>> :> <<1, 1>> @@ <<2, 2>> :> <<1, 2>>

(* Both blocks of slot 2 have a vote of v1 for their parent. *)
MCLanded ==
    [k \in MCVersions |->
        (v1 :> IF k[1] = 2 THEN MCParents[k] ELSE NoVote)
        @@ (v2 :> IF k[1] = 2 THEN <<0, 1>> ELSE NoVote)]

ForkChoiceQuiet == ForkChoiceInit /\ parents[<<3, 1>>] = <<2, 1>>

MCInit == Init /\ ForkChoiceInit /\ FrozenVotesInit

MCNext ==
    \/ /\ ForkChoiceQuiet /\ FrozenVotesInit
       /\ Next /\ UNCHANGED <<forkChoiceVars, frozenVotesVars>>
    \/ /\ Init /\ FrozenVotesInit
       /\ ForkChoiceNext /\ UNCHANGED <<vars, frozenVotesVars>>
    \/ /\ Init /\ ForkChoiceQuiet
       /\ FrozenVotesNext /\ UNCHANGED <<vars, forkChoiceVars>>

MCSpec == MCInit /\ [][MCNext]_<<vars, forkChoiceVars, frozenVotesVars>>
=============================================================================
