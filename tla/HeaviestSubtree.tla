--------------------------- MODULE HeaviestSubtree ----------------------------
(***************************************************************************)
(* Fork choice (core/src/heaviest_subtree_fork_choice.rs): a tree of       *)
(* blocks, each with the stake of the validators whose latest vote it is,  *)
(* the stake of its subtree and the best block of its subtree, all kept up *)
(* to date step by step.  A block is a pair of slot and hash; a slot has   *)
(* several blocks when its leader made several.  A block known to be one   *)
(* of several, and everything built on it, is no candidate until the       *)
(* cluster confirms it.                                                    *)
(*                                                                         *)
(* The operators take a fork choice and return the next one; replay        *)
(* (DuplicateSlots) calls them.  Here they are called in any order their   *)
(* callers can produce.                                                    *)
(***************************************************************************)
EXTENDS Integers, FiniteSets, Sequences, FiniteSetsExt, SequencesExt

CONSTANTS
    Keys,           \* blocks: pairs of a slot and a hash, both numbers
    Genesis,        \* the block in the root at the start
    Trees,          \* block trees: the parent of each block but the first
    Voters,         \* vote accounts
    SlotsPerEpoch,  \* slots per epoch
    Stake           \* the stake of a voter in an epoch: Stake[voter][epoch]

ASSUME ForkChoiceAssumption ==
    /\ Keys \subseteq Nat \X Nat /\ Genesis \in Keys /\ SlotsPerEpoch \in Nat \ {0}
    /\ \A tree \in Trees : \A k \in Keys \ {Genesis} : tree[k] \in Keys /\ tree[k][1] < k[1]
    /\ \A v \in Voters : DOMAIN Stake[v] \subseteq Nat

VARIABLES
    fork_choice,
    parents         \* the block tree; the hash of a block fixes its parent
forkChoiceVars == <<fork_choice, parents>>

None == <<>>
NoInvalidAncestor == -1

Less(k, l) == k[1] < l[1] \/ (k[1] = l[1] /\ k[2] < l[2])

(* All blocks from the greatest to the smallest. *)
Descending == SetToSortSeq(Keys, LAMBDA k, l : Less(l, k))

(* Stake of a vote account in the epoch of a slot; 0 in an epoch that is not known. *)
EpochStake(v, slot) ==
    LET epoch == slot \div SlotsPerEpoch IN IF epoch \in DOMAIN Stake[v] THEN Stake[v][epoch] ELSE 0

Blocks(fc) == DOMAIN fc.fork_infos
Parent(fc, k) == IF k \in Blocks(fc) THEN fc.fork_infos[k].parent ELSE None
Children(fc, k) == {c \in Blocks(fc) : fc.fork_infos[c].parent = k}
IsCandidate(fc, k) == fc.fork_infos[k].latest_invalid_ancestor = NoInvalidAncestor

(* ancestor_iterator: all strict ancestors. *)
Ancestors(fc, k) ==
    LET above[b \in Blocks(fc)] ==
            LET p == fc.fork_infos[b].parent IN IF p = None THEN {} ELSE {p} \cup above[p]
    IN  IF k \in Blocks(fc) THEN above[k] ELSE {}

(* subtree_diff with the default key: the block and all that is built on it. *)
Subtree(fc, k) == {b \in Blocks(fc) : b = k \/ k \in Ancestors(fc, b)}

best_overall_slot(fc) == fc.fork_infos[fc.root].best_slot

Leaf(k, parent, invalid) ==
    [stake_voted_at |-> 0, stake_voted_subtree |-> 0, best_slot |-> k, parent |-> parent,
     latest_invalid_ancestor |-> invalid, is_duplicate_confirmed |-> (parent = None)]

new(root) ==
    [fork_infos |-> (root :> Leaf(root, None, NoInvalidAncestor)), latest_votes |-> [v \in Voters |-> None],
     root |-> root]

-----------------------------------------------------------------------------
Heavier(fc, c, d) ==
    LET cw == fc.fork_infos[c].stake_voted_subtree
        dw == fc.fork_infos[d].stake_voted_subtree
    IN  cw > dw \/ (cw = dw /\ Less(c, d))

is_best_child(fc, k) ==
    Parent(fc, k) # None =>
        \A c \in Children(fc, Parent(fc, k)) : IsCandidate(fc, c) => ~Heavier(fc, c, k)

(* Faulty variant: a new leaf always becomes the best block. *)
PropagateAlways(fc, k, parent) ==
    LET old == fc.fork_infos[parent].best_slot
        up == {parent} \cup Ancestors(fc, parent)
        changed == {a \in up : \A b \in up : b = a \/ a \in Ancestors(fc, b) => fc.fork_infos[b].best_slot = old}
    IN  [fc EXCEPT !.fork_infos =
            [b \in DOMAIN @ |-> IF b \in changed THEN [@[b] EXCEPT !.best_slot = k] ELSE @[b]]]

(* The new leaf becomes the best block of each ancestor, from its parent    *)
(* upwards, as long as they have had the same best block as the parent.     *)
propagate_new_leaf(fc, k, parent) ==
    LET old == fc.fork_infos[parent].best_slot
        up == {parent} \cup Ancestors(fc, parent)
        changed == {a \in up : \A b \in up : b = a \/ a \in Ancestors(fc, b) => fc.fork_infos[b].best_slot = old}
    IN  IF is_best_child(fc, k)
        THEN [fc EXCEPT !.fork_infos =
                [b \in DOMAIN @ |-> IF b \in changed THEN [@[b] EXCEPT !.best_slot = k] ELSE @[b]]]
        ELSE fc

add_new_leaf_slot(fc, k, parent) ==
    IF k \in Blocks(fc) THEN fc
    ELSE propagate_new_leaf(
            [fc EXCEPT !.fork_infos =
                (k :> Leaf(k, parent, fc.fork_infos[parent].latest_invalid_ancestor)) @@ @],
            k, parent)

(* Stake and best block from the children.  Children that are no candidates *)
(* still count for the stake.  A confirmed child confirms.                  *)
aggregate_slot(fc, k) ==
    LET children == Children(fc, k)
        candidates == {c \in children : IsCandidate(fc, c)}
        best == CHOOSE c \in candidates : \A d \in candidates : ~Heavier(fc, d, c)
        confirmed == \E c \in children : fc.fork_infos[c].is_duplicate_confirmed
        info == fc.fork_infos[k]
    IN  [fc EXCEPT !.fork_infos[k] =
            [info EXCEPT
                !.stake_voted_subtree =
                    info.stake_voted_at
                      + MapThenSumSet(LAMBDA c : fc.fork_infos[c].stake_voted_subtree, children),
                !.best_slot = IF candidates = {} THEN k ELSE fc.fork_infos[best].best_slot,
                !.latest_invalid_ancestor = IF confirmed THEN NoInvalidAncestor ELSE @,
                !.is_duplicate_confirmed = @ \/ confirmed]]

mark_fork_valid(fc, k, slot) ==
    [fc EXCEPT !.fork_infos[k] =
        [@ EXCEPT !.latest_invalid_ancestor = IF @ <= slot THEN NoInvalidAncestor ELSE @,
                  !.is_duplicate_confirmed = @ \/ k[1] = slot]]

mark_fork_invalid(fc, k, slot) ==
    [fc EXCEPT !.fork_infos[k].latest_invalid_ancestor = IF slot > @ THEN slot ELSE @]

add_slot_stake(fc, k, stake) ==
    [fc EXCEPT !.fork_infos[k] = [@ EXCEPT !.stake_voted_at = @ + stake,
                                           !.stake_voted_subtree = @ + stake]]

(* The operations of a batch: for each block the stake to take away and to  *)
(* add, the slot now valid or invalid, and whether to aggregate.            *)
NoOperation ==
    [subtract |-> 0, invalid |-> NoInvalidAncestor, valid |-> NoInvalidAncestor, add |-> 0, aggregate |-> FALSE]

(* Blocks from the greatest key to the smallest, so children before parents. *)
process_update_operations(fc, ops) ==
    LET apply(f, k) ==
            IF k \notin Blocks(f) \/ ops[k] = NoOperation THEN f
            ELSE
            LET subtracted == add_slot_stake(f, k, -ops[k].subtract)
                invalid == IF ops[k].invalid = NoInvalidAncestor THEN subtracted
                           ELSE mark_fork_invalid(subtracted, k, ops[k].invalid)
                valid == IF ops[k].valid = NoInvalidAncestor THEN invalid
                         ELSE mark_fork_valid(invalid, k, ops[k].valid)
                added == add_slot_stake(valid, k, ops[k].add)
            IN  IF ops[k].aggregate THEN aggregate_slot(added, k) ELSE added
    IN  FoldLeft(apply, fc, Descending)

-----------------------------------------------------------------------------
(* Votes that are taken: not below the root, and newer than the voter's     *)
(* latest one or for the same slot with a smaller hash.  votes has at most  *)
(* one vote of each voter.                                                  *)
NewVotes(fc, votes) ==
    {v \in DOMAIN votes :
        /\ votes[v][1] >= fc.root[1]
        /\ LET old == fc.latest_votes[v]
           IN  old = None \/ votes[v][1] > old[1] \/ (votes[v][1] = old[1] /\ votes[v][2] < old[2])}

generate_update_operations(fc, votes) ==
    LET voters == NewVotes(fc, votes)
        moved == {v \in voters : fc.latest_votes[v] # None}
        old(v) == fc.latest_votes[v]
        left == {v \in moved : EpochStake(v, old(v)[1]) > 0}
        touched == UNION ({Ancestors(fc, votes[v]) : v \in voters} \cup {Ancestors(fc, old(v)) : v \in left})
    IN  [k \in Blocks(fc) |->
            [NoOperation EXCEPT
                !.subtract = MapThenSumSet(LAMBDA v : EpochStake(v, k[1]), {v \in moved : old(v) = k}),
                !.add = MapThenSumSet(LAMBDA v : EpochStake(v, k[1]), {v \in voters : votes[v] = k}),
                !.aggregate = k \in touched]]

add_votes(fc, votes) ==
    LET voters == NewVotes(fc, votes)
    IN  process_update_operations(
            [fc EXCEPT !.latest_votes =
                [v \in Voters |-> IF v \in voters THEN votes[v] ELSE @[v]]],
            generate_update_operations(fc, votes))

(* Only the subtree of the new root is kept. *)
set_root(fc, k) ==
    [fc EXCEPT !.root = k,
               !.fork_infos = [b \in Subtree(fc, k) |-> IF b = k THEN [@[k] EXCEPT !.parent = None] ELSE @[b]]]

(* The block and all that is built on it is no candidate. *)
mark_fork_invalid_candidate(fc, k) ==
    LET subtree == Subtree(fc, k)
        touched == subtree \cup Ancestors(fc, k)
    IN  process_update_operations(fc,
            [b \in Blocks(fc) |->
                [NoOperation EXCEPT !.invalid = IF b \in subtree THEN k[1] ELSE NoInvalidAncestor,
                                    !.aggregate = b \in touched]])

(* The block is confirmed, and so are its ancestors. *)
mark_fork_valid_candidate(fc, k) ==
    LET subtree == Subtree(fc, k)
        touched == subtree \cup Ancestors(fc, k)
    IN  process_update_operations(fc,
            [b \in Blocks(fc) |->
                [NoOperation EXCEPT !.valid = IF b \in subtree THEN k[1] ELSE NoInvalidAncestor,
                                    !.aggregate = b \in touched]])

-----------------------------------------------------------------------------
ForkChoiceInit ==
    /\ fork_choice = new(Genesis)
    /\ parents \in Trees

(* A bank is frozen. *)
AddNewLeafSlot(k) ==
    /\ parents[k] \in Blocks(fork_choice)
    /\ fork_choice' = add_new_leaf_slot(fork_choice, k, parents[k])
    /\ UNCHANGED parents

(* The votes found in a frozen bank are for frozen banks. *)
AddVotes(votes) ==
    /\ NewVotes(fork_choice, votes) # {}
    /\ fork_choice' = add_votes(fork_choice, votes)
    /\ UNCHANGED parents

(* Blocks above the root only (check_slot_agrees_with_cluster). *)
MarkForkInvalidCandidate(k) ==
    /\ k \in Blocks(fork_choice) \ {fork_choice.root}
    /\ ~fork_choice.fork_infos[k].is_duplicate_confirmed
    /\ fork_choice' = mark_fork_invalid_candidate(fork_choice, k)
    /\ UNCHANGED parents

MarkForkValidCandidate(k) ==
    /\ k \in Blocks(fork_choice) \ {fork_choice.root}
    /\ fork_choice' = mark_fork_valid_candidate(fork_choice, k)
    /\ UNCHANGED parents

(* The new root is an ancestor of the bank voted for, the heaviest one. *)
SetForkChoiceRoot(k) ==
    /\ k # fork_choice.root
    /\ k \in Blocks(fork_choice)
    /\ LET best == best_overall_slot(fork_choice) IN k = best \/ k \in Ancestors(fork_choice, best)
    /\ fork_choice' = set_root(fork_choice, k)
    /\ UNCHANGED parents

ForkChoiceNext ==
    \/ \E k \in Keys \ {Genesis} : AddNewLeafSlot(k)
    \/ \E voters \in SUBSET Voters \ {{}} : \E votes \in [voters -> Blocks(fork_choice)] : AddVotes(votes)
    \/ \E k \in Keys : MarkForkInvalidCandidate(k) \/ MarkForkValidCandidate(k) \/ SetForkChoiceRoot(k)

ForkChoiceSpec == ForkChoiceInit /\ [][ForkChoiceNext]_forkChoiceVars

-----------------------------------------------------------------------------
(* Types of the variables. *)
ForkChoiceTypeOK ==
    /\ fork_choice.root \in Blocks(fork_choice)
    /\ Blocks(fork_choice) \subseteq Keys
    /\ fork_choice.fork_infos \in
         [Blocks(fork_choice) ->
            [stake_voted_at : Nat, stake_voted_subtree : Nat, best_slot : Blocks(fork_choice),
             parent : Blocks(fork_choice) \cup {None}, latest_invalid_ancestor : Nat \cup {NoInvalidAncestor},
             is_duplicate_confirmed : BOOLEAN]]
    /\ fork_choice.latest_votes \in [Voters -> Keys \cup {None}]
    /\ parents \in Trees

(* The weight of a block, from the latest votes and the tree alone. *)
Weight(fc, k) ==
    MapThenSumSet(LAMBDA v : EpochStake(v, fc.latest_votes[v][1]),
                  {v \in Voters : fc.latest_votes[v] \in Subtree(fc, k)})

(* The heaviest candidate child, the earlier one of two equal ones, again and again. *)
Heaviest(fc, k) ==
    LET weight == [b \in Blocks(fc) |-> Weight(fc, b)]
        best[b \in Blocks(fc)] ==
            LET candidates == {c \in Children(fc, b) : IsCandidate(fc, c)}
            IN  IF candidates = {} THEN b
                ELSE best[CHOOSE c \in candidates : \A d \in candidates \ {c} :
                            weight[c] > weight[d] \/ (weight[c] = weight[d] /\ Less(c, d))]
    IN  best[k]

(***************************************************************************)
(* However blocks, votes, marks and roots come in, the weights kept step   *)
(* by step are those of the latest votes: moving a vote takes away exactly *)
(* what it once added, also across epochs and after pruning.               *)
(***************************************************************************)
StakesAreVotes ==
    \A k \in Blocks(fork_choice) :
        /\ fork_choice.fork_infos[k].stake_voted_subtree = Weight(fork_choice, k)
        /\ fork_choice.fork_infos[k].stake_voted_at =
             MapThenSumSet(LAMBDA v : EpochStake(v, k[1]), {v \in Voters : fork_choice.latest_votes[v] = k})

(***************************************************************************)
(* The best block kept with each candidate block is the one a walk down    *)
(* the heaviest candidates finds.                                          *)
(***************************************************************************)
BestIsHeaviest ==
    \A k \in Blocks(fork_choice) :
        IsCandidate(fork_choice, k) => fork_choice.fork_infos[k].best_slot = Heaviest(fork_choice, k)

(***************************************************************************)
(* A block explicitly marked as duplicate excludes all that is built on    *)
(* it, whenever it is added.                                               *)
(***************************************************************************)
NoCandidateOnDuplicate ==
    \A k \in Blocks(fork_choice) :
        IsCandidate(fork_choice, k) =>
            \A a \in Ancestors(fork_choice, k) \ {fork_choice.root} :
                fork_choice.fork_infos[a].latest_invalid_ancestor # a[1]

(***************************************************************************)
(* Below a confirmed block everything is confirmed and a candidate, so the *)
(* assertion in update_with_newly_invalid_ancestor holds for all that is   *)
(* built on a block that may be marked.                                    *)
(***************************************************************************)
ConfirmedReachesRoot ==
    \A k \in Blocks(fork_choice) :
        fork_choice.fork_infos[k].is_duplicate_confirmed =>
            \A a \in {k} \cup Ancestors(fork_choice, k) :
                IsCandidate(fork_choice, a) /\ (a = fork_choice.root \/ fork_choice.fork_infos[a].is_duplicate_confirmed)

(* What HeaviestSubtreeForkChoice keeps step by step is what a recomputation *)
(* from the votes and the marks would give.                                  *)
ForkChoiceExact ==
    /\ ForkChoiceTypeOK
    /\ StakesAreVotes
    /\ BestIsHeaviest
    /\ NoCandidateOnDuplicate
    /\ ConfirmedReachesRoot
=============================================================================
