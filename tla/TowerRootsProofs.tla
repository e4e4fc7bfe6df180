-------------------------- MODULE TowerRootsProofs --------------------------
(***************************************************************************)
(* Theorems about the roots of Tower: those of blockstore, bank_forks and  *)
(* tower lie on one fork and in the right order, whatever a crash loses    *)
(* and wherever a restart picks up.                                        *)
(*                                                                         *)
(* The argument.  Towers are stored in the order in which they were made,  *)
(* and each tower's root is on the fork of the next one's, so the stored   *)
(* tower's root, the roots of every queued tower and every root in the     *)
(* blockstore are on the fork of the root of the tower in memory.  What a  *)
(* crash leaves is therefore still on one fork with the stored tower's     *)
(* root, and a restart only moves forward along that fork.                 *)
(***************************************************************************)
EXTENDS TowerProofs

USE Zenon

(***************************************************************************)
(* The block tree.  Chain is Upto for any tree; a slot has been seen when  *)
(* it is genesis or has a parent; of two slots on one fork the older is on *)
(* the chain of the newer.                                                 *)
(***************************************************************************)
Chain(tree, s) == tree[s] \cup {s}

Seen(tree, s) == s = 0 \/ tree[s] # {}

OneFork(tree, a, b) == a \in Chain(tree, b) \/ b \in Chain(tree, a)

IsTree(tree) ==
    /\ tree \in [Slots -> SUBSET Slots]
    /\ \A s \in Slots : \A a \in tree[s] :
          a < s /\ Seen(tree, a) /\ tree[a] \subseteq tree[s]
    /\ \A s \in Slots : \A a, c \in tree[s] : a < c => a \in tree[c]

(* A tree that has grown: what was seen has the ancestors it had. *)
Grown(tree, new) ==
    /\ IsTree(tree) /\ IsTree(new)
    /\ \A s \in Slots : Seen(tree, s) => Seen(new, s) /\ new[s] = tree[s]

(* Chains are closed under ancestors, and ordered by slot. *)
LEMMA ChainFacts ==
    ASSUME NEW tree, IsTree(tree)
    PROVE  /\ \A s \in Slots : s \in Chain(tree, s) /\ Chain(tree, s) \subseteq Slots
           /\ \A a, b \in Slots : a \in Chain(tree, b) => a <= b
           /\ \A a, b, c \in Slots :
                 a \in Chain(tree, b) /\ b \in Chain(tree, c) => a \in Chain(tree, c)
           /\ \A a, b, c \in Slots :
                 a \in Chain(tree, c) /\ b \in Chain(tree, c) /\ a <= b => a \in Chain(tree, b)
           /\ \A a, b \in Slots : Seen(tree, b) /\ a \in Chain(tree, b) => Seen(tree, a)
<1>0. Slots \subseteq Nat
  BY SlotsAreNaturals
<1>1. \A s \in Slots : s \in Chain(tree, s) /\ Chain(tree, s) \subseteq Slots
  BY DEF IsTree, Chain
<1>2. \A a, b \in Slots : a \in Chain(tree, b) => a <= b
  BY <1>0, SMTT(30) DEF IsTree, Chain
<1>3. \A a, b, c \in Slots :
         a \in Chain(tree, b) /\ b \in Chain(tree, c) => a \in Chain(tree, c)
  BY DEF IsTree, Chain
<1>4. \A a, b, c \in Slots :
         a \in Chain(tree, c) /\ b \in Chain(tree, c) /\ a <= b => a \in Chain(tree, b)
  <2> SUFFICES ASSUME NEW a \in Slots, NEW b \in Slots, NEW c \in Slots,
                      a \in Chain(tree, c), b \in Chain(tree, c), a <= b
               PROVE  a \in Chain(tree, b)
    OBVIOUS
  <2>1. CASE a = b
    BY <2>1 DEF Chain
  <2>2. CASE b = c
    BY <2>2
  <2>3. CASE a # b /\ b # c
    <3>1. a < b /\ b \in tree[c] /\ b < c
      BY <1>0, <2>3, SMTT(30) DEF IsTree, Chain
    <3>2. a \in tree[c]
      BY <1>0, <3>1, SMTT(30) DEF Chain
    <3> QED
      BY <3>1, <3>2 DEF IsTree, Chain
  <2> QED
    BY <2>1, <2>2, <2>3
<1>5. \A a, b \in Slots : Seen(tree, b) /\ a \in Chain(tree, b) => Seen(tree, a)
  BY DEF IsTree, Chain
<1> QED
  BY <1>1, <1>2, <1>3, <1>4, <1>5

(* Replaying a block whose parent has been seen grows the tree. *)
LEMMA ReplayGrows ==
    ASSUME NEW tree, IsTree(tree), NEW s \in Slots, NEW parent \in Slots,
           Seen(tree, parent), parent < s, tree[s] \in {{}, Chain(tree, parent)}
    PROVE  Grown(tree, [tree EXCEPT ![s] = Chain(tree, parent)])
<1> DEFINE new == [tree EXCEPT ![s] = Chain(tree, parent)]
<1>0. Slots \subseteq Nat
  BY SlotsAreNaturals
<1>1. Chain(tree, parent) \in SUBSET Slots /\ parent \in Chain(tree, parent)
  BY ChainFacts
<1>2. /\ new \in [Slots -> SUBSET Slots]
      /\ new[s] = Chain(tree, parent)
      /\ \A x \in Slots : x # s => new[x] = tree[x]
  BY <1>1 DEF IsTree
<1> HIDE DEF new
<1>3. \A x \in Slots : Seen(tree, x) => Seen(new, x) /\ new[x] = tree[x]
  BY <1>0, <1>1, <1>2, SMTT(30) DEF Seen
<1>4. \A a \in Chain(tree, parent) :
         a \in Slots /\ a < s /\ Seen(tree, a) /\ tree[a] \subseteq Chain(tree, parent)
  <2> TAKE a \in Chain(tree, parent)
  <2>1. a \in Slots /\ a <= parent /\ Seen(tree, a)
    BY <1>1, ChainFacts
  <2>2. tree[a] \subseteq Chain(tree, parent)
    BY DEF Chain, IsTree
  <2> QED
    BY <1>0, <2>1, <2>2, SMTT(30)
<1>5. \A x \in Slots : \A a \in new[x] : a < x /\ Seen(new, a) /\ new[a] \subseteq new[x]
  <2> SUFFICES ASSUME NEW x \in Slots, NEW a \in new[x]
               PROVE  a < x /\ Seen(new, a) /\ new[a] \subseteq new[x]
    OBVIOUS
  <2>1. CASE x = s
    BY <1>2, <1>3, <1>4, <2>1
  <2>2. CASE x # s
    <3>1. new[x] = tree[x] /\ a \in Slots
      BY <1>2, <2>2
    <3>2. a < x /\ Seen(tree, a) /\ tree[a] \subseteq tree[x]
      BY <3>1 DEF IsTree
    <3> QED
      BY <1>3, <3>1, <3>2
  <2> QED
    BY <2>1, <2>2
<1>6. \A x \in Slots : \A a, c \in new[x] : a < c => a \in new[c]
  <2> SUFFICES ASSUME NEW x \in Slots, NEW a \in new[x], NEW c \in new[x], a < c
               PROVE  a \in new[c]
    OBVIOUS
  <2>1. CASE x = s
    <3>1. /\ a \in Chain(tree, parent) /\ c \in Chain(tree, parent) /\ a \in Slots /\ c \in Slots
          /\ Seen(tree, c)
      BY <1>2, <1>4, <2>1
    <3>2. a \in Chain(tree, c)
      BY <1>0, <3>1, ChainFacts, SMTT(30)
    <3> QED
      BY <1>0, <1>3, <3>1, <3>2, SMTT(30) DEF Chain
  <2>2. CASE x # s
    <3>1. new[x] = tree[x] /\ a \in Slots /\ c \in Slots
      BY <1>2, <2>2
    <3>2. Seen(tree, c) /\ a \in tree[c]
      BY <3>1 DEF IsTree
    <3> QED
      BY <1>3, <3>1, <3>2
  <2> QED
    BY <2>1, <2>2
<1> QED
  BY <1>2, <1>3, <1>5, <1>6 DEF Grown, IsTree, new

(***************************************************************************)
(* What holds of a tower's forks.  Kept: its root and its votes have been  *)
(* seen, and the votes are on the fork of the last one.  Recorded: as it   *)
(* was when a vote had just been recorded, with the root on the fork too.  *)
(* A restart may keep less: it moves the root up past some votes.          *)
(***************************************************************************)
RootBelowVotes(tree, t) == \A s \in VotedSlots(t.votes) : t.root \in Chain(tree, s)

Kept(tree, t) ==
    /\ t.root \in Slots /\ Seen(tree, t.root)
    /\ t.last_vote = last_voted_slot(t.votes)
    /\ \A s \in VotedSlots(t.votes) :
          Seen(tree, s) /\ s \in Chain(tree, last_voted_slot(t.votes))

Recorded(tree, t) ==
    /\ Kept(tree, t)
    /\ t.votes # << >>
    /\ RootBelowVotes(tree, t)

LedgerInv ==
    /\ IsTree(ancestors)
    /\ \A b \in blocks \cup bank_forks \cup roots : Seen(ancestors, b)
    /\ 0 \in roots
    /\ \A r, q \in roots : OneFork(ancestors, r, q)
    /\ status = "down" /\ saved # NoTower =>
          \A r \in roots : OneFork(ancestors, r, saved.root)

QueueInv ==
    \A i \in DOMAIN voting_queue :
        /\ Kept(ancestors, voting_queue[i].tower)
        /\ voting_queue[i].push => Recorded(ancestors, voting_queue[i].tower)
        /\ saved # NoTower => saved.root \in Chain(ancestors, voting_queue[i].tower.root)
        /\ \A j \in 1 .. i :
              voting_queue[j].tower.root \in Chain(ancestors, voting_queue[i].tower.root)

RunInv ==
    status = "up" =>
        /\ Kept(ancestors, tower)
        /\ tower.root = bank_root \/ RootBelowVotes(ancestors, tower)
        /\ bank_root \in roots
        /\ \A r \in roots : r <= bank_root /\ r \in Chain(ancestors, tower.root)
        /\ \A b \in bank_forks : bank_root \in Chain(ancestors, b)
        /\ saved # NoTower => saved.root \in Chain(ancestors, tower.root)
        /\ \A i \in DOMAIN voting_queue :
              voting_queue[i].tower.root \in Chain(ancestors, tower.root)

(* The inductive invariant, together with Inv of TowerProofs. *)
RootsInv ==
    /\ saved # NoTower => Recorded(ancestors, saved)
    /\ status # "up" => voting_queue = << >> /\ stored = FALSE
    /\ LedgerInv
    /\ QueueInv
    /\ RunInv

(* A stack's slots and its last one. *)
LEMMA VotedSlotsFacts ==
    ASSUME NEW votes \in Seq(LockoutOn(Slots))
    PROVE  /\ VotedSlots(votes) \subseteq Slots
           /\ votes = << >> => VotedSlots(votes) = {} /\ last_voted_slot(votes) = NoSlot
           /\ votes # << >> => /\ last_voted_slot(votes) \in VotedSlots(votes)
                               /\ last_voted_slot(votes) \in Slots
<1>1. VotedSlots(votes) \subseteq Slots
  BY StackElement DEF VotedSlots
<1>2. ASSUME votes = << >>
      PROVE  VotedSlots(votes) = {} /\ last_voted_slot(votes) = NoSlot
  BY <1>2, SMTT(30) DEF VotedSlots, last_voted_slot
<1>3. ASSUME votes # << >>
      PROVE  last_voted_slot(votes) \in VotedSlots(votes)
  <2>1. Len(votes) \in DOMAIN votes
    BY <1>3, SMTT(30)
  <2> QED
    BY <1>3, <2>1 DEF VotedSlots, last_voted_slot
<1> QED
  BY <1>1, <1>2, <1>3

(* Slots that are all on the chain of one slot are on one fork. *)
LEMMA ChainIsOneFork ==
    ASSUME NEW tree, IsTree(tree), NEW x \in Slots, NEW S \in SUBSET Chain(tree, x)
    PROVE  \A r, q \in S : OneFork(tree, r, q)
<1> SUFFICES ASSUME NEW r \in S, NEW q \in S PROVE OneFork(tree, r, q)
  OBVIOUS
<1>1. r \in Slots /\ q \in Slots
  BY ChainFacts
<1>2. r <= q \/ q <= r
  <2>1. r \in Nat /\ q \in Nat
    BY <1>1, SlotsAreNaturals
  <2> QED
    BY <2>1, SMTT(30)
<1> QED
  BY <1>1, <1>2, ChainFacts DEF OneFork

(* What holds of a tower still does when the tree has grown. *)
LEMMA TowerGrows ==
    ASSUME NEW tree, NEW new, Grown(tree, new), NEW t, GoodTower(t)
    PROVE  /\ \A s \in Slots : Seen(tree, s) => Seen(new, s) /\ Chain(new, s) = Chain(tree, s)
           /\ Kept(tree, t) => Kept(new, t)
           /\ Kept(tree, t) /\ RootBelowVotes(tree, t) => RootBelowVotes(new, t)
           /\ Recorded(tree, t) => Recorded(new, t)
<1>1. \A s \in Slots : Seen(tree, s) => Seen(new, s) /\ Chain(new, s) = Chain(tree, s)
  BY DEF Grown, Chain
<1>2. t.votes \in Seq(LockoutOn(Slots))
  BY DEF GoodTower, Towers
<1>3. ASSUME Kept(tree, t) PROVE Kept(new, t)
  <2>1. CASE t.votes = << >>
    BY <1>1, <1>2, <1>3, <2>1, VotedSlotsFacts DEF Kept
  <2>2. CASE t.votes # << >>
    <3>1. last_voted_slot(t.votes) \in Slots /\ Seen(tree, last_voted_slot(t.votes))
      BY <1>2, <1>3, <2>2, VotedSlotsFacts DEF Kept
    <3> QED
      BY <1>1, <1>2, <1>3, <3>1, VotedSlotsFacts DEF Kept
  <2> QED
    BY <2>1, <2>2
<1>4. ASSUME Kept(tree, t), RootBelowVotes(tree, t) PROVE RootBelowVotes(new, t)
  BY <1>1, <1>2, <1>4, VotedSlotsFacts DEF Kept, RootBelowVotes
<1> QED
  BY <1>1, <1>3, <1>4 DEF Recorded

(***************************************************************************)
(* A selected bank's vote: the tower it makes is a recorded one on the     *)
(* bank's fork, and its root is on the fork of the old root.               *)
(***************************************************************************)
LEMMA VoteRecorded ==
    ASSUME Inv, RootsInv, status = "up", NEW h \in Slots, select_vote(h),
           NEW voted, voted = record_bank_vote(tower, h)
    PROVE  /\ GoodTower(voted)
           /\ Recorded(ancestors, voted)
           /\ last_voted_slot(voted.votes) = h
           /\ tower.root \in Chain(ancestors, voted.root)
           /\ bank_root <= voted.root
           /\ bank_root \in Chain(ancestors, h)
           /\ voted.root \in Chain(ancestors, h)
<1> DEFINE new == process_next_vote_slot(tower.votes, tower.root, h)
<1>0. /\ IsTree(ancestors) /\ Slots \in SUBSET Nat
      /\ bank_root \in Slots /\ GoodTower(tower) /\ tower.votes \in Seq(LockoutOn(Slots))
      /\ Kept(ancestors, tower) /\ (tower.root = bank_root \/ RootBelowVotes(ancestors, tower))
  BY SlotsAreNaturals, InvGoodTowers
     DEF Inv, TypeOK, GoodTowers, GoodTower, Towers, RootsInv, LedgerInv, RunInv
<1>1. h \in bank_forks /\ ~is_locked_out(tower, h) /\ RootAssertHolds(tower, h)
  BY DEF select_vote, Leaves
<1>2. Seen(ancestors, h) /\ bank_root \in Chain(ancestors, h) /\ bank_root <= h
  <2>1. Seen(ancestors, h) /\ bank_root \in Chain(ancestors, h)
    BY <1>1 DEF RootsInv, LedgerInv, RunInv
  <2> QED
    BY <1>0, <2>1, ChainFacts
<1>3. /\ ~(h <= last_voted_slot(tower.votes))
      /\ VotedSlots(new.votes) \ {h} \subseteq BankAncestors(h)
      /\ new.root \in BankAncestors(h) \cup {h}
  <2>1. last_voted_slot(tower.votes) \in Int /\ h \in Int
    <3>1. last_voted_slot(tower.votes) \in Slots \cup {NoSlot}
      BY <1>0, VotedSlotsFacts
    <3>2. Slots \subseteq Int /\ NoSlot \in Int
      BY SlotsAreNaturals, SMTT(30) DEF NoSlot
    <3> QED
      BY <3>1, <3>2
  <2>2. is_recent(tower, h) /\ VotedSlots(new.votes) \ {h} \subseteq BankAncestors(h)
    BY <1>1 DEF is_locked_out, Simulate
  <2>3. new.root \in BankAncestors(h) \cup {h}
    BY <1>1 DEF RootAssertHolds, Simulate
  <2> QED
    BY <2>1, <2>2, <2>3, SMTT(30) DEF is_recent
<1>4. voted = [tower EXCEPT !.votes = new.votes, !.root = new.root, !.last_vote = h]
  BY DEF record_bank_vote, Simulate
<1>5. voted.votes = new.votes /\ voted.root = new.root /\ voted.last_vote = h
  <2> HIDE DEF new
  <2> QED
    BY <1>0, <1>4 DEF GoodTower, Towers
<1>6. GoodTower(voted)
  BY <1>0, RecordBankVoteGood
<1>7. /\ new.votes # << >>
      /\ last_voted_slot(new.votes) = h
      /\ VotedSlots(new.votes) \subseteq VotedSlots(tower.votes) \cup {h}
      /\ \/ new.root = tower.root
         \/ /\ new.root \in VotedSlots(tower.votes)
            /\ \A s \in VotedSlots(new.votes) : new.root < s
  <2>1. StackOK(tower.votes)
    BY <1>0 DEF GoodTower
  <2>2. /\ new.votes # << >>
        /\ last_voted_slot(new.votes) = h
        /\ \A j \in DOMAIN new.votes : new.votes[j].slot \in VotedSlots(tower.votes) \cup {h}
        /\ \/ new.root = tower.root
           \/ /\ new.root \in VotedSlots(tower.votes)
              /\ \A j \in DOMAIN new.votes : new.root < new.votes[j].slot
    BY <1>0, <1>3, <2>1, RecordVoteKeeps, SMTT(30)
  <2> HIDE DEF new
  <2> QED
    BY <2>2 DEF VotedSlots
<1> HIDE DEF new
<1>8. \A s \in BankAncestors(h) \cup {h} :
         /\ s \in Slots /\ s \in Chain(ancestors, h) /\ Seen(ancestors, s)
         /\ bank_root <= s /\ bank_root \in Chain(ancestors, s)
  <2> TAKE s \in BankAncestors(h) \cup {h}
  <2>1. s \in Chain(ancestors, h)
    BY DEF BankAncestors, Chain
  <2>2. bank_root <= s
    BY <1>2 DEF BankAncestors
  <2> QED
    BY <1>0, <1>2, <2>1, <2>2, ChainFacts
<1>9. VotedSlots(new.votes) \subseteq BankAncestors(h) \cup {h}
  BY <1>3
<1>10. Kept(ancestors, voted)
  BY <1>3, <1>5, <1>7, <1>8, <1>9 DEF Kept
<1>11. RootBelowVotes(ancestors, voted)
  <2> SUFFICES ASSUME NEW s \in VotedSlots(new.votes) PROVE new.root \in Chain(ancestors, s)
    BY <1>5 DEF RootBelowVotes
  <2>0. s \in Slots /\ s \in Chain(ancestors, h) /\ new.root \in Slots /\ new.root \in Chain(ancestors, h)
    BY <1>3, <1>8, <1>9
  <2>1. CASE new.root = tower.root /\ tower.root = bank_root
    BY <1>8, <1>9, <2>1
  <2>2. CASE new.root = tower.root /\ RootBelowVotes(ancestors, tower)
    BY <1>7, <2>0, <2>2 DEF RootBelowVotes
  <2>3. CASE \A x \in VotedSlots(new.votes) : new.root < x
    <3>1. new.root <= s
      <4>1. new.root < s /\ new.root \in Nat /\ s \in Nat
        BY <1>0, <2>0, <2>3
      <4> QED
        BY <4>1, SMTT(30)
    <3> QED
      BY <1>0, <2>0, <3>1, ChainFacts
  <2> QED
    BY <1>0, <1>7, <2>1, <2>2, <2>3
<1>12. tower.root \in Chain(ancestors, new.root)
  <2>0. tower.root \in Slots /\ new.root \in Slots
    BY <1>0, <1>3, <1>8 DEF Kept
  <2>1. CASE new.root = tower.root
    BY <1>0, <2>0, <2>1, ChainFacts
  <2>2. CASE tower.root = bank_root
    BY <1>3, <1>8, <2>2
  <2>3. CASE new.root \in VotedSlots(tower.votes) /\ RootBelowVotes(ancestors, tower)
    BY <2>3 DEF RootBelowVotes
  <2> QED
    BY <1>0, <1>7, <2>1, <2>2, <2>3
<1> QED
  BY <1>2, <1>3, <1>5, <1>6, <1>7, <1>8, <1>10, <1>11, <1>12 DEF Recorded

(* What serializing a tower leaves out, the stray slot, has no fork. *)
LEMMA SavedTowerKeeps ==
    ASSUME NEW t, GoodTower(t)
    PROVE  /\ GoodTower(SavedTower(t))
           /\ SavedTower(t).votes = t.votes /\ SavedTower(t).root = t.root
           /\ SavedTower(t) # NoTower \/ t.votes = << >>
           /\ Recorded(ancestors, t) => Recorded(ancestors, SavedTower(t))
<1>1. /\ SavedTower(t) \in Towers
      /\ SavedTower(t).votes = t.votes /\ SavedTower(t).root = t.root
      /\ SavedTower(t).last_vote = t.last_vote
  BY DEF GoodTower, Towers, SavedTower
<1>2. SavedTower(t) # NoTower \/ t.votes = << >>
  BY <1>1, SMTT(30) DEF NoTower
<1> QED
  BY <1>1, <1>2 DEF GoodTower, Recorded, Kept, RootBelowVotes

(***************************************************************************)
(* Restarting.  Reconciled with the stored tower's root, the blockstore's  *)
(* last root is at least that root unless its block was lost, and replay   *)
(* ends in a root further up the same fork.                                *)
(***************************************************************************)
LEMMA MaxOfSlots ==
    ASSUME NEW S \in SUBSET Slots, S # {}
    PROVE  Max(S) \in S /\ \A y \in S : y <= Max(S)
  BY MaxOfBounded, TowerAssumption DEF Slots

LEMMA ReconcileFacts ==
    ASSUME Inv, RootsInv, status = "down"
    PROVE  LET last == Max(ReconciledRoots)
           IN  /\ last \in Slots /\ Seen(ancestors, last) /\ last \in ReconciledRoots
               /\ roots \subseteq ReconciledRoots
               /\ ReconciledRoots \subseteq Chain(ancestors, last)
               /\ saved # NoTower => OneFork(ancestors, last, saved.root)
               /\ saved # NoTower /\ saved.root \in blocks => saved.root <= last
<1> DEFINE last == Max(ReconciledRoots)
           old  == Max(roots)
<1>0. /\ IsTree(ancestors) /\ roots \in SUBSET Slots /\ 0 \in roots /\ Slots \subseteq Nat
      /\ \A b \in blocks \cup roots : Seen(ancestors, b)
      /\ \A r, q \in roots : OneFork(ancestors, r, q)
      /\ saved # NoTower => /\ \A r \in roots : OneFork(ancestors, r, saved.root)
                            /\ saved.root \in Slots /\ Seen(ancestors, saved.root)
  BY SlotsAreNaturals DEF Inv, TypeOK, RootsInv, LedgerInv, Recorded, Kept
<1>1. old \in roots /\ \A r \in roots : r <= old
  BY <1>0, MaxOfSlots
<1> HIDE DEF old
<1>2. roots \subseteq Chain(ancestors, old)
  <2> SUFFICES ASSUME NEW r \in roots PROVE r \in Chain(ancestors, old)
    OBVIOUS
  <2>1. r \in Slots /\ old \in Slots /\ r <= old /\ OneFork(ancestors, r, old)
    BY <1>0, <1>1
  <2>2. CASE old \in Chain(ancestors, r)
    <3>1. old <= r
      BY <1>0, <2>1, <2>2, ChainFacts
    <3>2. r = old
      BY <1>0, <2>1, <3>1, SMTT(30)
    <3> QED
      BY <2>2, <3>2
  <2> QED
    BY <2>1, <2>2 DEF OneFork
<1>3. CASE MustReconcile
  <2>1. /\ saved # NoTower /\ old < saved.root /\ saved.root \in blocks
        /\ ReconciledRoots = roots \cup {a \in Chain(ancestors, saved.root) : a > old}
    BY <1>3 DEF MustReconcile, ReconciledRoots, Upto, Chain, old
  <2>2. old \in Slots /\ saved.root \in Slots /\ OneFork(ancestors, old, saved.root)
    BY <1>0, <1>1, <2>1
  <2>3. old \in Chain(ancestors, saved.root)
    <3>1. CASE saved.root \in Chain(ancestors, old)
      <4>1. saved.root <= old
        BY <1>0, <2>2, <3>1, ChainFacts
      <4>2. saved.root \in Nat /\ old \in Nat /\ old < saved.root
        BY <1>0, <2>1, <2>2
      <4> QED
        BY <4>1, <4>2, SMTT(30)
    <3> QED
      BY <2>2, <3>1 DEF OneFork
  <2>4. ReconciledRoots \subseteq Chain(ancestors, saved.root)
    <3>1. \A r \in roots : r \in Chain(ancestors, saved.root)
      BY <1>0, <1>2, <2>2, <2>3, ChainFacts
    <3> QED
      BY <2>1, <3>1
  <2>5. saved.root \in ReconciledRoots
    <3>1. saved.root \in Chain(ancestors, saved.root) /\ saved.root > old
      BY <1>0, <2>1, <2>2, ChainFacts
    <3> QED
      BY <2>1, <3>1
  <2>6. ReconciledRoots \in SUBSET Slots /\ \A r \in ReconciledRoots : r <= saved.root
    BY <1>0, <2>2, <2>4, ChainFacts
  <2>7. last = saved.root
    <3>1. last \in ReconciledRoots /\ \A y \in ReconciledRoots : y <= last
      BY <2>5, <2>6, MaxOfSlots
    <3>2. last \in Nat /\ saved.root \in Nat /\ last <= saved.root /\ saved.root <= last
      BY <1>0, <2>2, <2>5, <2>6, <3>1
    <3> HIDE DEF last
    <3> QED
      BY <3>2, SMTT(30)
  <2> HIDE DEF last
  <2>8. saved.root <= saved.root /\ OneFork(ancestors, saved.root, saved.root)
    BY <1>0, <2>2, ChainFacts DEF OneFork
  <2> QED
    BY <1>0, <2>1, <2>2, <2>4, <2>5, <2>7, <2>8 DEF last
<1>4. CASE ~MustReconcile
  <2>1. ReconciledRoots = roots
    BY <1>4 DEF ReconciledRoots
  <2>2. last = old /\ old \in Slots
    BY <1>0, <1>1, <2>1 DEF old
  <2>3. ASSUME saved # NoTower, saved.root \in blocks
        PROVE  saved.root <= old
    <3>1. ~(old < saved.root)
      BY <1>4, <2>3 DEF MustReconcile, old
    <3>2. saved.root \in Nat /\ old \in Nat
      BY <1>0, <2>2, <2>3
    <3> QED
      BY <3>1, <3>2, SMTT(30)
  <2>4. saved # NoTower => OneFork(ancestors, old, saved.root)
    BY <1>0, <1>1
  <2> QED
    BY <1>0, <1>1, <1>2, <2>1, <2>2, <2>3, <2>4
<1> QED
  BY <1>3, <1>4

(* The root replay ends in, and the roots the blockstore has then. *)
LEMMA ReplayedFacts ==
    ASSUME Inv, RootsInv, status = "down", NEW r \in Slots, r \in ReplayedRoots,
           NEW R, R = ReconciledRoots \cup {a \in Upto(r) : a > Max(ReconciledRoots)}
    PROVE  /\ Seen(ancestors, r) /\ 0 \in R /\ r \in R /\ R \subseteq Chain(ancestors, r)
           /\ saved # NoTower => OneFork(ancestors, r, saved.root)
           /\ saved # NoTower /\ saved.root \in blocks => saved.root <= r
<1> DEFINE last == Max(ReconciledRoots)
<1>0. /\ IsTree(ancestors) /\ 0 \in roots /\ blocks \subseteq Slots /\ Slots \subseteq Nat
      /\ \A b \in blocks : Seen(ancestors, b)
      /\ saved # NoTower => saved.root \in Slots
  BY SlotsAreNaturals DEF Inv, TypeOK, RootsInv, LedgerInv, Recorded, Kept
<1>1. /\ last \in Slots /\ Seen(ancestors, last) /\ last \in ReconciledRoots
      /\ roots \subseteq ReconciledRoots
      /\ ReconciledRoots \subseteq Chain(ancestors, last)
      /\ saved # NoTower => OneFork(ancestors, last, saved.root)
      /\ saved # NoTower /\ saved.root \in blocks => saved.root <= last
  BY ReconcileFacts
<1>2. \/ r = last
      \/ /\ r \in blocks /\ last \in Chain(ancestors, r)
         /\ saved # NoTower => OneFork(ancestors, r, saved.root)
  BY DEF ReplayedRoots, ClusterRoots, Descends, Upto, OneFork, Chain
<1>3. R = ReconciledRoots \cup {a \in Chain(ancestors, r) : a > last}
  BY DEF Upto, Chain
<1> HIDE DEF last
<1>4. last \in Chain(ancestors, r) /\ last <= r
  <2>1. last \in Chain(ancestors, r)
    BY <1>0, <1>1, <1>2, ChainFacts
  <2> QED
    BY <1>0, <1>1, <2>1, ChainFacts
<1>5. R \subseteq Chain(ancestors, r)
  <2>1. \A a \in ReconciledRoots : a \in Slots /\ a \in Chain(ancestors, r)
    BY <1>0, <1>1, <1>4, ChainFacts
  <2> QED
    BY <1>3, <2>1
<1>6. r \in R
  <2>1. CASE r = last
    BY <1>1, <1>3, <2>1
  <2>2. CASE r # last
    <3>1. r > last
      BY <1>0, <1>1, <1>4, <2>2, SMTT(30)
    <3> QED
      BY <1>0, <1>3, <3>1, ChainFacts
  <2> QED
    BY <2>1, <2>2
<1>7. Seen(ancestors, r) /\ (saved # NoTower => OneFork(ancestors, r, saved.root))
  BY <1>0, <1>1, <1>2
<1>8. ASSUME saved # NoTower, saved.root \in blocks
      PROVE  saved.root <= r
  <2>1. saved.root \in Nat /\ last \in Nat /\ r \in Nat /\ saved.root <= last /\ last <= r
    BY <1>0, <1>1, <1>4, <1>8
  <2> QED
    BY <2>1, SMTT(30)
<1> QED
  BY <1>0, <1>1, <1>3, <1>5, <1>6, <1>7, <1>8

(* The restored tower: some of the newest votes, or none, and a root that is *)
(* the replayed one or, when the ledger has lost it, the stored one.         *)
LEMMA RestoredShape ==
    ASSUME Inv, RootsInv, saved # NoTower, NEW r \in Slots, ~RestoreFails(r)
    PROVE  \E n \in 1 .. Len(saved.votes) + 1 :
              LET t == RestoredTower(r)
              IN  /\ n = Max(Anchors(saved, HistoryFor(saved, r)))
                  /\ n \in Anchors(saved, HistoryFor(saved, r))
                  /\ \A j \in Anchors(saved, HistoryFor(saved, r)) : j <= n
                  /\ t.votes = SubSeq(saved.votes, n, Len(saved.votes))
                  /\ t.root = IF saved.root <= r THEN r ELSE saved.root
                  /\ t.last_vote = IF t.votes = << >> THEN NoSlot ELSE saved.last_vote
<1> DEFINE A == Anchors(saved, HistoryFor(saved, r))
           n == Max(A)
           kept == SubSeq(saved.votes, n, Len(saved.votes))
           t == RestoredTower(r)
<1>0. saved \in Towers /\ saved.votes \in Seq(LockoutOn(Slots)) /\ Recorded(ancestors, saved)
  BY DEF Inv, TypeOK, Towers, RootsInv
<1>1. saved.last_vote # NoSlot
  <2>1. saved.last_vote \in Slots
    BY <1>0, VotedSlotsFacts DEF Recorded, Kept
  <2> QED
    BY <2>1, SlotsAreNaturals
<1>2. A # {}
  BY <1>1 DEF RestoreFails, adjust_fails, FatallyInconsistent
<1>3. A \in SUBSET (1 .. Len(saved.votes) + 1)
  <2>1. DOMAIN SlotsInTower(saved) = 1 .. Len(saved.votes) + 1
    <3>1. saved.root \in Int /\ \A i \in DOMAIN saved.votes : saved.votes[i].slot \in Int
      <4>1. saved.root \in Slots \cup {NoSlot} /\ Slots \subseteq Int /\ NoSlot \in Int
        BY <1>0, SlotsAreNaturals, SMTT(30) DEF Towers, NoSlot
      <4>2. \A i \in DOMAIN saved.votes : saved.votes[i].slot \in Slots
        BY <1>0, StackElement
      <4> QED
        BY <4>1, <4>2
    <3> QED
      BY <1>0, <3>1, SMTT(30) DEF SlotsInTower
  <2> QED
    BY <2>1 DEF Anchors
<1>4. n \in A /\ (\A j \in A : j <= n) /\ n \in 1 .. Len(saved.votes) + 1
  <2>1. Len(saved.votes) + 1 \in Nat /\ A \in SUBSET (0 .. Len(saved.votes) + 1)
    BY <1>0, <1>3, SMTT(30)
  <2> HIDE DEF A
  <2> QED
    BY <1>2, <1>3, <2>1, MaxOfBounded
<1>5. t =
        [[saved EXCEPT !.votes = kept,
                       !.last_vote = IF kept = << >> THEN NoSlot ELSE saved.last_vote,
                       !.stray = IF kept = << >> THEN saved.stray ELSE saved.last_vote]
           EXCEPT !.root = IF saved.root <= r THEN r ELSE saved.root]
  BY <1>1 DEF RestoredTower, adjust_lockouts_after_replay, adjust_lockouts_with_slot_history
<1>6. /\ t.votes = kept
      /\ t.root = IF saved.root <= r THEN r ELSE saved.root
      /\ t.last_vote = IF kept = << >> THEN NoSlot ELSE saved.last_vote
  <2> HIDE DEF kept, t
  <2> QED
    BY <1>0, <1>5 DEF Towers
<1> QED
  BY <1>4, <1>6

(* A suffix of a stack has some of its slots, and the last one if any. *)
LEMMA SuffixSlots ==
    ASSUME NEW votes \in Seq(LockoutOn(Slots)), NEW n \in 1 .. Len(votes) + 1,
           NEW kept, kept = SubSeq(votes, n, Len(votes))
    PROVE  /\ kept \in Seq(LockoutOn(Slots)) /\ Len(kept) = Len(votes) - n + 1
           /\ \A i \in DOMAIN kept : i + n - 1 \in DOMAIN votes /\ kept[i] = votes[i + n - 1]
           /\ VotedSlots(kept) \subseteq VotedSlots(votes)
           /\ kept # << >> => last_voted_slot(kept) = last_voted_slot(votes)
           /\ kept # << >> \/ n = Len(votes) + 1
<1>1. kept \in Seq(LockoutOn(Slots)) /\ Len(kept) = Len(votes) - n + 1
  BY SMTT(30)
<1>2. \A i \in DOMAIN kept : i + n - 1 \in DOMAIN votes /\ kept[i] = votes[i + n - 1]
  BY SMTT(30)
<1>3. VotedSlots(kept) \subseteq VotedSlots(votes)
  BY <1>2, SMTT(30) DEF VotedSlots
<1>4. ASSUME kept = << >> PROVE n = Len(votes) + 1
  <2>1. Len(kept) = 0
    BY <1>4, SMTT(30)
  <2> QED
    BY <1>1, <2>1, SMTT(30)
<1>5. ASSUME kept # << >> PROVE last_voted_slot(kept) = last_voted_slot(votes)
  <2>1. Len(kept) \in DOMAIN kept /\ Len(kept) + n - 1 = Len(votes) /\ votes # << >>
    BY <1>1, <1>5, SMTT(30)
  <2>2. kept[Len(kept)] = votes[Len(votes)]
    BY <1>2, <2>1
  <2> QED
    BY <1>5, <2>1, <2>2 DEF last_voted_slot
<1> QED
  BY <1>1, <1>2, <1>3, <1>4, <1>5

(***************************************************************************)
(* So the restored tower is a kept one: its root is on one fork with the   *)
(* replayed root and with the stored tower's root, ahead of both.          *)
(***************************************************************************)
LEMMA RestoredKept ==
    ASSUME Inv, RootsInv, status = "down", NEW r \in Slots, r \in ReplayedRoots, ~RestoreFails(r)
    PROVE  LET t == RestoredTower(r)
           IN  /\ GoodTower(t)
               /\ Kept(ancestors, t)
               /\ t.root = r \/ RootBelowVotes(ancestors, t)
               /\ r \in Chain(ancestors, t.root)
               /\ saved # NoTower => saved.root \in Chain(ancestors, t.root)
               /\ t.root = r \/ saved.root \notin blocks
<1> DEFINE t == RestoredTower(r)
<1>0. IsTree(ancestors) /\ Slots \subseteq Nat
  BY SlotsAreNaturals DEF RootsInv, LedgerInv
<1>1. /\ Seen(ancestors, r)
      /\ saved # NoTower => OneFork(ancestors, r, saved.root)
      /\ saved # NoTower /\ saved.root \in blocks => saved.root <= r
  BY ReplayedFacts
<1>2. GoodTower(t)
  BY RestoredTowerGood, InvGoodTowers DEF GoodTowers
<1>3. CASE saved = NoTower
  <2>1. t.votes = << >> /\ t.root = r /\ t.last_vote = NoSlot
    BY <1>3 DEF RestoredTower, NewTower, NoTower
  <2>2. t.votes \in Seq(LockoutOn(Slots))
    BY <1>2 DEF GoodTower, Towers
  <2> HIDE DEF t
  <2>3. Kept(ancestors, t)
    BY <1>1, <2>1, <2>2, VotedSlotsFacts DEF Kept
  <2> QED
    BY <1>0, <1>2, <1>3, <2>1, <2>3, ChainFacts DEF t
<1>4. CASE saved # NoTower
  <2>0. saved.votes \in Seq(LockoutOn(Slots)) /\ Recorded(ancestors, saved) /\ saved.root \in Slots
    BY <1>4 DEF Inv, TypeOK, Towers, RootsInv, Recorded, Kept
  <2>1. PICK n \in 1 .. Len(saved.votes) + 1 :
           /\ t.votes = SubSeq(saved.votes, n, Len(saved.votes))
           /\ t.root = IF saved.root <= r THEN r ELSE saved.root
           /\ t.last_vote = IF t.votes = << >> THEN NoSlot ELSE saved.last_vote
    BY <1>4, RestoredShape
  <2> HIDE DEF t
  <2>2. /\ t.votes \in Seq(LockoutOn(Slots))
        /\ VotedSlots(t.votes) \subseteq VotedSlots(saved.votes)
        /\ t.votes # << >> => last_voted_slot(t.votes) = last_voted_slot(saved.votes)
    <3> DEFINE kept == t.votes
               votes == saved.votes
    <3>1. /\ kept = SubSeq(votes, n, Len(votes)) /\ n \in 1 .. Len(votes) + 1
          /\ votes \in Seq(LockoutOn(Slots))
      BY <2>0, <2>1
    <3> HIDE DEF kept, votes
    <3>2. /\ kept \in Seq(LockoutOn(Slots))
          /\ VotedSlots(kept) \subseteq VotedSlots(votes)
          /\ kept # << >> => last_voted_slot(kept) = last_voted_slot(votes)
      BY <3>1, SuffixSlots
    <3> QED
      BY <3>2 DEF kept, votes
  <2>3. Kept(ancestors, t)
    <3>1. t.root \in Slots /\ Seen(ancestors, t.root)
      BY <1>1, <2>0, <2>1 DEF Recorded, Kept
    <3>2. CASE t.votes = << >>
      BY <2>1, <2>2, <3>1, <3>2, VotedSlotsFacts DEF Kept
    <3>3. CASE t.votes # << >>
      BY <2>0, <2>1, <2>2, <3>1, <3>3 DEF Kept, Recorded
    <3> QED
      BY <3>2, <3>3
  <2>4. CASE saved.root <= r
    <3>1. t.root = r
      BY <2>1, <2>4
    <3>2. saved.root \in Chain(ancestors, r)
      <4>1. CASE r \in Chain(ancestors, saved.root)
        <5>1. r <= saved.root
          BY <1>0, <2>0, <4>1, ChainFacts
        <5>2. r \in Nat /\ saved.root \in Nat
          BY <1>0, <2>0
        <5>3. r = saved.root
          BY <2>4, <5>1, <5>2, SMTT(30)
        <5> QED
          BY <4>1, <5>3
      <4> QED
        BY <1>1, <1>4, <4>1 DEF OneFork
    <3> QED
      BY <1>0, <1>2, <2>3, <3>1, <3>2, ChainFacts DEF t
  <2>5. CASE ~(saved.root <= r)
    <3>1. t.root = saved.root /\ saved.root \notin blocks
      BY <1>1, <1>4, <2>1, <2>5
    <3>2. r \in Chain(ancestors, saved.root)
      <4>1. saved.root \notin Chain(ancestors, r)
        BY <1>0, <2>0, <2>5, ChainFacts
      <4> QED
        BY <1>1, <1>4, <4>1 DEF OneFork
    <3>3. RootBelowVotes(ancestors, t)
      BY <2>0, <2>2, <3>1 DEF Recorded, RootBelowVotes
    <3> QED
      BY <1>0, <1>2, <2>0, <2>3, <3>1, <3>2, <3>3, ChainFacts DEF t
  <2> QED
    BY <2>4, <2>5
<1> QED
  BY <1>3, <1>4

-----------------------------------------------------------------------------
LEMMA InitRoots == Init => RootsInv
<1> SUFFICES ASSUME Init PROVE RootsInv
  OBVIOUS
<1>0. 0 \in Slots /\ Slots \subseteq Nat /\ ancestors \in [Slots -> SUBSET Slots]
      /\ \A s \in Slots : ancestors[s] = {}
  BY SlotsAreNaturals, TowerAssumption, SMTT(30) DEF Init, Slots
<1>1. IsTree(ancestors)
  BY <1>0 DEF IsTree
<1>2. Seen(ancestors, 0) /\ 0 \in Chain(ancestors, 0)
  BY DEF Seen, Chain
<1>3. tower.votes = << >> /\ tower.root = 0 /\ tower.last_vote = NoSlot
  BY DEF Init, NewTower, NoTower
<1>4. VotedSlots(tower.votes) = {} /\ last_voted_slot(tower.votes) = NoSlot
  BY <1>3, SMTT(30) DEF VotedSlots, last_voted_slot
<1>5. Kept(ancestors, tower)
  BY <1>0, <1>2, <1>3, <1>4 DEF Kept
<1>6. /\ saved = NoTower /\ status = "up" /\ voting_queue = << >> /\ DOMAIN voting_queue = {}
      /\ blocks = {0} /\ roots = {0} /\ bank_forks = {0} /\ bank_root = 0
  BY SMTT(30) DEF Init
<1>7. LedgerInv
  BY <1>1, <1>2, <1>6 DEF LedgerInv, OneFork
<1>8. QueueInv
  BY <1>6 DEF QueueInv
<1>9. RunInv
  BY <1>2, <1>3, <1>5, <1>6, SMTT(30) DEF RunInv
<1> QED
  BY <1>6, <1>7, <1>8, <1>9 DEF RootsInv

(* Of a typed queue, every element has a good tower. *)
LEMMA QueueGood ==
    ASSUME Inv, NEW i \in DOMAIN voting_queue
    PROVE  GoodTower(voting_queue[i].tower) /\ voting_queue[i] \in VoteOps
<1>1. voting_queue \in Seq(VoteOps)
  BY DEF Inv, TypeOK
<1> QED
  BY <1>1, InvGoodTowers, SMTT(30) DEF GoodTowers

(* A replayed block moves no chain that a root or a vote is on. *)
LEMMA ReplayRoots ==
    ASSUME Inv, RootsInv, NEW s \in Slots, NEW parent \in Slots, ReplayBank(s, parent)
    PROVE  Grown(ancestors, ancestors') /\ RootsInv'
<1>1. /\ status = "up" /\ status' = status
      /\ parent \in bank_forks /\ parent < s
      /\ ancestors[s] \in {{}, Chain(ancestors, parent)}
      /\ ancestors' = [ancestors EXCEPT ![s] = Chain(ancestors, parent)]
      /\ blocks' = blocks \cup {s} /\ bank_forks' = bank_forks \cup {s}
      /\ UNCHANGED <<roots, saved, tower, bank_root, voting_queue>>
  BY DEF ReplayBank, Upto, Chain
<1>2. /\ IsTree(ancestors) /\ bank_root \in Slots
      /\ blocks \cup bank_forks \cup roots \subseteq Slots
      /\ \A b \in blocks \cup bank_forks \cup roots : Seen(ancestors, b)
      /\ 0 \in roots
      /\ \A r, q \in roots : OneFork(ancestors, r, q)
  BY DEF Inv, TypeOK, RootsInv, LedgerInv
<1>3. Grown(ancestors, ancestors')
  BY <1>1, <1>2, ReplayGrows
<1>4. \A x \in Slots : Seen(ancestors, x) =>
         Seen(ancestors', x) /\ Chain(ancestors', x) = Chain(ancestors, x)
  BY <1>3 DEF Grown, Chain
<1>5. GoodTower(tower) /\ GoodTower(saved)
  BY InvGoodTowers DEF GoodTowers
<1>6. Seen(ancestors', s) /\ Chain(ancestors, parent) \subseteq Chain(ancestors', s)
  <2>1. ancestors'[s] = Chain(ancestors, parent)
    BY <1>1, <1>2 DEF IsTree
  <2>2. parent \in Chain(ancestors, parent)
    BY DEF Chain
  <2> QED
    BY <2>1, <2>2 DEF Seen, Chain
<1>7. LedgerInv'
  <2>1. IsTree(ancestors')
    BY <1>3 DEF Grown
  <2>2. \A b \in (blocks \cup bank_forks \cup roots)' : Seen(ancestors', b)
    BY <1>1, <1>2, <1>4, <1>6
  <2>3. \A r, q \in roots : OneFork(ancestors', r, q)
    BY <1>2, <1>4 DEF OneFork
  <2> QED
    BY <1>1, <1>2, <2>1, <2>2, <2>3 DEF LedgerInv
<1>8. saved # NoTower => Recorded(ancestors', saved)
  BY <1>3, <1>5, TowerGrows DEF RootsInv
<1>9. QueueInv'
  <2> SUFFICES ASSUME NEW i \in DOMAIN voting_queue
               PROVE  /\ Kept(ancestors', voting_queue[i].tower)
                      /\ voting_queue[i].push => Recorded(ancestors', voting_queue[i].tower)
                      /\ saved # NoTower => saved.root \in Chain(ancestors', voting_queue[i].tower.root)
                      /\ \A j \in 1 .. i :
                            voting_queue[j].tower.root \in Chain(ancestors', voting_queue[i].tower.root)
    BY <1>1 DEF QueueInv
  <2>1. /\ Kept(ancestors, voting_queue[i].tower)
        /\ voting_queue[i].push => Recorded(ancestors, voting_queue[i].tower)
        /\ saved # NoTower => saved.root \in Chain(ancestors, voting_queue[i].tower.root)
        /\ \A j \in 1 .. i :
              voting_queue[j].tower.root \in Chain(ancestors, voting_queue[i].tower.root)
    BY DEF RootsInv, QueueInv
  <2>2. GoodTower(voting_queue[i].tower)
    BY QueueGood
  <2>3. Chain(ancestors', voting_queue[i].tower.root) = Chain(ancestors, voting_queue[i].tower.root)
    BY <1>4, <2>1 DEF Kept
  <2> QED
    BY <1>3, <2>1, <2>2, <2>3, TowerGrows
<1>10. RunInv'
  <2>1. /\ Kept(ancestors, tower)
        /\ tower.root = bank_root \/ RootBelowVotes(ancestors, tower)
        /\ bank_root \in roots
        /\ \A r \in roots : r <= bank_root /\ r \in Chain(ancestors, tower.root)
        /\ \A b \in bank_forks : bank_root \in Chain(ancestors, b)
        /\ saved # NoTower => saved.root \in Chain(ancestors, tower.root)
        /\ \A i \in DOMAIN voting_queue :
              voting_queue[i].tower.root \in Chain(ancestors, tower.root)
    BY <1>1 DEF RootsInv, RunInv
  <2>2. /\ Kept(ancestors', tower)
        /\ tower.root = bank_root \/ RootBelowVotes(ancestors', tower)
    BY <1>3, <1>5, <2>1, TowerGrows
  <2>3. Chain(ancestors', tower.root) = Chain(ancestors, tower.root)
    BY <1>4, <2>1 DEF Kept
  <2>4. \A b \in bank_forks \cup {s} : bank_root \in Chain(ancestors', b)
    BY <1>1, <1>2, <1>4, <1>6, <2>1
  <2> QED
    BY <1>1, <2>1, <2>2, <2>3, <2>4 DEF RunInv
<1> QED
  BY <1>1, <1>3, <1>7, <1>8, <1>9, <1>10 DEF RootsInv

(* A new vote, whether or not it can be signed. *)
LEMMA VoteRoots ==
    ASSUME Inv, RootsInv, NEW h \in Slots, NEW signable \in Signable, handle_votable_bank(h, signable)
    PROVE  RootsInv'
<1> DEFINE voted == record_bank_vote(tower, h)
<1>1. /\ status = "up" /\ select_vote(h)
      /\ tower' = voted
      /\ SetRoot(voted.root)
      /\ voting_queue' = IF signable THEN Append(voting_queue, PushVote(voted)) ELSE voting_queue
      /\ UNCHANGED <<ancestors, blocks, saved, status>>
  BY DEF handle_votable_bank
<1>2. /\ GoodTower(voted)
      /\ Recorded(ancestors, voted)
      /\ tower.root \in Chain(ancestors, voted.root)
      /\ bank_root <= voted.root
  BY <1>1, VoteRecorded
<1> HIDE DEF voted
<1>3. /\ IsTree(ancestors) /\ bank_root \in Slots /\ Slots \subseteq Nat
      /\ roots \in SUBSET Slots /\ bank_forks \subseteq Slots /\ voting_queue \in Seq(VoteOps)
      /\ \A b \in blocks \cup bank_forks \cup roots : Seen(ancestors, b)
      /\ 0 \in roots
      /\ \A r, q \in roots : OneFork(ancestors, r, q)
      /\ saved # NoTower => Recorded(ancestors, saved)
  BY SlotsAreNaturals DEF Inv, TypeOK, RootsInv, LedgerInv
<1>4. /\ Kept(ancestors, tower)
      /\ bank_root \in roots
      /\ \A r \in roots : r <= bank_root /\ r \in Chain(ancestors, tower.root)
      /\ \A b \in bank_forks : bank_root \in Chain(ancestors, b)
      /\ saved # NoTower => saved.root \in Chain(ancestors, tower.root)
      /\ \A i \in DOMAIN voting_queue :
            voting_queue[i].tower.root \in Chain(ancestors, tower.root)
  BY <1>1 DEF RootsInv, RunInv
<1>5. /\ tower.root \in Slots /\ voted.root \in Slots /\ Seen(ancestors, voted.root)
      /\ saved # NoTower => saved.root \in Slots
      /\ \A i \in DOMAIN voting_queue : voting_queue[i].tower.root \in Slots
  BY <1>2, <1>3, <1>4 DEF Kept, Recorded, RootsInv, QueueInv
<1>6. \A a \in Slots : a \in Chain(ancestors, tower.root) => a \in Chain(ancestors, voted.root)
  BY <1>2, <1>3, <1>5, ChainFacts
<1>7. /\ bank_root' \in roots'
      /\ \A r \in roots' : r <= bank_root' /\ r \in Chain(ancestors, voted.root) /\ Seen(ancestors, r)
      /\ \A b \in bank_forks' : bank_root' \in Chain(ancestors, b) /\ Seen(ancestors, b)
      /\ 0 \in roots'
      /\ \A r, q \in roots' : OneFork(ancestors, r, q)
  <2>1. CASE voted.root = tower.root
    <3>1. UNCHANGED <<roots, bank_forks, bank_root>>
      BY <1>1, <2>1 DEF SetRoot
    <3> QED
      BY <1>3, <1>4, <2>1, <3>1
  <2>2. CASE voted.root # tower.root
    <3>1. /\ roots' = roots \cup {a \in Chain(ancestors, voted.root) : a >= bank_root}
          /\ bank_root' = voted.root
          /\ bank_forks' = {b \in bank_forks : voted.root \in Chain(ancestors, b)}
      BY <1>1, <2>2 DEF SetRoot, Descends, Upto, Chain
    <3>2. roots' \in SUBSET Chain(ancestors, voted.root)
      BY <1>3, <1>4, <1>6, <3>1
    <3>3. \A r, q \in roots' : OneFork(ancestors, r, q)
      BY <1>3, <1>5, <3>2, ChainIsOneFork
    <3>4. \A r \in roots' : r <= voted.root /\ Seen(ancestors, r)
      BY <1>3, <1>5, <3>2, ChainFacts
    <3>5. voted.root \in roots'
      <4>1. voted.root \in Chain(ancestors, voted.root) /\ voted.root >= bank_root
        BY <1>2, <1>3, <1>5, ChainFacts
      <4> QED
        BY <3>1, <4>1
    <3> QED
      BY <1>3, <3>1, <3>2, <3>3, <3>4, <3>5
  <2> QED
    BY <2>1, <2>2
<1>8. LedgerInv'
  BY <1>1, <1>3, <1>7 DEF LedgerInv
<1>9. /\ saved # NoTower => saved.root \in Chain(ancestors, voted.root)
      /\ \A i \in DOMAIN voting_queue : voting_queue[i].tower.root \in Chain(ancestors, voted.root)
  BY <1>4, <1>5, <1>6
<1>10. \A i \in DOMAIN voting_queue :
        /\ Kept(ancestors, voting_queue[i].tower)
        /\ voting_queue[i].push => Recorded(ancestors, voting_queue[i].tower)
        /\ saved # NoTower => saved.root \in Chain(ancestors, voting_queue[i].tower.root)
        /\ \A j \in 1 .. i :
              voting_queue[j].tower.root \in Chain(ancestors, voting_queue[i].tower.root)
  BY DEF RootsInv, QueueInv
<1>11. QueueInv' /\ \A i \in DOMAIN voting_queue' : voting_queue'[i].tower.root \in Chain(ancestors, voted.root)
  <2>1. CASE signable
    <3> DEFINE op == PushVote(voted)
    <3>1. voting_queue' = Append(voting_queue, op)
      BY <1>1, <2>1
    <3>2. Recorded(ancestors, op.tower) /\ Kept(ancestors, op.tower) /\ op.tower.root = voted.root
      BY <1>2, SavedTowerKeeps DEF PushVote, Recorded
    <3> HIDE DEF op
    <3>3. voted.root \in Chain(ancestors, voted.root)
      BY <1>3, <1>5, ChainFacts
    <3>4. /\ DOMAIN voting_queue' = 1 .. Len(voting_queue) + 1 /\ Len(voting_queue) \in Nat
          /\ DOMAIN voting_queue = 1 .. Len(voting_queue)
          /\ \A i \in DOMAIN voting_queue : voting_queue'[i] = voting_queue[i]
          /\ voting_queue'[Len(voting_queue) + 1] = op
      BY <1>3, <3>1, SMTT(30)
    <3>5. ASSUME NEW i \in DOMAIN voting_queue'
          PROVE  /\ Kept(ancestors, voting_queue'[i].tower)
                 /\ voting_queue'[i].push => Recorded(ancestors, voting_queue'[i].tower)
                 /\ saved # NoTower => saved.root \in Chain(ancestors, voting_queue'[i].tower.root)
                 /\ \A j \in 1 .. i :
                       voting_queue'[j].tower.root \in Chain(ancestors, voting_queue'[i].tower.root)
                 /\ voting_queue'[i].tower.root \in Chain(ancestors, voted.root)
      <4>1. CASE i \in DOMAIN voting_queue
        BY <1>9, <1>10, <3>4, <4>1, SMTT(30)
      <4>2. CASE i = Len(voting_queue) + 1
        BY <1>9, <3>2, <3>3, <3>4, <4>2, SMTT(30)
      <4> QED
        BY <3>4, <4>1, <4>2, SMTT(30)
    <3> QED
      BY <1>1, <3>5 DEF QueueInv
  <2>2. CASE ~signable
    BY <1>1, <1>9, <1>10, <2>2 DEF QueueInv
  <2> QED
    BY <2>1, <2>2
<1>12. RunInv'
  BY <1>1, <1>2, <1>7, <1>9, <1>11 DEF RunInv, Recorded
<1> QED
  BY <1>1, <1>3, <1>8, <1>11, <1>12 DEF RootsInv

(* The vote in memory is queued again. *)
LEMMA RefreshRoots ==
    ASSUME Inv, RootsInv, refresh_last_vote
    PROVE  RootsInv'
<1>1. /\ status = "up" /\ status' = status
      /\ voting_queue' = Append(voting_queue, RefreshVote(tower))
      /\ UNCHANGED <<ancestors, blocks, roots, saved, tower, bank_forks, bank_root>>
  BY DEF refresh_last_vote, ledger, memory
<1>2. /\ RefreshVote(tower).tower = tower /\ RefreshVote(tower).push = FALSE
      /\ voting_queue \in Seq(VoteOps)
  BY DEF RefreshVote, Inv, TypeOK
<1>3. /\ IsTree(ancestors) /\ Kept(ancestors, tower) /\ tower.root \in Slots
      /\ saved # NoTower => saved.root \in Chain(ancestors, tower.root)
      /\ \A i \in DOMAIN voting_queue :
            voting_queue[i].tower.root \in Chain(ancestors, tower.root)
  BY <1>1 DEF RootsInv, RunInv, LedgerInv, Kept
<1>4. tower.root \in Chain(ancestors, tower.root)
  BY <1>3, ChainFacts
<1>5. /\ DOMAIN voting_queue' = 1 .. Len(voting_queue) + 1 /\ Len(voting_queue) \in Nat
      /\ DOMAIN voting_queue = 1 .. Len(voting_queue)
      /\ \A i \in DOMAIN voting_queue : voting_queue'[i] = voting_queue[i]
      /\ voting_queue'[Len(voting_queue) + 1] = RefreshVote(tower)
  BY <1>1, <1>2, SMTT(30)
<1>6. ASSUME NEW i \in DOMAIN voting_queue'
      PROVE  /\ Kept(ancestors, voting_queue'[i].tower)
             /\ voting_queue'[i].push => Recorded(ancestors, voting_queue'[i].tower)
             /\ saved # NoTower => saved.root \in Chain(ancestors, voting_queue'[i].tower.root)
             /\ \A j \in 1 .. i :
                   voting_queue'[j].tower.root \in Chain(ancestors, voting_queue'[i].tower.root)
             /\ voting_queue'[i].tower.root \in Chain(ancestors, tower.root)
  <2>1. CASE i \in DOMAIN voting_queue
    <3>1. /\ Kept(ancestors, voting_queue[i].tower)
          /\ voting_queue[i].push => Recorded(ancestors, voting_queue[i].tower)
          /\ saved # NoTower => saved.root \in Chain(ancestors, voting_queue[i].tower.root)
          /\ \A j \in 1 .. i :
                voting_queue[j].tower.root \in Chain(ancestors, voting_queue[i].tower.root)
      BY <2>1 DEF RootsInv, QueueInv
    <3>2. \A j \in 1 .. i : j \in DOMAIN voting_queue
      BY <1>5, <2>1, SMTT(30)
    <3>3. /\ voting_queue'[i] = voting_queue[i]
          /\ \A j \in 1 .. i : voting_queue'[j] = voting_queue[j]
      BY <1>5, <2>1, <3>2
    <3> QED
      BY <1>3, <2>1, <3>1, <3>3
  <2>2. CASE i = Len(voting_queue) + 1
    <3>1. \A j \in 1 .. i : j \in DOMAIN voting_queue \/ j = i
      BY <1>5, <2>2, SMTT(30)
    <3>2. /\ voting_queue'[i].tower = tower /\ voting_queue'[i].push = FALSE
          /\ \A j \in DOMAIN voting_queue : voting_queue'[j] = voting_queue[j]
      BY <1>2, <1>5, <2>2
    <3> QED
      BY <1>3, <1>4, <3>1, <3>2
  <2>3. i \in DOMAIN voting_queue \/ i = Len(voting_queue) + 1
    BY <1>5, SMTT(30)
  <2> QED
    BY <2>1, <2>2, <2>3
<1>7. QueueInv'
  BY <1>1, <1>6 DEF QueueInv
<1>8. RunInv'
  BY <1>1, <1>6 DEF RunInv, RootsInv
<1>9. LedgerInv'
  BY <1>1 DEF LedgerInv, RootsInv
<1> QED
  BY <1>1, <1>7, <1>8, <1>9 DEF RootsInv

(* The stored tower is the oldest one queued. *)
LEMMA StoreRoots ==
    ASSUME Inv, RootsInv, StoreTower
    PROVE  RootsInv'
<1>1. /\ status = "up" /\ status' = status
      /\ voting_queue # << >> /\ Head(voting_queue).push
      /\ saved' = Head(voting_queue).tower
      /\ UNCHANGED <<ancestors, blocks, roots, tower, bank_forks, bank_root, voting_queue>>
  BY DEF StoreTower, ledger, memory
<1>2. 1 \in DOMAIN voting_queue /\ Head(voting_queue) = voting_queue[1]
      /\ \A i \in DOMAIN voting_queue : 1 \in 1 .. i
  <2>1. voting_queue \in Seq(VoteOps)
    BY DEF Inv, TypeOK
  <2> QED
    BY <1>1, <2>1, SMTT(30)
<1>3. Recorded(ancestors, saved')
  BY <1>1, <1>2 DEF RootsInv, QueueInv
<1>4. QueueInv'
  BY <1>1, <1>2 DEF RootsInv, QueueInv
<1>5. RunInv'
  BY <1>1, <1>2 DEF RootsInv, RunInv
<1>6. LedgerInv'
  BY <1>1 DEF RootsInv, LedgerInv
<1> QED
  BY <1>1, <1>3, <1>4, <1>5, <1>6 DEF RootsInv

(* The voting service is done with the oldest operation. *)
LEMMA SendRoots ==
    ASSUME Inv, RootsInv, SendVote
    PROVE  RootsInv'
<1>1. /\ status = "up" /\ status' = status
      /\ voting_queue # << >> /\ voting_queue' = Tail(voting_queue)
      /\ UNCHANGED <<ancestors, blocks, roots, saved, tower, bank_forks, bank_root>>
  BY DEF SendVote, ledger, memory
<1>2. \A i \in DOMAIN voting_queue' :
         /\ i \in Nat /\ i + 1 \in DOMAIN voting_queue
         /\ voting_queue'[i] = voting_queue[i + 1]
         /\ \A j \in 1 .. i : j \in DOMAIN voting_queue' /\ j + 1 \in 1 .. i + 1
  <2>1. voting_queue \in Seq(VoteOps)
    BY DEF Inv, TypeOK
  <2> QED
    BY <1>1, <2>1, SMTT(30)
<1>3. QueueInv'
  BY <1>1, <1>2 DEF RootsInv, QueueInv
<1>4. RunInv'
  BY <1>1, <1>2 DEF RootsInv, RunInv
<1>5. LedgerInv'
  BY <1>1 DEF RootsInv, LedgerInv
<1> QED
  BY <1>1, <1>3, <1>4, <1>5 DEF RootsInv

(* What a crash leaves is on one fork with the stored tower's root. *)
LEMMA CrashRoots ==
    ASSUME Inv, RootsInv, Crash
    PROVE  RootsInv'
<1>1. /\ status = "up" /\ status' = "down"
      /\ voting_queue' = << >> /\ DOMAIN voting_queue' = {} /\ stored' = FALSE
      /\ bank_forks' = {}
      /\ UNCHANGED <<ancestors, saved>>
  BY SMTT(30) DEF Crash
<1>2. blocks' \subseteq blocks /\ roots' \subseteq roots /\ 0 \in roots'
  <2>1. PICK l \in SurvivingLedgers : blocks' = l[1] /\ roots' = l[2]
    BY DEF Crash
  <2>2. PICK b \in SUBSET blocks, last \in roots : l = <<b, {r \in roots : r <= last}>>
    BY <2>1, SMTT(30) DEF SurvivingLedgers
  <2>3. 0 \in roots /\ last \in Nat
    BY SlotsAreNaturals DEF RootsInv, LedgerInv, Inv, TypeOK
  <2>4. 0 <= last
    BY <2>3, SMTT(30)
  <2> QED
    BY <2>1, <2>2, <2>3, <2>4
<1>3. /\ IsTree(ancestors)
      /\ \A b \in blocks \cup roots : Seen(ancestors, b)
      /\ \A r, q \in roots : OneFork(ancestors, r, q)
      /\ tower.root \in Slots /\ roots \in SUBSET Slots
      /\ \A r \in roots : r \in Chain(ancestors, tower.root)
      /\ saved # NoTower => saved.root \in Chain(ancestors, tower.root)
  BY <1>1 DEF RootsInv, LedgerInv, RunInv, Kept, Inv, TypeOK
<1>4. saved # NoTower => \A r \in roots : OneFork(ancestors, r, saved.root)
  <2> SUFFICES ASSUME saved # NoTower, NEW r \in roots
               PROVE  OneFork(ancestors, r, saved.root)
    OBVIOUS
  <2>1. {r, saved.root} \in SUBSET Chain(ancestors, tower.root)
    BY <1>3
  <2>2. \A p, q \in {r, saved.root} : OneFork(ancestors, p, q)
    BY <1>3, <2>1, ChainIsOneFork
  <2> QED
    BY <2>2
<1>5. LedgerInv'
  BY <1>1, <1>2, <1>3, <1>4 DEF LedgerInv
<1>6. QueueInv' /\ RunInv'
  BY <1>1 DEF QueueInv, RunInv
<1> QED
  BY <1>1, <1>5, <1>6 DEF RootsInv

(* A restart moves the roots up their fork, to the end of replay. *)
LEMMA RestartRoots ==
    ASSUME Inv, RootsInv, NEW r \in Slots, Restart(r)
    PROVE  /\ RootsInv'
           /\ tower'.root = bank_root' \/ saved.root \notin blocks
<1>1. /\ status = "down" /\ status' = "up" /\ r \in ReplayedRoots /\ ~RestoreFails(r)
      /\ roots' = ReconciledRoots \cup {a \in Upto(r) : a > Max(ReconciledRoots)}
      /\ tower' = RestoredTower(r)
      /\ bank_root' = r
      /\ bank_forks' = {b \in blocks : r \in Chain(ancestors, b)}
      /\ UNCHANGED <<ancestors, blocks, saved, voting_queue, stored>>
  BY DEF Restart, Descends, Upto, Chain
<1>2. /\ IsTree(ancestors) /\ voting_queue = << >> /\ DOMAIN voting_queue = {} /\ stored = FALSE
      /\ \A b \in blocks : Seen(ancestors, b)
      /\ saved # NoTower => Recorded(ancestors, saved)
  BY <1>1, SMTT(30) DEF RootsInv, LedgerInv
<1>3. Seen(ancestors, r) /\ 0 \in roots' /\ r \in roots' /\ roots' \in SUBSET Chain(ancestors, r)
  BY <1>1, ReplayedFacts
<1>4. /\ Kept(ancestors, tower')
      /\ tower'.root = r \/ RootBelowVotes(ancestors, tower')
      /\ r \in Chain(ancestors, tower'.root)
      /\ saved # NoTower => saved.root \in Chain(ancestors, tower'.root)
      /\ tower'.root = r \/ saved.root \notin blocks
  BY <1>1, RestoredKept
<1>5. \A p, q \in roots' : OneFork(ancestors, p, q)
  BY <1>2, <1>3, ChainIsOneFork
<1>6. \A p \in roots' : p <= r /\ Seen(ancestors, p) /\ p \in Chain(ancestors, tower'.root)
  <2>1. tower'.root \in Slots
    BY <1>4 DEF Kept
  <2> QED
    BY <1>2, <1>3, <1>4, <2>1, ChainFacts
<1>7. LedgerInv'
  BY <1>1, <1>2, <1>3, <1>5, <1>6 DEF LedgerInv
<1>8. QueueInv'
  BY <1>1, <1>2 DEF QueueInv
<1>9. RunInv'
  BY <1>1, <1>2, <1>3, <1>4, <1>6 DEF RunInv
<1> QED
  BY <1>1, <1>2, <1>4, <1>7, <1>8, <1>9 DEF RootsInv

LEMMA AbortRoots ==
    ASSUME Inv, RootsInv, NEW r \in Slots, RestartAborts(r)
    PROVE  RootsInv'
<1>1. /\ status = "down" /\ status' = "aborted" /\ r \in ReplayedRoots
      /\ roots' = ReconciledRoots \cup {a \in Upto(r) : a > Max(ReconciledRoots)}
      /\ UNCHANGED <<ancestors, blocks, saved, bank_forks, voting_queue, stored>>
  BY DEF RestartAborts, memory
<1>2. /\ IsTree(ancestors) /\ voting_queue = << >> /\ DOMAIN voting_queue = {} /\ stored = FALSE
      /\ \A b \in blocks \cup bank_forks : Seen(ancestors, b)
      /\ saved # NoTower => Recorded(ancestors, saved)
  BY <1>1, SMTT(30) DEF RootsInv, LedgerInv
<1>3. Seen(ancestors, r) /\ 0 \in roots' /\ roots' \in SUBSET Chain(ancestors, r)
  BY <1>1, ReplayedFacts
<1>4. \A p, q \in roots' : OneFork(ancestors, p, q)
  BY <1>2, <1>3, ChainIsOneFork
<1>5. \A p \in roots' : Seen(ancestors, p)
  BY <1>2, <1>3, ChainFacts
<1>6. LedgerInv'
  BY <1>1, <1>2, <1>3, <1>4, <1>5 DEF LedgerInv
<1>7. QueueInv' /\ RunInv'
  BY <1>1, <1>2 DEF QueueInv, RunInv
<1> QED
  BY <1>1, <1>2, <1>6, <1>7 DEF RootsInv

LEMMA NextRoots == Inv /\ RootsInv /\ [Next]_vars => RootsInv'
<1> SUFFICES ASSUME Inv, RootsInv, [Next]_vars PROVE RootsInv'
  OBVIOUS
<1>1. CASE UNCHANGED vars
  BY <1>1 DEF RootsInv, LedgerInv, QueueInv, RunInv, vars, ledger, memory
<1> QED
  BY <1>1, ReplayRoots, VoteRoots, RefreshRoots, StoreRoots, SendRoots, CrashRoots,
     RestartRoots, AbortRoots DEF Next

LEMMA RootsInvHolds == Spec => [](Inv /\ RootsInv)
<1> QED  BY InitInv, NextInv, InitRoots, NextRoots, PTL DEF Spec

-----------------------------------------------------------------------------
(***************************************************************************)
(* The roots of blockstore, bank_forks and tower are on one fork and in    *)
(* order, for any number of crashes and whatever part of the ledger each   *)
(* of them loses (set_roots, BankForks::set_root,                          *)
(* reconcile_blockstore_roots_with_tower, load_frozen_forks).              *)
(***************************************************************************)
THEOREM RootsAreOK == Spec => []RootsOK
<1>1. Inv /\ RootsInv => RootsOK
  <2> SUFFICES ASSUME Inv, RootsInv PROVE RootsOK
    OBVIOUS
  <2>0. /\ IsTree(ancestors) /\ roots \in SUBSET Slots /\ Slots \subseteq Nat
        /\ \A r, q \in roots : OneFork(ancestors, r, q)
    BY SlotsAreNaturals DEF Inv, TypeOK, RootsInv, LedgerInv
  <2>1. ASSUME NEW r \in roots, NEW q \in roots, r <= q
        PROVE  r \in Upto(q)
    <3>1. r \in Slots /\ q \in Slots /\ r \in Nat /\ q \in Nat
      BY <2>0
    <3>2. CASE q \in Chain(ancestors, r)
      <4>1. q <= r
        BY <2>0, <3>1, <3>2, ChainFacts
      <4>2. q = r
        BY <2>1, <3>1, <4>1, SMTT(30)
      <4> QED
        BY <4>2 DEF Upto
    <3>3. CASE r \in Chain(ancestors, q)
      BY <3>3 DEF Chain, Upto
    <3> QED
      BY <2>0, <3>2, <3>3 DEF OneFork
  <2>2. ASSUME status = "up"
        PROVE  Max(roots) = bank_root /\ bank_root <= tower.root
    <3>1. /\ bank_root \in roots /\ tower.root \in Slots
          /\ \A r \in roots : r <= bank_root /\ r \in Chain(ancestors, tower.root)
      BY <2>2 DEF RootsInv, RunInv, Kept
    <3>2. Max(roots) \in roots /\ bank_root <= Max(roots)
      BY <2>0, <3>1, MaxOfSlots
    <3>3. Max(roots) \in Nat /\ bank_root \in Nat /\ Max(roots) <= bank_root
      BY <2>0, <3>1, <3>2
    <3>4. bank_root <= tower.root
      BY <2>0, <3>1, ChainFacts
    <3> QED
      BY <3>2, <3>3, <3>4, SMTT(30)
  <2> QED
    BY <2>1, <2>2 DEF RootsOK, RootsOnOneFork, RootsNotAheadOfTower
<1> QED  BY <1>1, RootsInvHolds, PTL

(***************************************************************************)
(* After any restart the tower's root is the root of bank_forks, unless    *)
(* the crash lost the block of the tower's root: the reconciliation of     *)
(* reconcile_blockstore_roots_with_tower is enough.                        *)
(***************************************************************************)
THEOREM RestartsAgree == Spec => RestartAgreesOnRoot
<1>1. Inv /\ RootsInv /\ [Next]_vars =>
        [status = "down" /\ status' = "up" =>
           tower'.root = bank_root' \/ saved.root \notin blocks]_vars
  <2> SUFFICES ASSUME Inv, RootsInv, Next, status = "down", status' = "up"
               PROVE  tower'.root = bank_root' \/ saved.root \notin blocks
    OBVIOUS
  <2>1. PICK r \in Slots : Restart(r)
    BY DEF Next, ReplayBank, handle_votable_bank, refresh_last_vote, StoreTower, SendVote,
           Crash, RestartAborts
  <2> QED
    BY <2>1, RestartRoots
<1> QED  BY <1>1, RootsInvHolds, PTL DEF Spec, RestartAgreesOnRoot
=============================================================================
