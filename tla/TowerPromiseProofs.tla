------------------------- MODULE TowerPromiseProofs -------------------------
(***************************************************************************)
(* Tower implements LockoutPromise: through any number of crashes, lost    *)
(* parts of the ledger and restarts, a validator never sends a vote that a *)
(* lockout it has shown to the cluster forbids.  This needs that every     *)
(* vote recorded in the tower is also queued for sending, so Signable is   *)
(* {TRUE}; without it the promise is broken (README, findings).            *)
(*                                                                         *)
(* The argument.  A tower holds to a lockout when one of its votes, its    *)
(* last vote or its root accounts for it.  Recording a vote and restoring  *)
(* a tower keep a tower holding to whatever it held to.  The stored tower, *)
(* each queued new vote and the tower in memory all hold to every lockout  *)
(* that has been sent, and to those sent before them in the queue; a       *)
(* refreshed vote repeats what the operation before it shows.  When a vote *)
(* is sent, the stored tower has the same last vote, and so every lockout  *)
(* it holds to is on that vote's fork or has expired.                      *)
(***************************************************************************)
EXTENDS TowerRootsProofs

USE Zenon

(***************************************************************************)
(* Tower t holds to a lockout of count c on slot l: a vote of t on l's     *)
(* fork lasts as long, or t's last vote is past it, or t's root is on its  *)
(* fork or past it.                                                        *)
(***************************************************************************)
Holds(tree, t, l, c) ==
    \/ \E i \in DOMAIN t.votes :
          /\ l \in Chain(tree, t.votes[i].slot)
          /\ l + lockout(c) <= last_locked_out_slot(t.votes[i])
    \/ l + lockout(c) < last_voted_slot(t.votes)
    \/ l \in Chain(tree, t.root)
    \/ l + lockout(c) < t.root

HoldsPromises(tree, sent, t) == \A l \in Slots : sent[l] > 0 => Holds(tree, t, l, sent[l])

HoldsVotes(tree, t, u) ==
    \A i \in DOMAIN u.votes : Holds(tree, t, u.votes[i].slot, u.votes[i].confirmation_count)

(* What u shows, t shows too. *)
Repeats(t, u) ==
    /\ \A i \in DOMAIN u.votes : \E j \in DOMAIN t.votes : t.votes[j] = u.votes[i]
    /\ u.votes # << >> => last_voted_slot(u.votes) = last_voted_slot(t.votes)

(* The tower shown just before operation i of the queue. *)
Before(i) == IF i = 1 THEN saved ELSE voting_queue[i - 1].tower

StoredInv ==
    /\ saved = NoTower => \A l \in Slots : promised[l] = 0
    /\ saved # NoTower => HoldsPromises(ancestors, promised, saved)
    /\ stored => /\ voting_queue # << >>
                 /\ voting_queue[1].push /\ saved = voting_queue[1].tower

QueuedInv ==
    \A i \in DOMAIN voting_queue :
        /\ voting_queue[i].tower.votes # << >>
        /\ ~voting_queue[i].push => Repeats(Before(i), voting_queue[i].tower)
        /\ voting_queue[i].push =>
              /\ HoldsPromises(ancestors, promised, voting_queue[i].tower)
              /\ \A j \in 1 .. i - 1 :
                    HoldsVotes(ancestors, voting_queue[i].tower, voting_queue[j].tower)

MemoryInv ==
    status = "up" =>
        /\ HoldsPromises(ancestors, promised, tower)
        /\ \A i \in DOMAIN voting_queue : HoldsVotes(ancestors, tower, voting_queue[i].tower)
        /\ Repeats(Before(Len(voting_queue) + 1), tower)

(* The inductive invariant, together with Inv and RootsInv. *)
PromiseInv == StoredInv /\ QueuedInv /\ MemoryInv

-----------------------------------------------------------------------------
(* The numbers that Holds compares. *)
LEMMA LockoutNumbers ==
    /\ \A c \in Counts : lockout(c) \in Nat
    /\ \A c, d \in Counts : c <= d => lockout(c) <= lockout(d)
    /\ Counts \subseteq Nat
    /\ Slots \subseteq Nat
  BY LockoutAssumption, HistoryAssumption, SlotsAreNaturals, SMTT(30) DEF Counts

LEMMA TowerNumbers ==
    ASSUME NEW t, GoodTower(t)
    PROVE  /\ t.votes \in Seq(LockoutOn(Slots))
           /\ last_voted_slot(t.votes) \in Int
           /\ \A i \in DOMAIN t.votes :
                 /\ t.votes[i].slot \in Slots /\ t.votes[i].slot \in Nat
                 /\ t.votes[i].confirmation_count \in Counts
                 /\ lockout(t.votes[i].confirmation_count) \in Nat
                 /\ last_locked_out_slot(t.votes[i]) =
                       t.votes[i].slot + lockout(t.votes[i].confirmation_count)
                 /\ t.votes[i].slot \in VotedSlots(t.votes)
<1>1. t.votes \in Seq(LockoutOn(Slots))
  BY DEF GoodTower, Towers
<1>2. last_voted_slot(t.votes) \in Int
  <2>1. last_voted_slot(t.votes) \in Slots \cup {NoSlot}
    BY <1>1, VotedSlotsFacts
  <2>2. Slots \subseteq Int /\ NoSlot \in Int
    BY SlotsAreNaturals, SMTT(30) DEF NoSlot
  <2> QED
    BY <2>1, <2>2
<1>3. ASSUME NEW i \in DOMAIN t.votes
      PROVE  /\ t.votes[i].slot \in Slots /\ t.votes[i].slot \in Nat
             /\ t.votes[i].confirmation_count \in Counts
             /\ lockout(t.votes[i].confirmation_count) \in Nat
             /\ t.votes[i].slot \in VotedSlots(t.votes)
  <2>1. t.votes[i].slot \in Slots /\ t.votes[i].confirmation_count \in Counts
    BY <1>1, StackElement
  <2> QED
    BY <2>1, LockoutNumbers DEF VotedSlots
<1> QED
  BY <1>1, <1>2, <1>3 DEF last_locked_out_slot

(* What a tower holds to, it still does when the tree has grown. *)
LEMMA HoldsGrows ==
    ASSUME NEW tree, NEW new, Grown(tree, new), NEW t, GoodTower(t), Kept(tree, t)
    PROVE  \A l, c : Holds(tree, t, l, c) => Holds(new, t, l, c)
<1>1. \A s \in Slots : Seen(tree, s) => Chain(new, s) = Chain(tree, s)
  BY TowerGrows, SMTT(30)
<1>2. \A i \in DOMAIN t.votes : Chain(new, t.votes[i].slot) = Chain(tree, t.votes[i].slot)
  BY <1>1, TowerNumbers DEF Kept
<1>3. Chain(new, t.root) = Chain(tree, t.root)
  BY <1>1 DEF Kept
<1> QED
  BY <1>2, <1>3 DEF Holds

(* Only the votes and the root matter, not the stray slot. *)
LEMMA HoldsByVotes ==
    ASSUME NEW t, NEW u, t.votes = u.votes, t.root = u.root, NEW tree
    PROVE  \A l, c : Holds(tree, t, l, c) <=> Holds(tree, u, l, c)
  BY DEF Holds

(* A tower holds to the votes it repeats, its own among them. *)
LEMMA RepeatsHolds ==
    ASSUME NEW tree, NEW t, NEW u, GoodTower(u), Repeats(t, u)
    PROVE  HoldsVotes(tree, t, u)
<1> SUFFICES ASSUME NEW i \in DOMAIN u.votes
             PROVE  Holds(tree, t, u.votes[i].slot, u.votes[i].confirmation_count)
  BY DEF HoldsVotes
<1>1. PICK j \in DOMAIN t.votes : t.votes[j] = u.votes[i]
  BY DEF Repeats
<1>2. u.votes[i].slot \in Chain(tree, u.votes[i].slot)
  BY DEF Chain
<1>3. u.votes[i].slot + lockout(u.votes[i].confirmation_count) <= last_locked_out_slot(u.votes[i])
  <2>1. /\ u.votes[i].slot \in Nat /\ lockout(u.votes[i].confirmation_count) \in Nat
        /\ last_locked_out_slot(u.votes[i]) =
             u.votes[i].slot + lockout(u.votes[i].confirmation_count)
    BY TowerNumbers
  <2> QED
    BY <2>1, SMTT(30)
<1> QED
  BY <1>1, <1>2, <1>3 DEF Holds

LEMMA RepeatsOrder ==
    /\ \A t, u : t.votes = u.votes => Repeats(t, u)
    /\ \A t, u, v : Repeats(t, u) /\ Repeats(u, v) /\ u.votes # << >> => Repeats(t, v)
  BY SMTT(30) DEF Repeats

(* Sending t's stack promises what its votes show, and no less than before. *)
LEMMA PromiseShows ==
    ASSUME promised \in [Slots -> Counts], NEW t, GoodTower(t)
    PROVE  \A l \in Slots :
              /\ Promise(t)[l] \in Nat /\ promised[l] \in Nat
              /\ promised[l] <= Promise(t)[l]
              /\ \/ Promise(t)[l] = promised[l]
                 \/ \E i \in DOMAIN t.votes : /\ t.votes[i].slot = l
                                              /\ t.votes[i].confirmation_count = Promise(t)[l]
              /\ \A i \in DOMAIN t.votes :
                    t.votes[i].slot = l => t.votes[i].confirmation_count <= Promise(t)[l]
<1> SUFFICES ASSUME NEW l \in Slots
             PROVE  /\ Promise(t)[l] \in Nat /\ promised[l] \in Nat
                    /\ promised[l] <= Promise(t)[l]
                    /\ \/ Promise(t)[l] = promised[l]
                       \/ \E i \in DOMAIN t.votes : /\ t.votes[i].slot = l
                                                    /\ t.votes[i].confirmation_count = Promise(t)[l]
                    /\ \A i \in DOMAIN t.votes :
                          t.votes[i].slot = l => t.votes[i].confirmation_count <= Promise(t)[l]
  OBVIOUS
<1> DEFINE M == {promised[l]} \cup
                {t.votes[i].confirmation_count : i \in {j \in DOMAIN t.votes : t.votes[j].slot = l}}
<1>1. M \in SUBSET Counts /\ M # {}
  BY TowerNumbers, SMTT(30)
<1>2. Max(M) \in M /\ \A y \in M : y <= Max(M)
  <2>1. MAX_LOCKOUT_HISTORY \in Nat /\ Counts = 0 .. MAX_LOCKOUT_HISTORY
    BY HistoryAssumption DEF Counts
  <2> HIDE DEF M
  <2> QED
    BY <1>1, <2>1, MaxOfBounded
<1>3. Promise(t)[l] = Max(M)
  BY DEF Promise
<1>4. Max(M) \in Nat /\ promised[l] \in Nat
  BY <1>1, <1>2, LockoutNumbers
<1> QED
  BY <1>2, <1>3, <1>4

(* A tower that holds to the votes of t and to what was promised before t   *)
(* was sent holds to what is promised afterwards.                           *)
LEMMA HoldsWhatIsSent ==
    ASSUME promised \in [Slots -> Counts], NEW t, GoodTower(t), NEW u,
           HoldsPromises(ancestors, promised, u), HoldsVotes(ancestors, u, t)
    PROVE  HoldsPromises(ancestors, Promise(t), u)
<1> SUFFICES ASSUME NEW l \in Slots, Promise(t)[l] > 0
             PROVE  Holds(ancestors, u, l, Promise(t)[l])
  BY DEF HoldsPromises
<1>1. CASE Promise(t)[l] = promised[l]
  BY <1>1 DEF HoldsPromises
<1>2. CASE \E i \in DOMAIN t.votes : /\ t.votes[i].slot = l
                                     /\ t.votes[i].confirmation_count = Promise(t)[l]
  BY <1>2 DEF HoldsVotes
<1> QED
  BY <1>1, <1>2, PromiseShows

(***************************************************************************)
(* Recording a vote for a selected bank keeps every lockout the tower held *)
(* to: a vote is kept, or rooted, or the new slot is past its lockout.     *)
(***************************************************************************)
LEMMA VoteHolds ==
    ASSUME Inv, RootsInv, status = "up", NEW h \in Slots, select_vote(h),
           NEW voted, voted = record_bank_vote(tower, h),
           NEW l \in Slots, NEW c \in Counts, Holds(ancestors, tower, l, c)
    PROVE  Holds(ancestors, voted, l, c)
<1> DEFINE end == l + lockout(c)
<1>0. /\ GoodTower(tower) /\ GoodTower(voted) /\ IsTree(ancestors) /\ Kept(ancestors, tower)
      /\ Recorded(ancestors, voted)
      /\ last_voted_slot(voted.votes) = h
      /\ tower.root \in Chain(ancestors, voted.root)
  BY VoteRecorded, InvGoodTowers DEF GoodTowers, RootsInv, LedgerInv, RunInv
<1>1. end \in Nat /\ h \in Nat
  BY LockoutNumbers, SMTT(30)
<1> HIDE DEF end
<1>2. ~(h <= last_voted_slot(tower.votes)) /\ last_voted_slot(tower.votes) \in Int
  <2>1. last_voted_slot(tower.votes) \in Int
    BY <1>0, TowerNumbers
  <2>2. h > last_voted_slot(tower.votes)
    BY DEF select_vote, is_locked_out, is_recent
  <2> QED
    BY <1>1, <2>1, <2>2, SMTT(30)
<1>3. \A i \in DOMAIN tower.votes :
         \/ \E j \in DOMAIN voted.votes :
               /\ voted.votes[j].slot = tower.votes[i].slot
               /\ voted.votes[j].confirmation_count >= tower.votes[i].confirmation_count
         \/ voted.root = tower.votes[i].slot
         \/ ~is_locked_out_at_slot(tower.votes[i], h)
  <2> DEFINE new == process_next_vote_slot(tower.votes, tower.root, h)
  <2>1. voted = [tower EXCEPT !.votes = new.votes, !.root = new.root, !.last_vote = h]
    BY DEF record_bank_vote, Simulate
  <2>2. \A i \in DOMAIN tower.votes :
           \/ \E j \in DOMAIN new.votes :
                 /\ new.votes[j].slot = tower.votes[i].slot
                 /\ new.votes[j].confirmation_count >= tower.votes[i].confirmation_count
           \/ new.root = tower.votes[i].slot
           \/ ~is_locked_out_at_slot(tower.votes[i], h)
    BY <1>0, <1>2, SlotsAreNaturals, RecordVoteKeeps, SMTT(30) DEF GoodTower, Towers
  <2> HIDE DEF new
  <2>3. voted.votes = new.votes /\ voted.root = new.root
    BY <1>0, <2>1 DEF GoodTower, Towers
  <2> QED
    BY <2>2, <2>3
<1>4. CASE \E i \in DOMAIN tower.votes :
              /\ l \in Chain(ancestors, tower.votes[i].slot)
              /\ end <= last_locked_out_slot(tower.votes[i])
  <2>1. PICK i \in DOMAIN tower.votes :
              /\ l \in Chain(ancestors, tower.votes[i].slot)
              /\ end <= last_locked_out_slot(tower.votes[i])
    BY <1>4
  <2>2. /\ tower.votes[i].slot \in Nat /\ tower.votes[i].confirmation_count \in Counts
        /\ lockout(tower.votes[i].confirmation_count) \in Nat
        /\ last_locked_out_slot(tower.votes[i]) =
             tower.votes[i].slot + lockout(tower.votes[i].confirmation_count)
    BY <1>0, TowerNumbers
  <2>3. CASE \E j \in DOMAIN voted.votes :
                /\ voted.votes[j].slot = tower.votes[i].slot
                /\ voted.votes[j].confirmation_count >= tower.votes[i].confirmation_count
    <3>1. PICK j \in DOMAIN voted.votes :
                /\ voted.votes[j].slot = tower.votes[i].slot
                /\ voted.votes[j].confirmation_count >= tower.votes[i].confirmation_count
      BY <2>3
    <3>2. /\ voted.votes[j].confirmation_count \in Counts
          /\ lockout(voted.votes[j].confirmation_count) \in Nat
          /\ last_locked_out_slot(voted.votes[j]) =
               voted.votes[j].slot + lockout(voted.votes[j].confirmation_count)
      BY <1>0, TowerNumbers
    <3>3. tower.votes[i].confirmation_count <= voted.votes[j].confirmation_count
      BY <2>2, <3>1, <3>2, LockoutNumbers
    <3>4. lockout(tower.votes[i].confirmation_count) <= lockout(voted.votes[j].confirmation_count)
      BY <2>2, <3>2, <3>3, LockoutNumbers
    <3>5. end <= last_locked_out_slot(voted.votes[j])
      BY <1>1, <2>1, <2>2, <3>1, <3>2, <3>4, SMTT(30)
    <3> QED
      BY <2>1, <3>1, <3>5 DEF Holds, end
  <2>4. CASE voted.root = tower.votes[i].slot
    BY <2>1, <2>4 DEF Holds
  <2>5. CASE ~is_locked_out_at_slot(tower.votes[i], h)
    <3>1. ~(last_locked_out_slot(tower.votes[i]) >= h)
      BY <2>5 DEF is_locked_out_at_slot
    <3>2. end < h
      BY <1>1, <2>1, <2>2, <3>1, SMTT(30)
    <3> QED
      BY <1>0, <3>2 DEF Holds, end
  <2> QED
    BY <1>3, <2>3, <2>4, <2>5
<1>5. CASE end < last_voted_slot(tower.votes)
  <2>1. end < h
    BY <1>1, <1>2, <1>5, SMTT(30)
  <2> QED
    BY <1>0, <2>1 DEF Holds, end
<1>6. /\ tower.root \in Slots /\ voted.root \in Slots
      /\ tower.root \in Nat /\ voted.root \in Nat /\ tower.root <= voted.root
  <2>1. tower.root \in Slots /\ voted.root \in Slots
    BY <1>0 DEF Kept, Recorded
  <2> QED
    BY <1>0, <2>1, ChainFacts, SlotsAreNaturals
<1>7. CASE l \in Chain(ancestors, tower.root)
  BY <1>0, <1>6, <1>7, ChainFacts DEF Holds
<1>8. CASE end < tower.root
  <2>1. end < voted.root
    BY <1>1, <1>6, <1>8, SMTT(30)
  <2> QED
    BY <2>1 DEF Holds, end
<1> QED
  BY <1>4, <1>5, <1>7, <1>8 DEF Holds, end

(* The slot that anchors a restored tower is on the chain of its root. *)
LEMMA AnchorOnChain ==
    ASSUME Inv, RootsInv, status = "down", saved # NoTower,
           NEW r \in Slots, r \in ReplayedRoots, ~RestoreFails(r),
           NEW n \in Anchors(saved, HistoryFor(saved, r)), NEW i \in DOMAIN saved.votes, n = i + 1
    PROVE  saved.votes[i].slot \in Chain(ancestors, RestoredTower(r).root)
<1> DEFINE history == HistoryFor(saved, r)
           t == RestoredTower(r)
<1>0. /\ IsTree(ancestors) /\ GoodTower(saved) /\ Kept(ancestors, t)
      /\ r \in Chain(ancestors, t.root) /\ saved.root \in Chain(ancestors, t.root)
  BY RestoredKept, InvGoodTowers DEF GoodTowers, RootsInv, LedgerInv
<1>1. saved.votes[i].slot \in Slots /\ saved.votes \in Seq(LockoutOn(Slots))
  BY <1>0, TowerNumbers
<1>2. SlotsInTower(saved)[n] = saved.votes[i].slot
  BY <1>1, SMTT(30) DEF SlotsInTower
<1>3. check(history, saved.votes[i].slot) = "Found"
  BY <1>2 DEF Anchors, Checks
<1>4. saved.votes[i].slot \in history.slots
  <2> HIDE DEF history
  <2> QED
    BY <1>3 DEF check
<1>5. history.slots \subseteq Chain(ancestors, r) \cup {saved.root}
  BY DEF HistoryFor, SlotHistory, Add, Upto, Chain
<1> HIDE DEF t, history
<1>6. CASE saved.votes[i].slot \in Chain(ancestors, r)
  <2>1. t.root \in Slots
    BY <1>0 DEF Kept
  <2> QED
    BY <1>0, <1>1, <1>6, <2>1, ChainFacts DEF t
<1>7. CASE saved.votes[i].slot = saved.root
  BY <1>0, <1>7 DEF t
<1> QED
  BY <1>4, <1>5, <1>6, <1>7

(***************************************************************************)
(* A restored tower holds to every lockout the stored one held to.  A vote *)
(* it drops is on the chain of its root, since the anchor is.              *)
(***************************************************************************)
LEMMA RestoreHolds ==
    ASSUME Inv, RootsInv, status = "down", saved # NoTower,
           NEW r \in Slots, r \in ReplayedRoots, ~RestoreFails(r),
           NEW l \in Slots, NEW c \in Counts, Holds(ancestors, saved, l, c)
    PROVE  Holds(ancestors, RestoredTower(r), l, c)
<1> DEFINE t == RestoredTower(r)
           end == l + lockout(c)
<1>0. /\ IsTree(ancestors) /\ GoodTower(saved) /\ GoodTower(t)
      /\ Recorded(ancestors, saved) /\ Kept(ancestors, t)
      /\ saved.root \in Chain(ancestors, t.root)
  BY RestoredKept, InvGoodTowers DEF GoodTowers, RootsInv, LedgerInv
<1>1. PICK n \in 1 .. Len(saved.votes) + 1 :
           /\ n \in Anchors(saved, HistoryFor(saved, r))
           /\ t.votes = SubSeq(saved.votes, n, Len(saved.votes))
  BY RestoredShape, SMTT(30)
<1>2. /\ saved.votes \in Seq(LockoutOn(Slots))
      /\ Len(t.votes) = Len(saved.votes) - n + 1
      /\ t.votes # << >> => last_voted_slot(t.votes) = last_voted_slot(saved.votes)
      /\ t.votes # << >> \/ n = Len(saved.votes) + 1
      /\ \A i \in DOMAIN t.votes : i + n - 1 \in DOMAIN saved.votes /\ t.votes[i] = saved.votes[i + n - 1]
      /\ t.votes \in Seq(LockoutOn(Slots))
  <2>1. saved.votes \in Seq(LockoutOn(Slots))
    BY <1>0, TowerNumbers
  <2> DEFINE kept == t.votes
             votes == saved.votes
  <2>2. /\ kept = SubSeq(votes, n, Len(votes)) /\ n \in 1 .. Len(votes) + 1
        /\ votes \in Seq(LockoutOn(Slots))
    BY <1>1, <2>1
  <2> HIDE DEF kept, votes
  <2>3. /\ kept \in Seq(LockoutOn(Slots)) /\ Len(kept) = Len(votes) - n + 1
        /\ \A i \in DOMAIN kept : i + n - 1 \in DOMAIN votes /\ kept[i] = votes[i + n - 1]
        /\ kept # << >> => last_voted_slot(kept) = last_voted_slot(votes)
        /\ kept # << >> \/ n = Len(votes) + 1
    BY <2>2, SuffixSlots
  <2> QED
    BY <2>1, <2>3 DEF kept, votes
<1>3. ASSUME NEW i \in DOMAIN saved.votes, i < n
      PROVE  saved.votes[i].slot \in Chain(ancestors, t.root)
  <2>0. /\ n - 1 \in DOMAIN saved.votes /\ n = (n - 1) + 1
        /\ i = n - 1 \/ i < n - 1
    <3>1. DOMAIN saved.votes = 1 .. Len(saved.votes) /\ Len(saved.votes) \in Nat
      BY <1>2, SMTT(30)
    <3> QED
      BY <1>3, <3>1, SMTT(30)
  <2>1. saved.votes[n - 1].slot \in Chain(ancestors, t.root)
    BY <1>1, <2>0, AnchorOnChain
  <2>2. CASE i = n - 1
    BY <2>1, <2>2
  <2>3. CASE i < n - 1
    <3>1. /\ saved.votes[i].slot \in Slots /\ saved.votes[n - 1].slot \in Slots
          /\ saved.votes[i].slot \in Nat /\ saved.votes[n - 1].slot \in Nat
          /\ saved.votes[i].slot \in VotedSlots(saved.votes)
          /\ saved.votes[n - 1].slot \in VotedSlots(saved.votes)
      BY <1>0, <2>0, TowerNumbers
    <3>2. saved.votes[i].slot < saved.votes[n - 1].slot
      BY <1>0, <2>0, <2>3 DEF GoodTower, StackOK
    <3>3. saved.votes[i].slot <= saved.votes[n - 1].slot
      BY <3>1, <3>2, SMTT(30)
    <3>4. saved.votes # << >> /\ last_voted_slot(saved.votes) \in Slots
      BY <1>0, <1>2, VotedSlotsFacts DEF Recorded
    <3>5. saved.votes[i].slot \in Chain(ancestors, saved.votes[n - 1].slot)
      BY <1>0, <3>1, <3>3, <3>4, ChainFacts, SMTT(30) DEF Recorded, Kept
    <3>6. t.root \in Slots
      BY <1>0 DEF Kept
    <3> HIDE DEF t
    <3> QED
      BY <1>0, <2>1, <3>1, <3>5, <3>6, ChainFacts, SMTT(30)
  <2> QED
    BY <2>0, <2>2, <2>3
<1>4. end \in Nat /\ t.root \in Slots /\ saved.root \in Slots /\ t.root \in Nat /\ saved.root \in Nat
  <2>1. t.root \in Slots /\ saved.root \in Slots
    BY <1>0 DEF Kept, Recorded
  <2>2. lockout(c) \in Nat /\ l \in Nat
    BY LockoutNumbers
  <2>3. end \in Nat
    BY <2>2, SMTT(30)
  <2> HIDE DEF t, end
  <2> QED
    BY <2>1, <2>3, LockoutNumbers
<1> HIDE DEF t, end
<1>5. CASE \E i \in DOMAIN saved.votes :
              /\ l \in Chain(ancestors, saved.votes[i].slot)
              /\ end <= last_locked_out_slot(saved.votes[i])
  <2>1. PICK i \in DOMAIN saved.votes :
              /\ l \in Chain(ancestors, saved.votes[i].slot)
              /\ end <= last_locked_out_slot(saved.votes[i])
    BY <1>5
  <2>2. CASE i < n
    <3>1. saved.votes[i].slot \in Chain(ancestors, t.root) /\ saved.votes[i].slot \in Slots
      BY <1>0, <1>3, <2>2, TowerNumbers
    <3>2. l \in Chain(ancestors, t.root)
      BY <1>0, <1>4, <2>1, <3>1, ChainFacts, SMTT(30)
    <3> QED
      BY <3>2 DEF Holds, t
  <2>3. CASE ~(i < n)
    <3>1. i - n + 1 \in DOMAIN t.votes /\ (i - n + 1) + n - 1 = i
      BY <1>2, <2>3, SMTT(30)
    <3>2. t.votes[i - n + 1] = saved.votes[i]
      BY <1>2, <3>1
    <3> QED
      BY <2>1, <3>1, <3>2 DEF Holds, t, end
  <2> QED
    BY <2>2, <2>3
<1>6. CASE end < last_voted_slot(saved.votes)
  <2>1. CASE t.votes # << >>
    BY <1>2, <1>6, <2>1 DEF Holds, t, end
  <2>2. CASE t.votes = << >>
    <3>1. saved.votes # << >> /\ Len(saved.votes) \in DOMAIN saved.votes /\ Len(saved.votes) < n
      BY <1>0, <1>2, <2>2, SMTT(30) DEF Recorded
    <3>2. last_voted_slot(saved.votes) = saved.votes[Len(saved.votes)].slot
      BY <3>1 DEF last_voted_slot
    <3>3. /\ saved.votes[Len(saved.votes)].slot \in Chain(ancestors, t.root)
          /\ saved.votes[Len(saved.votes)].slot \in Slots
          /\ saved.votes[Len(saved.votes)].slot \in Nat
      BY <1>0, <1>3, <3>1, TowerNumbers
    <3>4. saved.votes[Len(saved.votes)].slot <= t.root
      BY <1>0, <1>4, <3>3, ChainFacts
    <3>5. end < t.root
      BY <1>4, <1>6, <3>2, <3>3, <3>4, SMTT(30)
    <3> QED
      BY <3>5 DEF Holds, t, end
  <2> QED
    BY <2>1, <2>2
<1>7. CASE l \in Chain(ancestors, saved.root)
  <2>1. l \in Chain(ancestors, t.root)
    BY <1>0, <1>4, <1>7, ChainFacts
  <2> QED
    BY <2>1 DEF Holds, t
<1>8. CASE end < saved.root
  <2>1. saved.root <= t.root
    BY <1>0, <1>4, ChainFacts
  <2>2. end < t.root
    BY <1>4, <1>8, <2>1, SMTT(30)
  <2> QED
    BY <2>2 DEF Holds, t, end
<1> QED
  BY <1>5, <1>6, <1>7, <1>8 DEF Holds, end

-----------------------------------------------------------------------------
LEMMA InitPromise == Init => PromiseInv /\ Promises!Init
<1> SUFFICES ASSUME Init PROVE PromiseInv /\ Promises!Init
  OBVIOUS
<1>1. /\ saved = NoTower /\ stored = FALSE /\ voting_queue = << >> /\ DOMAIN voting_queue = {}
      /\ Len(voting_queue) = 0 /\ tower.votes = << >> /\ DOMAIN tower.votes = {}
      /\ \A l \in Slots : promised[l] = 0
  BY SMTT(30) DEF Init, NewTower, NoTower
<1>2. Repeats(saved, tower) /\ Before(Len(voting_queue) + 1) = saved
  BY <1>1, SMTT(30) DEF Repeats, Before
<1>3. StoredInv /\ QueuedInv
  BY <1>1 DEF StoredInv, QueuedInv
<1>4. MemoryInv
  BY <1>1, <1>2, SMTT(30) DEF MemoryInv, HoldsPromises
<1>5. Promises!Init
  BY DEF Init, Promises!Init
<1> QED
  BY <1>3, <1>4, <1>5 DEF PromiseInv

(* The queue as a sequence. *)
LEMMA QueueFacts ==
    ASSUME Inv
    PROVE  /\ voting_queue \in Seq(VoteOps) /\ Len(voting_queue) \in Nat
           /\ DOMAIN voting_queue = 1 .. Len(voting_queue)
           /\ voting_queue # << >> => /\ 1 \in DOMAIN voting_queue
                                      /\ Len(voting_queue) \in DOMAIN voting_queue
                                      /\ Head(voting_queue) = voting_queue[1]
           /\ voting_queue = << >> => Len(voting_queue) = 0
<1>1. voting_queue \in Seq(VoteOps)
  BY DEF Inv, TypeOK
<1>2. voting_queue # << >> => /\ 1 \in DOMAIN voting_queue
                              /\ Len(voting_queue) \in DOMAIN voting_queue
                              /\ Head(voting_queue) = voting_queue[1]
  BY <1>1, SMTT(30)
<1> QED
  BY <1>1, <1>2, SMTT(30)

(* A replayed block is a block added to the promised tree, or known to it. *)
LEMMA ReplayPromise ==
    ASSUME Inv, RootsInv, PromiseInv, NEW s \in Slots, NEW parent \in Slots, ReplayBank(s, parent)
    PROVE  /\ PromiseInv'
           /\ Promises!Next \/ UNCHANGED <<ancestors, promised>>
<1>1. /\ status = "up" /\ parent < s
      /\ ancestors[s] \in {{}, Upto(parent)}
      /\ ancestors' = [ancestors EXCEPT ![s] = Upto(parent)]
      /\ UNCHANGED <<saved, status, tower, voting_queue, stored, promised>>
  BY DEF ReplayBank
<1>2. Grown(ancestors, ancestors')
  BY ReplayRoots
<1>3. \A t : GoodTower(t) /\ Kept(ancestors, t) =>
         \A l, c : Holds(ancestors, t, l, c) => Holds(ancestors', t, l, c)
  BY <1>2, HoldsGrows
<1>4. /\ GoodTower(saved) /\ (saved # NoTower => Kept(ancestors, saved))
      /\ GoodTower(tower) /\ Kept(ancestors, tower)
      /\ \A i \in DOMAIN voting_queue :
            GoodTower(voting_queue[i].tower) /\ Kept(ancestors, voting_queue[i].tower)
  BY <1>1, InvGoodTowers DEF GoodTowers, RootsInv, RunInv, QueueInv, Recorded
<1>5. StoredInv'
  BY <1>1, <1>3, <1>4 DEF PromiseInv, StoredInv, HoldsPromises
<1>6. QueuedInv'
  <2>1. \A i : Before(i)' = Before(i)
    BY <1>1 DEF Before
  <2> SUFFICES ASSUME NEW i \in DOMAIN voting_queue
               PROVE  /\ voting_queue[i].tower.votes # << >>
                      /\ ~voting_queue[i].push => Repeats(Before(i), voting_queue[i].tower)
                      /\ voting_queue[i].push =>
                            /\ HoldsPromises(ancestors', promised, voting_queue[i].tower)
                            /\ \A j \in 1 .. i - 1 :
                                  HoldsVotes(ancestors', voting_queue[i].tower, voting_queue[j].tower)
    BY <1>1, <2>1 DEF QueuedInv
  <2> QED
    BY <1>3, <1>4 DEF PromiseInv, QueuedInv, HoldsPromises, HoldsVotes
<1>7. MemoryInv'
  <2>1. \A i : Before(i)' = Before(i)
    BY <1>1 DEF Before
  <2>2. /\ HoldsPromises(ancestors', promised, tower)
        /\ \A i \in DOMAIN voting_queue : HoldsVotes(ancestors', tower, voting_queue[i].tower)
    BY <1>1, <1>3, <1>4 DEF PromiseInv, MemoryInv, HoldsPromises, HoldsVotes
  <2> QED
    BY <1>1, <2>1, <2>2 DEF PromiseInv, MemoryInv
<1>8. CASE ancestors[s] = {}
  <2>1. Promises!Grow(s, parent)
    BY <1>1, <1>8 DEF Promises!Grow, Upto
  <2> QED
    BY <1>5, <1>6, <1>7, <2>1 DEF PromiseInv, Promises!Next
<1>9. CASE ancestors[s] = Upto(parent)
  <2>1. ancestors \in [Slots -> SUBSET Slots]
    BY DEF Inv, TypeOK
  <2>2. UNCHANGED ancestors
    BY <1>1, <1>9, <2>1
  <2> QED
    BY <1>1, <1>5, <1>6, <1>7, <2>2 DEF PromiseInv
<1> QED
  BY <1>1, <1>8, <1>9

(* A vote is recorded and queued: the new tower holds to all the old held to. *)
LEMMA VotePromise ==
    ASSUME Inv, RootsInv, PromiseInv, NEW h \in Slots, handle_votable_bank(h, TRUE)
    PROVE  PromiseInv' /\ UNCHANGED <<ancestors, promised>>
<1> DEFINE voted == record_bank_vote(tower, h)
           op == PushVote(voted)
<1>1. /\ status = "up" /\ select_vote(h)
      /\ tower' = voted
      /\ voting_queue' = Append(voting_queue, op)
      /\ UNCHANGED <<ancestors, saved, status, stored, promised>>
  BY DEF handle_votable_bank
<1>2. GoodTower(voted) /\ voted.votes # << >>
  BY <1>1, VoteRecorded DEF Recorded
<1>3. /\ op.push = TRUE
      /\ op.tower.votes = voted.votes /\ op.tower.root = voted.root
  BY <1>2, SavedTowerKeeps DEF PushVote
<1>4. \A l \in Slots, c \in Counts : Holds(ancestors, tower, l, c) =>
         Holds(ancestors, voted, l, c) /\ Holds(ancestors, op.tower, l, c)
  <2>1. \A l \in Slots, c \in Counts : Holds(ancestors, tower, l, c) => Holds(ancestors, voted, l, c)
    BY <1>1, VoteHolds
  <2> HIDE DEF voted, op
  <2> QED
    BY <1>3, <2>1, HoldsByVotes
<1> HIDE DEF voted, op
<1>5. promised \in [Slots -> Counts]
  BY DEF Inv, TypeOK
<1>6. HoldsPromises(ancestors, promised, voted) /\ HoldsPromises(ancestors, promised, op.tower)
  BY <1>1, <1>4, <1>5 DEF PromiseInv, MemoryInv, HoldsPromises
<1>7. \A i \in DOMAIN voting_queue :
         /\ HoldsVotes(ancestors, voted, voting_queue[i].tower)
         /\ HoldsVotes(ancestors, op.tower, voting_queue[i].tower)
  <2> TAKE i \in DOMAIN voting_queue
  <2>1. HoldsVotes(ancestors, tower, voting_queue[i].tower) /\ GoodTower(voting_queue[i].tower)
    BY <1>1, QueueGood DEF PromiseInv, MemoryInv
  <2> QED
    BY <1>4, <2>1, TowerNumbers DEF HoldsVotes
<1>8. Repeats(op.tower, voted) /\ Repeats(voted, op.tower)
  BY <1>3, RepeatsOrder
<1>9. HoldsVotes(ancestors, voted, op.tower)
  <2>1. GoodTower(op.tower)
    BY <1>2, SavedTowerKeeps DEF PushVote, op
  <2> QED
    BY <1>8, <2>1, RepeatsHolds
<1> DEFINE n == Len(voting_queue)
<1>10. /\ n \in Nat /\ DOMAIN voting_queue = 1 .. n /\ DOMAIN voting_queue' = 1 .. n + 1
       /\ Len(voting_queue') = n + 1
       /\ \A i \in 1 .. n : voting_queue'[i] = voting_queue[i]
       /\ voting_queue'[n + 1] = op
       /\ voting_queue # << >> => voting_queue' # << >> /\ voting_queue'[1] = voting_queue[1]
  <2>1. voting_queue \in Seq(VoteOps) /\ (voting_queue # << >> => 1 \in DOMAIN voting_queue)
    BY QueueFacts
  <2> QED
    BY <1>1, <2>1, SMTT(30)
<1> HIDE DEF n
<1>11. \A i \in 1 .. n : Before(i)' = Before(i)
  <2>1. \A i \in 1 .. n : i # 1 => i - 1 \in 1 .. n
    BY <1>10, SMTT(30)
  <2> QED
    BY <1>1, <1>10, <2>1 DEF Before
<1>12. StoredInv'
  BY <1>1, <1>10 DEF PromiseInv, StoredInv
<1>13. QueuedInv'
  <2> SUFFICES ASSUME NEW i \in 1 .. n + 1
               PROVE  /\ voting_queue'[i].tower.votes # << >>
                      /\ ~voting_queue'[i].push => Repeats(Before(i)', voting_queue'[i].tower)
                      /\ voting_queue'[i].push =>
                            /\ HoldsPromises(ancestors, promised, voting_queue'[i].tower)
                            /\ \A j \in 1 .. i - 1 :
                                  HoldsVotes(ancestors, voting_queue'[i].tower, voting_queue'[j].tower)
    BY <1>1, <1>10 DEF QueuedInv
  <2>1. CASE i \in 1 .. n
    <3>1. \A j \in 1 .. i - 1 : j \in 1 .. n
      BY <1>10, <2>1, SMTT(30)
    <3> QED
      BY <1>10, <1>11, <2>1, <3>1 DEF PromiseInv, QueuedInv
  <2>2. CASE i = n + 1
    <3>1. i - 1 = n
      BY <1>10, <2>2, SMTT(30)
    <3> QED
      BY <1>2, <1>3, <1>6, <1>7, <1>10, <2>2, <3>1
  <2> QED
    BY <1>10, <2>1, <2>2, SMTT(30)
<1>14. MemoryInv'
  <2>1. \A i \in 1 .. n + 1 : HoldsVotes(ancestors, voted, voting_queue'[i].tower)
    BY <1>7, <1>9, <1>10, SMTT(30)
  <2>2. Repeats(Before(Len(voting_queue) + 1)', tower')
    <3>1. Before(Len(voting_queue) + 1)' = op.tower
      <4>1. Len(voting_queue') + 1 = n + 2
        BY <1>10, SMTT(30)
      <4>2. (n + 2) # 1 /\ (n + 2) - 1 = n + 1
        BY <1>10, SMTT(30)
      <4> QED
        BY <1>10, <4>1, <4>2 DEF Before
    <3> QED
      BY <1>1, <1>8, <3>1
  <2> QED
    BY <1>1, <1>6, <1>10, <2>1, <2>2 DEF MemoryInv
<1> QED
  BY <1>1, <1>12, <1>13, <1>14 DEF PromiseInv

(* A refreshed vote repeats the tower, which repeats the last operation. *)
LEMMA RefreshPromise ==
    ASSUME Inv, RootsInv, PromiseInv, refresh_last_vote
    PROVE  PromiseInv' /\ UNCHANGED <<ancestors, promised>>
<1> DEFINE op == RefreshVote(tower)
<1>1. /\ status = "up" /\ tower.last_vote \in bank_forks
      /\ voting_queue' = Append(voting_queue, op)
      /\ UNCHANGED <<ancestors, saved, status, tower, stored, promised>>
  BY DEF refresh_last_vote, memory
<1>2. op.tower = tower /\ op.push = FALSE
  BY DEF RefreshVote
<1> HIDE DEF op
<1>3. GoodTower(tower) /\ Kept(ancestors, tower)
  BY <1>1, InvGoodTowers DEF GoodTowers, RootsInv, RunInv
<1>4. tower.votes # << >>
  <2>1. tower.last_vote \in Slots /\ tower.last_vote = last_voted_slot(tower.votes)
    BY <1>1, <1>3 DEF Kept, Inv, TypeOK
  <2> QED
    BY <2>1, SlotsAreNaturals DEF last_voted_slot
<1>5. Repeats(tower, tower) /\ HoldsVotes(ancestors, tower, tower)
  BY <1>3, RepeatsOrder, RepeatsHolds
<1> DEFINE n == Len(voting_queue)
<1>6. /\ n \in Nat /\ DOMAIN voting_queue = 1 .. n /\ DOMAIN voting_queue' = 1 .. n + 1
      /\ Len(voting_queue') = n + 1
      /\ \A i \in 1 .. n : voting_queue'[i] = voting_queue[i]
      /\ voting_queue'[n + 1] = op
      /\ voting_queue # << >> => voting_queue' # << >> /\ voting_queue'[1] = voting_queue[1]
  <2>1. voting_queue \in Seq(VoteOps) /\ (voting_queue # << >> => 1 \in DOMAIN voting_queue)
    BY QueueFacts
  <2> QED
    BY <1>1, <2>1, SMTT(30)
<1>7. Repeats(Before(n + 1), tower)
  BY <1>1 DEF PromiseInv, MemoryInv
<1> HIDE DEF n
<1>8. \A i \in 1 .. n + 1 : Before(i)' = Before(i)
  <2>1. \A i \in 1 .. n + 1 : i # 1 => i - 1 \in 1 .. n
    BY <1>6, SMTT(30)
  <2> QED
    BY <1>1, <1>6, <2>1 DEF Before
<1>9. StoredInv'
  BY <1>1, <1>6 DEF PromiseInv, StoredInv
<1>10. QueuedInv'
  <2> SUFFICES ASSUME NEW i \in 1 .. n + 1
               PROVE  /\ voting_queue'[i].tower.votes # << >>
                      /\ ~voting_queue'[i].push => Repeats(Before(i), voting_queue'[i].tower)
                      /\ voting_queue'[i].push =>
                            /\ HoldsPromises(ancestors, promised, voting_queue'[i].tower)
                            /\ \A j \in 1 .. i - 1 :
                                  HoldsVotes(ancestors, voting_queue'[i].tower, voting_queue'[j].tower)
    BY <1>1, <1>6, <1>8 DEF QueuedInv
  <2>1. CASE i \in 1 .. n
    <3>1. \A j \in 1 .. i - 1 : j \in 1 .. n
      BY <1>6, <2>1, SMTT(30)
    <3> QED
      BY <1>6, <2>1, <3>1 DEF PromiseInv, QueuedInv
  <2>2. CASE i = n + 1
    BY <1>2, <1>4, <1>6, <1>7, <2>2
  <2> QED
    BY <1>6, <2>1, <2>2, SMTT(30)
<1>11. MemoryInv'
  <2>1. \A i \in 1 .. n + 1 : HoldsVotes(ancestors, tower, voting_queue'[i].tower)
    BY <1>1, <1>2, <1>5, <1>6, SMTT(30) DEF PromiseInv, MemoryInv
  <2>2. Before(Len(voting_queue) + 1)' = tower
    <3>1. Len(voting_queue') + 1 # 1 /\ (Len(voting_queue') + 1) - 1 = n + 1
      BY <1>6, SMTT(30)
    <3> QED
      BY <1>2, <1>6, <3>1 DEF Before
  <2> QED
    BY <1>1, <1>5, <1>6, <2>1, <2>2 DEF PromiseInv, MemoryInv
<1> QED
  BY <1>1, <1>9, <1>10, <1>11 DEF PromiseInv

(* The tower stored is that of the head of the queue, a new vote. *)
LEMMA StorePromise ==
    ASSUME Inv, RootsInv, PromiseInv, StoreTower
    PROVE  PromiseInv' /\ UNCHANGED <<ancestors, promised>>
<1>1. /\ status = "up" /\ voting_queue # << >> /\ Head(voting_queue).push
      /\ saved' = Head(voting_queue).tower /\ stored' = TRUE
      /\ UNCHANGED <<ancestors, status, tower, voting_queue, promised>>
  BY DEF StoreTower, memory
<1>2. /\ 1 \in DOMAIN voting_queue /\ Head(voting_queue) = voting_queue[1]
      /\ Len(voting_queue) \in Nat /\ Len(voting_queue) + 1 # 1
  <2>1. /\ 1 \in DOMAIN voting_queue /\ Head(voting_queue) = voting_queue[1]
        /\ Len(voting_queue) \in Nat /\ DOMAIN voting_queue = 1 .. Len(voting_queue)
    BY <1>1, QueueFacts
  <2> QED
    BY <2>1, SMTT(30)
<1>3. \A i : i # 1 => Before(i)' = Before(i)
  BY <1>1 DEF Before
<1>4. StoredInv'
  <2>1. /\ voting_queue[1].tower.votes # << >>
        /\ HoldsPromises(ancestors, promised, voting_queue[1].tower)
    BY <1>1, <1>2 DEF PromiseInv, QueuedInv
  <2>2. saved' # NoTower
    BY <1>1, <1>2, <2>1, SMTT(30) DEF NoTower, NewTower
  <2> QED
    BY <1>1, <1>2, <2>1, <2>2 DEF StoredInv
<1>5. QueuedInv'
  <2>1. \A i \in DOMAIN voting_queue : ~voting_queue[i].push => Before(i)' = Before(i)
    BY <1>1, <1>2, <1>3
  <2> QED
    BY <1>1, <2>1 DEF PromiseInv, QueuedInv
<1>6. MemoryInv'
  <2>1. Before(Len(voting_queue) + 1)' = Before(Len(voting_queue) + 1)
    BY <1>1, <1>2 DEF Before
  <2> QED
    BY <1>1, <2>1 DEF PromiseInv, MemoryInv
<1> QED
  BY <1>1, <1>4, <1>5, <1>6 DEF PromiseInv

(* A lockout that a recorded tower holds to is on its last vote's fork, or *)
(* has expired there.                                                      *)
LEMMA HeldAtLastVote ==
    ASSUME IsTree(ancestors), NEW t, GoodTower(t), Recorded(ancestors, t),
           NEW l \in Slots, NEW c \in Counts, Holds(ancestors, t, l, c),
           NEW b, b = last_voted_slot(t.votes)
    PROVE  /\ b \in Slots
           /\ l \in Chain(ancestors, b) \/ l + lockout(c) < b
<1> DEFINE end == l + lockout(c)
<1>1. /\ t.votes \in Seq(LockoutOn(Slots)) /\ t.votes # << >>
      /\ b \in Slots /\ b \in VotedSlots(t.votes)
      /\ \A s \in VotedSlots(t.votes) :
            s \in Slots /\ s \in Chain(ancestors, b) /\ t.root \in Chain(ancestors, s)
      /\ t.root \in Slots
  <2>1. t.votes \in Seq(LockoutOn(Slots)) /\ t.votes # << >>
    BY TowerNumbers DEF Recorded
  <2> QED
    BY <2>1, VotedSlotsFacts DEF Recorded, Kept, RootBelowVotes
<1>2. t.root \in Chain(ancestors, b) /\ t.root <= b
  BY <1>1, ChainFacts
<1>3. end \in Nat /\ b \in Nat /\ t.root \in Nat
  <2>1. lockout(c) \in Nat /\ l \in Nat /\ b \in Nat /\ t.root \in Nat
    BY <1>1, LockoutNumbers
  <2>2. end \in Nat
    BY <2>1, SMTT(30)
  <2> QED
    BY <2>1, <2>2
<1> HIDE DEF end
<1>4. CASE \E i \in DOMAIN t.votes : l \in Chain(ancestors, t.votes[i].slot)
  <2>1. PICK i \in DOMAIN t.votes : l \in Chain(ancestors, t.votes[i].slot)
    BY <1>4
  <2>2. t.votes[i].slot \in VotedSlots(t.votes)
    BY DEF VotedSlots
  <2>3. l \in Slots /\ t.votes[i].slot \in Slots /\ t.votes[i].slot \in Chain(ancestors, b)
    BY <1>1, <2>2
  <2>4. l \in Chain(ancestors, b)
    BY <1>1, <2>1, <2>3, ChainFacts, SMTT(30)
  <2> QED
    BY <1>1, <2>4
<1>5. CASE end < last_voted_slot(t.votes)
  BY <1>1, <1>5 DEF end
<1>6. CASE l \in Chain(ancestors, t.root)
  BY <1>1, <1>2, <1>6, ChainFacts
<1>7. CASE end < t.root
  <2>1. end < b
    BY <1>2, <1>3, <1>7, SMTT(30)
  <2> QED
    BY <1>1, <2>1 DEF end
<1> QED
  BY <1>4, <1>5, <1>6, <1>7 DEF Holds, end

(***************************************************************************)
(* A vote is sent: a step of the abstract specification.  The stored tower *)
(* repeats the tower sent, so that it holds to all that was sent before    *)
(* and has the same last vote.                                             *)
(***************************************************************************)
LEMMA SendPromise ==
    ASSUME Inv, RootsInv, PromiseInv, SendVote
    PROVE  PromiseInv' /\ Promises!Next
<1> DEFINE h == voting_queue[1].tower
           n == Len(voting_queue)
           b == last_voted_slot(h.votes)
<1>1. /\ status = "up" /\ voting_queue # << >>
      /\ Head(voting_queue).push => stored
      /\ promised' = Promise(Head(voting_queue).tower)
      /\ voting_queue' = Tail(voting_queue) /\ stored' = FALSE
      /\ UNCHANGED <<ancestors, saved, status, tower>>
  BY DEF SendVote, memory
<1>2. /\ n \in Nat /\ n # 0 /\ 1 \in DOMAIN voting_queue
      /\ DOMAIN voting_queue = 1 .. n /\ DOMAIN voting_queue' = 1 .. n - 1
      /\ Len(voting_queue') = n - 1
      /\ \A i \in 1 .. n - 1 : voting_queue'[i] = voting_queue[i + 1]
      /\ Head(voting_queue) = voting_queue[1]
  <2>1. /\ voting_queue \in Seq(VoteOps) /\ 1 \in DOMAIN voting_queue
        /\ Head(voting_queue) = voting_queue[1]
    BY <1>1, QueueFacts
  <2> QED
    BY <1>1, <2>1, SMTT(30)
<1>3. /\ h.votes # << >> /\ GoodTower(h) /\ Kept(ancestors, h)
      /\ promised' = Promise(h)
  BY <1>1, <1>2, QueueGood DEF PromiseInv, QueuedInv, RootsInv, QueueInv
<1>4. Repeats(saved, h)
  <2>1. CASE voting_queue[1].push
    <3>1. saved = h
      BY <1>1, <1>2, <2>1 DEF PromiseInv, StoredInv
    <3> HIDE DEF h
    <3> QED
      BY <3>1, RepeatsOrder
  <2>2. CASE ~voting_queue[1].push
    BY <1>2, <2>2 DEF PromiseInv, QueuedInv, Before
  <2> QED
    BY <2>1, <2>2
<1>5. Before(2) = h
  BY SMTT(30) DEF Before
<1> HIDE DEF h, n
<1>6. saved # NoTower /\ b = last_voted_slot(saved.votes)
  <2>1. 1 \in DOMAIN h.votes
    <3>1. h.votes \in Seq(LockoutOn(Slots))
      BY <1>3, TowerNumbers
    <3> QED
      BY <1>3, <3>1, SMTT(30)
  <2>2. DOMAIN NoTower.votes = {}
    BY SMTT(30) DEF NoTower, NewTower
  <2> QED
    BY <1>3, <1>4, <2>1, <2>2 DEF Repeats
<1> HIDE DEF b
<1>7. /\ GoodTower(saved) /\ Recorded(ancestors, saved) /\ IsTree(ancestors)
      /\ HoldsPromises(ancestors, promised, saved)
      /\ promised \in [Slots -> Counts]
  BY <1>6, InvGoodTowers DEF GoodTowers, RootsInv, LedgerInv, PromiseInv, StoredInv, Inv, TypeOK
<1>8. \A u : HoldsPromises(ancestors, promised, u) /\ HoldsVotes(ancestors, u, h)
                => HoldsPromises(ancestors, promised', u)
  BY <1>3, <1>7, HoldsWhatIsSent
<1>9. StoredInv'
  <2>1. HoldsPromises(ancestors, promised', saved)
    BY <1>3, <1>4, <1>7, <1>8, RepeatsHolds
  <2> QED
    BY <1>1, <1>6, <2>1 DEF StoredInv
<1>10. ASSUME NEW i \in 1 .. n
       PROVE  \A u : Repeats(Before(i + 1), u) => Repeats(Before(i)', u)
  <2>1. CASE i = 1
    <3>1. Before(i + 1) = h /\ Before(i)' = saved
      BY <1>1, <1>5, <2>1, SMTT(30) DEF Before
    <3> QED
      BY <1>3, <1>4, <3>1, RepeatsOrder
  <2>2. CASE i # 1
    <3>1. /\ i + 1 # 1 /\ (i + 1) - 1 = i /\ i - 1 \in 1 .. n - 1 /\ (i - 1) + 1 = i
      BY <1>2, <2>2, SMTT(30)
    <3>2. Before(i + 1) = voting_queue[i].tower
      BY <3>1 DEF Before
    <3>3. Before(i)' = voting_queue'[i - 1].tower
      BY <2>2 DEF Before
    <3> QED
      BY <1>2, <3>1, <3>2, <3>3
  <2> QED
    BY <2>1, <2>2
<1>11. QueuedInv'
  <2> SUFFICES ASSUME NEW i \in 1 .. n - 1
               PROVE  /\ voting_queue'[i].tower.votes # << >>
                      /\ ~voting_queue'[i].push => Repeats(Before(i)', voting_queue'[i].tower)
                      /\ voting_queue'[i].push =>
                            /\ HoldsPromises(ancestors, promised', voting_queue'[i].tower)
                            /\ \A j \in 1 .. i - 1 :
                                  HoldsVotes(ancestors, voting_queue'[i].tower, voting_queue'[j].tower)
    BY <1>1, <1>2 DEF QueuedInv
  <2>1. /\ i \in 1 .. n /\ i + 1 \in 1 .. n /\ 1 \in 1 .. (i + 1) - 1
        /\ \A j \in 1 .. i - 1 : j \in 1 .. n - 1 /\ j + 1 \in 1 .. (i + 1) - 1
    BY <1>2, SMTT(30)
  <2>2. /\ voting_queue[i + 1].tower.votes # << >>
        /\ ~voting_queue[i + 1].push => Repeats(Before(i + 1), voting_queue[i + 1].tower)
        /\ voting_queue[i + 1].push =>
              /\ HoldsPromises(ancestors, promised, voting_queue[i + 1].tower)
              /\ \A j \in 1 .. (i + 1) - 1 :
                    HoldsVotes(ancestors, voting_queue[i + 1].tower, voting_queue[j].tower)
    BY <1>2, <2>1 DEF PromiseInv, QueuedInv
  <2> QED
    BY <1>2, <1>8, <1>10, <2>1, <2>2 DEF h
<1>12. MemoryInv'
  <2>1. /\ HoldsPromises(ancestors, promised, tower)
        /\ \A i \in 1 .. n : HoldsVotes(ancestors, tower, voting_queue[i].tower)
        /\ Repeats(Before(n + 1), tower)
    BY <1>1, <1>2 DEF PromiseInv, MemoryInv, n
  <2>2. HoldsPromises(ancestors, promised', tower)
    BY <1>2, <1>8, <2>1 DEF h
  <2>3. \A i \in 1 .. n - 1 : HoldsVotes(ancestors, tower, voting_queue'[i].tower)
    <3>1. \A i \in 1 .. n - 1 : i + 1 \in 1 .. n
      BY <1>2, SMTT(30)
    <3> QED
      BY <1>2, <2>1, <3>1
  <2>4. Repeats(Before(Len(voting_queue) + 1)', tower)
    <3>1. Len(voting_queue') + 1 = n /\ n \in 1 .. n
      BY <1>2, SMTT(30)
    <3>2. Before(Len(voting_queue) + 1)' = IF n = 1 THEN saved' ELSE voting_queue'[n - 1].tower
      BY <3>1 DEF Before
    <3>3. CASE n = 1
      <4>1. Before(n + 1) = h
        BY <1>5, <3>3, SMTT(30)
      <4> QED
        BY <1>1, <1>3, <1>4, <2>1, <3>2, <3>3, <4>1, RepeatsOrder
    <3>4. CASE n # 1
      <4>1. n - 1 \in 1 .. n - 1 /\ (n - 1) + 1 = n /\ n + 1 # 1 /\ (n + 1) - 1 = n
        BY <1>2, <3>4, SMTT(30)
      <4>2. Before(n + 1) = voting_queue[n].tower /\ voting_queue'[n - 1] = voting_queue[n]
        BY <1>2, <4>1 DEF Before
      <4> QED
        BY <2>1, <3>2, <3>4, <4>2
    <3> QED
      BY <3>3, <3>4
  <2> QED
    BY <1>1, <1>2, <2>2, <2>3, <2>4 DEF MemoryInv
<1>13. Promises!Send(b) /\ b \in Slots
  <2>0. /\ h.votes \in Seq(LockoutOn(Slots)) /\ b \in Slots
        /\ \A i \in DOMAIN h.votes : h.votes[i].slot \in Chain(ancestors, b)
    <3>1. h.votes \in Seq(LockoutOn(Slots))
      BY <1>3, TowerNumbers
    <3> QED
      BY <1>3, <3>1, TowerNumbers, VotedSlotsFacts DEF Kept, b
  <2>1. ASSUME NEW l \in Slots, promised[l] > 0
        PROVE  Promises!Respects(b, l)
    <3>1. promised[l] \in Counts /\ Holds(ancestors, saved, l, promised[l])
      BY <1>7, <2>1 DEF HoldsPromises
    <3>2. l \in Chain(ancestors, b) \/ l + lockout(promised[l]) < b
      BY <1>6, <1>7, <3>1, HeldAtLastVote
    <3>3. lockout(promised[l]) \in Nat /\ l \in Nat /\ b \in Nat
      BY <2>0, <3>1, LockoutNumbers
    <3>5. l \in Chain(ancestors, b) \/ b > l + lockout(promised[l])
      BY <3>2, <3>3
    <3> QED
      BY <3>5 DEF Promises!Respects, Chain
  <2>2. promised'[b] > 0
    <3>1. PICK i \in DOMAIN h.votes : h.votes[i].slot = b /\ i = Len(h.votes)
      BY <1>3, <2>0, SMTT(30) DEF last_voted_slot, b
    <3>2. h.votes[i].confirmation_count \in Nat /\ h.votes[i].confirmation_count >= 1
      <4>1. /\ h.votes[i].confirmation_count \in Len(h.votes) - i + 1 .. MAX_LOCKOUT_HISTORY
            /\ Len(h.votes) \in Nat
        BY <1>3, <2>0, SMTT(30) DEF GoodTower, StackOK
      <4>2. Len(h.votes) - i + 1 = 1
        BY <3>1, <4>1, SMTT(30)
      <4>3. h.votes[i].confirmation_count \in 1 .. MAX_LOCKOUT_HISTORY
        BY <4>1, <4>2
      <4> QED
        BY <4>3, HistoryAssumption, SMTT(30)
    <3>3. h.votes[i].confirmation_count <= Promise(h)[b] /\ Promise(h)[b] \in Nat
      BY <1>3, <1>7, <2>0, <3>1, PromiseShows
    <3> QED
      BY <1>3, <3>2, <3>3, SMTT(30)
  <2>3. ASSUME NEW l \in Slots
        PROVE  /\ promised'[l] >= promised[l]
               /\ promised'[l] # promised[l] => l \in Chain(ancestors, b)
    <3>1. /\ Promise(h)[l] \in Nat /\ promised[l] \in Nat /\ promised[l] <= Promise(h)[l]
          /\ \/ Promise(h)[l] = promised[l]
             \/ \E i \in DOMAIN h.votes : h.votes[i].slot = l
      BY <1>3, <1>7, PromiseShows
    <3> QED
      BY <1>3, <2>0, <3>1
  <2> QED
    BY <1>1, <2>0, <2>1, <2>2, <2>3 DEF Promises!Send, Chain
<1> QED
  BY <1>9, <1>11, <1>12, <1>13 DEF PromiseInv, Promises!Next

(* A crash empties the queue. *)
LEMMA CrashPromise ==
    ASSUME Inv, RootsInv, PromiseInv, Crash
    PROVE  PromiseInv' /\ UNCHANGED <<ancestors, promised>>
<1>1. /\ status' = "down" /\ voting_queue' = << >> /\ DOMAIN voting_queue' = {} /\ stored' = FALSE
      /\ UNCHANGED <<ancestors, saved, promised>>
  BY SMTT(30) DEF Crash
<1>2. StoredInv' /\ QueuedInv' /\ MemoryInv'
  BY <1>1 DEF PromiseInv, StoredInv, QueuedInv, MemoryInv
<1> QED
  BY <1>1, <1>2 DEF PromiseInv

(* The restored tower holds to what the stored one does and repeats it. *)
LEMMA RestartPromise ==
    ASSUME Inv, RootsInv, PromiseInv, NEW r \in Slots, Restart(r)
    PROVE  PromiseInv' /\ UNCHANGED <<ancestors, promised>>
<1> DEFINE t == RestoredTower(r)
<1>1. /\ status = "down" /\ status' = "up" /\ r \in ReplayedRoots /\ ~RestoreFails(r)
      /\ tower' = t
      /\ UNCHANGED <<ancestors, saved, voting_queue, stored, promised>>
  BY DEF Restart
<1>2. voting_queue = << >> /\ DOMAIN voting_queue = {} /\ Len(voting_queue) = 0 /\ stored = FALSE
  BY <1>1, SMTT(30) DEF RootsInv
<1>3. StoredInv' /\ QueuedInv'
  BY <1>1, <1>2 DEF PromiseInv, StoredInv, QueuedInv
<1>4. HoldsPromises(ancestors, promised, t) /\ Repeats(saved, t)
  <2>1. CASE saved = NoTower
    <3>0. t = NewTower(r)
      BY <2>1 DEF RestoredTower
    <3>1. t.votes = << >> /\ DOMAIN t.votes = {}
      BY <3>0, SMTT(30) DEF NewTower, NoTower
    <3>2. \A l \in Slots : promised[l] = 0
      BY <2>1 DEF PromiseInv, StoredInv
    <3> HIDE DEF t
    <3> QED
      BY <3>1, <3>2, SMTT(30) DEF HoldsPromises, Repeats
  <2>2. CASE saved # NoTower
    <3>1. \A l \in Slots, c \in Counts :
             Holds(ancestors, saved, l, c) => Holds(ancestors, t, l, c)
      BY <1>1, <2>2, RestoreHolds
    <3>2. promised \in [Slots -> Counts] /\ GoodTower(saved)
      BY <2>2, InvGoodTowers DEF GoodTowers, Inv, TypeOK
    <3>3. HoldsPromises(ancestors, promised, t)
      BY <2>2, <3>1, <3>2 DEF PromiseInv, StoredInv, HoldsPromises
    <3>4. PICK m \in 1 .. Len(saved.votes) + 1 : t.votes = SubSeq(saved.votes, m, Len(saved.votes))
      BY <1>1, <2>2, RestoredShape, SMTT(30)
    <3> DEFINE kept == t.votes
               votes == saved.votes
    <3>5. /\ kept = SubSeq(votes, m, Len(votes)) /\ m \in 1 .. Len(votes) + 1
          /\ votes \in Seq(LockoutOn(Slots))
      BY <3>2, <3>4, TowerNumbers
    <3> HIDE DEF kept, votes
    <3>6. /\ \A i \in DOMAIN kept : i + m - 1 \in DOMAIN votes /\ kept[i] = votes[i + m - 1]
          /\ kept # << >> => last_voted_slot(kept) = last_voted_slot(votes)
      BY <3>5, SuffixSlots
    <3>7. Repeats(saved, t)
      <4>1. /\ \A i \in DOMAIN kept : \E j \in DOMAIN votes : votes[j] = kept[i]
            /\ kept # << >> => last_voted_slot(kept) = last_voted_slot(votes)
        BY <3>6
      <4> HIDE DEF t
      <4> QED
        BY <4>1 DEF Repeats, kept, votes
    <3> QED
      BY <3>3, <3>7
  <2> QED
    BY <2>1, <2>2
<1> HIDE DEF t
<1>5. MemoryInv'
  <2>1. Before(Len(voting_queue) + 1)' = saved
    BY <1>1, <1>2, SMTT(30) DEF Before
  <2> QED
    BY <1>1, <1>2, <1>4, <2>1 DEF MemoryInv
<1> QED
  BY <1>1, <1>3, <1>5 DEF PromiseInv

LEMMA AbortPromise ==
    ASSUME Inv, RootsInv, PromiseInv, NEW r \in Slots, RestartAborts(r)
    PROVE  PromiseInv' /\ UNCHANGED <<ancestors, promised>>
<1>1. /\ status' = "aborted"
      /\ UNCHANGED <<ancestors, saved, voting_queue, stored, promised>>
  BY DEF RestartAborts
<1>2. \A i : Before(i)' = Before(i)
  BY <1>1 DEF Before
<1>3. StoredInv' /\ QueuedInv' /\ MemoryInv'
  BY <1>1, <1>2 DEF PromiseInv, StoredInv, QueuedInv, MemoryInv
<1> QED
  BY <1>1, <1>3 DEF PromiseInv

LEMMA NextPromise ==
    ASSUME Signable = {TRUE}
    PROVE  Inv /\ RootsInv /\ PromiseInv /\ [Next]_vars =>
              PromiseInv' /\ [Promises!Next]_<<ancestors, promised>>
<1> SUFFICES ASSUME Inv, RootsInv, PromiseInv, [Next]_vars
             PROVE  PromiseInv' /\ (Promises!Next \/ UNCHANGED <<ancestors, promised>>)
  OBVIOUS
<1>1. CASE UNCHANGED vars
  <2>1. UNCHANGED <<ancestors, saved, status, tower, voting_queue, stored, promised>>
    BY <1>1 DEF vars, ledger, memory
  <2>2. \A i : Before(i)' = Before(i)
    BY <2>1 DEF Before
  <2>3. Before(Len(voting_queue) + 1)' = Before(Len(voting_queue) + 1)
    BY <2>1 DEF Before
  <2> QED
    BY <2>1, <2>2, <2>3 DEF PromiseInv, StoredInv, QueuedInv, MemoryInv
<1>2. CASE \E s, parent \in Slots : ReplayBank(s, parent)
  BY <1>2, ReplayPromise
<1>3. CASE \E h \in Slots, signable \in Signable : handle_votable_bank(h, signable)
  <2>1. PICK h \in Slots : handle_votable_bank(h, TRUE)
    BY <1>3
  <2> QED
    BY <2>1, VotePromise
<1>4. CASE \E r \in Slots : Restart(r) \/ RestartAborts(r)
  BY <1>4, RestartPromise, AbortPromise
<1> QED
  BY <1>1, <1>2, <1>3, <1>4, RefreshPromise, StorePromise, SendPromise, CrashPromise DEF Next

-----------------------------------------------------------------------------
(***************************************************************************)
(* No vote is ever sent that a lockout already shown to the cluster        *)
(* forbids, whatever is lost in however many crashes: Tower implements     *)
(* LockoutPromise when every vote recorded is also signed and queued       *)
(* (ReplayStage::push_vote, VotingService::handle_vote, Tower::restore,    *)
(* adjust_lockouts_after_replay).                                          *)
(***************************************************************************)
THEOREM PromiseIsKept ==
    ASSUME Signable = {TRUE}
    PROVE  Spec => KeepsLockoutPromise
<1>1. Init => PromiseInv /\ Promises!Init
  BY InitPromise
<1>2. Inv /\ RootsInv /\ PromiseInv /\ [Next]_vars =>
        PromiseInv' /\ [Promises!Next]_<<ancestors, promised>>
  BY NextPromise
<1> QED
  BY <1>1, <1>2, RootsInvHolds, PTL DEF Spec, KeepsLockoutPromise, Promises!Spec
=============================================================================
