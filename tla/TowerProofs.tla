---------------------------- MODULE TowerProofs -----------------------------
(***************************************************************************)
(* Theorems about Tower, for any number of slots and crashes, any depth of *)
(* the vote stack, and whether or not a crash loses part of the ledger.    *)
(***************************************************************************)
EXTENDS Tower, LockoutsProofs

USE Zenon

(* A tower whose stack is well formed, the shape of every tower kept. *)
GoodTower(t) == t \in Towers /\ StackOK(t.votes)

(* The inductive invariant: the types, and every stack well formed. *)
Inv == TypeOK /\ TowerStacksOK

LEMMA SlotsAreNaturals == Slots \in SUBSET Nat /\ NoSlot \notin Slots
  BY TowerAssumption, SMTT(30) DEF Slots, NoSlot

LEMMA EmptyTowersGood ==
    ASSUME NEW r \in Slots \cup {NoSlot}
    PROVE  GoodTower(NewTower(r)) /\ GoodTower(NoTower)
<1>1. StackOK(<< >>)
  BY HistoryAssumption, SMTT(30) DEF StackOK
<1>2. << >> \in Seq(LockoutOn(Slots))
  BY SMTT(30)
<1> QED
  BY <1>1, <1>2 DEF GoodTower, NewTower, NoTower, Towers

(* record_bank_vote keeps a tower good and roots only a voted slot. *)
LEMMA RecordBankVoteGood ==
    ASSUME NEW t, GoodTower(t), NEW h \in Slots
    PROVE  /\ GoodTower(record_bank_vote(t, h))
           /\ record_bank_vote(t, h).root \in Slots \cup {t.root}
<1> DEFINE new == process_next_vote_slot(t.votes, t.root, h)
<1>1. t.votes \in Seq(LockoutOn(Slots)) /\ StackOK(t.votes) /\ t \in Towers
  BY DEF GoodTower, Towers
<1>2. /\ new.votes \in Seq(LockoutOn(Slots))
      /\ StackOK(new.votes)
      /\ new.root \in VotedSlots(t.votes) \cup {t.root}
      /\ VotedSlots(t.votes) \subseteq Slots
  BY <1>1, SlotsAreNaturals, RecordVoteOK
<1>3. record_bank_vote(t, h) = [t EXCEPT !.votes = new.votes, !.root = new.root, !.last_vote = h]
  BY DEF record_bank_vote, Simulate
<1> HIDE DEF new
<1> QED
  BY <1>1, <1>2, <1>3 DEF GoodTower, Towers

(* What adjust_lockouts_after_replay retains of a good tower is good. *)
LEMMA RestoredTowerGood ==
    ASSUME NEW r \in Slots, GoodTower(saved), ~RestoreFails(r)
    PROVE  GoodTower(RestoredTower(r))
<1>1. CASE saved = NoTower
  BY <1>1, EmptyTowersGood DEF RestoredTower
<1>2. CASE saved # NoTower /\ saved.last_vote = NoSlot
  BY <1>2 DEF RestoredTower, adjust_lockouts_after_replay
<1>3. CASE saved # NoTower /\ saved.last_vote # NoSlot
  <2> DEFINE history == HistoryFor(saved, r)
             A == Anchors(saved, history)
             kept == SubSeq(saved.votes, Max(A), Len(saved.votes))
  <2>1. saved.votes \in Seq(LockoutOn(Slots)) /\ StackOK(saved.votes) /\ saved \in Towers
    BY DEF GoodTower, Towers
  <2>2. A # {}
    BY <1>3 DEF RestoreFails, adjust_fails, FatallyInconsistent
  <2>3. A \in SUBSET (1 .. Len(saved.votes) + 1)
    <3>1. DOMAIN SlotsInTower(saved) = 1 .. Len(saved.votes) + 1
      <4>1. saved.root \in Int /\ \A i \in DOMAIN saved.votes : saved.votes[i].slot \in Int
        <5>1. saved.root \in Slots \cup {NoSlot} /\ Slots \subseteq Int /\ NoSlot \in Int
          BY <2>1, SlotsAreNaturals, SMTT(30) DEF Towers, NoSlot
        <5>2. \A i \in DOMAIN saved.votes : saved.votes[i].slot \in Slots
          BY <2>1, StackElement
        <5> QED
          BY <5>1, <5>2
      <4> QED
        BY <2>1, <4>1, SMTT(30) DEF SlotsInTower
    <3> QED
      BY <3>1 DEF Anchors
  <2>4. Max(A) \in 1 .. Len(saved.votes) + 1
    <3>1. Len(saved.votes) + 1 \in Nat /\ A \in SUBSET (0 .. Len(saved.votes) + 1)
      BY <2>1, <2>3, SMTT(30)
    <3> HIDE DEF A
    <3> QED
      BY <2>2, <2>3, <3>1, MaxOfBounded
  <2>5. kept \in Seq(LockoutOn(Slots)) /\ StackOK(kept)
    <3> HIDE DEF A
    <3> QED
      BY <2>1, <2>4, SlotsAreNaturals, SuffixOK
  <2>6. RestoredTower(r) =
          [[saved EXCEPT !.votes = kept,
                         !.last_vote = IF kept = << >> THEN NoSlot ELSE saved.last_vote,
                         !.stray = IF kept = << >> THEN saved.stray ELSE saved.last_vote]
             EXCEPT !.root = IF saved.root <= r THEN r ELSE saved.root]
    BY <1>3 DEF RestoredTower, adjust_lockouts_after_replay, adjust_lockouts_with_slot_history
  <2> HIDE DEF kept
  <2> QED
    BY <2>1, <2>5, <2>6 DEF GoodTower, Towers
<1> QED
  BY <1>1, <1>2, <1>3

(* What Promise makes of the counts sent so far are counts. *)
LEMMA PromiseType ==
    ASSUME promised \in [Slots -> Counts], NEW t, GoodTower(t)
    PROVE  Promise(t) \in [Slots -> Counts]
<1> SUFFICES ASSUME NEW s \in Slots
             PROVE  Promise(t)[s] \in Counts
  BY DEF Promise
<1> DEFINE M == {promised[s]} \cup
                {t.votes[i].confirmation_count : i \in {j \in DOMAIN t.votes : t.votes[j].slot = s}}
<1>1. M \in SUBSET Counts /\ M # {}
  BY StackElement, SMTT(30) DEF GoodTower, Towers
<1>2. Max(M) \in M
  <2>1. MAX_LOCKOUT_HISTORY \in Nat /\ Counts = 0 .. MAX_LOCKOUT_HISTORY
    BY HistoryAssumption DEF Counts
  <2> HIDE DEF M
  <2> QED
    BY <1>1, <2>1, MaxOfBounded
<1>3. Promise(t)[s] = Max(M)
  BY DEF Promise
<1> HIDE DEF M
<1> QED
  BY <1>1, <1>2, <1>3

(***************************************************************************)
(* Inv as the steps below use it: the towers are good ones.                *)
(***************************************************************************)
GoodTowers ==
    /\ GoodTower(tower) /\ GoodTower(saved)
    /\ \A i \in DOMAIN voting_queue : GoodTower(voting_queue[i].tower)

LEMMA InvGoodTowers == Inv => GoodTowers
<1> SUFFICES ASSUME Inv PROVE GoodTowers
  OBVIOUS
<1>1. ASSUME NEW i \in DOMAIN voting_queue
      PROVE  voting_queue[i].tower \in Towers
  <2>1. voting_queue \in Seq(VoteOps)
    BY DEF Inv, TypeOK
  <2>2. voting_queue[i] \in VoteOps
    BY <2>1, SMTT(30)
  <2> QED
    BY <2>2 DEF VoteOps
<1> QED
  BY <1>1 DEF Inv, TypeOK, TowerStacksOK, GoodTower, GoodTowers

LEMMA InitInv == Init => Inv
<1> SUFFICES ASSUME Init PROVE Inv
  OBVIOUS
<1>1. 0 \in Slots
  BY TowerAssumption, SMTT(30) DEF Slots
<1>2. GoodTower(tower) /\ GoodTower(saved)
  BY <1>1, EmptyTowersGood DEF Init
<1>3. promised \in [Slots -> Counts]
  <2>1. 0 \in Counts
    BY HistoryAssumption, SMTT(30) DEF Counts
  <2> QED
    BY <2>1 DEF Init
<1>4. ancestors \in [Slots -> SUBSET Slots]
  BY DEF Init
<1>5. voting_queue \in Seq(VoteOps) /\ DOMAIN voting_queue = {}
  BY SMTT(30) DEF Init
<1>6. TypeOK
  BY <1>1, <1>2, <1>3, <1>4, <1>5 DEF Init, TypeOK, GoodTower
<1> QED
  BY <1>2, <1>5, <1>6 DEF Inv, TowerStacksOK, GoodTower

(***************************************************************************)
(* Every action preserves Inv.  One step per action: the tower each makes  *)
(* is good, and the rest is typed.                                         *)
(***************************************************************************)
LEMMA NextInv == Inv /\ [Next]_vars => Inv'
<1> SUFFICES ASSUME Inv, [Next]_vars PROVE Inv'
  OBVIOUS
<1>0. TypeOK /\ GoodTowers
  BY InvGoodTowers DEF Inv
<1>a. TypeOK' /\ GoodTowers' => Inv'
  BY DEF Inv, TowerStacksOK, GoodTower, GoodTowers
<1>1. ASSUME NEW s \in Slots, NEW parent \in Slots, ReplayBank(s, parent)
      PROVE  Inv'
  <2>1. Upto(parent) \in SUBSET Slots
    BY <1>0 DEF TypeOK, Upto
  <2>2. ancestors' \in [Slots -> SUBSET Slots]
    BY <1>0, <1>1, <2>1 DEF TypeOK, ReplayBank
  <2>3. TypeOK'
    BY <1>0, <1>1, <2>2 DEF TypeOK, ReplayBank
  <2>4. GoodTowers'
    BY <1>0, <1>1 DEF ReplayBank, GoodTowers, GoodTower
  <2> QED
    BY <1>a, <2>3, <2>4
<1>2. ASSUME NEW h \in Slots, NEW signable \in Signable, handle_votable_bank(h, signable)
      PROVE  Inv'
  <2> DEFINE voted == record_bank_vote(tower, h)
  <2>1. GoodTower(voted) /\ voted.root \in Slots \cup {tower.root}
    BY <1>0, RecordBankVoteGood DEF GoodTowers
  <2>2. GoodTower(PushVote(voted).tower) /\ PushVote(voted) \in VoteOps
    <3> HIDE DEF voted
    <3> QED
      BY <2>1 DEF GoodTower, Towers, PushVote, SavedTower, VoteOps
  <2>3. /\ tower' = voted
        /\ SetRoot(voted.root)
        /\ voting_queue' = IF signable THEN Append(voting_queue, PushVote(voted)) ELSE voting_queue
        /\ UNCHANGED <<ancestors, blocks, saved, status, stored, promised, crashes>>
    BY <1>2 DEF handle_votable_bank
  <2> HIDE DEF voted
  <2>4. roots' \subseteq Slots /\ bank_forks' \subseteq Slots /\ bank_root' \in Slots
    <3>1. CASE voted.root = tower.root
      BY <1>0, <2>3, <3>1 DEF SetRoot, TypeOK
    <3>2. CASE voted.root # tower.root
      <4>1. voted.root \in Slots
        BY <2>1, <3>2
      <4>2. Upto(voted.root) \subseteq Slots
        BY <1>0, <4>1 DEF Upto, TypeOK
      <4> QED
        BY <1>0, <2>3, <3>2, <4>1, <4>2 DEF SetRoot, TypeOK
    <3> QED
      BY <3>1, <3>2
  <2>5. /\ voting_queue' \in Seq(VoteOps)
        /\ \A i \in DOMAIN voting_queue' : GoodTower(voting_queue'[i].tower)
    <3>1. CASE signable
      <4>1. voting_queue' = Append(voting_queue, PushVote(voted)) /\ voting_queue \in Seq(VoteOps)
        BY <1>0, <2>3, <3>1 DEF TypeOK
      <4>2. \A i \in DOMAIN voting_queue : GoodTower(voting_queue[i].tower)
        BY <1>0 DEF GoodTowers
      <4> QED
        BY <2>2, <4>1, <4>2, SMTT(30)
    <3>2. CASE ~signable
      BY <1>0, <2>3, <3>2 DEF TypeOK, GoodTowers
    <3> QED
      BY <3>1, <3>2
  <2>6. TypeOK'
    BY <1>0, <2>1, <2>3, <2>4, <2>5 DEF TypeOK, GoodTower
  <2>7. GoodTowers'
    <3>1. GoodTower(tower') /\ GoodTower(saved')
      BY <1>0, <2>1, <2>3 DEF GoodTowers
    <3> QED
      BY <2>5, <3>1 DEF GoodTowers, GoodTower
  <2> QED
    BY <1>a, <2>6, <2>7
<1>3. ASSUME refresh_last_vote
      PROVE  Inv'
  <2>1. voting_queue' = Append(voting_queue, RefreshVote(tower)) /\ voting_queue \in Seq(VoteOps)
    BY <1>0, <1>3 DEF TypeOK, refresh_last_vote
  <2>2. GoodTower(RefreshVote(tower).tower) /\ RefreshVote(tower) \in VoteOps
    BY <1>0 DEF GoodTowers, GoodTower, RefreshVote, VoteOps
  <2>3. \A i \in DOMAIN voting_queue : GoodTower(voting_queue[i].tower)
    BY <1>0 DEF GoodTowers
  <2>4. /\ voting_queue' \in Seq(VoteOps)
        /\ \A i \in DOMAIN voting_queue' : GoodTower(voting_queue'[i].tower)
    BY <2>1, <2>2, <2>3, SMTT(30)
  <2>5. TypeOK'
    BY <1>0, <1>3, <2>4 DEF TypeOK, refresh_last_vote, ledger, memory
  <2>6. GoodTowers'
    BY <1>0, <1>3, <2>4 DEF GoodTowers, GoodTower, refresh_last_vote, memory
  <2> QED
    BY <1>a, <2>5, <2>6
<1>4. ASSUME StoreTower
      PROVE  Inv'
  <2>1. voting_queue \in Seq(VoteOps) /\ voting_queue # << >> /\ saved' = Head(voting_queue).tower
    BY <1>0, <1>4 DEF TypeOK, StoreTower
  <2>2. GoodTower(saved')
    <3>1. 1 \in DOMAIN voting_queue /\ Head(voting_queue) = voting_queue[1]
      BY <2>1, SMTT(30)
    <3> QED
      BY <1>0, <2>1, <3>1 DEF GoodTowers
  <2>3. TypeOK'
    BY <1>0, <1>4, <2>2 DEF TypeOK, StoreTower, ledger, memory, GoodTower
  <2>4. GoodTowers'
    BY <1>0, <1>4, <2>2 DEF GoodTowers, GoodTower, StoreTower, memory
  <2> QED
    BY <1>a, <2>3, <2>4
<1>5. ASSUME SendVote
      PROVE  Inv'
  <2>1. /\ voting_queue \in Seq(VoteOps) /\ voting_queue # << >>
        /\ voting_queue' = Tail(voting_queue)
        /\ promised' = Promise(Head(voting_queue).tower)
    BY <1>0, <1>5 DEF TypeOK, SendVote
  <2>2. GoodTower(Head(voting_queue).tower)
    <3>1. 1 \in DOMAIN voting_queue /\ Head(voting_queue) = voting_queue[1]
      BY <2>1, SMTT(30)
    <3> QED
      BY <1>0, <3>1 DEF GoodTowers
  <2>3. promised' \in [Slots -> Counts]
    BY <1>0, <2>1, <2>2, PromiseType DEF TypeOK
  <2>4. /\ voting_queue' \in Seq(VoteOps)
        /\ \A i \in DOMAIN voting_queue' : GoodTower(voting_queue'[i].tower)
    <3>1. \A i \in DOMAIN voting_queue : GoodTower(voting_queue[i].tower)
      BY <1>0 DEF GoodTowers
    <3>2. \A i \in DOMAIN Tail(voting_queue) :
             i + 1 \in DOMAIN voting_queue /\ Tail(voting_queue)[i] = voting_queue[i + 1]
      BY <2>1, SMTT(30)
    <3>3. Tail(voting_queue) \in Seq(VoteOps)
      BY <2>1, SMTT(30)
    <3> QED
      BY <2>1, <3>1, <3>2, <3>3
  <2>5. TypeOK'
    BY <1>0, <1>5, <2>3, <2>4 DEF TypeOK, SendVote, ledger, memory
  <2>6. GoodTowers'
    BY <1>0, <1>5, <2>4 DEF GoodTowers, GoodTower, SendVote, memory
  <2> QED
    BY <1>a, <2>5, <2>6
<1>6. ASSUME Crash
      PROVE  Inv'
  <2>1. blocks' \subseteq Slots /\ roots' \subseteq Slots
    <3>1. PICK l \in SurvivingLedgers : blocks' = l[1] /\ roots' = l[2]
      BY <1>6 DEF Crash
    <3>2. l[1] \subseteq blocks /\ l[2] \subseteq roots
      BY <3>1, SMTT(30) DEF SurvivingLedgers
    <3> QED
      BY <1>0, <3>1, <3>2 DEF TypeOK
  <2>2. GoodTower(tower') /\ 0 \in Slots
    BY <1>6, EmptyTowersGood, TowerAssumption, SMTT(30) DEF Crash, Slots
  <2>3. voting_queue' = << >> /\ voting_queue' \in Seq(VoteOps) /\ DOMAIN voting_queue' = {}
    BY <1>6, SMTT(30) DEF Crash
  <2>4. /\ status' = "down" /\ bank_forks' = {} /\ bank_root' = 0
        /\ stored' \in BOOLEAN /\ crashes' = crashes + 1
        /\ UNCHANGED <<ancestors, saved, promised>>
    BY <1>6 DEF Crash
  <2>5. TypeOK'
    BY <1>0, <2>1, <2>2, <2>3, <2>4, SMTT(30) DEF TypeOK, GoodTower
  <2>6. GoodTowers'
    BY <1>0, <1>6, <2>2, <2>3 DEF GoodTowers, GoodTower, Crash
  <2> QED
    BY <1>a, <2>5, <2>6
<1>7. ASSUME NEW r \in Slots
      PROVE  ReconciledRoots \cup {a \in Upto(r) : a > Max(ReconciledRoots)} \subseteq Slots
  <2>1. Upto(r) \subseteq Slots
    BY <1>0 DEF TypeOK, Upto
  <2>2. MustReconcile => Upto(saved.root) \subseteq Slots
    BY <1>0 DEF TypeOK, Upto, MustReconcile
  <2>3. ReconciledRoots \subseteq Slots
    BY <1>0, <2>2 DEF TypeOK, ReconciledRoots
  <2> QED
    BY <2>1, <2>3
<1>8. ASSUME NEW r \in Slots, Restart(r)
      PROVE  Inv'
  <2>1. GoodTower(tower')
    BY <1>0, <1>8, RestoredTowerGood DEF Restart, GoodTowers
  <2>2. TypeOK'
    BY <1>0, <1>7, <1>8, <2>1 DEF TypeOK, Restart, GoodTower
  <2>3. GoodTowers'
    BY <1>0, <1>8, <2>1 DEF GoodTowers, GoodTower, Restart
  <2> QED
    BY <1>a, <2>2, <2>3
<1>9. ASSUME NEW r \in Slots, RestartAborts(r)
      PROVE  Inv'
  <2>1. TypeOK'
    BY <1>0, <1>7, <1>9 DEF TypeOK, RestartAborts, memory
  <2>2. GoodTowers'
    BY <1>0, <1>9 DEF GoodTowers, GoodTower, RestartAborts, memory
  <2> QED
    BY <1>a, <2>1, <2>2
<1>10. ASSUME UNCHANGED vars
       PROVE  Inv'
  BY <1>10 DEF Inv, TypeOK, TowerStacksOK, vars, ledger, memory
<1> QED
  BY <1>1, <1>2, <1>3, <1>4, <1>5, <1>6, <1>8, <1>9, <1>10 DEF Next

(***************************************************************************)
(* Every vote stack this validator holds in memory, has on disk or has     *)
(* queued for sending is well formed, whatever it votes for, whenever it   *)
(* dies, and whatever part of a restored tower it retains.                 *)
(***************************************************************************)
THEOREM TowerIsOK == Spec => []TowerOK
<1>1. Inv => TowerOK  BY DEF Inv, TowerOK
<1> QED  BY <1>1, InitInv, NextInv, PTL DEF Spec
=============================================================================
