-------------------------- MODULE VoteAccountProofs --------------------------
(***************************************************************************)
(* Proofs about VoteAccount: however many slots a vote carries and however *)
(* the authorities change over the epochs, the account's stack, credits    *)
(* and voters stay what the code relies on.                                *)
(***************************************************************************)
EXTENDS VoteAccount, LockoutsProofs, FiniteSetTheorems

USE Zenon

(***************************************************************************)
(* ProcessVoteSlots goes through the slots one by one.                     *)
(***************************************************************************)
IsRun(g, start, slots, e, n) ==
    g = [k \in 0 .. n |-> IF k = 0 THEN start ELSE ProcessVoteSlot(g[k - 1], slots[k], e)]

LEMMA RunGrows ==
    ASSUME NEW start, NEW slots, NEW e, NEW n \in Nat, NEW g, IsRun(g, start, slots, e, n)
    PROVE  \E h : IsRun(h, start, slots, e, n + 1)
<1> DEFINE step(r, s) == ProcessVoteSlot(r, s, e)
           h == [k \in 0 .. n + 1 |-> IF k = n + 1 THEN step(g[n], slots[n + 1]) ELSE g[k]]
<1> HIDE DEF step
<1>1. g = [k \in 0 .. n |-> IF k = 0 THEN start ELSE step(g[k - 1], slots[k])]
  BY DEF IsRun, step
<1>2. h = [k \in 0 .. n + 1 |-> IF k = 0 THEN start ELSE step(h[k - 1], slots[k])]
  <2>1. ASSUME NEW k \in 0 .. n + 1
        PROVE  h[k] = IF k = 0 THEN start ELSE step(h[k - 1], slots[k])
    <3>1. CASE k = n + 1
      <4>1. k # 0 /\ k - 1 = n /\ n \in 0 .. n + 1 /\ n # n + 1
        BY <3>1, SMTT(30)
      <4>2. h[k] = step(g[n], slots[k]) /\ h[k - 1] = g[n]
        BY <3>1, <4>1
      <4> QED
        BY <4>1, <4>2
    <3>2. CASE k = 0
      <4>1. 0 \in 0 .. n /\ 0 # n + 1
        BY SMTT(30)
      <4> QED
        BY <1>1, <3>2, <4>1
    <3>3. CASE k # 0 /\ k # n + 1
      <4>1. k \in 0 .. n /\ k - 1 \in 0 .. n + 1 /\ k - 1 # n + 1
        BY <3>3, SMTT(30)
      <4>2. h[k] = g[k] /\ h[k - 1] = g[k - 1]
        BY <3>3, <4>1
      <4> QED
        BY <1>1, <3>3, <4>1, <4>2
    <3> QED
      BY <3>1, <3>2, <3>3
  <2> QED
    BY <2>1
<1> QED
  BY <1>2 DEF IsRun, step

LEMMA RunExists ==
    ASSUME NEW start, NEW slots, NEW e, NEW n \in Nat
    PROVE  \E g : IsRun(g, start, slots, e, n)
<1> DEFINE P(m) == \E g : IsRun(g, start, slots, e, m)
           Bad == {m \in Nat : ~P(m)}
<1>1. P(0)
  <2>1. [k \in 0 .. 0 |-> start] =
          [k \in 0 .. 0 |-> IF k = 0 THEN start
                            ELSE ProcessVoteSlot([j \in 0 .. 0 |-> start][k - 1], slots[k], e)]
    BY SMTT(30)
  <2> QED
    BY <2>1 DEF IsRun
<1>2. \A m \in Nat : P(m) => P(m + 1)
  BY RunGrows
<1> HIDE DEF P
<1>3. Bad = {}
  <2> SUFFICES ASSUME Bad # {}
               PROVE  FALSE
    OBVIOUS
  <2>1. Bad \subseteq Nat
    OBVIOUS
  <2>2. PICK m \in Bad : \A k \in Bad : ~(<<k, m>> \in OpToRel(<, Nat))
    <3> HIDE DEF Bad
    <3> QED
      BY <2>1, NatLessThanWellFounded, WFMin
  <2>3. m \in Nat /\ ~P(m)
    OBVIOUS
  <2>4. m # 0
    BY <1>1, <2>3
  <2>5. m - 1 \in Nat /\ (m - 1) + 1 = m
    BY <2>3, <2>4, SMTT(30)
  <2>6. P(m - 1)
    <3> SUFFICES ASSUME ~P(m - 1)
                 PROVE  FALSE
      OBVIOUS
    <3>1. m - 1 \in Bad
      BY <2>5
    <3>2. <<m - 1, m>> \in OpToRel(<, Nat)
      BY <2>3, <2>5, SMTT(30) DEF OpToRel
    <3> QED
      BY <2>2, <3>1, <3>2
  <2>7. P(m)
    BY <1>2, <2>5, <2>6
  <2> QED
    BY <2>3, <2>7
<1> QED
  BY <1>3 DEF P

(* The states that the slots of a vote go through. *)
States(g, start, slots, e) ==
    /\ g[0] = start
    /\ \A k \in 1 .. Len(slots) : g[k] = ProcessVoteSlot(g[k - 1], slots[k], e)
    /\ ProcessVoteSlots(start, slots, e) = g[Len(slots)]

LEMMA RunSteps ==
    ASSUME NEW start, NEW slots, NEW e, Len(slots) \in Nat
    PROVE  \E g : States(g, start, slots, e)
<1> DEFINE n == Len(slots)
           IsG(g) == g = [k \in 0 .. n |-> IF k = 0 THEN start
                                           ELSE ProcessVoteSlot(g[k - 1], slots[k], e)]
           run == CHOOSE g : IsG(g)
<1>1. ProcessVoteSlots(start, slots, e) = run[n]
  BY DEF ProcessVoteSlots
<1>2. \E g : IsG(g)
  <2>1. n \in Nat
    OBVIOUS
  <2> HIDE DEF n
  <2>2. PICK g : IsRun(g, start, slots, e, n)
    BY <2>1, RunExists
  <2>3. IsG(g)
    BY <2>2 DEF IsRun
  <2> QED
    BY <2>3
<1>3. IsG(run)
  <2> HIDE DEF IsG
  <2> QED
    BY <1>2
<1> HIDE DEF run
<1>4. n \in Nat
  OBVIOUS
<1> HIDE DEF n
<1>5. /\ run[0] = start
      /\ \A k \in 1 .. n : run[k] = ProcessVoteSlot(run[k - 1], slots[k], e)
  <2> DEFINE step(r, s) == ProcessVoteSlot(r, s, e)
  <2> HIDE DEF step
  <2>1. run = [k \in 0 .. n |-> IF k = 0 THEN start ELSE step(run[k - 1], slots[k])]
    BY <1>3 DEF step
  <2>2. /\ run[0] = start
        /\ \A k \in 1 .. n : run[k] = step(run[k - 1], slots[k])
    <3> HIDE DEF IsG
    <3> QED
      BY <1>4, <2>1, SMTT(30)
  <2> QED
    BY <2>2 DEF step
<1>6. States(run, start, slots, e)
  BY <1>1, <1>5 DEF n, States
<1> QED
  BY <1>6

(***************************************************************************)
(* What becomes of a vote: it is rooted, it is still on the stack and      *)
(* confirmed no less, or it has expired at every later vote on the stack.  *)
(***************************************************************************)
Met(v, votes, root) ==
    \/ v.slot <= root
    \/ \E j \in DOMAIN votes :
          votes[j].slot = v.slot /\ votes[j].confirmation_count >= v.confirmation_count
    \/ /\ v.slot < last_voted_slot(votes)
       /\ \A j \in DOMAIN votes :
             /\ votes[j].slot # v.slot
             /\ votes[j].slot > v.slot => ~is_locked_out_at_slot(v, votes[j].slot)

(* The last vote has the greatest slot. *)
LEMMA LastIsGreatest ==
    ASSUME NEW votes \in Seq(Lockout), StackOK(votes), NEW i \in DOMAIN votes
    PROVE  /\ votes[i].slot \in Nat
           /\ Len(votes) \in DOMAIN votes
           /\ last_voted_slot(votes) = votes[Len(votes)].slot
           /\ last_voted_slot(votes) \in Nat
           /\ votes[i].slot <= last_voted_slot(votes)
<1>1. Len(votes) \in Nat /\ DOMAIN votes = 1 .. Len(votes)
  BY SMTT(30)
<1>2. Len(votes) \in DOMAIN votes /\ i <= Len(votes) /\ i \in Nat
  BY <1>1, SMTT(30)
<1>3. last_voted_slot(votes) = votes[Len(votes)].slot
  <2>1. votes # << >>
    BY <1>2, SMTT(30)
  <2> QED
    BY <2>1 DEF last_voted_slot
<1>4. votes[i].slot \in Nat /\ votes[Len(votes)].slot \in Nat
  BY <1>2, StackElement DEF Lockout
<1>5. i = Len(votes) \/ i < Len(votes)
  BY <1>1, <1>2, SMTT(30)
<1>6. i < Len(votes) => votes[i].slot < votes[Len(votes)].slot
  BY <1>2 DEF StackOK
<1> QED
  BY <1>2, <1>3, <1>4, <1>5, <1>6, SMTT(30)

(* A lockout that has expired stays expired, and so does a shorter one. *)
LEMMA ExpiredStays ==
    ASSUME NEW v \in Lockout, NEW w \in Lockout, NEW s \in Nat, NEW t \in Nat,
           v.slot = w.slot, v.confirmation_count <= w.confirmation_count, s <= t,
           ~is_locked_out_at_slot(w, s)
    PROVE  ~is_locked_out_at_slot(v, t)
<1>1. /\ v.confirmation_count \in Counts /\ w.confirmation_count \in Counts
      /\ v.slot \in Nat
  BY DEF Lockout, LockoutOn
<1>2. /\ lockout(v.confirmation_count) \in Nat /\ lockout(w.confirmation_count) \in Nat
      /\ lockout(v.confirmation_count) <= lockout(w.confirmation_count)
  BY <1>1, LockoutAssumption
<1>3. w.slot + lockout(w.confirmation_count) < s
  BY <1>1, <1>2, SMTT(30) DEF is_locked_out_at_slot, last_locked_out_slot
<1>4. v.slot + lockout(v.confirmation_count) < t
  BY <1>1, <1>2, <1>3, SMTT(30)
<1> QED
  BY <1>1, <1>2, <1>4, SMTT(30) DEF is_locked_out_at_slot, last_locked_out_slot

(* Recording one more vote meets every vote on the stack. *)
LEMMA RecordVoteMeets ==
    ASSUME NEW votes \in Seq(Lockout), StackOK(votes), NEW root, NEW s \in Nat,
           ~(s <= last_voted_slot(votes)), NEW i \in DOMAIN votes
    PROVE  LET new == process_next_vote_slot(votes, root, s)
           IN  Met(votes[i], new.votes, new.root)
<1> DEFINE new == process_next_vote_slot(votes, root, s)
           v   == votes[i]
<1> SUFFICES Met(v, new.votes, new.root)
  OBVIOUS
<1>1. PICK n \in 0 .. Len(votes), f \in {0, 1} :
         /\ \A k \in n + 1 .. Len(votes) : ~is_locked_out_at_slot(votes[k], s)
         /\ f <= n
         /\ new.root = IF f = 1 THEN votes[1].slot ELSE root
         /\ Len(new.votes) = n - f + 1
         /\ new.votes[n - f + 1].slot = s
         /\ \A j \in 1 .. n - f :
               /\ new.votes[j].slot = votes[j + f].slot
               /\ new.votes[j].confirmation_count >= votes[j + f].confirmation_count
  BY RecordVoteShape DEF Lockout
<1>2. new.votes \in Seq(Lockout)
  BY RecordVoteOK DEF Lockout
<1>3. last_voted_slot(new.votes) = s
  BY RecordVoteKeeps, SMTT(30) DEF Lockout
<1>4. v.slot \in Nat /\ v.slot < s
  BY LastIsGreatest, SMTT(30)
<1>5. /\ Len(votes) \in Nat /\ n \in Nat /\ f \in Nat /\ n <= Len(votes)
      /\ i \in 1 .. Len(votes) /\ i \in Nat
  BY SMTT(30)
<1> HIDE DEF new
<1>6. DOMAIN new.votes = 1 .. n - f + 1
  BY <1>1, <1>2, SMTT(30)
<1>7. CASE i <= n /\ f = 1 /\ i = 1
  <2>1. v.slot <= new.root
    BY <1>1, <1>4, <1>7, SMTT(30)
  <2> QED
    BY <2>1 DEF Met
<1>8. CASE i <= n /\ ~(f = 1 /\ i = 1)
  <2>1. i - f \in 1 .. n - f /\ (i - f) + f = i
    BY <1>5, <1>8, SMTT(30)
  <2>2. i - f \in DOMAIN new.votes
    BY <1>5, <1>6, <2>1, SMTT(30)
  <2>3. /\ new.votes[i - f].slot = v.slot
        /\ new.votes[i - f].confirmation_count >= v.confirmation_count
    BY <1>1, <2>1
  <2> QED
    BY <2>2, <2>3 DEF Met
<1>9. CASE i > n
  <2>1. ~is_locked_out_at_slot(v, s)
    <3>1. i \in n + 1 .. Len(votes)
      BY <1>5, <1>9, SMTT(30)
    <3> QED
      BY <1>1, <3>1
  <2>2. ASSUME NEW j \in DOMAIN new.votes
        PROVE  /\ new.votes[j].slot # v.slot
               /\ new.votes[j].slot > v.slot => ~is_locked_out_at_slot(v, new.votes[j].slot)
    <3>1. CASE j = n - f + 1
      BY <1>1, <1>4, <2>1, <3>1, SMTT(30)
    <3>2. CASE j # n - f + 1
      <4>1. j \in 1 .. n - f /\ j + f \in DOMAIN votes /\ j + f < i
        BY <1>5, <1>6, <1>9, <3>2, SMTT(30)
      <4>2. new.votes[j].slot = votes[j + f].slot
        BY <1>1, <4>1
      <4>3. votes[j + f].slot < v.slot /\ votes[j + f].slot \in Nat
        BY <4>1, LastIsGreatest DEF StackOK
      <4> QED
        BY <1>4, <4>2, <4>3, SMTT(30)
    <3> QED
      BY <3>1, <3>2
  <2> QED
    BY <1>3, <1>4, <2>2 DEF Met
<1> QED
  BY <1>5, <1>7, <1>8, <1>9, SMTT(30)

(* A vote that is met stays so when one more vote is recorded. *)
LEMMA MetStaysMet ==
    ASSUME NEW votes \in Seq(Lockout), StackOK(votes), NEW root \in Nat \cup {NoSlot},
           \A i \in DOMAIN votes : votes[i].slot > root,
           NEW s \in Nat, ~(s <= last_voted_slot(votes)),
           NEW v \in Lockout, Met(v, votes, root)
    PROVE  LET new == process_next_vote_slot(votes, root, s)
           IN  Met(v, new.votes, new.root)
<1> DEFINE new == process_next_vote_slot(votes, root, s)
<1> SUFFICES Met(v, new.votes, new.root)
  OBVIOUS
<1>1. v.slot \in Nat
  BY DEF Lockout, LockoutOn
<1>2. /\ new.votes \in Seq(Lockout)
      /\ last_voted_slot(new.votes) = s
      /\ \A j \in DOMAIN new.votes : new.votes[j].slot \in VotedSlots(votes) \cup {s}
      /\ new.root = root \/ new.root \in VotedSlots(votes)
  BY RecordVoteOK, RecordVoteKeeps, SMTT(30) DEF Lockout
<1>3. \A i \in DOMAIN votes :
         /\ votes[i] \in Lockout /\ votes[i].slot \in Nat
         /\ votes[i].confirmation_count \in Nat
         /\ votes[i].slot < s
         /\ Met(votes[i], new.votes, new.root)
  <2> TAKE i \in DOMAIN votes
  <2>1. /\ votes[i] \in Lockout /\ votes[i].slot \in Nat
        /\ votes[i].confirmation_count \in Nat
    BY StackElement, HistoryAssumption, SMTT(30) DEF Lockout, Counts
  <2>2. votes[i].slot < s
    BY LastIsGreatest, SMTT(30)
  <2>3. Met(votes[i], new.votes, new.root)
    BY RecordVoteMeets
  <2> QED
    BY <2>1, <2>2, <2>3
<1>4. \A j \in DOMAIN new.votes :
         /\ new.votes[j].slot \in Nat
         /\ new.votes[j].confirmation_count \in Nat
  BY <1>2, StackElement, HistoryAssumption, SMTT(30) DEF Lockout, Counts
<1> HIDE DEF new
<1>5. CASE v.slot <= root
  <2>1. v.slot <= new.root
    <3>1. CASE new.root = root
      BY <1>5, <3>1
    <3>2. CASE new.root \in VotedSlots(votes)
      <4>1. PICK i \in DOMAIN votes : new.root = votes[i].slot
        BY <3>2 DEF VotedSlots
      <4>2. votes[i].slot > root /\ votes[i].slot \in Nat
        BY <1>3
      <4> QED
        BY <1>1, <1>5, <4>1, <4>2, SMTT(30) DEF NoSlot
    <3> QED
      BY <1>2, <3>1, <3>2
  <2> QED
    BY <2>1 DEF Met
<1>6. CASE \E j \in DOMAIN votes : /\ votes[j].slot = v.slot
                                   /\ votes[j].confirmation_count >= v.confirmation_count
  <2>1. PICK i \in DOMAIN votes : /\ votes[i].slot = v.slot
                                  /\ votes[i].confirmation_count >= v.confirmation_count
    BY <1>6
  <2>2. v.confirmation_count \in Nat
    BY HistoryAssumption, SMTT(30) DEF Lockout, LockoutOn, Counts
  <2>3. CASE votes[i].slot <= new.root
    BY <2>1, <2>3 DEF Met
  <2>4. CASE \E j \in DOMAIN new.votes :
                /\ new.votes[j].slot = votes[i].slot
                /\ new.votes[j].confirmation_count >= votes[i].confirmation_count
    <3>1. PICK j \in DOMAIN new.votes :
                /\ new.votes[j].slot = votes[i].slot
                /\ new.votes[j].confirmation_count >= votes[i].confirmation_count
      BY <2>4
    <3>2. new.votes[j].confirmation_count >= v.confirmation_count
      BY <1>3, <1>4, <2>1, <2>2, <3>1, SMTT(30)
    <3> QED
      BY <2>1, <3>1, <3>2 DEF Met
  <2>5. CASE /\ votes[i].slot < last_voted_slot(new.votes)
             /\ \A j \in DOMAIN new.votes :
                   /\ new.votes[j].slot # votes[i].slot
                   /\ new.votes[j].slot > votes[i].slot =>
                         ~is_locked_out_at_slot(votes[i], new.votes[j].slot)
    <3>1. ASSUME NEW j \in DOMAIN new.votes, new.votes[j].slot > v.slot
          PROVE  ~is_locked_out_at_slot(v, new.votes[j].slot)
      <4>1. ~is_locked_out_at_slot(votes[i], new.votes[j].slot)
        BY <2>1, <2>5, <3>1
      <4>2. new.votes[j].slot \in Nat /\ new.votes[j].slot <= new.votes[j].slot
        BY <1>4, SMTT(30)
      <4>3. votes[i] \in Lockout /\ v.confirmation_count <= votes[i].confirmation_count
        BY <1>3, <2>1, <2>2
      <4> QED
        BY <2>1, <4>1, <4>2, <4>3, ExpiredStays
    <3> QED
      BY <2>1, <2>5, <3>1 DEF Met
  <2>6. Met(votes[i], new.votes, new.root)
    BY <1>3
  <2> QED
    BY <2>3, <2>4, <2>5, <2>6 DEF Met
<1>7. CASE /\ v.slot < last_voted_slot(votes)
           /\ \A j \in DOMAIN votes :
                 /\ votes[j].slot # v.slot
                 /\ votes[j].slot > v.slot => ~is_locked_out_at_slot(v, votes[j].slot)
  <2>1. votes # << >>
    BY <1>1, <1>7, SMTT(30) DEF last_voted_slot, NoSlot
  <2>2. Len(votes) \in DOMAIN votes /\ last_voted_slot(votes) = votes[Len(votes)].slot
    BY <2>1, SMTT(30) DEF last_voted_slot
  <2>3. ~is_locked_out_at_slot(v, s)
    <3>1. ~is_locked_out_at_slot(v, votes[Len(votes)].slot)
      BY <1>7, <2>2
    <3>2. votes[Len(votes)].slot \in Nat /\ votes[Len(votes)].slot <= s
      BY <1>3, <2>2, SMTT(30)
    <3>3. v.confirmation_count <= v.confirmation_count
      BY HistoryAssumption, SMTT(30) DEF Lockout, LockoutOn, Counts
    <3> QED
      BY <3>1, <3>2, <3>3, ExpiredStays
  <2>4. v.slot < s
    BY <1>1, <1>3, <1>7, <2>2, SMTT(30)
  <2>5. ASSUME NEW j \in DOMAIN new.votes
        PROVE  /\ new.votes[j].slot # v.slot
               /\ new.votes[j].slot > v.slot => ~is_locked_out_at_slot(v, new.votes[j].slot)
    <3>1. CASE new.votes[j].slot = s
      BY <1>1, <2>3, <2>4, <3>1, SMTT(30)
    <3>2. CASE new.votes[j].slot \in VotedSlots(votes)
      <4>1. PICK k \in DOMAIN votes : new.votes[j].slot = votes[k].slot
        BY <3>2 DEF VotedSlots
      <4> QED
        BY <1>7, <4>1
    <3> QED
      BY <1>2, <3>1, <3>2
  <2> QED
    BY <1>2, <2>4, <2>5 DEF Met
<1> QED
  BY <1>5, <1>6, <1>7 DEF Met

(***************************************************************************)
(* The stack and the root between two slots of a vote: the root is below   *)
(* every vote, and nothing is rooted before the first vote.                *)
(***************************************************************************)
StackInv(votes, root) ==
    /\ votes \in Seq(Lockout)
    /\ StackOK(votes)
    /\ root \in Nat \cup {NoSlot}
    /\ \A i \in DOMAIN votes : votes[i].slot > root
    /\ Len(votes) = 0 => root = NoSlot

(* How the stack that a vote leaves follows the one it found: "given" are the *)
(* slots of the vote.                                                         *)
Follows(votes, root, given, new_votes, new_root) ==
    /\ new_root >= root
    /\ last_voted_slot(new_votes) >= last_voted_slot(votes)
    /\ \A j \in DOMAIN new_votes :
          \/ new_votes[j].slot \in VotedSlots(votes)
          \/ /\ new_votes[j].slot \in given
             /\ new_votes[j].slot > last_voted_slot(votes)
    /\ \A i \in DOMAIN votes : Met(votes[i], new_votes, new_root)

(* The last vote is a slot, or there is none. *)
LEMMA LastVote ==
    ASSUME NEW votes \in Seq(Lockout)
    PROVE  last_voted_slot(votes) \in Nat \cup {NoSlot}
<1>1. CASE votes = << >>
  BY <1>1 DEF last_voted_slot
<1>2. CASE votes # << >>
  <2>1. Len(votes) \in DOMAIN votes
    BY <1>2, SMTT(30)
  <2>2. votes[Len(votes)].slot \in Nat
    BY <2>1, StackElement DEF Lockout
  <2> QED
    BY <1>2, <2>2 DEF last_voted_slot
<1> QED
  BY <1>1, <1>2

LEMMA StackInvKept ==
    ASSUME NEW votes, NEW root, StackInv(votes, root), NEW s \in Nat
    PROVE  LET new == process_next_vote_slot(votes, root, s)
           IN  StackInv(new.votes, new.root)
<1> DEFINE new == process_next_vote_slot(votes, root, s)
           last == last_voted_slot(votes)
<1> SUFFICES StackInv(new.votes, new.root)
  OBVIOUS
<1>0. votes \in Seq(Lockout) /\ StackOK(votes) /\ root \in Nat \cup {NoSlot}
  BY DEF StackInv
<1>1. CASE s <= last
  BY <1>1 DEF process_next_vote_slot
<1>2. CASE ~(s <= last)
  <2>1. /\ new.votes \in Seq(Lockout) /\ StackOK(new.votes)
        /\ new.votes # << >>
        /\ \A j \in DOMAIN new.votes : new.votes[j].slot \in VotedSlots(votes) \cup {s}
        /\ \/ new.root = root
           \/ /\ new.root \in VotedSlots(votes)
              /\ \A j \in DOMAIN new.votes : new.root < new.votes[j].slot
        /\ VotedSlots(votes) \subseteq Nat
    <3>1. /\ new.votes \in Seq(Lockout) /\ StackOK(new.votes)
          /\ VotedSlots(votes) \subseteq Nat
      BY <1>0, RecordVoteOK DEF Lockout
    <3>2. /\ new.votes # << >>
          /\ \A j \in DOMAIN new.votes : new.votes[j].slot \in VotedSlots(votes) \cup {s}
          /\ \/ new.root = root
             \/ /\ new.root \in VotedSlots(votes)
                /\ \A j \in DOMAIN new.votes : new.root < new.votes[j].slot
      BY <1>0, <1>2, RecordVoteKeeps, SMTT(30) DEF Lockout
    <3> HIDE DEF new
    <3> QED
      BY <3>1, <3>2
  <2> HIDE DEF new
  <2>2. Len(new.votes) # 0
    BY <2>1, SMTT(30)
  <2>3. new.root \in Nat \cup {NoSlot}
    BY <1>0, <2>1
  <2>4. s > root
    <3>1. CASE Len(votes) = 0
      BY <3>1, SMTT(30) DEF StackInv, NoSlot
    <3>2. CASE Len(votes) # 0
      <4>1. Len(votes) \in DOMAIN votes
        BY <1>0, <3>2, SMTT(30)
      <4>2. last = votes[Len(votes)].slot /\ last \in Nat
        BY <1>0, <4>1, LastIsGreatest
      <4>3. last > root
        BY <4>1, <4>2 DEF StackInv
      <4> QED
        BY <1>0, <1>2, <4>2, <4>3, SMTT(30) DEF NoSlot
    <3> QED
      BY <3>1, <3>2
  <2>5. ASSUME NEW j \in DOMAIN new.votes
        PROVE  new.votes[j].slot > new.root
    <3>1. CASE new.root = root
      <4>1. CASE new.votes[j].slot = s
        BY <2>4, <3>1, <4>1
      <4>2. CASE new.votes[j].slot \in VotedSlots(votes)
        <5>1. PICK i \in DOMAIN votes : new.votes[j].slot = votes[i].slot
          BY <4>2 DEF VotedSlots
        <5> QED
          BY <3>1, <5>1 DEF StackInv
      <4> QED
        BY <2>1, <4>1, <4>2
    <3>2. CASE /\ new.root \in VotedSlots(votes)
               /\ new.root < new.votes[j].slot
      <4>1. new.root \in Nat /\ new.votes[j].slot \in Nat
        BY <2>1, <3>2
      <4> QED
        BY <3>2, <4>1
    <3> QED
      BY <2>1, <3>1, <3>2
  <2> QED
    BY <2>1, <2>2, <2>3, <2>5 DEF StackInv
<1> QED
  BY <1>1, <1>2

(* A stack follows itself. *)
LEMMA FollowsItself ==
    ASSUME NEW votes, NEW root, StackInv(votes, root), NEW given
    PROVE  Follows(votes, root, given, votes, root)
<1>1. root >= root /\ last_voted_slot(votes) >= last_voted_slot(votes)
  BY LastVote, SMTT(30) DEF StackInv, NoSlot
<1>2. \A j \in DOMAIN votes : votes[j].slot \in VotedSlots(votes)
  BY DEF VotedSlots
<1>3. ASSUME NEW i \in DOMAIN votes
      PROVE  Met(votes[i], votes, root)
  <2>1. votes[i].confirmation_count >= votes[i].confirmation_count
    BY StackElement, HistoryAssumption, SMTT(30) DEF StackInv, Lockout, Counts
  <2> QED
    BY <2>1 DEF Met
<1> QED
  BY <1>1, <1>2, <1>3 DEF Follows

(* A stack that follows another still does after one more slot. *)
LEMMA FollowsOn ==
    ASSUME NEW v0, NEW r0, StackInv(v0, r0), NEW given, NEW votes, NEW root,
           StackInv(votes, root), Follows(v0, r0, given, votes, root),
           NEW s \in given, s \in Nat
    PROVE  LET new == process_next_vote_slot(votes, root, s)
           IN  /\ Follows(v0, r0, given, new.votes, new.root)
               /\ last_voted_slot(new.votes) >= s
               /\ last_voted_slot(new.votes) >= last_voted_slot(votes)
<1> DEFINE new == process_next_vote_slot(votes, root, s)
           last == last_voted_slot(votes)
           last0 == last_voted_slot(v0)
<1> SUFFICES /\ Follows(v0, r0, given, new.votes, new.root)
             /\ last_voted_slot(new.votes) >= s
             /\ last_voted_slot(new.votes) >= last
  OBVIOUS
<1>0. /\ votes \in Seq(Lockout) /\ StackOK(votes) /\ root \in Nat \cup {NoSlot}
      /\ v0 \in Seq(Lockout) /\ r0 \in Nat \cup {NoSlot}
      /\ \A i \in DOMAIN votes : votes[i].slot > root
  BY DEF StackInv
<1>1. last \in Nat \cup {NoSlot} /\ last0 \in Nat \cup {NoSlot} /\ last >= last0
  BY <1>0, LastVote DEF Follows
<1>2. CASE s <= last
  <2>1. new.votes = votes /\ new.root = root
    BY <1>2 DEF process_next_vote_slot
  <2>2. last >= s /\ last >= last
    BY <1>1, <1>2, SMTT(30) DEF NoSlot
  <2> HIDE DEF new
  <2> QED
    BY <2>1, <2>2
<1>3. CASE ~(s <= last)
  <2>1. /\ last_voted_slot(new.votes) = s
        /\ \A j \in DOMAIN new.votes : new.votes[j].slot \in VotedSlots(votes) \cup {s}
        /\ new.root = root \/ new.root \in VotedSlots(votes)
    BY <1>0, <1>3, RecordVoteKeeps, SMTT(30) DEF Lockout
  <2>2. \A i \in DOMAIN v0 : Met(v0[i], new.votes, new.root)
    <3> TAKE i \in DOMAIN v0
    <3>1. v0[i] \in Lockout
      BY <1>0, SMTT(30)
    <3>2. Met(v0[i], votes, root)
      BY DEF Follows
    <3> QED
      BY <1>0, <1>3, <3>1, <3>2, MetStaysMet
  <2> HIDE DEF new
  <2>3. s >= last0 /\ s > last0 /\ s >= s /\ s >= last
    BY <1>1, <1>3, SMTT(30) DEF NoSlot
  <2>4. new.root >= r0
    <3>1. root >= r0
      BY DEF Follows
    <3>2. CASE new.root = root
      BY <3>1, <3>2
    <3>3. CASE new.root \in VotedSlots(votes)
      <4>1. PICK i \in DOMAIN votes : new.root = votes[i].slot
        BY <3>3 DEF VotedSlots
      <4>2. votes[i].slot > root /\ votes[i].slot \in Nat
        BY <1>0, StackElement DEF Lockout
      <4> QED
        BY <1>0, <3>1, <4>1, <4>2, SMTT(30) DEF NoSlot
    <3> QED
      BY <2>1, <3>2, <3>3
  <2>5. ASSUME NEW j \in DOMAIN new.votes
        PROVE  \/ new.votes[j].slot \in VotedSlots(v0)
               \/ new.votes[j].slot \in given /\ new.votes[j].slot > last0
    <3>1. CASE new.votes[j].slot = s
      BY <2>3, <3>1
    <3>2. CASE new.votes[j].slot \in VotedSlots(votes)
      <4>1. PICK i \in DOMAIN votes : new.votes[j].slot = votes[i].slot
        BY <3>2 DEF VotedSlots
      <4> QED
        BY <4>1 DEF Follows
    <3> QED
      BY <2>1, <3>1, <3>2
  <2> QED
    BY <2>1, <2>2, <2>3, <2>4, <2>5 DEF Follows
<1> QED
  BY <1>2, <1>3

-----------------------------------------------------------------------------
(***************************************************************************)
(* The credits of a vote account: r of them, none after epoch e.           *)
(***************************************************************************)
CreditEntries == [epoch : Nat, credits : Nat, prev_credits : Nat]

CreditsLinked(ec, e) ==
    /\ ec \in Seq(CreditEntries)
    /\ \A i \in DOMAIN ec : ec[i].epoch <= e
    /\ \A i \in 1 .. Len(ec) - 1 :
          /\ ec[i].credits > ec[i].prev_credits
          /\ ec[i].epoch < ec[i + 1].epoch
          /\ ec[i].credits = ec[i + 1].prev_credits

CreditsOK(ec, r, e) ==
    /\ CreditsLinked(ec, e)
    /\ Len(ec) <= MAX_EPOCH_CREDITS_HISTORY
    /\ IF Len(ec) = 0 THEN r = 0
       ELSE r = ec[Len(ec)].credits /\ r > ec[Len(ec)].prev_credits

(* The credits just before one is counted: the last entry is of epoch e. *)
CreditsReady(ec, r, e) ==
    /\ CreditsLinked(ec, e)
    /\ Len(ec) # 0
    /\ ec[Len(ec)].epoch = e
    /\ ec[Len(ec)].credits = r
    /\ r >= ec[Len(ec)].prev_credits

(* The parts of an entry. *)
LEMMA CreditElement ==
    ASSUME NEW ec \in Seq(CreditEntries), NEW i \in DOMAIN ec
    PROVE  /\ ec[i] \in CreditEntries
           /\ ec[i].epoch \in Nat /\ ec[i].credits \in Nat /\ ec[i].prev_credits \in Nat
<1>1. ec[i] \in CreditEntries
  BY SMTT(30)
<1> QED
  BY <1>1 DEF CreditEntries

(* A new entry starts where the one before it ended. *)
LEMMA CreditsAppend ==
    ASSUME NEW ec, NEW r, NEW e \in Nat, CreditsOK(ec, r, e), Len(ec) # 0,
           ec[Len(ec)].epoch # e
    PROVE  CreditsReady(Append(ec, EpochCredits(e, r, r)), r, e)
<1> DEFINE m == Len(ec)
           n == EpochCredits(e, r, r)
           a == Append(ec, n)
<1>1. /\ ec \in Seq(CreditEntries) /\ m \in Nat /\ m # 0 /\ DOMAIN ec = 1 .. m
      /\ m \in DOMAIN ec
  BY SMTT(30) DEF CreditsOK, CreditsLinked
<1>2. r = ec[m].credits /\ r > ec[m].prev_credits /\ r \in Nat
  BY <1>1, CreditElement DEF CreditsOK
<1>3. ec[m].epoch < e
  <2>1. ec[m].epoch \in Nat /\ ec[m].epoch <= e
    BY <1>1, CreditElement DEF CreditsOK, CreditsLinked
  <2> QED
    BY <2>1, SMTT(30)
<1>4. n \in CreditEntries /\ n.epoch = e /\ n.credits = r /\ n.prev_credits = r
  BY <1>2 DEF CreditEntries, EpochCredits
<1> HIDE DEF n
<1>5. /\ a \in Seq(CreditEntries) /\ Len(a) = m + 1 /\ DOMAIN a = 1 .. m + 1
      /\ a[m + 1] = n /\ \A i \in 1 .. m : a[i] = ec[i]
  BY <1>1, <1>4, SMTT(30)
<1> HIDE DEF a, m
<1>6. \A i \in DOMAIN a : a[i].epoch <= e
  <2> SUFFICES ASSUME NEW i \in DOMAIN a
               PROVE  a[i].epoch <= e
    OBVIOUS
  <2>1. CASE i = m + 1
    BY <1>4, <1>5, <2>1, SMTT(30)
  <2>2. CASE i # m + 1
    <3>1. i \in DOMAIN ec /\ a[i] = ec[i]
      BY <1>1, <1>5, <2>2, SMTT(30)
    <3> QED
      BY <3>1 DEF CreditsOK, CreditsLinked
  <2> QED
    BY <2>1, <2>2
<1>7. ASSUME NEW i \in 1 .. Len(a) - 1
      PROVE  /\ a[i].credits > a[i].prev_credits
             /\ a[i].epoch < a[i + 1].epoch
             /\ a[i].credits = a[i + 1].prev_credits
  <2>1. i \in 1 .. m /\ a[i] = ec[i]
    BY <1>1, <1>5, SMTT(30)
  <2>2. CASE i = m
    BY <1>2, <1>3, <1>4, <1>5, <2>1, <2>2
  <2>3. CASE i # m
    <3>1. i \in 1 .. m - 1 /\ i + 1 \in 1 .. m
      BY <1>1, <2>1, <2>3, SMTT(30)
    <3>2. a[i + 1] = ec[i + 1]
      BY <1>5, <3>1
    <3> QED
      BY <2>1, <3>1, <3>2 DEF CreditsOK, CreditsLinked, m
  <2> QED
    BY <2>2, <2>3
<1>8. CreditsLinked(a, e)
  BY <1>5, <1>6, <1>7 DEF CreditsLinked
<1>9. Len(a) # 0 /\ a[Len(a)] = n /\ r >= r
  BY <1>1, <1>2, <1>5, SMTT(30)
<1> QED
  BY <1>4, <1>8, <1>9 DEF CreditsReady, a, n

(* The oldest entry may be dropped. *)
LEMMA CreditsTail ==
    ASSUME NEW ec, NEW r, NEW e \in Nat, CreditsReady(ec, r, e), Len(ec) > 1
    PROVE  /\ CreditsReady(Tail(ec), r, e)
           /\ Len(Tail(ec)) = Len(ec) - 1
<1> DEFINE m == Len(ec)
           t == Tail(ec)
<1>1. /\ ec \in Seq(CreditEntries) /\ m \in Nat /\ m > 1 /\ DOMAIN ec = 1 .. m
      /\ ec # << >>
  BY SMTT(30) DEF CreditsReady, CreditsLinked
<1>2. /\ t \in Seq(CreditEntries) /\ Len(t) = m - 1
      /\ \A i \in 1 .. m - 1 : t[i] = ec[i + 1]
  BY <1>1, SMTT(30)
<1>3. DOMAIN t = 1 .. m - 1
  BY <1>1, <1>2, SMTT(30)
<1> HIDE DEF t
<1>4. \A i \in DOMAIN t : t[i].epoch <= e
  <2> SUFFICES ASSUME NEW i \in DOMAIN t
               PROVE  t[i].epoch <= e
    OBVIOUS
  <2>1. i + 1 \in DOMAIN ec /\ t[i] = ec[i + 1]
    BY <1>1, <1>2, <1>3, SMTT(30)
  <2> QED
    BY <2>1 DEF CreditsReady, CreditsLinked
<1>5. ASSUME NEW i \in 1 .. Len(t) - 1
      PROVE  /\ t[i].credits > t[i].prev_credits
             /\ t[i].epoch < t[i + 1].epoch
             /\ t[i].credits = t[i + 1].prev_credits
  <2>1. /\ i + 1 \in 1 .. m - 1 /\ t[i] = ec[i + 1]
        /\ t[i + 1] = ec[(i + 1) + 1]
    BY <1>1, <1>2, SMTT(30)
  <2> QED
    BY <2>1 DEF CreditsReady, CreditsLinked
<1>6. Len(t) # 0 /\ t[Len(t)] = ec[m]
  BY <1>1, <1>2, SMTT(30)
<1>7. CreditsLinked(t, e)
  BY <1>2, <1>4, <1>5 DEF CreditsLinked
<1>8. CreditsReady(t, r, e)
  BY <1>6, <1>7 DEF CreditsReady
<1> QED
  BY <1>2, <1>8 DEF t

(* Replacing the last element of a sequence. *)
LEMMA ReplaceLast ==
    ASSUME NEW S, NEW q \in Seq(S), Len(q) # 0, NEW w \in S
    PROVE  LET c == [q EXCEPT ![Len(q)] = w]
           IN  /\ c \in Seq(S) /\ Len(c) = Len(q) /\ c[Len(q)] = w
               /\ \A i \in 1 .. Len(q) : i # Len(q) => c[i] = q[i]
<1> DEFINE m == Len(q)
           c == [q EXCEPT ![m] = w]
<1> SUFFICES /\ c \in Seq(S) /\ Len(c) = m /\ c[m] = w
             /\ \A i \in 1 .. m : i # m => c[i] = q[i]
  OBVIOUS
<1>1. m \in Nat /\ DOMAIN q = 1 .. m /\ q \in [1 .. m -> S] /\ m \in 1 .. m
  BY SMTT(30)
<1> HIDE DEF m
<1>2. c \in [1 .. m -> S] /\ c[m] = w /\ \A i \in 1 .. m : i # m => c[i] = q[i]
  BY <1>1
<1> HIDE DEF c
<1> QED
  BY <1>1, <1>2, SMTT(30)

(* Counting one credit in the last entry. *)
LEMMA CreditsCount ==
    ASSUME NEW ec, NEW r, NEW e \in Nat, CreditsReady(ec, r, e),
           Len(ec) <= MAX_EPOCH_CREDITS_HISTORY,
           NEW c \in Seq(CreditEntries), Len(c) = Len(ec),
           NEW w \in CreditEntries, c[Len(ec)] = w,
           w.credits = r + 1, w.epoch = e, w.prev_credits = ec[Len(ec)].prev_credits,
           \A i \in 1 .. Len(ec) : i # Len(ec) => c[i] = ec[i]
    PROVE  CreditsOK(c, r + 1, e)
<1> DEFINE m == Len(ec)
<1>1. /\ ec \in Seq(CreditEntries) /\ m \in Nat /\ m # 0 /\ DOMAIN ec = 1 .. m
      /\ m \in DOMAIN ec /\ DOMAIN c = 1 .. m /\ c[m] = w
      /\ \A i \in 1 .. m : i # m => c[i] = ec[i]
  BY SMTT(30) DEF CreditsReady, CreditsLinked
<1>2. /\ r >= ec[m].prev_credits /\ ec[m].epoch = e
      /\ r \in Nat /\ ec[m].prev_credits \in Nat
  <2>1. ec[m].credits \in Nat /\ ec[m].prev_credits \in Nat
    BY <1>1, CreditElement
  <2> QED
    BY <2>1 DEF CreditsReady
<1> HIDE DEF m
<1>3. \A i \in DOMAIN c : c[i].epoch <= e
  <2> SUFFICES ASSUME NEW i \in DOMAIN c
               PROVE  c[i].epoch <= e
    OBVIOUS
  <2>1. CASE i = m
    BY <1>1, <2>1, SMTT(30)
  <2>2. CASE i # m
    <3>1. c[i] = ec[i] /\ i \in DOMAIN ec
      BY <1>1, <2>2
    <3> QED
      BY <3>1 DEF CreditsReady, CreditsLinked
  <2> QED
    BY <2>1, <2>2
<1>4. ASSUME NEW i \in 1 .. Len(c) - 1
      PROVE  /\ c[i].credits > c[i].prev_credits
             /\ c[i].epoch < c[i + 1].epoch
             /\ c[i].credits = c[i + 1].prev_credits
  <2>0. i \in 1 .. m - 1
    BY DEF m
  <2>1. c[i] = ec[i] /\ i + 1 \in 1 .. m
    BY <1>1, <2>0, SMTT(30)
  <2>2. c[i + 1].epoch = ec[i + 1].epoch /\ c[i + 1].prev_credits = ec[i + 1].prev_credits
    <3>1. CASE i + 1 = m
      BY <1>1, <1>2, <3>1, SMTT(30)
    <3>2. CASE i + 1 # m
      BY <1>1, <2>1, <3>2
    <3> QED
      BY <3>1, <3>2
  <2> QED
    BY <2>0, <2>1, <2>2 DEF CreditsReady, CreditsLinked, m
<1>5. CreditsLinked(c, e)
  BY <1>3, <1>4 DEF CreditsLinked
<1>6. r + 1 > ec[m].prev_credits
  BY <1>2, SMTT(30)
<1>7. Len(c) # 0 /\ Len(c) <= MAX_EPOCH_CREDITS_HISTORY /\ c[Len(c)] = w
  <2>1. Len(c) = m /\ m <= MAX_EPOCH_CREDITS_HISTORY
    BY DEF m
  <2> QED
    BY <1>1, <2>1
<1> QED
  BY <1>5, <1>6, <1>7 DEF CreditsOK, m

(* increment_credits counts one credit and keeps the entries linked. *)
LEMMA CreditsIncrement ==
    ASSUME NEW ec, NEW r, NEW e \in Nat, CreditsOK(ec, r, e)
    PROVE  CreditsOK(increment_credits(ec, e), r + 1, e)
<1> DEFINE last  == ec[Len(ec)]
           moved == CASE ec = << >> -> <<EpochCredits(e, 0, 0)>>
                      [] ec # << >> /\ last.epoch = e -> ec
                      [] ec # << >> /\ last.epoch # e /\ last.credits # last.prev_credits ->
                           Append(ec, EpochCredits(e, last.credits, last.credits))
                      [] OTHER -> [ec EXCEPT ![Len(ec)].epoch = e]
           fit   == IF Len(moved) > MAX_EPOCH_CREDITS_HISTORY THEN Tail(moved) ELSE moved
<1>0. MAX_EPOCH_CREDITS_HISTORY \in Nat \ {0}
  BY SizeAssumption
<1>1. /\ ec \in Seq(CreditEntries) /\ Len(ec) \in Nat
      /\ Len(ec) <= MAX_EPOCH_CREDITS_HISTORY
  BY SMTT(30) DEF CreditsOK, CreditsLinked
<1>2. CreditsReady(moved, r, e) /\ Len(moved) \in 1 .. MAX_EPOCH_CREDITS_HISTORY + 1
  <2>1. CASE ec = << >>
    <3> DEFINE x == EpochCredits(e, 0, 0)
    <3>1. moved = <<x>> /\ r = 0
      BY <2>1 DEF CreditsOK
    <3>2. x \in CreditEntries /\ x.epoch = e /\ x.credits = 0 /\ x.prev_credits = 0
      BY DEF CreditEntries, EpochCredits
    <3> HIDE DEF x, moved
    <3>3. /\ moved \in Seq(CreditEntries) /\ Len(moved) = 1
          /\ moved[1] = x
      BY <3>1, <3>2, SMTT(30)
    <3>4. CreditsLinked(moved, e)
      <4>1. \A i \in DOMAIN moved : i = 1
        BY <3>3, SMTT(30)
      <4> QED
        BY <3>2, <3>3, <4>1, SMTT(30) DEF CreditsLinked
    <3> QED
      BY <1>0, <3>1, <3>2, <3>3, <3>4, SMTT(30) DEF CreditsReady
  <2>2. CASE ec # << >>
    <3>1. Len(ec) # 0 /\ r = last.credits /\ r > last.prev_credits
      BY <1>1, <2>2, SMTT(30) DEF CreditsOK
    <3>2. last.credits \in Nat /\ last.prev_credits \in Nat
      BY <1>1, <3>1, CreditElement, SMTT(30)
    <3>3. last.credits # last.prev_credits /\ r >= last.prev_credits
      BY <3>1, <3>2, SMTT(30)
    <3>4. CASE last.epoch = e
      <4>1. moved = ec
        BY <2>2, <3>4
      <4>2. CreditsReady(ec, r, e)
        BY <3>1, <3>3, <3>4 DEF CreditsReady, CreditsOK
      <4> HIDE DEF moved
      <4> QED
        BY <1>0, <1>1, <3>1, <4>1, <4>2, SMTT(30)
    <3>5. CASE last.epoch # e
      <4>1. moved = Append(ec, EpochCredits(e, r, r))
        BY <2>2, <3>1, <3>3, <3>5
      <4>2. CreditsReady(Append(ec, EpochCredits(e, r, r)), r, e)
        BY <3>1, <3>5, CreditsAppend
      <4>3. Len(Append(ec, EpochCredits(e, r, r))) = Len(ec) + 1
        BY <1>1, SMTT(30)
      <4> HIDE DEF moved
      <4> QED
        BY <1>0, <1>1, <4>1, <4>2, <4>3, SMTT(30)
    <3> QED
      BY <3>4, <3>5
  <2> QED
    BY <2>1, <2>2
<1> HIDE DEF moved
<1>3. CreditsReady(fit, r, e) /\ Len(fit) <= MAX_EPOCH_CREDITS_HISTORY
  <2>1. CASE Len(moved) > MAX_EPOCH_CREDITS_HISTORY
    <3>1. Len(moved) > 1 /\ Len(moved) - 1 <= MAX_EPOCH_CREDITS_HISTORY /\ fit = Tail(moved)
      BY <1>0, <1>2, <2>1, SMTT(30)
    <3> QED
      BY <1>2, <3>1, CreditsTail
  <2>2. CASE ~(Len(moved) > MAX_EPOCH_CREDITS_HISTORY)
    BY <1>0, <1>2, <2>2, SMTT(30)
  <2> QED
    BY <2>1, <2>2
<1> HIDE DEF fit
<1>4. increment_credits(ec, e) = [fit EXCEPT ![Len(fit)].credits = @ + 1]
  BY DEF increment_credits, fit, moved
<1> DEFINE m == Len(fit)
           w == [fit[m] EXCEPT !.credits = fit[m].credits + 1]
           c == [fit EXCEPT ![m] = w]
<1>5. /\ fit \in Seq(CreditEntries) /\ m # 0 /\ m \in DOMAIN fit
      /\ fit[m] \in [epoch : Nat, credits : Nat, prev_credits : Nat]
      /\ fit[m].credits = r /\ fit[m].epoch = e
  BY <1>3, CreditElement, SMTT(30) DEF CreditsReady, CreditsLinked, CreditEntries
<1>6. increment_credits(ec, e) = c
  BY <1>4, <1>5
<1>7. /\ w \in CreditEntries
      /\ w.credits = r + 1 /\ w.epoch = e /\ w.prev_credits = fit[m].prev_credits
  <2> DEFINE x == fit[m]
  <2>1. x \in [epoch : Nat, credits : Nat, prev_credits : Nat] /\ x.credits = r /\ x.epoch = e
    BY <1>5
  <2> HIDE DEF x
  <2>2. w = [x EXCEPT !.credits = x.credits + 1]
    BY DEF x
  <2> HIDE DEF w
  <2> QED
    BY <2>1, <2>2, SMTT(30) DEF CreditEntries, x
<1> HIDE DEF w
<1>8. /\ c \in Seq(CreditEntries) /\ Len(c) = m /\ c[m] = w
      /\ \A i \in 1 .. m : i # m => c[i] = fit[i]
  BY <1>5, <1>7, ReplaceLast, SMTT(30)
<1> HIDE DEF c
<1>9. CreditsOK(c, r + 1, e)
  BY <1>3, <1>7, <1>8, CreditsCount
<1> QED
  BY <1>6, <1>9

-----------------------------------------------------------------------------
(* A set of numbers has a least one. *)
LEMMA LeastNumber ==
    ASSUME NEW S \in SUBSET Nat, S # {}
    PROVE  \E m \in S : \A k \in S : ~(k < m)
<1>1. PICK m \in S : \A k \in S : ~(<<k, m>> \in OpToRel(<, Nat))
  BY NatLessThanWellFounded, WFMin
<1>2. \A k \in S : k < m => <<k, m>> \in OpToRel(<, Nat)
  BY SMTT(30) DEF OpToRel
<1> QED
  BY <1>1, <1>2

(* Induction up to n, for a set of numbers. *)
LEMMA UpTo ==
    ASSUME NEW n \in Nat, NEW S, 0 \in S, \A k \in 1 .. n : k - 1 \in S => k \in S
    PROVE  n \in S
<1> SUFFICES ASSUME n \notin S PROVE FALSE
  OBVIOUS
<1> DEFINE T == {k \in Nat : k \notin S /\ k <= n}
<1>1. T \subseteq Nat
  OBVIOUS
<1>2. T # {}
  <2>1. n <= n
    BY SMTT(30)
  <2> QED
    BY <2>1
<1> HIDE DEF T
<1>3. PICK m \in T : \A k \in T : ~(k < m)
  BY <1>1, <1>2, LeastNumber
<1>4. m \in Nat /\ m \notin S /\ m <= n
  BY DEF T
<1>5. m # 0
  BY <1>4
<1>6. m \in 1 .. n /\ m - 1 \in Nat /\ m - 1 <= n /\ m - 1 < m
  BY <1>4, <1>5, SMTT(30)
<1>7. m - 1 \notin S
  BY <1>4, <1>6
<1>8. m - 1 \in T
  BY <1>6, <1>7 DEF T
<1> QED
  BY <1>3, <1>6, <1>8

(* The fields of the state after one slot of a vote. *)
LEMMA SlotFields ==
    ASSUME NEW run, NEW s, NEW e
    PROVE  /\ ProcessVoteSlot(run, s, e).votes
                 = process_next_vote_slot(run.votes, run.root_slot, s).votes
           /\ ProcessVoteSlot(run, s, e).root_slot
                 = process_next_vote_slot(run.votes, run.root_slot, s).root
           /\ \/ /\ ProcessVoteSlot(run, s, e).epoch_credits
                      = increment_credits(run.epoch_credits, e)
                 /\ ProcessVoteSlot(run, s, e).rooted = run.rooted + 1
              \/ /\ ProcessVoteSlot(run, s, e).epoch_credits = run.epoch_credits
                 /\ ProcessVoteSlot(run, s, e).rooted = run.rooted
  BY DEF ProcessVoteSlot

(***************************************************************************)
(* process_vote: after all the slots of a vote the stack and the credits   *)
(* are still well formed, the stack follows the one before the vote, and   *)
(* the last vote is at least every slot given.                             *)
(***************************************************************************)
RunInv(v0, r0, given, run, e) ==
    /\ StackInv(run.votes, run.root_slot)
    /\ CreditsOK(run.epoch_credits, run.rooted, e)
    /\ Follows(v0, r0, given, run.votes, run.root_slot)

LEMMA RunStep ==
    ASSUME NEW v0, NEW r0, StackInv(v0, r0), NEW given, NEW run, NEW e \in Nat,
           RunInv(v0, r0, given, run, e), NEW s \in given, s \in Nat
    PROVE  LET new == ProcessVoteSlot(run, s, e)
           IN  /\ RunInv(v0, r0, given, new, e)
               /\ last_voted_slot(new.votes) >= s
               /\ last_voted_slot(new.votes) >= last_voted_slot(run.votes)
<1> DEFINE new == ProcessVoteSlot(run, s, e)
           r   == process_next_vote_slot(run.votes, run.root_slot, s)
<1> SUFFICES /\ RunInv(v0, r0, given, new, e)
             /\ last_voted_slot(new.votes) >= s
             /\ last_voted_slot(new.votes) >= last_voted_slot(run.votes)
  OBVIOUS
<1>1. StackInv(run.votes, run.root_slot) /\ Follows(v0, r0, given, run.votes, run.root_slot)
      /\ CreditsOK(run.epoch_credits, run.rooted, e)
  BY DEF RunInv
<1>2. StackInv(r.votes, r.root)
  BY <1>1, StackInvKept
<1>3. /\ Follows(v0, r0, given, r.votes, r.root)
      /\ last_voted_slot(r.votes) >= s
      /\ last_voted_slot(r.votes) >= last_voted_slot(run.votes)
  BY <1>1, FollowsOn
<1>4. /\ new.votes = r.votes /\ new.root_slot = r.root
      /\ \/ /\ new.epoch_credits = increment_credits(run.epoch_credits, e)
            /\ new.rooted = run.rooted + 1
         \/ new.epoch_credits = run.epoch_credits /\ new.rooted = run.rooted
  BY SlotFields, SMTT(30)
<1> HIDE DEF new, r
<1>5. CreditsOK(new.epoch_credits, new.rooted, e)
  BY <1>1, <1>4, CreditsIncrement
<1> QED
  BY <1>2, <1>3, <1>4, <1>5 DEF RunInv

LEMMA RunOK ==
    ASSUME NEW start, NEW slots, Len(slots) \in Nat,
           \A k \in 1 .. Len(slots) : slots[k] \in Nat,
           NEW e \in Nat, NEW given, \A k \in 1 .. Len(slots) : slots[k] \in given,
           StackInv(start.votes, start.root_slot),
           CreditsOK(start.epoch_credits, start.rooted, e)
    PROVE  LET new == ProcessVoteSlots(start, slots, e)
           IN  /\ RunInv(start.votes, start.root_slot, given, new, e)
               /\ \A i \in 1 .. Len(slots) : last_voted_slot(new.votes) >= slots[i]
<1> DEFINE v0 == start.votes
           r0 == start.root_slot
           n  == Len(slots)
<1>1. PICK g : /\ g[0] = start
               /\ \A k \in 1 .. n : g[k] = ProcessVoteSlot(g[k - 1], slots[k], e)
               /\ ProcessVoteSlots(start, slots, e) = g[n]
  <2>1. PICK g : States(g, start, slots, e)
    BY RunSteps
  <2> QED
    BY <2>1 DEF States
<1>2. n \in Nat /\ StackInv(v0, r0) /\ \A k \in 1 .. n : slots[k] \in Nat /\ slots[k] \in given
  OBVIOUS
<1> DEFINE P(k) == /\ RunInv(v0, r0, given, g[k], e)
                   /\ \A i \in 1 .. k : last_voted_slot(g[k].votes) >= slots[i]
           S == {k \in 0 .. n : P(k)}
<1> SUFFICES P(n)
  BY <1>1
<1>3. RunInv(v0, r0, given, start, e)
  BY FollowsItself DEF RunInv
<1> HIDE DEF n, v0, r0
<1>4. 0 \in S
  <2>1. 0 \in 0 .. n /\ \A i \in 1 .. 0 : FALSE
    BY <1>2, SMTT(30)
  <2> QED
    BY <1>1, <1>3, <2>1
<1>5. ASSUME NEW k \in 1 .. n, k - 1 \in S PROVE k \in S
  <2>1. RunInv(v0, r0, given, g[k - 1], e)
        /\ \A i \in 1 .. k - 1 : last_voted_slot(g[k - 1].votes) >= slots[i]
    BY <1>5
  <2>2. g[k] = ProcessVoteSlot(g[k - 1], slots[k], e) /\ slots[k] \in Nat /\ slots[k] \in given
    BY <1>1, <1>2
  <2>3. /\ RunInv(v0, r0, given, g[k], e)
        /\ last_voted_slot(g[k].votes) >= slots[k]
        /\ last_voted_slot(g[k].votes) >= last_voted_slot(g[k - 1].votes)
    BY <1>2, <2>1, <2>2, RunStep
  <2> DEFINE a == last_voted_slot(g[k - 1].votes)
             b == last_voted_slot(g[k].votes)
  <2>4. a \in Int /\ b \in Int
    <3>1. a \in Nat \cup {NoSlot} /\ b \in Nat \cup {NoSlot}
      BY <2>1, <2>3, LastVote DEF RunInv, StackInv
    <3> HIDE DEF a, b
    <3> QED
      BY <3>1, SMTT(30) DEF NoSlot
  <2>5. b >= slots[k] /\ b >= a /\ \A i \in 1 .. k - 1 : a >= slots[i]
    BY <2>1, <2>3
  <2> HIDE DEF a, b
  <2>6. ASSUME NEW i \in 1 .. k PROVE b >= slots[i]
    <3>1. i = k \/ i \in 1 .. k - 1
      BY SMTT(30)
    <3>2. slots[i] \in Nat
      <4>1. i \in 1 .. n
        BY <1>2, SMTT(30)
      <4> QED
        BY <1>2, <4>1
    <3>3. CASE i = k
      BY <2>5, <3>3
    <3>4. CASE i \in 1 .. k - 1
      <4> DEFINE x == slots[i]
      <4>1. a >= x /\ x \in Nat
        BY <2>5, <3>2, <3>4
      <4> HIDE DEF x
      <4>2. b >= x
        BY <2>4, <2>5, <4>1, SMTT(30)
      <4> QED
        BY <4>2 DEF x
    <3> QED
      BY <3>1, <3>3, <3>4
  <2>7. k \in 0 .. n
    BY <1>2, SMTT(30)
  <2> QED
    BY <2>3, <2>6, <2>7 DEF b
<1>6. n \in S
  <2> HIDE DEF S
  <2> QED
    BY <1>2, <1>4, <1>5, UpTo
<1> QED
  BY <1>6

(* Such a stack is one that process_new_vote_state calls well formed. *)
LEMMA StackWellFormed ==
    ASSUME NEW votes, NEW root, StackInv(votes, root), Len(votes) # 0
    PROVE  NewStateWellFormed(votes, root)
<1> DEFINE m == Len(votes)
<1>1. votes \in Seq(Lockout) /\ StackOK(votes) /\ \A i \in DOMAIN votes : votes[i].slot > root
  BY DEF StackInv
<1>2. DOMAIN votes = 1 .. m /\ m \in Nat
  BY <1>1, SMTT(30)
<1>3. m \in 1 .. MAX_LOCKOUT_HISTORY
  BY <1>1, <1>2, HistoryAssumption, SMTT(30) DEF StackOK
<1>4. ASSUME NEW i \in DOMAIN votes
      PROVE  votes[i].confirmation_count \in 1 .. MAX_LOCKOUT_HISTORY
  <2>1. i \in 1 .. m /\ votes[i].confirmation_count \in m - i + 1 .. MAX_LOCKOUT_HISTORY
    BY <1>1, <1>2 DEF StackOK
  <2> HIDE DEF m
  <2> QED
    BY <1>2, <2>1, HistoryAssumption, SMTT(30)
<1>5. ASSUME NEW i \in 1 .. m - 1
      PROVE  /\ votes[i].slot < votes[i + 1].slot
             /\ votes[i].confirmation_count > votes[i + 1].confirmation_count
             /\ is_locked_out_at_slot(votes[i], votes[i + 1].slot)
  <2> HIDE DEF m
  <2>1. i \in DOMAIN votes /\ i + 1 \in DOMAIN votes /\ i < i + 1
    BY <1>2, SMTT(30)
  <2> QED
    BY <1>1, <2>1 DEF StackOK, m
<1> QED
  BY <1>1, <1>3, <1>4, <1>5 DEF NewStateWellFormed

(***************************************************************************)
(* A stack that follows another and has a newer last vote is one that      *)
(* process_new_vote_state accepts in its place.                            *)
(***************************************************************************)
LEMMA FollowsAccepted ==
    ASSUME NEW votes, NEW root, StackInv(votes, root),
           NEW new_votes, NEW new_root, StackInv(new_votes, new_root),
           NEW given, Follows(votes, root, given, new_votes, new_root),
           last_voted_slot(new_votes) > last_voted_slot(votes)
    PROVE  process_new_vote_state_accepts(votes, root, new_votes, new_root)
<1>1. /\ votes \in Seq(Lockout) /\ new_votes \in Seq(Lockout)
      /\ StackOK(votes) /\ StackOK(new_votes)
      /\ \A j \in DOMAIN new_votes : new_votes[j].slot > new_root
      /\ root \in Nat \cup {NoSlot} /\ new_root \in Nat \cup {NoSlot}
  BY DEF StackInv
<1> DEFINE m == Len(new_votes)
<1>2. m \in Nat /\ DOMAIN new_votes = 1 .. m
  BY <1>1, SMTT(30)
<1>3. m # 0
  <2> SUFFICES ASSUME m = 0 PROVE FALSE
    OBVIOUS
  <2>1. last_voted_slot(new_votes) = NoSlot
    BY <1>1, SMTT(30) DEF last_voted_slot
  <2>2. last_voted_slot(votes) \in Nat \cup {NoSlot}
    BY <1>1, LastVote
  <2> QED
    BY <2>1, <2>2, SMTT(30) DEF NoSlot
<1>4. \A i \in DOMAIN new_votes : new_votes[i].slot \in Nat
  BY <1>1, StackElement DEF Lockout
<1>5. NewStateWellFormed(new_votes, new_root)
  BY <1>3, StackWellFormed
<1>6. ASSUME NEW i \in DOMAIN votes, votes[i].slot > new_root
      PROVE  \E j \in DOMAIN new_votes :
                /\ \A k \in 1 .. j - 1 : new_votes[k].slot < votes[i].slot
                /\ \/ /\ new_votes[j].slot = votes[i].slot
                      /\ new_votes[j].confirmation_count >= votes[i].confirmation_count
                   \/ /\ new_votes[j].slot > votes[i].slot
                      /\ ~is_locked_out_at_slot(votes[i], new_votes[j].slot)
  <2> DEFINE v == votes[i]
  <2>1. v.slot \in Nat
    BY <1>1, StackElement DEF Lockout
  <2>2. Met(v, new_votes, new_root)
    BY DEF Follows
  <2>3. v.slot > new_root
    BY <1>6
  <2> HIDE DEF v, m
  <2>4. CASE v.slot <= new_root
    BY <1>1, <2>1, <2>3, <2>4, SMTT(30) DEF NoSlot
  <2>5. CASE \E j \in DOMAIN new_votes :
                new_votes[j].slot = v.slot
                /\ new_votes[j].confirmation_count >= v.confirmation_count
    <3>1. PICK j \in DOMAIN new_votes :
                new_votes[j].slot = v.slot
                /\ new_votes[j].confirmation_count >= v.confirmation_count
      BY <2>5
    <3>2. ASSUME NEW k \in 1 .. j - 1 PROVE new_votes[k].slot < v.slot
      <4>1. k \in DOMAIN new_votes /\ k < j
        BY <1>2, SMTT(30)
      <4> QED
        BY <1>1, <3>1, <4>1 DEF StackOK
    <3> QED
      BY <3>1, <3>2 DEF v
  <2>6. CASE /\ v.slot < last_voted_slot(new_votes)
             /\ \A j \in DOMAIN new_votes :
                   /\ new_votes[j].slot # v.slot
                   /\ new_votes[j].slot > v.slot =>
                         ~is_locked_out_at_slot(v, new_votes[j].slot)
    <3> DEFINE T == {j \in DOMAIN new_votes : new_votes[j].slot > v.slot}
    <3>1. T \in SUBSET Nat
      BY <1>2, SMTT(30)
    <3>2. m \in T
      <4>1. m \in DOMAIN new_votes
        BY <1>2, <1>3, SMTT(30)
      <4>2. last_voted_slot(new_votes) = new_votes[m].slot
        BY <1>1, <4>1, LastIsGreatest DEF m
      <4>3. new_votes[m].slot \in Nat
        BY <1>4, <4>1
      <4>4. new_votes[m].slot > v.slot
        BY <2>1, <2>6, <4>2, <4>3, SMTT(30)
      <4> QED
        BY <4>1, <4>4
    <3>3. PICK j \in T : \A k \in T : ~(k < j)
      <4> HIDE DEF T
      <4> QED
        BY <3>1, <3>2, LeastNumber
    <3>4. j \in DOMAIN new_votes /\ new_votes[j].slot > v.slot
      OBVIOUS
    <3>5. ASSUME NEW k \in 1 .. j - 1 PROVE new_votes[k].slot < v.slot
      <4>1. k \in DOMAIN new_votes /\ k < j
        BY <1>2, <3>4, SMTT(30)
      <4>2. ~(new_votes[k].slot > v.slot)
        BY <3>3, <4>1
      <4>3. new_votes[k].slot # v.slot /\ new_votes[k].slot \in Nat
        BY <1>4, <2>6, <4>1
      <4> QED
        BY <2>1, <4>2, <4>3, SMTT(30)
    <3> QED
      BY <2>6, <3>4, <3>5 DEF v
  <2> QED
    BY <2>2, <2>4, <2>5, <2>6 DEF Met
<1>7. NoRollback(votes, new_votes, new_root)
  BY <1>6 DEF NoRollback
<1> QED
  BY <1>5, <1>7 DEF process_new_vote_state_accepts, Follows

-----------------------------------------------------------------------------
(***************************************************************************)
(* Epochs: they do not go back as slots increase, and the leader schedule  *)
(* is fixed less than MAX_LEADER_SCHEDULE_EPOCH_OFFSET epochs ahead.       *)
(***************************************************************************)
LEMMA DivFacts ==
    ASSUME NEW n \in Nat \ {0}, NEW a \in Nat
    PROVE  a \div n \in Nat /\ a < (a \div n) * n + n
  BY SMTT(30)

LEMMA DivMono ==
    ASSUME NEW n \in Nat \ {0}, NEW a \in Nat, NEW b \in Nat, a <= b
    PROVE  a \div n <= b \div n
  BY SMTT(30)

LEMMA DivLess ==
    ASSUME NEW n \in Nat \ {0}, NEW a \in Nat, NEW q \in Nat, a < q * n
    PROVE  a \div n < q
  BY SMTT(30)

LEMMA DivAdd ==
    ASSUME NEW n \in Nat \ {0}, NEW a \in Nat, NEW c \in Nat, NEW m \in Nat, c <= m * n
    PROVE  (a + c) \div n <= (a \div n) + m
<1> DEFINE q == a \div n
<1>1. a < q * n + n /\ q \in Nat
  BY DivFacts
<1> HIDE DEF q
<1>2. q * n + n + m * n = (q + 1 + m) * n
  BY <1>1, SMTT(30)
<1>3. q * n \in Nat /\ m * n \in Nat /\ (q + 1 + m) * n \in Nat /\ q + 1 + m \in Nat
  BY <1>1, SMTT(30)
<1>4. a + c < (q + 1 + m) * n /\ a + c \in Nat
  BY <1>1, <1>2, <1>3, SMTT(30)
<1>5. (a + c) \div n < q + 1 + m
  BY <1>3, <1>4, DivLess
<1>6. (a + c) \div n \in Nat
  BY <1>4, DivFacts
<1> QED
  BY <1>1, <1>5, <1>6, SMTT(30) DEF q

LEMMA Epochs ==
    ASSUME NEW s \in Nat
    PROVE  /\ get_epoch(s) \in Nat /\ get_leader_schedule_epoch(s) \in Nat
           /\ get_epoch(s) <= get_leader_schedule_epoch(s)
           /\ get_leader_schedule_epoch(s) + 1 <= get_epoch(s) + MAX_LEADER_SCHEDULE_EPOCH_OFFSET
           /\ \A t \in Nat : s <= t =>
                 /\ get_epoch(s) <= get_epoch(t)
                 /\ get_leader_schedule_epoch(s) <= get_leader_schedule_epoch(t)
<1> DEFINE n == SlotsPerEpoch
           c == LeaderScheduleSlotOffset
           m == MAX_LEADER_SCHEDULE_EPOCH_OFFSET - 1
<1>1. n \in Nat \ {0} /\ c \in Nat /\ c <= m * n
  BY EpochAssumption, SizeAssumption
<1>2. m \in Nat /\ m + 1 = MAX_LEADER_SCHEDULE_EPOCH_OFFSET
  BY SizeAssumption, SMTT(30)
<1> HIDE DEF n, c, m
<1>3. s + c \in Nat /\ s <= s + c
  BY <1>1, SMTT(30)
<1>4. /\ s \div n \in Nat /\ (s + c) \div n \in Nat
      /\ s \div n <= (s + c) \div n /\ (s + c) \div n <= (s \div n) + m
  BY <1>1, <1>2, <1>3, DivFacts, DivMono, DivAdd
<1>5. (s + c) \div n + 1 <= (s \div n) + MAX_LEADER_SCHEDULE_EPOCH_OFFSET
  BY <1>2, <1>4, SMTT(30)
<1>6. ASSUME NEW t \in Nat, s <= t
      PROVE  s \div n <= t \div n /\ (s + c) \div n <= (t + c) \div n
  <2>1. t + c \in Nat /\ s + c <= t + c
    BY <1>1, <1>6, SMTT(30)
  <2> QED
    BY <1>1, <1>3, <1>6, <2>1, DivMono
<1> QED
  BY <1>4, <1>5, <1>6 DEF get_epoch, get_leader_schedule_epoch, n, c

-----------------------------------------------------------------------------
(***************************************************************************)
(* AuthorizedVoters: a map that has a voter for epoch e and none after t.  *)
(***************************************************************************)
VotersOK(voters, e, t) ==
    /\ voters \in [DOMAIN voters -> Keys]
    /\ DOMAIN voters \in SUBSET (0 .. t)
    /\ HasAuthorizedVoter(voters, e)

Latest(voters) == voters[Max(DOMAIN voters)]

(* The voter of an epoch is that of the last epoch of the map up to it. *)
LEMMA VoterIs ==
    ASSUME NEW voters, NEW x \in Nat, DOMAIN voters \in SUBSET Nat,
           NEW m \in DOMAIN voters, m <= x,
           \A y \in DOMAIN voters : y <= x => y <= m
    PROVE  get_authorized_voter(voters, x) = voters[m]
<1> DEFINE S == EpochsUpTo(voters, x)
<1>1. S \in SUBSET (0 .. x) /\ m \in S /\ \A y \in S : y <= m
  BY SMTT(30) DEF EpochsUpTo
<1>2. Max(S) \in S /\ \A y \in S : y <= Max(S)
  <2> HIDE DEF S
  <2> QED
    BY <1>1, MaxOfBounded
<1>3. Max(S) = m
  <2> DEFINE k == Max(S)
  <2>1. k <= m /\ m <= k /\ k \in Nat /\ m \in Nat
    BY <1>1, <1>2, SMTT(30)
  <2> HIDE DEF k
  <2>2. k = m
    BY <2>1, SMTT(30)
  <2> QED
    BY <2>2 DEF k
<1> QED
  BY <1>3 DEF get_authorized_voter

(* There is such an epoch from e on. *)
LEMMA VoterFrom ==
    ASSUME NEW voters, NEW e \in Nat, NEW t \in Nat, VotersOK(voters, e, t),
           NEW x \in Nat, e <= x
    PROVE  \E m \in DOMAIN voters :
              /\ m \in Nat /\ m <= x
              /\ \A y \in DOMAIN voters : y <= x => y <= m
              /\ get_authorized_voter(voters, x) = voters[m]
<1> DEFINE S == EpochsUpTo(voters, x)
<1>1. DOMAIN voters \in SUBSET Nat
  BY SMTT(30) DEF VotersOK
<1>2. PICK z \in DOMAIN voters : z <= e
  BY DEF VotersOK, HasAuthorizedVoter, EpochsUpTo
<1>3. z \in S
  <2>1. z <= x
    BY <1>1, <1>2, SMTT(30)
  <2> QED
    BY <2>1 DEF EpochsUpTo
<1>4. S \in SUBSET (0 .. x)
  BY <1>1, SMTT(30) DEF EpochsUpTo
<1>5. Max(S) \in S /\ \A y \in S : y <= Max(S)
  <2> HIDE DEF S
  <2> QED
    BY <1>3, <1>4, MaxOfBounded
<1> QED
  BY <1>1, <1>5 DEF EpochsUpTo, get_authorized_voter

(* The latest voter is the one of every epoch after the map's last. *)
LEMMA LatestIs ==
    ASSUME NEW voters, NEW t \in Nat, DOMAIN voters \in SUBSET (0 .. t)
    PROVE  Latest(voters) = get_authorized_voter(voters, t)
<1>1. EpochsUpTo(voters, t) = DOMAIN voters
  BY SMTT(30) DEF EpochsUpTo
<1> QED
  BY <1>1 DEF Latest, get_authorized_voter

(***************************************************************************)
(* get_and_update_authorized_voter changes no voter from its epoch on.     *)
(***************************************************************************)
LEMMA UpdateVoters ==
    ASSUME NEW av, NEW e \in Nat, NEW t \in Nat, e <= t, VotersOK(av, e, t),
           NEW new, new = get_and_update_authorized_voter(av, e)
    PROVE  /\ VotersOK(new, e, t)
           /\ DOMAIN new \in SUBSET (e .. t)
           /\ \A x \in Nat : e <= x => get_authorized_voter(new, x) = get_authorized_voter(av, x)
           /\ Latest(new) = Latest(av)
<1>1. /\ DOMAIN new = {y \in DOMAIN av \cup {e} : y >= e}
      /\ \A x \in DOMAIN new :
            new[x] = IF x = e THEN get_authorized_voter(av, e) ELSE av[x]
      /\ new = [x \in DOMAIN new |-> new[x]]
  BY DEF get_and_update_authorized_voter
<1>2. DOMAIN av \in SUBSET Nat /\ DOMAIN av \in SUBSET (0 .. t)
  BY SMTT(30) DEF VotersOK
<1>3. DOMAIN new \in SUBSET (e .. t) /\ e \in DOMAIN new
  BY <1>1, <1>2, SMTT(30)
<1>4. DOMAIN new \in SUBSET Nat /\ DOMAIN new \in SUBSET (0 .. t)
  BY <1>3, SMTT(30)
<1>5. ASSUME NEW x \in Nat, e <= x
      PROVE  get_authorized_voter(new, x) = get_authorized_voter(av, x)
  <2>1. PICK m \in DOMAIN av :
           /\ m \in Nat /\ m <= x
           /\ \A y \in DOMAIN av : y <= x => y <= m
           /\ get_authorized_voter(av, x) = av[m]
    BY <1>5, VoterFrom
  <2>2. CASE m > e
    <3>1. m \in DOMAIN new /\ m # e
      BY <1>1, <2>1, <2>2, SMTT(30)
    <3>2. new[m] = av[m]
      BY <1>1, <3>1
    <3>3. \A y \in DOMAIN new : y <= x => y <= m
      BY <1>1, <1>2, <2>1, <2>2, SMTT(30)
    <3> QED
      BY <1>4, <2>1, <3>1, <3>2, <3>3, VoterIs
  <2>3. CASE ~(m > e)
    <3>1. m <= e
      BY <2>1, <2>3, SMTT(30)
    <3>2. \A y \in DOMAIN av : y <= e => y <= m
      BY <1>2, <1>5, <2>1, SMTT(30)
    <3>3. get_authorized_voter(av, e) = av[m]
      BY <1>2, <2>1, <3>1, <3>2, VoterIs
    <3>4. new[e] = av[m]
      BY <1>1, <1>3, <3>3
    <3>5. \A y \in DOMAIN new : y <= x => y <= e
      BY <1>1, <1>2, <2>1, <3>1, SMTT(30)
    <3> QED
      BY <1>3, <1>4, <1>5, <2>1, <3>4, <3>5, VoterIs
  <2> QED
    BY <2>2, <2>3
<1>6. Latest(new) = Latest(av)
  BY <1>2, <1>4, <1>5, LatestIs
<1>7. get_authorized_voter(av, e) \in Keys
  <2>1. e <= e
    BY SMTT(30)
  <2>2. PICK m \in DOMAIN av : get_authorized_voter(av, e) = av[m]
    BY <2>1, VoterFrom
  <2>3. av[m] \in Keys
    BY DEF VotersOK
  <2> QED
    BY <2>2, <2>3
<1>8. VotersOK(new, e, t)
  <2>1. ASSUME NEW x \in DOMAIN new
        PROVE  new[x] \in Keys
    <3>1. CASE x = e
      BY <1>1, <1>7, <3>1
    <3>2. CASE x # e
      <4>1. x \in DOMAIN av /\ new[x] = av[x]
        BY <1>1, <3>2
      <4> QED
        BY <4>1 DEF VotersOK
    <3> QED
      BY <3>1, <3>2
  <2>2. e <= e
    BY SMTT(30)
  <2>3. HasAuthorizedVoter(new, e)
    BY <1>3, <2>2 DEF HasAuthorizedVoter, EpochsUpTo
  <2>4. new \in [DOMAIN new -> Keys]
    BY <1>1, <2>1
  <2> QED
    BY <1>4, <2>3, <2>4 DEF VotersOK
<1> QED
  BY <1>3, <1>5, <1>6, <1>8

(* What inserting key at epoch t makes of the voters av from epoch e on. *)
InsertedAt(av, new, e, t, key) ==
    /\ VotersOK(new, e, t)
    /\ DOMAIN new = DOMAIN av \cup {t}
    /\ \A x \in Nat : e <= x /\ x < t =>
          get_authorized_voter(new, x) = get_authorized_voter(av, x)
    /\ \A x \in Nat : x >= t =>
          /\ get_authorized_voter(new, x) = key
          /\ get_authorized_voter(av, x) = Latest(av)
    /\ Latest(new) = key
    /\ ~(t <= Max(DOMAIN av))

(***************************************************************************)
(* A voter inserted at a later epoch than any other replaces none before.  *)
(***************************************************************************)
LEMMA InsertVoter ==
    ASSUME NEW av, NEW e \in Nat, NEW t \in Nat, e <= t, VotersOK(av, e, t),
           t \notin DOMAIN av, NEW key \in Keys, NEW new, new = Insert(av, t, key)
    PROVE  InsertedAt(av, new, e, t, key)
<1>1. /\ DOMAIN new = DOMAIN av \cup {t}
      /\ new[t] = key /\ \A x \in DOMAIN av : new[x] = av[x]
      /\ new \in [DOMAIN new -> Keys]
  BY DEF Insert, VotersOK
<1>2. DOMAIN av \in SUBSET (0 .. t) /\ \E z \in DOMAIN av : z <= e
  BY DEF VotersOK, HasAuthorizedVoter, EpochsUpTo
<1>3. DOMAIN av \in SUBSET Nat /\ \A y \in DOMAIN av : y < t /\ ~(t <= y)
  BY <1>2, SMTT(30)
<1>4. DOMAIN new \in SUBSET Nat /\ DOMAIN new \in SUBSET (0 .. t)
  BY <1>1, <1>2, SMTT(30)
<1>5. VotersOK(new, e, t)
  <2>1. HasAuthorizedVoter(new, e)
    BY <1>1, <1>2 DEF HasAuthorizedVoter, EpochsUpTo
  <2> QED
    BY <1>1, <1>4, <2>1 DEF VotersOK
<1>6. ASSUME NEW x \in Nat, e <= x, x < t
      PROVE  get_authorized_voter(new, x) = get_authorized_voter(av, x)
  <2>1. PICK m \in DOMAIN av :
           /\ m \in Nat /\ m <= x
           /\ \A y \in DOMAIN av : y <= x => y <= m
           /\ get_authorized_voter(av, x) = av[m]
    BY <1>6, VoterFrom
  <2>2. ~(t <= x)
    BY <1>6, SMTT(30)
  <2>3. m \in DOMAIN new /\ new[m] = av[m] /\ \A y \in DOMAIN new : y <= x => y <= m
    BY <1>1, <2>1, <2>2
  <2> QED
    BY <1>4, <2>1, <2>3, VoterIs
<1>7. Max(DOMAIN av) \in DOMAIN av /\ \A y \in DOMAIN av : y <= Max(DOMAIN av)
  BY <1>2, MaxOfBounded
<1>8. ASSUME NEW x \in Nat, x >= t
      PROVE  get_authorized_voter(new, x) = key /\ get_authorized_voter(av, x) = Latest(av)
  <2>1. t <= x /\ \A y \in DOMAIN new : y <= t
    BY <1>4, <1>8, SMTT(30)
  <2>2. get_authorized_voter(new, x) = new[t]
    BY <1>1, <1>4, <2>1, VoterIs
  <2> DEFINE m == Max(DOMAIN av)
  <2>3. m \in DOMAIN av /\ \A y \in DOMAIN av : y <= m
    BY <1>7
  <2> HIDE DEF m
  <2>4. m <= x
    BY <1>3, <2>1, <2>3, SMTT(30)
  <2>5. get_authorized_voter(av, x) = av[m]
    BY <1>3, <2>3, <2>4, VoterIs
  <2> QED
    BY <1>1, <2>2, <2>5 DEF m, Latest
<1>9. Latest(new) = key
  <2>1. t >= t
    BY SMTT(30)
  <2> QED
    BY <1>4, <1>8, <2>1, LatestIs
<1> QED
  BY <1>1, <1>3, <1>5, <1>6, <1>7, <1>8, <1>9 DEF InsertedAt

(***************************************************************************)
(* size_of has room for the voters of a window of epochs.                  *)
(***************************************************************************)
LEMMA WindowFits ==
    ASSUME NEW e \in Nat, NEW t \in Nat, NEW m \in Nat, t <= e + m, e <= t,
           NEW D \in SUBSET (e .. t)
    PROVE  IsFiniteSet(D) /\ Cardinality(D) \in Nat /\ Cardinality(D) <= m + 1
<1>1. IsFiniteSet(e .. t) /\ Cardinality(e .. t) = t - e + 1
  <2>1. e \in Int /\ t \in Int /\ ~(e > t)
    BY SMTT(30)
  <2> QED
    BY <2>1, FS_Interval
<1>2. IsFiniteSet(D) /\ Cardinality(D) <= Cardinality(e .. t)
  BY <1>1, FS_Subset
<1>3. Cardinality(D) \in Nat
  BY <1>2, FS_CardinalityType
<1>4. Cardinality(D) <= t - e + 1
  BY <1>1, <1>2
<1> DEFINE c == Cardinality(D)
<1>5. c \in Nat /\ c <= t - e + 1
  BY <1>3, <1>4
<1> HIDE DEF c
<1>6. c <= m + 1
  BY <1>5, SMTT(30)
<1> QED
  BY <1>2, <1>3, <1>6 DEF c

-----------------------------------------------------------------------------
(***************************************************************************)
(* prior_voters: adjacent ranges of epochs that end by epoch t.            *)
(***************************************************************************)
PriorVoters == [key : Keys, from : Nat, until : Nat]

PriorOK(prior, t) ==
    /\ prior \in Seq(PriorVoters)
    /\ Len(prior) <= MAX_ITEMS
    /\ \A i \in 1 .. Len(prior) - 1 : prior[i].until = prior[i + 1].from
    /\ \A i \in DOMAIN prior : prior[i].until <= t

(* Voter k of epoch x is the one that prior_voters and the latest voter tell. *)
Truthful(prior, x, k, latest) ==
    /\ \A i \in DOMAIN prior : x \in prior[i].from .. prior[i].until - 1 => k = prior[i].key
    /\ x >= PriorUntil(prior) => k = latest

LEMMA PriorElement ==
    ASSUME NEW prior \in Seq(PriorVoters), NEW i \in DOMAIN prior
    PROVE  /\ prior[i] \in PriorVoters
           /\ prior[i].key \in Keys /\ prior[i].from \in Nat /\ prior[i].until \in Nat
<1>1. prior[i] \in PriorVoters
  BY SMTT(30)
<1> QED
  BY <1>1 DEF PriorVoters

LEMMA PriorUntilIs ==
    ASSUME NEW prior, NEW t \in Nat, PriorOK(prior, t)
    PROVE  /\ PriorUntil(prior) \in Nat /\ PriorUntil(prior) <= t
           /\ Len(prior) # 0 => PriorUntil(prior) = prior[Len(prior)].until
<1>1. prior \in Seq(PriorVoters) /\ \A i \in DOMAIN prior : prior[i].until <= t
  BY DEF PriorOK
<1>2. CASE Len(prior) = 0
  <2>1. prior = << >>
    BY <1>1, <1>2, SMTT(30)
  <2>2. PriorUntil(prior) = 0 /\ 0 \in Nat /\ 0 <= t
    BY <2>1, SMTT(30) DEF PriorUntil
  <2> QED
    BY <1>2, <2>2
<1>3. CASE Len(prior) # 0
  <2>1. prior # << >> /\ Len(prior) \in DOMAIN prior
    BY <1>1, <1>3, SMTT(30)
  <2>2. PriorUntil(prior) = prior[Len(prior)].until
    BY <2>1 DEF PriorUntil
  <2> QED
    BY <1>1, <2>1, <2>2, PriorElement
<1> QED
  BY <1>2, <1>3

(* CircBufAppend forgets at most the oldest range. *)
LEMMA CircBufShape ==
    ASSUME NEW prior \in Seq(PriorVoters), NEW item \in PriorVoters,
           Len(prior) <= MAX_ITEMS
    PROVE  LET new == CircBufAppend(prior, item)
           IN  /\ new \in Seq(PriorVoters)
               /\ Len(new) <= MAX_ITEMS
               /\ \E f \in {0, 1} :
                     /\ f <= Len(prior)
                     /\ Len(new) = Len(prior) - f + 1
                     /\ new[Len(new)] = item
                     /\ \A i \in 1 .. Len(prior) - f : new[i] = prior[i + f]
<1> DEFINE new == CircBufAppend(prior, item)
<1> SUFFICES /\ new \in Seq(PriorVoters)
             /\ Len(new) <= MAX_ITEMS
             /\ \E f \in {0, 1} :
                   /\ f <= Len(prior)
                   /\ Len(new) = Len(prior) - f + 1
                   /\ new[Len(new)] = item
                   /\ \A i \in 1 .. Len(prior) - f : new[i] = prior[i + f]
  OBVIOUS
<1>1. MAX_ITEMS \in Nat \ {0}
  BY SizeAssumption
<1> DEFINE n == Len(prior)
<1>2. n \in Nat /\ n <= MAX_ITEMS
  BY SMTT(30)
<1>3. CASE Len(prior) = MAX_ITEMS
  <2>1. new = Append(Tail(prior), item)
    BY <1>3 DEF CircBufAppend
  <2>2. prior # << >>
    BY <1>1, <1>3, SMTT(30)
  <2>3. /\ Tail(prior) \in Seq(PriorVoters) /\ Len(Tail(prior)) = Len(prior) - 1
        /\ \A i \in 1 .. Len(prior) - 1 : Tail(prior)[i] = prior[i + 1]
    BY <2>2, SMTT(30)
  <2> HIDE DEF new
  <2> DEFINE q == Tail(prior)
  <2>4. q \in Seq(PriorVoters) /\ new = Append(q, item) /\ Len(q) = n - 1
    BY <2>1, <2>3
  <2> HIDE DEF q
  <2>5. /\ new \in Seq(PriorVoters) /\ Len(new) = Len(q) + 1 /\ new[Len(q) + 1] = item
        /\ \A i \in 1 .. Len(q) : new[i] = q[i]
    BY <2>4, SMTT(30)
  <2> HIDE DEF n
  <2>6. /\ Len(q) + 1 = n /\ n - 1 + 1 = n /\ 1 <= n
    BY <1>1, <1>2, <1>3, <2>4, SMTT(30) DEF n
  <2>7. Len(new) = n /\ new[Len(new)] = item /\ \A i \in 1 .. n - 1 : new[i] = prior[i + 1]
    BY <2>3, <2>4, <2>5, <2>6 DEF n, q
  <2>8. Len(new) <= MAX_ITEMS
    BY <1>2, <2>7
  <2> QED
    BY <2>5, <2>6, <2>7, <2>8 DEF n
<1>4. CASE Len(prior) # MAX_ITEMS
  <2>1. new = Append(prior, item)
    BY <1>4 DEF CircBufAppend
  <2> HIDE DEF new
  <2>2. /\ new \in Seq(PriorVoters) /\ Len(new) = Len(prior) + 1 /\ new[Len(prior) + 1] = item
        /\ \A i \in 1 .. Len(prior) : new[i] = prior[i]
    BY <2>1, SMTT(30)
  <2> HIDE DEF n
  <2>3. n - 0 = n /\ 0 <= n /\ n + 1 <= MAX_ITEMS /\ \A i \in 1 .. n : i + 0 = i
    BY <1>1, <1>2, <1>4, SMTT(30) DEF n
  <2>4. Len(new) = n - 0 + 1 /\ new[Len(new)] = item /\ Len(new) <= MAX_ITEMS
    BY <2>2, <2>3 DEF n
  <2>5. \A i \in 1 .. n : new[i] = prior[i]
    BY <2>2 DEF n
  <2>6. \A i \in 1 .. n - 0 : new[i] = prior[i + 0]
    BY <1>2, <2>5, SMTT(30)
  <2> QED
    BY <2>2, <2>3, <2>4, <2>6 DEF n
<1> QED
  BY <1>3, <1>4

LEMMA CircBufOK ==
    ASSUME NEW prior, NEW t \in Nat, PriorOK(prior, t), NEW item \in PriorVoters,
           item.from = PriorUntil(prior), item.until = t,
           NEW new, new = CircBufAppend(prior, item)
    PROVE  /\ PriorOK(new, t)
           /\ PriorUntil(new) = t
           /\ \A i \in DOMAIN new : new[i] = item \/ \E j \in DOMAIN prior : new[i] = prior[j]
<1>1. prior \in Seq(PriorVoters) /\ Len(prior) <= MAX_ITEMS
  BY DEF PriorOK
<1>2. /\ new \in Seq(PriorVoters)
      /\ Len(new) <= MAX_ITEMS
  BY <1>1, CircBufShape
<1>3. PICK f \in {0, 1} :
         /\ f <= Len(prior)
         /\ Len(new) = Len(prior) - f + 1
         /\ new[Len(new)] = item
         /\ \A i \in 1 .. Len(prior) - f : new[i] = prior[i + f]
  BY <1>1, CircBufShape
<1>4. /\ DOMAIN new = 1 .. Len(new) /\ Len(new) \in Nat
      /\ DOMAIN prior = 1 .. Len(prior) /\ Len(prior) \in Nat
  BY <1>1, <1>2, SMTT(30)
<1> DEFINE n == Len(prior)
           m == Len(new)
<1>5. /\ DOMAIN new = 1 .. m /\ DOMAIN prior = 1 .. n /\ n \in Nat /\ m \in Nat
      /\ f <= n /\ m = n - f + 1 /\ new[m] = item
      /\ \A i \in 1 .. n - f : new[i] = prior[i + f]
  BY <1>3, <1>4
<1> HIDE DEF n, m
<1>7. ASSUME NEW i \in DOMAIN new
      PROVE  i = m \/ (i \in 1 .. n - f /\ i + f \in DOMAIN prior)
  BY <1>5, <1>7, SMTT(30)
<1>8. \A i \in DOMAIN new : new[i] = item \/ \E j \in DOMAIN prior : new[i] = prior[j]
  BY <1>5, <1>7
<1>9. m # 0 /\ m \in DOMAIN new
  BY <1>5, SMTT(30)
<1>10. PriorUntil(new) = t
  <2>1. new # << >>
    BY <1>2, <1>9, SMTT(30) DEF m
  <2> QED
    BY <1>5, <2>1 DEF PriorUntil, m
<1>11. ASSUME NEW i \in DOMAIN new
       PROVE  new[i].until <= t
  <2>1. t <= t
    BY SMTT(30)
  <2> QED
    BY <1>8, <1>11, <2>1 DEF PriorOK
<1>12. ASSUME NEW i \in 1 .. m - 1
       PROVE  new[i].until = new[i + 1].from
  <2>1. i \in 1 .. n - f /\ i + f \in 1 .. n /\ new[i] = prior[i + f]
    <3>1. i \in 1 .. n - f /\ i + f \in 1 .. n
      BY <1>5, <1>12, SMTT(30)
    <3> QED
      BY <1>5, <3>1
  <2>2. CASE i + 1 = m
    <3>1. i + f = n /\ n # 0
      BY <1>5, <1>12, <2>2, SMTT(30)
    <3>2. PriorUntil(prior) = prior[n].until
      BY <3>1, PriorUntilIs DEF n
    <3> QED
      BY <1>5, <2>1, <2>2, <3>1, <3>2
  <2>3. CASE i + 1 # m
    <3>1. i + 1 \in 1 .. n - f /\ i + f \in 1 .. n - 1 /\ (i + 1) + f = (i + f) + 1
      BY <1>5, <1>12, <2>3, SMTT(30)
    <3>2. new[i + 1] = prior[(i + f) + 1]
      <4>1. new[i + 1] = prior[(i + 1) + f]
        BY <1>5, <3>1
      <4> QED
        BY <3>1, <4>1
    <3>3. \A k \in 1 .. n - 1 : prior[k].until = prior[k + 1].from
      BY DEF PriorOK, n
    <3> QED
      BY <2>1, <3>1, <3>2, <3>3
  <2> QED
    BY <2>2, <2>3
<1>13. PriorOK(new, t)
  BY <1>2, <1>11, <1>12 DEF PriorOK, m
<1> QED
  BY <1>8, <1>10, <1>13

(***************************************************************************)
(* What was true of a voter stays true when the latest voter is remembered *)
(* up to epoch t and another takes over from t.                            *)
(***************************************************************************)
LEMMA StaysTruthful ==
    ASSUME NEW prior, NEW t \in Nat, PriorOK(prior, t), NEW latest \in Keys, NEW key \in Keys,
           NEW new,
           new = CircBufAppend(prior, PriorVoter(latest, PriorUntil(prior), t)),
           NEW x \in Nat, NEW k
    PROVE  /\ x < t /\ Truthful(prior, x, k, latest) => Truthful(new, x, k, key)
           /\ x >= t => Truthful(new, x, key, key)
<1> DEFINE item == PriorVoter(latest, PriorUntil(prior), t)
<1>1. PriorUntil(prior) \in Nat /\ PriorUntil(prior) <= t
  BY PriorUntilIs
<1>2. /\ item \in PriorVoters /\ item.from = PriorUntil(prior) /\ item.until = t
      /\ item.key = latest
  BY <1>1, SMTT(30) DEF PriorVoter, PriorVoters
<1>3. new = CircBufAppend(prior, item)
  OBVIOUS
<1> HIDE DEF item
<1>4. /\ PriorUntil(new) = t
      /\ \A i \in DOMAIN new : new[i] = item \/ \E j \in DOMAIN prior : new[i] = prior[j]
  BY <1>2, <1>3, CircBufOK, SMTT(30)
<1>5. ASSUME x < t, Truthful(prior, x, k, latest)
      PROVE  Truthful(new, x, k, key)
  <2>1. ASSUME NEW i \in DOMAIN new, x \in new[i].from .. new[i].until - 1
        PROVE  k = new[i].key
    <3>1. CASE new[i] = item
      <4>1. x \in PriorUntil(prior) .. t - 1
        BY <1>2, <2>1, <3>1
      <4>2. x >= PriorUntil(prior)
        BY <1>1, <4>1, SMTT(30)
      <4> QED
        BY <1>2, <1>5, <3>1, <4>2 DEF Truthful
    <3>2. CASE \E j \in DOMAIN prior : new[i] = prior[j]
      BY <1>5, <2>1, <3>2 DEF Truthful
    <3> QED
      BY <1>4, <2>1, <3>1, <3>2
  <2>2. ~(x >= t)
    BY <1>5, SMTT(30)
  <2> QED
    BY <1>4, <2>1, <2>2 DEF Truthful
<1>6. ASSUME x >= t
      PROVE  Truthful(new, x, key, key)
  <2>1. ASSUME NEW i \in DOMAIN new, x \in new[i].from .. new[i].until - 1
        PROVE  FALSE
    <3>1. new[i].from \in Nat /\ new[i].until \in Nat /\ new[i].until <= t
      <4>1. CASE new[i] = item
        <5>1. t <= t
          BY SMTT(30)
        <5> QED
          BY <1>1, <1>2, <4>1, <5>1
      <4>2. CASE \E j \in DOMAIN prior : new[i] = prior[j]
        BY <4>2, PriorElement DEF PriorOK
      <4> QED
        BY <1>4, <2>1, <4>1, <4>2
    <3> DEFINE a == new[i].from
               b == new[i].until
    <3>2. a \in Nat /\ b \in Nat /\ b <= t /\ x \in a .. b - 1
      BY <2>1, <3>1
    <3> HIDE DEF a, b
    <3> QED
      BY <1>6, <3>2, SMTT(30)
  <2> QED
    BY <2>1 DEF Truthful
<1> QED
  BY <1>5, <1>6

-----------------------------------------------------------------------------
(***************************************************************************)
(* The inductive invariant.  Its parts are the fields of the state, the    *)
(* stack with its credits, the voters and the clock.                       *)
(***************************************************************************)
StateFields ==
    {"node_pubkey", "authorized_withdrawer", "commission", "votes", "root_slot",
     "authorized_voters", "prior_voters", "epoch_credits", "last_timestamp"}

IsVoteState(vs) ==
    /\ vs = [f \in StateFields |-> vs[f]]
    /\ vs.node_pubkey \in Keys \cup {NoKey}
    /\ vs.authorized_withdrawer \in Keys \cup {NoKey}
    /\ vs.commission \in Commissions \cup {0}

(* The voted slots are banks of this fork, as far as the slot hashes reach. *)
OnFork(slots, s, hashes) ==
    \A v \in slots : v \in Nat /\ v < s /\ (v >= Min(hashes) => v \in hashes)

(***************************************************************************)
(* In epoch e, with t the first epoch a change of voter can take effect:   *)
(* the voters of past epochs were those that prior_voters tells, and those *)
(* of the epochs to come will be.                                          *)
(***************************************************************************)
VotersInv(av, prior, hist, e, t) ==
    /\ av \in [DOMAIN av -> Keys]
    /\ Cardinality(DOMAIN av) \in Nat
    /\ Cardinality(DOMAIN av) <= MAX_LEADER_SCHEDULE_EPOCH_OFFSET + 1
    /\ PriorOK(prior, t)
    /\ DOMAIN hist \in SUBSET (0 .. e)
    /\ DOMAIN av = {} => DOMAIN hist = {}
    /\ DOMAIN av # {} =>
          /\ VotersOK(av, e, t)
          /\ \A x \in DOMAIN hist : Truthful(prior, x, hist[x], Latest(av))
          /\ \A x \in Nat : x >= e =>
                Truthful(prior, x, get_authorized_voter(av, x), Latest(av))

(* What writing the state vs leaves true. *)
StateInv(vs, r, hist, s, hashes) ==
    /\ IsVoteState(vs)
    /\ StackInv(vs.votes, vs.root_slot)
    /\ CreditsOK(vs.epoch_credits, r, get_epoch(s))
    /\ OnFork(VotedSlots(vs.votes), s, hashes)
    /\ VotersInv(vs.authorized_voters, vs.prior_voters, hist, get_epoch(s),
                 get_leader_schedule_epoch(s) + 1)

ClockInv(s, hashes) ==
    /\ s \in Nat /\ 0 < s /\ s <= MaxSlot
    /\ hashes \in SUBSET (0 .. s - 1) /\ hashes # {}

VoteInv ==
    /\ StateInv(vote_state, rooted, voter_history, slot, slot_hashes)
    /\ ClockInv(slot, slot_hashes)
    /\ lamports \in 0 .. MaxLamports
    /\ fault = "none"

(***************************************************************************)
(* A state with these parts fits in the account.                           *)
(***************************************************************************)
LEMMA StateFits ==
    ASSUME NEW vs, NEW r, NEW hist, NEW s, NEW hashes, StateInv(vs, r, hist, s, hashes)
    PROVE  ~(SerializedSize(vs) > size_of)
<1> DEFINE a == Len(vs.votes)
           b == Len(vs.epoch_credits)
           c == Cardinality(DOMAIN vs.authorized_voters)
           d == IF vs.root_slot = NoSlot THEN 1 ELSE 9
<1>1. a \in Nat /\ a <= MAX_LOCKOUT_HISTORY
  <2>1. vs.votes \in Seq(Lockout) /\ a <= MAX_LOCKOUT_HISTORY
    BY DEF StateInv, StackInv, StackOK
  <2>2. a \in Nat
    BY <2>1, SMTT(30)
  <2> QED
    BY <2>1, <2>2
<1>2. b \in Nat /\ b <= MAX_EPOCH_CREDITS_HISTORY
  <2>1. vs.epoch_credits \in Seq(CreditEntries) /\ b <= MAX_EPOCH_CREDITS_HISTORY
    BY DEF StateInv, CreditsOK, CreditsLinked
  <2>2. b \in Nat
    BY <2>1, SMTT(30)
  <2> QED
    BY <2>1, <2>2
<1>3. c \in Nat /\ c <= MAX_LEADER_SCHEDULE_EPOCH_OFFSET + 1
  BY DEF StateInv, VotersInv
<1>4. d \in Nat /\ d <= 9
  BY SMTT(30)
<1>5. SerializedSize(vs) = 12 * a + 24 * b + 40 * c + d
  BY DEF SerializedSize
<1> HIDE DEF a, b, c, d
<1>6. /\ MAX_LOCKOUT_HISTORY \in Nat /\ MAX_EPOCH_CREDITS_HISTORY \in Nat
      /\ MAX_LEADER_SCHEDULE_EPOCH_OFFSET \in Nat
  BY HistoryAssumption, SizeAssumption
<1> QED
  BY <1>1, <1>2, <1>3, <1>4, <1>5, <1>6, SMTT(30) DEF size_of

(* Nothing more is needed of a state that differs in other fields only. *)
LEMMA SameParts ==
    ASSUME NEW vs, NEW r, NEW hist, NEW s, NEW hashes, StateInv(vs, r, hist, s, hashes),
           NEW w, IsVoteState(w), w.votes = vs.votes, w.root_slot = vs.root_slot,
           w.authorized_voters = vs.authorized_voters, w.prior_voters = vs.prior_voters,
           w.epoch_credits = vs.epoch_credits
    PROVE  StateInv(w, r, hist, s, hashes)
  BY DEF StateInv

(***************************************************************************)
(* Time: a voter of the epochs to come becomes the voter of an epoch.      *)
(***************************************************************************)
LEMMA VotersNextEpoch ==
    ASSUME NEW av, NEW prior, NEW hist, NEW e \in Nat, NEW t \in Nat,
           VotersInv(av, prior, hist, e, t),
           NEW e2 \in Nat, NEW t2 \in Nat, e <= e2, t <= t2,
           NEW hist2, hist2 = IF DOMAIN av # {}
                              THEN Insert(hist, e2, get_authorized_voter(av, e2))
                              ELSE hist
    PROVE  VotersInv(av, prior, hist2, e2, t2)
<1>1. PriorOK(prior, t2)
  <2>1. ASSUME NEW i \in DOMAIN prior
        PROVE  prior[i].until <= t2
    <3>1. prior[i].until \in Nat /\ prior[i].until <= t
      BY <2>1, PriorElement DEF VotersInv, PriorOK
    <3> DEFINE u == prior[i].until
    <3>2. u \in Nat /\ u <= t
      BY <3>1
    <3> HIDE DEF u
    <3>3. u <= t2
      BY <3>2, SMTT(30)
    <3> QED
      BY <3>3 DEF u
  <2> QED
    BY <2>1 DEF VotersInv, PriorOK
<1>2. DOMAIN hist \in SUBSET (0 .. e2) /\ e2 \in 0 .. e2
  <2>1. DOMAIN hist \in SUBSET (0 .. e)
    BY DEF VotersInv
  <2> DEFINE D == DOMAIN hist
  <2>2. D \in SUBSET (0 .. e)
    BY <2>1
  <2> HIDE DEF D
  <2>3. D \in SUBSET (0 .. e2) /\ e2 \in 0 .. e2
    BY <2>2, SMTT(30)
  <2> QED
    BY <2>3 DEF D
<1>3. CASE DOMAIN av = {}
  <2>1. hist2 = hist
    BY <1>3
  <2> QED
    BY <1>1, <1>2, <1>3, <2>1 DEF VotersInv
<1>4. CASE DOMAIN av # {}
  <2>1. hist2 = Insert(hist, e2, get_authorized_voter(av, e2))
    BY <1>4
  <2>2. /\ DOMAIN hist2 = DOMAIN hist \cup {e2}
        /\ hist2[e2] = get_authorized_voter(av, e2)
        /\ \A x \in DOMAIN hist : x # e2 => hist2[x] = hist[x]
    BY <2>1 DEF Insert
  <2>3. VotersOK(av, e, t)
    BY <1>4 DEF VotersInv
  <2>4. VotersOK(av, e2, t2)
    <3>1. DOMAIN av \in SUBSET (0 .. t) /\ \E z \in DOMAIN av : z <= e
      BY <2>3 DEF VotersOK, HasAuthorizedVoter, EpochsUpTo
    <3> DEFINE D == DOMAIN av
    <3>2. D \in SUBSET (0 .. t) /\ \E z \in D : z <= e
      BY <3>1
    <3> HIDE DEF D
    <3>3. D \in SUBSET (0 .. t2) /\ \E z \in D : z <= e2
      BY <3>2, SMTT(30)
    <3> QED
      BY <2>3, <3>3 DEF D, VotersOK, HasAuthorizedVoter, EpochsUpTo
  <2>5. ASSUME NEW x \in Nat, x >= e2
        PROVE  Truthful(prior, x, get_authorized_voter(av, x), Latest(av))
    <3>1. x >= e
      BY <2>5, SMTT(30)
    <3> QED
      BY <1>4, <3>1 DEF VotersInv
  <2>6. ASSUME NEW x \in DOMAIN hist2
        PROVE  Truthful(prior, x, hist2[x], Latest(av))
    <3>1. CASE x = e2
      <4>1. e2 >= e2
        BY SMTT(30)
      <4> QED
        BY <2>2, <2>5, <3>1, <4>1
    <3>2. CASE x # e2
      <4>1. x \in DOMAIN hist /\ hist2[x] = hist[x]
        BY <2>2, <2>6, <3>2
      <4> QED
        BY <1>4, <4>1 DEF VotersInv
    <3> QED
      BY <3>1, <3>2
  <2>7. DOMAIN hist2 \in SUBSET (0 .. e2)
    BY <1>2, <2>2
  <2> QED
    BY <1>1, <1>4, <2>4, <2>5, <2>6, <2>7 DEF VotersInv
<1> QED
  BY <1>3, <1>4

(***************************************************************************)
(* Caching the voter of the epoch and purging those before it.             *)
(***************************************************************************)
LEMMA VotersUpdated ==
    ASSUME NEW av, NEW prior, NEW hist, NEW e \in Nat, NEW t \in Nat,
           VotersInv(av, prior, hist, e, t), DOMAIN av # {},
           e <= t, t <= e + MAX_LEADER_SCHEDULE_EPOCH_OFFSET,
           NEW new, new = get_and_update_authorized_voter(av, e)
    PROVE  VotersInv(new, prior, hist, e, t) /\ DOMAIN new # {} /\ DOMAIN new \in SUBSET (e .. t)
<1>1. VotersOK(av, e, t)
  BY DEF VotersInv
<1>2. /\ VotersOK(new, e, t)
      /\ DOMAIN new \in SUBSET (e .. t)
      /\ \A x \in Nat : e <= x => get_authorized_voter(new, x) = get_authorized_voter(av, x)
      /\ Latest(new) = Latest(av)
  BY <1>1, UpdateVoters, SMTT(30)
<1>3. /\ Cardinality(DOMAIN new) \in Nat
      /\ Cardinality(DOMAIN new) <= MAX_LEADER_SCHEDULE_EPOCH_OFFSET + 1
  <2>1. MAX_LEADER_SCHEDULE_EPOCH_OFFSET \in Nat
    BY SizeAssumption
  <2> QED
    BY <1>2, <2>1, WindowFits
<1>4. DOMAIN new # {}
  BY <1>2 DEF VotersOK, HasAuthorizedVoter, EpochsUpTo
<1>5. ASSUME NEW x \in Nat, x >= e
      PROVE  Truthful(prior, x, get_authorized_voter(new, x), Latest(new))
  <2>1. e <= x
    BY <1>5, SMTT(30)
  <2>2. Truthful(prior, x, get_authorized_voter(av, x), Latest(av))
    BY <1>5 DEF VotersInv
  <2> QED
    BY <1>2, <2>1, <2>2
<1>6. \A x \in DOMAIN hist : Truthful(prior, x, hist[x], Latest(new))
  BY <1>2 DEF VotersInv
<1>7. new \in [DOMAIN new -> Keys]
  BY <1>2 DEF VotersOK
<1>8. PriorOK(prior, t) /\ DOMAIN hist \in SUBSET (0 .. e)
  BY DEF VotersInv
<1> QED
  BY <1>2, <1>3, <1>4, <1>5, <1>6, <1>7, <1>8 DEF VotersInv

(***************************************************************************)
(* A new voter from epoch t on, the latest one remembered up to t.         *)
(***************************************************************************)
LEMMA VotersAuthorized ==
    ASSUME NEW av, NEW prior, NEW hist, NEW e \in Nat, NEW t \in Nat,
           VotersInv(av, prior, hist, e, t), DOMAIN av # {}, DOMAIN av \in SUBSET (e .. t),
           t \notin DOMAIN av, e < t, t <= e + MAX_LEADER_SCHEDULE_EPOCH_OFFSET,
           NEW key \in Keys, NEW new, new = Insert(av, t, key),
           NEW prior2, prior2 = IF Latest(av) = key THEN prior
                                ELSE CircBufAppend(prior,
                                        PriorVoter(Latest(av), PriorUntil(prior), t))
    PROVE  VotersInv(new, prior2, hist, e, t)
<1> DEFINE latest == Latest(av)
<1>1. VotersOK(av, e, t) /\ e <= t
  <2>1. e <= t
    BY SMTT(30)
  <2> QED
    BY <2>1 DEF VotersInv
<1>2. /\ VotersOK(new, e, t)
      /\ DOMAIN new = DOMAIN av \cup {t}
      /\ \A x \in Nat : e <= x /\ x < t =>
            get_authorized_voter(new, x) = get_authorized_voter(av, x)
      /\ \A x \in Nat : x >= t =>
            /\ get_authorized_voter(new, x) = key
            /\ get_authorized_voter(av, x) = Latest(av)
      /\ Latest(new) = key
  <2>1. InsertedAt(av, new, e, t, key)
    BY <1>1, InsertVoter
  <2> QED
    BY <2>1 DEF InsertedAt
<1>3. /\ Cardinality(DOMAIN new) \in Nat
      /\ Cardinality(DOMAIN new) <= MAX_LEADER_SCHEDULE_EPOCH_OFFSET + 1
  <2>1. MAX_LEADER_SCHEDULE_EPOCH_OFFSET \in Nat
    BY SizeAssumption
  <2>2. t \in e .. t
    BY SMTT(30)
  <2>3. DOMAIN new \in SUBSET (e .. t)
    BY <1>2, <2>2
  <2> QED
    BY <1>1, <2>1, <2>3, WindowFits
<1>4. /\ PriorOK(prior, t) /\ DOMAIN hist \in SUBSET (0 .. e)
      /\ \A x \in DOMAIN hist : Truthful(prior, x, hist[x], latest)
      /\ \A x \in Nat : x >= e =>
            Truthful(prior, x, get_authorized_voter(av, x), latest)
  BY DEF VotersInv
<1>5. latest \in Keys
  <2>1. get_authorized_voter(av, t) = latest
    <3>1. t >= t
      BY SMTT(30)
    <3> QED
      BY <1>2, <3>1
  <2>2. PICK m \in DOMAIN av : get_authorized_voter(av, t) = av[m]
    BY <1>1, VoterFrom
  <2> QED
    BY <1>1, <2>1, <2>2 DEF VotersOK
<1> HIDE DEF latest
<1>6. DOMAIN new # {} /\ new \in [DOMAIN new -> Keys]
  BY <1>2 DEF VotersOK
<1>7. \A x \in DOMAIN hist : x \in Nat /\ x < t
  BY <1>4, SMTT(30)
<1>8. /\ PriorOK(prior2, t)
      /\ \A x \in DOMAIN hist : Truthful(prior2, x, hist[x], key)
      /\ \A x \in Nat : x >= e => Truthful(prior2, x, get_authorized_voter(new, x), key)
  <2>1. CASE latest = key
    <3>1. prior2 = prior
      BY <2>1 DEF latest
    <3>2. ASSUME NEW x \in Nat, x >= e
          PROVE  get_authorized_voter(new, x) = get_authorized_voter(av, x)
      <4>1. (e <= x /\ x < t) \/ x >= t
        BY <3>2, SMTT(30)
      <4> QED
        BY <1>2, <2>1, <4>1 DEF latest
    <3> QED
      BY <1>4, <2>1, <3>1, <3>2
  <2>2. CASE latest # key
    <3>1. prior2 = CircBufAppend(prior, PriorVoter(latest, PriorUntil(prior), t))
      BY <2>2 DEF latest
    <3>2. ASSUME NEW x \in Nat, NEW k
          PROVE  /\ x < t /\ Truthful(prior, x, k, latest) => Truthful(prior2, x, k, key)
                 /\ x >= t => Truthful(prior2, x, key, key)
      BY <1>4, <1>5, <3>1, StaysTruthful, SMTT(30)
    <3>3. ASSUME NEW x \in Nat, x >= e
          PROVE  Truthful(prior2, x, get_authorized_voter(new, x), key)
      <4>1. (e <= x /\ x < t) \/ x >= t
        BY <3>3, SMTT(30)
      <4>2. Truthful(prior, x, get_authorized_voter(av, x), latest)
        BY <1>4, <3>3
      <4> QED
        BY <1>2, <3>2, <4>1, <4>2
    <3>4. PriorOK(prior2, t)
      <4> DEFINE item == PriorVoter(latest, PriorUntil(prior), t)
      <4>1. PriorUntil(prior) \in Nat
        BY <1>4, PriorUntilIs
      <4>2. item \in PriorVoters /\ item.from = PriorUntil(prior) /\ item.until = t
        BY <1>5, <4>1, SMTT(30) DEF PriorVoter, PriorVoters
      <4>3. prior2 = CircBufAppend(prior, item)
        BY <3>1
      <4> HIDE DEF item
      <4> QED
        BY <1>4, <4>2, <4>3, CircBufOK, SMTT(30)
    <3> QED
      BY <1>4, <1>7, <3>2, <3>3, <3>4
  <2> QED
    BY <2>1, <2>2
<1> QED
  BY <1>2, <1>3, <1>4, <1>6, <1>8 DEF VotersInv

(* No voters, and the first one. *)
LEMMA VotersNone ==
    ASSUME NEW e \in Nat, NEW t \in Nat
    PROVE  VotersInv(NoVoters, << >>, NoVoters, e, t)
<1>1. DOMAIN NoVoters = {} /\ NoVoters \in [DOMAIN NoVoters -> Keys]
  BY DEF NoVoters
<1>2. Cardinality({}) = 0
  BY FS_EmptySet
<1>3. PriorOK(<< >>, t)
  BY SizeAssumption, SMTT(30) DEF PriorOK
<1>4. 0 \in Nat /\ 0 <= MAX_LEADER_SCHEDULE_EPOCH_OFFSET + 1
  BY SizeAssumption, SMTT(30)
<1> QED
  BY <1>1, <1>2, <1>3, <1>4 DEF VotersInv

LEMMA VotersFirst ==
    ASSUME NEW e \in Nat, NEW t \in Nat, e <= t, NEW key \in Keys,
           NEW av, av = [x \in {e} |-> key]
    PROVE  VotersInv(av, << >>, av, e, t)
<1>1. DOMAIN av = {e} /\ av[e] = key /\ av \in [DOMAIN av -> Keys]
  OBVIOUS
<1>2. Cardinality({e}) = 1
  BY FS_Singleton
<1>3. PriorOK(<< >>, t)
  BY SizeAssumption, SMTT(30) DEF PriorOK
<1>4. 1 \in Nat /\ 1 <= MAX_LEADER_SCHEDULE_EPOCH_OFFSET + 1
  BY SizeAssumption, SMTT(30)
<1>5. e <= e /\ {e} \in SUBSET (0 .. e) /\ {e} \in SUBSET (0 .. t) /\ {e} \in SUBSET Nat
  BY SMTT(30)
<1>6. VotersOK(av, e, t)
  BY <1>1, <1>5 DEF VotersOK, HasAuthorizedVoter, EpochsUpTo
<1>7. ASSUME NEW x \in Nat, x >= e
      PROVE  get_authorized_voter(av, x) = key
  <2>1. e <= x
    BY <1>7, SMTT(30)
  <2>2. get_authorized_voter(av, x) = av[e]
    BY <1>1, <1>5, <2>1, VoterIs
  <2> QED
    BY <1>1, <2>2
<1>8. Latest(av) = key
  <2>1. t >= e
    BY SMTT(30)
  <2>2. get_authorized_voter(av, t) = key
    BY <1>7, <2>1
  <2> QED
    BY <1>1, <1>5, <2>2, LatestIs
<1>9. \A x : Truthful(<< >>, x, key, key)
  <2>1. DOMAIN << >> = {}
    BY SMTT(30)
  <2> QED
    BY <2>1 DEF Truthful
<1> QED
  BY <1>1, <1>2, <1>3, <1>4, <1>5, <1>6, <1>7, <1>8, <1>9 DEF VotersInv

-----------------------------------------------------------------------------
(***************************************************************************)
(* The fork: the slot hashes of a child bank are the newest ones.          *)
(***************************************************************************)
LEMMA MinIs ==
    ASSUME NEW S \in SUBSET Nat, S # {}
    PROVE  Min(S) \in S /\ \A y \in S : Min(S) <= y
<1>1. PICK m \in S : \A k \in S : ~(k < m)
  BY LeastNumber
<1>2. \A k \in S : m <= k
  BY <1>1, SMTT(30)
<1> QED
  BY <1>2 DEF Min

(* A slot of the fork that the hashes new reach is among them. *)
Reached(v, s, hashes, new) ==
    v < s /\ (v >= Min(hashes) => v \in hashes) /\ v >= Min(new) => v \in new

LEMMA NewestOnFork ==
    ASSUME NEW s \in Nat, NEW hashes \in SUBSET (0 .. s - 1), hashes # {},
           NEW new, new = Newest(hashes \cup {s}, MAX_SLOT_HASHES)
    PROVE  /\ new \in SUBSET (0 .. s) /\ new # {}
           /\ \A v \in Nat : Reached(v, s, hashes, new)
<1> DEFINE S == hashes \cup {s}
           above(v) == {u \in S : u >= v}
<1>1. S \in SUBSET Nat /\ S \in SUBSET (0 .. s) /\ hashes \in SUBSET Nat
  BY SMTT(30)
<1>2. IsFiniteSet(0 .. s)
  <2>1. 0 \in Int /\ s \in Int
    BY SMTT(30)
  <2> QED
    BY <2>1, FS_Interval
<1>3. IsFiniteSet(S)
  BY <1>1, <1>2, FS_Subset
<1>4. new = {v \in S : Cardinality(above(v)) <= MAX_SLOT_HASHES}
  BY DEF Newest
<1>5. s \in new
  <2>1. above(s) = {s}
    <3>1. s >= s /\ \A u \in hashes : ~(u >= s)
      BY SMTT(30)
    <3> QED
      BY <3>1
  <2>2. Cardinality({s}) = 1
    BY FS_Singleton
  <2>3. 1 <= MAX_SLOT_HASHES
    BY SizeAssumption, SMTT(30)
  <2> QED
    BY <1>4, <2>1, <2>2, <2>3
<1>6. ASSUME NEW v \in new, NEW w \in S, w >= v
      PROVE  w \in new
  <2>1. v \in S /\ v \in Nat /\ w \in Nat
    BY <1>1, <1>4, <1>6
  <2>2. above(w) \in SUBSET above(v)
    <3>1. \A u \in Nat : u >= w => u >= v
      BY <1>6, <2>1, SMTT(30)
    <3> QED
      BY <1>1, <3>1
  <2>3. IsFiniteSet(above(v))
    BY <1>3, FS_Subset
  <2>4. Cardinality(above(w)) <= Cardinality(above(v)) /\ IsFiniteSet(above(w))
    BY <2>2, <2>3, FS_Subset
  <2>5. Cardinality(above(w)) \in Nat /\ Cardinality(above(v)) \in Nat
    BY <2>3, <2>4, FS_CardinalityType
  <2>6. Cardinality(above(v)) <= MAX_SLOT_HASHES
    BY <1>4, <1>6
  <2> DEFINE a == Cardinality(above(w))
             b == Cardinality(above(v))
  <2>7. a \in Nat /\ b \in Nat /\ a <= b /\ b <= MAX_SLOT_HASHES
    BY <2>4, <2>5, <2>6
  <2> HIDE DEF a, b
  <2>8. a <= MAX_SLOT_HASHES
    BY <2>7, SizeAssumption, SMTT(30)
  <2> QED
    BY <1>4, <2>8 DEF a
<1>7. new \in SUBSET S
  BY <1>4
<1>8. new \in SUBSET (0 .. s) /\ new \in SUBSET Nat
  BY <1>1, <1>7
<1> HIDE DEF S, above
<1>9. Min(new) \in new /\ Min(hashes) \in hashes /\ \A y \in hashes : Min(hashes) <= y
  BY <1>1, <1>5, <1>8, MinIs
<1>10. ASSUME NEW v \in Nat, v < s, v >= Min(hashes) => v \in hashes, v >= Min(new)
       PROVE  v \in new
  <2> DEFINE m == Min(new)
             l == Min(hashes)
  <2>1. m \in Nat /\ l \in Nat /\ m \in new /\ l \in hashes /\ v >= m
    BY <1>1, <1>8, <1>9, <1>10
  <2>2. m \in S
    BY <1>7, <2>1
  <2> HIDE DEF m, l
  <2>3. m # s
    BY <1>10, <2>1, SMTT(30)
  <2>4. m \in hashes
    BY <2>2, <2>3 DEF S
  <2>5. l <= m
    BY <1>9, <2>4 DEF l
  <2>6. v >= l
    BY <2>1, <2>5, SMTT(30)
  <2>7. v \in S
    BY <1>10, <2>6 DEF S, l
  <2> QED
    BY <1>6, <2>1, <2>7
<1> QED
  BY <1>5, <1>8, <1>10 DEF Reached

-----------------------------------------------------------------------------
(***************************************************************************)
(* The states that the instructions write.                                 *)
(***************************************************************************)
LEMMA ClockFacts ==
    ASSUME NEW s \in Nat
    PROVE  /\ get_epoch(s) \in Nat /\ get_leader_schedule_epoch(s) + 1 \in Nat
           /\ get_epoch(s) < get_leader_schedule_epoch(s) + 1
           /\ get_epoch(s) <= get_leader_schedule_epoch(s) + 1
           /\ get_leader_schedule_epoch(s) + 1 <= get_epoch(s) + MAX_LEADER_SCHEDULE_EPOCH_OFFSET
<1> DEFINE e == get_epoch(s)
           l == get_leader_schedule_epoch(s)
<1>1. e \in Nat /\ l \in Nat /\ e <= l /\ l + 1 <= e + MAX_LEADER_SCHEDULE_EPOCH_OFFSET
  BY Epochs
<1> HIDE DEF e, l
<1>2. l + 1 \in Nat /\ e < l + 1 /\ e <= l + 1
  BY <1>1, SMTT(30)
<1> QED
  BY <1>1, <1>2 DEF e, l

LEMMA DefaultFields ==
    /\ DefaultState.node_pubkey = NoKey /\ DefaultState.authorized_withdrawer = NoKey
    /\ DefaultState.commission = 0 /\ DefaultState.votes = << >>
    /\ DefaultState.root_slot = NoSlot /\ DefaultState.authorized_voters = NoVoters
    /\ DefaultState.prior_voters = << >> /\ DefaultState.epoch_credits = << >>
    /\ IsVoteState(DefaultState)
<1>1. /\ DefaultState.node_pubkey = NoKey /\ DefaultState.authorized_withdrawer = NoKey
      /\ DefaultState.commission = 0 /\ DefaultState.votes = << >>
      /\ DefaultState.root_slot = NoSlot /\ DefaultState.authorized_voters = NoVoters
      /\ DefaultState.prior_voters = << >> /\ DefaultState.epoch_credits = << >>
      /\ DefaultState.last_timestamp = [slot |-> 0, timestamp |-> 0]
  BY DEF DefaultState
<1>2. DefaultState = [f \in StateFields |-> DefaultState[f]]
  <2>1. DOMAIN DefaultState = StateFields
    BY DEF DefaultState, StateFields
  <2>2. DefaultState = [f \in DOMAIN DefaultState |-> DefaultState[f]]
    BY DEF DefaultState
  <2> QED
    BY <2>1, <2>2
<1> QED
  BY <1>1, <1>2 DEF IsVoteState

(* An empty stack, with no credits. *)
LEMMA EmptyStack ==
    ASSUME NEW s \in Nat, NEW hashes
    PROVE  /\ StackInv(<< >>, NoSlot)
           /\ CreditsOK(<< >>, 0, get_epoch(s))
           /\ OnFork(VotedSlots(<< >>), s, hashes)
<1>1. DOMAIN << >> = {} /\ Len(<< >>) = 0 /\ << >> \in Seq(Lockout) /\ << >> \in Seq(CreditEntries)
  BY SMTT(30)
<1>2. 1 .. 0 - 1 = {} /\ 0 <= MAX_LOCKOUT_HISTORY /\ 0 <= MAX_EPOCH_CREDITS_HISTORY
  BY HistoryAssumption, SizeAssumption, SMTT(30)
<1>3. StackInv(<< >>, NoSlot)
  BY <1>1, <1>2 DEF StackInv, StackOK
<1>4. CreditsOK(<< >>, 0, get_epoch(s))
  BY <1>1, <1>2 DEF CreditsOK, CreditsLinked
<1>5. VotedSlots(<< >>) = {}
  BY <1>1 DEF VotedSlots
<1> QED
  BY <1>3, <1>4, <1>5 DEF OnFork

LEMMA DefaultOK ==
    ASSUME NEW s \in Nat, NEW hashes
    PROVE  StateInv(DefaultState, 0, NoVoters, s, hashes)
<1>1. VotersInv(NoVoters, << >>, NoVoters, get_epoch(s), get_leader_schedule_epoch(s) + 1)
  BY ClockFacts, VotersNone
<1> QED
  BY <1>1, DefaultFields, EmptyStack DEF StateInv

LEMMA InitializedOK ==
    ASSUME NEW s \in Nat, NEW hashes, NEW init \in Inits,
           NEW vs, vs = VoteStateNew(init, get_epoch(s)),
           NEW hist, hist = [e \in {get_epoch(s)} |-> init.authorized_voter]
    PROVE  StateInv(vs, 0, hist, s, hashes) /\ vs.votes = << >>
<1>1. /\ init.node_pubkey \in Keys /\ init.authorized_voter \in Keys
      /\ init.authorized_withdrawer \in Keys /\ init.commission \in Commissions
  BY DEF Inits
<1>2. /\ vs.node_pubkey = init.node_pubkey
      /\ vs.authorized_withdrawer = init.authorized_withdrawer
      /\ vs.commission = init.commission /\ vs.votes = << >> /\ vs.root_slot = NoSlot
      /\ vs.authorized_voters = hist /\ vs.prior_voters = << >> /\ vs.epoch_credits = << >>
      /\ vs.last_timestamp = [slot |-> 0, timestamp |-> 0]
  BY DEF VoteStateNew, DefaultState
<1>3. vs = [f \in StateFields |-> vs[f]]
  <2>1. DOMAIN vs = StateFields
    BY DEF VoteStateNew, DefaultState, StateFields
  <2>2. vs = [f \in DOMAIN vs |-> vs[f]]
    BY DEF VoteStateNew
  <2> QED
    BY <2>1, <2>2
<1>4. IsVoteState(vs)
  BY <1>1, <1>2, <1>3 DEF IsVoteState
<1>5. VotersInv(hist, << >>, hist, get_epoch(s), get_leader_schedule_epoch(s) + 1)
  BY <1>1, ClockFacts, VotersFirst
<1> QED
  BY <1>2, <1>4, <1>5, EmptyStack DEF StateInv

(* The instructions that write one field and leave the voting alone. *)
WritesOther(vs, key, com, w) ==
    \/ w = [vs EXCEPT !.authorized_withdrawer = key]
    \/ w = [vs EXCEPT !.node_pubkey = key]
    \/ w = [vs EXCEPT !.commission = com]

SameVoting(vs, w) ==
    /\ IsVoteState(w) /\ w.votes = vs.votes /\ w.root_slot = vs.root_slot
    /\ w.authorized_voters = vs.authorized_voters /\ w.prior_voters = vs.prior_voters
    /\ w.epoch_credits = vs.epoch_credits

(* The fields of a state in which some are written. *)
LEMMA OtherFields ==
    ASSUME NEW vs, IsVoteState(vs), NEW key \in Keys \cup {NoKey},
           NEW com \in Commissions \cup {0}, NEW w, WritesOther(vs, key, com, w)
    PROVE  SameVoting(vs, w)
<1>1. vs = [f \in StateFields |-> vs[f]]
  BY DEF IsVoteState
<1>2. DOMAIN w = StateFields /\ w = [f \in DOMAIN w |-> w[f]]
  BY <1>1 DEF WritesOther
<1>3. /\ w.votes = vs.votes /\ w.root_slot = vs.root_slot
      /\ w.authorized_voters = vs.authorized_voters /\ w.prior_voters = vs.prior_voters
      /\ w.epoch_credits = vs.epoch_credits
  BY <1>1 DEF WritesOther, StateFields
<1>4. /\ w.node_pubkey \in {vs.node_pubkey, key}
      /\ w.authorized_withdrawer \in {vs.authorized_withdrawer, key}
      /\ w.commission \in {vs.commission, com}
  BY <1>1 DEF WritesOther, StateFields
<1> QED
  BY <1>2, <1>3, <1>4 DEF IsVoteState, SameVoting

HasVoters(vs, p, av, w) ==
    /\ IsVoteState(w) /\ w.votes = vs.votes /\ w.root_slot = vs.root_slot
    /\ w.authorized_voters = av /\ w.prior_voters = p
    /\ w.epoch_credits = vs.epoch_credits

LEMMA VoterFields ==
    ASSUME NEW vs, IsVoteState(vs), NEW p, NEW av, NEW w,
           w = [vs EXCEPT !.prior_voters = p, !.authorized_voters = av]
    PROVE  HasVoters(vs, p, av, w)
<1>1. vs = [f \in StateFields |-> vs[f]]
  BY DEF IsVoteState
<1>2. DOMAIN w = StateFields /\ w = [f \in DOMAIN w |-> w[f]]
  BY <1>1
<1>3. /\ w.votes = vs.votes /\ w.root_slot = vs.root_slot
      /\ w.authorized_voters = av /\ w.prior_voters = p
      /\ w.epoch_credits = vs.epoch_credits
  BY <1>1 DEF StateFields
<1>4. /\ w.node_pubkey = vs.node_pubkey /\ w.commission = vs.commission
      /\ w.authorized_withdrawer = vs.authorized_withdrawer
  BY <1>1 DEF StateFields
<1> QED
  BY <1>2, <1>3, <1>4 DEF IsVoteState, HasVoters

WithVote(vs, av, vv, rs, ec) ==
    [vs EXCEPT !.authorized_voters = av, !.votes = vv, !.root_slot = rs, !.epoch_credits = ec]

HasVote(vs, av, vv, rs, ec, w) ==
    /\ IsVoteState(w) /\ w.votes = vv /\ w.root_slot = rs
    /\ w.authorized_voters = av /\ w.prior_voters = vs.prior_voters
    /\ w.epoch_credits = ec

LEMMA VoteFields ==
    ASSUME NEW vs, IsVoteState(vs), NEW av, NEW vv, NEW rs, NEW ec, NEW ts, NEW w0, NEW w,
           w0 = WithVote(vs, av, vv, rs, ec),
           w = w0 \/ w = [w0 EXCEPT !.last_timestamp = ts]
    PROVE  HasVote(vs, av, vv, rs, ec, w)
<1>1. vs = [f \in StateFields |-> vs[f]]
  BY DEF IsVoteState
<1>2. w0 = [f \in StateFields |-> w0[f]]
  BY <1>1 DEF WithVote
<1>3. /\ w0.votes = vv /\ w0.root_slot = rs /\ w0.epoch_credits = ec
      /\ w0.authorized_voters = av /\ w0.prior_voters = vs.prior_voters
      /\ w0.node_pubkey = vs.node_pubkey /\ w0.commission = vs.commission
      /\ w0.authorized_withdrawer = vs.authorized_withdrawer
  BY <1>1 DEF StateFields, WithVote
<1>4. DOMAIN w = StateFields /\ w = [f \in DOMAIN w |-> w[f]]
  BY <1>2
<1>5. /\ w.votes = w0.votes /\ w.root_slot = w0.root_slot
      /\ w.authorized_voters = w0.authorized_voters /\ w.prior_voters = w0.prior_voters
      /\ w.epoch_credits = w0.epoch_credits /\ w.node_pubkey = w0.node_pubkey
      /\ w.commission = w0.commission
      /\ w.authorized_withdrawer = w0.authorized_withdrawer
  BY <1>2 DEF StateFields
<1> QED
  BY <1>3, <1>4, <1>5 DEF IsVoteState, HasVote

(***************************************************************************)
(* A vote: what it makes of the stack is on this fork, and is something    *)
(* that process_new_vote_state would accept.                               *)
(***************************************************************************)
LEMMA VoteRun ==
    ASSUME NEW vs, NEW r, NEW hist, NEW s \in Nat, NEW hashes,
           StateInv(vs, r, hist, s, hashes),
           NEW slots, Len(slots) \in Nat, DOMAIN slots = 1 .. Len(slots),
           \A k \in 1 .. Len(slots) : slots[k] \in Nat /\ slots[k] < s,
           NEW i \in 1 .. Len(slots), slots[i] > last_voted_slot(vs.votes),
           \A k \in 1 .. Len(slots) : slots[k] > last_voted_slot(vs.votes) => slots[k] \in hashes,
           NEW start, start = [votes |-> vs.votes, root_slot |-> vs.root_slot,
                               epoch_credits |-> vs.epoch_credits, rooted |-> r],
           NEW voted, voted = ProcessVoteSlots(start, slots, get_epoch(s))
    PROVE  /\ StackInv(voted.votes, voted.root_slot)
           /\ CreditsOK(voted.epoch_credits, voted.rooted, get_epoch(s))
           /\ OnFork(VotedSlots(voted.votes), s, hashes)
           /\ process_new_vote_state_accepts(vs.votes, vs.root_slot,
                                             voted.votes, voted.root_slot)
<1> DEFINE given == {slots[k] : k \in 1 .. Len(slots)}
           e == get_epoch(s)
<1>1. /\ start.votes = vs.votes /\ start.root_slot = vs.root_slot
      /\ start.epoch_credits = vs.epoch_credits /\ start.rooted = r
  OBVIOUS
<1>2. StackInv(vs.votes, vs.root_slot) /\ CreditsOK(vs.epoch_credits, r, e)
      /\ OnFork(VotedSlots(vs.votes), s, hashes)
  BY DEF StateInv
<1>3. e \in Nat
  BY ClockFacts
<1> HIDE DEF e
<1>4. /\ RunInv(vs.votes, vs.root_slot, given, voted, e)
      /\ \A k \in 1 .. Len(slots) : last_voted_slot(voted.votes) >= slots[k]
  <2>1. StackInv(start.votes, start.root_slot) /\ CreditsOK(start.epoch_credits, start.rooted, e)
    BY <1>1, <1>2
  <2>2. \A k \in 1 .. Len(slots) : slots[k] \in given /\ slots[k] \in Nat
    OBVIOUS
  <2>3. voted = ProcessVoteSlots(start, slots, e)
    BY DEF e
  <2> HIDE DEF given
  <2>4. /\ RunInv(start.votes, start.root_slot, given, voted, e)
        /\ \A k \in 1 .. Len(slots) : last_voted_slot(voted.votes) >= slots[k]
    BY <1>3, <2>1, <2>2, <2>3, RunOK
  <2> QED
    BY <1>1, <2>4
<1>5. /\ StackInv(voted.votes, voted.root_slot)
      /\ CreditsOK(voted.epoch_credits, voted.rooted, e)
      /\ Follows(vs.votes, vs.root_slot, given, voted.votes, voted.root_slot)
  BY <1>4 DEF RunInv
<1>6. /\ last_voted_slot(voted.votes) \in Nat \cup {NoSlot}
      /\ last_voted_slot(vs.votes) \in Nat \cup {NoSlot}
  BY <1>2, <1>5, LastVote DEF StackInv
<1>7. last_voted_slot(voted.votes) > last_voted_slot(vs.votes)
  <2> DEFINE a == last_voted_slot(voted.votes)
             b == last_voted_slot(vs.votes)
             c == slots[i]
  <2>1. a \in Nat \cup {NoSlot} /\ b \in Nat \cup {NoSlot} /\ c \in Nat /\ a >= c /\ c > b
    BY <1>4, <1>6
  <2> HIDE DEF a, b, c
  <2>2. a > b
    BY <2>1, SMTT(30) DEF NoSlot
  <2> QED
    BY <2>2 DEF a, b
<1>8. process_new_vote_state_accepts(vs.votes, vs.root_slot, voted.votes, voted.root_slot)
  <2> HIDE DEF given
  <2> QED
    BY <1>2, <1>5, <1>7, FollowsAccepted
<1>9. ASSUME NEW v \in VotedSlots(voted.votes)
      PROVE  v \in Nat /\ v < s /\ (v >= Min(hashes) => v \in hashes)
  <2>1. PICK j \in DOMAIN voted.votes : v = voted.votes[j].slot
    BY <1>9 DEF VotedSlots
  <2>2. \/ v \in VotedSlots(vs.votes)
        \/ v \in given /\ v > last_voted_slot(vs.votes)
    BY <1>5, <2>1 DEF Follows
  <2>3. CASE v \in VotedSlots(vs.votes)
    BY <1>2, <2>3 DEF OnFork
  <2>4. CASE v \in given /\ v > last_voted_slot(vs.votes)
    BY <2>4
  <2> QED
    BY <2>2, <2>3, <2>4
<1>10. OnFork(VotedSlots(voted.votes), s, hashes)
  BY <1>9 DEF OnFork
<1> QED
  BY <1>5, <1>8, <1>10 DEF e

(* The state that Vote writes. *)
LEMMA VotedOK ==
    ASSUME NEW vs, NEW r, NEW hist, NEW s \in Nat, NEW hashes,
           StateInv(vs, r, hist, s, hashes), DOMAIN vs.authorized_voters # {},
           NEW w, IsVoteState(w), w.prior_voters = vs.prior_voters,
           w.authorized_voters
             = get_and_update_authorized_voter(vs.authorized_voters, get_epoch(s)),
           NEW r2, StackInv(w.votes, w.root_slot),
           CreditsOK(w.epoch_credits, r2, get_epoch(s)),
           OnFork(VotedSlots(w.votes), s, hashes)
    PROVE  StateInv(w, r2, hist, s, hashes)
<1> DEFINE e == get_epoch(s)
           t == get_leader_schedule_epoch(s) + 1
           av == vs.authorized_voters
           new == w.authorized_voters
           prior == vs.prior_voters
<1>1. e \in Nat /\ t \in Nat /\ e <= t /\ t <= e + MAX_LEADER_SCHEDULE_EPOCH_OFFSET
  BY ClockFacts
<1>2. VotersInv(av, prior, hist, e, t) /\ DOMAIN av # {}
      /\ new = get_and_update_authorized_voter(av, e)
  BY DEF StateInv
<1> HIDE DEF e, t, av, new, prior
<1>3. VotersInv(new, prior, hist, e, t)
  BY <1>1, <1>2, VotersUpdated
<1> QED
  BY <1>3 DEF StateInv, e, t, new, prior

(* The state that AuthorizeVoter writes. *)
LEMMA AuthorizedOK ==
    ASSUME NEW vs, NEW r, NEW hist, NEW s \in Nat, NEW hashes,
           StateInv(vs, r, hist, s, hashes), DOMAIN vs.authorized_voters # {},
           NEW voters,
           voters = get_and_update_authorized_voter(vs.authorized_voters, get_epoch(s)),
           get_leader_schedule_epoch(s) + 1 \notin DOMAIN voters,
           NEW key \in Keys, NEW w, IsVoteState(w),
           w.votes = vs.votes, w.root_slot = vs.root_slot, w.epoch_credits = vs.epoch_credits,
           w.authorized_voters = Insert(voters, get_leader_schedule_epoch(s) + 1, key),
           w.prior_voters =
             IF Latest(voters) = key THEN vs.prior_voters
             ELSE CircBufAppend(vs.prior_voters,
                     PriorVoter(Latest(voters), PriorUntil(vs.prior_voters),
                                get_leader_schedule_epoch(s) + 1))
    PROVE  StateInv(w, r, hist, s, hashes)
<1> DEFINE e == get_epoch(s)
           t == get_leader_schedule_epoch(s) + 1
           av == vs.authorized_voters
           new == w.authorized_voters
           prior == vs.prior_voters
           prior2 == w.prior_voters
<1>1. e \in Nat /\ t \in Nat /\ e <= t /\ e < t /\ t <= e + MAX_LEADER_SCHEDULE_EPOCH_OFFSET
  BY ClockFacts
<1>2. /\ VotersInv(av, prior, hist, e, t) /\ DOMAIN av # {} /\ t \notin DOMAIN voters
      /\ voters = get_and_update_authorized_voter(av, e)
      /\ new = Insert(voters, t, key)
      /\ prior2 = IF Latest(voters) = key THEN prior
                  ELSE CircBufAppend(prior, PriorVoter(Latest(voters), PriorUntil(prior), t))
  BY DEF StateInv
<1> HIDE DEF e, t, av, new, prior, prior2
<1>3. VotersInv(voters, prior, hist, e, t) /\ DOMAIN voters # {} /\ DOMAIN voters \in SUBSET (e .. t)
  BY <1>1, <1>2, VotersUpdated
<1>4. VotersInv(new, prior2, hist, e, t)
  BY <1>1, <1>2, <1>3, VotersAuthorized
<1> QED
  BY <1>4 DEF StateInv, e, t, new, prior2

(* The same state seen by a child bank. *)
LEMMA NextBankOK ==
    ASSUME NEW vs, NEW r, NEW hist, NEW s, NEW hashes, ClockInv(s, hashes),
           StateInv(vs, r, hist, s, hashes),
           NEW s2 \in Nat, s < s2, s2 <= MaxSlot,
           NEW hashes2, hashes2 = Newest(hashes \cup {s}, MAX_SLOT_HASHES),
           NEW hist2,
           hist2 = IF DOMAIN vs.authorized_voters # {}
                   THEN Insert(hist, get_epoch(s2),
                               get_authorized_voter(vs.authorized_voters, get_epoch(s2)))
                   ELSE hist
    PROVE  StateInv(vs, r, hist2, s2, hashes2) /\ ClockInv(s2, hashes2)
<1>1. s \in Nat /\ 0 < s /\ hashes \in SUBSET (0 .. s - 1) /\ hashes # {}
  BY DEF ClockInv
<1>2. /\ hashes2 \in SUBSET (0 .. s) /\ hashes2 # {}
      /\ \A v \in Nat : Reached(v, s, hashes, hashes2)
  BY <1>1, NewestOnFork, SMTT(30)
<1>3. ClockInv(s2, hashes2)
  <2>1. 0 < s2 /\ \A u \in 0 .. s : u \in 0 .. s2 - 1
    BY <1>1, SMTT(30)
  <2> QED
    BY <1>2, <2>1 DEF ClockInv
<1>4. OnFork(VotedSlots(vs.votes), s2, hashes2)
  <2>1. ASSUME NEW v \in VotedSlots(vs.votes)
        PROVE  v \in Nat /\ v < s2 /\ (v >= Min(hashes2) => v \in hashes2)
    <3>1. v \in Nat /\ v < s /\ (v >= Min(hashes) => v \in hashes)
      BY <2>1 DEF StateInv, OnFork
    <3>2. v < s2
      BY <1>1, <3>1, SMTT(30)
    <3> QED
      BY <1>2, <3>1, <3>2 DEF Reached
  <2> QED
    BY <2>1 DEF OnFork
<1> DEFINE e == get_epoch(s)
           t == get_leader_schedule_epoch(s) + 1
           e2 == get_epoch(s2)
           t2 == get_leader_schedule_epoch(s2) + 1
<1>5. e \in Nat /\ t \in Nat /\ e2 \in Nat /\ t2 \in Nat
  BY <1>1, ClockFacts
<1>6. e <= e2 /\ t <= t2
  <2>1. s <= s2
    BY <1>1, SMTT(30)
  <2> DEFINE l == get_leader_schedule_epoch(s)
             l2 == get_leader_schedule_epoch(s2)
  <2>2. e <= e2 /\ l <= l2 /\ l \in Nat /\ l2 \in Nat
    BY <1>1, <2>1, Epochs
  <2> HIDE DEF l, l2
  <2>3. l + 1 <= l2 + 1
    BY <2>2, SMTT(30)
  <2> QED
    BY <2>2, <2>3 DEF l, l2
<1>7. VotersInv(vs.authorized_voters, vs.prior_voters, hist2, e2, t2)
  <2> DEFINE av == vs.authorized_voters
             prior == vs.prior_voters
  <2>1. /\ VotersInv(av, prior, hist, e, t)
        /\ hist2 = IF DOMAIN av # {} THEN Insert(hist, e2, get_authorized_voter(av, e2)) ELSE hist
    BY DEF StateInv
  <2> HIDE DEF e, t, e2, t2, av, prior
  <2>2. VotersInv(av, prior, hist2, e2, t2)
    BY <1>5, <1>6, <2>1, VotersNextEpoch
  <2> QED
    BY <2>2 DEF av, prior
<1>8. CreditsOK(vs.epoch_credits, r, e2)
  <2> DEFINE ec == vs.epoch_credits
  <2>1. CreditsOK(ec, r, e)
    BY DEF StateInv
  <2> HIDE DEF ec, e, e2
  <2>2. ec \in Seq(CreditEntries) /\ \A i \in DOMAIN ec : ec[i].epoch <= e
    BY <2>1 DEF CreditsOK, CreditsLinked
  <2>3. ASSUME NEW i \in DOMAIN ec
        PROVE  ec[i].epoch <= e2
    <3> DEFINE x == ec[i].epoch
    <3>1. x \in Nat /\ x <= e
      BY <2>2, <2>3, CreditElement
    <3> HIDE DEF x
    <3>2. x <= e2
      BY <1>5, <1>6, <3>1, SMTT(30)
    <3> QED
      BY <3>2 DEF x
  <2> QED
    BY <2>1, <2>3 DEF CreditsOK, CreditsLinked, ec
<1> QED
  BY <1>3, <1>4, <1>7, <1>8 DEF StateInv

-----------------------------------------------------------------------------
(***************************************************************************)
(* The instructions, one by one.                                           *)
(***************************************************************************)
RollBackFree ==
    vote_state'.votes \notin {vote_state.votes, << >>} =>
        process_new_vote_state_accepts(vote_state.votes, vote_state.root_slot,
                                       vote_state'.votes, vote_state'.root_slot)

VotersFixed ==
    Initialized /\ Initialized' =>
        \A e \in epoch' .. leader_schedule_epoch :
            get_authorized_voter(vote_state'.authorized_voters, e)
              = get_authorized_voter(vote_state.authorized_voters, e)

StepOK == VoteInv' /\ RollBackFree /\ VotersFixed

(* A step that changes neither the stack nor the voters. *)
LEMMA QuietStep ==
    ASSUME VoteInv', vote_state'.votes = vote_state.votes,
           vote_state'.authorized_voters = vote_state.authorized_voters
    PROVE  StepOK
  BY DEF StepOK, RollBackFree, VotersFixed

(* Writing a state whose parts are as they should be succeeds. *)
LEMMA WriteSucceeds ==
    ASSUME NEW w, NEW r, NEW hist, NEW s, NEW hashes, StateInv(w, r, hist, s, hashes),
           set_state(w)
    PROVE  vote_state' = w /\ fault' = fault
<1>1. ~(SerializedSize(w) > size_of)
  BY StateFits
<1> QED
  BY <1>1 DEF set_state

LEMMA OtherStep ==
    ASSUME VoteInv, NEW key \in Keys \cup {NoKey}, NEW com \in Commissions \cup {0}, NEW w,
           WritesOther(vote_state, key, com, w),
           set_state(w), UNCHANGED <<lamports, slot, slot_hashes, rooted, voter_history>>
    PROVE  StepOK
<1>1. IsVoteState(vote_state)
  BY DEF VoteInv, StateInv
<1>2. SameVoting(vote_state, w)
  BY <1>1, OtherFields
<1>3. StateInv(w, rooted, voter_history, slot, slot_hashes)
  BY <1>2, SameParts DEF VoteInv, SameVoting
<1>4. vote_state' = w /\ fault' = fault
  BY <1>3, WriteSucceeds
<1>5. VoteInv'
  BY <1>3, <1>4 DEF VoteInv
<1> QED
  BY <1>2, <1>4, <1>5, QuietStep DEF SameVoting

LEMMA InitializeStep ==
    ASSUME VoteInv, NEW signers, NEW init \in Inits, InitializeAccount(init, signers)
    PROVE  StepOK
<1> DEFINE w == VoteStateNew(init, get_epoch(slot))
           hist == [e \in {get_epoch(slot)} |-> init.authorized_voter]
<1>1. /\ ~Initialized /\ set_state(w) /\ rooted' = 0 /\ voter_history' = hist
      /\ UNCHANGED <<lamports, slot, slot_hashes>>
  BY DEF InitializeAccount, epoch
<1>2. slot \in Nat
  BY DEF VoteInv, ClockInv
<1>3. StateInv(w, 0, hist, slot, slot_hashes) /\ w.votes = << >>
  BY <1>2, InitializedOK
<1> HIDE DEF w, hist
<1>4. vote_state' = w /\ fault' = fault
  BY <1>1, <1>3, WriteSucceeds
<1>5. VoteInv'
  BY <1>1, <1>3, <1>4 DEF VoteInv
<1> QED
  BY <1>1, <1>3, <1>4, <1>5 DEF StepOK, RollBackFree, VotersFixed

LEMMA WithdrawStep ==
    ASSUME VoteInv, NEW signers, NEW amount \in 1 .. lamports, Withdraw(amount, signers)
    PROVE  StepOK
<1>1. lamports' \in 0 .. MaxLamports
  <2>1. lamports' = lamports - amount
    BY DEF Withdraw
  <2>2. lamports \in 0 .. MaxLamports
    BY DEF VoteInv
  <2>3. lamports - amount \in 0 .. MaxLamports
    BY <2>2, BoundsAssumption, SMTT(30)
  <2> QED
    BY <2>1, <2>3
<1>2. UNCHANGED <<slot, slot_hashes>>
  BY DEF Withdraw
<1>3. CASE set_state(DefaultState) /\ rooted' = 0 /\ voter_history' = NoVoters
  <2>1. slot \in Nat
    BY DEF VoteInv, ClockInv
  <2>2. StateInv(DefaultState, 0, NoVoters, slot, slot_hashes)
    BY <2>1, DefaultOK
  <2>3. vote_state' = DefaultState /\ fault' = fault
    BY <1>3, <2>2, WriteSucceeds
  <2>4. VoteInv'
    BY <1>1, <1>2, <1>3, <2>2, <2>3 DEF VoteInv
  <2>5. vote_state'.votes = << >> /\ ~Initialized'
    <3>1. DefaultState.votes = << >> /\ DOMAIN DefaultState.authorized_voters = {}
      BY DefaultFields DEF NoVoters
    <3> QED
      BY <2>3, <3>1 DEF Initialized, is_uninitialized
  <2> QED
    BY <2>4, <2>5 DEF StepOK, RollBackFree, VotersFixed
<1>4. CASE UNCHANGED <<vote_state, fault, rooted, voter_history>>
  <2>1. VoteInv'
    BY <1>1, <1>2, <1>4 DEF VoteInv
  <2> QED
    BY <1>4, <2>1, QuietStep
<1> QED
  BY <1>3, <1>4 DEF Withdraw

LEMMA DepositStep ==
    ASSUME VoteInv, NEW amount \in 1 .. MaxLamports, Deposit(amount)
    PROVE  StepOK
<1>1. lamports' \in 0 .. MaxLamports
  <2>1. lamports' = lamports + amount /\ lamports + amount <= MaxLamports
    BY DEF Deposit
  <2>2. lamports \in 0 .. MaxLamports
    BY DEF VoteInv
  <2>3. lamports + amount \in 0 .. MaxLamports
    BY <2>1, <2>2, BoundsAssumption, SMTT(30)
  <2> QED
    BY <2>1, <2>3
<1>2. UNCHANGED <<vote_state, slot, slot_hashes, fault, rooted, voter_history>>
  BY DEF Deposit
<1>3. VoteInv'
  BY <1>1, <1>2 DEF VoteInv
<1> QED
  BY <1>2, <1>3, QuietStep

LEMMA NextBankStep ==
    ASSUME VoteInv, NEW skipped \in 0 .. MaxSkip, NextBank(slot + 1 + skipped)
    PROVE  StepOK
<1> DEFINE s2 == slot + 1 + skipped
           av == vote_state.authorized_voters
           hist2 == IF DOMAIN av # {}
                    THEN Insert(voter_history, get_epoch(s2),
                                get_authorized_voter(av, get_epoch(s2)))
                    ELSE voter_history
           hashes2 == Newest(slot_hashes \cup {slot}, MAX_SLOT_HASHES)
<1>1. /\ s2 <= MaxSlot /\ slot' = s2 /\ slot_hashes' = hashes2 /\ voter_history' = hist2
      /\ UNCHANGED <<vote_state, lamports, fault, rooted>>
  BY DEF NextBank, Initialized, is_uninitialized
<1>2. ClockInv(slot, slot_hashes) /\ slot \in Nat
  BY DEF VoteInv, ClockInv
<1>3. s2 \in Nat /\ slot < s2
  BY <1>2, BoundsAssumption, SMTT(30)
<1>4. StateInv(vote_state, rooted, hist2, s2, hashes2) /\ ClockInv(s2, hashes2)
  <2>1. StateInv(vote_state, rooted, voter_history, slot, slot_hashes) /\ s2 <= MaxSlot
    BY <1>1 DEF VoteInv
  <2>2. /\ hashes2 = Newest(slot_hashes \cup {slot}, MAX_SLOT_HASHES)
        /\ hist2 = IF DOMAIN vote_state.authorized_voters # {}
                   THEN Insert(voter_history, get_epoch(s2),
                               get_authorized_voter(vote_state.authorized_voters, get_epoch(s2)))
                   ELSE voter_history
    OBVIOUS
  <2> HIDE DEF s2, hist2, hashes2
  <2> QED
    BY <1>2, <1>3, <2>1, <2>2, NextBankOK
<1> HIDE DEF s2, hist2, hashes2
<1>5. VoteInv'
  BY <1>1, <1>4 DEF VoteInv
<1> QED
  BY <1>1, <1>5, QuietStep

(* The slots of a vote. *)
LEMMA VoteSlots ==
    ASSUME NEW vote \in Votes, slot \in Nat
    PROVE  /\ Len(vote.slots) \in Nat /\ DOMAIN vote.slots = 1 .. Len(vote.slots)
           /\ \A k \in 1 .. Len(vote.slots) : vote.slots[k] \in Nat /\ vote.slots[k] < slot
<1> DEFINE sl == vote.slots
<1>1. PICK n \in 0 .. MaxVoteSlots : sl \in [1 .. n -> 0 .. slot - 1]
  <2>1. PICK x \in UNION {[1 .. n -> 0 .. slot - 1] : n \in 0 .. MaxVoteSlots} :
           vote \in [slots : {x}, hash : Range(x) \cup {NoSlot},
                     timestamp : {NoTimestamp} \cup Timestamps]
    BY DEF Votes
  <2>2. sl = x
    BY <2>1
  <2> QED
    BY <2>1, <2>2
<1>2. n \in Nat
  BY BoundsAssumption, SMTT(30)
<1> HIDE DEF sl
<1>3. sl \in Seq(0 .. slot - 1) /\ DOMAIN sl = 1 .. n
  BY <1>1, <1>2, SMTT(30)
<1>4. Len(sl) \in Nat /\ DOMAIN sl = 1 .. Len(sl)
  BY <1>3, SMTT(30)
<1>5. ASSUME NEW k \in DOMAIN sl
      PROVE  sl[k] \in Nat /\ sl[k] < slot
  <2>1. sl[k] \in 0 .. slot - 1
    BY <1>1, <1>3, <1>5
  <2> DEFINE x == sl[k]
  <2>2. x \in 0 .. slot - 1
    BY <2>1
  <2> HIDE DEF x
  <2>3. x \in Nat /\ x < slot
    BY <2>2, SMTT(30)
  <2> QED
    BY <2>3 DEF x
<1> QED
  BY <1>4, <1>5 DEF sl

LEMMA VoteStep ==
    ASSUME VoteInv, NEW vote \in Votes, NEW signers, Vote(vote, signers)
    PROVE  StepOK
<1> DEFINE start == [votes |-> vote_state.votes, root_slot |-> vote_state.root_slot,
                     epoch_credits |-> vote_state.epoch_credits, rooted |-> rooted]
           voted == ProcessVoteSlots(start, vote.slots, epoch)
           voters == get_and_update_authorized_voter(vote_state.authorized_voters, epoch)
           w0 == [vote_state EXCEPT !.authorized_voters = voters,
                                    !.votes = voted.votes,
                                    !.root_slot = voted.root_slot,
                                    !.epoch_credits = voted.epoch_credits]
           ts == [slot |-> Max(Range(vote.slots)), timestamp |-> vote.timestamp]
           w1 == [w0 EXCEPT !.last_timestamp = ts]
<1>1. /\ Initialized /\ check_slots_are_valid(vote_state, vote)
      /\ set_state(w0) \/ set_state(w1)
      /\ rooted' = IF fault' = fault THEN voted.rooted ELSE rooted
      /\ UNCHANGED <<lamports, slot, slot_hashes, voter_history>>
  BY DEF Vote
<1>2. slot \in Nat /\ StateInv(vote_state, rooted, voter_history, slot, slot_hashes)
  BY DEF VoteInv, ClockInv
<1>3. /\ Len(vote.slots) \in Nat /\ DOMAIN vote.slots = 1 .. Len(vote.slots)
      /\ \A k \in 1 .. Len(vote.slots) : vote.slots[k] \in Nat /\ vote.slots[k] < slot
  BY <1>2, VoteSlots
<1>4. PICK i \in DOMAIN vote.slots : vote.slots[i] > last_voted_slot(vote_state.votes)
  BY <1>1 DEF check_slots_are_valid, NewSlots
<1>5. \A k \in 1 .. Len(vote.slots) :
         vote.slots[k] > last_voted_slot(vote_state.votes) => vote.slots[k] \in slot_hashes
  BY <1>1, <1>3 DEF check_slots_are_valid, NewSlots
<1>6. /\ StackInv(voted.votes, voted.root_slot)
      /\ CreditsOK(voted.epoch_credits, voted.rooted, get_epoch(slot))
      /\ OnFork(VotedSlots(voted.votes), slot, slot_hashes)
      /\ process_new_vote_state_accepts(vote_state.votes, vote_state.root_slot,
                                        voted.votes, voted.root_slot)
  <2>1. i \in 1 .. Len(vote.slots)
    BY <1>3
  <2>2. voted = ProcessVoteSlots(start, vote.slots, get_epoch(slot))
    BY DEF epoch
  <2>3. start = [votes |-> vote_state.votes, root_slot |-> vote_state.root_slot,
                 epoch_credits |-> vote_state.epoch_credits, rooted |-> rooted]
    OBVIOUS
  <2> HIDE DEF start, voted
  <2> QED
    BY <1>2, <1>3, <1>4, <1>5, <2>1, <2>2, <2>3, VoteRun
<1>7. /\ IsVoteState(vote_state)
      /\ w0 = WithVote(vote_state, voters, voted.votes, voted.root_slot, voted.epoch_credits)
  BY <1>2 DEF StateInv, WithVote
<1>8. voters = get_and_update_authorized_voter(vote_state.authorized_voters, get_epoch(slot))
      /\ DOMAIN vote_state.authorized_voters # {}
  BY <1>1 DEF epoch, Initialized, is_uninitialized
<1>9. PICK w : set_state(w) /\ (w = w0 \/ w = [w0 EXCEPT !.last_timestamp = ts])
  BY <1>1
<1> HIDE DEF voted, voters, w0, ts
<1>10. /\ IsVoteState(w) /\ w.votes = voted.votes /\ w.root_slot = voted.root_slot
       /\ w.authorized_voters = voters /\ w.prior_voters = vote_state.prior_voters
       /\ w.epoch_credits = voted.epoch_credits
  <2>1. HasVote(vote_state, voters, voted.votes, voted.root_slot, voted.epoch_credits, w)
    BY <1>7, <1>9, VoteFields
  <2> QED
    BY <2>1 DEF HasVote
<1>11. StateInv(w, voted.rooted, voter_history, slot, slot_hashes)
  BY <1>2, <1>6, <1>8, <1>10, VotedOK
<1>12. vote_state' = w /\ fault' = fault
  BY <1>9, <1>11, WriteSucceeds
<1>13. VoteInv'
  BY <1>1, <1>11, <1>12 DEF VoteInv
<1>14. RollBackFree
  BY <1>6, <1>10, <1>12 DEF RollBackFree
<1>15. VotersFixed
  <2>1. epoch' = get_epoch(slot) /\ leader_schedule_epoch = get_leader_schedule_epoch(slot)
    BY <1>1 DEF epoch, leader_schedule_epoch
  <2> DEFINE e == get_epoch(slot)
             l == get_leader_schedule_epoch(slot)
             av == vote_state.authorized_voters
  <2>2. e \in Nat /\ l + 1 \in Nat /\ e <= l + 1 /\ l \in Nat
    BY <1>2, ClockFacts, Epochs
  <2>3. VotersOK(av, e, l + 1) /\ voters = get_and_update_authorized_voter(av, e)
    BY <1>2, <1>8 DEF StateInv, VotersInv
  <2> HIDE DEF e, l, av
  <2>4. \A x \in Nat : e <= x => get_authorized_voter(voters, x) = get_authorized_voter(av, x)
    BY <2>2, <2>3, UpdateVoters, SMTT(30)
  <2>5. \A x \in e .. l : x \in Nat /\ e <= x
    BY <2>2, SMTT(30)
  <2>6. \A x \in e .. l : get_authorized_voter(voters, x) = get_authorized_voter(av, x)
    BY <2>4, <2>5
  <2> QED
    BY <1>10, <1>12, <2>1, <2>6 DEF VotersFixed, e, l, av
<1> QED
  BY <1>13, <1>14, <1>15 DEF StepOK

LEMMA AuthorizeStep ==
    ASSUME VoteInv, NEW key \in Keys, NEW signers, AuthorizeVoter(key, signers)
    PROVE  StepOK
<1> DEFINE e == get_epoch(slot)
           l == get_leader_schedule_epoch(slot)
           t == l + 1
           av == vote_state.authorized_voters
           voters == get_and_update_authorized_voter(av, e)
           prior2 == IF Latest(voters) = key THEN vote_state.prior_voters
                     ELSE CircBufAppend(vote_state.prior_voters,
                             PriorVoter(Latest(voters), PriorUntil(vote_state.prior_voters), t))
           new == Insert(voters, t, key)
           w == [vote_state EXCEPT !.prior_voters = prior2, !.authorized_voters = new]
<1>1. /\ HasAuthorizedVoter(av, e) /\ t \notin DOMAIN voters
      /\ IF voters[Max(DOMAIN voters)] # key /\ t <= Max(DOMAIN voters)
         THEN fault' = "assertion" /\ UNCHANGED vote_state
         ELSE set_state(w)
      /\ UNCHANGED <<lamports, slot, slot_hashes, rooted, voter_history>>
  BY DEF AuthorizeVoter, TooSoonToReauthorize, target_epoch, leader_schedule_epoch, epoch,
         RememberPriorVoter, Latest
<1>2. slot \in Nat /\ StateInv(vote_state, rooted, voter_history, slot, slot_hashes)
  BY DEF VoteInv, ClockInv
<1>3. DOMAIN av # {} /\ IsVoteState(vote_state)
  BY <1>1, <1>2 DEF HasAuthorizedVoter, EpochsUpTo, StateInv
<1>4. /\ e \in Nat /\ l \in Nat /\ t \in Nat /\ e <= t
      /\ t <= e + MAX_LEADER_SCHEDULE_EPOCH_OFFSET
  BY <1>2, ClockFacts, Epochs
<1>5. VotersOK(av, e, t)
  BY <1>2, <1>3 DEF StateInv, VotersInv
<1>6. voters = get_and_update_authorized_voter(av, e) /\ new = Insert(voters, t, key)
  OBVIOUS
<1>7. /\ IsVoteState(w) /\ w.votes = vote_state.votes /\ w.root_slot = vote_state.root_slot
      /\ w.authorized_voters = new /\ w.prior_voters = prior2
      /\ w.epoch_credits = vote_state.epoch_credits
  <2>1. w = [vote_state EXCEPT !.prior_voters = prior2, !.authorized_voters = new]
    OBVIOUS
  <2> HIDE DEF prior2, new, w
  <2>2. HasVoters(vote_state, prior2, new, w)
    BY <1>3, <2>1, VoterFields
  <2> QED
    BY <2>2 DEF HasVoters
<1>8. StateInv(w, rooted, voter_history, slot, slot_hashes)
  <2>1. /\ DOMAIN vote_state.authorized_voters # {}
        /\ voters = get_and_update_authorized_voter(vote_state.authorized_voters, get_epoch(slot))
        /\ get_leader_schedule_epoch(slot) + 1 \notin DOMAIN voters
        /\ w.authorized_voters = Insert(voters, get_leader_schedule_epoch(slot) + 1, key)
        /\ w.prior_voters = IF Latest(voters) = key THEN vote_state.prior_voters
             ELSE CircBufAppend(vote_state.prior_voters,
                     PriorVoter(Latest(voters), PriorUntil(vote_state.prior_voters),
                                get_leader_schedule_epoch(slot) + 1))
    BY <1>1, <1>3, <1>7
  <2> HIDE DEF e, l, t, av, voters, prior2, new, w
  <2> QED
    BY <1>2, <1>7, <2>1, AuthorizedOK
<1> HIDE DEF e, l, t, av, voters, prior2, new, w
<1>9. /\ VotersOK(voters, e, t)
      /\ \A x \in Nat : e <= x => get_authorized_voter(voters, x) = get_authorized_voter(av, x)
  BY <1>4, <1>5, <1>6, UpdateVoters, SMTT(30)
<1>10. InsertedAt(voters, new, e, t, key)
  BY <1>1, <1>4, <1>6, <1>9, InsertVoter
<1>11. vote_state' = w /\ fault' = fault
  <2>1. set_state(w)
    BY <1>1, <1>10 DEF InsertedAt
  <2> QED
    BY <1>8, <2>1, WriteSucceeds
<1>12. VoteInv'
  BY <1>1, <1>8, <1>11 DEF VoteInv
<1>13. RollBackFree
  BY <1>7, <1>11 DEF RollBackFree
<1>14. VotersFixed
  <2>1. epoch' = e /\ leader_schedule_epoch = l
    BY <1>1 DEF epoch, leader_schedule_epoch, e, l
  <2>2. \A x \in e .. l : x \in Nat /\ e <= x /\ x < t
    BY <1>4, SMTT(30) DEF t
  <2>3. \A x \in e .. l : get_authorized_voter(new, x) = get_authorized_voter(av, x)
    BY <1>9, <1>10, <2>2 DEF InsertedAt
  <2> QED
    BY <1>7, <1>11, <2>1, <2>3 DEF VotersFixed, av
<1> QED
  BY <1>12, <1>13, <1>14 DEF StepOK

(***************************************************************************)
(* Every step from a state with the invariant.                             *)
(***************************************************************************)
LEMMA EveryStep ==
    ASSUME VoteInv, Next
    PROVE  StepOK
<1>1. ASSUME NEW signers \in SUBSET Keys, NEW init \in Inits, InitializeAccount(init, signers)
      PROVE  StepOK
  BY <1>1, InitializeStep
<1>2. ASSUME NEW signers \in SUBSET Keys, NEW vote \in Votes, Vote(vote, signers)
      PROVE  StepOK
  BY <1>2, VoteStep
<1>3. ASSUME NEW signers \in SUBSET Keys, NEW key \in Keys, AuthorizeVoter(key, signers)
      PROVE  StepOK
  BY <1>3, AuthorizeStep
<1>4. ASSUME NEW signers \in SUBSET Keys, NEW key \in Keys, AuthorizeWithdrawer(key, signers)
      PROVE  StepOK
  <2>1. PICK w : WritesOther(vote_state, key, 0, w) /\ set_state(w)
    BY <1>4 DEF AuthorizeWithdrawer, WritesOther
  <2>2. UNCHANGED <<lamports, slot, slot_hashes, rooted, voter_history>>
    BY <1>4 DEF AuthorizeWithdrawer
  <2> QED
    BY <2>1, <2>2, OtherStep
<1>5. ASSUME NEW signers \in SUBSET Keys, NEW node \in Keys, UpdateValidatorIdentity(node, signers)
      PROVE  StepOK
  <2>1. PICK w : WritesOther(vote_state, node, 0, w) /\ set_state(w)
    BY <1>5 DEF UpdateValidatorIdentity, WritesOther
  <2>2. UNCHANGED <<lamports, slot, slot_hashes, rooted, voter_history>>
    BY <1>5 DEF UpdateValidatorIdentity
  <2> QED
    BY <2>1, <2>2, OtherStep
<1>6. ASSUME NEW signers \in SUBSET Keys, NEW com \in Commissions, UpdateCommission(com, signers)
      PROVE  StepOK
  <2>1. PICK w : WritesOther(vote_state, NoKey, com, w) /\ set_state(w)
    BY <1>6 DEF UpdateCommission, WritesOther
  <2>2. UNCHANGED <<lamports, slot, slot_hashes, rooted, voter_history>>
    BY <1>6 DEF UpdateCommission
  <2> QED
    BY <2>1, <2>2, OtherStep
<1>7. ASSUME NEW signers \in SUBSET Keys, NEW amount \in 1 .. lamports, Withdraw(amount, signers)
      PROVE  StepOK
  BY <1>7, WithdrawStep
<1>8. ASSUME NEW amount \in 1 .. MaxLamports, Deposit(amount)
      PROVE  StepOK
  BY <1>8, DepositStep
<1>9. ASSUME NEW skipped \in 0 .. MaxSkip, NextBank(slot + 1 + skipped)
      PROVE  StepOK
  BY <1>9, NextBankStep
<1> QED
  BY <1>1, <1>2, <1>3, <1>4, <1>5, <1>6, <1>7, <1>8, <1>9 DEF Next

LEMMA VoteInvInit == Init => VoteInv
<1> SUFFICES ASSUME Init
             PROVE  VoteInv
  OBVIOUS
<1>1. 1 \in Nat /\ 0 < 1 /\ {0} \in SUBSET (0 .. 1 - 1) /\ {0} # {}
  BY SMTT(30)
<1>2. 1 <= MaxSlot /\ 0 \in 0 .. MaxLamports
  BY BoundsAssumption, SMTT(30)
<1>3. StateInv(DefaultState, 0, NoVoters, 1, {0})
  BY <1>1, DefaultOK
<1>4. ClockInv(1, {0})
  BY <1>1, <1>2 DEF ClockInv
<1> QED
  BY <1>2, <1>3, <1>4 DEF Init, VoteInv

LEMMA VoteInvStep == VoteInv /\ [Next]_vars => VoteInv'
<1>1. CASE UNCHANGED vars
  BY <1>1 DEF vars, VoteInv
<1>2. CASE Next
  BY <1>2, EveryStep DEF StepOK
<1> QED
  BY <1>1, <1>2

LEMMA VoteInvariant == Spec => []VoteInv
  BY VoteInvInit, VoteInvStep, PTL DEF Spec

(***************************************************************************)
(* However many slots a vote lists, whatever the sizes of the stack and of *)
(* its histories, Vote never rolls the state back: process_new_vote_state  *)
(* would accept what process_vote makes of it.                             *)
(***************************************************************************)
THEOREM NeverRollsBack == Spec => VotesNeverRollBack
<1>1. VoteInv /\ [Next]_vars => [RollBackFree]_vars
  BY EveryStep DEF StepOK
<1> QED
  BY <1>1, VoteInvariant, PTL DEF Spec, VotesNeverRollBack, RollBackFree

(***************************************************************************)
(* No instruction changes the voter of an epoch whose leader schedule is   *)
(* already fixed (set_new_authorized_voter, get_and_update_authorized_     *)
(* voter), for any schedule that size_of has room for.                     *)
(***************************************************************************)
THEOREM VotersAreFixed == Spec => ScheduledVotersFixed
<1>1. VoteInv /\ [Next]_vars => [VotersFixed]_vars
  BY EveryStep DEF StepOK
<1> QED
  BY <1>1, VoteInvariant, PTL DEF Spec, ScheduledVotersFixed, VotersFixed

(***************************************************************************)
(* What the invariant says in the words of VotesOK.                        *)
(***************************************************************************)
LEMMA TypesFollow == VoteInv => TypeOK
<1> SUFFICES ASSUME VoteInv
             PROVE  TypeOK
  OBVIOUS
<1> DEFINE votes == vote_state.votes
           ec == vote_state.epoch_credits
<1>1. /\ IsVoteState(vote_state)
      /\ StackInv(votes, vote_state.root_slot)
      /\ CreditsOK(ec, rooted, get_epoch(slot))
      /\ VotersInv(vote_state.authorized_voters, vote_state.prior_voters, voter_history,
                   get_epoch(slot), get_leader_schedule_epoch(slot) + 1)
      /\ ClockInv(slot, slot_hashes) /\ lamports \in 0 .. MaxLamports /\ fault = "none"
  BY DEF VoteInv, StateInv
<1>2. \A i \in DOMAIN votes : votes[i] \in Lockout
  <2>1. votes \in Seq(Lockout)
    BY <1>1 DEF StackInv
  <2> HIDE DEF votes
  <2> QED
    BY <2>1, StackElement DEF Lockout
<1>3. rooted \in Nat
  <2>1. ec \in Seq(CreditEntries) /\ IF Len(ec) = 0 THEN rooted = 0 ELSE rooted = ec[Len(ec)].credits
    BY <1>1 DEF CreditsOK, CreditsLinked
  <2> HIDE DEF ec
  <2>2. CASE Len(ec) = 0
    BY <2>1, <2>2, SMTT(30)
  <2>3. CASE Len(ec) # 0
    <3>1. Len(ec) \in DOMAIN ec
      BY <2>1, <2>3, SMTT(30)
    <3> QED
      BY <2>1, <2>3, <3>1, CreditElement
  <2> QED
    BY <2>2, <2>3
<1>4. slot \in 0 .. MaxSlot /\ slot_hashes \subseteq 0 .. slot - 1
  <2>1. slot \in Nat /\ slot <= MaxSlot /\ slot_hashes \in SUBSET (0 .. slot - 1)
    BY <1>1 DEF ClockInv
  <2>2. slot \in 0 .. MaxSlot
    BY <2>1, BoundsAssumption, SMTT(30)
  <2> QED
    BY <2>1, <2>2
<1>5. vote_state.root_slot \in Nat \cup {NoSlot} /\ Len(ec) <= MAX_EPOCH_CREDITS_HISTORY
  BY <1>1 DEF StackInv, CreditsOK
<1>6. /\ vote_state.authorized_voters \in [DOMAIN vote_state.authorized_voters -> Keys]
      /\ Len(vote_state.prior_voters) <= MAX_ITEMS
  BY <1>1 DEF VotersInv, PriorOK
<1> QED
  BY <1>1, <1>2, <1>3, <1>4, <1>5, <1>6 DEF TypeOK, IsVoteState

LEMMA StackFollows == VoteInv => VoteStackOK /\ VotesOnThisFork
<1> SUFFICES ASSUME VoteInv
             PROVE  VoteStackOK /\ VotesOnThisFork
  OBVIOUS
<1> DEFINE votes == vote_state.votes
           root == vote_state.root_slot
<1>1. StackInv(votes, root) /\ OnFork(VotedSlots(votes), slot, slot_hashes)
  BY DEF VoteInv, StateInv
<1>2. VotesOnThisFork
  BY <1>1 DEF OnFork, VotesOnThisFork
<1> HIDE DEF votes, root
<1>3. ASSUME votes # << >>
      PROVE  /\ NewStateWellFormed(votes, root)
             /\ \A i \in DOMAIN votes : votes[i].confirmation_count >= Len(votes) - i + 1
  <2>1. votes \in Seq(Lockout) /\ StackOK(votes)
    BY <1>1 DEF StackInv
  <2>2. Len(votes) # 0
    BY <1>3, <2>1, SMTT(30)
  <2>3. NewStateWellFormed(votes, root)
    BY <1>1, <2>2, StackWellFormed
  <2>4. ASSUME NEW i \in DOMAIN votes
        PROVE  votes[i].confirmation_count >= Len(votes) - i + 1
    <3> DEFINE m == Len(votes)
               c == votes[i].confirmation_count
    <3>1. m \in Nat /\ i \in Nat
      BY <2>1, <2>4, SMTT(30)
    <3>2. c \in m - i + 1 .. MAX_LOCKOUT_HISTORY
      BY <2>1, <2>4 DEF StackOK
    <3> HIDE DEF m, c
    <3>3. c >= m - i + 1
      BY <3>1, <3>2, HistoryAssumption, SMTT(30)
    <3> QED
      BY <3>3 DEF m, c
  <2> QED
    BY <2>3, <2>4
<1> QED
  BY <1>2, <1>3 DEF VoteStackOK, votes, root

LEMMA CreditsFollow == VoteInv => CreditsCountRoots
<1> SUFFICES ASSUME VoteInv
             PROVE  CreditsCountRoots
  OBVIOUS
<1> DEFINE ec == vote_state.epoch_credits
           n == Len(ec)
<1>1. CreditsOK(ec, rooted, get_epoch(slot))
  BY DEF VoteInv, StateInv
<1>2. /\ ec \in Seq(CreditEntries)
      /\ IF n = 0 THEN rooted = 0 ELSE rooted = ec[n].credits /\ rooted > ec[n].prev_credits
      /\ \A i \in 1 .. n - 1 :
            /\ ec[i].credits > ec[i].prev_credits
            /\ ec[i].epoch < ec[i + 1].epoch
            /\ ec[i].credits = ec[i + 1].prev_credits
  BY <1>1 DEF CreditsOK, CreditsLinked
<1> HIDE DEF ec
<1>3. DOMAIN ec = 1 .. n /\ n \in Nat /\ (ec = << >> => n = 0) /\ (n = 0 => ec = << >>)
  BY <1>2, SMTT(30)
<1> HIDE DEF n
<1>4. ASSUME NEW i \in DOMAIN ec
      PROVE  ec[i].credits > ec[i].prev_credits
  <2>1. n # 0 /\ (i = n \/ i \in 1 .. n - 1)
    BY <1>3, <1>4, SMTT(30)
  <2> QED
    BY <1>2, <2>1
<1>5. (IF ec = << >> THEN 0 ELSE ec[n].credits) = rooted
  BY <1>2, <1>3
<1> QED
  BY <1>2, <1>4, <1>5 DEF CreditsCountRoots, credits, ec, n

LEMMA PriorFollows == VoteInv => PriorVotersTruthful
<1> SUFFICES ASSUME VoteInv
             PROVE  PriorVotersTruthful
  OBVIOUS
<1> DEFINE prior == vote_state.prior_voters
           av == vote_state.authorized_voters
<1>1. VotersInv(av, prior, voter_history, get_epoch(slot), get_leader_schedule_epoch(slot) + 1)
  BY DEF VoteInv, StateInv
<1> HIDE DEF prior, av
<1>2. \A i \in 1 .. Len(prior) - 1 : prior[i].until = prior[i + 1].from
  BY <1>1 DEF VotersInv, PriorOK
<1>3. \A x \in DOMAIN voter_history : Truthful(prior, x, voter_history[x], Latest(av))
  BY <1>1 DEF VotersInv
<1>4. \A x \in DOMAIN voter_history :
         /\ \A i \in DOMAIN prior :
               x \in prior[i].from .. prior[i].until - 1 => voter_history[x] = prior[i].key
         /\ x >= PriorUntil(prior) => voter_history[x] = av[Max(DOMAIN av)]
  BY <1>3 DEF Truthful, Latest
<1> QED
  BY <1>2, <1>4 DEF PriorVotersTruthful, prior, av

(***************************************************************************)
(* Whatever the sizes of the stack, of its histories and of the epochs:    *)
(* the stack that process_vote builds is well formed and on this fork, the *)
(* credits count its roots, prior_voters tells the voters of the epochs    *)
(* past, the assertion of set_new_authorized_voter holds, and the state    *)
(* fits in size_of.                                                        *)
(***************************************************************************)
THEOREM VotesAreOK == Spec => []VotesOK
<1>1. VoteInv => VotesOK
  <2>1. VoteInv => NoAssertionFails /\ StateAlwaysFits
    BY DEF VoteInv, NoAssertionFails, StateAlwaysFits
  <2> QED
    BY <2>1, TypesFollow, StackFollows, CreditsFollow, PriorFollows DEF VotesOK
<1> QED
  BY <1>1, VoteInvariant, PTL
=============================================================================
