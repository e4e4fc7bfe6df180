--------------------------- MODULE LockoutsProofs ---------------------------
(***************************************************************************)
(* What recording a vote does to a vote stack, for stacks of any length,   *)
(* any slots and any lockout base: the lemmas about Lockouts.              *)
(***************************************************************************)
EXTENDS Lockouts, WellFoundedInduction, TLAPS

USE Zenon

(***************************************************************************)
(* Max of a nonempty set of naturals with an upper bound is its greatest   *)
(* element.  pop_expired_votes and the merge of promises take such a Max.  *)
(***************************************************************************)
LEMMA MaxOfBounded ==
    ASSUME NEW n \in Nat, NEW S \in SUBSET (0 .. n), S # {}
    PROVE  Max(S) \in S /\ \A y \in S : y <= Max(S)
<1> DEFINE T == {m \in Nat : n - m \in S}
<1>1. T # {}
  <2>1. PICK x \in S : TRUE
    OBVIOUS
  <2>2. n - x \in T
    BY <2>1, SMTT(30)
  <2> QED
    BY <2>2
<1>2. PICK m \in T : \A k \in T : ~(<<k, m>> \in OpToRel(<, Nat))
  <2>1. T \subseteq Nat
    OBVIOUS
  <2> HIDE DEF T
  <2> QED
    BY <1>1, <2>1, NatLessThanWellFounded, WFMin
<1>3. \A y \in S : n - m >= y
  <2> TAKE y \in S
  <2>1. n - y \in T
    BY SMTT(30)
  <2>2. ~(<<n - y, m>> \in OpToRel(<, Nat))
    BY <1>2, <2>1
  <2>3. ~(n - y < m)
    BY <2>1, <2>2 DEF OpToRel
  <2> QED
    BY <2>1, <2>3, SMTT(30)
<1>4. \E x \in S : \A y \in S : x >= y
  BY <1>3
<1>5. Max(S) \in S /\ \A y \in S : Max(S) >= y
  BY <1>4 DEF Max
<1> QED
  BY <1>5

(* The parts of an element of a stack. *)
LEMMA StackElement ==
    ASSUME NEW S, NEW votes \in Seq(LockoutOn(S)), NEW i \in DOMAIN votes
    PROVE  /\ votes[i] \in LockoutOn(S)
           /\ votes[i].slot \in S
           /\ votes[i].confirmation_count \in Counts
<1>1. votes[i] \in LockoutOn(S)
  BY SMTT(30)
<1> QED
  BY <1>1 DEF LockoutOn

(***************************************************************************)
(* pop_expired_votes keeps a prefix of the stack that is empty or ends in  *)
(* a vote still locked out at the new slot; what it pops no longer is.     *)
(***************************************************************************)
LEMMA PopExpiredKeepsPrefix ==
    ASSUME NEW S \in SUBSET Nat, NEW votes \in Seq(LockoutOn(S)), NEW slot \in Nat
    PROVE  \E n \in 0 .. Len(votes) :
              /\ pop_expired_votes(votes, slot) = SubSeq(votes, 1, n)
              /\ n = 0 \/ is_locked_out_at_slot(votes[n], slot)
              /\ \A k \in n + 1 .. Len(votes) : ~is_locked_out_at_slot(votes[k], slot)
<1> DEFINE P == PrefixesLockedAt(votes, slot)
<1>1. P \in SUBSET (0 .. Len(votes)) /\ 0 \in P
  BY SMTT(30) DEF PrefixesLockedAt
<1>2. Max(P) \in P /\ \A k \in P : k <= Max(P)
  <2>1. Len(votes) \in Nat
    BY SMTT(30)
  <2> HIDE DEF P
  <2> QED
    BY <1>1, <2>1, MaxOfBounded
<1>3. \A k \in Max(P) + 1 .. Len(votes) : ~is_locked_out_at_slot(votes[k], slot)
  <2> SUFFICES ASSUME NEW k \in Max(P) + 1 .. Len(votes), is_locked_out_at_slot(votes[k], slot)
               PROVE  FALSE
    OBVIOUS
  <2>1. Max(P) \in 0 .. Len(votes)
    BY <1>1, <1>2
  <2>2. k \in P
    BY <2>1, SMTT(30) DEF PrefixesLockedAt
  <2> HIDE DEF P
  <2> QED
    BY <1>2, <2>1, <2>2, SMTT(30)
<1> QED
  BY <1>2, <1>3 DEF PrefixesLockedAt, pop_expired_votes

(* Any prefix of a well formed stack is well formed. *)
LEMMA PrefixOK ==
    ASSUME NEW S \in SUBSET Nat, NEW votes \in Seq(LockoutOn(S)), StackOK(votes),
           NEW n \in 0 .. Len(votes)
    PROVE  SubSeq(votes, 1, n) \in Seq(LockoutOn(S)) /\ StackOK(SubSeq(votes, 1, n))
<1> DEFINE p == SubSeq(votes, 1, n)
<1>1. p \in Seq(LockoutOn(S)) /\ Len(p) = n /\ DOMAIN p = 1 .. n
  BY SMTT(30)
<1>2. \A i \in DOMAIN p : i \in DOMAIN votes /\ p[i] = votes[i]
  BY SMTT(30)
<1> HIDE DEF p
<1>3. Len(p) <= MAX_LOCKOUT_HISTORY
  BY <1>1, HistoryAssumption, SMTT(30) DEF StackOK
<1>4. \A i \in DOMAIN p : p[i].confirmation_count \in Len(p) - i + 1 .. MAX_LOCKOUT_HISTORY
  <2> TAKE i \in DOMAIN p
  <2>1. i \in DOMAIN votes /\ p[i] = votes[i]
    BY <1>2
  <2>2. votes[i].confirmation_count \in Len(votes) - (i) + 1 .. MAX_LOCKOUT_HISTORY
    BY <2>1 DEF StackOK
  <2> QED
    BY <1>1, <2>1, <2>2, HistoryAssumption, SMTT(30)
<1>5. \A i, j \in DOMAIN p : i < j =>
         p[i].slot < p[j].slot /\ p[i].confirmation_count > p[j].confirmation_count
  <2> SUFFICES ASSUME NEW i \in DOMAIN p, NEW j \in DOMAIN p, i < j
               PROVE  p[i].slot < p[j].slot /\ p[i].confirmation_count > p[j].confirmation_count
    OBVIOUS
  <2>1. /\ i \in DOMAIN votes /\ p[i] = votes[i]
        /\ j \in DOMAIN votes /\ p[j] = votes[j]
    BY <1>2
  <2>2. i < j
    BY <1>1
  <2> QED
    BY <2>1, <2>2 DEF StackOK
<1>6. \A i \in 1 .. Len(p) - 1 : is_locked_out_at_slot(p[i], p[i + 1].slot)
  <2> TAKE i \in 1 .. Len(p) - 1
  <2>1. p[i] = votes[i] /\ p[i + 1] = votes[(i) + 1]
    BY <1>1, <1>2, SMTT(30)
  <2>2. i \in 1 .. Len(votes) - 1
    BY <1>1, SMTT(30)
  <2> QED
    BY <2>1, <2>2 DEF StackOK
<1> QED
  BY <1>1, <1>3, <1>4, <1>5, <1>6 DEF StackOK, p

(***************************************************************************)
(* So is any suffix: a full stack loses its oldest vote to the root, and a *)
(* restart retains the votes newer than the anchor of a restored tower.    *)
(***************************************************************************)
LEMMA SuffixOK ==
    ASSUME NEW S \in SUBSET Nat, NEW votes \in Seq(LockoutOn(S)), StackOK(votes),
           NEW n \in 1 .. Len(votes) + 1
    PROVE  /\ SubSeq(votes, n, Len(votes)) \in Seq(LockoutOn(S))
           /\ StackOK(SubSeq(votes, n, Len(votes)))
<1> DEFINE p == SubSeq(votes, n, Len(votes))
<1>1. p \in Seq(LockoutOn(S)) /\ Len(p) = Len(votes) - n + 1 /\ DOMAIN p = 1 .. Len(votes) - n + 1
  BY SMTT(30)
<1>2. \A i \in DOMAIN p : i + n - 1 \in DOMAIN votes /\ p[i] = votes[i + n - 1]
  BY <1>1, SMTT(30)
<1> HIDE DEF p
<1>3. Len(p) <= MAX_LOCKOUT_HISTORY
  BY <1>1, HistoryAssumption, SMTT(30) DEF StackOK
<1>4. \A i \in DOMAIN p : p[i].confirmation_count \in Len(p) - i + 1 .. MAX_LOCKOUT_HISTORY
  <2> TAKE i \in DOMAIN p
  <2>1. i + n - 1 \in DOMAIN votes /\ p[i] = votes[i + n - 1]
    BY <1>2
  <2>2. votes[i + n - 1].confirmation_count \in Len(votes) - (i + n - 1) + 1 .. MAX_LOCKOUT_HISTORY
    BY <2>1 DEF StackOK
  <2> QED
    BY <1>1, <2>1, <2>2, HistoryAssumption, SMTT(30)
<1>5. \A i, j \in DOMAIN p : i < j =>
         p[i].slot < p[j].slot /\ p[i].confirmation_count > p[j].confirmation_count
  <2> SUFFICES ASSUME NEW i \in DOMAIN p, NEW j \in DOMAIN p, i < j
               PROVE  p[i].slot < p[j].slot /\ p[i].confirmation_count > p[j].confirmation_count
    OBVIOUS
  <2>1. /\ i + n - 1 \in DOMAIN votes /\ p[i] = votes[i + n - 1]
        /\ j + n - 1 \in DOMAIN votes /\ p[j] = votes[j + n - 1]
    BY <1>2
  <2>2. i + n - 1 < j + n - 1
    BY <1>1, SMTT(30)
  <2> QED
    BY <2>1, <2>2 DEF StackOK
<1>6. \A i \in 1 .. Len(p) - 1 : is_locked_out_at_slot(p[i], p[i + 1].slot)
  <2> TAKE i \in 1 .. Len(p) - 1
  <2>0. i \in DOMAIN p /\ i + 1 \in DOMAIN p /\ (i + n - 1) + 1 = (i + 1) + n - 1
    BY <1>1, SMTT(30)
  <2>1. p[i] = votes[i + n - 1] /\ p[i + 1] = votes[(i + n - 1) + 1]
    BY <1>2, <2>0, SMTT(30)
  <2>2. i + n - 1 \in 1 .. Len(votes) - 1
    BY <1>1, SMTT(30)
  <2> QED
    BY <2>1, <2>2 DEF StackOK
<1> QED
  BY <1>1, <1>3, <1>4, <1>5, <1>6 DEF StackOK, p

(***************************************************************************)
(* Pushing a vote on a stack with room, whose newest vote still locks out  *)
(* the new slot, and doubling the lockouts below it.                       *)
(***************************************************************************)
LEMMA PushOK ==
    ASSUME NEW S \in SUBSET Nat, NEW stack \in Seq(LockoutOn(S)), StackOK(stack),
           Len(stack) < MAX_LOCKOUT_HISTORY,
           NEW slot \in S,
           \A i \in DOMAIN stack : stack[i].slot < slot,
           stack # << >> => is_locked_out_at_slot(stack[Len(stack)], slot)
    PROVE  /\ double_lockouts(Append(stack, LockoutNew(slot))) \in Seq(LockoutOn(S))
           /\ StackOK(double_lockouts(Append(stack, LockoutNew(slot))))
<1> DEFINE m == Len(stack)
           a == Append(stack, LockoutNew(slot))
           d == double_lockouts(a)
<1>0. m \in Nat /\ m < MAX_LOCKOUT_HISTORY /\ MAX_LOCKOUT_HISTORY \in Nat
  BY HistoryAssumption, SMTT(30)
<1>1. a \in Seq(LockoutOn(S)) /\ Len(a) = m + 1 /\ DOMAIN a = 1 .. m + 1
  BY HistoryAssumption, SMTT(30) DEF LockoutNew, LockoutOn, Counts
<1>2. /\ \A i \in 1 .. m : a[i] = stack[i]
      /\ a[m + 1] = LockoutNew(slot)
      /\ DOMAIN stack = 1 .. m
  BY SMTT(30)
<1>3. \A i \in 1 .. m + 1 :
        /\ a[i].slot \in S /\ a[i].slot \in Nat
        /\ a[i].confirmation_count \in Counts
        /\ a[i] \in LockoutOn(S)
  <2> HIDE DEF a, m
  <2> QED
    BY <1>1, StackElement
<1>4. DOMAIN d = 1 .. m + 1
  BY <1>1 DEF double_lockouts
<1>5. \A i \in 1 .. m + 1 :
        /\ d[i].slot = a[i].slot
        /\ d[i].confirmation_count =
             IF m + 1 > (i - 1) + a[i].confirmation_count
             THEN a[i].confirmation_count + 1 ELSE a[i].confirmation_count
        /\ d[i] \in [slot : S, confirmation_count : Nat]
  <2> TAKE i \in 1 .. m + 1
  <2>1. d[i] = IF m + 1 > (i - 1) + a[i].confirmation_count
               THEN [a[i] EXCEPT !.confirmation_count = @ + 1] ELSE a[i]
    BY <1>1 DEF double_lockouts
  <2>2. a[i] \in [slot : S, confirmation_count : Counts] /\ Counts \subseteq Nat
    BY <1>3, <1>0, SMTT(30) DEF LockoutOn, Counts
  <2> HIDE DEF d, a, m
  <2> QED
    BY <2>1, <2>2, SMTT(30)
<1>6. \A i \in 1 .. m + 1 :
        a[i].confirmation_count \in (IF i = m + 1 THEN 1 ELSE m - i + 1) .. MAX_LOCKOUT_HISTORY
  <2> TAKE i \in 1 .. m + 1
  <2>1. CASE i = m + 1
    BY <2>1, <1>2, <1>0, SMTT(30) DEF LockoutNew
  <2>2. CASE i # m + 1
    <3>1. i \in DOMAIN stack /\ a[i] = stack[i]
      BY <2>2, <1>2, <1>0, SMTT(30)
    <3> QED
      BY <3>1, <2>2 DEF StackOK
  <2> QED
    BY <2>1, <2>2
<1>7. \A i, j \in 1 .. m + 1 : i < j => a[i].slot < a[j].slot
  <2> SUFFICES ASSUME NEW i \in 1 .. m + 1, NEW j \in 1 .. m + 1, i < j
               PROVE  a[i].slot < a[j].slot
    OBVIOUS
  <2>1. i \in DOMAIN stack /\ a[i] = stack[i]
    BY <1>2, <1>0, SMTT(30)
  <2>2. CASE j = m + 1
    BY <2>1, <2>2, <1>2, SMTT(30) DEF LockoutNew
  <2>3. CASE j # m + 1
    <3>1. j \in DOMAIN stack /\ a[j] = stack[j]
      BY <2>3, <1>2, <1>0, SMTT(30)
    <3> QED
      BY <2>1, <3>1 DEF StackOK
  <2> QED
    BY <2>2, <2>3
<1>8. \A i, j \in 1 .. m : i < j => a[i].confirmation_count > a[j].confirmation_count
  <2> SUFFICES ASSUME NEW i \in 1 .. m, NEW j \in 1 .. m, i < j
               PROVE  a[i].confirmation_count > a[j].confirmation_count
    OBVIOUS
  <2>1. i \in DOMAIN stack /\ a[i] = stack[i] /\ j \in DOMAIN stack /\ a[j] = stack[j]
    BY <1>2
  <2> QED
    BY <2>1 DEF StackOK
<1>9. a[m + 1].confirmation_count = 1
  BY <1>2, SMTT(30) DEF LockoutNew
<1>10. \A i \in 1 .. m : is_locked_out_at_slot(a[i], a[i + 1].slot)
  <2> SUFFICES ASSUME NEW i \in 1 .. m PROVE is_locked_out_at_slot(a[i], a[i + 1].slot)
    OBVIOUS
  <2>1. CASE i = m
    BY <2>1, <1>0, <1>2, SMTT(30) DEF LockoutNew
  <2>2. CASE i # m
    <3>0. i \in 1 .. m - 1 /\ i \in 1 .. m /\ i + 1 \in 1 .. m
      BY <2>2, <1>0, SMTT(30)
    <3>1. i \in 1 .. Len(stack) - 1 /\ a[i] = stack[i] /\ a[i + 1] = stack[i + 1]
      BY <3>0, <1>2
    <3> QED
      BY <3>1 DEF StackOK
  <2> QED
    BY <2>1, <2>2
<1> HIDE DEF m, a, d
<1>11. \A i \in 1 .. m + 1 : d[i].confirmation_count \in m - i + 2 .. MAX_LOCKOUT_HISTORY
  <2> TAKE i \in 1 .. m + 1
  <2> DEFINE c == a[i].confirmation_count
  <2>1. c \in Nat /\ c <= MAX_LOCKOUT_HISTORY /\ c >= m - i + 1 /\ (i = m + 1 => c = 1)
    BY <1>0, <1>3, <1>6, <1>9, SMTT(30) DEF Counts
  <2>2. d[i].confirmation_count = IF m + 1 > (i - 1) + c THEN c + 1 ELSE c
    BY <1>5
  <2> HIDE DEF c
  <2> QED
    BY <2>1, <2>2, <1>0, SMTT(30)
<1>12. d \in Seq(LockoutOn(S)) /\ Len(d) = m + 1
  <2>1. \A i \in 1 .. m + 1 : d[i] \in LockoutOn(S)
    <3> TAKE i \in 1 .. m + 1
    <3>1. d[i] \in [slot : S, confirmation_count : Nat]
      BY <1>5
    <3>2. d[i].confirmation_count \in Counts
      BY <1>11, <1>0, SMTT(30) DEF Counts
    <3> QED
      BY <3>1, <3>2 DEF LockoutOn
  <2>2. d = [i \in 1 .. m + 1 |-> d[i]]
    BY <1>4 DEF d, double_lockouts
  <2> DEFINE n == m + 1
  <2>3. n \in Nat /\ d \in [1 .. n -> LockoutOn(S)]
    BY <1>0, <2>1, <2>2, SMTT(30)
  <2> HIDE DEF n
  <2>4. d \in Seq(LockoutOn(S)) /\ Len(d) = n
    BY <2>3, SMTT(30)
  <2> QED
    BY <2>4 DEF n
<1>13. \A i, j \in 1 .. m + 1 : i < j =>
          d[i].slot < d[j].slot /\ d[i].confirmation_count > d[j].confirmation_count
  <2> SUFFICES ASSUME NEW i \in 1 .. m + 1, NEW j \in 1 .. m + 1, i < j
               PROVE  d[i].slot < d[j].slot /\ d[i].confirmation_count > d[j].confirmation_count
    OBVIOUS
  <2> DEFINE c == a[i].confirmation_count
             e == a[j].confirmation_count
  <2>1. d[i].slot < d[j].slot
    BY <1>5, <1>7
  <2>2. /\ c \in Nat /\ e \in Nat /\ c >= m - i + 1
        /\ j # m + 1 => c > e
        /\ j = m + 1 => e = 1
    <3>1. c \in Counts /\ e \in Counts
      BY <1>3
    <3>2. i \in 1 .. m /\ c \in (IF i = m + 1 THEN 1 ELSE m - i + 1) .. MAX_LOCKOUT_HISTORY
      BY <1>0, <1>6, SMTT(30)
    <3>3. j # m + 1 => c > e
      BY <3>2, <1>0, <1>8, SMTT(30)
    <3> QED
      BY <3>1, <3>2, <3>3, <1>0, <1>9, SMTT(30) DEF Counts
  <2>3. /\ d[i].confirmation_count = IF m + 1 > (i - 1) + c THEN c + 1 ELSE c
        /\ d[j].confirmation_count = IF m + 1 > (j - 1) + e THEN e + 1 ELSE e
    BY <1>5
  <2> HIDE DEF c, e
  <2>4. d[i].confirmation_count > d[j].confirmation_count
    BY <2>2, <2>3, <1>0, SMTT(30)
  <2> QED
    BY <2>1, <2>4
<1>14. \A i \in 1 .. m : is_locked_out_at_slot(d[i], d[i + 1].slot)
  <2> TAKE i \in 1 .. m
  <2>0. i \in 1 .. m + 1 /\ i + 1 \in 1 .. m + 1
    BY <1>0, SMTT(30)
  <2>1. a[i].slot + lockout(a[i].confirmation_count) >= a[i + 1].slot
    BY <1>10 DEF is_locked_out_at_slot, last_locked_out_slot
  <2>2. /\ a[i].confirmation_count \in Counts
        /\ d[i].confirmation_count \in Counts
        /\ a[i].confirmation_count <= d[i].confirmation_count
    <3> DEFINE c == a[i].confirmation_count
               e == d[i].confirmation_count
    <3>1. c \in Nat /\ c \in Counts
      BY <2>0, <1>3, <1>0, SMTT(30) DEF Counts
    <3>2. e \in m - i + 2 .. MAX_LOCKOUT_HISTORY
      BY <2>0, <1>11
    <3>3. e = IF m + 1 > (i - 1) + c THEN c + 1 ELSE c
      BY <2>0, <1>5
    <3> HIDE DEF c, e
    <3>4. c <= e /\ e \in Nat /\ e <= MAX_LOCKOUT_HISTORY
      BY <3>1, <3>2, <3>3, <1>0, SMTT(30)
    <3>5. e \in Counts
      BY <3>4, <1>0, SMTT(30) DEF Counts
    <3> QED
      BY <3>1, <3>4, <3>5 DEF c, e
  <2>3. /\ lockout(a[i].confirmation_count) <= lockout(d[i].confirmation_count)
        /\ lockout(a[i].confirmation_count) \in Nat
        /\ lockout(d[i].confirmation_count) \in Nat
    BY <2>2, LockoutAssumption
  <2>4. d[i].slot = a[i].slot /\ d[i + 1].slot = a[i + 1].slot /\ a[i].slot \in Nat /\ a[i + 1].slot \in Nat
    BY <2>0, <1>3, <1>5
  <2> QED
    BY <2>1, <2>3, <2>4, SMTT(30) DEF is_locked_out_at_slot, last_locked_out_slot
<1>15. StackOK(d)
  <2>1. Len(d) <= MAX_LOCKOUT_HISTORY
    BY <1>0, <1>12, SMTT(30)
  <2>2. \A i \in DOMAIN d : d[i].confirmation_count \in Len(d) - i + 1 .. MAX_LOCKOUT_HISTORY
    BY <1>0, <1>4, <1>11, <1>12, SMTT(30)
  <2>3. \A i \in 1 .. Len(d) - 1 : is_locked_out_at_slot(d[i], d[i + 1].slot)
    BY <1>0, <1>12, <1>14, SMTT(30)
  <2> QED
    BY <2>1, <2>2, <2>3, <1>4, <1>13 DEF StackOK
<1> QED
  BY <1>12, <1>15 DEF d, a

(***************************************************************************)
(* process_next_vote_slot keeps a vote stack well formed, and roots only a *)
(* slot that was voted for.                                                *)
(***************************************************************************)
THEOREM RecordVoteOK ==
    ASSUME NEW S \in SUBSET Nat, NEW votes \in Seq(LockoutOn(S)), StackOK(votes),
           NEW root, NEW slot \in S
    PROVE  /\ process_next_vote_slot(votes, root, slot).votes \in Seq(LockoutOn(S))
           /\ StackOK(process_next_vote_slot(votes, root, slot).votes)
           /\ process_next_vote_slot(votes, root, slot).root \in VotedSlots(votes) \cup {root}
           /\ VotedSlots(votes) \subseteq S
<1>0. VotedSlots(votes) \subseteq S
  BY StackElement DEF VotedSlots
<1>1. CASE slot <= last_voted_slot(votes)
  BY <1>0, <1>1 DEF process_next_vote_slot
<1>2. CASE ~(slot <= last_voted_slot(votes))
  <2> DEFINE kept  == pop_expired_votes(votes, slot)
             full  == Len(kept) = MAX_LOCKOUT_HISTORY
             stack == IF full THEN Tail(kept) ELSE kept
  <2>1. PICK n \in 0 .. Len(votes) :
             /\ kept = SubSeq(votes, 1, n)
             /\ n = 0 \/ is_locked_out_at_slot(votes[n], slot)
    BY PopExpiredKeepsPrefix
  <2>2. kept \in Seq(LockoutOn(S)) /\ StackOK(kept)
    BY <2>1, PrefixOK
  <2>3. Len(kept) = n /\ \A i \in 1 .. n : kept[i] = votes[i] /\ i \in DOMAIN votes
    BY <2>1, SMTT(30)
  <2>4. \A i \in DOMAIN kept : kept[i].slot < slot
    <3> TAKE i \in DOMAIN kept
    <3>1. i \in 1 .. n /\ kept[i] = votes[i] /\ i \in DOMAIN votes
      BY <2>2, <2>3, SMTT(30)
    <3>2. votes # << >> /\ Len(votes) \in DOMAIN votes /\ i <= Len(votes)
      BY <3>1, SMTT(30)
    <3>3. votes[Len(votes)].slot < slot
      <4>1. votes[Len(votes)].slot \in Nat
        BY <3>2, StackElement
      <4>2. last_voted_slot(votes) = votes[Len(votes)].slot /\ slot \in Nat
        BY <3>2 DEF last_voted_slot
      <4> QED
        BY <4>1, <4>2, <1>2, SMTT(30)
    <3>4. votes[i].slot \in Nat /\ votes[Len(votes)].slot \in Nat
      BY <3>1, <3>2, StackElement
    <3>5. CASE i = Len(votes)
      BY <3>1, <3>3, <3>5
    <3>6. CASE i < Len(votes)
      <4>1. votes[i].slot < votes[Len(votes)].slot
        BY <3>1, <3>2, <3>6 DEF StackOK
      <4>2. \A x, y, z \in Nat : x < y /\ y < z => x < z
        BY SMTT(30)
      <4>3. slot \in Nat
        OBVIOUS
      <4>4. votes[i].slot < slot
        BY <4>1, <4>2, <4>3, <3>3, <3>4
      <4> QED
        BY <3>1, <4>4
    <3> QED
      BY <3>1, <3>2, <3>5, <3>6, SMTT(30)
  <2>5. /\ stack \in Seq(LockoutOn(S)) /\ StackOK(stack)
        /\ Len(stack) < MAX_LOCKOUT_HISTORY
        /\ \A i \in DOMAIN stack : stack[i].slot < slot
        /\ stack # << >> => stack[Len(stack)] = kept[Len(kept)] /\ n # 0
    <3>1. CASE full
      <4>1. kept # << >> /\ stack = SubSeq(kept, 2, Len(kept))
        BY <3>1, <2>2, HistoryAssumption, SMTT(30)
      <4>2. stack \in Seq(LockoutOn(S)) /\ StackOK(stack)
        <5>1. 2 \in 1 .. Len(kept) + 1
          BY <3>1, <2>2, HistoryAssumption, SMTT(30)
        <5> HIDE DEF stack, kept
        <5> QED
          BY <4>1, <5>1, <2>2, SuffixOK
      <4>3. Len(stack) = Len(kept) - 1 /\ \A i \in DOMAIN stack : stack[i] = kept[i + 1] /\ i + 1 \in DOMAIN kept
        <5> HIDE DEF kept
        <5> QED
          BY <4>1, <2>2, <3>1, SMTT(30)
      <4> HIDE DEF stack, kept
      <4>4. Len(kept) = MAX_LOCKOUT_HISTORY /\ MAX_LOCKOUT_HISTORY \in Nat /\ MAX_LOCKOUT_HISTORY # 0
        BY <3>1, HistoryAssumption
      <4>5. Len(stack) < MAX_LOCKOUT_HISTORY
        BY <4>3, <4>4, SMTT(30)
      <4>6. \A i \in DOMAIN stack : stack[i].slot < slot
        BY <4>3, <2>4
      <4>7. stack # << >> => stack[Len(stack)] = kept[Len(kept)] /\ n # 0
        <5> HAVE stack # << >>
        <5>1. Len(stack) \in DOMAIN stack /\ Len(stack) + 1 = Len(kept)
          BY <4>2, <4>3, <4>4, SMTT(30)
        <5>2. n # 0
          BY <2>3, <4>4
        <5> QED
          BY <4>3, <5>1, <5>2
      <4> QED
        BY <4>2, <4>5, <4>6, <4>7
    <3>2. CASE ~full
      <4>1. stack = kept
        BY <3>2
      <4>2. Len(kept) <= MAX_LOCKOUT_HISTORY /\ Len(kept) \in Nat /\ MAX_LOCKOUT_HISTORY \in Nat
        BY <2>2, HistoryAssumption, SMTT(30) DEF StackOK
      <4> QED
        BY <3>2, <4>1, <4>2, <2>2, <2>3, <2>4, SMTT(30)
    <3> QED
      BY <3>1, <3>2
  <2>6. stack # << >> => is_locked_out_at_slot(stack[Len(stack)], slot)
    BY <2>1, <2>3, <2>5, SMTT(30)
  <2>7. /\ double_lockouts(Append(stack, LockoutNew(slot))) \in Seq(LockoutOn(S))
        /\ StackOK(double_lockouts(Append(stack, LockoutNew(slot))))
    <3> HIDE DEF stack
    <3> QED
      BY <2>5, <2>6, PushOK
  <2>8. full => kept[1].slot \in VotedSlots(votes)
    BY <2>2, <2>3, HistoryAssumption, SMTT(30) DEF VotedSlots
  <2>9. process_next_vote_slot(votes, root, slot)
          = [votes    |-> double_lockouts(Append(stack, LockoutNew(slot))),
             root     |-> IF full THEN kept[1].slot ELSE root,
             credited |-> full]
    BY <1>2 DEF process_next_vote_slot
  <2> HIDE DEF stack, kept
  <2> QED
    BY <2>7, <2>8, <2>9, <1>0, SMTT(30)
<1> QED
  BY <1>1, <1>2

(***************************************************************************)
(* What process_next_vote_slot makes of a stack: the newest votes, expired *)
(* ones, are gone, f = 1 when the oldest vote of a full stack was rooted,  *)
(* and every vote in between is still there, confirmed no less than before.*)
(***************************************************************************)
LEMMA RecordVoteShape ==
    ASSUME NEW S \in SUBSET Nat, NEW votes \in Seq(LockoutOn(S)), StackOK(votes),
           NEW root, NEW slot \in S, ~(slot <= last_voted_slot(votes))
    PROVE  \E n \in 0 .. Len(votes), f \in {0, 1} :
              LET new == process_next_vote_slot(votes, root, slot)
              IN  /\ \A k \in n + 1 .. Len(votes) : ~is_locked_out_at_slot(votes[k], slot)
                  /\ f <= n
                  /\ new.root = IF f = 1 THEN votes[1].slot ELSE root
                  /\ Len(new.votes) = n - f + 1
                  /\ new.votes[n - f + 1].slot = slot
                  /\ \A i \in 1 .. n - f :
                        /\ new.votes[i].slot = votes[i + f].slot
                        /\ new.votes[i].confirmation_count >= votes[i + f].confirmation_count
<1> DEFINE kept  == pop_expired_votes(votes, slot)
           full  == Len(kept) = MAX_LOCKOUT_HISTORY
           stack == IF full THEN Tail(kept) ELSE kept
           f     == IF full THEN 1 ELSE 0
           a     == Append(stack, LockoutNew(slot))
           d     == double_lockouts(a)
<1>1. PICK n \in 0 .. Len(votes) :
         /\ kept = SubSeq(votes, 1, n)
         /\ \A k \in n + 1 .. Len(votes) : ~is_locked_out_at_slot(votes[k], slot)
  BY PopExpiredKeepsPrefix
<1>2. kept \in Seq(LockoutOn(S)) /\ Len(kept) = n /\ \A i \in 1 .. n : kept[i] = votes[i]
  BY <1>1, SMTT(30)
<1>3. process_next_vote_slot(votes, root, slot)
        = [votes |-> d, root |-> IF full THEN kept[1].slot ELSE root, credited |-> full]
  BY DEF process_next_vote_slot
<1> HIDE DEF kept
<1>4. f <= n /\ f \in {0, 1} /\ (f = 1 <=> full)
  BY <1>2, HistoryAssumption, SMTT(30)
<1>5. /\ stack \in Seq(LockoutOn(S))
      /\ Len(stack) = n - f
      /\ \A i \in 1 .. n - f : stack[i] = votes[i + f]
  <2>1. CASE full
    <3>1. n >= 1 /\ kept # << >> /\ stack = Tail(kept) /\ f = 1
      BY <1>2, <2>1, HistoryAssumption, SMTT(30)
    <3> HIDE DEF stack, f
    <3>2. stack \in Seq(LockoutOn(S)) /\ Len(stack) = n - 1 /\ \A i \in 1 .. n - 1 : stack[i] = kept[i + 1]
      BY <1>2, <3>1, SMTT(30)
    <3> QED
      BY <1>2, <3>1, <3>2, SMTT(30)
  <2>2. CASE ~full
    BY <1>2, <2>2, SMTT(30)
  <2> QED
    BY <2>1, <2>2
<1> HIDE DEF stack, f, full
<1>6. /\ a \in Seq(LockoutOn(S)) /\ Len(a) = n - f + 1 /\ DOMAIN a = 1 .. n - f + 1
      /\ a[n - f + 1] = LockoutNew(slot)
      /\ \A i \in 1 .. n - f : a[i] = votes[i + f]
  <2>1. LockoutNew(slot) \in LockoutOn(S)
    BY HistoryAssumption, SMTT(30) DEF LockoutNew, LockoutOn, Counts
  <2> DEFINE p == n - f
  <2>2. p \in Nat /\ Len(stack) = p /\ DOMAIN stack = 1 .. p
    BY <1>4, <1>5, SMTT(30)
  <2>3. \A i \in 1 .. p : stack[i] = votes[i + f]
    BY <1>5
  <2> HIDE DEF p
  <2>4. a \in Seq(LockoutOn(S)) /\ Len(a) = p + 1 /\ DOMAIN a = 1 .. p + 1
    BY <1>5, <2>1, <2>2, SMTT(30)
  <2>5. a[p + 1] = LockoutNew(slot) /\ \A i \in 1 .. p : a[i] = stack[i]
    BY <1>5, <2>1, <2>2, SMTT(30)
  <2>6. \A i \in 1 .. p : a[i] = votes[i + f]
    BY <2>3, <2>5
  <2> QED
    BY <2>4, <2>5, <2>6 DEF p
<1>7. \A i \in 1 .. n - f + 1 :
        d[i].slot = a[i].slot /\ d[i].confirmation_count >= a[i].confirmation_count
  <2> SUFFICES ASSUME NEW i \in 1 .. n - f + 1
               PROVE  /\ d[i].slot = a[i].slot
                      /\ d[i].confirmation_count >= a[i].confirmation_count
    OBVIOUS
  <2>1. a[i] \in [slot : S, confirmation_count : Counts] /\ Counts \subseteq Nat
    <3>1. i \in DOMAIN a
      BY <1>6
    <3>2. a[i] \in LockoutOn(S)
      BY <1>6, <3>1, SMTT(30)
    <3>3. Counts \subseteq Nat
      BY HistoryAssumption, SMTT(30) DEF Counts
    <3> QED
      BY <3>2, <3>3 DEF LockoutOn
  <2>2. d[i] = IF Len(a) > (i - 1) + a[i].confirmation_count
               THEN [a[i] EXCEPT !.confirmation_count = @ + 1] ELSE a[i]
    BY <1>6 DEF double_lockouts
  <2> HIDE DEF a, d
  <2> QED
    BY <2>1, <2>2, SMTT(30)
<1>8. Len(d) = n - f + 1
  BY <1>4, <1>6, SMTT(30) DEF double_lockouts
<1> HIDE DEF a, d
<1>9. \A i \in 1 .. n - f :
         d[i].slot = votes[i + f].slot /\ d[i].confirmation_count >= votes[i + f].confirmation_count
  BY <1>4, <1>6, <1>7, SMTT(30)
<1>10. d[n - f + 1].slot = slot
  BY <1>4, <1>6, <1>7, SMTT(30) DEF LockoutNew
<1>11. (IF full THEN kept[1].slot ELSE root) = IF f = 1 THEN votes[1].slot ELSE root
  BY <1>2, <1>4, SMTT(30)
<1> DEFINE new == process_next_vote_slot(votes, root, slot)
<1>12. new.votes = d /\ new.root = IF f = 1 THEN votes[1].slot ELSE root
  BY <1>3, <1>11, SMTT(30)
<1> HIDE DEF new
<1>13. /\ \A k \in n + 1 .. Len(votes) : ~is_locked_out_at_slot(votes[k], slot)
       /\ f <= n
       /\ new.root = IF f = 1 THEN votes[1].slot ELSE root
       /\ Len(new.votes) = n - f + 1
       /\ new.votes[n - f + 1].slot = slot
       /\ \A i \in 1 .. n - f :
             /\ new.votes[i].slot = votes[i + f].slot
             /\ new.votes[i].confirmation_count >= votes[i + f].confirmation_count
  BY <1>1, <1>4, <1>8, <1>9, <1>10, <1>12
<1> QED
  BY <1>4, <1>13 DEF new

(***************************************************************************)
(* Recording a newer vote takes no lockout back: each vote of the stack    *)
(* is still there, confirmed no less, or it is the new root, or the new    *)
(* slot is past its last locked out slot.  What is on the new stack was on *)
(* the old one or is the new slot, and a new root is older than all of it. *)
(***************************************************************************)
THEOREM RecordVoteKeeps ==
    ASSUME NEW S \in SUBSET Nat, NEW votes \in Seq(LockoutOn(S)), StackOK(votes),
           NEW root, NEW slot \in S, ~(slot <= last_voted_slot(votes))
    PROVE  LET new == process_next_vote_slot(votes, root, slot)
           IN  /\ new.votes # << >>
               /\ last_voted_slot(new.votes) = slot
               /\ \A i \in DOMAIN votes :
                     \/ \E j \in DOMAIN new.votes :
                           /\ new.votes[j].slot = votes[i].slot
                           /\ new.votes[j].confirmation_count >= votes[i].confirmation_count
                     \/ new.root = votes[i].slot
                     \/ ~is_locked_out_at_slot(votes[i], slot)
               /\ \A j \in DOMAIN new.votes : new.votes[j].slot \in VotedSlots(votes) \cup {slot}
               /\ \/ new.root = root
                  \/ /\ new.root \in VotedSlots(votes)
                     /\ \A j \in DOMAIN new.votes : new.root < new.votes[j].slot
<1> DEFINE new == process_next_vote_slot(votes, root, slot)
<1>1. new.votes \in Seq(LockoutOn(S)) /\ StackOK(new.votes) /\ VotedSlots(votes) \subseteq S
  BY RecordVoteOK
<1>2. PICK n \in 0 .. Len(votes), f \in {0, 1} :
         /\ \A k \in n + 1 .. Len(votes) : ~is_locked_out_at_slot(votes[k], slot)
         /\ f <= n
         /\ new.root = IF f = 1 THEN votes[1].slot ELSE root
         /\ Len(new.votes) = n - f + 1
         /\ new.votes[n - f + 1].slot = slot
         /\ \A i \in 1 .. n - f :
               /\ new.votes[i].slot = votes[i + f].slot
               /\ new.votes[i].confirmation_count >= votes[i + f].confirmation_count
  BY RecordVoteShape, SMTT(30)
<1> HIDE DEF new
<1>3. DOMAIN new.votes = 1 .. n - f + 1 /\ DOMAIN votes = 1 .. Len(votes) /\ Len(votes) \in Nat
  BY <1>1, <1>2, SMTT(30)
<1>4. new.votes # << >> /\ last_voted_slot(new.votes) = slot
  BY <1>1, <1>2, <1>3, SMTT(30) DEF last_voted_slot
<1>5. ASSUME NEW i \in DOMAIN votes
      PROVE  \/ \E j \in DOMAIN new.votes :
                    /\ new.votes[j].slot = votes[i].slot
                    /\ new.votes[j].confirmation_count >= votes[i].confirmation_count
             \/ new.root = votes[i].slot
             \/ ~is_locked_out_at_slot(votes[i], slot)
  <2>1. CASE i > n
    BY <1>2, <1>3, <2>1, SMTT(30)
  <2>2. CASE i <= f
    BY <1>2, <1>3, <2>2, SMTT(30)
  <2>3. CASE i <= n /\ i > f
    <3>1. i - f \in 1 .. n - f /\ (i - f) + f = i
      BY <1>3, <2>3, SMTT(30)
    <3>2. i - f \in DOMAIN new.votes
      BY <1>3, <3>1, SMTT(30)
    <3> QED
      BY <1>2, <3>1, <3>2
  <2> QED
    BY <1>3, <2>1, <2>2, <2>3, SMTT(30)
<1>6. ASSUME NEW j \in DOMAIN new.votes
      PROVE  new.votes[j].slot \in VotedSlots(votes) \cup {slot}
  <2>1. CASE j = n - f + 1
    BY <1>2, <2>1
  <2>2. CASE j # n - f + 1
    <3>1. j \in 1 .. n - f /\ j + f \in DOMAIN votes
      BY <1>3, <2>2, SMTT(30)
    <3> QED
      BY <1>2, <3>1 DEF VotedSlots
  <2> QED
    BY <2>1, <2>2
<1>7. CASE f = 1
  <2>1. 1 \in DOMAIN votes /\ new.root = votes[1].slot /\ votes[1].slot \in Nat
    <3>1. 1 \in DOMAIN votes
      BY <1>2, <1>3, <1>7, SMTT(30)
    <3>2. votes[1].slot \in Nat
      BY <3>1, StackElement
    <3> QED
      BY <1>2, <1>7, <3>1, <3>2
  <2>2. votes[1].slot < slot
    <3>1. Len(votes) \in DOMAIN votes /\ votes # << >>
      BY <2>1, SMTT(30)
    <3>2. votes[Len(votes)].slot < slot /\ votes[Len(votes)].slot \in Nat
      <4>1. votes[Len(votes)].slot \in Nat
        BY <3>1, StackElement
      <4>2. last_voted_slot(votes) = votes[Len(votes)].slot /\ slot \in Nat
        BY <3>1 DEF last_voted_slot
      <4> QED
        BY <4>1, <4>2, SMTT(30)
    <3>3. 1 < Len(votes) => votes[1].slot < votes[Len(votes)].slot
      BY <2>1, <3>1 DEF StackOK
    <3>4. Len(votes) = 1 \/ 1 < Len(votes)
      BY <2>1, <1>3, SMTT(30)
    <3>5. slot \in Nat
      OBVIOUS
    <3> QED
      BY <2>1, <3>2, <3>3, <3>4, <3>5, SMTT(30)
  <2>3. ASSUME NEW j \in DOMAIN new.votes
        PROVE  votes[1].slot < new.votes[j].slot
    <3>1. CASE j = n - f + 1
      BY <1>2, <2>2, <3>1
    <3>2. CASE j # n - f + 1
      <4>1. j \in 1 .. n - f /\ j + f \in DOMAIN votes /\ 1 < j + f
        BY <1>3, <3>2, <1>7, SMTT(30)
      <4>2. votes[1].slot < votes[j + f].slot
        BY <2>1, <4>1 DEF StackOK
      <4> QED
        BY <1>2, <4>1, <4>2
    <3> QED
      BY <3>1, <3>2
  <2>4. new.root \in VotedSlots(votes)
    BY <2>1 DEF VotedSlots
  <2> QED
    BY <1>4, <1>5, <1>6, <2>1, <2>3, <2>4 DEF new
<1>8. CASE f = 0
  BY <1>2, <1>4, <1>5, <1>6, <1>8, SMTT(30) DEF new
<1> QED
  BY <1>7, <1>8
=============================================================================
