------------------------- MODULE ConfirmedBankProofs -------------------------
(***************************************************************************)
(* Proofs about ConfirmedBank for every block tree, every confirmed fork   *)
(* of it and every length of the channel.                                  *)
(*                                                                         *)
(* The replay stage runs on between the tracker's reads, so a slot can     *)
(* freeze after the tracker found it absent or unfrozen and before it is   *)
(* deferred.  Its notification is then still to come: the tracker takes    *)
(* nothing from the channel in between.  This is what HandlingInv says; it *)
(* needs that a confirmed slot above the root is never pruned.             *)
(***************************************************************************)
EXTENDS ConfirmedBank, WellFoundedInduction, TLAPS

USE Zenon

(* A notification in the channel tells of something that has happened. *)
Heard(n) == IF n.type = "OptimisticallyConfirmed" THEN n.slot \in confirmed ELSE n.slot \in frozen

ChannelInv ==
  /\ \A i \in 1 .. Len(queue) : Heard(queue[i])
  /\ unsent # Nothing => Heard(unsent)

(* A slot found absent that froze since has its notification before it. *)
HandlingInv ==
  /\ handling # Idle => handling.slot \in confirmed
  /\ handling.step = "absent" /\ handling.slot \in frozen /\ handling.slot > root =>
       Announced("Frozen", handling.slot)

(* No bank of the confirmed fork above the root is pruned. *)
KeptInv == \A s \in Confirmable \cap frozen : s > root => s \in banks

(* Slots that the cluster confirmed, itself or with a descendant. *)
ConfirmedForks == {s \in Slots \cup {0} : \E c \in confirmed : s \in Fork[c]}

(* The inductive invariant. *)
TrackerInv ==
  /\ TrackerOK
  /\ ChannelInv
  /\ HandlingInv
  /\ KeptInv
  /\ confirmed \subseteq Confirmable
  /\ pending_optimistically_confirmed_banks \subseteq ConfirmedForks

-----------------------------------------------------------------------------
LEMMA SlotNumbers ==
  /\ Slots \cup {0} \subseteq Nat
  /\ \A s \in Slots \cup {0} : s > 0 => s \in Slots
  BY BlockTreeAssumption, SMTT(30)

(* What a fork is: the block, nothing above it, and the forks of its blocks. *)
LEMMA ForkFacts ==
  /\ \A s \in Slots \cup {0} : s \in Fork[s] /\ Fork[s] \subseteq Slots \cup {0}
  /\ \A s \in Slots \cup {0} : \A a \in Fork[s] : a <= s
  /\ \A s \in Slots \cup {0} : \A a \in Fork[s] : Fork[a] \subseteq Fork[s]
<1>1. ASSUME NEW s \in Slots \cup {0} PROVE s \in Fork[s] /\ Fork[s] \subseteq Slots \cup {0}
  BY <1>1 DEF Fork
<1>2. ASSUME NEW s \in Slots \cup {0}, NEW a \in Fork[s] PROVE a <= s
  <2> DEFINE C == {x \in Slots \cup {0} : x <= s}
  <2>1. C \in Closed
    <3>1. ASSUME NEW x \in C \ {0} PROVE Parent[x] \in C
      <4>1. x \in Slots /\ x \in Nat /\ s \in Nat /\ x <= s
        BY <3>1, SlotNumbers
      <4>2. Parent[x] \in Slots \cup {0} /\ Parent[x] < x
        BY <4>1, BlockTreeAssumption
      <4>3. Parent[x] \in Nat
        BY <4>2, SlotNumbers
      <4> QED
        BY <4>1, <4>2, <4>3, SMTT(30)
    <3> QED
      BY <3>1 DEF Closed
  <2>2. s \in C
    BY SlotNumbers, SMTT(30)
  <2> QED
    BY <2>1, <2>2 DEF Fork
<1>3. ASSUME NEW s \in Slots \cup {0}, NEW a \in Fork[s] PROVE Fork[a] \subseteq Fork[s]
  BY <1>1, <1>3 DEF Fork
<1> QED
  BY <1>1, <1>2, <1>3

(* The greatest element of a set with a bound. *)
LEMMA MaxOfBounded ==
  ASSUME NEW n \in Nat, NEW S \in SUBSET (0 .. n), S # {}
  PROVE  Max(S) \in S /\ \A y \in S : y <= Max(S)
<1> DEFINE Gaps == {m \in Nat : n - m \in S}
<1>1. Gaps # {} /\ Gaps \subseteq Nat
  <2>1. PICK x \in S : TRUE
    OBVIOUS
  <2>2. n - x \in Gaps
    BY <2>1, SMTT(30)
  <2> QED
    BY <2>2
<1>2. PICK m \in Gaps : \A k \in Gaps : ~(<<k, m>> \in OpToRel(<, Nat))
  <2> HIDE DEF Gaps
  <2> QED
    BY <1>1, NatLessThanWellFounded, WFMin
<1>3. ASSUME NEW y \in S PROVE n - m >= y
  <2>1. n - y \in Gaps
    BY SMTT(30)
  <2>2. ~(n - y < m)
    BY <1>2, <2>1 DEF OpToRel
  <2> QED
    BY <2>1, <2>2, SMTT(30)
<1>4. Max(S) \in S /\ \A y \in S : Max(S) >= y
  BY <1>3 DEF Max
<1>5. S \subseteq Nat
  BY SMTT(30)
<1> DEFINE top == Max(S)
<1>6. top \in S /\ \A y \in S : top >= y
  BY <1>4
<1> HIDE DEF Gaps, top
<1>7. \A y \in S : y <= top
  BY <1>5, <1>6
<1> QED
  BY <1>6, <1>7 DEF top

LEMMA MaxOfTwo ==
  ASSUME NEW a \in Nat, NEW b \in Nat
  PROVE  Max({a, b}) \in {a, b} /\ a <= Max({a, b}) /\ b <= Max({a, b})
<1>1. a + b \in Nat /\ {a, b} \in SUBSET (0 .. a + b) /\ {a, b} # {}
  BY SMTT(30)
<1> QED
  BY <1>1, MaxOfBounded

-----------------------------------------------------------------------------
(* What is announced stays announced while the channel only grows. *)
LEMMA ChannelGrows ==
  ASSUME TrackerTypeOK, NEW n, n # Nothing,
         \/ queue' = queue /\ unsent = Nothing
         \/ queue' = queue /\ unsent' = unsent
         \/ queue' = Append(queue, n) /\ unsent = n
         \/ queue' = Append(queue, n) /\ unsent' = unsent
  PROVE  \A type, s : type # "Nothing" /\ Announced(type, s) => Announced(type, s)'
<1> SUFFICES ASSUME NEW type, NEW s, type # "Nothing", Announced(type, s)
             PROVE  Announced(type, s)'
  OBVIOUS
<1> DEFINE m == [type |-> type, slot |-> s]
<1>1. m # Nothing
  BY DEF Nothing
<1>2. queue \in Seq(Notifications)
  BY DEF TrackerTypeOK
<1>3. queue' = queue \/ queue' = Append(queue, n)
  OBVIOUS
<1>4. \A i \in 1 .. Len(queue) : i \in 1 .. Len(queue') /\ queue'[i] = queue[i]
  BY <1>2, <1>3, SMTT(30)
<1>5. unsent = m \/ \E i \in 1 .. Len(queue) : queue[i] = m
  BY DEF Announced
<1>6. CASE \E i \in 1 .. Len(queue) : queue[i] = m
  BY <1>4, <1>6 DEF Announced
<1>7. CASE unsent = m /\ queue' = Append(queue, n) /\ unsent = n
  <2>1. Len(queue) + 1 \in 1 .. Len(queue') /\ queue'[Len(queue) + 1] = n
    BY <1>2, <1>7, SMTT(30)
  <2> QED
    BY <1>7, <2>1 DEF Announced
<1>8. CASE unsent = m /\ unsent' = unsent
  BY <1>8 DEF Announced
<1> QED
  BY <1>1, <1>5, <1>6, <1>7, <1>8

(* What the tracker takes from the channel is the only thing that leaves it. *)
LEMMA ChannelShrinks ==
  ASSUME TrackerTypeOK, queue # <<>>, queue' = Tail(queue), unsent' = unsent
  PROVE  /\ queue' \in Seq(Notifications)
         /\ \A i \in 1 .. Len(queue') : i + 1 \in 1 .. Len(queue) /\ queue'[i] = queue[i + 1]
         /\ 1 \in 1 .. Len(queue) /\ Head(queue) = queue[1] /\ Head(queue) \in Notifications
         /\ \A type, s : Announced(type, s) /\ Head(queue) # [type |-> type, slot |-> s]
                           => Announced(type, s)'
<1>1. queue \in Seq(Notifications)
  BY DEF TrackerTypeOK
<1>2. /\ queue' \in Seq(Notifications)
      /\ \A i \in 1 .. Len(queue') : i + 1 \in 1 .. Len(queue) /\ queue'[i] = queue[i + 1]
      /\ 1 \in 1 .. Len(queue) /\ Head(queue) = queue[1] /\ Head(queue) \in Notifications
      /\ \A i \in 1 .. Len(queue) : i = 1 \/ (i - 1 \in 1 .. Len(queue') /\ queue'[i - 1] = queue[i])
  BY <1>1, SMTT(30)
<1>3. ASSUME NEW type, NEW s, Announced(type, s), Head(queue) # [type |-> type, slot |-> s]
      PROVE  Announced(type, s)'
  <2> DEFINE m == [type |-> type, slot |-> s]
  <2>1. unsent = m \/ \E i \in 1 .. Len(queue) : queue[i] = m
    BY <1>3 DEF Announced
  <2>2. CASE unsent = m
    BY <2>2 DEF Announced
  <2>3. CASE \E i \in 1 .. Len(queue) : queue[i] = m
    BY <1>2, <1>3, <2>3, SMTT(30) DEF Announced
  <2> QED
    BY <2>1, <2>2, <2>3
<1> QED
  BY <1>2, <1>3

(* The replay stage and the vote listener wake the tracker for what they do. *)
LEMMA OthersWake ==
  ASSUME TrackerInv, TrackerTypeOK', UNCHANGED tracker,
         \A type, s : type # "Nothing" /\ Announced(type, s) => Announced(type, s)',
         \A s \in frozen' \ frozen : Announced("Frozen", s)',
         root' = root \/ (root' > root /\ Announced("Root", root)'),
         confirmed \subseteq confirmed'
  PROVE  DeferredIsWoken' /\ ConfirmedCoversRoot' /\ ToldOnlyConfirmed' /\ HandlingInv'
           /\ pending_optimistically_confirmed_banks' \subseteq ConfirmedForks'
<1>1. /\ UNCHANGED <<handling, optimistically_confirmed_bank,
                     pending_optimistically_confirmed_banks, notified>>
      /\ root \in Nat /\ root' \in Nat /\ handling.slot \in Nat
      /\ optimistically_confirmed_bank \in Nat
  BY SlotNumbers, SMTT(30) DEF tracker, TrackerInv, TrackerOK, TrackerTypeOK, Idle
<1>2. DeferredIsWoken'
  BY <1>1 DEF TrackerInv, TrackerOK, DeferredIsWoken
<1>3. ConfirmedCoversRoot'
  <2>1. CASE root' = root
    BY <1>1, <2>1 DEF TrackerInv, TrackerOK, ConfirmedCoversRoot
  <2>2. CASE Announced("Root", root)'
    BY <2>2 DEF ConfirmedCoversRoot
  <2> QED
    BY <2>1, <2>2
<1>4. ToldOnlyConfirmed'
  BY <1>1 DEF TrackerInv, TrackerOK, ToldOnlyConfirmed
<1>5. HandlingInv'
  <2>1. handling' # Idle => handling'.slot \in confirmed'
    BY <1>1 DEF TrackerInv, HandlingInv
  <2>2. ASSUME handling.step = "absent", handling.slot \in frozen', handling.slot > root'
        PROVE  Announced("Frozen", handling.slot)'
    <3>1. CASE handling.slot \in frozen
      <4>1. handling.slot > root
        BY <1>1, <2>2, SMTT(30)
      <4> QED
        BY <1>1, <2>2, <3>1, <4>1 DEF TrackerInv, HandlingInv
    <3>2. CASE handling.slot \notin frozen
      <4>1. ASSUME NEW s, s = handling.slot PROVE Announced("Frozen", s)'
        BY <2>2, <3>2, <4>1
      <4> QED
        BY <1>1, <4>1 DEF Announced
    <3> QED
      BY <3>1, <3>2
  <2> QED
    BY <1>1, <2>1, <2>2 DEF HandlingInv
<1>6. pending_optimistically_confirmed_banks' \subseteq ConfirmedForks'
  BY <1>1 DEF TrackerInv, ConfirmedForks
<1> QED
  BY <1>2, <1>3, <1>4, <1>5, <1>6

-----------------------------------------------------------------------------
LEMMA InitTracker == TrackerInit => TrackerInv
<1> SUFFICES ASSUME TrackerInit PROVE TrackerInv
  OBVIOUS
<1>1. /\ banks = {0} /\ frozen = {0} /\ root = 0 /\ squashed = {0} /\ unsent = Nothing
      /\ queue = <<>> /\ Len(queue) = 0 /\ confirmed = {} /\ handling = Idle
      /\ optimistically_confirmed_bank = 0 /\ pending_optimistically_confirmed_banks = {}
      /\ last_notified_confirmed_slot = 0 /\ highest_confirmed_slot = 0 /\ notified = {}
  BY DEF TrackerInit
<1>2. TrackerTypeOK
  BY <1>1, SMTT(30) DEF TrackerTypeOK
<1>3. DeferredIsWoken /\ ConfirmedCoversRoot /\ ToldOnlyConfirmed
  BY <1>1, SMTT(30) DEF DeferredIsWoken, ConfirmedCoversRoot, ToldOnlyConfirmed
<1>4. ChannelInv /\ HandlingInv
  BY <1>1, SMTT(30) DEF ChannelInv, HandlingInv, Idle
<1>5. KeptInv
  BY <1>1 DEF KeptInv
<1> QED
  BY <1>1, <1>2, <1>3, <1>4, <1>5 DEF TrackerInv, TrackerOK

LEMMA NewBankKeeps ==
  ASSUME TrackerInv, NEW s \in Slots, NewBank(s)
  PROVE  TrackerInv'
<1>1. /\ banks' = banks \cup {s}
      /\ UNCHANGED <<frozen, root, squashed, unsent, queue, confirmed, tracker>>
  BY DEF NewBank
<1>2. TrackerTypeOK'
  BY <1>1 DEF TrackerInv, TrackerOK, TrackerTypeOK, tracker
<1>3. DeferredIsWoken' /\ ConfirmedCoversRoot' /\ ToldOnlyConfirmed' /\ HandlingInv'
        /\ pending_optimistically_confirmed_banks' \subseteq ConfirmedForks'
  <2>1. \A type, x : Announced(type, x) => Announced(type, x)'
    BY <1>1 DEF Announced
  <2> QED
    BY <1>1, <1>2, <2>1, OthersWake
<1>4. ChannelInv' /\ KeptInv' /\ confirmed' \subseteq Confirmable
  BY <1>1 DEF TrackerInv, ChannelInv, Heard, KeptInv
<1> QED
  BY <1>2, <1>3, <1>4 DEF TrackerInv, TrackerOK

LEMMA FreezeKeeps ==
  ASSUME TrackerInv, NEW s \in Slots, Freeze(s)
  PROVE  TrackerInv'
<1> DEFINE n == [type |-> "Frozen", slot |-> s]
<1>1. /\ unsent = Nothing /\ s \in banks
      /\ frozen' = frozen \cup {s} /\ unsent' = n
      /\ UNCHANGED <<banks, root, squashed, queue, confirmed, tracker>>
  BY DEF Freeze
<1>2. n \in Notifications /\ n # Nothing
  BY DEF Notifications, Nothing
<1>3. TrackerTypeOK'
  BY <1>1, <1>2 DEF TrackerInv, TrackerOK, TrackerTypeOK, tracker
<1>4. DeferredIsWoken' /\ ConfirmedCoversRoot' /\ ToldOnlyConfirmed' /\ HandlingInv'
        /\ pending_optimistically_confirmed_banks' \subseteq ConfirmedForks'
  <2>1. \A type, x : type # "Nothing" /\ Announced(type, x) => Announced(type, x)'
    BY <1>1, <1>2, ChannelGrows, SMTT(30) DEF TrackerInv, TrackerOK
  <2>2. \A x \in frozen' \ frozen : Announced("Frozen", x)'
    BY <1>1 DEF Announced
  <2> QED
    BY <1>1, <1>3, <2>1, <2>2, OthersWake
<1>5. ChannelInv'
  BY <1>1 DEF TrackerInv, ChannelInv, Heard
<1>6. KeptInv' /\ confirmed' \subseteq Confirmable
  BY <1>1 DEF TrackerInv, KeptInv
<1> QED
  BY <1>3, <1>4, <1>5, <1>6 DEF TrackerInv, TrackerOK

(* A new root prunes nothing above it on the confirmed fork. *)
LEMMA RootKeeps ==
  ASSUME TrackerInv, NEW r \in Slots, NEW h, set_root(r, h)
  PROVE  TrackerInv'
<1> DEFINE n == [type |-> "Root", slot |-> r]
<1>1. /\ unsent = Nothing /\ r \in Confirmable /\ r \in frozen /\ r > root
      /\ root' = r /\ squashed' = squashed \cup {r} /\ unsent' = n
      /\ banks' = {b \in banks : r \in Fork[b] \/ (b \in Fork[r] /\ b >= h)}
      /\ UNCHANGED <<frozen, queue, confirmed, tracker>>
  BY DEF set_root
<1>2. n \in Notifications /\ n # Nothing
  BY DEF Notifications, Nothing
<1>3. TrackerTypeOK'
  BY <1>1, <1>2 DEF TrackerInv, TrackerOK, TrackerTypeOK, tracker
<1>4. DeferredIsWoken' /\ ConfirmedCoversRoot' /\ ToldOnlyConfirmed' /\ HandlingInv'
        /\ pending_optimistically_confirmed_banks' \subseteq ConfirmedForks'
  <2>1. \A type, x : type # "Nothing" /\ Announced(type, x) => Announced(type, x)'
    BY <1>1, <1>2, ChannelGrows, SMTT(30) DEF TrackerInv, TrackerOK
  <2>2. Announced("Root", root)'
    BY <1>1 DEF Announced
  <2> QED
    BY <1>1, <1>3, <2>1, <2>2, OthersWake
<1>5. ChannelInv'
  BY <1>1 DEF TrackerInv, ChannelInv, Heard
<1>6. KeptInv' /\ confirmed' \subseteq Confirmable
  <2>1. ASSUME NEW s \in Confirmable, s \in frozen, s > r PROVE s \in banks'
    <3>1. s \in Nat /\ r \in Nat /\ root \in Nat /\ s \in Slots
      BY <1>1, SlotNumbers, ConfirmableAssumption DEF TrackerInv, TrackerOK, TrackerTypeOK
    <3>2. s > root /\ ~(s <= r)
      BY <1>1, <2>1, <3>1, SMTT(30)
    <3>3. s \in banks
      BY <2>1, <3>2 DEF TrackerInv, KeptInv
    <3>4. r \in Fork[s]
      BY <1>1, <3>1, <3>2, ConfirmableAssumption, ForkFacts
    <3> QED
      BY <1>1, <3>3, <3>4
  <2> QED
    BY <1>1, <2>1 DEF TrackerInv, KeptInv
<1> QED
  BY <1>3, <1>4, <1>5, <1>6 DEF TrackerInv, TrackerOK

LEMMA SendKeeps ==
  ASSUME TrackerInv, SendNotification
  PROVE  TrackerInv'
<1>1. /\ unsent # Nothing /\ queue' = Append(queue, unsent) /\ unsent' = Nothing
      /\ UNCHANGED <<banks, frozen, root, squashed, confirmed, tracker>>
  BY DEF SendNotification
<1>2. unsent \in Notifications /\ queue \in Seq(Notifications)
  BY <1>1 DEF TrackerInv, TrackerOK, TrackerTypeOK
<1>3. TrackerTypeOK'
  <2>1. queue' \in Seq(Notifications)
    BY <1>1, <1>2, SMTT(30)
  <2> QED
    BY <1>1, <2>1 DEF TrackerInv, TrackerOK, TrackerTypeOK, tracker
<1>4. DeferredIsWoken' /\ ConfirmedCoversRoot' /\ ToldOnlyConfirmed' /\ HandlingInv'
        /\ pending_optimistically_confirmed_banks' \subseteq ConfirmedForks'
  <2>1. \A type, x : type # "Nothing" /\ Announced(type, x) => Announced(type, x)'
    BY <1>1, ChannelGrows DEF TrackerInv, TrackerOK
  <2> QED
    BY <1>1, <1>3, <2>1, OthersWake
<1>5. ChannelInv'
  <2>1. \A i \in 1 .. Len(queue') : queue'[i] = unsent \/ (i \in 1 .. Len(queue) /\ queue'[i] = queue[i])
    BY <1>1, <1>2, SMTT(30)
  <2> QED
    BY <1>1, <2>1 DEF TrackerInv, ChannelInv, Heard
<1>6. KeptInv' /\ confirmed' \subseteq Confirmable
  BY <1>1 DEF TrackerInv, KeptInv
<1> QED
  BY <1>3, <1>4, <1>5, <1>6 DEF TrackerInv, TrackerOK

LEMMA ConfirmKeeps ==
  ASSUME TrackerInv, NEW s \in Slots, Confirm(s)
  PROVE  TrackerInv'
<1> DEFINE n == [type |-> "OptimisticallyConfirmed", slot |-> s]
<1>1. /\ s \in Confirmable /\ confirmed' = confirmed \cup {s} /\ queue' = Append(queue, n)
      /\ UNCHANGED <<banks, frozen, root, squashed, unsent, tracker>>
  BY DEF Confirm, replay
<1>2. n \in Notifications /\ n # Nothing /\ queue \in Seq(Notifications)
  BY DEF Notifications, Nothing, TrackerInv, TrackerOK, TrackerTypeOK
<1>3. TrackerTypeOK'
  <2>1. queue' \in Seq(Notifications)
    BY <1>1, <1>2, SMTT(30)
  <2> QED
    BY <1>1, <2>1 DEF TrackerInv, TrackerOK, TrackerTypeOK, tracker
<1>4. DeferredIsWoken' /\ ConfirmedCoversRoot' /\ ToldOnlyConfirmed' /\ HandlingInv'
        /\ pending_optimistically_confirmed_banks' \subseteq ConfirmedForks'
  <2>1. \A type, x : type # "Nothing" /\ Announced(type, x) => Announced(type, x)'
    BY <1>1, <1>2, ChannelGrows DEF TrackerInv, TrackerOK
  <2> QED
    BY <1>1, <1>3, <2>1, OthersWake
<1>5. ChannelInv'
  <2>1. \A i \in 1 .. Len(queue') : queue'[i] = n \/ (i \in 1 .. Len(queue) /\ queue'[i] = queue[i])
    BY <1>1, <1>2, SMTT(30)
  <2>2. n.type = "OptimisticallyConfirmed" /\ n.slot = s
    OBVIOUS
  <2> HIDE DEF n
  <2> QED
    BY <1>1, <2>1, <2>2 DEF TrackerInv, ChannelInv, Heard
<1>6. KeptInv' /\ confirmed' \subseteq Confirmable
  BY <1>1 DEF TrackerInv, KeptInv
<1> QED
  BY <1>3, <1>4, <1>5, <1>6 DEF TrackerInv, TrackerOK

-----------------------------------------------------------------------------
(* notify_or_defer_confirmed_banks tells of confirmed banks, and defers      *)
(* confirmed ones that are not frozen.                                       *)
LEMMA NotifyOrDefer ==
  ASSUME TrackerInv, NEW bank \in ConfirmedForks, NEW threshold, NEW pending,
         pending \subseteq pending_optimistically_confirmed_banks,
         notify_or_defer_confirmed_banks(bank, threshold, pending)
  PROVE  /\ notified' \subseteq Slots /\ notified' \subseteq ConfirmedForks
         /\ last_notified_confirmed_slot' \in Slots \cup {0}
         /\ pending_optimistically_confirmed_banks' \subseteq Slots
         /\ pending_optimistically_confirmed_banks' \subseteq ConfirmedForks
         /\ \A s \in pending_optimistically_confirmed_banks' : s \in pending \/ s \notin frozen
<1> DEFINE last == last_notified_confirmed_slot
           above == {b \in parents_inclusive(bank) : b > threshold}
           tell == {b \in above \cap frozen : b > last}
           defer == {b \in above \ frozen : b > root}
<1>1. /\ notified' = notified \cup tell
      /\ last_notified_confirmed_slot' = Max(tell \cup {last})
      /\ pending_optimistically_confirmed_banks' = pending \cup defer
  BY DEF notify_or_defer_confirmed_banks
<1>2. /\ last \in Slots \cup {0} /\ root \in Slots \cup {0} /\ confirmed \subseteq Slots
      /\ notified \subseteq Slots /\ pending_optimistically_confirmed_banks \subseteq Slots
  BY DEF TrackerInv, TrackerOK, TrackerTypeOK
<1>3. /\ bank \in Slots \cup {0} /\ bank \in Nat /\ last \in Nat /\ root \in Nat
      /\ above \subseteq Fork[bank]
  BY <1>2, SlotNumbers DEF ConfirmedForks, parents_inclusive
<1>4. Fork[bank] \subseteq ConfirmedForks
  BY <1>2, <1>3, ForkFacts DEF ConfirmedForks
<1> HIDE DEF above
<1>5. ASSUME NEW b \in above
      PROVE  /\ b \in Slots \cup {0} /\ b \in Nat /\ b <= bank
             /\ b > last => b \in Slots
             /\ b > root => b \in Slots
  <2>1. b \in Slots \cup {0} /\ b <= bank
    BY <1>3, <1>5, ForkFacts
  <2>2. b \in Nat
    BY <2>1, SlotNumbers
  <2>3. b > last \/ b > root => b > 0
    BY <1>3, <2>2, SMTT(30)
  <2> QED
    BY <2>1, <2>2, <2>3, SlotNumbers
<1>6. tell \subseteq Slots /\ tell \subseteq ConfirmedForks
  BY <1>3, <1>4, <1>5
<1>7. defer \subseteq Slots /\ defer \subseteq ConfirmedForks
  BY <1>3, <1>4, <1>5
<1>8. last_notified_confirmed_slot' \in Slots \cup {0}
  <2>1. tell \cup {last} \in SUBSET (0 .. bank + last) /\ tell \cup {last} # {} /\ bank + last \in Nat
    <3>1. \A b \in above : b \in 0 .. bank + last
      BY <1>3, <1>5, SMTT(30)
    <3>2. last \in 0 .. bank + last /\ bank + last \in Nat
      BY <1>3, SMTT(30)
    <3> QED
      BY <3>1, <3>2
  <2> HIDE DEF tell
  <2>2. Max(tell \cup {last}) \in tell \cup {last}
    BY <2>1, MaxOfBounded
  <2> QED
    BY <1>1, <1>2, <1>6, <2>2
<1>9. notified \subseteq ConfirmedForks
  BY <1>2 DEF TrackerInv, TrackerOK, ToldOnlyConfirmed, ConfirmedForks
<1> QED
  BY <1>1, <1>2, <1>6, <1>7, <1>8, <1>9 DEF TrackerInv

(* What each step of the tracker leaves alone. *)
LEMMA TrackerLeaves ==
  ASSUME TrackerInv, UNCHANGED <<replay, confirmed>>
  PROVE  /\ UNCHANGED <<banks, frozen, root, squashed, unsent, confirmed>>
         /\ KeptInv' /\ confirmed' \subseteq Confirmable
         /\ ConfirmedForks' = ConfirmedForks
<1>1. UNCHANGED <<banks, frozen, root, squashed, unsent, confirmed>>
  BY DEF replay
<1> QED
  BY <1>1 DEF TrackerInv, KeptInv, ConfirmedForks

LEMMA ReceiveConfirmedKeeps ==
  ASSUME TrackerInv, ReceiveConfirmed
  PROVE  TrackerInv'
<1> DEFINE n == Head(queue)
<1>1. /\ handling = Idle /\ queue # <<>> /\ n.type = "OptimisticallyConfirmed"
      /\ queue' = Tail(queue)
      /\ handling' = [step |-> IF n.slot \in banks THEN "cache" ELSE "absent", slot |-> n.slot]
      /\ UNCHANGED <<replay, confirmed>>
      /\ UNCHANGED <<optimistically_confirmed_bank, pending_optimistically_confirmed_banks,
                     last_notified_confirmed_slot, highest_confirmed_slot, notified>>
  BY DEF ReceiveConfirmed
<1>2. /\ UNCHANGED <<banks, frozen, root, squashed, unsent, confirmed>>
      /\ KeptInv' /\ confirmed' \subseteq Confirmable /\ ConfirmedForks' = ConfirmedForks
  BY <1>1, TrackerLeaves
<1>3. /\ queue' \in Seq(Notifications)
      /\ \A i \in 1 .. Len(queue') : i + 1 \in 1 .. Len(queue) /\ queue'[i] = queue[i + 1]
      /\ 1 \in 1 .. Len(queue) /\ n = queue[1] /\ n \in Notifications
      /\ \A type, s : Announced(type, s) /\ n # [type |-> type, slot |-> s] => Announced(type, s)'
  BY <1>1, <1>2, ChannelShrinks DEF TrackerInv, TrackerOK
<1>4. n.slot \in Slots /\ n.slot \in confirmed /\ n.slot \in Confirmable
  <2>1. Heard(n)
    BY <1>3 DEF TrackerInv, ChannelInv
  <2> QED
    BY <1>1, <1>3, <2>1 DEF Heard, TrackerInv, Notifications
<1> HIDE DEF n
<1>5. \A type, s : type # "OptimisticallyConfirmed" /\ Announced(type, s) => Announced(type, s)'
  <2>1. \A type, s : type # "OptimisticallyConfirmed" => n # [type |-> type, slot |-> s]
    BY <1>1, SMTT(30)
  <2> QED
    BY <1>3, <2>1
<1>6. TrackerTypeOK'
  <2>1. handling' \in [step : {"cache", "notify", "absent"}, slot : Slots]
    BY <1>1, <1>4
  <2> QED
    BY <1>1, <1>2, <1>3, <2>1 DEF TrackerInv, TrackerOK, TrackerTypeOK
<1>7. DeferredIsWoken' /\ ConfirmedCoversRoot' /\ ToldOnlyConfirmed'
  <2>1. DeferredIsWoken'
    BY <1>1, <1>2, <1>5 DEF TrackerInv, TrackerOK, DeferredIsWoken
  <2>2. ConfirmedCoversRoot'
    BY <1>1, <1>2, <1>5 DEF TrackerInv, TrackerOK, ConfirmedCoversRoot
  <2>3. ToldOnlyConfirmed'
    BY <1>1, <1>2 DEF TrackerInv, TrackerOK, ToldOnlyConfirmed
  <2> QED
    BY <2>1, <2>2, <2>3
<1>8. ChannelInv'
  BY <1>2, <1>3 DEF TrackerInv, ChannelInv, Heard
<1>9. HandlingInv'
  <2>1. handling'.slot = n.slot /\ (handling'.step = "absent" => n.slot \notin banks)
    BY <1>1
  <2>2. ~(handling'.step = "absent" /\ handling'.slot \in frozen /\ handling'.slot > root)
    BY <1>4, <2>1 DEF TrackerInv, KeptInv
  <2> QED
    BY <1>2, <1>4, <2>1, <2>2 DEF HandlingInv
<1> QED
  BY <1>1, <1>2, <1>6, <1>7, <1>8, <1>9 DEF TrackerInv, TrackerOK

LEMMA CacheKeeps ==
  ASSUME TrackerInv, CacheConfirmed
  PROVE  TrackerInv' /\ optimistically_confirmed_bank' >= optimistically_confirmed_bank
<1>1. /\ handling.step = "cache"
      /\ \/ /\ handling.slot > optimistically_confirmed_bank /\ handling.slot \in frozen
            /\ optimistically_confirmed_bank' = handling.slot
         \/ optimistically_confirmed_bank' = optimistically_confirmed_bank
      /\ handling' = [handling EXCEPT !.step = "notify"]
      /\ UNCHANGED <<replay, confirmed, queue>>
      /\ UNCHANGED <<pending_optimistically_confirmed_banks,
                     last_notified_confirmed_slot, highest_confirmed_slot, notified>>
  BY DEF CacheConfirmed
<1>2. /\ UNCHANGED <<banks, frozen, root, squashed, unsent, confirmed>>
      /\ KeptInv' /\ confirmed' \subseteq Confirmable /\ ConfirmedForks' = ConfirmedForks
  BY <1>1, TrackerLeaves
<1>3. handling \in [step : {"cache", "notify", "absent"}, slot : Slots] /\ handling # Idle
  BY <1>1, SMTT(30) DEF TrackerInv, TrackerOK, TrackerTypeOK, Idle
<1>4. /\ handling'.step = "notify" /\ handling'.slot = handling.slot
      /\ handling' \in [step : {"cache", "notify", "absent"}, slot : Slots]
  BY <1>1, <1>3
<1>5. /\ optimistically_confirmed_bank \in Nat /\ root \in Nat /\ handling.slot \in Nat
      /\ optimistically_confirmed_bank' \in frozen
      /\ optimistically_confirmed_bank' >= optimistically_confirmed_bank
      /\ optimistically_confirmed_bank' \in Nat
  <2>1. /\ optimistically_confirmed_bank \in Nat /\ root \in Nat /\ handling.slot \in Nat
        /\ optimistically_confirmed_bank \in frozen
    BY <1>3, SlotNumbers DEF TrackerInv, TrackerOK, TrackerTypeOK
  <2> QED
    BY <1>1, <2>1, SMTT(30)
<1>6. TrackerTypeOK'
  BY <1>1, <1>2, <1>4, <1>5 DEF TrackerInv, TrackerOK, TrackerTypeOK
<1>7. \A type, s : Announced(type, s) => Announced(type, s)'
  BY <1>1, <1>2 DEF Announced
<1>8. DeferredIsWoken' /\ ConfirmedCoversRoot' /\ ToldOnlyConfirmed'
  <2>1. DeferredIsWoken'
    BY <1>1, <1>2, <1>7 DEF TrackerInv, TrackerOK, DeferredIsWoken
  <2>2. optimistically_confirmed_bank' < root => optimistically_confirmed_bank < root
    BY <1>5, SMTT(30)
  <2>3. ConfirmedCoversRoot'
    BY <1>2, <1>7, <2>2 DEF TrackerInv, TrackerOK, ConfirmedCoversRoot
  <2>4. ToldOnlyConfirmed'
    BY <1>1, <1>2 DEF TrackerInv, TrackerOK, ToldOnlyConfirmed
  <2> QED
    BY <2>1, <2>3, <2>4
<1>9. ChannelInv' /\ HandlingInv'
  BY <1>1, <1>2, <1>3, <1>4 DEF TrackerInv, ChannelInv, Heard, HandlingInv
<1> QED
  BY <1>1, <1>2, <1>5, <1>6, <1>8, <1>9 DEF TrackerInv, TrackerOK

LEMMA NotifyKeeps ==
  ASSUME TrackerInv, NotifyConfirmed
  PROVE  TrackerInv'
<1>1. /\ handling.step = "notify" /\ handling' = Idle
      /\ UNCHANGED <<replay, confirmed, queue, optimistically_confirmed_bank>>
      /\ \/ /\ notify_or_defer_confirmed_banks(handling.slot, highest_confirmed_slot,
                                               pending_optimistically_confirmed_banks)
            /\ highest_confirmed_slot' = handling.slot
         \/ UNCHANGED <<notified, last_notified_confirmed_slot, highest_confirmed_slot,
                        pending_optimistically_confirmed_banks>>
  BY DEF NotifyConfirmed
<1>2. /\ UNCHANGED <<banks, frozen, root, squashed, unsent, confirmed>>
      /\ KeptInv' /\ confirmed' \subseteq Confirmable /\ ConfirmedForks' = ConfirmedForks
  BY <1>1, TrackerLeaves
<1>3. handling.slot \in Slots /\ handling.slot \in confirmed /\ handling.slot \in ConfirmedForks
  <2>1. handling # Idle /\ handling.slot \in Slots
    BY <1>1, SMTT(30) DEF TrackerInv, TrackerOK, TrackerTypeOK, Idle
  <2>2. handling.slot \in confirmed
    BY <2>1 DEF TrackerInv, HandlingInv
  <2> QED
    BY <2>1, <2>2, ForkFacts DEF ConfirmedForks
<1>4. /\ notified' \subseteq Slots /\ notified' \subseteq ConfirmedForks
      /\ last_notified_confirmed_slot' \in Slots \cup {0}
      /\ highest_confirmed_slot' \in Slots \cup {0}
      /\ pending_optimistically_confirmed_banks' \subseteq Slots
      /\ pending_optimistically_confirmed_banks' \subseteq ConfirmedForks
      /\ \A s \in pending_optimistically_confirmed_banks' :
            s \in pending_optimistically_confirmed_banks \/ s \notin frozen
  <2>1. CASE /\ notify_or_defer_confirmed_banks(handling.slot, highest_confirmed_slot,
                                               pending_optimistically_confirmed_banks)
             /\ highest_confirmed_slot' = handling.slot
    BY <1>3, <2>1, NotifyOrDefer
  <2>2. CASE UNCHANGED <<notified, last_notified_confirmed_slot, highest_confirmed_slot,
                         pending_optimistically_confirmed_banks>>
    BY <2>2 DEF TrackerInv, TrackerOK, TrackerTypeOK, ToldOnlyConfirmed, ConfirmedForks
  <2> QED
    BY <1>1, <2>1, <2>2
<1>5. TrackerTypeOK'
  BY <1>1, <1>2, <1>4 DEF TrackerInv, TrackerOK, TrackerTypeOK
<1>6. \A type, s : Announced(type, s) => Announced(type, s)'
  BY <1>1, <1>2 DEF Announced
<1>7. DeferredIsWoken' /\ ConfirmedCoversRoot' /\ ToldOnlyConfirmed'
  <2>1. DeferredIsWoken'
    BY <1>2, <1>4, <1>6 DEF TrackerInv, TrackerOK, DeferredIsWoken
  <2>2. ConfirmedCoversRoot'
    BY <1>1, <1>2, <1>6 DEF TrackerInv, TrackerOK, ConfirmedCoversRoot
  <2>3. ToldOnlyConfirmed'
    BY <1>2, <1>4 DEF ToldOnlyConfirmed, ConfirmedForks
  <2> QED
    BY <2>1, <2>2, <2>3
<1>8. ChannelInv' /\ HandlingInv'
  BY <1>1, <1>2 DEF TrackerInv, ChannelInv, Heard, HandlingInv, Idle
<1> QED
  BY <1>2, <1>4, <1>5, <1>7, <1>8 DEF TrackerInv, TrackerOK

(* Deferring an absent slot loses no wake-up. *)
LEMMA DeferKeeps ==
  ASSUME TrackerInv, DeferAbsent
  PROVE  TrackerInv'
<1>1. /\ handling.step = "absent" /\ handling' = Idle
      /\ UNCHANGED <<replay, confirmed, queue>>
      /\ UNCHANGED <<optimistically_confirmed_bank, last_notified_confirmed_slot,
                     highest_confirmed_slot, notified>>
      /\ \A s \in pending_optimistically_confirmed_banks' :
            \/ s \in pending_optimistically_confirmed_banks
            \/ s = handling.slot /\ handling.slot > root
  BY DEF DeferAbsent
<1>2. /\ UNCHANGED <<banks, frozen, root, squashed, unsent, confirmed>>
      /\ KeptInv' /\ confirmed' \subseteq Confirmable /\ ConfirmedForks' = ConfirmedForks
  BY <1>1, TrackerLeaves
<1>3. handling.slot \in Slots /\ handling.slot \in ConfirmedForks
  <2>1. handling # Idle /\ handling.slot \in Slots
    BY <1>1, SMTT(30) DEF TrackerInv, TrackerOK, TrackerTypeOK, Idle
  <2>2. handling.slot \in confirmed
    BY <2>1 DEF TrackerInv, HandlingInv
  <2> QED
    BY <2>1, <2>2, ForkFacts DEF ConfirmedForks
<1>4. /\ pending_optimistically_confirmed_banks' \subseteq Slots
      /\ pending_optimistically_confirmed_banks' \subseteq ConfirmedForks
  BY <1>1, <1>3 DEF TrackerInv, TrackerOK, TrackerTypeOK
<1>5. TrackerTypeOK'
  BY <1>1, <1>2, <1>4 DEF TrackerInv, TrackerOK, TrackerTypeOK
<1>6. \A type, s : Announced(type, s) => Announced(type, s)'
  BY <1>1, <1>2 DEF Announced
<1>7. DeferredIsWoken' /\ ConfirmedCoversRoot' /\ ToldOnlyConfirmed'
  <2>1. DeferredIsWoken'
    BY <1>1, <1>2, <1>6 DEF TrackerInv, TrackerOK, DeferredIsWoken, HandlingInv
  <2>2. ConfirmedCoversRoot'
    BY <1>1, <1>2, <1>6 DEF TrackerInv, TrackerOK, ConfirmedCoversRoot
  <2>3. ToldOnlyConfirmed'
    BY <1>1, <1>2 DEF TrackerInv, TrackerOK, ToldOnlyConfirmed
  <2> QED
    BY <2>1, <2>2, <2>3
<1>8. ChannelInv' /\ HandlingInv'
  BY <1>1, <1>2 DEF TrackerInv, ChannelInv, Heard, HandlingInv, Idle
<1> QED
  BY <1>2, <1>4, <1>5, <1>7, <1>8 DEF TrackerInv, TrackerOK

(* A Frozen notification wakes its bank, and no other's is consumed. *)
LEMMA ReceiveFrozenKeeps ==
  ASSUME TrackerInv, ReceiveFrozen
  PROVE  TrackerInv' /\ optimistically_confirmed_bank' >= optimistically_confirmed_bank
<1> DEFINE n == Head(queue)
           pending == pending_optimistically_confirmed_banks
<1>1. /\ handling = Idle /\ queue # <<>> /\ n.type = "Frozen"
      /\ queue' = Tail(queue)
      /\ \/ /\ n.slot \in pending
            /\ notify_or_defer_confirmed_banks(n.slot, last_notified_confirmed_slot, pending \ {n.slot})
            /\ optimistically_confirmed_bank' = Max({optimistically_confirmed_bank, n.slot})
         \/ /\ n.slot \notin pending
            /\ UNCHANGED <<pending_optimistically_confirmed_banks, notified,
                           last_notified_confirmed_slot, optimistically_confirmed_bank>>
      /\ UNCHANGED <<replay, confirmed>>
      /\ UNCHANGED <<handling, highest_confirmed_slot>>
  BY DEF ReceiveFrozen
<1>2. /\ UNCHANGED <<banks, frozen, root, squashed, unsent, confirmed>>
      /\ KeptInv' /\ confirmed' \subseteq Confirmable /\ ConfirmedForks' = ConfirmedForks
  BY <1>1, TrackerLeaves
<1>3. /\ queue' \in Seq(Notifications)
      /\ \A i \in 1 .. Len(queue') : i + 1 \in 1 .. Len(queue) /\ queue'[i] = queue[i + 1]
      /\ 1 \in 1 .. Len(queue) /\ n = queue[1] /\ n \in Notifications
      /\ \A type, s : Announced(type, s) /\ n # [type |-> type, slot |-> s] => Announced(type, s)'
  BY <1>1, <1>2, ChannelShrinks DEF TrackerInv, TrackerOK
<1>4. n.slot \in Slots /\ n.slot \in frozen
  <2>1. Heard(n)
    BY <1>3 DEF TrackerInv, ChannelInv
  <2> QED
    BY <1>1, <1>3, <2>1 DEF Heard, TrackerInv, Notifications
<1>5. /\ pending \subseteq Slots /\ pending \subseteq ConfirmedForks
      /\ notified \subseteq Slots /\ notified \subseteq ConfirmedForks
      /\ last_notified_confirmed_slot \in Slots \cup {0}
      /\ optimistically_confirmed_bank \in frozen /\ optimistically_confirmed_bank \in Nat
      /\ n.slot \in Nat /\ root \in Nat
  BY <1>4, SlotNumbers
  DEF TrackerInv, TrackerOK, TrackerTypeOK, ToldOnlyConfirmed, ConfirmedForks
<1> HIDE DEF n
<1>6. /\ \A type, s : type # "Frozen" /\ Announced(type, s) => Announced(type, s)'
      /\ \A s : s # n.slot /\ Announced("Frozen", s) => Announced("Frozen", s)'
  <2>1. /\ \A type, s : type # "Frozen" => n # [type |-> type, slot |-> s]
        /\ \A s : s # n.slot => n # [type |-> "Frozen", slot |-> s]
    BY <1>1, SMTT(30)
  <2> QED
    BY <1>3, <2>1
<1>7. /\ notified' \subseteq Slots /\ notified' \subseteq ConfirmedForks
      /\ last_notified_confirmed_slot' \in Slots \cup {0}
      /\ pending_optimistically_confirmed_banks' \subseteq Slots
      /\ pending_optimistically_confirmed_banks' \subseteq ConfirmedForks
      /\ \A s \in pending_optimistically_confirmed_banks' :
            s \in pending \ {n.slot} \/ s \notin frozen
      /\ optimistically_confirmed_bank' \in frozen
      /\ optimistically_confirmed_bank' >= optimistically_confirmed_bank
      /\ optimistically_confirmed_bank' \in Nat
  <2>1. CASE /\ n.slot \in pending
             /\ notify_or_defer_confirmed_banks(n.slot, last_notified_confirmed_slot, pending \ {n.slot})
             /\ optimistically_confirmed_bank' = Max({optimistically_confirmed_bank, n.slot})
    <3>1. n.slot \in ConfirmedForks /\ pending \ {n.slot} \subseteq pending_optimistically_confirmed_banks
      BY <1>5, <2>1
    <3>2. /\ notified' \subseteq Slots /\ notified' \subseteq ConfirmedForks
          /\ last_notified_confirmed_slot' \in Slots \cup {0}
          /\ pending_optimistically_confirmed_banks' \subseteq Slots
          /\ pending_optimistically_confirmed_banks' \subseteq ConfirmedForks
          /\ \A s \in pending_optimistically_confirmed_banks' :
                s \in pending \ {n.slot} \/ s \notin frozen
      BY <2>1, <3>1, NotifyOrDefer
    <3>3. /\ optimistically_confirmed_bank' \in {optimistically_confirmed_bank, n.slot}
          /\ optimistically_confirmed_bank' >= optimistically_confirmed_bank
      BY <1>5, <2>1, MaxOfTwo
    <3> QED
      BY <1>4, <1>5, <3>2, <3>3
  <2>2. CASE /\ n.slot \notin pending
             /\ UNCHANGED <<pending_optimistically_confirmed_banks, notified,
                            last_notified_confirmed_slot, optimistically_confirmed_bank>>
    BY <1>5, <2>2, SMTT(30)
  <2> QED
    BY <1>1, <2>1, <2>2
<1>8. TrackerTypeOK'
  BY <1>1, <1>2, <1>3, <1>7 DEF TrackerInv, TrackerOK, TrackerTypeOK
<1>9. DeferredIsWoken' /\ ConfirmedCoversRoot' /\ ToldOnlyConfirmed'
  <2>1. DeferredIsWoken'
    BY <1>2, <1>6, <1>7 DEF TrackerInv, TrackerOK, DeferredIsWoken
  <2>2. optimistically_confirmed_bank' < root => optimistically_confirmed_bank < root
    BY <1>5, <1>7, SMTT(30)
  <2>3. ConfirmedCoversRoot'
    BY <1>2, <1>6, <2>2 DEF TrackerInv, TrackerOK, ConfirmedCoversRoot
  <2>4. ToldOnlyConfirmed'
    BY <1>2, <1>7 DEF ToldOnlyConfirmed, ConfirmedForks
  <2> QED
    BY <2>1, <2>3, <2>4
<1>10. ChannelInv' /\ HandlingInv'
  BY <1>1, <1>2, <1>3, SMTT(30) DEF TrackerInv, ChannelInv, Heard, HandlingInv, Idle
<1> QED
  BY <1>2, <1>7, <1>8, <1>9, <1>10 DEF TrackerInv, TrackerOK

(* A Root notification raises the confirmed bank to the root it names. *)
LEMMA ReceiveRootKeeps ==
  ASSUME TrackerInv, ReceiveRoot
  PROVE  TrackerInv' /\ optimistically_confirmed_bank' >= optimistically_confirmed_bank
<1> DEFINE n == Head(queue)
<1>1. /\ handling = Idle /\ queue # <<>> /\ n.type = "Root"
      /\ queue' = Tail(queue)
      /\ optimistically_confirmed_bank' = Max({optimistically_confirmed_bank, n.slot})
      /\ pending_optimistically_confirmed_banks' \subseteq pending_optimistically_confirmed_banks
      /\ UNCHANGED <<replay, confirmed>>
      /\ UNCHANGED <<handling, last_notified_confirmed_slot, highest_confirmed_slot, notified>>
  BY DEF ReceiveRoot
<1>2. /\ UNCHANGED <<banks, frozen, root, squashed, unsent, confirmed>>
      /\ KeptInv' /\ confirmed' \subseteq Confirmable /\ ConfirmedForks' = ConfirmedForks
  BY <1>1, TrackerLeaves
<1>3. /\ queue' \in Seq(Notifications)
      /\ \A i \in 1 .. Len(queue') : i + 1 \in 1 .. Len(queue) /\ queue'[i] = queue[i + 1]
      /\ 1 \in 1 .. Len(queue) /\ n = queue[1] /\ n \in Notifications
      /\ \A type, s : Announced(type, s) /\ n # [type |-> type, slot |-> s] => Announced(type, s)'
  BY <1>1, <1>2, ChannelShrinks DEF TrackerInv, TrackerOK
<1>4. n.slot \in Slots /\ n.slot \in frozen
  <2>1. Heard(n)
    BY <1>3 DEF TrackerInv, ChannelInv
  <2> QED
    BY <1>1, <1>3, <2>1 DEF Heard, TrackerInv, Notifications
<1>5. /\ optimistically_confirmed_bank \in frozen /\ optimistically_confirmed_bank \in Nat
      /\ n.slot \in Nat /\ root \in Nat
  BY <1>4, SlotNumbers DEF TrackerInv, TrackerOK, TrackerTypeOK
<1> HIDE DEF n
<1>6. /\ \A type, s : type # "Root" /\ Announced(type, s) => Announced(type, s)'
      /\ \A s : s # n.slot /\ Announced("Root", s) => Announced("Root", s)'
  <2>1. /\ \A type, s : type # "Root" => n # [type |-> type, slot |-> s]
        /\ \A s : s # n.slot => n # [type |-> "Root", slot |-> s]
    BY <1>1, SMTT(30)
  <2> QED
    BY <1>3, <2>1
<1>7. /\ optimistically_confirmed_bank' \in {optimistically_confirmed_bank, n.slot}
      /\ optimistically_confirmed_bank' >= optimistically_confirmed_bank
      /\ optimistically_confirmed_bank' >= n.slot
  BY <1>1, <1>5, MaxOfTwo
<1>8. TrackerTypeOK'
  BY <1>1, <1>2, <1>3, <1>4, <1>5, <1>7 DEF TrackerInv, TrackerOK, TrackerTypeOK
<1>9. DeferredIsWoken' /\ ConfirmedCoversRoot' /\ ToldOnlyConfirmed'
  <2>1. DeferredIsWoken'
    BY <1>1, <1>2, <1>6 DEF TrackerInv, TrackerOK, DeferredIsWoken
  <2>2. optimistically_confirmed_bank' < root => optimistically_confirmed_bank < root /\ n.slot # root
    BY <1>5, <1>7, SMTT(30)
  <2>3. ConfirmedCoversRoot'
    BY <1>2, <1>6, <2>2 DEF TrackerInv, TrackerOK, ConfirmedCoversRoot
  <2>4. ToldOnlyConfirmed'
    BY <1>1, <1>2 DEF TrackerInv, TrackerOK, ToldOnlyConfirmed
  <2> QED
    BY <2>1, <2>3, <2>4
<1>10. ChannelInv' /\ HandlingInv'
  BY <1>1, <1>2, <1>3 DEF TrackerInv, ChannelInv, Heard, HandlingInv, Idle
<1> QED
  BY <1>1, <1>2, <1>7, <1>8, <1>9, <1>10 DEF TrackerInv, TrackerOK

-----------------------------------------------------------------------------
(* Every step of the replay stage, the cluster and the tracker keeps the     *)
(* invariant, and none lowers the confirmed bank.                            *)
LEMMA NextTracker ==
  ASSUME TrackerInv, [TrackerNext]_trackerVars
  PROVE  TrackerInv' /\ optimistically_confirmed_bank' >= optimistically_confirmed_bank
<1>0. optimistically_confirmed_bank \in Nat
  BY SlotNumbers DEF TrackerInv, TrackerOK, TrackerTypeOK
<1>1. ASSUME NEW s \in Slots, NewBank(s)
      PROVE  TrackerInv' /\ optimistically_confirmed_bank' = optimistically_confirmed_bank
  BY <1>1, NewBankKeeps DEF NewBank, tracker
<1>2. ASSUME NEW s \in Slots, Freeze(s)
      PROVE  TrackerInv' /\ optimistically_confirmed_bank' = optimistically_confirmed_bank
  BY <1>2, FreezeKeeps DEF Freeze, tracker
<1>3. ASSUME NEW s \in Slots, Confirm(s)
      PROVE  TrackerInv' /\ optimistically_confirmed_bank' = optimistically_confirmed_bank
  BY <1>3, ConfirmKeeps DEF Confirm, tracker
<1>4. ASSUME NEW r \in Slots, NEW h \in Slots \cup {0}, h <= r, set_root(r, h)
      PROVE  TrackerInv' /\ optimistically_confirmed_bank' = optimistically_confirmed_bank
  BY <1>4, RootKeeps DEF set_root, tracker
<1>5. CASE SendNotification
  <2>1. optimistically_confirmed_bank' = optimistically_confirmed_bank
    BY <1>5 DEF SendNotification, tracker
  <2> QED
    BY <1>0, <1>5, <2>1, SendKeeps, SMTT(30)
<1>6. CASE ReceiveConfirmed
  <2>1. optimistically_confirmed_bank' = optimistically_confirmed_bank
    BY <1>6 DEF ReceiveConfirmed
  <2> QED
    BY <1>0, <1>6, <2>1, ReceiveConfirmedKeeps, SMTT(30)
<1>7. CASE CacheConfirmed
  BY <1>7, CacheKeeps
<1>8. CASE NotifyConfirmed
  <2>1. optimistically_confirmed_bank' = optimistically_confirmed_bank
    BY <1>8 DEF NotifyConfirmed
  <2> QED
    BY <1>0, <1>8, <2>1, NotifyKeeps, SMTT(30)
<1>9. CASE DeferAbsent
  <2>1. optimistically_confirmed_bank' = optimistically_confirmed_bank
    BY <1>9 DEF DeferAbsent
  <2> QED
    BY <1>0, <1>9, <2>1, DeferKeeps, SMTT(30)
<1>10. CASE ReceiveFrozen
  BY <1>10, ReceiveFrozenKeeps
<1>11. CASE ReceiveRoot
  BY <1>11, ReceiveRootKeeps
<1>12. CASE UNCHANGED trackerVars
  <2>1. /\ UNCHANGED <<banks, frozen, root, squashed, unsent, queue, confirmed, handling>>
        /\ UNCHANGED <<optimistically_confirmed_bank, pending_optimistically_confirmed_banks,
                       last_notified_confirmed_slot, highest_confirmed_slot, notified>>
    BY <1>12 DEF trackerVars, replay, tracker
  <2>2. TrackerOK'
    BY <2>1 DEF TrackerInv, TrackerOK, TrackerTypeOK, DeferredIsWoken, ConfirmedCoversRoot,
                ToldOnlyConfirmed, Announced
  <2>3. /\ ChannelInv' /\ HandlingInv' /\ KeptInv' /\ confirmed' \subseteq Confirmable
        /\ ConfirmedForks' = ConfirmedForks
    BY <2>1 DEF TrackerInv, ChannelInv, Heard, HandlingInv, KeptInv, ConfirmedForks, Announced
  <2> QED
    BY <1>0, <2>1, <2>2, <2>3, SMTT(30) DEF TrackerInv
<1>13. CASE \E s \in Slots : NewBank(s) \/ Freeze(s) \/ Confirm(s)
  BY <1>0, <1>1, <1>2, <1>3, <1>13, SMTT(30)
<1>14. CASE \E r \in Slots, h \in Slots \cup {0} : h <= r /\ set_root(r, h)
  BY <1>0, <1>4, <1>14, SMTT(30)
<1> QED
  BY <1>5, <1>6, <1>7, <1>8, <1>9, <1>10, <1>11, <1>12, <1>13, <1>14 DEF TrackerNext, Tracker

(* OptimisticallyConfirmedBankTracker loses no wake-up however the replay    *)
(* stage freezes banks and sets roots between its reads of bank_forks, its   *)
(* confirmed bank is behind the root only until it hears of that root, and   *)
(* it tells subscribers only of slots the cluster confirmed; for every tree  *)
(* of blocks and every length of the channel.                                *)
THEOREM TrackerIsOK == TrackerSpec => []TrackerOK
<1>1. TrackerInit => TrackerInv
  BY InitTracker
<1>2. TrackerInv /\ [TrackerNext]_trackerVars => TrackerInv'
  BY NextTracker
<1>3. TrackerInv => TrackerOK
  BY DEF TrackerInv
<1> QED
  BY <1>1, <1>2, <1>3, PTL DEF TrackerSpec

(* The bank that RPC reads for confirmed commitment never goes back to a     *)
(* lower slot, whichever of a confirmation, a late freeze and a root the     *)
(* tracker hears of.                                                         *)
THEOREM ConfirmedGoesForward == TrackerSpec => ConfirmedNeverBack
<1>1. TrackerInit => TrackerInv
  BY InitTracker
<1>2. TrackerInv /\ [TrackerNext]_trackerVars => TrackerInv'
  BY NextTracker
<1>3. TrackerInv /\ [TrackerNext]_trackerVars =>
        [optimistically_confirmed_bank' >= optimistically_confirmed_bank]_trackerVars
  BY NextTracker
<1> QED
  BY <1>1, <1>2, <1>3, PTL DEF TrackerSpec, ConfirmedNeverBack
=============================================================================
