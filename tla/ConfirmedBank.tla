----------------------------- MODULE ConfirmedBank -----------------------------
(***************************************************************************)
(* The thread that keeps the most recent optimistically confirmed bank for *)
(* RPC and tells subscribers of confirmed slots                            *)
(* (rpc/src/optimistically_confirmed_bank_tracker.rs).                     *)
(*                                                                         *)
(* It reads one channel into which two threads write: the vote listener    *)
(* says that the cluster confirmed a slot, known to this validator or not, *)
(* and the replay stage says that a bank froze or became the root, after   *)
(* it did so.  While the tracker handles a notification the replay stage   *)
(* goes on: what the tracker reads of banks may change between its reads.  *)
(***************************************************************************)
EXTENDS BlockTree, FiniteSets, FiniteSetsExt, Sequences

CONSTANTS
  Confirmable,  \* the fork that the cluster confirms and that becomes rooted
  MaxQueue      \* most notifications waiting when another one is made

(* Two thirds of the stake confirm and root one fork. *)
ASSUME ConfirmableAssumption ==
  /\ Confirmable \subseteq Slots
  /\ \A a, b \in Confirmable : a \in Fork[b] \/ b \in Fork[a]

Nothing == [type |-> "Nothing", slot |-> 0]

VARIABLES
  banks,        \* the slots in bank_forks
  frozen,       \* the banks that are frozen, in bank_forks or not
  root,         \* the root of bank_forks
  squashed,     \* banks that were the root: they have no parent any more
  unsent,       \* the notification that the replay stage is about to send
  queue,        \* the channel
  confirmed,    \* slots for which the vote listener sent a notification
  handling,     \* what the tracker is in the middle of: [step, slot]
  optimistically_confirmed_bank,
  pending_optimistically_confirmed_banks,
  last_notified_confirmed_slot,
  highest_confirmed_slot,
  notified      \* history: slots of which gossip subscribers were told

replay == <<banks, frozen, root, squashed, unsent>>
tracker == <<handling, optimistically_confirmed_bank, pending_optimistically_confirmed_banks,
             last_notified_confirmed_slot, highest_confirmed_slot, notified>>
trackerVars == <<replay, queue, confirmed, tracker>>

Idle == [step |-> "recv", slot |-> 0]

Notifications ==
  [type : {"OptimisticallyConfirmed", "Frozen", "Root"}, slot : Slots]

TrackerTypeOK ==
  /\ banks \subseteq Slots \cup {0} /\ frozen \subseteq Slots \cup {0}
  /\ root \in frozen /\ squashed \subseteq frozen
  /\ unsent \in Notifications \cup {Nothing}
  /\ queue \in Seq(Notifications)
  /\ confirmed \subseteq Slots
  /\ handling \in {Idle} \cup [step : {"cache", "notify", "absent"}, slot : Slots]
  /\ optimistically_confirmed_bank \in frozen
  /\ pending_optimistically_confirmed_banks \subseteq Slots
  /\ last_notified_confirmed_slot \in Slots \cup {0}
  /\ highest_confirmed_slot \in Slots \cup {0}
  /\ notified \subseteq Slots

-----------------------------------------------------------------------------
(* Bank::parents_inclusive: squash cuts the chain at a root. *)
parents_inclusive(s) ==
  LET cut == Max(Fork[s] \cap squashed) IN {a \in Fork[s] : a >= cut}

-----------------------------------------------------------------------------
(* The replay stage creates a bank when the parent is frozen. *)
NewBank(s) ==
  /\ unsent = Nothing
  /\ s \notin banks /\ s > root
  /\ Parent[s] \in banks \cap frozen
  /\ banks' = banks \cup {s}
  /\ UNCHANGED <<frozen, root, squashed, unsent, queue, confirmed, tracker>>

(* replay_active_banks: bank.freeze(), and later the notification. *)
Freeze(s) ==
  /\ unsent = Nothing /\ Len(queue) < MaxQueue
  /\ s \in banks \ frozen
  /\ frozen' = frozen \cup {s}
  /\ unsent' = [type |-> "Frozen", slot |-> s]
  /\ UNCHANGED <<banks, root, squashed, queue, confirmed, tracker>>

(* handle_votable_bank: bank_forks.set_root(), and later the notification.   *)
(* prune_non_rooted keeps descendants of the root and its ancestors from the *)
(* highest confirmed root on.                                                *)
set_root(r, highest_confirmed_root) ==
  /\ unsent = Nothing /\ Len(queue) < MaxQueue
  /\ r \in Confirmable \cap frozen \cap banks /\ r > root
  /\ root' = r
  /\ squashed' = squashed \cup {r}
  /\ banks' = {b \in banks : r \in Fork[b] \/ (b \in Fork[r] /\ b >= highest_confirmed_root)}
  /\ unsent' = [type |-> "Root", slot |-> r]
  /\ UNCHANGED <<frozen, queue, confirmed, tracker>>

SendNotification ==
  /\ unsent # Nothing
  /\ queue' = Append(queue, unsent)
  /\ unsent' = Nothing
  /\ UNCHANGED <<banks, frozen, root, squashed, confirmed, tracker>>

(* The vote listener counted enough stake for a slot. *)
Confirm(s) ==
  /\ s \in Confirmable \ confirmed /\ Len(queue) < MaxQueue
  /\ confirmed' = confirmed \cup {s}
  /\ queue' = Append(queue, [type |-> "OptimisticallyConfirmed", slot |-> s])
  /\ UNCHANGED <<replay, tracker>>

-----------------------------------------------------------------------------
(* notify_or_defer for the banks above the threshold, oldest first.  Only    *)
(* the newest of them can be unfrozen.                                       *)
notify_or_defer_confirmed_banks(bank, slot_threshold, pending) ==
  LET above == {b \in parents_inclusive(bank) : b > slot_threshold}
      tell == {b \in above \cap frozen : b > last_notified_confirmed_slot}
      defer == {b \in above \ frozen : b > root}
  IN  /\ notified' = notified \cup tell
      /\ last_notified_confirmed_slot' = Max(tell \cup {last_notified_confirmed_slot})
      /\ pending_optimistically_confirmed_banks' = pending \cup defer

(* recv_notification, and bank_forks.get(slot) of process_notification. *)
ReceiveConfirmed ==
  /\ handling = Idle
  /\ queue # <<>> /\ Head(queue).type = "OptimisticallyConfirmed"
  /\ queue' = Tail(queue)
  /\ handling' = [step |-> IF Head(queue).slot \in banks THEN "cache" ELSE "absent",
                  slot |-> Head(queue).slot]
  /\ UNCHANGED <<replay, confirmed, optimistically_confirmed_bank, pending_optimistically_confirmed_banks,
                 last_notified_confirmed_slot, highest_confirmed_slot, notified>>

CacheConfirmed ==
  /\ handling.step = "cache"
  /\ optimistically_confirmed_bank' =
       IF handling.slot > optimistically_confirmed_bank /\ handling.slot \in frozen
         THEN handling.slot ELSE optimistically_confirmed_bank
  /\ handling' = [handling EXCEPT !.step = "notify"]
  /\ UNCHANGED <<replay, queue, confirmed, pending_optimistically_confirmed_banks,
                 last_notified_confirmed_slot, highest_confirmed_slot, notified>>

NotifyConfirmed ==
  /\ handling.step = "notify"
  /\ IF handling.slot > highest_confirmed_slot
       THEN /\ notify_or_defer_confirmed_banks(handling.slot, highest_confirmed_slot,
                                               pending_optimistically_confirmed_banks)
            /\ highest_confirmed_slot' = handling.slot
       ELSE UNCHANGED <<notified, last_notified_confirmed_slot, highest_confirmed_slot,
                        pending_optimistically_confirmed_banks>>
  /\ handling' = Idle
  /\ UNCHANGED <<replay, queue, confirmed, optimistically_confirmed_bank>>

(* Faulty variant: a slot that this validator does not know yet is dropped. *)
DropAbsent ==
  /\ handling.step = "absent"
  /\ handling' = Idle
  /\ UNCHANGED <<replay, queue, confirmed, optimistically_confirmed_bank, last_notified_confirmed_slot,
                 highest_confirmed_slot, notified, pending_optimistically_confirmed_banks>>

(* Faulty variant: a slot at or below the root is deferred like any other. *)
DeferRooted ==
  /\ handling.step = "absent"
  /\ pending_optimistically_confirmed_banks' = pending_optimistically_confirmed_banks \cup {handling.slot}
  /\ handling' = Idle
  /\ UNCHANGED <<replay, queue, confirmed, optimistically_confirmed_bank, last_notified_confirmed_slot,
                 highest_confirmed_slot, notified>>

DeferAbsent ==
  /\ handling.step = "absent"
  /\ pending_optimistically_confirmed_banks' = pending_optimistically_confirmed_banks
       \cup (IF handling.slot > root THEN {handling.slot} ELSE {})
  /\ handling' = Idle
  /\ UNCHANGED <<replay, queue, confirmed, optimistically_confirmed_bank, last_notified_confirmed_slot,
                 highest_confirmed_slot, notified>>

ReceiveFrozen ==
  /\ handling = Idle
  /\ queue # <<>> /\ Head(queue).type = "Frozen"
  /\ queue' = Tail(queue)
  /\ LET bank == Head(queue).slot
     IN  IF bank \in pending_optimistically_confirmed_banks
           THEN /\ notify_or_defer_confirmed_banks(bank, last_notified_confirmed_slot,
                     pending_optimistically_confirmed_banks \ {bank})
                /\ optimistically_confirmed_bank' = Max({optimistically_confirmed_bank, bank})
           ELSE UNCHANGED <<pending_optimistically_confirmed_banks, notified,
                            last_notified_confirmed_slot, optimistically_confirmed_bank>>
  /\ UNCHANGED <<replay, confirmed, handling, highest_confirmed_slot>>

(* Faulty variant: a new root replaces the confirmed bank whatever it is. *)
RootReplaces ==
  /\ handling = Idle
  /\ queue # <<>> /\ Head(queue).type = "Root"
  /\ queue' = Tail(queue)
  /\ optimistically_confirmed_bank' = Head(queue).slot
  /\ pending_optimistically_confirmed_banks' =
       {s \in pending_optimistically_confirmed_banks : s > Head(queue).slot}
  /\ UNCHANGED <<replay, confirmed, handling, last_notified_confirmed_slot, highest_confirmed_slot, notified>>

ReceiveRoot ==
  /\ handling = Idle
  /\ queue # <<>> /\ Head(queue).type = "Root"
  /\ queue' = Tail(queue)
  /\ optimistically_confirmed_bank' = Max({optimistically_confirmed_bank, Head(queue).slot})
  /\ pending_optimistically_confirmed_banks' =
       {s \in pending_optimistically_confirmed_banks : s > Head(queue).slot}
  /\ UNCHANGED <<replay, confirmed, handling, last_notified_confirmed_slot, highest_confirmed_slot, notified>>

-----------------------------------------------------------------------------
TrackerInit ==
  /\ banks = {0} /\ frozen = {0} /\ root = 0 /\ squashed = {0}
  /\ unsent = Nothing
  /\ queue = <<>>
  /\ confirmed = {}
  /\ handling = Idle
  /\ optimistically_confirmed_bank = 0
  /\ pending_optimistically_confirmed_banks = {}
  /\ last_notified_confirmed_slot = 0
  /\ highest_confirmed_slot = 0
  /\ notified = {}

Tracker ==
  \/ ReceiveConfirmed \/ CacheConfirmed \/ NotifyConfirmed \/ DeferAbsent
  \/ ReceiveFrozen \/ ReceiveRoot

TrackerNext ==
  \/ \E s \in Slots : NewBank(s) \/ Freeze(s) \/ Confirm(s)
  \/ \E r \in Slots, h \in Slots \cup {0} : h <= r /\ set_root(r, h)
  \/ SendNotification
  \/ Tracker

TrackerSpec == TrackerInit /\ [][TrackerNext]_trackerVars

(* The tracker's thread receives as long as there is something to receive,   *)
(* and the replay stage does not stop between a change and its notification. *)
TrackerFairness == WF_trackerVars(Tracker) /\ WF_trackerVars(SendNotification)

-----------------------------------------------------------------------------
Announced(type, s) ==
  LET n == [type |-> type, slot |-> s]
  IN  unsent = n \/ \E i \in 1 .. Len(queue) : queue[i] = n

(* No wake-up is lost: a deferred slot that froze still has its notification *)
(* before it, whatever the replay stage did between the tracker's reads.     *)
DeferredIsWoken ==
  \A s \in pending_optimistically_confirmed_banks : s \in frozen => Announced("Frozen", s)

(* The bank that RPC uses for confirmed commitment falls behind the root     *)
(* only while the notification of the root is on its way.                    *)
ConfirmedCoversRoot == optimistically_confirmed_bank < root => Announced("Root", root)

(* The confirmed bank never goes back to a lower slot. *)
ConfirmedNeverBack ==
  [][optimistically_confirmed_bank' >= optimistically_confirmed_bank]_trackerVars

(* A slot the cluster confirmed that is frozen here is told to subscribers,  *)
(* or a later one is, unless it is already under the root.                   *)
ConfirmedIsTold ==
  \A s \in Slots :
    (s \in confirmed /\ s \in frozen) ~>
      (last_notified_confirmed_slot >= s \/ root >= s)

(* Subscribers are told only of slots that the cluster confirmed itself or   *)
(* with a descendant.                                                        *)
ToldOnlyConfirmed == \A s \in notified : \E c \in confirmed : s \in Fork[c]

(* OptimisticallyConfirmedBankTracker loses no wake-up, is behind the root *)
(* only until it hears of it, and tells only what is confirmed.            *)
TrackerOK ==
  /\ TrackerTypeOK
  /\ DeferredIsWoken
  /\ ConfirmedCoversRoot
  /\ ToldOnlyConfirmed

=============================================================================
