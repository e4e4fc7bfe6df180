------------------------------- MODULE Tower --------------------------------
(***************************************************************************)
(* One validator's Tower (core/src/consensus.rs) and what surrounds it:    *)
(* the replay loop that votes and sets roots (core/src/replay_stage.rs),   *)
(* the voting service thread that saves the tower and sends the vote       *)
(* (core/src/voting_service.rs), the ledger's roots, and a process that    *)
(* may die between any two of these steps and be started again             *)
(* (core/src/validator.rs).                                                *)
(*                                                                         *)
(* Abstracted: stake.  Threshold, propagation and switch proof checks that *)
(* need it may come out either way, so every safety property holds         *)
(* whatever the other validators do.  A slot has one block: duplicate      *)
(* blocks are not modelled here.                                           *)
(***************************************************************************)
EXTENDS Lockouts

CONSTANTS
    MaxSlot,        \* bound: slots are 0 .. MaxSlot
    MaxCrashes,     \* bound: how often the process dies
    MaxQueue,       \* bound: votes waiting for the voting service
    MAX_ENTRIES,    \* slots a SlotHistory remembers
    Signable        \* whether a vote transaction can be signed: {TRUE} or BOOLEAN

ASSUME TowerAssumption ==
    /\ MaxSlot \in Nat
    /\ MAX_ENTRIES \in Nat \ {0}
    /\ Signable \in {{TRUE}, BOOLEAN}

Slots == 0 .. MaxSlot

VARIABLES
    ancestors,      \* the block tree: proper ancestors of each slot
    blocks,         \* blockstore: slots whose block is complete, persistent
    roots,          \* blockstore: slots marked as root, persistent
    saved,          \* tower storage: the tower last stored, persistent
    status,         \* "up", "down" or "aborted"
    tower,          \* the Tower in memory
    bank_forks,     \* the frozen banks in memory
    bank_root,      \* BankForks::root
    voting_queue,   \* VoteOps sent to the voting service, oldest first
    stored,         \* the voting service has stored the tower of the first op
    promised,       \* ghost: greatest confirmation count ever sent per slot
    crashes

ledger    == <<blocks, roots>>
memory    == <<tower, bank_forks, bank_root>>
vars == <<ancestors, ledger, saved, status, memory, voting_queue, stored,
          promised, crashes>>

(***************************************************************************)
(* The block tree grows as blocks are seen: a slot that has none yet has   *)
(* no ancestors, and a slot's parent never changes.  Slot 0 is genesis.    *)
(***************************************************************************)
Upto(s) == ancestors[s] \cup {s}

(* BankForks::ancestors, which leaves out what is older than the root. *)
BankAncestors(s) == {a \in ancestors[s] : a >= bank_root}

Descends(s, a) == a \in Upto(s)

Leaves == {b \in bank_forks : \A c \in bank_forks : b \notin ancestors[c]}

(***************************************************************************)
(* Towers: the lockouts and root of vote_state, the slot of last_vote, and *)
(* stray_restored_slot.                                                    *)
(***************************************************************************)
NoTower == [votes |-> << >>, root |-> NoSlot, last_vote |-> NoSlot, stray |-> NoSlot]

NewTower(root) == [NoTower EXCEPT !.root = root]

is_recent(t, slot) == slot > last_voted_slot(t.votes)

is_stray_last_vote(t) == t.last_vote # NoSlot /\ t.stray = t.last_vote

Simulate(t, slot) == process_next_vote_slot(t.votes, t.root, slot)

is_locked_out(t, slot) ==
    \/ ~is_recent(t, slot)
    \/ VotedSlots(Simulate(t, slot).votes) \ {slot} \notin SUBSET BankAncestors(slot)

(* The assert! at the end of is_locked_out. *)
RootAssertHolds(t, slot) ==
    is_locked_out(t, slot) \/ Simulate(t, slot).root \in BankAncestors(slot) \cup {slot}

(***************************************************************************)
(* make_check_switch_threshold_decision, where stake does not decide: a    *)
(* vote on an ancestor of the last vote is suspended when the last vote is *)
(* a stray one, and panics otherwise.                                      *)
(***************************************************************************)
SwitchSuspended(t, slot) ==
    /\ is_stray_last_vote(t)
    /\ t.last_vote \in bank_forks
    /\ slot \in BankAncestors(t.last_vote)

SwitchAssertsHold(t, slot) ==
    t.last_vote # NoSlot /\ ~is_stray_last_vote(t) =>
        /\ t.last_vote \in bank_forks
        /\ slot \notin BankAncestors(t.last_vote)

record_bank_vote(t, slot) ==
    LET new == Simulate(t, slot)
    IN  [t EXCEPT !.votes = new.votes, !.root = new.root, !.last_vote = slot]

-----------------------------------------------------------------------------
(* Up for the first time: genesis replayed, no tower stored yet. *)
Init ==
    /\ ancestors = [s \in Slots |-> {}]
    /\ blocks = {0}
    /\ roots = {0}
    /\ saved = NoTower
    /\ status = "up"
    /\ tower = NewTower(0)
    /\ bank_forks = {0}
    /\ bank_root = 0
    /\ voting_queue = << >>
    /\ stored = FALSE
    /\ promised = [s \in Slots |-> 0]
    /\ crashes = 0

(***************************************************************************)
(* A block becomes complete in the blockstore and is replayed and frozen.  *)
(* Only blocks whose parent bank is present are replayed.                  *)
(***************************************************************************)
ReplayBank(s, parent) ==
    /\ status = "up"
    /\ s \notin bank_forks
    /\ parent \in bank_forks
    /\ parent < s
    /\ ancestors[s] \in {{}, Upto(parent)}
    /\ ancestors' = [ancestors EXCEPT ![s] = Upto(parent)]
    /\ blocks' = blocks \cup {s}
    /\ bank_forks' = bank_forks \cup {s}
    /\ UNCHANGED <<roots, saved, status, tower, bank_root,
                   voting_queue, stored, promised, crashes>>

(* SavedTower: serializing a tower skips stray_restored_slot. *)
SavedTower(t) == [t EXCEPT !.stray = NoSlot]

PushVote(t) == [tower |-> SavedTower(t), push |-> TRUE]
RefreshVote(t) == [tower |-> t, push |-> FALSE]

(* Faulty variant: every bank up to the new root is marked as a root. *)
SetRootOfAnyFork(new_root) ==
    IF new_root = tower.root
    THEN UNCHANGED <<roots, bank_forks, bank_root>>
    ELSE /\ roots' = roots \cup {b \in bank_forks : b <= new_root}
         /\ bank_root' = new_root
         /\ bank_forks' = {b \in bank_forks : Descends(b, new_root)}

SetRoot(new_root) ==
    IF new_root = tower.root
    THEN UNCHANGED <<roots, bank_forks, bank_root>>
    ELSE /\ roots' = roots \cup {a \in Upto(new_root) : a >= bank_root}
         /\ bank_root' = new_root
         /\ bank_forks' = {b \in bank_forks : Descends(b, new_root)}

(* The heaviest bank is a leaf that fork choice picks, here any of them.  It *)
(* gets the vote unless locked out or suspended; the checks on stake may     *)
(* keep it from it, and then nothing changes.  An is_locked_out whose assert! *)
(* fails ends in a panic, not in a vote.                                     *)
select_vote(heaviest) ==
    /\ heaviest \in Leaves
    /\ ~SwitchSuspended(tower, heaviest)
    /\ ~is_locked_out(tower, heaviest)
    /\ RootAssertHolds(tower, heaviest)

(***************************************************************************)
(* handle_votable_bank on the heaviest bank, once it is selected: the vote *)
(* is recorded, a new root is set in the blockstore and in bank_forks,     *)
(* which drops every bank that does not descend from it, and the vote goes *)
(* to the voting service.  push_vote sends nothing when no vote            *)
(* transaction can be signed (no authorized key, or still waiting for      *)
(* wait_to_vote_slot).                                                     *)
(***************************************************************************)
handle_votable_bank(heaviest, signable) ==
    LET voted == record_bank_vote(tower, heaviest)
    IN  /\ status = "up"
        /\ select_vote(heaviest)
        /\ signable => Len(voting_queue) < MaxQueue
        /\ tower' = voted
        /\ SetRoot(voted.root)
        /\ voting_queue' = IF signable THEN Append(voting_queue, PushVote(voted))
                                       ELSE voting_queue
        /\ UNCHANGED <<ancestors, blocks, saved, status, stored, promised, crashes>>

(***************************************************************************)
(* refresh_last_vote: the last vote has not landed on its own fork, where  *)
(* an earlier one has, and its blockhash has expired, so the same vote is  *)
(* signed and sent again.                                                  *)
(***************************************************************************)
refresh_last_vote ==
    /\ status = "up"
    /\ tower.last_vote \in bank_forks
    /\ \E landed \in ancestors[tower.last_vote] : promised[landed] > 0
    /\ Len(voting_queue) < MaxQueue
    /\ voting_queue' = Append(voting_queue, RefreshVote(tower))
    /\ UNCHANGED <<ancestors, ledger, saved, status, memory, stored, promised, crashes>>

(***************************************************************************)
(* The voting service, a thread of its own, takes the operations in order: *)
(* the tower of a pushed vote is stored before its transaction is sent, a  *)
(* refreshed vote is sent only.                                            *)
(***************************************************************************)
StoreTower ==
    /\ status = "up"
    /\ voting_queue # << >>
    /\ Head(voting_queue).push
    /\ ~stored
    /\ saved' = Head(voting_queue).tower
    /\ stored' = TRUE
    /\ UNCHANGED <<ancestors, ledger, status, memory, voting_queue, promised, crashes>>

(* What the cluster has been shown once the stack of tower t is sent. *)
Promise(t) ==
    [s \in Slots |->
        Max({promised[s]} \cup
            {t.votes[i].confirmation_count : i \in {j \in DOMAIN t.votes : t.votes[j].slot = s}})]

(* Faulty variant: the vote may be sent before its tower is stored. *)
SendBeforeStore ==
    /\ status = "up"
    /\ voting_queue # << >>
    /\ promised' = Promise(Head(voting_queue).tower)
    /\ voting_queue' = Tail(voting_queue)
    /\ stored' = FALSE
    /\ UNCHANGED <<ancestors, ledger, saved, status, memory, crashes>>

SendVote ==
    /\ status = "up"
    /\ voting_queue # << >>
    /\ Head(voting_queue).push => stored
    /\ promised' = Promise(Head(voting_queue).tower)
    /\ voting_queue' = Tail(voting_queue)
    /\ stored' = FALSE
    /\ UNCHANGED <<ancestors, ledger, saved, status, memory, crashes>>

(***************************************************************************)
(* The process dies.  What the blockstore wrote last and had not synced is *)
(* lost with it: any later blocks, and any later roots.                    *)
(***************************************************************************)
SurvivingLedgers ==
    {<<b, {r \in roots : r <= last}>> :
        b \in {c \in SUBSET blocks : 0 \in c /\ \A s \in c : ancestors[s] \subseteq c},
        last \in roots}

Crash ==
    /\ status = "up"
    /\ crashes < MaxCrashes
    /\ \E l \in SurvivingLedgers :
          /\ l[2] \subseteq l[1]
          /\ blocks' = l[1]
          /\ roots' = l[2]
    /\ status' = "down"
    /\ tower' = NoTower
    /\ bank_forks' = {}
    /\ bank_root' = 0
    /\ voting_queue' = << >>
    /\ stored' = FALSE
    /\ crashes' = crashes + 1
    /\ UNCHANGED <<ancestors, saved, promised>>

-----------------------------------------------------------------------------
(***************************************************************************)
(* Restarting.  reconcile_blockstore_roots_with_tower marks the ancestors  *)
(* of the tower's root down to the last blockstore root, if the blockstore *)
(* has the tower's root at all.                                            *)
(***************************************************************************)
MustReconcile == saved # NoTower /\ Max(roots) < saved.root /\ saved.root \in blocks

(* Faulty variant: the tower's root is never looked at. *)
NoReconcile == roots

ReconciledRoots ==
    IF MustReconcile
    THEN roots \cup {a \in Upto(saved.root) : a > Max(roots)}
    ELSE roots

(* The panic! in it: walking up from the tower's root misses the last root. *)
ReconcileAssertHolds == MustReconcile => Max(roots) \in Upto(saved.root)

(***************************************************************************)
(* load_frozen_forks replays from the last root.  A root of the cluster    *)
(* seen in the replayed banks, which must descend from ours, becomes the   *)
(* root, and so do the slots up to it.  The cluster's roots and the ones   *)
(* this validator has set are on one fork: both take two thirds of stake.  *)
(***************************************************************************)
ClusterRoots ==
    {s \in blocks : /\ \E b \in blocks : s \in ancestors[b]
                    /\ saved = NoTower \/ Descends(s, saved.root) \/ Descends(saved.root, s)}

ReplayedRoots ==
    LET local_root == Max(ReconciledRoots)
    IN  {local_root} \cup {s \in ClusterRoots : local_root \in ancestors[s]}

SlotHistory(root) == [slots |-> Upto(root), next_slot |-> root + 1]

Add(history, slot) ==
    [slots |-> history.slots \cup {slot}, next_slot |-> slot + 1]

check(history, slot) ==
    CASE slot >= history.next_slot              -> "Future"
      [] slot < history.next_slot - MAX_ENTRIES -> "TooOld"
      [] slot \in history.slots
         /\ slot \in history.next_slot - MAX_ENTRIES .. history.next_slot - 1 -> "Found"
      [] OTHER                                  -> "NotFound"

(***************************************************************************)
(* adjust_lockouts_with_slot_history looks at the root and the votes of a  *)
(* restored tower from the newest back.  The newest one found in the       *)
(* history anchors the tower, and the votes newer than it are retained.    *)
(***************************************************************************)
SlotsInTower(t) == <<t.root>> \o [i \in DOMAIN t.votes |-> t.votes[i].slot]

Checks(t, history) == [i \in DOMAIN SlotsInTower(t) |-> check(history, SlotsInTower(t)[i])]

Anchors(t, history) == {i \in DOMAIN SlotsInTower(t) : Checks(t, history)[i] = "Found"}

FatallyInconsistent(t, history) ==
    LET checks == Checks(t, history)
    IN  \/ Anchors(t, history) = {}
        \/ \E i, j \in DOMAIN checks :
              /\ i < j
              /\ \/ checks[i] = "NotFound" /\ checks[j] = "Found"
                 \/ checks[i] = "Future" /\ checks[j] # "Future"
                 \/ checks[i] # "TooOld" /\ checks[j] = "TooOld"

(* The assert! on their order; the root may repeat once, as the first vote. *)
TowerOrderAssertHolds(t) ==
    LET slots == SlotsInTower(t)
    IN  \A i \in 1 .. Len(slots) - 1 :
            \/ slots[i] < slots[i + 1]
            \/ slots[i] = slots[i + 1] /\ slots[i] = t.root

(* The assert! on the last vote of a restored tower. *)
LastVoteAssertHolds(t) == t.last_vote = last_voted_slot(t.votes)

(* Faulty variant: a restored last vote is never taken for a stray one. *)
StrayForgotten(t, history) ==
    LET kept == SubSeq(t.votes, Max(Anchors(t, history)), Len(t.votes))
    IN  [t EXCEPT !.votes = kept,
                  !.last_vote = IF kept = << >> THEN NoSlot ELSE t.last_vote]

adjust_lockouts_with_slot_history(t, history) ==
    LET kept == SubSeq(t.votes, Max(Anchors(t, history)), Len(t.votes))
    IN  [t EXCEPT !.votes = kept,
                  !.last_vote = IF kept = << >> THEN NoSlot ELSE t.last_vote,
                  !.stray = IF kept = << >> THEN t.stray ELSE t.last_vote]

HistoryFor(t, replayed_root) ==
    IF t.root <= replayed_root
    THEN SlotHistory(replayed_root)
    ELSE Add(SlotHistory(replayed_root), t.root)

adjust_fails(t, replayed_root) ==
    /\ t.last_vote # NoSlot
    /\ \/ /\ t.root <= replayed_root
          /\ check(SlotHistory(replayed_root), t.last_vote) = "TooOld"
       \/ FatallyInconsistent(t, HistoryFor(t, replayed_root))

adjust_lockouts_after_replay(t, replayed_root) ==
    IF t.last_vote = NoSlot
    THEN t
    ELSE [adjust_lockouts_with_slot_history(t, HistoryFor(t, replayed_root))
            EXCEPT !.root = IF t.root <= replayed_root THEN replayed_root ELSE t.root]

RestoreFails(replayed_root) == saved # NoTower /\ adjust_fails(saved, replayed_root)

(* Without a tower file, and so without a vote ever sent, a new one is made. *)
RestoredTower(replayed_root) ==
    IF saved = NoTower
    THEN NewTower(replayed_root)
    ELSE adjust_lockouts_after_replay(saved, replayed_root)

Restart(replayed_root) ==
    /\ status = "down"
    /\ replayed_root \in ReplayedRoots
    /\ ~RestoreFails(replayed_root)
    /\ roots' = ReconciledRoots \cup {a \in Upto(replayed_root) : a > Max(ReconciledRoots)}
    /\ status' = "up"
    /\ tower' = RestoredTower(replayed_root)
    /\ bank_root' = replayed_root
    /\ bank_forks' = {b \in blocks : Descends(b, replayed_root)}
    /\ UNCHANGED <<ancestors, blocks, saved, voting_queue, stored, promised, crashes>>

(* post_process_restored_tower aborts: the restored tower is unusable and    *)
(* there are votes of ours on the ledger.  This is a validator run with      *)
(* require_tower; without it the tower is rebuilt from the vote account.     *)
RestartAborts(replayed_root) ==
    /\ status = "down"
    /\ replayed_root \in ReplayedRoots
    /\ RestoreFails(replayed_root)
    /\ roots' = ReconciledRoots \cup {a \in Upto(replayed_root) : a > Max(ReconciledRoots)}
    /\ status' = "aborted"
    /\ UNCHANGED <<ancestors, blocks, saved, memory, voting_queue, stored, promised, crashes>>

Next ==
    \/ \E s, parent \in Slots : ReplayBank(s, parent)
    \/ \E h \in Slots, signable \in Signable : handle_votable_bank(h, signable)
    \/ refresh_last_vote
    \/ StoreTower
    \/ SendVote
    \/ Crash
    \/ \E r \in Slots : Restart(r) \/ RestartAborts(r)

Spec == Init /\ [][Next]_vars

-----------------------------------------------------------------------------
Towers == [votes : Seq(LockoutOn(Slots)), root : Slots \cup {NoSlot},
           last_vote : Slots \cup {NoSlot}, stray : Slots \cup {NoSlot}]

VoteOps == [tower : Towers, push : BOOLEAN]

(* The values each part of the state may take: Tower, BankForks, the       *)
(* blockstore's roots and the operations queued for the voting service.    *)
TypeOK ==
    /\ ancestors \in [Slots -> SUBSET Slots]
    /\ blocks \subseteq Slots
    /\ roots \subseteq Slots
    /\ saved \in Towers
    /\ status \in {"up", "down", "aborted"}
    /\ tower \in Towers
    /\ bank_forks \subseteq Slots
    /\ bank_root \in Slots
    /\ voting_queue \in Seq(VoteOps)
    /\ stored \in BOOLEAN
    /\ promised \in [Slots -> Counts]
    /\ crashes \in Nat

(* Every stack the validator holds, has saved or is about to send is well  *)
(* formed: recording a vote (process_next_vote_slot) keeps it so, and so   *)
(* does what a restart retains of a restored tower.                        *)
TowerStacksOK ==
    /\ StackOK(tower.votes)
    /\ StackOK(saved.votes)
    /\ \A i \in DOMAIN voting_queue : StackOK(voting_queue[i].tower.votes)

(* The state of the validator is of its type, with well-formed stacks wherever *)
(* a tower is kept (Tower, the saved tower and the queue of the voting         *)
(* service).                                                                   *)
TowerOK ==
    /\ TypeOK
    /\ TowerStacksOK

(* The slots this validator roots lie on one fork, through every crash,    *)
(* restart, reconciliation and cluster root (set_roots in                  *)
(* handle_votable_bank, reconcile_blockstore_roots_with_tower and          *)
(* load_frozen_forks).                                                     *)
RootsOnOneFork == \A r, q \in roots : r <= q => r \in Upto(q)

(* None of the assertions the voting code makes about tower, bank_forks    *)
(* and ledger can fail: assert! in is_locked_out, for any frozen bank; the *)
(* panics of the switch check, for the heaviest bank; "Root bank doesn't   *)
(* exist" in handle_votable_bank; the panic of the reconciliation; the     *)
(* order of the slots of a restored tower, and its last vote.              *)
AssertionsHold ==
    /\ status = "up" =>
          /\ \A b \in bank_forks : RootAssertHolds(tower, b)
          /\ \A h \in Leaves :
                /\ SwitchAssertsHold(tower, h)
                /\ ~is_locked_out(tower, h) /\ Simulate(tower, h).root # tower.root
                     => Simulate(tower, h).root \in bank_forks
    /\ status = "down" =>
          ReconcileAssertHolds /\ TowerOrderAssertHolds(saved) /\ LastVoteAssertHolds(saved)

(* A restart ends in the abort of post_process_restored_tower only when    *)
(* the tower is too old for the slot history: what a crash leaves behind   *)
(* of tower and ledger can otherwise always be put together.               *)
AbortsOnlyWhenTooOld ==
    status = "aborted" => saved.root < Max(roots) + 1 - MAX_ENTRIES

(* The validator never stops on an assertion or a panic of the voting code, *)
(* and refuses to start only with a tower older than the slot history.      *)
NoFailure ==
    /\ AssertionsHold
    /\ AbortsOnlyWhenTooOld

(* A running validator's last root in the blockstore is the root of        *)
(* bank_forks (set_roots before BankForks::set_root, and the roots that    *)
(* load_frozen_forks marks), and neither runs ahead of the tower's root,   *)
(* also when the tower is from a future that the ledger has lost.          *)
RootsNotAheadOfTower ==
    status = "up" => Max(roots) = bank_root /\ bank_root <= tower.root

(* The roots of blockstore, bank_forks and tower fit together at all times, *)
(* crashes and restarts included.                                           *)
RootsOK ==
    /\ RootsOnOneFork
    /\ RootsNotAheadOfTower

(* After a restart tower and bank_forks agree on the root, unless the crash  *)
(* lost the very block of the tower's root: what                             *)
(* reconcile_blockstore_roots_with_tower is there for.                       *)
RestartAgreesOnRoot ==
    [][status = "down" /\ status' = "up" =>
           tower'.root = bank_root' \/ saved.root \notin blocks]_vars

Promises == INSTANCE LockoutPromise

(* The lockouts of vote_state/mod.rs: "Validators should not vote on a     *)
(* slot in another fork which is less than or equal to this slot", through *)
(* crashes and restarts.  The tower implements LockoutPromise.             *)
KeepsLockoutPromise == Promises!Spec
=============================================================================
