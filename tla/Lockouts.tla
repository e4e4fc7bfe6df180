------------------------------ MODULE Lockouts ------------------------------
(***************************************************************************)
(* The vote stack shared by the vote program and a validator's Tower:      *)
(* programs/vote/src/vote_state/mod.rs, Lockout and the part of VoteState  *)
(* that recording a vote changes.  Pure operators, no state.               *)
(*                                                                         *)
(* A vote stack is a sequence of lockouts, oldest first, the VecDeque of   *)
(* the code.  A slot is a natural number and NoSlot stands for None.       *)
(***************************************************************************)
EXTENDS Integers, Sequences, FiniteSetsExt

CONSTANTS
    MAX_LOCKOUT_HISTORY,    \* votes a stack holds before the oldest is rooted
    INITIAL_LOCKOUT         \* base of the lockout's exponential

ASSUME HistoryAssumption == MAX_LOCKOUT_HISTORY \in Nat \ {0}

Counts == 0 .. MAX_LOCKOUT_HISTORY

lockout(count) == INITIAL_LOCKOUT ^ count

(* Lockouts are numbers that do not shrink when a vote is confirmed again. *)
ASSUME LockoutAssumption ==
    /\ \A c \in Counts : lockout(c) \in Nat
    /\ \A c, d \in Counts : c <= d => lockout(c) <= lockout(d)

NoSlot == -1

LockoutOn(slots) == [slot : slots, confirmation_count : Counts]

Lockout == LockoutOn(Nat)

LockoutNew(slot) == [slot |-> slot, confirmation_count |-> 1]

last_locked_out_slot(v) == v.slot + lockout(v.confirmation_count)

is_locked_out_at_slot(v, slot) == last_locked_out_slot(v) >= slot

last_voted_slot(votes) == IF votes = << >> THEN NoSlot ELSE votes[Len(votes)].slot

VotedSlots(votes) == {votes[i].slot : i \in DOMAIN votes}

(***************************************************************************)
(* pop_expired_votes pops from the newest end and stops at the first vote  *)
(* still locked out, so what is left is the longest prefix that ends in    *)
(* such a vote.                                                            *)
(***************************************************************************)
PrefixesLockedAt(votes, slot) ==
    {n \in 0 .. Len(votes) : n = 0 \/ is_locked_out_at_slot(votes[n], slot)}

(* Faulty variant: a vote expires one slot early. *)
PopExpiredOneEarly(votes, slot) ==
    SubSeq(votes, 1, Max(PrefixesLockedAt(votes, slot + 1)))

pop_expired_votes(votes, slot) ==
    SubSeq(votes, 1, Max(PrefixesLockedAt(votes, slot)))

(* Faulty variant: a vote that has as many on top of it as before doubles. *)
DoubleOneEarly(votes) ==
    [i \in DOMAIN votes |->
        IF Len(votes) >= (i - 1) + votes[i].confirmation_count
        THEN [votes[i] EXCEPT !.confirmation_count = @ + 1]
        ELSE votes[i]]

(***************************************************************************)
(* A vote's lockout doubles when more votes sit on top of it than it has   *)
(* ever had.  Positions count from 1 here and from 0 in the code.          *)
(***************************************************************************)
double_lockouts(votes) ==
    [i \in DOMAIN votes |->
        IF Len(votes) > (i - 1) + votes[i].confirmation_count
        THEN [votes[i] EXCEPT !.confirmation_count = @ + 1]
        ELSE votes[i]]

(***************************************************************************)
(* process_next_vote_slot on a stack and a root: an old slot is ignored, a *)
(* full stack roots its oldest vote.  "credited" tells whether a vote was  *)
(* rooted, which is when the code increments the credits.                  *)
(***************************************************************************)
process_next_vote_slot(votes, root, slot) ==
    IF slot <= last_voted_slot(votes)
    THEN [votes |-> votes, root |-> root, credited |-> FALSE]
    ELSE LET kept  == pop_expired_votes(votes, slot)
             full  == Len(kept) = MAX_LOCKOUT_HISTORY
             stack == IF full THEN Tail(kept) ELSE kept
         IN  [votes    |-> double_lockouts(Append(stack, LockoutNew(slot))),
              root     |-> IF full THEN kept[1].slot ELSE root,
              credited |-> full]

(***************************************************************************)
(* A vote stack as the code relies on it: slots rise, confirmation counts  *)
(* fall and cover the votes on top of them, and each vote still locks out  *)
(* the slot of the next one.                                               *)
(***************************************************************************)
StackOK(votes) ==
    /\ Len(votes) <= MAX_LOCKOUT_HISTORY
    /\ \A i \in DOMAIN votes :
          votes[i].confirmation_count \in Len(votes) - i + 1 .. MAX_LOCKOUT_HISTORY
    /\ \A i, j \in DOMAIN votes : i < j =>
          /\ votes[i].slot < votes[j].slot
          /\ votes[i].confirmation_count > votes[j].confirmation_count
    /\ \A i \in 1 .. Len(votes) - 1 : is_locked_out_at_slot(votes[i], votes[i + 1].slot)

(***************************************************************************)
(* The checks of process_new_vote_state: whether a whole new stack and     *)
(* root may replace the current ones.                                      *)
(***************************************************************************)
NewStateWellFormed(new_votes, new_root) ==
    /\ Len(new_votes) \in 1 .. MAX_LOCKOUT_HISTORY
    /\ \A i \in DOMAIN new_votes :
          /\ new_votes[i].confirmation_count \in 1 .. MAX_LOCKOUT_HISTORY
          /\ new_root \notin {NoSlot, 0} => new_votes[i].slot > new_root
    /\ \A i \in 1 .. Len(new_votes) - 1 :
          /\ new_votes[i].slot < new_votes[i + 1].slot
          /\ new_votes[i].confirmation_count > new_votes[i + 1].confirmation_count
          /\ is_locked_out_at_slot(new_votes[i], new_votes[i + 1].slot)

(* Each current vote above the new root is met by the first new vote at or *)
(* above its slot: the same vote confirmed no less, or one that expired it.*)
NoRollback(votes, new_votes, new_root) ==
    \A i \in DOMAIN votes :
        votes[i].slot > new_root =>
            \E j \in DOMAIN new_votes :
                /\ \A k \in 1 .. j - 1 : new_votes[k].slot < votes[i].slot
                /\ \/ /\ new_votes[j].slot = votes[i].slot
                      /\ new_votes[j].confirmation_count >= votes[i].confirmation_count
                   \/ /\ new_votes[j].slot > votes[i].slot
                      /\ ~is_locked_out_at_slot(votes[i], new_votes[j].slot)

process_new_vote_state_accepts(votes, root, new_votes, new_root) ==
    /\ new_root >= root
    /\ NewStateWellFormed(new_votes, new_root)
    /\ last_voted_slot(new_votes) > last_voted_slot(votes)
    /\ NoRollback(votes, new_votes, new_root)
=============================================================================
