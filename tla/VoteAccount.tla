---------------------------- MODULE VoteAccount ----------------------------
(***************************************************************************)
(* One vote account on one fork of the ledger: the instructions of the     *)
(* vote program (programs/vote/src/vote_state/mod.rs, vote_instruction.rs  *)
(* and authorized_voters.rs), executed one at a time in a sequence of      *)
(* banks, each the child of the one before.                                *)
(*                                                                         *)
(* An instruction that returns an error changes nothing, so an error path  *)
(* is a guard that is false; only a failed assertion and an account too    *)
(* small for its state are recorded, in the variable fault.                *)
(*                                                                         *)
(* The bank hash of a slot is abstracted to the slot: on one fork a slot   *)
(* has one hash, and NoSlot stands for a hash that no ancestor has.        *)
(***************************************************************************)
EXTENDS Lockouts

CONSTANTS
    MAX_EPOCH_CREDITS_HISTORY,          \* entries of epoch_credits
    MAX_ITEMS,                          \* entries of prior_voters
    MAX_SLOT_HASHES,                    \* entries of the SlotHashes sysvar
    MAX_LEADER_SCHEDULE_EPOCH_OFFSET,   \* sizes the account's data
    SlotsPerEpoch, LeaderScheduleSlotOffset,
    Features,                           \* the feature gates that are active
    Keys, NoKey,                        \* public keys, and Pubkey::default()
    Commissions,
    MinimumBalance,                     \* rent exemption of the account
    MaxSlot, MaxSkip, MaxVoteSlots, Timestamps, MaxLamports    \* bounds

ASSUME EpochAssumption ==
    /\ SlotsPerEpoch \in Nat \ {0}
    /\ LeaderScheduleSlotOffset \in Nat
    /\ NoKey \notin Keys

(***************************************************************************)
(* size_of has room for MAX_LEADER_SCHEDULE_EPOCH_OFFSET + 1 authorized    *)
(* voters, so the leader schedule may be fixed at most one epoch less than *)
(* that offset ahead, as in the tests of vote_state/mod.rs.  The assertion *)
(* in core/src/validator.rs lets a genesis set it one epoch further.       *)
(***************************************************************************)
ASSUME SizeAssumption ==
    /\ MAX_EPOCH_CREDITS_HISTORY \in Nat \ {0}
    /\ MAX_ITEMS \in Nat \ {0}
    /\ MAX_SLOT_HASHES \in Nat \ {0}
    /\ MAX_LEADER_SCHEDULE_EPOCH_OFFSET \in Nat \ {0}
    /\ LeaderScheduleSlotOffset <= (MAX_LEADER_SCHEDULE_EPOCH_OFFSET - 1) * SlotsPerEpoch

ASSUME BoundsAssumption ==
    MaxSlot \in Nat \ {0} /\ MaxSkip \in Nat /\ MaxVoteSlots \in Nat /\ MaxLamports \in Nat

VARIABLES
    vote_state,     \* the account's data, a VoteState
    lamports,       \* the account's balance
    slot,           \* the slot of the bank that executes instructions
    slot_hashes,    \* the SlotHashes sysvar of that bank, as a set of slots
    fault,          \* "none", a failed assertion, or a state that did not fit
    rooted,         \* history: votes rooted since the account was initialized
    voter_history   \* history: the voter of each epoch since initialization

vars == <<vote_state, lamports, slot, slot_hashes, fault, rooted, voter_history>>

NoTimestamp == -1
NoVoters == [e \in {} |-> NoKey]

-----------------------------------------------------------------------------
(* The clock sysvar and the epoch schedule, without warm-up epochs. *)

get_epoch(s) == s \div SlotsPerEpoch

get_leader_schedule_epoch(s) == (s + LeaderScheduleSlotOffset) \div SlotsPerEpoch

epoch == get_epoch(slot)
leader_schedule_epoch == get_leader_schedule_epoch(slot)

-----------------------------------------------------------------------------
(* AuthorizedVoters: a map from epochs to keys. *)

EpochsUpTo(voters, e) == {x \in DOMAIN voters : x <= e}

HasAuthorizedVoter(voters, e) == EpochsUpTo(voters, e) # {}

get_authorized_voter(voters, e) == voters[Max(EpochsUpTo(voters, e))]

(* Caches the voter of the epoch, then purges the epochs before it. *)
get_and_update_authorized_voter(voters, e) ==
    [x \in {y \in DOMAIN voters \cup {e} : y >= e} |->
        IF x = e THEN get_authorized_voter(voters, e) ELSE voters[x]]

Insert(voters, e, key) ==
    [x \in DOMAIN voters \cup {e} |-> IF x = e THEN key ELSE voters[x]]

-----------------------------------------------------------------------------
(* VoteState. *)

DefaultState ==
    [node_pubkey |-> NoKey, authorized_withdrawer |-> NoKey, commission |-> 0,
     votes |-> << >>, root_slot |-> NoSlot, authorized_voters |-> NoVoters,
     prior_voters |-> << >>, epoch_credits |-> << >>,
     last_timestamp |-> [slot |-> 0, timestamp |-> 0]]

VoteStateNew(init, e) ==
    [DefaultState EXCEPT
        !.node_pubkey = init.node_pubkey,
        !.authorized_voters = [x \in {e} |-> init.authorized_voter],
        !.authorized_withdrawer = init.authorized_withdrawer,
        !.commission = init.commission]

is_uninitialized(vs) == DOMAIN vs.authorized_voters = {}

(* Bytes of the parts whose size varies, as bincode writes them. *)
SerializedSize(vs) ==
    12 * Len(vs.votes) + 24 * Len(vs.epoch_credits)
      + 40 * Cardinality(DOMAIN vs.authorized_voters)
      + (IF vs.root_slot = NoSlot THEN 1 ELSE 9)

size_of ==
    12 * MAX_LOCKOUT_HISTORY + 24 * MAX_EPOCH_CREDITS_HISTORY
      + 40 * (MAX_LEADER_SCHEDULE_EPOCH_OFFSET + 1) + 9

credits(vs) == IF vs.epoch_credits = << >> THEN 0 ELSE vs.epoch_credits[Len(vs.epoch_credits)].credits

CircBufAppend(buf, item) ==
    IF Len(buf) = MAX_ITEMS THEN Append(Tail(buf), item) ELSE Append(buf, item)

EpochCredits(e, c, p) == [epoch |-> e, credits |-> c, prev_credits |-> p]

(* Makes room for the epoch, drops the oldest entry, and counts one credit. *)
increment_credits(ec, e) ==
    LET last  == ec[Len(ec)]
        moved == CASE ec = << >> -> <<EpochCredits(e, 0, 0)>>
                   [] ec # << >> /\ last.epoch = e -> ec
                   [] ec # << >> /\ last.epoch # e /\ last.credits # last.prev_credits ->
                        Append(ec, EpochCredits(e, last.credits, last.credits))
                   [] OTHER -> [ec EXCEPT ![Len(ec)].epoch = e]
        fit   == IF Len(moved) > MAX_EPOCH_CREDITS_HISTORY THEN Tail(moved) ELSE moved
    IN  [fit EXCEPT ![Len(fit)].credits = @ + 1]

(* One slot of a vote, with the credit that rooting a vote earns. *)
ProcessVoteSlot(run, s, e) ==
    LET r == process_next_vote_slot(run.votes, run.root_slot, s)
    IN  [votes         |-> r.votes,
         root_slot     |-> r.root,
         epoch_credits |-> IF r.credited THEN increment_credits(run.epoch_credits, e)
                           ELSE run.epoch_credits,
         rooted        |-> IF r.credited THEN run.rooted + 1 ELSE run.rooted]

(* The slots of a vote, one after the other. *)
ProcessVoteSlots(start, slots, e) ==
    LET run[n \in 0 .. Len(slots)] ==
          IF n = 0 THEN start ELSE ProcessVoteSlot(run[n - 1], slots[n], e)
    IN  run[Len(slots)]

(* Where the vote has slots newer than the last vote. *)
NewSlots(vs, vote) == {i \in DOMAIN vote.slots : vote.slots[i] > last_voted_slot(vs.votes)}

(***************************************************************************)
(* check_slots_are_valid walks the vote's slots and the slot hashes from   *)
(* the oldest to the newest.  It succeeds when the slots newer than the    *)
(* last vote are slots of this fork in increasing order and the hash is    *)
(* the one of the last of them; slots that are not newer are skipped, but  *)
(* only while there are slot hashes left to compare with.                  *)
(***************************************************************************)
check_slots_are_valid(vs, vote) ==
    LET new  == NewSlots(vs, vote)
        last == vote.slots[Max(new)]
    IN  /\ new # {}
        /\ \A i \in new : vote.slots[i] \in slot_hashes
        /\ \A i, j \in new : i < j => vote.slots[i] < vote.slots[j]
        /\ vote.hash = last
        /\ last = Max(slot_hashes) => vote.slots[Len(vote.slots)] = last

process_timestamp_ok(vs, s, ts) ==
    LET last == vs.last_timestamp
    IN  /\ s >= last.slot /\ ts >= last.timestamp
        /\ s = last.slot /\ last.slot # 0 => ts = last.timestamp

Initialized == ~is_uninitialized(vote_state)

(* Writing the state back fails when it outgrows the account's data. *)
set_state(vs) ==
    IF SerializedSize(vs) > size_of
    THEN fault' = "AccountDataTooSmall" /\ UNCHANGED vote_state
    ELSE vote_state' = vs /\ UNCHANGED fault

-----------------------------------------------------------------------------
(* The instructions. *)

InitializeAccount(init, signers) ==
    /\ lamports >= MinimumBalance
    /\ ~Initialized
    /\ init.node_pubkey \in signers
    /\ set_state(VoteStateNew(init, epoch))
    /\ rooted' = 0
    /\ voter_history' = [e \in {epoch} |-> init.authorized_voter]
    /\ UNCHANGED <<lamports, slot, slot_hashes>>

Vote(vote, signers) ==
    /\ Initialized
    /\ HasAuthorizedVoter(vote_state.authorized_voters, epoch)
    /\ get_authorized_voter(vote_state.authorized_voters, epoch) \in signers
    /\ vote.slots # << >>
    /\ check_slots_are_valid(vote_state, vote)
    /\ LET voters == get_and_update_authorized_voter(vote_state.authorized_voters, epoch)
           voted  == ProcessVoteSlots([votes         |-> vote_state.votes,
                                       root_slot     |-> vote_state.root_slot,
                                       epoch_credits |-> vote_state.epoch_credits,
                                       rooted        |-> rooted], vote.slots, epoch)
           new    == [vote_state EXCEPT !.authorized_voters = voters,
                                        !.votes = voted.votes,
                                        !.root_slot = voted.root_slot,
                                        !.epoch_credits = voted.epoch_credits]
           newest == Max(Range(vote.slots))
       IN  /\ \/ /\ vote.timestamp = NoTimestamp
                 /\ set_state(new)
              \/ /\ vote.timestamp # NoTimestamp
                 /\ process_timestamp_ok(vote_state, newest, vote.timestamp)
                 /\ set_state([new EXCEPT !.last_timestamp =
                                  [slot |-> newest, timestamp |-> vote.timestamp]])
           /\ rooted' = IF fault' = fault THEN voted.rooted ELSE rooted
    /\ UNCHANGED <<lamports, slot, slot_hashes, voter_history>>

(* Faulty variant: the change takes effect one epoch early. *)
TargetEpochTooSoon == leader_schedule_epoch

target_epoch == leader_schedule_epoch + 1

(* Where the ranges of the prior voters end. *)
PriorUntil(prior) == IF prior = << >> THEN 0 ELSE prior[Len(prior)].until

PriorVoter(key, from, until) == [key |-> key, from |-> from, until |-> until]

(* Faulty variant: the voter being appointed is remembered, not the old one. *)
RememberNewVoter(vs, voters, key) ==
    IF voters[Max(DOMAIN voters)] = key THEN vs.prior_voters
    ELSE CircBufAppend(vs.prior_voters,
            PriorVoter(key,
                       PriorUntil(vs.prior_voters),
                       target_epoch))

RememberPriorVoter(vs, voters, key) ==
    LET latest == voters[Max(DOMAIN voters)]
    IN  IF latest = key THEN vs.prior_voters
        ELSE CircBufAppend(vs.prior_voters,
                PriorVoter(latest,
                           PriorUntil(vs.prior_voters),
                           target_epoch))

TooSoonToReauthorize(voters) == target_epoch \in DOMAIN voters

AuthorizeVoter(key, signers) ==
    LET old    == vote_state.authorized_voters
        voters == get_and_update_authorized_voter(old, epoch)
        withdrawer_signed ==
            /\ "vote_withdraw_authority_may_change_authorized_voter" \in Features
            /\ vote_state.authorized_withdrawer \in signers
    IN  /\ HasAuthorizedVoter(old, epoch)
        /\ withdrawer_signed \/ get_authorized_voter(old, epoch) \in signers
        /\ ~TooSoonToReauthorize(voters)
        /\ IF voters[Max(DOMAIN voters)] # key /\ target_epoch <= Max(DOMAIN voters)
           THEN fault' = "assertion" /\ UNCHANGED vote_state
           ELSE set_state([vote_state EXCEPT
                    !.prior_voters = RememberPriorVoter(vote_state, voters, key),
                    !.authorized_voters = Insert(voters, target_epoch, key)])
        /\ UNCHANGED <<lamports, slot, slot_hashes, rooted, voter_history>>

AuthorizeWithdrawer(key, signers) ==
    /\ vote_state.authorized_withdrawer \in signers
    /\ set_state([vote_state EXCEPT !.authorized_withdrawer = key])
    /\ UNCHANGED <<lamports, slot, slot_hashes, rooted, voter_history>>

UpdateValidatorIdentity(node, signers) ==
    /\ vote_state.authorized_withdrawer \in signers
    /\ node \in signers
    /\ set_state([vote_state EXCEPT !.node_pubkey = node])
    /\ UNCHANGED <<lamports, slot, slot_hashes, rooted, voter_history>>

UpdateCommission(commission, signers) ==
    /\ vote_state.authorized_withdrawer \in signers
    /\ set_state([vote_state EXCEPT !.commission = commission])
    /\ UNCHANGED <<lamports, slot, slot_hashes, rooted, voter_history>>

reject_active_vote_account_close ==
    /\ "reject_vote_account_close_unless_zero_credit_epoch" \in Features
    /\ vote_state.epoch_credits # << >>
    /\ epoch - vote_state.epoch_credits[Len(vote_state.epoch_credits)].epoch < 2

remaining_balance_ok(amount) ==
    "reject_non_rent_exempt_vote_withdraws" \in Features =>
        lamports - amount >= MinimumBalance

(* Closing the account resets its state; a partial withdrawal must leave it *)
(* rent exempt.                                                             *)
Withdraw(amount, signers) ==
    /\ vote_state.authorized_withdrawer \in signers
    /\ amount <= lamports
    /\ \/ /\ amount = lamports
          /\ ~reject_active_vote_account_close
          /\ set_state(DefaultState)
          /\ rooted' = 0
          /\ voter_history' = NoVoters
       \/ /\ amount < lamports
          /\ remaining_balance_ok(amount)
          /\ UNCHANGED <<vote_state, fault, rooted, voter_history>>
    /\ lamports' = lamports - amount
    /\ UNCHANGED <<slot, slot_hashes>>

(* A transfer to the account, or its creation anew after it was closed. *)
Deposit(amount) ==
    /\ lamports + amount <= MaxLamports
    /\ lamports' = lamports + amount
    /\ UNCHANGED <<vote_state, slot, slot_hashes, fault, rooted, voter_history>>

Newest(slots, n) == {s \in slots : Cardinality({t \in slots : t >= s}) <= n}

(* The child bank at slot s: its clock and slot hashes follow. *)
NextBank(s) ==
    /\ s <= MaxSlot
    /\ slot' = s
    /\ slot_hashes' = Newest(slot_hashes \cup {slot}, MAX_SLOT_HASHES)
    /\ voter_history' =
          IF Initialized
          THEN Insert(voter_history, get_epoch(s),
                      get_authorized_voter(vote_state.authorized_voters, get_epoch(s)))
          ELSE voter_history
    /\ UNCHANGED <<vote_state, lamports, fault, rooted>>

-----------------------------------------------------------------------------
Inits == [node_pubkey : Keys, authorized_voter : Keys,
          authorized_withdrawer : Keys, commission : Commissions]

(* Votes for slots of this fork and for skipped ones, with the hash of one *)
(* of these slots or of none.                                              *)
Votes ==
    UNION {[slots : {slots}, hash : Range(slots) \cup {NoSlot},
            timestamp : {NoTimestamp} \cup Timestamps] :
           slots \in UNION {[1 .. n -> 0 .. slot - 1] : n \in 0 .. MaxVoteSlots}}

Init ==
    /\ vote_state = DefaultState
    /\ lamports = 0
    /\ slot = 1
    /\ slot_hashes = {0}
    /\ fault = "none"
    /\ rooted = 0
    /\ voter_history = NoVoters

Next ==
    \/ \E signers \in SUBSET Keys :
          \/ \E init \in Inits : InitializeAccount(init, signers)
          \/ \E vote \in Votes : Vote(vote, signers)
          \/ \E key \in Keys : \/ AuthorizeVoter(key, signers)
                              \/ AuthorizeWithdrawer(key, signers)
                              \/ UpdateValidatorIdentity(key, signers)
          \/ \E commission \in Commissions : UpdateCommission(commission, signers)
          \/ \E amount \in 1 .. lamports : Withdraw(amount, signers)
    \/ \E amount \in 1 .. MaxLamports : Deposit(amount)
    \/ \E skipped \in 0 .. MaxSkip : NextBank(slot + 1 + skipped)

Spec == Init /\ [][Next]_vars

-----------------------------------------------------------------------------
(* The state and the history variables have the types of the code's fields. *)
TypeOK ==
    /\ vote_state.node_pubkey \in Keys \cup {NoKey}
    /\ vote_state.authorized_withdrawer \in Keys \cup {NoKey}
    /\ vote_state.commission \in Commissions \cup {0}
    /\ \A i \in DOMAIN vote_state.votes : vote_state.votes[i] \in Lockout
    /\ vote_state.root_slot \in Nat \cup {NoSlot}
    /\ vote_state.authorized_voters \in
          [DOMAIN vote_state.authorized_voters -> Keys]
    /\ Len(vote_state.prior_voters) <= MAX_ITEMS
    /\ Len(vote_state.epoch_credits) <= MAX_EPOCH_CREDITS_HISTORY
    /\ lamports \in 0 .. MaxLamports
    /\ slot \in 0 .. MaxSlot /\ slot_hashes \subseteq 0 .. slot - 1
    /\ fault \in {"none", "assertion", "AccountDataTooSmall"}
    /\ rooted \in Nat

(***************************************************************************)
(* The stack that voting builds slot by slot is one the comment above      *)
(* process_new_vote_state calls well formed: slots increase, confirmations *)
(* decrease, every vote is still locked out at the next one; and a vote is *)
(* confirmed at least once for each vote on top of it.                     *)
(***************************************************************************)
VoteStackOK ==
    LET votes == vote_state.votes
    IN  votes # << >> =>
            /\ NewStateWellFormed(votes, vote_state.root_slot)
            /\ \A i \in DOMAIN votes :
                  votes[i].confirmation_count >= Len(votes) - i + 1

(* Whatever slots a vote lists, only banks of this fork end up in the stack: *)
(* check_slots_are_valid looks at the new slots only, process_vote at all.   *)
VotesOnThisFork ==
    \A s \in VotedSlots(vote_state.votes) :
        s >= Min(slot_hashes) => s \in slot_hashes

(***************************************************************************)
(* However many slots a vote carries, process_vote never rolls back: the   *)
(* state after it is one that process_new_vote_state would accept in place *)
(* of the state before it.                                                 *)
(***************************************************************************)
VotesNeverRollBack ==
    [][vote_state'.votes \notin {vote_state.votes, << >>} =>
           process_new_vote_state_accepts(vote_state.votes, vote_state.root_slot,
                                          vote_state'.votes, vote_state'.root_slot)]_vars

(***************************************************************************)
(* increment_credits counts the rooted votes: the total is the number of   *)
(* votes rooted since initialization, the epochs increase, and an entry    *)
(* starts from the total at which the one before it ended.                 *)
(***************************************************************************)
CreditsCountRoots ==
    LET ec == vote_state.epoch_credits
    IN  /\ credits(vote_state) = rooted
        /\ \A i \in DOMAIN ec : ec[i].credits > ec[i].prev_credits
        /\ \A i \in 1 .. Len(ec) - 1 :
              /\ ec[i].epoch < ec[i + 1].epoch
              /\ ec[i].credits = ec[i + 1].prev_credits

(***************************************************************************)
(* set_new_authorized_voter remembers who could vote when: the ranges of   *)
(* prior_voters are disjoint and adjacent, and in an epoch inside one the  *)
(* voter was the one remembered; after the last one it is the latest voter.*)
(***************************************************************************)
PriorVotersTruthful ==
    LET prior == vote_state.prior_voters
        av    == vote_state.authorized_voters
    IN  /\ \A i \in 1 .. Len(prior) - 1 : prior[i].until = prior[i + 1].from
        /\ \A e \in DOMAIN voter_history :
              /\ \A i \in DOMAIN prior :
                    e \in prior[i].from .. prior[i].until - 1 =>
                        voter_history[e] = prior[i].key
              /\ e >= PriorUntil(prior) =>
                    voter_history[e] = av[Max(DOMAIN av)]

(***************************************************************************)
(* A change of the authorized voter takes effect only after the epochs     *)
(* whose leader schedule is already fixed: while the account exists no     *)
(* instruction changes the voter of the current epoch or of an epoch up to *)
(* leader_schedule_epoch.                                                  *)
(***************************************************************************)
ScheduledVotersFixed ==
    [][Initialized /\ Initialized' =>
           \A e \in epoch' .. leader_schedule_epoch :
               get_authorized_voter(vote_state'.authorized_voters, e)
                 = get_authorized_voter(vote_state.authorized_voters, e)]_vars

(* The assertion of set_new_authorized_voter, that the epoch of the change *)
(* is later than every epoch with a voter, never fails.                    *)
NoAssertionFails == fault # "assertion"

(* The comment of size_of calls it the "Upper limit on the size of the     *)
(* Vote State": no instruction fails because its result does not fit.      *)
StateAlwaysFits == fault # "AccountDataTooSmall"

(* What every vote relies on (process_vote, process_slot and the instructions *)
(* around it): the stack is well formed and on this fork, the credits count   *)
(* its roots, the voters remembered are those who could vote, and neither the *)
(* assertion nor the size of the account stops an instruction.                *)
VotesOK ==
    /\ TypeOK
    /\ VoteStackOK
    /\ VotesOnThisFork
    /\ CreditsCountRoots
    /\ PriorVotersTruthful
    /\ NoAssertionFails
    /\ StateAlwaysFits

=============================================================================
