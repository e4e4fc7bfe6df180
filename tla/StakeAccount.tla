----------------------------- MODULE StakeAccount -----------------------------
(***************************************************************************)
(* Stake accounts, the stake history and the bank's cache of stakes along  *)
(* one fork: the instructions of the stake program                         *)
(* (programs/stake/src/stake_state.rs), the warm-up and cool-down of a     *)
(* delegation (sdk/program/src/stake/state.rs), the boundary between two   *)
(* epochs with its rewards, and Stakes (runtime/src/stakes.rs), which is   *)
(* kept up to date account by account.                                     *)
(*                                                                         *)
(* Lockups are by epoch only; the time of day is compared the same way.    *)
(* The features of the repository are active.  The rest of the cluster is  *)
(* other_stake, effective from the start, which earns other_points an      *)
(* epoch.                                                                  *)
(***************************************************************************)
EXTENDS Integers, FiniteSetsExt

CONSTANTS
    Accounts,     \* addresses of stake accounts
    Rate,         \* warmup_cooldown_rate is 1 / Rate
    None,         \* no entry
    Scenarios     \* clusters and what may happen to them, see Scenario

(***************************************************************************)
(* keys are authorities and custodians, voters the vote accounts, of which *)
(* the closable may be closed, reserve is rent_exempt_reserve, funds what  *)
(* is in the wallet at the start and commission a percentage.  Lamports    *)
(* are withdrawn to destinations, where None is the wallet; deposits are   *)
(* sent to an account until epoch last_deposit; amounts are split or       *)
(* withdrawn, apart from all and all that is free.  An epoch's inflation   *)
(* is one of rewards, and lockups end in lockup_epochs.                    *)
(***************************************************************************)
Scenario(s) ==
    /\ Accounts \cap s.keys = {} /\ None \notin s.voters /\ s.closable \subseteq s.voters
    /\ s.reserve \in Nat \ {0} /\ s.commission \in 0..100
    /\ s.deposits \subseteq Nat \ {0} /\ s.amounts \subseteq Nat
    /\ s.destinations \subseteq Accounts \cup {None}
    /\ s.rewards \subseteq Nat /\ s.lockup_epochs \subseteq Nat
    /\ {s.funds, s.other_stake, s.other_points, s.last_deposit, s.MaxEpoch, s.MaxCredits, s.MaxSplits} \subseteq Nat

ASSUME StakeAssumption == Rate \in Nat \ {0} /\ \A s \in Scenarios : Scenario(s)

VARIABLES
    scenario,          \* one of Scenarios, for good
    epoch,
    lamports,          \* of every stake account
    state,             \* StakeState of every stake account
    wallet,            \* lamports outside stake accounts
    stake_history,     \* an entry for every earlier epoch
    stake_delegations, \* Stakes: the cached delegation of an account, or None
    vote_accounts,     \* Stakes: the cached stake of a vote account, or None
    credits,           \* credits a vote account earned in each epoch
    owed, paid,        \* history: points earned epoch by epoch, points redeemed
    splits,            \* history: how many splits there were, which bounds them
    overdrawn          \* history: a stake that was partly withdrawn was split or taken back

bank == <<lamports, state, wallet>>
cache == <<stake_delegations, vote_accounts>>
history_vars == <<owed, paid, splits, overdrawn>>
vars == <<scenario, epoch, bank, stake_history, cache, credits, history_vars>>

Keys == scenario.keys
Voters == scenario.voters
Reserve == scenario.reserve
Commission == scenario.commission
MaxEpoch == scenario.MaxEpoch

Epochs == 0..MaxEpoch
Never == MaxEpoch + 10     \* Epoch::MAX
Everyone == Keys \cup Accounts

Sum(f(_), S) == MapThenSumSet(f, S)
SatSub(m, n) == IF m > n THEN m - n ELSE 0

-----------------------------------------------------------------------------
(* StakeState.  Initialized(meta) has no stake, Stake(meta, stake) has both.*)

Lockups == [epoch : scenario.lockup_epochs \cup {0}, custodian : Keys]
Metas == [staker : Keys, withdrawer : Keys, lockup : Lockups]
Stakes == [voter : Voters, stake : Nat, activation : Epochs,
           deactivation : Epochs \cup {Never}, credits_observed : Nat]

Uninitialized == [kind |-> "Uninitialized"]
Initialized(meta) == [kind |-> "Initialized", meta |-> meta]
Delegated(meta, stake) == [kind |-> "Stake", meta |-> meta, stake |-> stake]

HasMeta(s) == s.kind # "Uninitialized"
HasStake(s) == s.kind = "Stake"

(* Lockup::is_in_force, for one who is not the custodian.                  *)
InForce(lockup) == lockup.epoch > epoch

-----------------------------------------------------------------------------
(* Warm-up and cool-down.  A delegation takes part of what the cluster may *)
(* activate in an epoch, at least one lamport.                             *)

Portion(mine, cluster, effective) == Max({1, (mine * effective) \div (cluster * Rate)})

(* One round of the loop in stake_and_activating, where h is the     *)
(* entry of the epoch before.                                              *)
WarmStep(h, stake, s) ==
    IF s.done \/ h.activating = 0 THEN [s EXCEPT !.done = TRUE]
    ELSE LET grown == s.effective + Portion(stake - s.effective, h.activating, h.effective)
         IN [effective |-> Min({grown, stake}), done |-> grown >= stake]

(* stake_and_activating: what of d is effective at epoch target.           *)
Warmed(history, d, target) ==
    LET last == Min({target, d.deactivation})
        At[e \in d.activation..last] ==
            IF e = d.activation THEN [effective |-> 0, done |-> FALSE]
            ELSE WarmStep(history[e - 1], d.stake, At[e - 1])
    IN IF d.activation = d.deactivation \/ target <= d.activation THEN 0
       ELSE At[last].effective

(* One round of the loop that cools a delegation down.                     *)
CoolStep(h, s) ==
    LET left == SatSub(s.effective, Portion(s.effective, h.deactivating, h.effective))
    IN IF s.done \/ h.deactivating = 0 THEN [s EXCEPT !.done = TRUE]
       ELSE [effective |-> left, done |-> left = 0]

Cooled(history, d, target) ==
    LET At[e \in d.deactivation..target] ==
            IF e = d.deactivation THEN [effective |-> Warmed(history, d, target), done |-> FALSE]
            ELSE CoolStep(history[e - 1], At[e - 1])
    IN At[target].effective

(* stake_activating_and_deactivating                                       *)
StatusAt(history, d, target) ==
    LET effective == IF target <= d.deactivation THEN Warmed(history, d, target) ELSE Cooled(history, d, target)
        activating == IF d.activation = d.deactivation \/ target < d.activation THEN 0
                      ELSE d.stake - effective
    IN IF target < d.deactivation
       THEN [effective |-> effective, activating |-> activating, deactivating |-> 0]
       ELSE [effective |-> effective, activating |-> 0, deactivating |-> effective]

EffectiveAt(history, d, target) == StatusAt(history, d, target).effective

-----------------------------------------------------------------------------
(* Points: for every epoch, the effective stake times the credits that     *)
(* were not observed yet.                                                   *)

CreditsBefore(v, e) == Sum(LAMBDA x : credits[v][x], 0..(e - 1))
Credits(v) == CreditsBefore(v, MaxEpoch + 1)

EarnedCredits(s, e) ==
    LET initial == CreditsBefore(s.voter, e)
        final == initial + credits[s.voter][e]
    IN IF s.credits_observed < initial THEN final - initial
       ELSE SatSub(final, s.credits_observed)

calculate_stake_points(s) == Sum(LAMBDA e : EffectiveAt(stake_history, s, e) * EarnedCredits(s, e), 0..epoch)

(* calculate_stake_rewards: the stake after its reward and what the voter  *)
(* gets, or None.                                                          *)
calculate_stake_rewards(s, rewards, total) ==
    LET points == calculate_stake_points(s)
        share == (points * rewards) \div total
        mine == (share * Commission) \div 100
        theirs == (share * (100 - Commission)) \div 100
        observed == Max({s.credits_observed, Credits(s.voter)})
    IN IF rewards = 0 \/ s.activation = epoch
       THEN [points |-> 0, staker |-> 0, voter |-> 0, credits_observed |-> observed]
       ELSE IF share = 0 \/ (Commission \in 1..99 /\ 0 \in {mine, theirs}) THEN None
       ELSE [points |-> points, staker |-> theirs, voter |-> mine, credits_observed |-> observed]

-----------------------------------------------------------------------------
(* Stakes, the cache.  EffectiveFor is the stake of a vote account by the  *)
(* delegations deleg of the accounts in S.                                 *)

EffectiveFor(v, deleg, S, history, e) ==
    Sum(LAMBDA a : EffectiveAt(history, deleg[a], e), {a \in S : deleg[a] # None /\ deleg[a].voter = v})

(* stake_state::delegation_from; a stake without one is removed from Stakes. *)
DelegationFrom(lam, s, cached) == IF HasStake(s) THEN s.stake ELSE None

(* check_and_store for the accounts that changed: the stake of the old     *)
(* delegation leaves the vote account, that of the new one enters.         *)
UpdateStakes(lam, st, cached, votes, history, e) ==
    LET Changed == {a \in Accounts : <<lam[a], st[a]>> # <<lamports[a], state[a]>>}
        new == [a \in Accounts |-> IF a \in Changed THEN DelegationFrom(lam[a], st[a], cached[a]) ELSE cached[a]]
    IN /\ lamports' = lam /\ state' = st
       /\ stake_delegations' = new
       /\ vote_accounts' = [v \in Voters |->
             IF votes[v] = None THEN None
             ELSE votes[v] - EffectiveFor(v, cached, Changed, history, e)
                           + EffectiveFor(v, new, Changed, history, e)]

(* Part of the stake of an account was withdrawn while the rest of it is   *)
(* still effective.                                                        *)
Short(a) ==
    /\ HasStake(state[a]) /\ lamports[a] < Reserve + state[a].stake.stake
    /\ EffectiveAt(stake_history, state[a].stake, epoch) > 0

(* An instruction leaves the epoch, its history and the votes alone.       *)
Store(lam, st) ==
    /\ overdrawn' = (overdrawn \/ \E a \in Accounts : Short(a) /\ HasStake(st[a]) /\ st[a].stake # state[a].stake)
    /\ UpdateStakes(lam, st, stake_delegations, vote_accounts, stake_history, epoch)
    /\ UNCHANGED <<epoch, stake_history, credits, owed, paid>>

SetState(a, s) == UNCHANGED <<wallet, splits>> /\ Store(lamports, [state EXCEPT ![a] = s])
SetMeta(a, meta) == SetState(a, [state[a] EXCEPT !.meta = meta])

-----------------------------------------------------------------------------
(* Instructions.  signers are the keys that signed the transaction.        *)

initialize(a, meta) ==
    /\ state[a] = Uninitialized
    /\ Reserve < lamports[a]
    /\ SetState(a, Initialized(meta))

(* Authorized::authorize; authorize_with_seed signs with a derived key.     *)
AuthorizeStaker(a, key, signers) ==
    /\ HasMeta(state[a])
    /\ {state[a].meta.staker, state[a].meta.withdrawer} \cap signers # {}
    /\ SetMeta(a, [state[a].meta EXCEPT !.staker = key])

AuthorizeWithdrawer(a, key, signers) ==
    LET meta == state[a].meta IN
    /\ HasMeta(state[a])
    /\ InForce(meta.lockup) => meta.lockup.custodian \in signers
    /\ meta.withdrawer \in signers
    /\ SetMeta(a, [meta EXCEPT !.withdrawer = key])

set_lockup(a, lockup, signers) ==
    LET meta == state[a].meta IN
    /\ HasMeta(state[a])
    /\ IF InForce(meta.lockup) THEN meta.lockup.custodian \in signers
       ELSE meta.withdrawer \in signers
    /\ SetMeta(a, [meta EXCEPT !.lockup = lockup])

NewStake(amount, v) ==
    [voter |-> v, stake |-> amount, activation |-> epoch, deactivation |-> Never,
     credits_observed |-> Credits(v)]

(* A stake that is effective may only take back the deactivation of this   *)
(* epoch.                                                                  *)
redelegate(a, v, amount) ==
    LET s == state[a].stake IN
    IF EffectiveAt(stake_history, s, epoch) # 0
    THEN /\ s.voter = v /\ s.deactivation = epoch
         /\ SetState(a, [state[a] EXCEPT !.stake.deactivation = Never])
    ELSE SetState(a, Delegated(state[a].meta, NewStake(amount, v)))

delegate(a, v, signers) ==
    LET amount == SatSub(lamports[a], Reserve) IN
    /\ HasMeta(state[a]) /\ vote_accounts[v] # None
    /\ state[a].meta.staker \in signers
    /\ IF HasStake(state[a]) THEN redelegate(a, v, amount)
       ELSE SetState(a, Delegated(state[a].meta, NewStake(amount, v)))

deactivate(a, signers) ==
    /\ HasStake(state[a]) /\ state[a].meta.staker \in signers
    /\ state[a].stake.deactivation = Never
    /\ SetState(a, [state[a] EXCEPT !.stake.deactivation = epoch])
(* What a split must leave in each account.  The reserve of the new one is *)
(* what it lacks; a full split leaves nothing behind.                      *)
SplitOK(a, b, amount) ==
    /\ amount > SatSub(Reserve, lamports[b])
    /\ amount = lamports[a] \/ amount + Reserve < lamports[a]

(* The stake that leaves the source, and the stake of the split account.   *)
SplitAmounts(a, b, amount) ==
    IF amount = lamports[a] THEN <<SatSub(amount, Reserve), SatSub(amount, Reserve)>>
    ELSE <<amount, amount - SatSub(Reserve, lamports[b])>>

(* Stake::split: InsufficientStake                                         *)
StakeCovers(s, delta) == delta <= s.stake

split(a, b, amount, signers) ==
    LET s == state[a]
        parts == SplitAmounts(a, b, amount)
        rest == [s EXCEPT !.stake.stake = @ - parts[1]]
        new == CASE HasStake(s) -> [s EXCEPT !.stake.stake = parts[2]] [] OTHER -> s
        left == IF amount = lamports[a] THEN Uninitialized ELSE IF HasStake(s) THEN rest ELSE s
    IN /\ a # b /\ state[b] = Uninitialized /\ amount <= lamports[a]
       /\ IF HasMeta(s) THEN s.meta.staker \in signers /\ SplitOK(a, b, amount) ELSE a \in signers
       /\ HasStake(s) => StakeCovers(s.stake, parts[1])
       /\ splits < scenario.MaxSplits /\ splits' = splits + 1 /\ wallet' = wallet
       /\ Store([lamports EXCEPT ![a] = @ - amount, ![b] = @ + amount],
                [state EXCEPT ![a] = left, ![b] = new])

-----------------------------------------------------------------------------
(* MergeKind::get_if_mergeable: "Transient" stakes are not.                *)
MergeKind(s) ==
    LET h == StatusAt(stake_history, s.stake, epoch)
    IN CASE ~ HasMeta(s) -> "None"
         [] ~ HasStake(s) -> "Inactive"
         [] OTHER -> IF h.effective = 0 /\ h.activating = 0 THEN "Inactive"
                     ELSE IF h.effective = 0 THEN "ActivationEpoch"
                     ELSE IF h.activating = 0 /\ h.deactivating = 0 THEN "FullyActive" ELSE "Transient"

(* Faulty variant: the lockups are not compared.                           *)
MetasMergeAnyLockup(m, n) == m.staker = n.staker /\ m.withdrawer = n.withdrawer

metas_can_merge(m, n) ==
    /\ m.staker = n.staker /\ m.withdrawer = n.withdrawer
    /\ m.lockup = n.lockup \/ (~ InForce(m.lockup) /\ ~ InForce(n.lockup))

active_delegations_can_merge(s, t) ==
    s.voter = t.voter /\ s.deactivation = Never /\ t.deactivation = Never

(* Faulty variant: the merged stake keeps the credits of the destination.  *)
CreditsOfDestination(s, absorbed, observed) == s.credits_observed

(* The average of the credits observed, weighted by stake, rounded up.     *)
stake_weighted_credits_observed(s, absorbed, observed) ==
    IF s.credits_observed = observed THEN observed
    ELSE (s.credits_observed * s.stake + observed * absorbed + s.stake + absorbed - 1) \div (s.stake + absorbed)

Absorb(s, absorbed, observed) ==
    [s EXCEPT !.stake = @ + absorbed,
              !.credits_observed = stake_weighted_credits_observed(s, absorbed, observed)]

(* MergeKind::merge: what becomes of the destination's state, for the      *)
(* kinds of pairs that may be merged.                                      *)
Merged(s, t, source_lamports) ==
    LET kinds == <<MergeKind(s), MergeKind(t)>> IN
    CASE kinds[1] = "Inactive" -> s
      [] kinds = <<"ActivationEpoch", "Inactive">> -> [s EXCEPT !.stake.stake = @ + source_lamports]
      [] kinds = <<"ActivationEpoch", "ActivationEpoch">> ->
            [s EXCEPT !.stake = Absorb(@, Reserve + t.stake.stake, t.stake.credits_observed)]
      [] OTHER -> [s EXCEPT !.stake = Absorb(@, t.stake.stake, t.stake.credits_observed)]

MergePairs ==
    {<<"FullyActive", "FullyActive">>, <<"Inactive", "ActivationEpoch">>}
        \cup {<<k, "Inactive">> : k \in {"Inactive", "ActivationEpoch"}} \cup {<<"ActivationEpoch", "ActivationEpoch">>}

merge(a, b, signers) ==
    LET s == state[a]
        t == state[b]
        kinds == <<MergeKind(s), MergeKind(t)>>
    IN /\ a # b /\ kinds \in MergePairs
       /\ s.meta.staker \in signers
       /\ metas_can_merge(s.meta, t.meta)
       /\ "Inactive" \notin {kinds[1], kinds[2]} => active_delegations_can_merge(s.stake, t.stake)
       /\ UNCHANGED <<wallet, splits>>
       /\ Store([lamports EXCEPT ![a] = @ + lamports[b], ![b] = 0],
                [state EXCEPT ![a] = Merged(s, t, lamports[b]), ![b] = Uninitialized])
-----------------------------------------------------------------------------
(* What a withdrawal must leave: the stake that is or may become effective *)
(* and the reserve.                                                        *)
Staked(s) == IF epoch >= s.deactivation THEN EffectiveAt(stake_history, s, epoch) ELSE s.stake

WithdrawReserve(s) ==
    CASE HasStake(s) -> Staked(s.stake) + Reserve
      [] s.kind = "Initialized" -> Reserve + 1
      [] OTHER -> 0

(* to is another stake account, the same one, or None for the wallet.      *)
withdraw(a, to, amount, signers) ==
    LET s == state[a]
        is_staked == HasStake(s) /\ Staked(s.stake) # 0
        lam == [lamports EXCEPT ![a] = @ - amount]
    IN /\ amount <= lamports[a]
       /\ IF HasMeta(s)
          THEN /\ s.meta.withdrawer \in signers
               /\ InForce(s.meta.lockup) => s.meta.lockup.custodian \in signers
          ELSE a \in signers
       /\ amount + WithdrawReserve(s) > lamports[a] => ~ is_staked /\ amount = lamports[a]
       /\ UNCHANGED splits
       /\ wallet' = IF to = None THEN wallet + amount ELSE wallet
       /\ Store(IF to = None THEN lam ELSE [lam EXCEPT ![to] = @ + amount],
                IF amount = lamports[a] THEN [state EXCEPT ![a] = Uninitialized] ELSE state)

(* Anyone may send lamports to an account.                                 *)
Transfer(a, amount) ==
    /\ amount <= wallet /\ epoch <= scenario.last_deposit
    /\ wallet' = wallet - amount /\ UNCHANGED splits
    /\ Store([lamports EXCEPT ![a] = @ + amount], state)

AmountsOf(a) ==
    (scenario.amounts \cup {lamports[a], SatSub(lamports[a], WithdrawReserve(state[a]))}) \cap 1..lamports[a]

Instruction(signers) ==
    \E a \in Accounts :
        \/ \E meta \in Metas : initialize(a, meta)
        \/ \E key \in Keys : AuthorizeStaker(a, key, signers) \/ AuthorizeWithdrawer(a, key, signers)
        \/ \E lockup \in Lockups : set_lockup(a, lockup, signers)
        \/ \E v \in Voters : delegate(a, v, signers)
        \/ deactivate(a, signers)
        \/ \E b \in Accounts, n \in AmountsOf(a) : split(a, b, n, signers)
        \/ \E b \in Accounts : merge(a, b, signers)
        \/ \E to \in scenario.destinations, n \in AmountsOf(a) : withdraw(a, to, n, signers)
        \/ \E n \in scenario.deposits : Transfer(a, n)

-----------------------------------------------------------------------------
(* Votes earn a credit.                                                    *)
EarnCredit(v) ==
    /\ vote_accounts[v] # None /\ credits[v][epoch] < scenario.MaxCredits
    /\ credits' = [credits EXCEPT ![v][epoch] = @ + 1]
    /\ UNCHANGED <<epoch, bank, stake_history, cache, history_vars>>

(* update_vote_account: a vote account is closed, or a new one is opened at *)
(* its address and gets the stake that is still delegated to it.           *)
CloseVoteAccount(v) ==
    /\ v \in scenario.closable /\ vote_accounts[v] # None
    /\ vote_accounts' = [vote_accounts EXCEPT ![v] = None]
    /\ credits' = [credits EXCEPT ![v] = [e \in Epochs |-> 0]]
    /\ UNCHANGED <<epoch, bank, stake_history, stake_delegations, history_vars>>

OpenVoteAccount(v) ==
    /\ vote_accounts[v] = None
    /\ vote_accounts' = [vote_accounts EXCEPT ![v] = EffectiveFor(v, stake_delegations, Accounts, stake_history, epoch)]
    /\ UNCHANGED <<epoch, bank, stake_history, stake_delegations, credits, history_vars>>

(* The entry activate_epoch adds to the history for the epoch that ends.   *)
HistoryEntry ==
    LET Delegs == {a \in Accounts : stake_delegations[a] # None}
        Status(a) == StatusAt(stake_history, stake_delegations[a], epoch)
    IN [effective |-> scenario.other_stake + Sum(LAMBDA a : Status(a).effective, Delegs),
        activating |-> Sum(LAMBDA a : Status(a).activating, Delegs),
        deactivating |-> Sum(LAMBDA a : Status(a).deactivating, Delegs)]

(* The stakes that pay_validator_rewards pays.                             *)
Rewarded == {a \in Accounts : stake_delegations[a] # None /\ vote_accounts[stake_delegations[a].voter] # None}

EpochPoints(a) ==
    EffectiveAt(stake_history, state[a].stake, epoch) * credits[state[a].stake.voter][epoch]

(* The stake of every vote account by the new history.                     *)
Refreshed(history) ==
    [v \in Voters |-> IF vote_accounts[v] = None THEN None
                     ELSE EffectiveFor(v, stake_delegations, Accounts, history, epoch + 1)]

(* redeem_stake_rewards                                                    *)
Redeem(s, r) == [s EXCEPT !.stake.stake = @ + r.staker, !.stake.credits_observed = r.credits_observed]

(* The first bank of an epoch: activate_epoch refreshes the stake of every  *)
(* vote account by the new history, then the rewards of the old epoch are   *)
(* paid into the stakes.                                                   *)
NextEpoch(rewards) ==
    LET history == [e \in 0..epoch |-> IF e = epoch THEN HistoryEntry ELSE stake_history[e]]
        total == scenario.other_points + Sum(LAMBDA a : calculate_stake_points(state[a].stake), Rewarded)
        result == [a \in Accounts |-> IF a \in Rewarded /\ total > 0
                                       THEN calculate_stake_rewards(state[a].stake, rewards, total) ELSE None]
        Paid == {a \in Accounts : result[a] # None}
    IN /\ epoch < MaxEpoch
       /\ epoch' = epoch + 1
       /\ stake_history' = history
       /\ UpdateStakes([a \in Accounts |-> lamports[a] + IF a \in Paid THEN result[a].staker ELSE 0],
                       [a \in Accounts |-> IF a \in Paid THEN Redeem(state[a], result[a]) ELSE state[a]],
                       stake_delegations, Refreshed(history), history, epoch + 1)
       /\ wallet' = wallet + Sum(LAMBDA a : result[a].voter, Paid)
       /\ owed' = owed + Sum(EpochPoints, Rewarded)
       /\ paid' = paid + Sum(LAMBDA a : result[a].points, Paid)
       /\ UNCHANGED <<credits, splits, overdrawn>>

Init ==
    /\ scenario \in Scenarios
    /\ epoch = 0 /\ wallet = scenario.funds
    /\ lamports = [a \in Accounts |-> 0]
    /\ state = [a \in Accounts |-> Uninitialized]
    /\ stake_history = [e \in {} |-> None]
    /\ stake_delegations = [a \in Accounts |-> None]
    /\ vote_accounts = [v \in Voters |-> 0]
    /\ credits = [v \in Voters |-> [e \in Epochs |-> 0]]
    /\ owed = 0 /\ paid = 0 /\ splits = 0 /\ overdrawn = FALSE

Next ==
    /\ UNCHANGED scenario
    /\ \/ Instruction(Everyone)
       \/ \E v \in Voters : EarnCredit(v) \/ CloseVoteAccount(v) \/ OpenVoteAccount(v)
       \/ \E rewards \in scenario.rewards : NextEpoch(rewards)

Spec == Init /\ [][Next]_vars
-----------------------------------------------------------------------------
(* Properties                                                              *)

(* Types; the lamports of the accounts are within what exists.             *)
TypeOK ==
    /\ scenario \in Scenarios
    /\ epoch \in Epochs /\ wallet \in Nat
    /\ lamports \in [Accounts -> Nat]
    /\ \A a \in Accounts :
        \/ state[a] = Uninitialized
        \/ state[a].kind = "Initialized" /\ state[a].meta \in Metas
        \/ state[a].kind = "Stake" /\ state[a].meta \in Metas /\ state[a].stake \in Stakes
    /\ stake_history \in [0..(epoch - 1) -> [effective : Nat, activating : Nat, deactivating : Nat]]
    /\ stake_delegations \in [Accounts -> Stakes \cup {None}]
    /\ vote_accounts \in [Voters -> Nat \cup {None}]

(* Every lamport of stake that counts in the cluster, now or after warming *)
(* up, is in its account on top of the rent reserve, whatever sequence of  *)
(* delegations, splits, merges, withdrawals and rewards led there; unless  *)
(* a stake was withdrawn in part while it cools down, and was then split   *)
(* or its deactivation taken back.                                         *)
(* The effective part of a stake that was deactivated and then split may   *)
(* be rounded up, by at most one lamport for every epoch.                  *)
StakeBacked ==
    \A a \in Accounts :
        /\ state[a].kind = "Initialized" => lamports[a] > Reserve
        /\ HasStake(state[a]) /\ ~ overdrawn =>
             LET rounding == IF state[a].stake.deactivation = Never THEN 0 ELSE epoch
             IN lamports[a] + rounding >= Reserve + Staked(state[a].stake)

(* The cache the bank updates account by account is what a recomputation   *)
(* from the accounts would give: the stake of every vote account for this  *)
(* epoch, and no delegation of an account that is not a stake any more.    *)
CacheExact ==
    LET actual == [a \in Accounts |-> IF HasStake(state[a]) THEN state[a].stake ELSE None]
    IN /\ stake_delegations = actual
       /\ \A v \in Voters : vote_accounts[v] # None =>
             vote_accounts[v] = EffectiveFor(v, actual, Accounts, stake_history, epoch)

TotalEffective == Sum(LAMBDA v : vote_accounts[v], {v \in Voters : vote_accounts[v] # None})

(* No instruction makes stake effective at once ("magic activation"): the  *)
(* total effective stake of this epoch grows only with the epoch.  A split  *)
(* of a stake that is warming up or cooling down may round up, by at most  *)
(* one lamport for every epoch it took.                                    *)
NoMagicActivation ==
    [][epoch' = epoch /\ (\A v \in Voters : vote_accounts[v] # None) =>
          TotalEffective' <= TotalEffective
              + IF \E a \in Accounts : MergeKind(state[a]) = "Transient" THEN epoch ELSE 0]_vars

LockedFor(c, e) ==
    Sum(LAMBDA a : lamports[a],
        {a \in Accounts : HasMeta(state[a]) /\ state[a].meta.lockup.custodian = c /\ state[a].meta.lockup.epoch >= e})

(* Lamports locked by a custodian until an epoch stay locked until then:   *)
(* no split, merge, withdrawal or change of authorities and lockups that   *)
(* the custodian did not sign takes any of them out.                       *)
LockupHolds ==
    [][\A c \in Keys, e \in (epoch + 1)..(MaxEpoch + 1) :
          epoch' = epoch /\ LockedFor(c, e)' < LockedFor(c, e) => ~ Instruction(Everyone \ {c})]_vars

ControlledBy(w) ==
    Sum(LAMBDA a : lamports[a], {a \in Accounts : HasMeta(state[a]) /\ state[a].meta.withdrawer = w})

(* The staker may delegate, split and merge but not take: what an account's *)
(* withdraw authority controls shrinks only with its signature.            *)
StakerCannotTake ==
    [][\A w \in Keys : ControlledBy(w)' < ControlledBy(w) => ~ Instruction(Everyone \ {w})]_vars

(* No sequence of stake instructions gets around the warm-up, the lockup or *)
(* the withdraw authority.                                                  *)
StakeMovesByRight ==
    /\ NoMagicActivation
    /\ LockupHolds
    /\ StakerCannotTake

(* A vote credit is paid for once per effective lamport: what was redeemed *)
(* and what can still be redeemed is at most what was earned, however      *)
(* stakes were merged, split and redelegated in between.                   *)
PaidOnce ==
    paid + Sum(LAMBDA a : calculate_stake_points(state[a].stake), Rewarded) <= owed + Sum(EpochPoints, Rewarded)

(* Stake is backed by lamports, the bank's cache of it is exact, and credits *)
(* are paid once, whatever is delegated, split, merged, withdrawn and        *)
(* rewarded.                                                                 *)
StakesOK ==
    /\ TypeOK
    /\ StakeBacked
    /\ CacheExact
    /\ PaidOnce
=============================================================================
