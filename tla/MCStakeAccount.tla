--------------------------- MODULE MCStakeAccount ---------------------------
(* StakeAccount for TLC.  Addresses and keys are only compared.            *)
EXTENDS StakeAccount, TLC

CONSTANTS k0, k1, k2, v1, v2

Base ==
    [keys |-> {k0}, voters |-> {v1}, closable |-> {}, reserve |-> 1, funds |-> 4, commission |-> 0,
     destinations |-> {None}, deposits |-> {4}, last_deposit |-> 0, amounts |-> {}, rewards |-> {0},
     lockup_epochs |-> {}, other_stake |-> 100, other_points |-> 0, MaxEpoch |-> 2, MaxCredits |-> 0,
     MaxSplits |-> 1]

(* Enough stake for a few epochs of warm-up. *)
WarmUp ==
    [Base EXCEPT !.reserve = 8, !.funds = 60, !.deposits = {60}, !.amounts = {24}, !.other_stake = 120]

(* Two vote accounts of which one is closed; lamports sent among accounts. *)
TwoVoters ==
    [Base EXCEPT !.voters = {v1, v2}, !.closable = {v1}, !.destinations = Accounts,
                 !.funds = 3, !.deposits = {3}, !.other_stake = 40]

(* Two keys and a lockup. *)
TwoKeys == [Base EXCEPT !.keys = {k1, k2}, !.lockup_epochs = {1}, !.MaxEpoch = 1]

(* Credits, commission and inflation. *)
Inflation ==
    [Base EXCEPT !.funds = 5, !.deposits = {5}, !.amounts = {2}, !.other_points = 2, !.commission = 50,
                 !.rewards = {0, 6}, !.MaxCredits = 1]

MCScenarios == {WarmUp, TwoVoters, TwoKeys, Inflation}

Symmetry == Permutations(Accounts) \cup Permutations({k1, k2})
=============================================================================
