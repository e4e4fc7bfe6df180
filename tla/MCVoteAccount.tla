--------------------------- MODULE MCVoteAccount ---------------------------
(* Small instances of VoteAccount for TLC. *)
EXTENDS VoteAccount, TLC

(* Keys are compared and never ordered. *)
KeySymmetry == Permutations(Keys)

AllFeatures ==
    {"vote_withdraw_authority_may_change_authorized_voter",
     "reject_non_rent_exempt_vote_withdraws",
     "reject_vote_account_close_unless_zero_credit_epoch"}
=============================================================================
