------------------------------ MODULE MCPrograms ------------------------------
(* Token, Multisig and LookupTable for TLC, one of them from its initial      *)
(* state.                                                                     *)
EXTENDS Token, Multisig, LookupTable

CONSTANTS m1, t0, t1, t2, k0, k1, k2, k3, k4, both

(* The multisignature account that needs both keys. *)
BothSign == [key \in {both} |-> <<k3, k4>>]
Two == [key \in {both} |-> 2]

(* Two accounts of a mint with one key; two native accounts with two keys;   *)
(* one account and a multisignature account.                                 *)
MCCasts ==
  {[mints |-> {m1}, accounts |-> {t1, t2}, keys |-> {k0}, multisigs |-> {}, amounts |-> {2}],
   [mints |-> {}, accounts |-> {t1, t2}, keys |-> {k1, k2}, multisigs |-> {}, amounts |-> {1, 2}],
   [mints |-> {m1}, accounts |-> {t0}, keys |-> {k3, k4}, multisigs |-> {both}, amounts |-> {2}]}

(* While one program runs the others are in one of their initial states. *)
TokenQuiet == TokenInit /\ cast = CHOOSE c \in Casts : TRUE
MultisigQuiet == MultisigInit /\ signed = {}
LookupQuiet == LookupInit

MCInit ==
  /\ TokenInit /\ MultisigInit /\ LookupInit
  /\ TokenQuiet \/ MultisigQuiet

MCNext ==
  \/ MultisigQuiet /\ LookupQuiet /\ TokenNext /\ UNCHANGED <<multisigVars, lookupVars>>
  \/ TokenQuiet /\ LookupQuiet /\ MultisigNext /\ UNCHANGED <<tokenVars, lookupVars>>
  \/ TokenQuiet /\ MultisigQuiet /\ LookupNext /\ UNCHANGED <<tokenVars, multisigVars>>

MCSpec == MCInit /\ [][MCNext]_<<tokenVars, multisigVars, lookupVars>>

Symmetry == UNION {Permutations(Addresses), Permutations({t1, t2}), Permutations({k1, k2})}
=============================================================================
