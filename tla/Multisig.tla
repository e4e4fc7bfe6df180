-------------------------------- MODULE Multisig --------------------------------
(***************************************************************************)
(* The loop with which the token program's validate_owner matches the      *)
(* accounts of an instruction against the signers of a multisignature      *)
(* account, and what it is to compute.  The same key may be at several     *)
(* positions and an account may be passed several times.                   *)
(***************************************************************************)
EXTENDS Naturals, Sequences, FiniteSets, SequencesExt

CONSTANTS
  SignerKeys,          \* keys of signers and of other accounts
  MAX_SIGNERS,   \* most signers of a multisignature account
  MaxPassed      \* most accounts passed with an instruction

VARIABLES
  multisig,      \* [m, signers], None while there is none
  passed,        \* the accounts passed so far
  signed         \* the keys that have signed the transaction

multisigVars == <<multisig, passed, signed>>

NoMultisig == [m |-> 0, signers |-> <<>>]

-----------------------------------------------------------------------------
(* The state of the loops: the positions matched, how many they are, and    *)
(* whether an account that had to sign did not.                             *)
Start == [matched |-> {}, num_signers |-> 0, failed |-> FALSE]

(* Faulty variant: a position counts each time its key is passed. *)
MatchAgain(key, st, position) ==
  IF st.failed \/ multisig.signers[position] # key THEN st
  ELSE IF key \notin signed THEN [st EXCEPT !.failed = TRUE]
  ELSE [st EXCEPT !.num_signers = @ + 1]

(* The body of the inner loop. *)
Match(key, st, position) ==
  IF st.failed \/ multisig.signers[position] # key \/ position \in st.matched THEN st
  ELSE IF key \notin signed THEN [st EXCEPT !.failed = TRUE]
  ELSE [st EXCEPT !.matched = @ \cup {position}, !.num_signers = @ + 1]

MatchPassed(st, key) ==
  FoldLeft(LAMBDA acc, position : Match(key, acc, position), st, [i \in 1 .. Len(multisig.signers) |-> i])

validate_multisig ==
  LET end == FoldLeft(MatchPassed, Start, passed)
  IN  ~ end.failed /\ end.num_signers >= multisig.m

-----------------------------------------------------------------------------
process_initialize_multisig(m, signers) ==
  /\ multisig = NoMultisig
  /\ Len(signers) \in 1 .. MAX_SIGNERS /\ m \in 1 .. MAX_SIGNERS
  /\ multisig' = [m |-> m, signers |-> signers]
  /\ UNCHANGED <<passed, signed>>

(* An instruction is put together account by account. *)
Pass(key) ==
  /\ multisig # NoMultisig
  /\ Len(passed) < MaxPassed
  /\ passed' = Append(passed, key)
  /\ UNCHANGED <<multisig, signed>>

MultisigInit == multisig = NoMultisig /\ passed = <<>> /\ signed \in SUBSET SignerKeys

MultisigNext ==
  \/ \E m \in 0 .. MAX_SIGNERS + 1, n \in 0 .. MAX_SIGNERS + 1 :
       \E signers \in [1 .. n -> SignerKeys] : process_initialize_multisig(m, signers)
  \/ \E key \in SignerKeys : Pass(key)

MultisigSpec == MultisigInit /\ [][MultisigNext]_multisigVars

-----------------------------------------------------------------------------
(* The loop accepts exactly when the signers that are passed have all signed *)
(* and hold at least m positions: each position counts once, however often   *)
(* its key is passed, and the order does not matter.                         *)
CountsPositions ==
  multisig # NoMultisig =>
    LET held == {p \in 1 .. Len(multisig.signers) : multisig.signers[p] \in Range(passed)}
    IN  validate_multisig <=> /\ \A p \in held : multisig.signers[p] \in signed
                           /\ Cardinality(held) >= multisig.m

=============================================================================
