------------------------------ MODULE BlockTree ------------------------------
(* Blocks that arrive after the first root, slot 0, and the forks they make. *)
EXTENDS Integers

CONSTANTS
  Slots,        \* slots of the blocks
  Parent        \* slot -> slot of its parent

ASSUME BlockTreeAssumption ==
  /\ Slots \subseteq Nat \ {0}
  /\ Parent \in [Slots -> Slots \cup {0}]
  /\ \A s \in Slots : Parent[s] < s

(* Sets of blocks that have the parent of every block they have. *)
Closed == {C \in SUBSET (Slots \cup {0}) : \A s \in C \ {0} : Parent[s] \in C}

(* The ancestors of a block with the block itself. *)
Fork == [s \in Slots \cup {0} |-> {a \in Slots \cup {0} : \A C \in Closed : s \in C => a \in C}]
=============================================================================
