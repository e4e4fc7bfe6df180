--------------------------- MODULE LockoutPromise ---------------------------
(***************************************************************************)
(* What a validator promises the cluster, whatever happens to its process: *)
(* once it has sent a vote stack it never sends a vote for a slot of       *)
(* another fork that one of the lockouts it has shown still covers.        *)
(*                                                                         *)
(* The abstract specification that Tower implements.  It knows the block   *)
(* tree and the strongest confirmation count ever sent for each slot, and  *)
(* nothing of banks, files, threads or crashes.                            *)
(***************************************************************************)
EXTENDS Integers

CONSTANTS Slots, lockout(_)

VARIABLES
    ancestors,      \* [Slots -> proper ancestors], the block tree
    promised        \* [Slots -> greatest confirmation count ever sent]

(* b is at or below slot l's fork, or beyond l's last locked out slot. *)
Respects(b, l) ==
    \/ l \in ancestors[b] \cup {b}
    \/ b > l + lockout(promised[l])

Init ==
    /\ ancestors = [s \in Slots |-> {}]
    /\ promised = [s \in Slots |-> 0]

(* A block is added to the tree, for good. *)
Grow(b, parent) ==
    /\ parent < b
    /\ ancestors[b] = {}
    /\ ancestors' = [ancestors EXCEPT ![b] = ancestors[parent] \cup {parent}]
    /\ UNCHANGED promised

(***************************************************************************)
(* A vote for b is sent: every earlier promise is respected, and only the  *)
(* slots of b's own fork are promised anything more.                       *)
(***************************************************************************)
Send(b) ==
    /\ \A l \in Slots : promised[l] > 0 => Respects(b, l)
    /\ promised'[b] > 0
    /\ \A l \in Slots :
          /\ promised'[l] >= promised[l]
          /\ promised'[l] # promised[l] => l \in ancestors[b] \cup {b}
    /\ UNCHANGED ancestors

Next ==
    \/ \E b, parent \in Slots : Grow(b, parent)
    \/ \E b \in Slots : Send(b)

Spec == Init /\ [][Next]_<<ancestors, promised>>
=============================================================================
