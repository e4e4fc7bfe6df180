------------------------------- MODULE MCGossip -------------------------------
(***************************************************************************)
(* Crds and GossipSync for TLC.  One runs while the other stays in its     *)
(* initial state.                                                          *)
(***************************************************************************)
EXTENDS Crds, GossipSync, TLC

CONSTANTS a, b, c, o, p, q

V(kind, pubkey, wallclock, hash) ==
    [kind |-> kind, pubkey |-> pubkey, wallclock |-> wallclock, hash |-> hash,
     timestamp |-> 0, token |-> 0]
I(pubkey, wallclock, hash, timestamp, token) ==
    [kind |-> "NodeInstance", pubkey |-> pubkey, wallclock |-> wallclock, hash |-> hash,
     timestamp |-> timestamp, token |-> token]

(* Two instances of one node started at once and one started later, votes of one wallclock. *)
OrderValues ==
    {I(c, 2, 1, 1, 1), I(c, 3, 2, 1, 1), I(c, 1, 3, 1, 2), I(c, 1, 4, 2, 3),
     V("Vote", c, 1, 6), V("Vote", c, 1, 5)}

(* Three nodes, every kind. *)
IndexValues ==
    {V("ContactInfo", a, 1, 1), V("Vote", a, 1, 2), V("EpochSlots", b, 1, 4),
     V("Vote", c, 1, 6), V("Vote", c, 2, 3)}

(* One node, known for a while; and pushed to a peer. *)
AliveValues ==
    {V("ContactInfo", b, 1, 1), V("ContactInfo", b, 2, 2), V("Vote", b, 1, 3), V("EpochSlots", b, 1, 4)}

MCSettings ==
    {[values |-> OrderValues, push_fanout |-> 0, MaxNow |-> 1, MaxPurged |-> 2],
     [values |-> IndexValues, push_fanout |-> 0, MaxNow |-> 1, MaxPurged |-> 2],
     [values |-> AliveValues, push_fanout |-> 0, MaxNow |-> 3, MaxPurged |-> 1],
     [values |-> AliveValues, push_fanout |-> 1, MaxNow |-> 2, MaxPurged |-> 1]}

MCStake == [k \in Pubkeys |-> IF k = b THEN 2 ELSE 1]
MCOrder == [k \in Pubkeys |-> CASE k = a -> 1 [] k = b -> 2 [] k = c -> 3]
MCTimeouts == [k \in Pubkeys |-> CASE k = a -> 100 [] k = b -> 2 [] k = c -> 1]

(* A chain in which q learns only from p, and p from the origin; two nodes, two versions and *)
(* an outage.                                                                                *)
Chain == [peers |-> o :> {} @@ p :> {o} @@ q :> {p}, MaxVersion |-> 1, MaxOutages |-> 0]
Pair == [peers |-> o :> {} @@ p :> {o}, MaxVersion |-> 2, MaxOutages |-> 1]
MCNetworks == {Chain, Pair}

CrdsQuiet == CrdsInit /\ setting.values = OrderValues
SyncQuiet == SyncInit /\ network = Pair

MCInit ==
    \/ CrdsInit /\ SyncQuiet
    \/ CrdsQuiet /\ SyncInit

MCNext ==
    \/ SyncQuiet /\ CrdsNext /\ UNCHANGED syncVars
    \/ CrdsQuiet /\ SyncNext /\ UNCHANGED crdsVars

MCSpec == MCInit /\ [][MCNext]_<<crdsVars, syncVars>> /\ SyncFairness
=============================================================================
