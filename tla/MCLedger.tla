------------------------------- MODULE MCLedger -------------------------------
(* DuplicateSlots and Blockstore for TLC, one or the other from its initial   *)
(* state.                                                                     *)
EXTENDS DuplicateSlots, Blockstore

(* Two blocks of slot 1 and a block on each. *)
MCGenesis == <<0, 1>>
MCKeys == {<<0, 1>>, <<1, 1>>, <<1, 2>>, <<2, 1>>, <<2, 2>>}
MCParents ==
    <<1, 1>> :> <<0, 1>> @@ <<1, 2>> :> <<0, 1>> @@ <<2, 1>> :> <<1, 1>> @@ <<2, 2>> :> <<1, 2>>

(* Nothing is confirmed, or a chain; the other block of slot 1 may be dead; *)
(* samples name what is confirmed later.                                    *)
MCWorlds ==
    {[confirmed |-> {}, sampled |-> {}, dead |-> {}],
     [confirmed |-> {<<1, 1>>}, sampled |-> {}, dead |-> {}],
     [confirmed |-> {<<1, 2>>}, sampled |-> {}, dead |-> {<<1, 1>>}],
     [confirmed |-> {<<1, 2>>, <<2, 2>>}, sampled |-> {}, dead |-> {}],
     [confirmed |-> {<<1, 2>>}, sampled |-> {<<1, 2>>}, dead |-> {}],
     [confirmed |-> {<<1, 2>>, <<2, 2>>}, sampled |-> {<<1, 2>>, <<2, 2>>}, dead |-> {<<1, 1>>}]}
-----------------------------------------------------------------------------
Block(slot, version, parent, last, ends) ==
  [slot |-> slot, version |-> version, parent |-> parent, last |-> last, ends |-> ends]

GenesisBlock == Block(0, 1, 0, 0, {0})

(* 1 follows 0, 2 and 4 follow 1, 3 follows 2 and 5 follows 4. *)
ForkBlocks ==
  {GenesisBlock, Block(1, 1, 0, 1, {1}), Block(2, 1, 1, 1, {1}), Block(3, 1, 2, 1, {1}),
   Block(4, 1, 1, 0, {0}), Block(5, 1, 4, 0, {0})}

(* A block of four shreds in three data sets and a child. *)
CodedBlocks == {GenesisBlock, Block(1, 1, 0, 3, {0, 2, 3}), Block(2, 1, 1, 0, {0})}

(* Slot 2 comes in a long version on 1 and a short one on 0; 3 follows 2. *)
VersionBlocks ==
  {GenesisBlock, Block(1, 1, 0, 0, {0}), Block(2, 1, 1, 2, {2}), Block(2, 2, 0, 1, {1}),
   Block(3, 1, 2, 0, {0})}

(* Slot 1 comes in two versions of different length. *)
ShortVersionBlocks == {GenesisBlock, Block(1, 1, 0, 1, {1}), Block(1, 2, 0, 0, {0})}

MCLedgers ==
  {[blocks |-> ForkBlocks, NumCoding |-> 0, MaxBatch |-> 2, MaxChecks |-> 0, MaxClears |-> 0,
    MaxCrashes |-> 0, MaxRoot |-> 4],
   [blocks |-> CodedBlocks, NumCoding |-> 2, MaxBatch |-> 2, MaxChecks |-> 0, MaxClears |-> 0,
    MaxCrashes |-> 0, MaxRoot |-> 0],
   [blocks |-> VersionBlocks, NumCoding |-> 0, MaxBatch |-> 1, MaxChecks |-> 1, MaxClears |-> 1,
    MaxCrashes |-> 0, MaxRoot |-> 0],
   [blocks |-> ShortVersionBlocks, NumCoding |-> 2, MaxBatch |-> 1, MaxChecks |-> 1, MaxClears |-> 1,
    MaxCrashes |-> 1, MaxRoot |-> 1]}

-----------------------------------------------------------------------------
(* While one component runs the other is in one of its initial states.       *)
DuplicatesQuiet == DuplicatesInit /\ world = CHOOSE w \in Worlds : TRUE
LedgerQuiet == LedgerInit /\ ledger = CHOOSE l \in Ledgers : TRUE

MCInit == DuplicatesInit /\ LedgerInit /\ (DuplicatesQuiet \/ LedgerQuiet)

MCNext ==
  \/ LedgerQuiet /\ DuplicatesNext /\ UNCHANGED ledgerVars
  \/ DuplicatesQuiet /\ LedgerNext /\ UNCHANGED duplicatesVars

MCSpec ==
  MCInit /\ [][MCNext]_<<duplicatesVars, ledgerVars>> /\ DuplicatesFairness
=============================================================================
