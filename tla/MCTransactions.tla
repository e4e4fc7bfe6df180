---------------------------- MODULE MCTransactions ----------------------------
(***************************************************************************)
(* ReplayProtection, StatusCache and SendTransaction for TLC.  One of them *)
(* runs while the others stay in their initial states; ReplayProtection    *)
(* runs in three settings:                                                 *)
(*   Recent   forks, a dumped slot and a restart, with recent blockhashes; *)
(*   Jumps    roots that jump over the bank a snapshot is due for;         *)
(*   Durable  nonces used while the cache forgets old roots.               *)
(***************************************************************************)
EXTENDS SendTransaction, StatusCache, TLC

CONSTANTS t1, t2

Plain == [nonce |-> FALSE, max_retries |-> NoLimit]
Nonced == [nonce |-> TRUE, max_retries |-> 1]
MCClients == {t1 :> Plain, t1 :> Nonced, t1 :> Plain @@ t2 :> Plain}

MCSlots == 0 .. 3

VARIABLES
    banks, rooting, last_accounts_hash_slot, request, bank_status_cache, blockstore,
    snapshot, loading, restarts,
    setting     \* of ReplayProtection

Recent == INSTANCE ReplayProtection WITH
    status_cache <- bank_status_cache,
    MaxSlot <- 3, MaxDumps <- 1, MaxRestarts <- 1, MaxBanks <- 3, MaxTransactions <- 3,
    Instructions <- {"transfer"},
    accounts_hash_interval_slots <- 2, snapshot_interval_slots <- 2,
    MAX_PROCESSING_AGE <- 2, MAX_RECENT_BLOCKHASHES <- 2

Jumps == INSTANCE ReplayProtection WITH
    status_cache <- bank_status_cache,
    MaxSlot <- 4, MaxDumps <- 0, MaxRestarts <- 1, MaxBanks <- 3, MaxTransactions <- 2,
    Instructions <- {"transfer"},
    accounts_hash_interval_slots <- 2, snapshot_interval_slots <- 2,
    MAX_PROCESSING_AGE <- 1, MAX_RECENT_BLOCKHASHES <- 1

Durable == INSTANCE ReplayProtection WITH
    status_cache <- bank_status_cache,
    MaxSlot <- 3, MaxDumps <- 0, MaxRestarts <- 0, MaxBanks <- 2, MaxTransactions <- 3,
    Instructions <- {"initialize", "advance", "withdraw"},
    accounts_hash_interval_slots <- 2, snapshot_interval_slots <- 2,
    MAX_PROCESSING_AGE <- 1, MAX_RECENT_BLOCKHASHES <- 1

ASSUME SettingsAssumption ==
    Recent!AgeAssumption /\ Jumps!AgeAssumption /\ Durable!AgeAssumption

replayVars ==
    <<banks, rooting, last_accounts_hash_slot, request, bank_status_cache, blockstore,
      snapshot, loading, restarts, setting>>

ReplayInit ==
    \/ setting = "recent" /\ Recent!Init
    \/ setting = "jumps" /\ Jumps!Init
    \/ setting = "durable" /\ Durable!Init

ReplayNext ==
    \/ setting = "recent" /\ Recent!Next /\ UNCHANGED setting
    \/ setting = "jumps" /\ Jumps!Next /\ UNCHANGED setting
    \/ setting = "durable" /\ Durable!Next /\ UNCHANGED setting

SendQuiet == SendInit /\ clients = t1 :> Plain
ReplayQuiet == setting = "recent" /\ Recent!Init

MCInit ==
    /\ CacheInit
    /\ \/ SendInit /\ ReplayQuiet
       \/ SendQuiet /\ ReplayInit

MCNext ==
    \/ CacheInit /\ ReplayQuiet /\ SendNext /\ UNCHANGED <<status_cache, replayVars>>
    \/ SendQuiet /\ ReplayQuiet /\ CacheNext /\ UNCHANGED <<sendVars, replayVars>>
    \/ SendQuiet /\ CacheInit /\ ReplayNext /\ UNCHANGED <<sendVars, status_cache>>

MCSpec == MCInit /\ [][MCNext]_<<sendVars, status_cache, replayVars>> /\ SendFairness

(* ReplayOK of ReplayProtection, in each setting (it does not depend on its *)
(* constants): check_transactions lets a transaction into a fork once.      *)
ReplayOK == Recent!ReplayOK
=============================================================================
