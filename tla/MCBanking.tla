------------------------------ MODULE MCBanking -------------------------------
(***************************************************************************)
(* Banking and AccountLocks for TLC.  Either two banking threads work on   *)
(* batches that share a transaction and conflict, or every transaction     *)
(* over two accounts, twice, locks and unlocks by itself; the specification*)
(* that does not run stays in its initial state.                           *)
(***************************************************************************)
EXTENDS Banking, AccountLocks, TLC

CONSTANTS th1, th2, t1, t2, t3, t4, a, b

MCThreads == {th1, th2}
MCTxs == {t1, t2, t3, t4}
MCAccounts == {a, b}
MCWritableOf == t1 :> {a} @@ t2 :> {b} @@ t3 :> {a} @@ t4 :> {b}
MCReadonlyOf == t1 :> {b} @@ t2 :> {} @@ t3 :> {} @@ t4 :> {}
MCExpired == {t4}
MCVotes == {t2}
MCCost == t1 :> 3 @@ t2 :> 3 @@ t3 :> 2 @@ t4 :> 2
MCExecution == t1 :> 2 @@ t2 :> 1 @@ t3 :> 1 @@ t4 :> 1
MCUnits == t1 :> 1 @@ t2 :> 2 @@ t3 :> 1 @@ t4 :> 1
MCPackets == th1 :> <<t1, t2, t3>> @@ th2 :> <<t1, t4, t3>>

MCHolders ==
    {h \in [write : SUBSET MCAccounts, read : SUBSET MCAccounts, copy : 1 .. 2] :
        h.write \cap h.read = {} /\ h.write \cup h.read # {}}
MCWritable == [h \in MCHolders |-> h.write]
MCReadonly == [h \in MCHolders |-> h.read]

MCInit == BankingInit /\ LocksInit

MCNext ==
    \/ LocksInit /\ BankingNext /\ UNCHANGED locksVars
    \/ BankingInit /\ LocksNext /\ UNCHANGED bankingVars

(* Threads, the PoH service and the replay loop keep running. *)
MCSpec ==
    /\ MCInit /\ [][MCNext]_<<bankingVars, locksVars>>
    /\ WF_bankingVars(LocksInit /\ LastTick /\ UNCHANGED locksVars)
    /\ WF_bankingVars(LocksInit /\ freeze /\ UNCHANGED locksVars)
    /\ \A th \in Threads : WF_bankingVars(LocksInit /\ Step(th) /\ UNCHANGED locksVars)
=============================================================================
