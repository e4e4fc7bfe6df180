------------------------------- MODULE Banking --------------------------------
(***************************************************************************)
(* Banking threads (core/src/banking_stage.rs) that fill one bank: each    *)
(* takes transactions from its buffer, reserves their cost (core/src/      *)
(* qos_service.rs, runtime/src/cost_tracker.rs), locks their accounts,     *)
(* executes, records and commits what it can, and keeps the rest for       *)
(* another try, while the last tick may come and replay may freeze the     *)
(* bank (runtime/src/bank.rs).                                             *)
(*                                                                         *)
(* Abstracted: execution is uninterpreted, an account's value is the       *)
(* transaction that wrote it with the values it had loaded.  The recorder  *)
(* accepts entries until the last tick (see PohRecorder).                  *)
(***************************************************************************)
EXTENDS Integers, Sequences, SequencesExt, FiniteSets, FiniteSetsExt

CONSTANTS
    Threads,
    Txs,
    BankAccounts,
    WritableOf, ReadonlyOf,  \* the account locks of each transaction
    Expired,           \* transactions whose blockhash is too old
    SimpleVotes,       \* transactions that count against the vote limit
    CostOf,            \* TransactionCost::sum of each transaction
    ExecutionCostOf,   \* TransactionCost::execution_cost
    UnitsOf,           \* compute units it really uses
    block_cost_limit, account_cost_limit, vote_cost_limit,
    Packets,           \* Packets[th]: what the thread has buffered
    MAX_NUM_TRANSACTIONS_PER_BATCH

ASSUME BankingAssumption ==
    /\ WritableOf \in [Txs -> SUBSET BankAccounts]
    /\ ReadonlyOf \in [Txs -> SUBSET BankAccounts]
    /\ \A t \in Txs : WritableOf[t] # {} /\ WritableOf[t] \cap ReadonlyOf[t] = {}
    /\ \A t \in Txs : ExecutionCostOf[t] <= CostOf[t]
    /\ Packets \in [Threads -> Seq(Txs)]
    /\ MAX_NUM_TRANSACTIONS_PER_BATCH \in Nat \ {0}

VARIABLES
    thread,    \* per thread: program counter and the locals of its calls
    account_locks,     \* Accounts::account_locks
    cost,      \* CostTracker
    accounts,  \* the values of the accounts in the bank
    statuses,  \* transactions of this bank in the status cache
    entries,   \* batches recorded in the block, oldest first
    open,      \* the last tick of the bank has not been recorded
    frozen     \* values hashed by Bank::freeze, << >> before it

bankingVars == <<thread, account_locks, cost, accounts, statuses, entries, open, frozen>>

Idle == [pc |-> "idle", buffer |-> << >>, todo |-> << >>, batch |-> << >>, selected |-> {},
         locked |-> {}, loaded |-> << >>, executed |-> {}, recorded |-> FALSE, retry |-> << >>]

(* The indexes of a thread's batch, in order. *)
Batch(th) == [i \in DOMAIN thread[th].batch |-> i]

LockedPcs == {"check", "load", "freeze_lock", "record", "commit", "unlock"}

(* The table of account locks: a holder is an entry of a batch in flight. *)
Entries == Threads \X (1 .. MAX_NUM_TRANSACTIONS_PER_BATCH)
BatchHolders == Entries \X Txs
Held == {<<e, thread[e[1]].batch[e[2]]>> :
           e \in {x \in Entries : thread[x[1]].pc \in LockedPcs /\ x[2] \in thread[x[1]].locked}}
Table == INSTANCE AccountLocks WITH Accounts <- BankAccounts, Holders <- BatchHolders,
                                    Writable <- [h \in BatchHolders |-> WritableOf[h[2]]],
                                    Readonly <- [h \in BatchHolders |-> ReadonlyOf[h[2]]],
                                    locks <- account_locks, held <- Held

(***************************************************************************)
(* CostTracker.  The subtractions saturate at zero.                        *)
(***************************************************************************)
NoCost == [block |-> 0, vote |-> 0, account |-> [k \in BankAccounts |-> 0], count |-> 0]

would_fit(c, tx) ==
    /\ c.block + CostOf[tx] <= block_cost_limit
    /\ (IF tx \in SimpleVotes THEN c.vote + CostOf[tx] ELSE c.vote) <= vote_cost_limit
    /\ CostOf[tx] <= account_cost_limit
    /\ \A k \in WritableOf[tx] : c.account[k] + CostOf[tx] <= account_cost_limit

Adjust(c, tx, delta) ==
    LET Plus(n) == Max({0, n + delta})
    IN  [c EXCEPT !.block = Plus(@),
                  !.vote = IF tx \in SimpleVotes THEN Plus(@) ELSE @,
                  !.account = [k \in BankAccounts |-> IF k \in WritableOf[tx] THEN Plus(@[k]) ELSE @[k]]]

add_transaction_cost(c, tx) == [Adjust(c, tx, CostOf[tx]) EXCEPT !.count = @ + 1]
remove_transaction_cost(c, tx) == [Adjust(c, tx, -CostOf[tx]) EXCEPT !.count = Max({0, @ - 1})]
update_execution_cost(c, tx) == Adjust(c, tx, UnitsOf[tx] - ExecutionCostOf[tx])

-----------------------------------------------------------------------------
BankingInit ==
    /\ thread = [th \in Threads |-> [Idle EXCEPT !.buffer = Packets[th]]]
    /\ account_locks = Table!NoLocks
    /\ cost = NoCost
    /\ accounts = [k \in BankAccounts |-> << >>]
    /\ statuses = {}
    /\ entries = << >>
    /\ open = TRUE
    /\ frozen = << >>

Chunk(txs) == SubSeq(txs, 1, Min({Len(txs), MAX_NUM_TRANSACTIONS_PER_BATCH}))
Rest(txs) == SubSeq(txs, MAX_NUM_TRANSACTIONS_PER_BATCH + 1, Len(txs))

(* consume_buffered_packets takes the buffer while the recorder has the bank. *)
Consume(th) ==
    /\ thread[th].pc = "idle"
    /\ open
    /\ thread[th].buffer # << >>
    /\ thread' = [thread EXCEPT ![th] = [Idle EXCEPT !.pc = "select", !.batch = Chunk(thread[th].buffer),
                                                     !.todo = Rest(thread[th].buffer)]]
    /\ UNCHANGED <<account_locks, cost, accounts, statuses, entries, open, frozen>>

select_transactions_per_cost(th) ==
    LET txs == thread[th].batch
        Select(acc, i) == IF would_fit(acc.cost, txs[i])
                          THEN [cost |-> add_transaction_cost(acc.cost, txs[i]), in |-> acc.in \cup {i}]
                          ELSE acc
        result == FoldLeft(Select, [cost |-> cost, in |-> {}], Batch(th))
    IN  /\ thread[th].pc = "select"
        /\ cost' = result.cost
        /\ thread' = [thread EXCEPT ![th].pc = "lock", ![th].selected = result.in]
        /\ UNCHANGED <<account_locks, accounts, statuses, entries, open, frozen>>

(* prepare_sanitized_batch_with_results: the whole batch under one mutex. *)
lock_accounts_with_results(th) ==
    LET txs == thread[th].batch
        W(i) == WritableOf[txs[i]]
        R(i) == ReadonlyOf[txs[i]]
        Try(acc, i) == IF i \in thread[th].selected /\ Table!CanLock(acc.locks, W(i), R(i))
                       THEN [locks |-> Table!lock_account(acc.locks, W(i), R(i)), in |-> acc.in \cup {i}]
                       ELSE acc
        result == FoldLeft(Try, [locks |-> account_locks, in |-> {}], Batch(th))
    IN  /\ thread[th].pc = "lock"
        /\ account_locks' = result.locks
        /\ thread' = [thread EXCEPT ![th].pc = "check", ![th].locked = result.in]
        /\ UNCHANGED <<cost, accounts, statuses, entries, open, frozen>>

(* check_transactions: age and status cache, for the locked transactions. *)
check_transactions(th) ==
    /\ thread[th].pc = "check"
    /\ thread' = [thread EXCEPT ![th].pc = "load",
                    ![th].executed = {i \in thread[th].locked :
                                        thread[th].batch[i] \notin Expired \cup statuses}]
    /\ UNCHANGED <<account_locks, cost, accounts, statuses, entries, open, frozen>>

(* load_accounts and execution: the results stay in the thread. *)
load_and_execute(th) ==
    LET txs == thread[th].batch
    IN  /\ thread[th].pc = "load"
        /\ thread' = [thread EXCEPT ![th].pc = "freeze_lock",
                        ![th].loaded = [i \in thread[th].executed |->
                            <<txs[i], [k \in WritableOf[txs[i]] \cup ReadonlyOf[txs[i]] |-> accounts[k]]>>]]
        /\ UNCHANGED <<account_locks, cost, accounts, statuses, entries, open, frozen>>

(* Bank::freeze_lock, shared with other threads but not with freeze. *)
freeze_lock(th) ==
    /\ thread[th].pc = "freeze_lock"
    /\ thread' = [thread EXCEPT ![th].pc = "record"]
    /\ UNCHANGED <<account_locks, cost, accounts, statuses, entries, open, frozen>>

(* Faulty variant: the lock is given up once the entry is recorded. *)
HoldsFreezeLockToRecord(th) == thread[th].pc = "record"

HoldsFreezeLock(th) == thread[th].pc \in {"record", "commit"}

(* Faulty variant: a thread waits until the recorder takes its entry. *)
RecordWaits(th) ==
    LET done == thread[th].executed
    IN  /\ thread[th].pc = "record"
        /\ open \/ done = {}
        /\ entries' = IF done = {} THEN entries
                      ELSE Append(entries, [i \in 1 .. Cardinality(done) |->
                                     thread[th].batch[SetToSortSeq(done, <)[i]]])
        /\ thread' = [thread EXCEPT ![th].pc = "commit", ![th].recorded = TRUE]
        /\ UNCHANGED <<account_locks, cost, accounts, statuses, open, frozen>>

(* record_transactions: everything executed in one entry, or nothing. *)
record_transactions(th) ==
    LET done == thread[th].executed
        ok == open \/ done = {}
    IN  /\ thread[th].pc = "record"
        /\ entries' = IF ok /\ done # {}
                      THEN Append(entries, [i \in 1 .. Cardinality(done) |->
                                     thread[th].batch[SetToSortSeq(done, <)[i]]])
                      ELSE entries
        /\ thread' = [thread EXCEPT ![th].pc = IF ok THEN "commit" ELSE "unlock", ![th].recorded = ok]
        /\ UNCHANGED <<account_locks, cost, accounts, statuses, open, frozen>>

(* commit_transactions, and the end of the freeze lock. *)
commit_transactions(th) ==
    LET done == thread[th].executed
        Writes(k) == {i \in done : k \in WritableOf[thread[th].batch[i]]}
    IN  /\ thread[th].pc = "commit"
        /\ accounts' = [k \in BankAccounts |-> IF Writes(k) = {} THEN accounts[k]
                                           ELSE thread[th].loaded[CHOOSE i \in Writes(k) : TRUE]]
        /\ statuses' = statuses \cup {thread[th].batch[i] : i \in done}
        /\ thread' = [thread EXCEPT ![th].pc = "unlock"]
        /\ UNCHANGED <<account_locks, cost, entries, open, frozen>>

(* The batch is dropped: what was locked is unlocked. *)
unlock_accounts(th) ==
    LET Release(l, i) == IF i \notin thread[th].locked THEN l
                        ELSE Table!unlock_account(l, WritableOf[thread[th].batch[i]],
                                                  ReadonlyOf[thread[th].batch[i]])
    IN  /\ thread[th].pc = "unlock"
        /\ account_locks' = FoldLeft(Release, account_locks, Batch(th))
        /\ thread' = [thread EXCEPT ![th].pc = "settle"]
        /\ UNCHANGED <<cost, accounts, statuses, entries, open, frozen>>

update_or_remove_transaction_costs(th, c) ==
    LET txs == thread[th].batch
        Settle(d, i) == IF i \notin thread[th].selected THEN d
                        ELSE IF thread[th].recorded /\ i \in thread[th].executed
                        THEN update_execution_cost(d, txs[i])
                        ELSE remove_transaction_cost(d, txs[i])
    IN  FoldLeft(Settle, c, Batch(th))

(* Faulty variant: what was executed for a bank that is over is forgotten. *)
RetryNotLocked(th) ==
    SelectSeq(Batch(th), LAMBDA i : i \notin thread[th].locked)

(* Indexes to retry: not selected, not locked, or executed and not recorded. *)
retryable_transaction_indexes(th) ==
    SelectSeq(Batch(th), LAMBDA i : \/ i \notin thread[th].locked
                                    \/ ~thread[th].recorded /\ i \in thread[th].executed)

(* The rest of process_transactions' loop: the next chunk, or the end of it. *)
Settle(th) ==
    LET t == thread[th]
        again == retryable_transaction_indexes(th)
        retry == t.retry \o [i \in DOMAIN again |-> t.batch[again[i]]]
    IN  /\ t.pc = "settle"
        /\ cost' = update_or_remove_transaction_costs(th, cost)
        /\ \E still_processing \in BOOLEAN :
             thread' = [thread EXCEPT ![th] =
               IF t.recorded /\ still_processing /\ t.todo # << >>
               THEN [Idle EXCEPT !.pc = "select", !.batch = Chunk(t.todo), !.todo = Rest(t.todo),
                                 !.retry = retry]
               ELSE [Idle EXCEPT !.pc = "filter", !.retry = retry \o t.todo]]
        /\ UNCHANGED <<account_locks, accounts, statuses, entries, open, frozen>>

(* Valid transactions that are to be retried go back to the buffer. *)
filter_pending_packets_from_pending_txs(th) ==
    /\ thread[th].pc = "filter"
    /\ thread' = [thread EXCEPT ![th] = [Idle EXCEPT !.buffer =
                     SelectSeq(thread[th].retry, LAMBDA t : t \notin Expired \cup statuses)]]
    /\ UNCHANGED <<account_locks, cost, accounts, statuses, entries, open, frozen>>

(* The PoH service records the bank's last tick. *)
LastTick ==
    /\ open
    /\ open' = FALSE
    /\ UNCHANGED <<thread, account_locks, cost, accounts, statuses, entries, frozen>>

(* Replay freezes the complete bank once no one holds the freeze lock. *)
freeze ==
    /\ ~open
    /\ frozen = << >>
    /\ \A th \in Threads : ~HoldsFreezeLock(th)
    /\ frozen' = <<accounts>>
    /\ UNCHANGED <<thread, account_locks, cost, accounts, statuses, entries, open>>

Step(th) ==
    \/ Consume(th)
    \/ select_transactions_per_cost(th)
    \/ lock_accounts_with_results(th)
    \/ check_transactions(th)
    \/ load_and_execute(th)
    \/ freeze_lock(th)
    \/ record_transactions(th)
    \/ commit_transactions(th)
    \/ unlock_accounts(th)
    \/ Settle(th)
    \/ filter_pending_packets_from_pending_txs(th)

BankingNext == LastTick \/ freeze \/ \E th \in Threads : Step(th)

BankingSpec == BankingInit /\ [][BankingNext]_bankingVars

-----------------------------------------------------------------------------
(* Types of the variables. *)
BankingTypeOK ==
    /\ \A th \in Threads :
         LET t == thread[th]
         IN  /\ t.pc \in LockedPcs \cup {"idle", "select", "lock", "settle", "filter"}
             /\ {t.batch[i] : i \in DOMAIN t.batch} \subseteq Txs
             /\ Len(t.batch) <= MAX_NUM_TRANSACTIONS_PER_BATCH
             /\ t.executed \subseteq t.locked
             /\ t.locked \subseteq t.selected
             /\ t.selected \subseteq DOMAIN t.batch
    /\ Table!LocksTypeOK
    /\ statuses \subseteq Txs
    /\ open \in BOOLEAN

(* The accounts after executing transactions one after another. *)
Executed(txs) ==
    FoldLeft(LAMBDA a, t : [k \in BankAccounts |->
                 IF k \notin WritableOf[t] THEN a[k]
                 ELSE <<t, [j \in WritableOf[t] \cup ReadonlyOf[t] |-> a[j]]>>],
             [k \in BankAccounts |-> << >>], txs)

(***************************************************************************)
(* The bank a leader freezes is the one every other validator computes from*)
(* the block: executing the recorded entries in order gives the accounts   *)
(* that were hashed, whatever the threads did in parallel, and nothing is  *)
(* written after freezing.                                                 *)
(***************************************************************************)
FrozenBankReplays ==
    frozen # << >> => frozen = <<Executed(FlattenSeq(entries))>> /\ accounts = frozen[1]

(***************************************************************************)
(* A transaction that two threads have buffered, or one thread twice, is   *)
(* recorded in the block at most once; an expired one never is.            *)
(***************************************************************************)
RecordedAtMostOnce ==
    LET block == FlattenSeq(entries)
    IN  /\ IsInjective(block)
        /\ ToSet(block) \cap Expired = {}

(***************************************************************************)
(* The lock table is what the batches in flight hold, whatever mix of      *)
(* selected, locked and refused transactions a batch has, and no two of    *)
(* them conflict.                                                          *)
(***************************************************************************)
LocksMatchBatches == Table!TableExact /\ Table!NoConflict

(* What a transaction adds to the block once its execution is settled. *)
FinalCost(tx) == CostOf[tx] - ExecutionCostOf[tx] + UnitsOf[tx]

(***************************************************************************)
(* The cost tracker holds the estimates of what is in flight and the real  *)
(* cost of what is in the block, in total, for votes, for each account and *)
(* in number: nothing a thread reserved and gave back stays behind.        *)
(***************************************************************************)
CostConserved ==
    LET Pending == {e \in Entries : e[2] \in thread[e[1]].selected}
        Tx(p) == thread[p[1]].batch[p[2]]
        InBlock(p) == thread[p[1]].recorded /\ p[2] \in thread[p[1]].executed
        Total(S) == MapThenSumSet(FinalCost, {t \in ToSet(FlattenSeq(entries)) : t \in S})
                    + MapThenSumSet(LAMBDA p : IF InBlock(p) THEN CostOf[Tx(p)] - FinalCost(Tx(p))
                                               ELSE CostOf[Tx(p)], {p \in Pending : Tx(p) \in S})
    IN  /\ cost.block = Total(Txs)
        /\ cost.vote = Total(SimpleVotes)
        /\ \A k \in BankAccounts : cost.account[k] = Total({t \in Txs : k \in WritableOf[t]})
        /\ cost.count = Len(FlattenSeq(entries)) + Cardinality({p \in Pending : ~InBlock(p)})

(***************************************************************************)
(* No buffered transaction is lost: until it is in the block or has        *)
(* expired, the thread that had it has it.                                 *)
(***************************************************************************)
NothingLost ==
    \A th \in Threads :
        LET t == thread[th]
        IN  ToSet(Packets[th]) \subseteq
              Expired \cup ToSet(FlattenSeq(entries))
                \cup UNION {ToSet(q) : q \in {t.buffer, t.todo, t.batch, t.retry}}

(* What the banking threads do together is accounted for: every buffered       *)
(* transaction is in the block once, still buffered or expired, and lock table *)
(* and cost tracker are what the batches in flight and the block make them.    *)
BlockAccounted ==
    /\ BankingTypeOK
    /\ RecordedAtMostOnce
    /\ LocksMatchBatches
    /\ CostConserved
    /\ NothingLost

(***************************************************************************)
(* A bank whose last tick is recorded is frozen: freezing cannot be kept   *)
(* out by threads that hold the freeze lock while they wait to record.     *)
(***************************************************************************)
EventuallyFrozen == ~open ~> frozen # << >>

(* A thread that has taken transactions comes back for more. *)
BatchesEnd == \A th \in Threads : thread[th].pc # "idle" ~> thread[th].pc = "idle"

(* No thread keeps the bank from being frozen, and none is stuck in a batch *)
(* (process_and_record_transactions, Bank::freeze).                         *)
BankingFinishes ==
    /\ EventuallyFrozen
    /\ BatchesEnd
=============================================================================
