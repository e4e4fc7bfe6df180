----------------------------- MODULE PohRecorder ------------------------------
(***************************************************************************)
(* How a leader turns ticks and transactions into the entries of a block:  *)
(* the PohRecorder (poh/src/poh_recorder.rs) with its clock (entry/src/    *)
(* poh.rs), driven by three kinds of threads that take its lock in any     *)
(* order: the PoH service that hashes, ticks and records (poh/src/         *)
(* poh_service.rs), the replay loop that resets it to another fork, freezes*)
(* finished banks and starts leader slots (core/src/replay_stage.rs), and  *)
(* banking threads that ask for a transaction to be recorded in the bank   *)
(* they saw some time ago.                                                 *)
(*                                                                         *)
(* Abstracted: a hash is the number of the entry in the chain since the    *)
(* last reset; the slot stands for its bank and its last blockhash; which  *)
(* fork is heaviest, and whether leader slots are skipped for lack of      *)
(* votes or propagation, may come out either way.  Banks are not pruned.   *)
(***************************************************************************)
EXTENDS Integers, Sequences, SequencesExt, FiniteSets, FiniteSetsExt

CONSTANTS
    MaxSlot,          \* bound: slots are 0 .. MaxSlot
    TICKS_PER_SLOT,   \* ticks_per_slot
    HASHES_PER_TICK,  \* PohConfig::hashes_per_tick
    HASHES_PER_BATCH, \* hashes made before the service looks at its requests
    MySlots,          \* slots the leader schedule gives to this validator
    Txs               \* transactions the banking threads want to record

ASSUME PohAssumption ==
    /\ MaxSlot \in Nat
    /\ TICKS_PER_SLOT \in Nat \ {0}
    /\ HASHES_PER_TICK \in Nat \ {0, 1}
    /\ HASHES_PER_BATCH \in 1 .. HASHES_PER_TICK - 2
    /\ MySlots \subseteq 1 .. MaxSlot

Slots == 0 .. MaxSlot
None == -1
GRACE_TICKS_FACTOR == 2
MAX_GRACE_SLOTS == 2
NUM_CONSECUTIVE_LEADER_SLOTS == 4

VARIABLES
    poh,        \* Poh: remaining hashes of this tick, hashes since the last
                \* entry, and the chain: slot it was reset to, entries since
    rec,        \* PohRecorder
    ticks,      \* tick_height of each bank, 0 where there is none
    sent,       \* entries sent to the broadcast stage per bank, in order
    parent,     \* parent slot of each bank, None where there is none
    frozen,     \* banks that are frozen
    received,   \* own slots with shreds in the blockstore
    poh_pc,     \* PoH service: "hash", "tick", "record" or "recording"
    queue,      \* record requests, oldest first: transaction and slot
    my_bank,    \* per transaction, the bank it was last executed in
    answer,     \* "none", "executing", "waiting", "ok", "retry" or "panic"
    replay_pc,  \* replay loop: "top", "replay", "reset", "lock", "start", "set"
    tpu_has_bank, last_reset, next_bank,  \* its local variables
    fault       \* assertions of maybe_start_leader that failed

recorder == <<poh, rec, ticks, sent>>
forks    == <<parent, frozen>>
service  == <<poh_pc, queue, my_bank, answer>>
loop     == <<replay_pc, tpu_has_bank, last_reset, next_bank>>
vars     == <<recorder, forks, received, service, loop, fault>>

NoBank == [slot |-> None, min |-> 0, max |-> 0]

max_tick_height(slot) == (slot + 1) * TICKS_PER_SLOT
MaxTick == max_tick_height(MaxSlot) + 1

slot_for_tick_height(height) ==
    (IF height = 0 THEN 0 ELSE height - 1) \div TICKS_PER_SLOT

(***************************************************************************)
(* Leader slots.  A run of slots from the first one for which no shred was *)
(* stored yet, and the tick heights that bound it.                         *)
(***************************************************************************)
next_leader_slot(current) ==
    LET open == {s \in MySlots : s > current /\ s \notin received}
        first == Min(open)
        Run(s) == s < first + GRACE_TICKS_FACTOR * MAX_GRACE_SLOTS
                  /\ first .. s \subseteq MySlots
    IN  IF open = {} THEN << >> ELSE <<first, Max({s \in MySlots : s >= first /\ Run(s)})>>

compute_leader_slot_tick_heights(r, next) ==
    LET Grace(slots) == Min({TICKS_PER_SLOT * MAX_GRACE_SLOTS,
                             (TICKS_PER_SLOT * slots) \div GRACE_TICKS_FACTOR})
        grace == Grace(IF next = << >> THEN NUM_CONSECUTIVE_LEADER_SLOTS
                                       ELSE next[2] - next[1] + 1)
    IN  [r EXCEPT !.grace_ticks = grace,
                  !.leader_first = IF next = << >> THEN None
                                   ELSE next[1] * TICKS_PER_SLOT + 1 + grace,
                  !.leader_last = IF next = << >> THEN 0
                                  ELSE (next[2] + 1) * TICKS_PER_SLOT]

(***************************************************************************)
(* The operations of PohRecorder, as functions of its state and of what    *)
(* they change with it: the bank's tick height and the entries sent.       *)
(***************************************************************************)
State == [poh |-> poh, rec |-> rec, ticks |-> ticks, sent |-> sent]

Becomes(st) ==
    /\ poh' = st.poh
    /\ rec' = st.rec
    /\ ticks' = st.ticks
    /\ sent' = st.sent

clear_bank(r) ==
    IF r.working = NoBank THEN r
    ELSE compute_leader_slot_tick_heights([r EXCEPT !.working = NoBank],
                                          next_leader_slot(r.working.slot))

TooEarly(r, tick) ==
    r.tick_height < r.working.min \/ (tick /\ r.tick_height = r.working.min)

(* The cached ticks up to a height go to the working bank and are sent. *)
SendTicks(st, max) ==
    LET cache == st.rec.tick_cache
        n == Cardinality({i \in DOMAIN cache : cache[i].height <= max})
        slot == st.rec.working.slot
    IN  [st EXCEPT !.ticks[slot] = @ + n,
                   !.sent[slot] = @ \o SubSeq(cache, 1, n),
                   !.rec.tick_cache = SubSeq(@, n + 1, Len(@))]

Finish(r) ==
    clear_bank([r EXCEPT !.start_bank = r.working.slot,
                         !.start_tick_height = r.working.slot * TICKS_PER_SLOT + 1])

flush_cache(st, tick) ==
    LET r == st.rec
        flushed == SendTicks(st, r.working.max)
    IN  IF r.working = NoBank THEN <<"MaxHeightReached", st>>
        ELSE IF TooEarly(r, tick) THEN <<"MinHeightNotReached", st>>
        ELSE <<"Ok", IF r.tick_height >= r.working.max THEN [flushed EXCEPT !.rec = Finish(@)]
                     ELSE flushed>>

(* The next entry of the hash chain, after its last hash. *)
Entry(p, kind, height) ==
    [kind |-> kind, height |-> height, hashes |-> p.num + 1, base |-> p.base, seq |-> p.seq + 1]

tick(st) ==
    LET p == st.poh
        hashed == [p EXCEPT !.num = @ + 1, !.remaining = @ - 1]
        r == [st.rec EXCEPT !.tick_height = @ + 1]
        entry == Entry(p, "tick", r.tick_height)
        ticked == [p EXCEPT !.remaining = HASHES_PER_TICK, !.num = 0, !.seq = @ + 1]
    IN  IF p.remaining # 1 THEN [st EXCEPT !.poh = hashed]
        ELSE IF r.leader_first = None THEN [st EXCEPT !.poh = ticked, !.rec = r]
        ELSE flush_cache([st EXCEPT !.poh = ticked,
                                    !.rec = [r EXCEPT !.tick_cache = Append(@, entry)]], TRUE)[2]

(* One round of record's loop. *)
RecordOnce(st, slot, tx) ==
    LET f == flush_cache(st, FALSE)
        p == st.poh
    IN  IF f[1] # "Ok" THEN f
        ELSE IF f[2].rec.working.slot # slot THEN <<"MaxHeightReached", f[2]>>
        ELSE IF p.remaining = 1 THEN <<"tick", f[2]>>
        ELSE <<"Ok", [f[2] EXCEPT
                  !.poh = [p EXCEPT !.remaining = @ - 1, !.num = 0, !.seq = @ + 1],
                  !.sent[slot] = Append(@, Entry(p, tx, f[2].rec.tick_height))]>>

record(st, slot, tx) ==
    LET once == RecordOnce(st, slot, tx)
    IN  IF once[1] = "tick" THEN RecordOnce(tick(once[2]), slot, tx) ELSE once

reset(st, bank, next) ==
    LET r == clear_bank(st.rec)
        height == max_tick_height(bank)
    IN  [st EXCEPT
           !.poh = [remaining |-> HASHES_PER_TICK, num |-> 0, base |-> bank, seq |-> 0],
           !.rec = compute_leader_slot_tick_heights(
                     [r EXCEPT !.tick_cache = << >>, !.start_bank = bank,
                               !.tick_height = height, !.start_tick_height = height + 1],
                     next)]

set_bank(st, slot) ==
    flush_cache([st EXCEPT !.rec.working = [slot |-> slot, min |-> st.ticks[slot],
                                            max |-> max_tick_height(slot)]], FALSE)[2]

(***************************************************************************)
(* reached_leader_slot: the leader's first tick is there, with the grace   *)
(* ticks unless the previous leader was this validator or is not on this   *)
(* fork.                                                                   *)
(***************************************************************************)
reached_leader_tick ==
    LET target == rec.leader_first - 1
        next_slot == slot_for_tick_height(rec.tick_height + 1)
        mine == Max({0, next_slot - 1}) \in MySlots
        previous == Max({0, next_slot - NUM_CONSECUTIVE_LEADER_SLOTS}) .. next_slot - 1
    IN  \/ rec.tick_height >= target
        \/ rec.start_tick_height + rec.grace_ticks = rec.leader_first
        \/ rec.tick_height >= target - rec.grace_ticks /\ (mine \/ rec.start_bank \notin previous)

-----------------------------------------------------------------------------
Init ==
    /\ received = {}
    /\ poh = [remaining |-> HASHES_PER_TICK, num |-> 0, base |-> 0, seq |-> 0]
    /\ rec = compute_leader_slot_tick_heights(
               [tick_height |-> TICKS_PER_SLOT, start_bank |-> 0,
                start_tick_height |-> TICKS_PER_SLOT + 1, tick_cache |-> << >>,
                working |-> NoBank, leader_first |-> None, leader_last |-> 0,
                grace_ticks |-> 0], next_leader_slot(0))
    /\ ticks = [s \in Slots |-> IF s = 0 THEN TICKS_PER_SLOT ELSE 0]
    /\ sent = [s \in Slots |-> << >>]
    /\ parent = [s \in Slots |-> None]
    /\ frozen = {0}
    /\ poh_pc = "hash"
    /\ queue = << >>
    /\ my_bank = [t \in Txs |-> None]
    /\ answer = [t \in Txs |-> "none"]
    /\ replay_pc = "top"
    /\ tpu_has_bank = FALSE
    /\ last_reset = None
    /\ next_bank = << >>
    /\ fault = {}

(***************************************************************************)
(* PoH service: record_or_hash and tick_producer.  Hashing holds only the  *)
(* lock of the clock; queued requests are recorded under one hold of the   *)
(* recorder's lock, until the queue is empty.                              *)
(***************************************************************************)
Hash ==
    /\ poh_pc = "hash"
    /\ rec.tick_height < MaxTick
    /\ LET n == Min({poh.remaining - 1, HASHES_PER_BATCH})
       IN  /\ poh' = [poh EXCEPT !.num = @ + n, !.remaining = @ - n]
           /\ poh_pc' = IF poh.remaining - n = 1 THEN "tick"
                        ELSE IF queue # << >> THEN "record" ELSE "hash"
    /\ UNCHANGED <<rec, ticks, sent, forks, received, queue, my_bank, answer, loop, fault>>

(* At the bound the clock stands still and only requests are served. *)
ServeAtBound ==
    /\ poh_pc = "hash"
    /\ rec.tick_height = MaxTick
    /\ queue # << >>
    /\ poh_pc' = "record"
    /\ UNCHANGED <<recorder, forks, received, queue, my_bank, answer, loop, fault>>

Tick ==
    /\ poh_pc = "tick"
    /\ Becomes(tick(State))
    /\ poh_pc' = "hash"
    /\ UNCHANGED <<forks, received, queue, my_bank, answer, loop, fault>>

(* Faulty variant: only a transaction that was recorded is answered. *)
RecordDropsRefused ==
    /\ poh_pc \in {"record", "recording"}
    /\ LET res == record(State, Head(queue).slot, Head(queue).tx)
       IN  /\ Becomes(res[2])
           /\ answer' = IF res[1] # "Ok" THEN answer
                        ELSE [answer EXCEPT ![Head(queue).tx] = "ok"]
    /\ queue' = Tail(queue)
    /\ poh_pc' = IF Tail(queue) = << >> THEN "hash" ELSE "recording"
    /\ UNCHANGED <<forks, received, my_bank, loop, fault>>

Record ==
    /\ poh_pc \in {"record", "recording"}
    /\ LET res == record(State, Head(queue).slot, Head(queue).tx)
       IN  /\ Becomes(res[2])
           /\ answer' = [answer EXCEPT ![Head(queue).tx] =
                           CASE res[1] = "Ok" -> "ok"
                             [] res[1] = "MaxHeightReached" -> "retry"
                             [] OTHER -> "panic"]
    /\ queue' = Tail(queue)
    /\ poh_pc' = IF Tail(queue) = << >> THEN "hash" ELSE "recording"
    /\ UNCHANGED <<forks, received, my_bank, loop, fault>>

(* The recorder's lock can be had. *)
RecorderFree == poh_pc # "recording"

(* A banking thread takes the recorder's bank, and executes in it for a while. *)
GetBank(tx) ==
    /\ answer[tx] \in {"none", "retry"}
    /\ RecorderFree
    /\ rec.working # NoBank
    /\ answer' = [answer EXCEPT ![tx] = "executing"]
    /\ my_bank' = [my_bank EXCEPT ![tx] = rec.working.slot]
    /\ UNCHANGED <<recorder, forks, received, poh_pc, queue, loop, fault>>

(* TransactionRecorder::record: a request, and waiting for its answer. *)
Request(tx) ==
    /\ answer[tx] = "executing"
    /\ queue' = Append(queue, [tx |-> tx, slot |-> my_bank[tx]])
    /\ answer' = [answer EXCEPT ![tx] = "waiting"]
    /\ UNCHANGED <<recorder, forks, received, poh_pc, my_bank, loop, fault>>

(* The broadcast stage has made shreds of a slot's first entries. *)
StoreShreds(slot) ==
    /\ sent[slot] # << >>
    /\ slot \notin received
    /\ received' = received \cup {slot}
    /\ UNCHANGED <<recorder, forks, service, loop, fault>>

(***************************************************************************)
(* The replay loop, which keeps whether the recorder had a bank from       *)
(* before it freezes banks until it may start a leader slot.               *)
(***************************************************************************)
ReadHasBank ==
    /\ replay_pc = "top"
    /\ RecorderFree
    /\ tpu_has_bank' = (rec.working # NoBank)
    /\ replay_pc' = "replay"
    /\ UNCHANGED <<recorder, forks, received, service, last_reset, next_bank, fault>>

is_complete(slot) == ticks[slot] = max_tick_height(slot)

(* Own complete banks are frozen; a block of another leader may be too. *)
replay_active_banks ==
    /\ replay_pc = "replay"
    /\ \E foreign \in SUBSET (Slots \ (MySlots \cup {0})), p \in frozen :
        /\ Cardinality(foreign) <= 1
        /\ \A s \in foreign : p < s /\ parent[s] = None
        /\ parent' = [s \in Slots |-> IF s \in foreign THEN p ELSE parent[s]]
        /\ ticks' = [s \in Slots |-> IF s \in foreign THEN max_tick_height(s) ELSE ticks[s]]
        /\ frozen' = frozen \cup foreign
                       \cup {s \in MySlots : parent[s] # None /\ is_complete(s)}
    /\ replay_pc' = "reset"
    /\ UNCHANGED <<poh, rec, sent, received, service, tpu_has_bank, last_reset, next_bank, fault>>

(* Faulty variant: whether there is a bank is read after the freezing. *)
ChooseResetAndLook(bank) ==
    /\ replay_pc = "reset"
    /\ IF bank = last_reset
       THEN replay_pc' = "start" /\ UNCHANGED next_bank
       ELSE replay_pc' = "lock" /\ next_bank' = <<bank, next_leader_slot(bank)>>
    /\ tpu_has_bank' = (rec.working # NoBank)
    /\ UNCHANGED <<recorder, forks, received, service, last_reset, fault>>

(* The bank to build on is chosen, and the leader slots after it looked up. *)
ChooseReset(bank) ==
    /\ replay_pc = "reset"
    /\ IF bank = last_reset
       THEN replay_pc' = "start" /\ UNCHANGED next_bank
       ELSE replay_pc' = "lock" /\ next_bank' = <<bank, next_leader_slot(bank)>>
    /\ UNCHANGED <<recorder, forks, received, service, last_reset, tpu_has_bank, fault>>

reset_poh_recorder ==
    /\ replay_pc = "lock"
    /\ RecorderFree
    /\ Becomes(reset(State, next_bank[1], next_bank[2]))
    /\ last_reset' = next_bank[1]
    /\ tpu_has_bank' = FALSE
    /\ replay_pc' = "start"
    /\ next_bank' = << >>
    /\ UNCHANGED <<forks, received, service, fault>>

(* Faulty variant: whether the slot already has a bank is not looked at. *)
StartWithoutLooking ==
    LET slot == slot_for_tick_height(rec.tick_height + 1)
    IN  /\ replay_pc = "start"
        /\ RecorderFree
        /\ \/ next_bank' = << >> /\ replay_pc' = "top"
           \/ /\ ~tpu_has_bank /\ rec.leader_first # None /\ reached_leader_tick
              /\ slot \in MySlots
              /\ next_bank' = <<slot, rec.start_bank>>
              /\ replay_pc' = "set"
        /\ UNCHANGED <<recorder, forks, received, service, tpu_has_bank, last_reset, fault>>

(* maybe_start_leader up to the choice of the bank, and its assertions. *)
maybe_start_leader ==
    LET reached == rec.leader_first # None /\ reached_leader_tick
        slot == slot_for_tick_height(rec.tick_height + 1)
    IN  /\ replay_pc = "start"
        /\ RecorderFree
        /\ fault' = IF tpu_has_bank THEN fault
                    ELSE fault \cup
                      {f \in {"has_bank", "start_tick", "parent_not_frozen"} :
                         CASE f = "has_bank" -> rec.working # NoBank
                           [] f = "start_tick" -> reached /\ rec.tick_height + 1 < rec.start_tick_height
                           [] f = "parent_not_frozen" -> reached /\ rec.start_bank \notin frozen}
        /\ \/ /\ next_bank' = << >>
              /\ replay_pc' = "top"
           \/ /\ ~tpu_has_bank /\ reached
              /\ slot \in MySlots /\ parent[slot] = None
              /\ next_bank' = <<slot, rec.start_bank>>
              /\ replay_pc' = "set"
        /\ UNCHANGED <<recorder, forks, received, service, tpu_has_bank, last_reset>>

(* The new bank is inserted in the forks and given to the recorder. *)
SetBank ==
    /\ replay_pc = "set"
    /\ RecorderFree
    /\ LET slot == next_bank[1]
           st == [State EXCEPT !.ticks[slot] = max_tick_height(next_bank[2])]
       IN  /\ Becomes(set_bank(st, slot))
           /\ parent' = [parent EXCEPT ![slot] = next_bank[2]]
    /\ replay_pc' = "top"
    /\ next_bank' = << >>
    /\ UNCHANGED <<frozen, received, service, tpu_has_bank, last_reset, fault>>

PohService == Hash \/ ServeAtBound \/ Tick \/ Record

ReplayLoop ==
    \/ ReadHasBank \/ replay_active_banks \/ maybe_start_leader \/ SetBank
    \/ reset_poh_recorder
    \/ \E b \in frozen : ChooseReset(b)

Next ==
    \/ PohService
    \/ ReplayLoop
    \/ \E tx \in Txs : GetBank(tx) \/ Request(tx)
    \/ \E s \in MySlots : StoreShreds(s)

Spec == Init /\ [][Next]_vars

(***************************************************************************)
(* The PoH service is a thread of its own that never waits: weak fairness  *)
(* of PohService, with the condition under which it is enabled written out.*)
(***************************************************************************)
ServiceEnabled == poh_pc # "hash" \/ rec.tick_height < MaxTick \/ queue # << >>

(* The heaviest fork settles: the replay loop does not reset for ever. *)
ForkSettles == <>[](replay_pc # "lock")

FairSpec == Spec /\ (<>[]ServiceEnabled => []<><<PohService>>_vars) /\ ForkSettles

-----------------------------------------------------------------------------
IsTick(e) == e.kind = "tick"

(* Types of the variables. *)
TypeOK ==
    /\ poh.remaining \in 1 .. HASHES_PER_TICK
    /\ rec.tick_height \in 0 .. MaxTick
    /\ rec.start_bank \in Slots
    /\ \A s \in Slots : ticks[s] \in 0 .. max_tick_height(s)
    /\ frozen \subseteq Slots
    /\ answer \in [Txs -> {"none", "executing", "waiting", "ok", "retry", "panic"}]
    /\ poh_pc \in {"hash", "tick", "record", "recording"}
    /\ replay_pc \in {"top", "replay", "reset", "lock", "start", "set"}

(***************************************************************************)
(* What a replaying validator will demand of the entries sent for a bank:  *)
(* the ticks have the heights from its parent's last on without a gap,     *)
(* every tick closes exactly HASHES_PER_TICK hashes, transactions carry the*)
(* height of the tick before them, and none follows the bank's last tick.  *)
(***************************************************************************)
BlocksWellFormed ==
    \A s \in {x \in MySlots : parent[x] # None} :
        LET es == sent[s]
            first == max_tick_height(parent[s])
            TicksTo(i) == Cardinality({j \in 1 .. i : IsTick(es[j])})
            Since(i) == {j \in 1 .. i : TicksTo(j) = TicksTo(i - 1) \/ j = i} \
                        {j \in 1 .. i - 1 : IsTick(es[j]) /\ TicksTo(j) = TicksTo(i - 1)}
        IN  \A i \in DOMAIN es :
              /\ es[i].height = first + TicksTo(i)
              /\ es[i].height <= max_tick_height(s)
              /\ IsTick(es[i]) => MapThenSumSet(LAMBDA j : es[j].hashes, Since(i)) = HASHES_PER_TICK
              /\ ~IsTick(es[i]) => es[i].height < max_tick_height(s)

(***************************************************************************)
(* A block's hash chain starts where its parent's ended: with a reset to   *)
(* the parent, or right after the parent's own last entry; it has no gap.  *)
(***************************************************************************)
BlocksChain ==
    \A s \in {x \in MySlots : sent[x] # << >>} :
        LET es == sent[s]
            up == sent[parent[s]]
        IN  /\ \/ es[1].seq = 1 /\ es[1].base = parent[s]
               \/ /\ up # << >>
                  /\ es[1].base = Last(up).base
                  /\ es[1].seq = Last(up).seq + 1
            /\ \A i \in 1 .. Len(es) - 1 :
                 es[i + 1].base = es[i].base /\ es[i + 1].seq = es[i].seq + 1

(***************************************************************************)
(* A transaction reported as recorded is in the entries exactly once, in   *)
(* the bank it was executed in; one reported as not recorded is in none.   *)
(* No answer is an error that makes the banking thread panic.              *)
(***************************************************************************)
RecordedOnce ==
    \A t \in Txs :
        LET places == UNION {{<<s, i>> : i \in {j \in DOMAIN sent[s] : sent[s][j].kind = t}}
                               : s \in MySlots}
        IN  /\ answer[t] # "panic"
            /\ IF answer[t] = "ok" THEN \E i \in DOMAIN sent[my_bank[t]] : places = {<<my_bank[t], i>>}
               ELSE places = {}

(***************************************************************************)
(* The assertions of maybe_start_leader hold (no bank is being worked on,  *)
(* the parent is frozen), and register_tick is never called on a bank that *)
(* is being frozen, although the PoH service may finish a bank at any      *)
(* moment of the replay loop.                                              *)
(***************************************************************************)
LeaderAssertionsHold ==
    /\ fault = {}
    /\ rec.working # NoBank => rec.working.slot \notin frozen

(* The blocks a leader makes will be replayed by others: they have their      *)
(* ticks, chain to their parents and hold each recorded transaction once, and *)
(* no assertion of the replay loop or of PohRecorder fails on the way.        *)
BlocksOK ==
    /\ TypeOK
    /\ BlocksWellFormed
    /\ BlocksChain
    /\ RecordedOnce
    /\ LeaderAssertionsHold

(* A validator makes at most one bank for each of its slots. *)
OneBankPerSlot ==
    [][\A s \in Slots : parent[s] # None => parent'[s] = parent[s] /\ ticks'[s] >= ticks[s]]_vars

(***************************************************************************)
(* Every record request is answered, and a bank being worked on is finished*)
(* or given up, because the clock goes on.                                 *)
(***************************************************************************)
EveryRequestAnswered == \A t \in Txs : answer[t] = "waiting" ~> answer[t] # "waiting"

BankFinishes == \A s \in MySlots : rec.working.slot = s ~> rec.working.slot # s

(* PohRecorder and PohService keep going: record requests are answered and *)
(* banks finish.                                                           *)
WorkFinishes ==
    /\ EveryRequestAnswered
    /\ BankFinishes

=============================================================================
