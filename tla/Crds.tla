--------------------------------- MODULE Crds ---------------------------------
(***************************************************************************)
(* The table of gossip values of one node and its indices                  *)
(* (gossip/src/crds.rs).  A value replaces another of its label by an      *)
(* order all nodes agree on.  The table is an IndexMap: an entry that is   *)
(* removed is replaced by the last one, so that every index that names the *)
(* last entry has to be moved.  Consumers read what was inserted since     *)
(* their cursor.                                                           *)
(***************************************************************************)
EXTENDS Integers, Sequences, FiniteSets, FiniteSetsExt, SequencesExt, Functions

CONSTANTS
    Pubkeys,
    Settings,       \* [values, push_fanout, MaxNow, MaxPurged]: the gossip values that may arrive,
                    \* the number of peers values are pushed to (0 without an active set), and
                    \* bounds on the clock and on purged hashes
    Stake,          \* of each pubkey
    Order,          \* of each pubkey among those of equal stake
    Keep,           \* pubkeys that are never trimmed: this node, its entrypoints
    Cap,            \* number of pubkeys the table is trimmed to
    crds_timeout,
    Timeouts,       \* of each pubkey: the age at which its values are old
    Retention,      \* time a purged hash is kept: 5 * crds_timeout
    max_bytes,      \* of one round of pushes, in values
    msg_timeout,    \* a value is pushed while its wallclock is this near
    MaxOrdinal      \* bound on inserts that succeed

Kinds == {"ContactInfo", "Vote", "EpochSlots", "NodeInstance"}
(* timestamp and token are those of a NodeInstance. *)
Value == [kind : Kinds, pubkey : Pubkeys, wallclock : Nat, hash : Nat, timestamp : Nat, token : Nat]

SameInstance(v, w) == v.kind = "NodeInstance" /\ w.kind = v.kind /\ v.token = w.token

ASSUME CrdsAssumption ==
    /\ \A s \in Settings : /\ s.values \subseteq Value
                           /\ {s.push_fanout, s.MaxNow, s.MaxPurged} \subseteq Nat
    /\ \A s \in Settings : \A v, w \in s.values :
         (v.hash = w.hash => v = w) /\ (SameInstance(v, w) => v.timestamp = w.timestamp)
    /\ Stake \in [Pubkeys -> Nat] /\ Order \in [Pubkeys -> Nat] /\ Keep \subseteq Pubkeys
    /\ Timeouts \in [Pubkeys -> Nat]
    /\ {Cap, crds_timeout, Retention, max_bytes, msg_timeout, MaxOrdinal} \subseteq Nat

label(v) == <<v.kind, v.pubkey>>

VARIABLES
    setting,        \* one of Settings
    table,          \* sequence of [value, ordinal, local_timestamp], one of a label
    cursor,         \* next ordinal
    nodes,          \* indices of contact infos
    by_kind,        \* votes and epoch_slots: the index of each ordinal
    entries,        \* the index of each ordinal
    records,        \* the indices of each pubkey that has some
    shred_versions, \* of each pubkey, identified by the contact info that told it
    shards,         \* pairs of an index and a hash
    purged,         \* sequence of [hash, timestamp]
    now,
    purging,        \* the time of a purge that has yet to trim the hashes, or 0
    vote_cursor,    \* of a consumer of votes
    votes_seen,     \* votes it was given
    push_cursor,    \* crds_cursor of the push overlay
    pushed,         \* values it has pushed
    heard,          \* ghost: values received for each label since it was last vacant
    refreshed       \* ghost: when each pubkey was last known to be alive
consumers == <<vote_cursor, votes_seen, push_cursor, pushed>>
crds == <<table, nodes, by_kind, entries, records, shred_versions, shards, purged>>
crdsVars == <<setting, crds, cursor, now, purging, consumers, heard, refreshed>>

Labels == {label(v) : v \in setting.values}

(* Where a label is in a table. *)
At(t, l) == {i \in DOMAIN t : label(t[i].value) = l}
IndexIn(t, l) == CHOOSE i \in At(t, l) : TRUE

-----------------------------------------------------------------------------
(* The first value updates the second. *)
overrides(value, other) ==
    IF value.kind = "NodeInstance" /\ value.token # other.token
    THEN \/ value.timestamp > other.timestamp
         \/ value.timestamp = other.timestamp /\ value.token > other.token
    ELSE \/ value.wallclock > other.wallclock
         \/ value.wallclock = other.wallclock /\ value.hash > other.hash

(* An index from ordinals without ordinal o. *)
Without(f, o) == [p \in DOMAIN f \ {o} |-> f[p]]
With(f, o, i) == [p \in DOMAIN f \cup {o} |-> IF p = o THEN i ELSE f[p]]

(* The indices after the entry of an ordinal, of this kind, went or came at index i. *)
KindWithout(f, kind, o) == [k \in DOMAIN f |-> IF k = kind THEN Without(f[k], o) ELSE f[k]]
KindWith(f, kind, o, i) == [k \in DOMAIN f |-> IF k = kind THEN With(f[k], o, i) ELSE f[k]]

RecordsWithout(r, pubkey, i) ==
    [k \in DOMAIN r \ (IF r[pubkey] \subseteq {i} THEN {pubkey} ELSE {}) |-> IF k = pubkey THEN r[k] \ {i} ELSE r[k]]
RecordsWith(r, pubkey, i) ==
    [k \in DOMAIN r \cup {pubkey} |-> IF k = pubkey THEN {i} \cup (IF k \in DOMAIN r THEN r[k] ELSE {}) ELSE r[k]]

Crds == [table |-> table, nodes |-> nodes, by_kind |-> by_kind, entries |-> entries, records |-> records,
         shred_versions |-> shred_versions, shards |-> shards, purged |-> purged]

Becomes(c) ==
    /\ table' = c.table /\ nodes' = c.nodes /\ by_kind' = c.by_kind /\ entries' = c.entries
    /\ records' = c.records /\ shred_versions' = c.shred_versions /\ shards' = c.shards /\ purged' = c.purged

Purged(v) == [hash |-> v.hash, timestamp |-> now]

(* insert, for a value whose label is vacant. *)
InsertVacant(c, v) ==
    LET i == Len(c.table) + 1
    IN  [table   |-> Append(c.table, [value |-> v, ordinal |-> cursor, local_timestamp |-> now]),
         nodes   |-> IF v.kind = "ContactInfo" THEN c.nodes \cup {i} ELSE c.nodes,
         by_kind |-> KindWith(c.by_kind, v.kind, cursor, i),
         entries |-> With(c.entries, cursor, i),
         records |-> RecordsWith(c.records, v.pubkey, i),
         shred_versions |-> IF v.kind = "ContactInfo" THEN With(c.shred_versions, v.pubkey, v.hash) ELSE c.shred_versions,
         shards  |-> c.shards \cup {<<i, v.hash>>},
         purged  |-> c.purged]

(* insert, for a value that overrides the one at index i. *)
InsertOccupied(c, v, i) ==
    LET old == c.table[i]
    IN  [table   |-> [c.table EXCEPT ![i] = [value |-> v, ordinal |-> cursor, local_timestamp |-> now]],
         nodes   |-> c.nodes,
         by_kind |-> KindWith(KindWithout(c.by_kind, v.kind, old.ordinal), v.kind, cursor, i),
         entries |-> With(Without(c.entries, old.ordinal), cursor, i),
         records |-> c.records,
         shred_versions |-> IF v.kind = "ContactInfo" THEN With(c.shred_versions, v.pubkey, v.hash) ELSE c.shred_versions,
         shards  |-> (c.shards \ {<<i, old.value.hash>>}) \cup {<<i, v.hash>>},
         purged  |-> Append(c.purged, Purged(old.value))]

insert(v) ==
    LET at == At(table, label(v))
        i == IndexIn(table, label(v))
    IN  /\ cursor < MaxOrdinal /\ Len(purged) < setting.MaxPurged
        /\ \/ /\ at = {}
              /\ Becomes(InsertVacant(Crds, v))
              /\ cursor' = cursor + 1
           \/ /\ at # {} /\ overrides(v, table[i].value)
              /\ Becomes(InsertOccupied(Crds, v, i))
              /\ cursor' = cursor + 1
           \/ /\ at # {} /\ ~overrides(v, table[i].value)
              /\ Becomes([Crds EXCEPT !.purged = IF table[i].value = v THEN @ ELSE Append(@, Purged(v))])
              /\ UNCHANGED cursor
        /\ heard' = [heard EXCEPT ![label(v)] = IF at = {} THEN {v} ELSE @ \cup {v}]
        /\ refreshed' = IF v.kind = "ContactInfo" /\ cursor' # cursor
                        THEN [refreshed EXCEPT ![v.pubkey] = now] ELSE refreshed
        /\ UNCHANGED <<now, purging, consumers>>

-----------------------------------------------------------------------------
(* The indices after swap_remove has moved the last entry to the place of the removed one. *)
Moved(c, from, to) ==
    LET moved == c.table[to]
    IN  [c EXCEPT
            !.shards = (@ \ {<<from, moved.value.hash>>}) \cup {<<to, moved.value.hash>>},
            !.nodes = IF moved.value.kind = "ContactInfo" THEN (@ \ {from}) \cup {to} ELSE @,
            !.by_kind = KindWith(@, moved.value.kind, moved.ordinal, to),
            !.entries = With(@, moved.ordinal, to),
            !.records = [@ EXCEPT ![moved.value.pubkey] = (@ \ {from}) \cup {to}]]

remove(c, l) ==
    LET i == IndexIn(c.table, l)
        gone == c.table[i]
        size == Len(c.table)
        pubkey == gone.value.pubkey
        records_left == RecordsWithout(c.records, pubkey, i)
        without ==
            [table   |-> SubSeq(IF i < size THEN [c.table EXCEPT ![i] = c.table[size]] ELSE c.table, 1, size - 1),
             nodes   |-> c.nodes \ (IF gone.value.kind = "ContactInfo" THEN {i} ELSE {}),
             by_kind |-> KindWithout(c.by_kind, gone.value.kind, gone.ordinal),
             entries |-> Without(c.entries, gone.ordinal),
             records |-> records_left,
             shred_versions |-> IF pubkey \in DOMAIN records_left THEN c.shred_versions
                                ELSE Without(c.shred_versions, pubkey),
             shards  |-> c.shards \ {<<i, gone.value.hash>>},
             purged  |-> Append(c.purged, Purged(gone.value))]
    IN  IF At(c.table, l) = {} THEN c ELSE IF i < size THEN Moved(without, size, i) ELSE without

(* The labels of a set are removed one by one, in an order that is not specified. *)
RemoveAll(labels) ==
    /\ \E order \in SetToSeqs(labels) : Becomes(FoldSeq(LAMBDA l, c : remove(c, l), Crds, order))
    /\ heard' = [l \in Labels |-> IF l \in labels THEN {} ELSE heard[l]]

LabelsAt(indices) == {label(table[i].value) : i \in indices}

find_old_labels ==
    LET Expired(i) == table[i].local_timestamp + Timeouts[table[i].value.pubkey] <= now
        evict(pubkey) ==
            IF \E i \in At(table, <<"ContactInfo", pubkey>>) : ~Expired(i)
            THEN {} ELSE {i \in records[pubkey] : Expired(i)}
    IN  LabelsAt(UNION {evict(pubkey) : pubkey \in DOMAIN records})

(* CrdsGossip::purge takes the lock twice: for the old values and for the hashes. *)
purge_active ==
    /\ purging = 0 /\ now > 0
    /\ IF now > crds_timeout THEN RemoveAll(find_old_labels) ELSE UNCHANGED <<crds, heard>>
    /\ purging' = now
    /\ UNCHANGED <<cursor, now, consumers, refreshed>>

trim_purged ==
    LET kept == {k \in DOMAIN purged : purged[k].timestamp >= purging - Retention}
        first == IF kept = {} THEN Len(purged) + 1 ELSE Min(kept)
    IN  /\ purging > 0
        /\ purged' = SubSeq(purged, first, Len(purged))
        /\ purging' = 0
        /\ UNCHANGED <<table, nodes, by_kind, entries, records, shred_versions, shards,
                       cursor, now, consumers, heard, refreshed>>

(* Pubkeys by stake, then by their bytes. *)
Below(k, l) == Stake[k] < Stake[l] \/ (Stake[k] = Stake[l] /\ Order[k] < Order[l])

(* The pubkeys drop takes: the given number of those with the lowest stake, less those to keep. *)
Dropped(size) ==
    {k \in DOMAIN records : Cardinality({l \in DOMAIN records : Below(l, k)}) < size} \ Keep

trim ==
    LET count == Cardinality(DOMAIN records)
    IN  /\ 10 * count > 11 * Cap
        /\ \E k \in Pubkeys : Stake[k] > 0
        /\ RemoveAll(LabelsAt(UNION {records[k] : k \in Dropped(count - Cap)}))
        /\ UNCHANGED <<cursor, now, purging, consumers, refreshed>>

update_record_timestamp(pubkey) ==
    LET origin == At(table, <<"ContactInfo", pubkey>>)
        updated == IF origin # {} THEN origin ELSE IF pubkey \in DOMAIN records THEN records[pubkey] ELSE {}
    IN  /\ table' = [i \in DOMAIN table |->
                        IF i \in updated THEN [table[i] EXCEPT !.local_timestamp = Max({@, now})] ELSE table[i]]
        /\ refreshed' = [refreshed EXCEPT ![pubkey] = now]
        /\ UNCHANGED <<nodes, by_kind, entries, records, shred_versions, shards, purged,
                       cursor, now, purging, consumers, heard>>

(* Faulty variant: the cursor goes to the next insert, past votes that are yet to be read. *)
GetOneVote ==
    LET new == {o \in DOMAIN by_kind["Vote"] : o >= vote_cursor}
    IN  /\ new # {}
        /\ votes_seen' = votes_seen \cup {table[by_kind["Vote"][Min(new)]].value}
        /\ vote_cursor' = cursor
        /\ UNCHANGED <<crds, cursor, now, purging, heard, refreshed, push_cursor, pushed>>

(* get_votes, read by its caller to any length. *)
get_votes ==
    LET new == {o \in DOMAIN by_kind["Vote"] : o >= vote_cursor}
    IN  \E last \in new :
          /\ votes_seen' = votes_seen \cup {table[by_kind["Vote"][o]].value : o \in {p \in new : p <= last}}
          /\ vote_cursor' = Max({vote_cursor, last + 1})
          /\ UNCHANGED <<crds, cursor, now, purging, heard, refreshed, push_cursor, pushed>>

(* new_push_messages: the entries since the cursor, in order.  The one that makes the round *)
(* too long has been consumed when the loop breaks.                                         *)
new_push_messages ==
    LET new == SetToSortSeq({o \in DOMAIN entries : o >= push_cursor}, <)
        ValueAt(k) == table[entries[new[k]]].value
        InWindow(k) == ValueAt(k).wallclock + msg_timeout >= now /\ ValueAt(k).wallclock <= now + msg_timeout
        Before(k) == Cardinality({j \in 1 .. k : InWindow(j)})
        consumed == {k \in DOMAIN new : k = 1 \/ Before(k - 1) <= max_bytes}
    IN  /\ setting.push_fanout > 0 /\ new # << >>
        /\ push_cursor' = new[Max(consumed)] + 1
        /\ pushed' = pushed \cup {ValueAt(k) : k \in {j \in consumed : InWindow(j) /\ Before(j) <= max_bytes}}
        /\ UNCHANGED <<crds, cursor, now, purging, heard, refreshed, vote_cursor, votes_seen>>

Tick ==
    /\ now < setting.MaxNow
    /\ now' = now + 1
    /\ UNCHANGED <<crds, cursor, purging, consumers, heard, refreshed>>

-----------------------------------------------------------------------------
Empty == [o \in {} |-> 0]

CrdsInit ==
    /\ table = << >> /\ cursor = 0 /\ nodes = {} /\ entries = Empty /\ records = [k \in {} |-> {}]
    /\ by_kind = [k \in {"Vote", "EpochSlots"} |-> Empty]
    /\ shred_versions = Empty /\ shards = {} /\ purged = << >>
    /\ now = 0 /\ purging = 0 /\ vote_cursor = 0 /\ votes_seen = {} /\ push_cursor = 0 /\ pushed = {}
    /\ setting \in Settings
    /\ heard = [l \in Labels |-> {}] /\ refreshed = [k \in Pubkeys |-> 0]

CrdsNext ==
    /\ UNCHANGED setting
    /\ \/ \E v \in setting.values : insert(v)
       \/ purge_active
       \/ trim_purged
       \/ trim
       \/ \E pubkey \in {v.pubkey : v \in setting.values} : update_record_timestamp(pubkey)
       \/ get_votes
       \/ new_push_messages
       \/ Tick

CrdsSpec == CrdsInit /\ [][CrdsNext]_crdsVars

-----------------------------------------------------------------------------
(* The state of the table and its indices. *)
CrdsTypeOK ==
    /\ \A i \in DOMAIN table : table[i] \in
                                        [value : setting.values, ordinal : 0 .. cursor - 1,
                                         local_timestamp : 0 .. now]
    /\ cursor \in 0 .. MaxOrdinal /\ nodes \subseteq Nat /\ shards \subseteq Nat \X Nat
    /\ \A k \in DOMAIN by_kind : Range(by_kind[k]) \subseteq Nat
    /\ \A k \in 1 .. Len(purged) : purged[k].timestamp \in 0 .. now
    /\ purging \in 0 .. now /\ vote_cursor \in 0 .. cursor

(* Every index of insert, remove and trim says what the table says, also after removals    *)
(* have moved the last entry to another place: contact infos, votes, epoch slots, entries, *)
(* records, shards, and a shred version for every node with a contact info.                *)
IndicesMatchTable ==
    /\ \A i, j \in DOMAIN table : label(table[i].value) = label(table[j].value) => i = j
    /\ nodes = {i \in DOMAIN table : table[i].value.kind = "ContactInfo"}
    /\ \A k \in DOMAIN by_kind :
         LET mine == {i \in DOMAIN table : table[i].value.kind = k}
         IN  /\ DOMAIN by_kind[k] = {table[i].ordinal : i \in mine}
             /\ \A i \in mine : by_kind[k][table[i].ordinal] = i
    /\ DOMAIN entries = {table[i].ordinal : i \in DOMAIN table}
    /\ \A i \in DOMAIN table : entries[table[i].ordinal] = i
    /\ DOMAIN records = {table[i].value.pubkey : i \in DOMAIN table}
    /\ \A k \in DOMAIN records : records[k] = {i \in DOMAIN table : table[i].value.pubkey = k}
    /\ shards = {<<i, table[i].value.hash>> : i \in DOMAIN table}
    /\ DOMAIN shred_versions \subseteq DOMAIN records
    /\ \A i \in nodes : shred_versions[table[i].value.pubkey] = table[i].value.hash

(* What nodes compare, as tuples in lexicographic order. *)
Rank(v) == IF v.kind = "NodeInstance" THEN <<v.timestamp, v.token, v.wallclock, v.hash>>
           ELSE <<v.wallclock, v.hash>>
RankBelow(v, w) ==
    \E k \in DOMAIN Rank(v) : Rank(v)[k] < Rank(w)[k] /\ \A j \in 1 .. k - 1 : Rank(v)[j] = Rank(w)[j]

(* The value held is the greatest of those received since its label was vacant, in one total *)
(* order: two nodes that received the same values in any order hold the same one.            *)
WinnerIsGreatest ==
    \A i \in DOMAIN table : \A v \in heard[label(table[i].value)] :
        v = table[i].value \/ RankBelow(v, table[i].value)

(* A consumer of get_votes has been given every vote of the table that its cursor is past, *)
(* although votes are replaced and their entries moved between its reads.                  *)
ConsumerMissesNothing ==
    \A i \in DOMAIN table :
        table[i].value.kind = "Vote" /\ table[i].ordinal < vote_cursor => table[i].value \in votes_seen

(* Every value of the table that the cursor of the push overlay is past was pushed, or was *)
(* out of the window when its turn came.                                                   *)
PushedOrPending ==
    \A i \in DOMAIN table :
        table[i].ordinal < push_cursor => \/ table[i].value \in pushed
                                          \/ table[i].value.wallclock + msg_timeout < now
                                          \/ table[i].value.wallclock > msg_timeout

(* The indices of Crds are exact, the greatest value wins, and those who read  *)
(* by ordinal miss nothing, whatever is inserted, replaced, trimmed and purged *)
(* in between.                                                                 *)
CrdsExact ==
    /\ CrdsTypeOK
    /\ IndicesMatchTable
    /\ WinnerIsGreatest
    /\ ConsumerMissesNothing
    /\ PushedOrPending

=============================================================================
