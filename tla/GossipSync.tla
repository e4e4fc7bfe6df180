------------------------------ MODULE GossipSync ------------------------------
(***************************************************************************)
(* How a gossip value of one label spreads: pushes that may be lost,       *)
(* repeated and reordered, and pull requests whose filter holds the hashes *)
(* of what the caller has, has purged and has refused                      *)
(* (gossip/src/crds_gossip_pull.rs, crds_gossip_push.rs).  The table is    *)
(* that of Crds, seen at this label; versions are numbered in the order of *)
(* overrides.  Time is abstract: versions become too old at any moment.    *)
(***************************************************************************)
EXTENDS Integers, FiniteSets

CONSTANTS
    Origin,         \* the owner of the label
    Networks        \* [peers, MaxVersion, MaxOutages]: the nodes each node pulls from; bounds
                    \* on the versions published and on the times the origin is not heard
                    \* for its timeout

ASSUME GossipAssumption ==
    /\ \A net \in Networks :
         /\ Origin \in DOMAIN net.peers /\ net.peers \in [DOMAIN net.peers -> SUBSET DOMAIN net.peers]
         /\ net.MaxVersion \in Nat /\ net.MaxOutages \in Nat

AllNodes == UNION {DOMAIN net.peers : net \in Networks}
None == 0           \* no value at the label

VARIABLES
    network,        \* one of Networks
    held,           \* the version in each table
    contact,        \* the contact info of the origin is in each table
    purged_hashes,         \* versions among each table's purged hashes
    failed_inserts, \* versions among each node's refused hashes
    sent,           \* versions pushed to each node
    pull,           \* the pull of each node that is under way
    late,           \* versions whose wallclock is out of the window of pushes
    expired,        \* versions older than the timeout of their owner
    version,        \* the newest version
    outages
tables == <<held, purged_hashes>>
ages == <<late, expired>>
syncVars == <<network, held, contact, purged_hashes, failed_inserts, sent, pull, late, expired, version, outages>>

NoPull == [stage |-> "none"]
Nodes == DOMAIN network.peers
Versions == 1 .. network.MaxVersion

-----------------------------------------------------------------------------
upserts(n, v) == v > held[n]

(* Crds::insert at this label. *)
insert_at(n, v) ==
    /\ held' = [held EXCEPT ![n] = IF upserts(n, v) THEN v ELSE @]
    /\ purged_hashes' = [purged_hashes EXCEPT ![n] = IF upserts(n, v) THEN @ \cup ({held[n]} \ {None})
                                       ELSE @ \cup ({v} \ {held[n]})]

(* The origin has a new value. *)
Publish ==
    /\ version < network.MaxVersion
    /\ version' = version + 1
    /\ insert_at(Origin, version + 1)
    /\ UNCHANGED <<contact, failed_inserts, sent, pull, late, expired, outages>>

(* new_push_messages, to a peer that has not pruned the origin. *)
Push(n, m) ==
    /\ n # m /\ held[n] # None /\ held[n] \notin late /\ held[n] \notin sent[m]
    /\ sent' = [sent EXCEPT ![m] = @ \cup {held[n]}]
    /\ UNCHANGED <<tables, contact, failed_inserts, pull, ages, version, outages>>

(* process_push_message; a message may arrive more than once, or never. *)
process_push_message(n, v) ==
    /\ v \in sent[n] /\ v \notin late
    /\ insert_at(n, v)
    /\ UNCHANGED <<contact, failed_inserts, sent, pull, ages, version, outages>>

(* new_pull_request, with the filters of build_crds_filters. *)
build_crds_filters(n) == ({held[n]} \ {None}) \cup purged_hashes[n] \cup failed_inserts[n]

new_pull_request(n, p) ==
    /\ pull[n] = NoPull /\ p \in network.peers[n]
    /\ pull' = [pull EXCEPT ![n] = [stage |-> "request", peer |-> p, filter |-> build_crds_filters(n)]]
    /\ UNCHANGED <<tables, contact, failed_inserts, sent, ages, version, outages>>

(* filter_crds_values.  A value may be left out: the bloom filter errs, the response has its *)
(* limit, the value may be newer than the caller's clock.                                    *)
filter_crds_values(n) ==
    /\ pull[n].stage = "request"
    /\ LET missing == {held[pull[n].peer]} \ ({None} \cup pull[n].filter)
       IN  \E full \in BOOLEAN :
             pull' = [pull EXCEPT ![n] = [stage |-> "response", peer |-> pull[n].peer, full |-> full,
                                          values |-> IF full THEN missing ELSE {}]]
    /\ UNCHANGED <<tables, contact, failed_inserts, sent, ages, version, outages>>

(* Faulty variant: what is older than its timeout is refused, whoever its owner is. *)
RefuseExpired(n, v) == upserts(n, v) /\ v \notin expired

(* filter_pull_responses takes a value: it is news, and young or of an owner that is known. *)
Takes(n, v) == upserts(n, v) /\ (v \notin expired \/ contact[n])

filter_pull_responses(n) ==
    /\ pull[n].stage = "response"
    /\ pull' = [pull EXCEPT ![n] = [stage |-> "filtered", peer |-> @.peer, full |-> @.full,
                                    taken |-> {v \in @.values : Takes(n, v)},
                                    failed |-> {v \in @.values : ~Takes(n, v)}]]
    /\ UNCHANGED <<tables, contact, failed_inserts, sent, ages, version, outages>>

(* The table may have changed since the values were filtered. *)
process_pull_responses(n) ==
    /\ pull[n].stage = "filtered"
    /\ IF pull[n].taken = {} THEN UNCHANGED tables ELSE \E v \in pull[n].taken : insert_at(n, v)
    /\ failed_inserts' = [failed_inserts EXCEPT ![n] = @ \cup pull[n].failed]
    /\ pull' = [pull EXCEPT ![n] = NoPull]
    /\ UNCHANGED <<contact, sent, ages, version, outages>>

(* A request or a response is lost. *)
Lose(n) ==
    /\ pull[n].stage \in {"request", "response"}
    /\ pull' = [pull EXCEPT ![n] = NoPull]
    /\ UNCHANGED <<tables, contact, failed_inserts, sent, ages, version, outages>>

(* The contact info of the origin arrives, with a pull request of its own or from a peer. *)
process_pull_requests(n) ==
    /\ ~contact[n]
    /\ contact' = [contact EXCEPT ![n] = TRUE]
    /\ UNCHANGED <<tables, failed_inserts, sent, pull, ages, version, outages>>

(* CrdsGossip::purge at a node that has not heard of the origin for the timeout. *)
purge_active_at(n) ==
    /\ n # Origin /\ contact[n] /\ outages < network.MaxOutages
    /\ contact' = [contact EXCEPT ![n] = FALSE]
    /\ held' = [held EXCEPT ![n] = None]
    /\ purged_hashes' = [purged_hashes EXCEPT ![n] = @ \cup ({held[n]} \ {None})]
    /\ outages' = outages + 1
    /\ UNCHANGED <<failed_inserts, sent, pull, ages, version>>

(* trim_purged and purge_failed_inserts, when the retention time of a hash is over. *)
TrimPurged(n, v) ==
    /\ v \in purged_hashes[n]
    /\ purged_hashes' = [purged_hashes EXCEPT ![n] = @ \ {v}]
    /\ UNCHANGED <<held, contact, failed_inserts, sent, pull, ages, version, outages>>

purge_failed_inserts(n, v) ==
    /\ v \in failed_inserts[n]
    /\ failed_inserts' = [failed_inserts EXCEPT ![n] = @ \ {v}]
    /\ UNCHANGED <<tables, contact, sent, pull, ages, version, outages>>

(* Time passes. *)
Age(v) ==
    /\ v <= version
    /\ \/ v \notin late /\ late' = late \cup {v} /\ UNCHANGED expired
       \/ v \notin expired /\ expired' = expired \cup {v} /\ UNCHANGED late
    /\ UNCHANGED <<tables, contact, failed_inserts, sent, pull, version, outages>>

-----------------------------------------------------------------------------
SyncInit ==
    /\ network \in Networks
    /\ held = [n \in Nodes |-> None] /\ contact = [n \in Nodes |-> n = Origin]
    /\ purged_hashes = [n \in Nodes |-> {}] /\ failed_inserts = [n \in Nodes |-> {}]
    /\ sent = [n \in Nodes |-> {}] /\ pull = [n \in Nodes |-> NoPull]
    /\ late = {} /\ expired = {} /\ version = 0 /\ outages = 0

SyncNext ==
    /\ UNCHANGED network
    /\ \/ Publish
       \/ \E n, m \in Nodes : Push(n, m) \/ new_pull_request(n, m)
       \/ \E n \in Nodes : \/ filter_crds_values(n) \/ filter_pull_responses(n)
                           \/ process_pull_responses(n) \/ Lose(n)
                           \/ process_pull_requests(n) \/ purge_active_at(n)
       \/ \E n \in Nodes, v \in Versions :
            process_push_message(n, v) \/ TrimPurged(n, v) \/ purge_failed_inserts(n, v)
       \/ \E v \in Versions : Age(v)

SyncSpec == SyncInit /\ [][SyncNext]_syncVars

(* Every node goes on pulling from each of its peers, and not every reply is lost or cut. *)
PullsSucceed ==
    \A n, p \in AllNodes :
        /\ []<>(n \in Nodes => pull[n] = NoPull)
        /\ []<>(n \in Nodes /\ p \in network.peers[n] =>
                  pull[n].stage = "filtered" /\ pull[n].peer = p /\ pull[n].full)

(* The origin goes on announcing itself; retention times pass. *)
TimePasses ==
    \A n \in AllNodes :
        /\ []<>(n \in Nodes => contact[n])
        /\ []<>(n \in Nodes => version \notin purged_hashes[n])
        /\ []<>(n \in Nodes => version \notin failed_inserts[n])

SyncFairness == PullsSucceed /\ TimePasses

-----------------------------------------------------------------------------
(* Every node ends up with the newest value of the origin and keeps it, although pushes may *)
(* all be lost, replies are late, values age, and hashes it has purged or refused are kept  *)
(* out of its pulls for a time.                                                             *)
Converges == <>[](\A n \in Nodes : held[n] = version)
=============================================================================
