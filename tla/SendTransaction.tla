---------------------------- MODULE SendTransaction ----------------------------
(***************************************************************************)
(* The service that sends the transactions of RPC clients to the leaders   *)
(* and sends them again until their fate is known                          *)
(* (send-transaction-service/src/send_transaction_service.rs), over forks  *)
(* on which a transaction may land, be lost, fail or expire.               *)
(***************************************************************************)
EXTENDS Integers, FiniteSets, FiniteSetsExt

CONSTANTS
    Clients,        \* what clients may ask for: for each transaction (signature)
                    \* whether it uses a durable nonce, all of one account, and
                    \* its max_retries or NoLimit
    MaxHeight,      \* bound on block heights; there are two forks
    MAX_TRANSACTION_QUEUE_SIZE,
    MAX_RECENT_BLOCKHASHES,
    MAX_PROCESSING_AGE

NoLimit == -1
Banks == (0..MaxHeight) \X {1, 2}
Genesis == <<0, 1>>
NoBank == <<-1, 0>>
OldHash == <<0, 2>>     \* a block before, whose hash the nonce account holds at first

ASSUME SendTransactionAssumption ==
    /\ \A c \in Clients : c \in [DOMAIN c -> [nonce : BOOLEAN, max_retries : Nat \cup {NoLimit}]]
    /\ MaxHeight \in Nat /\ MAX_TRANSACTION_QUEUE_SIZE \in Nat
    /\ MAX_PROCESSING_AGE \in Nat /\ MAX_RECENT_BLOCKHASHES \in Nat
    /\ MAX_PROCESSING_AGE < MAX_RECENT_BLOCKHASHES

VARIABLES
    clients,        \* the transactions there are, and their kinds
    ancestors,      \* of each bank, itself included; a bank is its height and fork
    status,         \* of each transaction in each bank: "none", "ok" or "err"
    nonce,          \* in each bank, the bank whose hash the nonce account holds
    root,
    signed,         \* the block hash, or the nonce, each transaction was signed with
    sent,           \* transactions on their way to a leader
    transactions,   \* waiting, with last_valid_block_height and retries
    dropped         \* why a transaction was dropped last, or "no"
sendVars == <<clients, ancestors, status, nonce, root, signed, sent, transactions, dropped>>

Txs == DOMAIN clients
NonceTxs == {t \in Txs : clients[t].nonce}
max_retries(t) == clients[t].max_retries

-----------------------------------------------------------------------------
(* Banks *)

Exists == {b \in Banks : ancestors[b] # {}}
Slot(b) == 2 * b[1] + b[2]
Chain(b) == ancestors[b]

working_bank == CHOOSE b \in Exists : \A c \in Exists : Slot(c) <= Slot(b)

(* The transaction's status on the fork of a bank; no fork has two. *)
get_signature_status(b, t) ==
    IF \E c \in Chain(b) : status[c][t] # "none"
    THEN status[CHOOSE c \in Chain(b) : status[c][t] # "none"][t]
    ELSE "none"
has_signature(b, t) == get_signature_status(b, t) # "none"

(* check_age: a child of bank b accepts the transaction's block hash or nonce. *)
Processable(b, t) ==
    IF t \in NonceTxs THEN nonce[b] = signed[t]
    ELSE signed[t] \in Chain(b) /\ b[1] - signed[t][1] <= MAX_PROCESSING_AGE

get_blockhash_last_valid_block_height(b, hash) ==
    IF hash \in Chain(b) /\ b[1] - hash[1] <= MAX_RECENT_BLOCKHASHES
    THEN b[1] + MAX_RECENT_BLOCKHASHES - (b[1] - hash[1])
    ELSE 0

NewBank(b, p, landed, failed, advance) ==
    /\ b[1] = p[1] + 1 /\ b \notin Exists /\ p \in Exists /\ root \in Chain(p)
    /\ Slot(b) > Slot(working_bank)
    /\ \A t \in landed : Processable(p, t) /\ ~has_signature(p, t)
    /\ Cardinality(landed \cap NonceTxs) + (IF advance THEN 1 ELSE 0) <= 1
    /\ ancestors' = [ancestors EXCEPT ![b] = ancestors[p] \cup {b}]
    /\ status' = [status EXCEPT ![b] = [t \in Txs |-> IF t \in failed THEN "err"
                                                      ELSE IF t \in landed THEN "ok" ELSE "none"]]
    /\ nonce' = [nonce EXCEPT ![b] = IF advance \/ landed \cap NonceTxs # {} THEN p ELSE nonce[p]]
    /\ UNCHANGED <<clients, root, signed, sent, transactions, dropped>>

(* Other forks are pruned. *)
SetRoot(b) ==
    /\ b \in Exists /\ root \in Chain(b) /\ b # root
    /\ root' = b
    /\ ancestors' = [c \in Banks |-> IF c \in Chain(b) \/ b \in Chain(c) THEN ancestors[c] ELSE {}]
    /\ status' = [c \in Banks |-> IF ancestors'[c] # {} THEN status[c] ELSE [t \in Txs |-> "none"]]
    /\ nonce' = [c \in Banks |-> IF ancestors'[c] # {} THEN nonce[c] ELSE OldHash]
    /\ UNCHANGED <<clients, signed, sent, transactions, dropped>>

-----------------------------------------------------------------------------
(* The service *)

(* RPC's send_transaction, simulated on a preflight bank, and its receipt by the thread. *)
Submit(t, preflight) ==
    /\ preflight \in Exists /\ root \in Chain(preflight)
    /\ preflight[1] + MAX_RECENT_BLOCKHASHES < MaxHeight
    /\ LET fresh == signed[t] = NoBank
           hash == IF ~fresh THEN signed[t] ELSE IF t \in NonceTxs THEN nonce[preflight] ELSE preflight
           last_valid_block_height ==
                IF t \in NonceTxs THEN preflight[1] + MAX_RECENT_BLOCKHASHES
                ELSE get_blockhash_last_valid_block_height(preflight, hash)
       IN  /\ fresh \/ (Processable(preflight, t) /\ ~has_signature(preflight, t))
           /\ signed' = [signed EXCEPT ![t] = hash]
           /\ IF t \in DOMAIN transactions THEN UNCHANGED <<sent, transactions, dropped>>
              ELSE /\ sent' = sent \cup {t}
                   /\ IF Cardinality(DOMAIN transactions) < MAX_TRANSACTION_QUEUE_SIZE
                      THEN /\ transactions' = [u \in DOMAIN transactions \cup {t} |->
                                IF u = t THEN [last_valid_block_height |-> last_valid_block_height, retries |-> 0]
                                ELSE transactions[u]]
                           /\ dropped' = [dropped EXCEPT ![t] = "no"]
                      ELSE /\ dropped' = [dropped EXCEPT ![t] = "overflow"]
                           /\ UNCHANGED transactions
    /\ UNCHANGED <<clients, ancestors, status, nonce, root>>

(* A packet is lost, or never used by a leader. *)
Lose(t) ==
    /\ t \in sent
    /\ sent' = sent \ {t}
    /\ UNCHANGED <<clients, ancestors, status, nonce, root, signed, transactions, dropped>>

nonce_advanced(t) == t \in NonceTxs /\ nonce[working_bank] # signed[t]

(* Faulty variant: expiry is looked at on the working bank. *)
FateByWorkingBank(t) ==
    IF has_signature(root, t) THEN "rooted"
    ELSE IF transactions[t].last_valid_block_height < working_bank[1] THEN "expired"
    ELSE IF get_signature_status(working_bank, t) = "none" THEN "retry" ELSE "retain"

(* Why a waiting transaction is dropped, or that it is sent again or kept. *)
Fate(t) ==
    LET info == transactions[t]
        landed == get_signature_status(working_bank, t)
    IN  IF has_signature(root, t) THEN "rooted"
        ELSE IF nonce_advanced(t) /\ landed = "none" THEN "nonce advanced"
        ELSE IF info.last_valid_block_height < root[1] THEN "expired"
        ELSE IF max_retries(t) # NoLimit /\ info.retries >= max_retries(t) THEN "max retries"
        ELSE CASE landed = "none" -> "retry"
               [] landed = "err" -> "failed"
               [] landed = "ok" -> "retain"

(* Retries are counted as far as a limit asks for it. *)
process_transactions ==
    LET kept == {t \in DOMAIN transactions : Fate(t) \in {"retry", "retain"}}
        retried == {t \in kept : Fate(t) = "retry"}
    IN  /\ transactions # <<>>
        /\ transactions' = [t \in kept |-> IF t \in retried /\ max_retries(t) # NoLimit
                                           THEN [transactions[t] EXCEPT !.retries = @ + 1] ELSE transactions[t]]
        /\ sent' = sent \cup retried
        /\ dropped' = [t \in Txs |-> IF t \in DOMAIN transactions \ kept THEN Fate(t) ELSE dropped[t]]
        /\ UNCHANGED <<clients, ancestors, status, nonce, root, signed>>

SendInit ==
    /\ clients \in Clients
    /\ ancestors = [b \in Banks |-> IF b = Genesis THEN {Genesis} ELSE {}]
    /\ status = [b \in Banks |-> [t \in Txs |-> "none"]]
    /\ nonce = [b \in Banks |-> OldHash]
    /\ root = Genesis
    /\ signed = [t \in Txs |-> NoBank]
    /\ sent = {}
    /\ transactions = <<>>
    /\ dropped = [t \in Txs |-> "no"]

SendNext ==
    \/ \E p \in Exists, f \in {1, 2}, landed \in SUBSET sent, advance \in {FALSE, NonceTxs # {}} :
            \E failed \in SUBSET landed : p[1] < MaxHeight /\ NewBank(<<p[1] + 1, f>>, p, landed, failed, advance)
    \/ \E b \in Banks : SetRoot(b)
    \/ \E t \in Txs, b \in Banks : Submit(t, b)
    \/ \E t \in Txs : Lose(t)
    \/ process_transactions

SendSpec == SendInit /\ [][SendNext]_sendVars

(* The cluster goes on making roots; the thread goes round its loop. *)
SendFairness ==
    /\ <>(root[1] = MaxHeight)
    /\ (<>[](transactions # <<>>) => []<><<process_transactions>>_sendVars)

-----------------------------------------------------------------------------
(* Nothing more can or need be done for a transaction. *)
Settled(t) ==
    \/ has_signature(root, t)
    \/ get_signature_status(working_bank, t) = "err"
    \/ ~has_signature(working_bank, t) /\ ~Processable(working_bank, t)

(***************************************************************************)
(* The service drops a transaction, other than for the number of retries   *)
(* or the time limit of nonces, only if it is rooted, has failed on the    *)
(* working fork, or is not on that fork and cannot get there any more.     *)
(***************************************************************************)
DroppedIsSettled ==
    [][\A t \in DOMAIN transactions \ DOMAIN transactions' :
            Settled(t) \/ dropped'[t] = "max retries" \/ (t \in NonceTxs /\ dropped'[t] = "expired")]_sendVars

(* No transaction waits for ever, whatever is lost and whichever fork wins. *)
NoneWaitsForever ==
    \A t \in UNION {DOMAIN c : c \in Clients} : (t \in DOMAIN transactions) ~> (t \notin DOMAIN transactions)

(* process_transactions gives up a transaction in the end, and only when there *)
(* is nothing left to do for it.                                               *)
SendingSettles ==
    /\ DroppedIsSettled
    /\ NoneWaitsForever
=============================================================================
