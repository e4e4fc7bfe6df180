--------------------------------- MODULE Token ---------------------------------
(***************************************************************************)
(* The token program (programs/token): mints, token accounts, delegates,   *)
(* freezing and the native mint, whose accounts wrap lamports.             *)
(*                                                                         *)
(* An instruction names accounts and keys freely; what it needs is a set   *)
(* of signatures.  Guards only ever ask for more signatures, so the next-  *)
(* state relation takes instructions signed by everyone, and a property    *)
(* says that a step needs somebody's signature by saying that the          *)
(* instruction without it does not allow the step.                         *)
(*                                                                         *)
(* Names, symbols and decimals are left out: the checked forms of an       *)
(* instruction only compare the mint's decimals.  All accounts have one    *)
(* size, with one rent-exempt reserve.                                     *)
(***************************************************************************)
EXTENDS Naturals, FiniteSets, FiniteSetsExt, Option

CONSTANTS
  NativeMint,      \* native_mint::id()
  MultisigSigners, \* of each multisignature account the signers by position
  MultisigM,       \* how many of them are required
  Reserve,         \* Rent::minimum_balance of a token account
  MaxLamports,     \* most lamports sent to one token account from outside
  U64_MAX,
  Casts            \* who takes part, see Cast

(* The addresses of the other mints, of the token accounts and of the      *)
(* multisignature accounts, the keys that can sign, and the amounts that   *)
(* instructions name.  None is also an account without data.               *)
Cast(c) ==
  /\ NativeMint \notin c.mints
  /\ c.multisigs \cap c.keys = {} /\ c.multisigs \subseteq DOMAIN MultisigSigners \cap DOMAIN MultisigM
  /\ None \notin c.keys \cup c.multisigs \cup c.mints \cup {NativeMint}
  /\ c.amounts \subseteq 0 .. U64_MAX
  /\ MaxLamports * Cardinality(c.accounts) <= U64_MAX   \* all lamports fit in a u64

ASSUME TokenAssumption == \A c \in Casts : Cast(c)

VARIABLES
  cast,            \* one of Casts, for good
  mints,           \* mint -> [mint_authority, freeze_authority, supply] or None
  accounts,        \* account -> its state or None
  lamports,        \* account -> its balance
  sent,            \* history: lamports sent to each account from outside
  appointed_by     \* history: the owner under whom the close authority was named

tokenVars == <<cast, mints, accounts, lamports, sent, appointed_by>>

Mints == cast.mints
Accounts == cast.accounts
Keys == cast.keys
Multisigs == cast.multisigs
Amounts == cast.amounts

Everyone == Keys
Owners == Keys \cup Multisigs

MintStates == [mint_authority : Owners \cup {None}, freeze_authority : Owners \cup {None},
               supply : 0 .. U64_MAX]

AccountStates ==
  [mint : Mints \cup {NativeMint}, owner : Owners, amount : 0 .. U64_MAX,
   delegate : Owners \cup {None}, delegated_amount : 0 .. U64_MAX, frozen : BOOLEAN,
   close_authority : Owners \cup {None}]

Initialized(t) == accounts[t] # None
IsNative(t) == accounts[t].mint = NativeMint

(* Types; no sum of tokens leaves 64 bits. *)
TokenTypeOK ==
  /\ cast \in Casts
  /\ mints \in [Mints -> MintStates \cup {None}]
  /\ accounts \in [Accounts -> AccountStates \cup {None}]
  /\ lamports \in [Accounts -> Nat]
  /\ sent \in [Accounts -> 0 .. MaxLamports]
  /\ appointed_by \in [Accounts -> Owners \cup {None}]

-----------------------------------------------------------------------------
(* validate_owner: every position of a multisignature account whose key has *)
(* signed counts, and m of them are needed.                                 *)
validate_owner(key, signed) ==
  IF key \in Multisigs
    THEN LET signers == MultisigSigners[key]
         IN  Cardinality({p \in DOMAIN signers : signers[p] \in signed}) >= MultisigM[key]
    ELSE key \in signed

(* The authority is either the delegate or the owner of the account; whoever *)
(* is the delegate acts as delegate.                                         *)
ByDelegate(t, authority) == accounts[t].delegate # None /\ authority = accounts[t].delegate

(* Faulty variant: the delegate may move anything. *)
UnlimitedDelegate(t, authority, amount, signed) ==
  /\ validate_owner(authority, signed)
  /\ ~ ByDelegate(t, authority) => authority = accounts[t].owner

MayTake(t, authority, amount, signed) ==
  /\ validate_owner(authority, signed)
  /\ IF ByDelegate(t, authority) THEN accounts[t].delegated_amount >= amount
                                 ELSE authority = accounts[t].owner

(* The account after its amount and, for a delegate, its allowance shrink. *)
Taken(t, authority, amount) ==
  LET left == accounts[t].delegated_amount - amount
      less == [accounts[t] EXCEPT !.amount = @ - amount]
  IN  IF ByDelegate(t, authority)
        THEN [less EXCEPT !.delegated_amount = left, !.delegate = IF left = 0 THEN None ELSE @]
        ELSE less

-----------------------------------------------------------------------------
process_initialize_mint(m, mint_authority, freeze_authority) ==
  /\ mints[m] = None
  /\ mints' = [mints EXCEPT ![m] =
       [mint_authority |-> mint_authority, freeze_authority |-> freeze_authority, supply |-> 0]]
  /\ UNCHANGED <<accounts, lamports, sent, appointed_by>>

process_initialize_account(t, m, owner) ==
  /\ ~ Initialized(t)
  /\ lamports[t] >= Reserve
  /\ m # NativeMint => mints[m] # None
  /\ accounts' = [accounts EXCEPT ![t] =
       [mint |-> m, owner |-> owner, delegate |-> None, delegated_amount |-> 0,
        amount |-> IF m = NativeMint THEN lamports[t] - Reserve ELSE 0,
        frozen |-> FALSE, close_authority |-> None]]
  /\ UNCHANGED <<mints, lamports, sent, appointed_by>>

MovedLamports(s, d, amount) ==
  IF IsNative(s) THEN [lamports EXCEPT ![s] = @ - amount, ![d] = @ + amount] ELSE lamports

Transferred(s, d, authority, amount) ==
  IF s = d THEN accounts
  ELSE [accounts EXCEPT ![s] = Taken(s, authority, amount),
                        ![d] = [accounts[d] EXCEPT !.amount = @ + amount]]

process_transfer(s, d, authority, amount, signed) ==
  /\ Initialized(s) /\ Initialized(d)
  /\ ~ accounts[s].frozen /\ ~ accounts[d].frozen
  /\ accounts[s].amount >= amount
  /\ accounts[s].mint = accounts[d].mint
  /\ MayTake(s, authority, amount, signed)
  /\ s # d => accounts[d].amount + amount <= U64_MAX
  /\ accounts' = Transferred(s, d, authority, amount)
  /\ lamports' = IF s = d THEN lamports ELSE MovedLamports(s, d, amount)
  /\ UNCHANGED <<mints, sent, appointed_by>>

process_approve(t, delegate, amount, signed) ==
  /\ Initialized(t) /\ ~ accounts[t].frozen
  /\ validate_owner(accounts[t].owner, signed)
  /\ accounts' = [accounts EXCEPT ![t].delegate = delegate, ![t].delegated_amount = amount]
  /\ UNCHANGED <<mints, lamports, sent, appointed_by>>

process_revoke(t, signed) ==
  /\ Initialized(t) /\ ~ accounts[t].frozen
  /\ validate_owner(accounts[t].owner, signed)
  /\ accounts' = [accounts EXCEPT ![t].delegate = None, ![t].delegated_amount = 0]
  /\ UNCHANGED <<mints, lamports, sent, appointed_by>>

(* Faulty variant: the close authority outlives the owner who named it. *)
CloserKept(t) == accounts[t].close_authority

CloserOfNewOwner(t) == IF IsNative(t) THEN None ELSE accounts[t].close_authority

(* process_set_authority, AuthorityType::AccountOwner *)
SetOwner(t, new, signed) ==
  /\ Initialized(t) /\ ~ accounts[t].frozen
  /\ validate_owner(accounts[t].owner, signed)
  /\ accounts' = [accounts EXCEPT ![t] =
       [@ EXCEPT !.owner = new, !.delegate = None, !.delegated_amount = 0,
                 !.close_authority = CloserOfNewOwner(t)]]
  /\ UNCHANGED <<mints, lamports, sent, appointed_by>>

Closer(t) == IF accounts[t].close_authority = None THEN accounts[t].owner
                                                   ELSE accounts[t].close_authority

(* process_set_authority, AuthorityType::CloseAccount; a close authority may *)
(* name its successor.                                                       *)
SetCloser(t, new, signed) ==
  /\ Initialized(t) /\ ~ accounts[t].frozen
  /\ validate_owner(Closer(t), signed)
  /\ accounts' = [accounts EXCEPT ![t].close_authority = new]
  /\ appointed_by' = [appointed_by EXCEPT ![t] =
       IF accounts[t].close_authority = None THEN accounts[t].owner ELSE @]
  /\ UNCHANGED <<mints, lamports, sent>>

(* process_set_authority, AuthorityType::MintTokens *)
SetMintAuthority(m, new, signed) ==
  /\ mints[m] # None /\ mints[m].mint_authority # None
  /\ validate_owner(mints[m].mint_authority, signed)
  /\ mints' = [mints EXCEPT ![m].mint_authority = new]
  /\ UNCHANGED <<accounts, lamports, sent, appointed_by>>

(* process_set_authority, AuthorityType::FreezeAccount *)
SetFreezeAuthority(m, new, signed) ==
  /\ mints[m] # None /\ mints[m].freeze_authority # None
  /\ validate_owner(mints[m].freeze_authority, signed)
  /\ mints' = [mints EXCEPT ![m].freeze_authority = new]
  /\ UNCHANGED <<accounts, lamports, sent, appointed_by>>

Fits(m, t, amount) ==
  accounts[t].amount + amount <= U64_MAX /\ mints[m].supply + amount <= U64_MAX

process_mint_to(m, t, amount, signed) ==
  /\ Initialized(t) /\ ~ accounts[t].frozen /\ ~ IsNative(t)
  /\ accounts[t].mint = m
  /\ mints[m].mint_authority # None
  /\ validate_owner(mints[m].mint_authority, signed)
  /\ Fits(m, t, amount)
  /\ accounts' = [accounts EXCEPT ![t].amount = @ + amount]
  /\ mints' = [mints EXCEPT ![m].supply = @ + amount]
  /\ UNCHANGED <<lamports, sent, appointed_by>>

process_burn(t, m, authority, amount, signed) ==
  /\ Initialized(t) /\ ~ accounts[t].frozen /\ ~ IsNative(t)
  /\ accounts[t].amount >= amount
  /\ accounts[t].mint = m
  /\ MayTake(t, authority, amount, signed)
  /\ mints[m].supply >= amount
  /\ accounts' = [accounts EXCEPT ![t] = Taken(t, authority, amount)]
  /\ mints' = [mints EXCEPT ![m].supply = @ - amount]
  /\ UNCHANGED <<lamports, sent, appointed_by>>

Closable(t) == IsNative(t) \/ accounts[t].amount = 0

(* The lamports go to another token account or to None, an account outside  *)
(* this model.                                                               *)
process_close_account(t, dest, signed) ==
  /\ Initialized(t)
  /\ t # dest
  /\ Closable(t)
  /\ validate_owner(Closer(t), signed)
  /\ accounts' = [accounts EXCEPT ![t] = None]
  /\ lamports' = [a \in Accounts |-> CASE a = t -> 0
                                       [] a = dest -> lamports[a] + lamports[t]
                                       [] OTHER -> lamports[a]]
  /\ UNCHANGED <<mints, sent, appointed_by>>

process_toggle_freeze_account(t, m, freeze, signed) ==
  /\ Initialized(t) /\ accounts[t].frozen # freeze
  /\ ~ IsNative(t)
  /\ accounts[t].mint = m
  /\ mints[m].freeze_authority # None
  /\ validate_owner(mints[m].freeze_authority, signed)
  /\ accounts' = [accounts EXCEPT ![t].frozen = freeze]
  /\ UNCHANGED <<mints, lamports, sent, appointed_by>>

process_sync_native(t) ==
  /\ Initialized(t) /\ IsNative(t)
  /\ lamports[t] >= Reserve
  /\ lamports[t] - Reserve >= accounts[t].amount
  /\ accounts' = [accounts EXCEPT ![t].amount = lamports[t] - Reserve]
  /\ UNCHANGED <<mints, lamports, sent, appointed_by>>

-----------------------------------------------------------------------------
(* Lamports arrive from outside: the creation of an account, or a transfer.  *)
Send(t, n) ==
  /\ sent[t] + n <= MaxLamports
  /\ sent' = [sent EXCEPT ![t] = @ + n]
  /\ lamports' = [lamports EXCEPT ![t] = @ + n]
  /\ UNCHANGED <<mints, accounts, appointed_by>>

TokenInit ==
  /\ cast \in Casts
  /\ mints = [m \in Mints |-> None]
  /\ accounts = [t \in Accounts |-> None]
  /\ lamports = [t \in Accounts |-> 0]
  /\ sent = [t \in Accounts |-> 0]
  /\ appointed_by = [t \in Accounts |-> None]

Instruction(signed) ==
  \/ \E m \in Mints :
       \/ \E a \in Owners, f \in Owners \cup {None} : process_initialize_mint(m, a, f)
       \/ \E new \in Owners \cup {None} : SetMintAuthority(m, new, signed)
       \/ \E new \in Owners \cup {None} : SetFreezeAuthority(m, new, signed)
       \/ \E t \in Accounts, amount \in Amounts :
            \/ process_mint_to(m, t, amount, signed)
            \/ \E a \in Owners : process_burn(t, m, a, amount, signed)
       \/ \E t \in Accounts, freeze \in BOOLEAN : process_toggle_freeze_account(t, m, freeze, signed)
  \/ \E t \in Accounts :
       \/ \E m \in Mints \cup {NativeMint}, o \in Owners : process_initialize_account(t, m, o)
       \/ \E d \in Accounts, a \in Owners, amount \in Amounts : process_transfer(t, d, a, amount, signed)
       \/ \E d \in Owners, amount \in Amounts : process_approve(t, d, amount, signed)
       \/ process_revoke(t, signed)
       \/ \E new \in Owners : SetOwner(t, new, signed)
       \/ \E new \in Owners \cup {None} : SetCloser(t, new, signed)
       \/ \E d \in Accounts \cup {None} : process_close_account(t, d, signed)
       \/ process_sync_native(t)

TokenNext ==
  /\ UNCHANGED cast
  /\ \/ Instruction(Everyone)
     \/ \E t \in Accounts, n \in {1, Reserve} : Send(t, n)

TokenSpec == TokenInit /\ [][TokenNext]_tokenVars

-----------------------------------------------------------------------------
Of(m) == {t \in Accounts : Initialized(t) /\ accounts[t].mint = m}

(* The supply of a mint is what its accounts hold together, whatever is      *)
(* minted, burned, transferred to oneself or closed.                         *)
SupplyMatches ==
  \A m \in Mints : MapThenSumSet(LAMBDA t : accounts[t].amount, Of(m)) =
                     IF mints[m] = None THEN 0 ELSE mints[m].supply

(* A native account can always pay out its amount and keep its reserve, also *)
(* after lamports arrived from closed accounts, and without a sync.          *)
NativeBacked == \A t \in Of(NativeMint) : lamports[t] >= Reserve + accounts[t].amount

(* A step that nobody takes without some signature for this key. *)
NeedsSignature(key) ==
  \A withheld \in SUBSET Keys :
    ~ validate_owner(key, Everyone \ withheld) => ~ Instruction(Everyone \ withheld)

(* Tokens leave an account only with the owner's signatures, out of an       *)
(* allowance that covers them and shrinks by as much, or, wrapped ones, with *)
(* an account that is closed by the close authority.                         *)
TakenOnlyByRight ==
  [][\A t \in Accounts :
       LET before == accounts[t]
           after == accounts'[t]
       IN  (before # None /\ (after = None \/ after.amount < before.amount)) =>
             \/ NeedsSignature(before.owner)
             \/ after = None /\ NeedsSignature(Closer(t))
             \/ /\ after # None
                /\ NeedsSignature(before.delegate)
                /\ before.amount - after.amount <= before.delegated_amount
                /\ after.delegated_amount + before.amount = before.delegated_amount + after.amount]_tokenVars

(* Nobody but the current owner has a say, through a close authority named   *)
(* under an earlier owner, over the lamports a native account wraps.         *)
CloserNamedByOwner ==
  \A t \in Of(NativeMint) :
    accounts[t].close_authority # None => appointed_by[t] = accounts[t].owner

(* Tokens are backed by the supply or by lamports, and only the owner decides *)
(* who may close a native account.                                            *)
TokensBacked ==
  /\ TokenTypeOK
  /\ SupplyMatches
  /\ NativeBacked
  /\ CloserNamedByOwner

(* A frozen account changes only by a thaw with the freeze authority of its  *)
(* mint, or when it is closed empty.                                         *)
FrozenHolds ==
  [][\A t \in Accounts :
       (Initialized(t) /\ accounts[t].frozen /\ accounts'[t] # accounts[t]) =>
         \/ accounts[t].amount = 0 /\ accounts'[t] = None
         \/ /\ accounts'[t] = [accounts[t] EXCEPT !.frozen = FALSE]
            /\ NeedsSignature(mints[accounts[t].mint].freeze_authority)]_tokenVars

(* No sequence of token instructions takes tokens without the right to, or *)
(* changes a frozen account.                                               *)
TokensHeld ==
  /\ TakenOnlyByRight
  /\ FrozenHolds
=============================================================================
