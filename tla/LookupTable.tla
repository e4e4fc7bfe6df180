------------------------------ MODULE LookupTable ------------------------------
(***************************************************************************)
(* The address lookup table program (programs/address-lookup-table) on one *)
(* fork, and the lookups that banks perform on its tables while they turn  *)
(* versioned transactions into sanitized ones                              *)
(* (Accounts::load_lookup_table_addresses).                                *)
(*                                                                         *)
(* Lookups take no lock on the table.  A leader resolves a transaction     *)
(* when it is about to execute it, a validator that replays the block      *)
(* resolves all of an entry's transactions before it executes any.  Both   *)
(* must come to the same addresses, whatever the transactions in between   *)
(* do to the table.                                                        *)
(*                                                                         *)
(* A derived address is the pair of the authority and the recent slot it   *)
(* is derived from; bump seeds are left out.  A minimum balance is one     *)
(* lamport for the metadata and one for each address.                      *)
(***************************************************************************)
EXTENDS Naturals, Sequences, FiniteSets, Option

CONSTANTS
  Authorities,     \* keys that create tables
  Addresses,       \* what tables hold
  Err,             \* a lookup that failed
  SLOT_MAX,        \* Slot::MAX: not deactivated; no bank gets that far
  MAX_ENTRIES,     \* slot_hashes::MAX_ENTRIES
  MAX_ADDRESSES,   \* LOOKUP_TABLE_MAX_ADDRESSES, one more than u8::MAX
  MaxSkip,         \* a bank's slot is at most this much above its parent's
  MaxExtend,       \* most addresses in one extend instruction
  MaxTables,       \* most tables that are ever created
  MaxDonated       \* most lamports on an address before its table is created

ASSUME ConstantsOK ==
  /\ None \notin Authorities
  /\ Err \notin Addresses
  /\ {SLOT_MAX, MAX_ENTRIES, MAX_ADDRESSES, MaxSkip, MaxExtend, MaxTables, MaxDonated} \subseteq Nat
  /\ SLOT_MAX > 0 /\ MAX_ENTRIES > 0 /\ MAX_ADDRESSES > 0

VARIABLES
  slot,            \* Clock::slot: the working bank
  slot_hashes,     \* the slots of the SlotHashes sysvar, newest first
  tables,          \* the table at each derived address, None without data
  table_lamports,        \* the balance of each derived address
  height,          \* history: blocks so far
  deactivated_at,  \* history: the height at which a table was deactivated
  closed           \* history: addresses whose table was closed

lookupVars == <<slot, slot_hashes, tables, table_lamports, height, deactivated_at, closed>>

Slots == 0 .. SLOT_MAX - 1
TableKeys == [authority : Authorities, slot : Slots]

(* LookupTableMeta with the addresses that follow it. *)
TableStates ==
  [deactivation_slot : 0 .. SLOT_MAX, last_extended_slot : Slots,
   last_extended_slot_start_index : 0 .. MAX_ADDRESSES - 1,
   authority : Authorities \cup {None}, addresses : Seq(Addresses)]

ASSUME NoneIsNoTable == None \notin TableStates

TableOK(t) == t \in TableStates /\ Len(t.addresses) <= MAX_ADDRESSES

Exists(k) == tables[k] # None

(* Types; a table's length fits the u8 with which lookups index it. *)
LookupTypeOK ==
  /\ slot \in Slots
  /\ slot_hashes \in Seq(Slots) /\ Len(slot_hashes) <= MAX_ENTRIES
  /\ DOMAIN tables = TableKeys
  /\ \A k \in TableKeys : Exists(k) => TableOK(tables[k])
  /\ table_lamports \in [TableKeys -> Nat]
  /\ height \in Nat
  /\ deactivated_at \in [TableKeys -> Nat]
  /\ closed \subseteq TableKeys

Recent == {slot_hashes[i] : i \in 1 .. Len(slot_hashes)}

minimum_balance(n) == 1 + n

-----------------------------------------------------------------------------
(* LookupTableMeta::status *)


(* SlotHashes::position *)
Position(s) == CHOOSE i \in 1 .. Len(slot_hashes) : slot_hashes[i] = s

IsDeactivated(t) ==
  /\ t.deactivation_slot # SLOT_MAX
  /\ t.deactivation_slot # slot
  /\ t.deactivation_slot \notin Recent

(* The remaining_blocks of LookupTableStatus::Deactivating. *)
RemainingBlocks(t) ==
  IF t.deactivation_slot = slot THEN MAX_ENTRIES + 1
                                ELSE MAX_ENTRIES - (Position(t.deactivation_slot) - 1)

(* Faulty variant: all addresses of a table can be used at once. *)
AllAddresses(t) == Len(t.addresses)

get_active_addresses_len(t) ==
  IF slot > t.last_extended_slot THEN Len(t.addresses)
                                 ELSE t.last_extended_slot_start_index

(* The address a transaction gets for index i of the table at k.  Every     *)
(* error makes the transaction fail to sanitize, so they are not told apart. *)
lookup(k, i) ==
  IF /\ Exists(k)
     /\ ~ IsDeactivated(tables[k])
     /\ i < get_active_addresses_len(tables[k])
    THEN tables[k].addresses[i + 1]
    ELSE Err

-----------------------------------------------------------------------------
(* Instructions.  The authority and the payer have signed. *)

(* Faulty variant: the recent slot is taken on trust. *)
CreateAnywhere(k) ==
  /\ ~ Exists(k)
  /\ k.slot < slot
  /\ tables' = [tables EXCEPT ![k] =
       [deactivation_slot |-> SLOT_MAX, last_extended_slot |-> 0,
        last_extended_slot_start_index |-> 0, authority |-> k.authority, addresses |-> <<>>]]
  /\ table_lamports' = [table_lamports EXCEPT ![k] = IF @ < minimum_balance(0) THEN minimum_balance(0) ELSE @]
  /\ UNCHANGED <<slot, slot_hashes, height, deactivated_at, closed>>

create_lookup_table(k) ==
  /\ ~ Exists(k)
  /\ k.slot \in Recent
  /\ tables' = [tables EXCEPT ![k] =
       [deactivation_slot |-> SLOT_MAX, last_extended_slot |-> 0,
        last_extended_slot_start_index |-> 0, authority |-> k.authority, addresses |-> <<>>]]
  /\ table_lamports' = [table_lamports EXCEPT ![k] = IF @ < minimum_balance(0) THEN minimum_balance(0) ELSE @]
  /\ UNCHANGED <<slot, slot_hashes, height, deactivated_at, closed>>

(* The checks that freeze, extend, deactivate and close share. *)
Mutable(k) == Exists(k) /\ tables[k].authority # None

freeze_lookup_table(k) ==
  /\ Mutable(k)
  /\ tables[k].deactivation_slot = SLOT_MAX
  /\ tables[k].addresses # <<>>
  /\ tables' = [tables EXCEPT ![k].authority = None]
  /\ UNCHANGED <<slot, slot_hashes, table_lamports, height, deactivated_at, closed>>

(* The table after new addresses are appended.  The first extension in a *)
(* slot fixes where that slot's additions start.                         *)
Extended(t, new) ==
  [deactivation_slot |-> t.deactivation_slot,
   last_extended_slot |-> slot,
   last_extended_slot_start_index |->
     IF slot # t.last_extended_slot THEN Len(t.addresses) ELSE t.last_extended_slot_start_index,
   authority |-> t.authority,
   addresses |-> t.addresses \o new]

HasRoom(t, new) == Len(t.addresses) + Len(new) <= MAX_ADDRESSES

ToppedUp(t, balance) ==
  IF balance < minimum_balance(Len(t.addresses))
    THEN minimum_balance(Len(t.addresses)) ELSE balance

extend_lookup_table(k, new) ==
  /\ Mutable(k)
  /\ tables[k].deactivation_slot = SLOT_MAX
  /\ new # <<>>
  /\ HasRoom(tables[k], new)
  /\ tables' = [tables EXCEPT ![k] = Extended(tables[k], new)]
  /\ table_lamports' = [table_lamports EXCEPT ![k] = ToppedUp(Extended(tables[k], new), @)]
  /\ UNCHANGED <<slot, slot_hashes, height, deactivated_at, closed>>

deactivate_lookup_table(k) ==
  /\ Mutable(k)
  /\ tables[k].deactivation_slot = SLOT_MAX
  /\ tables' = [tables EXCEPT ![k].deactivation_slot = slot]
  /\ deactivated_at' = [deactivated_at EXCEPT ![k] = height]
  /\ UNCHANGED <<slot, slot_hashes, table_lamports, height, closed>>

(* The balance goes to the recipient: another table, or None, an account *)
(* outside this model.                                                    *)
close_lookup_table(k, recipient) ==
  /\ Mutable(k)
  /\ recipient # k
  /\ IsDeactivated(tables[k])
  /\ tables' = [tables EXCEPT ![k] = None]
  /\ table_lamports' = [r \in TableKeys |-> CASE r = k -> 0
                                   [] r = recipient -> table_lamports[r] + table_lamports[k]
                                   [] OTHER -> table_lamports[r]]
  /\ closed' = closed \cup {k}
  /\ UNCHANGED <<slot, slot_hashes, height, deactivated_at>>

-----------------------------------------------------------------------------
(* Someone sends a lamport to an address that has no table; at most one such *)
(* address has lamports at a time.                                           *)
Donate(k) ==
  /\ ~ Exists(k)
  /\ table_lamports[k] < MaxDonated
  /\ \A j \in TableKeys \ {k} : Exists(j) \/ table_lamports[j] = 0
  /\ table_lamports' = [table_lamports EXCEPT ![k] = @ + 1]
  /\ UNCHANGED <<slot, slot_hashes, tables, height, deactivated_at, closed>>

(* SlotHashes::add of the parent, with its truncation. *)
HashesOfChild ==
  [i \in 1 .. (IF Len(slot_hashes) < MAX_ENTRIES THEN Len(slot_hashes) + 1 ELSE MAX_ENTRIES) |->
     IF i = 1 THEN slot ELSE slot_hashes[i - 1]]

NextBank(s) ==
  /\ s > slot /\ s <= slot + MaxSkip
  /\ slot' = s
  /\ slot_hashes' = HashesOfChild
  /\ height' = height + 1
  /\ UNCHANGED <<tables, table_lamports, deactivated_at, closed>>

-----------------------------------------------------------------------------
LookupInit ==
  /\ slot = 0
  /\ slot_hashes = <<>>
  /\ tables = [k \in TableKeys |-> None]
  /\ table_lamports = [k \in TableKeys |-> 0]
  /\ height = 0
  /\ deactivated_at = [k \in TableKeys |-> 0]
  /\ closed = {}

NewAddresses == UNION {[1 .. n -> Addresses] : n \in 1 .. MaxExtend}

LookupNext ==
  \/ \E k \in TableKeys :
       \/ /\ Cardinality(closed \cup {j \in TableKeys : Exists(j)}) < MaxTables
          /\ create_lookup_table(k)
       \/ freeze_lookup_table(k)
       \/ \E new \in NewAddresses : extend_lookup_table(k, new)
       \/ deactivate_lookup_table(k)
       \/ \E recipient \in TableKeys \cup {None} :
            /\ recipient # None => Exists(recipient)
            /\ close_lookup_table(k, recipient)
       \/ Donate(k)
  \/ \E s \in Slots : NextBank(s)

LookupSpec == LookupInit /\ [][LookupNext]_lookupVars

-----------------------------------------------------------------------------
(* Within a slot every lookup has one outcome, whatever instructions run     *)
(* before or after it: "this implementation needs to be careful about        *)
(* resolving addresses consistently" (AddressLookupTable::lookup).           *)
LookupStable ==
  [][slot' = slot => \A k \in TableKeys, i \in 0 .. MAX_ADDRESSES - 1 : lookup(k, i)' = lookup(k, i)]_lookupVars

(* An index that resolves to an address goes on resolving to it, over any   *)
(* number of slots and extensions, until its table has cooled down; a frozen *)
(* table never does.                                                         *)
AddressesStay ==
  [][\A k \in TableKeys, i \in 0 .. MAX_ADDRESSES - 1 :
       lookup(k, i) # Err =>
         \/ lookup(k, i)' = lookup(k, i)
         \/ /\ Mutable(k)
            /\ lookup(k, i)' = Err
            /\ slot' > slot /\ tables[k].deactivation_slot < slot]_lookupVars

(* What a lookup resolves to is stable: within a slot for every index, across *)
(* slots for every index that resolves.                                       *)
LookupsStay ==
  /\ LookupStable
  /\ AddressesStay

(* "An address table can never be initialized more than once at the same     *)
(* address" (create_lookup_table): the cool-down outlasts the derivation slot. *)
NeverRecreated == \A k \in closed : ~ Exists(k)

(* A table is usable for exactly MAX_ENTRIES blocks after the one that       *)
(* deactivated it, however many slots are skipped, and while it is, the      *)
(* number of remaining blocks that the program reports is right.             *)
CoolDownExact ==
  \A k \in TableKeys :
    (Exists(k) /\ tables[k].deactivation_slot # SLOT_MAX) =>
      /\ IsDeactivated(tables[k]) <=> height > deactivated_at[k] + MAX_ENTRIES
      /\ ~ IsDeactivated(tables[k]) =>
           RemainingBlocks(tables[k]) + height = deactivated_at[k] + MAX_ENTRIES + 1

(* Every table pays for its length, also when lamports were on its address   *)
(* before or are added by a closed table: rent never collects a table.       *)
RentExempt == \A k \in TableKeys : Exists(k) => table_lamports[k] >= minimum_balance(Len(tables[k].addresses))

(* A lookup table lives once at its address, cools down for exactly as long as *)
(* slot hashes remember its deactivation, and pays for its length.             *)
TablesOK ==
  /\ LookupTypeOK
  /\ NeverRecreated
  /\ CoolDownExact
  /\ RentExempt
=============================================================================
