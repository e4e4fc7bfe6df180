--------------------------- MODULE LookupTableProofs ---------------------------
(***************************************************************************)
(* Proofs about LookupTable for every number of authorities, addresses,    *)
(* slot hashes and slots.                                                  *)
(***************************************************************************)
EXTENDS LookupTable, SequenceTheorems, TLAPS

USE Zenon

(* The slot hashes are past slots, newest first. *)
HashesOrdered ==
  /\ \A i \in 1 .. Len(slot_hashes) : slot_hashes[i] < slot
  /\ \A i, j \in 1 .. Len(slot_hashes) : i < j => slot_hashes[i] > slot_hashes[j]

(* A deactivation that is not recent is older than everything that is. *)
Tracked(d) ==
  \/ d = SLOT_MAX
  \/ d = slot
  \/ d \in Recent
  \/ d < slot /\ \A r \in Recent : d < r

(* A table is younger than the slot of its address and not yet extended in *)
(* a later slot.                                                           *)
TableDated(k) ==
  /\ k.slot < slot
  /\ k.slot < tables[k].deactivation_slot
  /\ Tracked(tables[k].deactivation_slot)
  /\ tables[k].last_extended_slot <= slot
  /\ tables[k].last_extended_slot_start_index <= Len(tables[k].addresses)

(* The slot of a closed table's address has left the slot hashes. *)
ClosedIsPast(k) == ~ Exists(k) /\ k.slot < slot /\ k.slot \notin Recent

Inv ==
  /\ LookupTypeOK
  /\ HashesOrdered
  /\ \A k \in TableKeys : Exists(k) => TableDated(k)
  /\ \A k \in closed : ClosedIsPast(k)

(* Appending addresses keeps the old ones at their indexes. *)
LEMMA AppendKeeps ==
  ASSUME NEW s \in Seq(Addresses), NEW new \in NewAddresses
  PROVE  /\ s \o new \in Seq(Addresses)
         /\ Len(s \o new) = Len(s) + Len(new)
         /\ \A i \in 1 .. Len(s) : (s \o new)[i] = s[i]
<1>1. PICK n \in 1 .. MaxExtend : new \in [1 .. n -> Addresses]
  BY DEF NewAddresses
<1>2. new \in Seq(Addresses)
  <2>1. n \in Nat
    BY ConstantsOK, SMTT(30)
  <2>2. QED
    BY <1>1, <2>1, SeqDef, SMTT(30)
<1>3. QED
  BY <1>2, SMTT(30)

(* The constants are numbers, and slots are below the largest one. *)
LEMMA Numbers ==
  /\ SLOT_MAX \in Nat /\ MAX_ENTRIES \in Nat /\ MAX_ADDRESSES \in Nat
  /\ SLOT_MAX > 0 /\ MAX_ENTRIES > 0 /\ MAX_ADDRESSES > 0
  /\ Slots \subseteq Nat
  /\ \A s \in Slots : s < SLOT_MAX
  /\ 0 \in Slots
<1>1. SLOT_MAX \in Nat /\ MAX_ENTRIES \in Nat /\ MAX_ADDRESSES \in Nat
  BY ConstantsOK
<1>2. SLOT_MAX > 0 /\ MAX_ENTRIES > 0 /\ MAX_ADDRESSES > 0
  BY ConstantsOK
<1>3. QED
  BY <1>1, <1>2, SMTT(30) DEF Slots

(* The fields of a well-formed table. *)
LEMMA Fields ==
  ASSUME NEW t, TableOK(t)
  PROVE  /\ t.deactivation_slot \in 0 .. SLOT_MAX /\ t.deactivation_slot \in Nat
         /\ t.last_extended_slot \in Slots /\ t.last_extended_slot \in Nat
         /\ t.last_extended_slot_start_index \in 0 .. MAX_ADDRESSES - 1
         /\ t.authority \in Authorities \cup {None}
         /\ t.addresses \in Seq(Addresses) /\ Len(t.addresses) \in Nat
         /\ Len(t.addresses) <= MAX_ADDRESSES
<1>1. t \in TableStates /\ Len(t.addresses) <= MAX_ADDRESSES
  BY DEF TableOK
<1>2. /\ t.deactivation_slot \in 0 .. SLOT_MAX
      /\ t.last_extended_slot \in Slots
      /\ t.last_extended_slot_start_index \in 0 .. MAX_ADDRESSES - 1
      /\ t.authority \in Authorities \cup {None}
      /\ t.addresses \in Seq(Addresses)
  BY <1>1 DEF TableStates
<1>3. t.deactivation_slot \in Nat
  BY <1>2, SMTT(30)
<1>6. t.last_extended_slot \in Nat
  <2> HIDE DEF Slots
  <2>1. QED
    BY <1>2, Numbers
<1>4. Len(t.addresses) \in Nat
  BY <1>2, SMTT(30)
<1>5. QED
  BY <1>1, <1>2, <1>3, <1>4, <1>6

LEMMA InitInv == LookupInit => Inv
<1> SUFFICES ASSUME LookupInit PROVE Inv
  OBVIOUS
<1>1. \A k \in TableKeys : ~ Exists(k)
  BY DEF LookupInit, Exists
<1>2. /\ slot \in Slots /\ slot_hashes \in Seq(Slots) /\ Len(slot_hashes) = 0
      /\ DOMAIN tables = TableKeys /\ table_lamports \in [TableKeys -> Nat] /\ height \in Nat
      /\ deactivated_at \in [TableKeys -> Nat] /\ closed = {}
  BY Numbers, SMTT(30) DEF LookupInit
<1>3. QED
  BY <1>1, <1>2, Numbers, SMTT(30) DEF Inv, LookupTypeOK, HashesOrdered

(* A table that is replaced by a well-formed one leaves the rest in order. *)
LEMMA OneTable ==
  ASSUME Inv, NEW k \in TableKeys, NEW t, TableOK(t),
         tables' = [tables EXCEPT ![k] = t],
         UNCHANGED <<slot, slot_hashes, height, closed>>,
         table_lamports' \in [TableKeys -> Nat], deactivated_at' \in [TableKeys -> Nat],
         k \notin closed,
         k.slot < slot, k.slot < t.deactivation_slot, Tracked(t.deactivation_slot),
         t.last_extended_slot <= slot,
         t.last_extended_slot_start_index <= Len(t.addresses)
  PROVE  Inv'
<1> USE DEF Inv
<1>1. LookupTypeOK'
  BY DEF LookupTypeOK, Exists
<1>2. HashesOrdered'
  BY DEF HashesOrdered
<1>3. Recent' = Recent
  BY DEF Recent
<1>4. ASSUME NEW j \in TableKeys, Exists(j)' PROVE TableDated(j)'
  <2>1. CASE j = k
    BY <2>1, <1>3 DEF TableDated, Tracked, LookupTypeOK
  <2>2. CASE j # k
    <3>1. tables'[j] = tables[j]
      BY <2>2 DEF LookupTypeOK
    <3>2. Exists(j)
      BY <1>4, <3>1 DEF Exists
    <3>3. QED
      BY <3>1, <3>2, <1>3, SMTT(30) DEF TableDated, Tracked
  <2>3. QED
    BY <2>1, <2>2
<1>5. ASSUME NEW j \in closed' PROVE ClosedIsPast(j)'
  BY <1>3, <1>5 DEF ClosedIsPast, Exists, LookupTypeOK
<1>6. QED
  BY <1>1, <1>2, <1>4, <1>5

(* The table that extend_lookup_table leaves. *)
LEMMA ExtendOK ==
  ASSUME Inv, NEW k \in TableKeys, NEW new \in NewAddresses, extend_lookup_table(k, new),
         NEW t, t = Extended(tables[k], new)
  PROVE  /\ Exists(k) /\ TableOK(tables[k]) /\ TableDated(k) /\ k \notin closed
         /\ tables[k].deactivation_slot = SLOT_MAX
         /\ tables' = [tables EXCEPT ![k] = t]
         /\ UNCHANGED <<slot, slot_hashes, height, closed, deactivated_at>>
         /\ TableOK(t)
         /\ t.deactivation_slot = SLOT_MAX
         /\ t.last_extended_slot = slot
         /\ t.last_extended_slot_start_index =
              IF slot # tables[k].last_extended_slot THEN Len(tables[k].addresses)
                                                     ELSE tables[k].last_extended_slot_start_index
         /\ t.addresses = tables[k].addresses \o new
         /\ table_lamports' \in [TableKeys -> Nat]
<1> USE DEF Inv
<1>1. /\ Exists(k) /\ TableOK(tables[k]) /\ TableDated(k) /\ k \notin closed
      /\ tables[k].deactivation_slot = SLOT_MAX
      /\ Len(tables[k].addresses) + Len(new) <= MAX_ADDRESSES
  BY DEF extend_lookup_table, Mutable, LookupTypeOK, ClosedIsPast, HasRoom
<1>2. Len(new) > 0 /\ Len(new) \in Nat
  BY ConstantsOK, SMTT(30) DEF NewAddresses
<1>3. /\ t.deactivation_slot = tables[k].deactivation_slot
      /\ t.last_extended_slot = slot
      /\ t.last_extended_slot_start_index =
           IF slot # tables[k].last_extended_slot THEN Len(tables[k].addresses)
                                                  ELSE tables[k].last_extended_slot_start_index
      /\ t.addresses = tables[k].addresses \o new
      /\ t.authority = tables[k].authority
      /\ t = [deactivation_slot |-> t.deactivation_slot, last_extended_slot |-> t.last_extended_slot,
              last_extended_slot_start_index |-> t.last_extended_slot_start_index,
              authority |-> t.authority, addresses |-> t.addresses]
  BY DEF Extended
<1>4. t.addresses \in Seq(Addresses) /\ Len(t.addresses) = Len(tables[k].addresses) + Len(new)
  BY <1>1, <1>3, AppendKeeps, Fields, SMTT(30)
<1>5. table_lamports' = [table_lamports EXCEPT ![k] = ToppedUp(t, table_lamports[k])]
  BY DEF extend_lookup_table
<1>6. slot \in Slots /\ Len(tables[k].addresses) \in Nat
  BY <1>1, Fields DEF LookupTypeOK
<1>7. TableOK(t)
  <2>1. /\ t.deactivation_slot \in 0 .. SLOT_MAX
        /\ t.authority \in Authorities \cup {None}
        /\ t.last_extended_slot \in Slots
    BY <1>1, <1>3, <1>6, Fields
  <2>2. t.last_extended_slot_start_index \in 0 .. MAX_ADDRESSES - 1
    BY <1>1, <1>2, <1>3, Fields, Numbers, SMTT(30)
  <2>3. Len(t.addresses) <= MAX_ADDRESSES
    BY <1>1, <1>4
  <2>4. QED
    BY <1>3, <1>4, <2>1, <2>2, <2>3 DEF TableOK, TableStates
<1>8. table_lamports' \in [TableKeys -> Nat]
  BY <1>4, <1>5, <1>2, <1>6, SMTT(30) DEF LookupTypeOK, ToppedUp, minimum_balance
<1>9. /\ tables' = [tables EXCEPT ![k] = t]
      /\ UNCHANGED <<slot, slot_hashes, height, closed, deactivated_at>>
  BY DEF extend_lookup_table
<1>10. QED
  BY <1>1, <1>3, <1>7, <1>8, <1>9

LEMMA NextInv == Inv /\ [LookupNext]_lookupVars => Inv'
<1> SUFFICES ASSUME Inv, [LookupNext]_lookupVars PROVE Inv'
  OBVIOUS
<1> USE DEF Inv
<1>1. ASSUME NEW k \in TableKeys, create_lookup_table(k) PROVE Inv'
  <2> DEFINE t == [deactivation_slot |-> SLOT_MAX, last_extended_slot |-> 0,
        last_extended_slot_start_index |-> 0, authority |-> k.authority, addresses |-> <<>>]
  <2>1. TableOK(t)
    BY ConstantsOK, SMTT(30) DEF TableOK, TableStates, Slots, TableKeys
  <2>2. table_lamports' \in [TableKeys -> Nat]
    BY <1>1, SMTT(30) DEF create_lookup_table, LookupTypeOK, minimum_balance
  <2>3. k.slot < slot /\ k \notin closed
    BY <1>1 DEF create_lookup_table, HashesOrdered, ClosedIsPast, Recent
  <2>4. k.slot < SLOT_MAX /\ 0 <= slot
    BY ConstantsOK, SMTT(30) DEF TableKeys, Slots, LookupTypeOK
  <2>5. deactivated_at' \in [TableKeys -> Nat]
    BY <1>1 DEF create_lookup_table, LookupTypeOK
  <2>6. tables' = [tables EXCEPT ![k] = t] /\ UNCHANGED <<slot, slot_hashes, height, closed>>
    BY <1>1 DEF create_lookup_table
  <2>7. Tracked(t.deactivation_slot) /\ t.last_extended_slot = 0
          /\ t.last_extended_slot_start_index <= Len(t.addresses)
    BY SMTT(30) DEF Tracked
  <2> HIDE DEF t
  <2>8. t.deactivation_slot = SLOT_MAX
    BY DEF t
  <2>9. QED
    BY <2>1, <2>2, <2>3, <2>4, <2>5, <2>6, <2>7, <2>8, OneTable
<1>2. ASSUME NEW k \in TableKeys, freeze_lookup_table(k) PROVE Inv'
  <2> DEFINE t == [tables[k] EXCEPT !.authority = None]
  <2>0. Mutable(k) /\ TableOK(tables[k]) /\ TableDated(k) /\ k \notin closed
    BY <1>2 DEF freeze_lookup_table, Mutable, LookupTypeOK, ClosedIsPast
  <2>1. TableOK(t)
    BY <2>0 DEF TableOK, TableStates
  <2>2. /\ t.deactivation_slot = tables[k].deactivation_slot
        /\ t.last_extended_slot = tables[k].last_extended_slot
        /\ t.last_extended_slot_start_index = tables[k].last_extended_slot_start_index
        /\ t.addresses = tables[k].addresses
    BY <2>0 DEF TableOK, TableStates
  <2>3. tables' = [tables EXCEPT ![k] = t] /\ UNCHANGED <<slot, slot_hashes, height, closed, table_lamports, deactivated_at>>
    BY <1>2 DEF freeze_lookup_table, LookupTypeOK
  <2> HIDE DEF t
  <2>4. table_lamports' \in [TableKeys -> Nat] /\ deactivated_at' \in [TableKeys -> Nat]
    BY <2>3 DEF LookupTypeOK
  <2>5. QED
    BY <2>0, <2>1, <2>2, <2>3, <2>4, OneTable DEF TableDated
<1>3. ASSUME NEW k \in TableKeys, NEW new \in NewAddresses, extend_lookup_table(k, new) PROVE Inv'
  <2> DEFINE t == Extended(tables[k], new)
  <2> HIDE DEF t
  <2>1. /\ Exists(k) /\ TableOK(tables[k]) /\ TableDated(k) /\ k \notin closed
        /\ tables[k].deactivation_slot = SLOT_MAX
        /\ tables' = [tables EXCEPT ![k] = t]
        /\ UNCHANGED <<slot, slot_hashes, height, closed, deactivated_at>>
        /\ TableOK(t)
        /\ t.deactivation_slot = SLOT_MAX
        /\ t.last_extended_slot = slot
        /\ t.last_extended_slot_start_index \in
             {Len(tables[k].addresses), tables[k].last_extended_slot_start_index}
        /\ t.addresses = tables[k].addresses \o new
        /\ table_lamports' \in [TableKeys -> Nat]
    BY <1>3, ExtendOK, SMTT(30) DEF t
  <2>2. deactivated_at' \in [TableKeys -> Nat] /\ slot \in Nat
    BY <2>1, Numbers DEF LookupTypeOK
  <2>3. Len(t.addresses) >= Len(tables[k].addresses)
    <3>1. Len(new) \in Nat
      BY ConstantsOK, SMTT(30) DEF NewAddresses
    <3>2. tables[k].addresses \in Seq(Addresses)
      BY <2>1, Fields
    <3>3. Len(t.addresses) = Len(tables[k].addresses) + Len(new)
      BY <2>1, <3>2, AppendKeeps
    <3>4. QED
      BY <3>1, <3>2, <3>3, SMTT(30)
  <2>4. t.last_extended_slot_start_index <= Len(t.addresses)
    BY <2>1, <2>3, Fields, Numbers, SMTT(30) DEF TableDated
  <2>5. /\ k.slot < slot /\ k.slot < t.deactivation_slot /\ Tracked(t.deactivation_slot)
        /\ t.last_extended_slot <= slot
    BY <2>1, <2>2, SMTT(30) DEF TableDated
  <2>6. QED
    BY <2>1, <2>2, <2>4, <2>5, OneTable
<1>4. ASSUME NEW k \in TableKeys, deactivate_lookup_table(k) PROVE Inv'
  <2> DEFINE t == [tables[k] EXCEPT !.deactivation_slot = slot]
  <2>0. Mutable(k) /\ TableOK(tables[k]) /\ TableDated(k) /\ k \notin closed
    BY <1>4 DEF deactivate_lookup_table, Mutable, LookupTypeOK, ClosedIsPast
  <2>1. TableOK(t)
    <3>1. slot \in 0 .. SLOT_MAX
      BY Numbers, SMTT(30) DEF LookupTypeOK
    <3>2. t \in TableStates
      BY <2>0, <3>1 DEF TableOK, TableStates
    <3>3. t.addresses = tables[k].addresses
      BY <2>0 DEF TableOK, TableStates
    <3>4. QED
      BY <2>0, <3>2, <3>3 DEF TableOK
  <2>2. /\ t.deactivation_slot = slot
        /\ t.last_extended_slot = tables[k].last_extended_slot
        /\ t.last_extended_slot_start_index = tables[k].last_extended_slot_start_index
        /\ t.addresses = tables[k].addresses
    BY <2>0 DEF TableOK, TableStates
  <2>3. tables' = [tables EXCEPT ![k] = t] /\ UNCHANGED <<slot, slot_hashes, height, closed, table_lamports>>
    BY <1>4 DEF deactivate_lookup_table, LookupTypeOK
  <2> HIDE DEF t
  <2>4. table_lamports' \in [TableKeys -> Nat] /\ deactivated_at' \in [TableKeys -> Nat]
    BY <2>3, <1>4 DEF LookupTypeOK, deactivate_lookup_table
  <2>5. QED
    BY <2>0, <2>1, <2>2, <2>3, <2>4, OneTable DEF TableDated, Tracked
<1>5. ASSUME NEW k \in TableKeys, NEW r \in TableKeys \cup {None}, close_lookup_table(k, r) PROVE Inv'
  <2>0. /\ Exists(k) /\ TableDated(k) /\ TableOK(tables[k])
        /\ tables' = [tables EXCEPT ![k] = None] /\ closed' = closed \cup {k}
        /\ UNCHANGED <<slot, slot_hashes, height, deactivated_at>>
        /\ IsDeactivated(tables[k])
    BY <1>5 DEF close_lookup_table, Mutable, LookupTypeOK
  <2>1. Recent' = Recent
    BY <2>0 DEF Recent
  <2>2. \A q \in Recent : tables[k].deactivation_slot < q
    BY <2>0 DEF TableDated, Tracked, IsDeactivated
  <2>3. ClosedIsPast(k)'
    <3>1. Recent \subseteq Nat /\ k.slot \in Nat /\ tables[k].deactivation_slot \in Nat
      <4>1. Recent \subseteq Slots
        BY SMTT(30) DEF Recent, LookupTypeOK
      <4>2. k.slot \in Slots
        BY DEF TableKeys
      <4>3. QED
        BY <2>0, <4>1, <4>2, Fields, Numbers
    <3>2. k.slot \notin Recent /\ k.slot < slot
      BY <2>0, <2>2, <3>1, SMTT(30) DEF TableDated
    <3>3. QED
      BY <2>0, <2>1, <3>2 DEF ClosedIsPast, Exists, LookupTypeOK
  <2>4. \A j \in closed' : ClosedIsPast(j)'
    BY <2>0, <2>1, <2>3 DEF ClosedIsPast, Exists, LookupTypeOK
  <2>5. table_lamports' \in [TableKeys -> Nat]
    BY <1>5, SMTT(30) DEF close_lookup_table, LookupTypeOK
  <2>6. LookupTypeOK'
    BY <2>0, <2>5 DEF LookupTypeOK, Exists
  <2>7. HashesOrdered'
    BY <2>0 DEF HashesOrdered
  <2>8. ASSUME NEW j \in TableKeys, Exists(j)' PROVE TableDated(j)'
    BY <2>0, <2>1, <2>8 DEF TableDated, Tracked, Exists, LookupTypeOK
  <2>9. QED
    BY <2>4, <2>6, <2>7, <2>8
<1>6. ASSUME NEW k \in TableKeys, Donate(k) PROVE Inv'
  <2>1. UNCHANGED <<slot, slot_hashes, tables, height, deactivated_at, closed>>
    BY <1>6 DEF Donate
  <2>2. table_lamports' \in [TableKeys -> Nat]
    BY <1>6, SMTT(30) DEF Donate, LookupTypeOK
  <2>3. Recent' = Recent
    BY <2>1 DEF Recent
  <2>4. QED
    BY <2>1, <2>2, <2>3 DEF LookupTypeOK, HashesOrdered, TableDated, Tracked, ClosedIsPast, Exists
<1>7. ASSUME NEW s \in Slots, NextBank(s) PROVE Inv'
  <2> DEFINE n == IF Len(slot_hashes) < MAX_ENTRIES THEN Len(slot_hashes) + 1 ELSE MAX_ENTRIES
  <2>0. /\ slot' = s /\ s > slot
        /\ slot_hashes' = [i \in 1 .. n |-> IF i = 1 THEN slot ELSE slot_hashes[i - 1]]
        /\ UNCHANGED <<tables, table_lamports, deactivated_at, closed>>
        /\ height' = height + 1
    BY <1>7 DEF NextBank, HashesOfChild
  <2>1. /\ n \in Nat /\ n > 0 /\ n <= MAX_ENTRIES /\ n <= Len(slot_hashes) + 1
        /\ n = Len(slot_hashes) + 1 \/ n = Len(slot_hashes)
        /\ slot_hashes \in Seq(Slots) /\ Len(slot_hashes) \in Nat
        /\ slot \in Nat /\ Slots \subseteq Nat /\ slot \in Slots
    BY ConstantsOK, SMTT(30) DEF LookupTypeOK, Slots
  <2> HIDE DEF n
  <2>2. slot_hashes' \in [1 .. n -> Slots]
    BY <2>0, <2>1, SMTT(30) DEF LookupTypeOK
  <2>3. slot_hashes' \in Seq(Slots) /\ Len(slot_hashes') = n
    BY <2>1, <2>2, SMTT(30)
  <2>4. LookupTypeOK'
    BY <2>0, <2>1, <2>3, SMTT(30) DEF LookupTypeOK, Exists
  <2>5. HashesOrdered'
    <3>1. ASSUME NEW i \in 1 .. n PROVE slot_hashes'[i] < slot'
      <4>1. CASE i = 1
        BY <4>1, <2>0, <2>1
      <4>2. CASE i # 1
        <5>1. i - 1 \in 1 .. Len(slot_hashes) /\ slot_hashes'[i] = slot_hashes[i - 1]
          BY <4>2, <2>0, <2>1, SMTT(30)
        <5>2. slot_hashes[i - 1] < slot
          BY <5>1 DEF HashesOrdered
        <5>3. slot_hashes[i - 1] \in Slots
          BY <5>1, <2>1, SMTT(30)
        <5>4. QED
          <6>1. slot_hashes[i - 1] \in Nat /\ slot \in Nat /\ s \in Nat
            BY <5>3, <2>1
          <6>2. slot_hashes[i - 1] < s
            BY <6>1, <5>2, <2>0, SMTT(30)
          <6>3. QED
            BY <6>2, <5>1, <2>0
      <4>3. QED
        BY <4>1, <4>2
    <3>2. ASSUME NEW i \in 1 .. n, NEW j \in 1 .. n, i < j PROVE slot_hashes'[i] > slot_hashes'[j]
      <4>1. j - 1 \in 1 .. Len(slot_hashes) /\ slot_hashes'[j] = slot_hashes[j - 1]
        BY <3>2, <2>0, <2>1, SMTT(30)
      <4>2. CASE i = 1
        BY <4>1, <4>2, <2>0, <2>1 DEF HashesOrdered
      <4>3. CASE i # 1
        <5>1. i - 1 \in 1 .. Len(slot_hashes) /\ slot_hashes'[i] = slot_hashes[i - 1] /\ i - 1 < j - 1
          BY <4>3, <3>2, <2>0, <2>1, SMTT(30)
        <5>2. QED
          BY <4>1, <5>1 DEF HashesOrdered
      <4>4. QED
        BY <4>2, <4>3
    <3>3. QED
      BY <2>3, <3>1, <3>2 DEF HashesOrdered
  <2>6. /\ Recent' \subseteq Recent \cup {slot}
        /\ slot \in Recent'
    <3>1. ASSUME NEW i \in 1 .. n PROVE slot_hashes'[i] \in Recent \cup {slot}
      BY <2>0, <2>1, SMTT(30) DEF Recent
    <3>2. slot_hashes'[1] = slot /\ 1 \in 1 .. n
      BY <2>0, <2>1, SMTT(30)
    <3>3. QED
      BY <2>3, <3>1, <3>2 DEF Recent
  <2>7. ASSUME NEW d \in Nat, Tracked(d) PROVE Tracked(d)'
    <3>1. CASE d = SLOT_MAX
      BY <3>1 DEF Tracked
    <3>2. CASE d = slot
      BY <3>2, <2>6 DEF Tracked
    <3>3. CASE d \in Recent
      <4>1. PICK i \in 1 .. Len(slot_hashes) : d = slot_hashes[i]
        BY <3>3 DEF Recent
      <4>2. CASE i < n
        <5>1. slot_hashes'[i + 1] = d /\ i + 1 \in 1 .. Len(slot_hashes')
          BY <2>0, <2>1, <2>3, <4>1, <4>2, SMTT(30)
        <5>2. QED
          BY <5>1 DEF Tracked, Recent
      <4>3. CASE i >= n
        <5>1. i = Len(slot_hashes) /\ n = Len(slot_hashes)
          BY <2>1, <4>1, <4>3, SMTT(30)
        <5>2. d < slot
          BY <4>1 DEF HashesOrdered
        <5>3. ASSUME NEW j \in 1 .. n PROVE d < slot_hashes'[j]
          <6>1. CASE j = 1
            BY <6>1, <5>2, <2>0, <2>1
          <6>2. CASE j # 1
            <7>1. slot_hashes'[j] = slot_hashes[j - 1] /\ j - 1 \in 1 .. Len(slot_hashes) /\ j - 1 < i
              BY <6>2, <5>1, <2>0, <2>1, SMTT(30)
            <7>2. QED
              BY <7>1, <4>1 DEF HashesOrdered
          <6>3. QED
            BY <6>1, <6>2
        <5>4. d < slot'
          BY <5>2, <2>0, <2>1, <2>7, ConstantsOK, SMTT(30) DEF Slots
        <5>5. QED
          BY <5>3, <5>4, <2>3 DEF Tracked, Recent
      <4>4. QED
        BY <4>1, <4>2, <4>3, <2>1, SMTT(30)
    <3>4. CASE d < slot /\ \A r \in Recent : d < r
      <4>1. d < slot'
        BY <3>4, <2>0, <2>1, <2>7, ConstantsOK, SMTT(30) DEF Slots
      <4>2. QED
        BY <3>4, <4>1, <2>6 DEF Tracked
    <3>5. QED
      BY <2>7, <3>1, <3>2, <3>3, <3>4 DEF Tracked
  <2>8. ASSUME NEW k \in TableKeys, Exists(k)' PROVE TableDated(k)'
    <3>1. /\ Exists(k) /\ TableDated(k) /\ tables'[k] = tables[k] /\ TableOK(tables[k])
          /\ k.slot \in Nat
      BY <2>0, <2>8, ConstantsOK, SMTT(30) DEF Exists, LookupTypeOK, TableKeys, Slots
    <3>2. tables[k].deactivation_slot \in Nat /\ tables[k].last_extended_slot \in Nat
      BY <3>1, Fields
    <3>3. Tracked(tables[k].deactivation_slot)'
      <4> DEFINE d == tables[k].deactivation_slot
      <4>1. d \in Nat /\ Tracked(d)
        BY <3>1, <3>2 DEF TableDated
      <4>2. d' = d
        BY <2>0
      <4> HIDE DEF d
      <4>3. Tracked(d)'
        BY <4>1, <4>2, <2>7 DEF Tracked
      <4>4. QED
        BY <4>3 DEF d
    <3>4. QED
      BY <2>0, <2>1, <3>1, <3>2, <3>3, SMTT(30) DEF TableDated
  <2>9. ASSUME NEW k \in closed' PROVE ClosedIsPast(k)'
    <3>1. k \in closed /\ ClosedIsPast(k) /\ k.slot \in Nat
      BY <2>0, <2>9, ConstantsOK, SMTT(30) DEF LookupTypeOK, TableKeys, Slots
    <3>2. QED
      BY <2>0, <2>1, <2>6, <3>1, ConstantsOK, SMTT(30) DEF ClosedIsPast, Exists, Slots
  <2>10. QED
    BY <2>4, <2>5, <2>8, <2>9
<1>8. CASE UNCHANGED lookupVars
  BY <1>8, SMTT(30) DEF lookupVars, LookupTypeOK, HashesOrdered, TableDated, Tracked, ClosedIsPast, Exists, Recent
<1>9. QED
  BY <1>1, <1>2, <1>3, <1>4, <1>5, <1>6, <1>7, <1>8 DEF LookupNext

(* The types hold for every number of slots and tables. *)
THEOREM TypesHold == LookupSpec => []LookupTypeOK
<1>1. Inv => LookupTypeOK
  BY DEF Inv
<1>2. QED
  BY <1>1, InitInv, NextInv, PTL DEF LookupSpec

(* No address ever gets a second table: when close_lookup_table succeeds,   *)
(* the slot from which create_lookup_table derives the address is not       *)
(* recent and never will be again.                                          *)
THEOREM TablesAreNeverRecreated == LookupSpec => []NeverRecreated
<1>1. Inv => NeverRecreated
  BY DEF Inv, NeverRecreated, ClosedIsPast
<1>2. QED
  BY <1>1, InitInv, NextInv, PTL DEF LookupSpec

(* What LookupStable says of a step. *)
SameLookups ==
  slot' = slot => \A k \in TableKeys, i \in 0 .. MAX_ADDRESSES - 1 : lookup(k, i)' = lookup(k, i)

(* A step that replaces one table leaves every other lookup alone. *)
LEMMA OtherLookups ==
  ASSUME Inv, NEW k \in TableKeys, NEW t, tables' = [tables EXCEPT ![k] = t],
         UNCHANGED <<slot, slot_hashes>>, NEW j \in TableKeys, j # k, NEW i
  PROVE  lookup(j, i)' = lookup(j, i)
<1>1. tables'[j] = tables[j]
  BY DEF Inv, LookupTypeOK
<1>2. Recent' = Recent
  BY DEF Recent
<1>3. QED
  BY <1>1, <1>2, SMTT(30) DEF lookup, Exists, IsDeactivated, get_active_addresses_len

LEMMA StepKeepsLookups == Inv /\ [LookupNext]_lookupVars => SameLookups
<1> SUFFICES ASSUME Inv, [LookupNext]_lookupVars, slot' = slot,
                    NEW j \in TableKeys, NEW i \in 0 .. MAX_ADDRESSES - 1
             PROVE  lookup(j, i)' = lookup(j, i)
  BY DEF SameLookups
<1>1. ASSUME NEW k \in TableKeys, create_lookup_table(k) PROVE lookup(j, i)' = lookup(j, i)
  <2>1. CASE j # k
    BY <1>1, <2>1, OtherLookups DEF create_lookup_table
  <2>2. CASE j = k
    <3>1. lookup(k, i) = Err
      BY <1>1 DEF create_lookup_table, lookup
    <3>2. /\ tables'[k].addresses = <<>> /\ tables'[k].last_extended_slot = 0
          /\ tables'[k].last_extended_slot_start_index = 0
      BY <1>1 DEF create_lookup_table, Inv, LookupTypeOK
    <3>3. get_active_addresses_len(tables[k])' = 0
      BY <3>2 DEF get_active_addresses_len
    <3>4. ~ (i < get_active_addresses_len(tables[k])')
      BY <3>3, Numbers, SMTT(30)
    <3>5. lookup(k, i)' = Err
      BY <3>4 DEF lookup
    <3>6. QED
      BY <2>2, <3>1, <3>5
  <2>3. QED
    BY <2>1, <2>2
<1>2. ASSUME NEW k \in TableKeys, freeze_lookup_table(k) PROVE lookup(j, i)' = lookup(j, i)
  <2> DEFINE t == [tables[k] EXCEPT !.authority = None]
  <2>1. tables' = [tables EXCEPT ![k] = t] /\ UNCHANGED <<slot, slot_hashes>>
    BY <1>2 DEF freeze_lookup_table, Inv, LookupTypeOK
  <2>2. Exists(k) /\ TableOK(tables[k]) /\ tables'[k] = t
    BY <1>2, <2>1 DEF freeze_lookup_table, Mutable, Inv, LookupTypeOK
  <2>3. /\ t.deactivation_slot = tables[k].deactivation_slot
        /\ t.last_extended_slot = tables[k].last_extended_slot
        /\ t.last_extended_slot_start_index = tables[k].last_extended_slot_start_index
        /\ t.addresses = tables[k].addresses
        /\ t \in TableStates
    BY <2>2 DEF TableOK, TableStates
  <2> HIDE DEF t
  <2>4. Exists(k)' /\ Recent' = Recent
    BY <2>1, <2>2, <2>3, NoneIsNoTable DEF Exists, Recent
  <2>5. lookup(k, i)' = lookup(k, i)
    BY <2>1, <2>2, <2>3, <2>4, SMTT(30) DEF lookup, IsDeactivated, get_active_addresses_len
  <2>6. QED
    BY <2>1, <2>5, OtherLookups
<1>3. ASSUME NEW k \in TableKeys, NEW new \in NewAddresses, extend_lookup_table(k, new)
      PROVE  lookup(j, i)' = lookup(j, i)
  <2> DEFINE old == tables[k]
             t == Extended(tables[k], new)
  <2> HIDE DEF old, t
  <2>1. /\ Exists(k) /\ TableOK(old) /\ old.deactivation_slot = SLOT_MAX
        /\ TableDated(k)
        /\ tables' = [tables EXCEPT ![k] = t]
        /\ UNCHANGED <<slot, slot_hashes>>
        /\ TableOK(t)
        /\ t.deactivation_slot = SLOT_MAX
        /\ t.last_extended_slot = slot
        /\ t.last_extended_slot_start_index =
             IF slot # old.last_extended_slot THEN Len(old.addresses)
                                              ELSE old.last_extended_slot_start_index
        /\ t.addresses = old.addresses \o new
    BY <1>3, ExtendOK, SMTT(30) DEF t, old
  <2>2. tables'[k] = t /\ Exists(k)'
    BY <2>1, NoneIsNoTable DEF Inv, LookupTypeOK, Exists, TableOK
  <2>3. ~ IsDeactivated(old)
    BY <2>1 DEF IsDeactivated
  <2>4. /\ old.last_extended_slot <= slot
        /\ old.last_extended_slot_start_index <= Len(old.addresses)
        /\ old.last_extended_slot \in Nat /\ slot \in Nat
    BY <2>1, Fields, Numbers DEF TableDated, Inv, LookupTypeOK, old
  <2> DEFINE n == get_active_addresses_len(old)
  <2>5. get_active_addresses_len(tables[k])' = n /\ n <= Len(old.addresses) /\ n \in Nat
    <3>1. CASE slot = old.last_extended_slot
      BY <2>1, <2>2, <2>4, <3>1, Fields, Numbers, SMTT(30) DEF get_active_addresses_len
    <3>2. CASE slot # old.last_extended_slot
      BY <2>1, <2>2, <2>4, <3>2, Fields, Numbers, SMTT(30) DEF get_active_addresses_len
    <3>3. QED
      BY <3>1, <3>2
  <2> HIDE DEF n
  <2>6. i < n => t.addresses[i + 1] = old.addresses[i + 1]
    <3>1. old.addresses \in Seq(Addresses) /\ Len(old.addresses) \in Nat
      BY <2>1, Fields
    <3>2. i < n => i + 1 \in 1 .. Len(old.addresses)
      BY <2>5, <3>1, SMTT(30)
    <3>3. QED
      BY <2>1, <3>1, <3>2, AppendKeeps
  <2>7. lookup(k, i) = IF i < n THEN old.addresses[i + 1] ELSE Err
    BY <2>1, <2>3 DEF lookup, old, n
  <2>8. lookup(k, i)' = IF i < n THEN t.addresses[i + 1] ELSE Err
    <3>1. ~ IsDeactivated(tables[k])'
      BY <2>1, <2>2 DEF IsDeactivated
    <3>2. QED
      BY <2>2, <2>5, <3>1 DEF lookup
  <2>9. lookup(k, i)' = lookup(k, i)
    BY <2>6, <2>7, <2>8
  <2>10. QED
    BY <2>1, <2>9, OtherLookups
<1>4. ASSUME NEW k \in TableKeys, deactivate_lookup_table(k) PROVE lookup(j, i)' = lookup(j, i)
  <2> DEFINE t == [tables[k] EXCEPT !.deactivation_slot = slot]
  <2>1. tables' = [tables EXCEPT ![k] = t] /\ UNCHANGED <<slot, slot_hashes>>
    BY <1>4 DEF deactivate_lookup_table, Inv, LookupTypeOK
  <2>2. Exists(k) /\ TableOK(tables[k]) /\ tables'[k] = t /\ tables[k].deactivation_slot = SLOT_MAX
    BY <1>4, <2>1 DEF deactivate_lookup_table, Mutable, Inv, LookupTypeOK
  <2>3. /\ t.deactivation_slot = slot
        /\ t.last_extended_slot = tables[k].last_extended_slot
        /\ t.last_extended_slot_start_index = tables[k].last_extended_slot_start_index
        /\ t.addresses = tables[k].addresses
    BY <2>2 DEF TableOK, TableStates
  <2>4. t \in TableStates
    <3>1. slot \in 0 .. SLOT_MAX
      BY Numbers, SMTT(30) DEF Inv, LookupTypeOK
    <3>2. QED
      BY <2>2, <3>1 DEF TableOK, TableStates
  <2> HIDE DEF t
  <2>5. Exists(k)' /\ Recent' = Recent
    BY <2>1, <2>2, <2>4, NoneIsNoTable DEF Exists, Recent
  <2>6. ~ IsDeactivated(tables[k]) /\ ~ IsDeactivated(tables[k])'
    BY <2>1, <2>2, <2>3 DEF IsDeactivated
  <2>7. lookup(k, i)' = lookup(k, i)
    BY <2>1, <2>2, <2>3, <2>5, <2>6, SMTT(30) DEF lookup, get_active_addresses_len
  <2>8. QED
    BY <2>1, <2>7, OtherLookups
<1>5. ASSUME NEW k \in TableKeys, NEW r \in TableKeys \cup {None}, close_lookup_table(k, r)
      PROVE  lookup(j, i)' = lookup(j, i)
  <2>1. tables' = [tables EXCEPT ![k] = None] /\ UNCHANGED <<slot, slot_hashes>>
    BY <1>5 DEF close_lookup_table
  <2>2. lookup(k, i) = Err
    BY <1>5 DEF close_lookup_table, lookup
  <2>3. lookup(k, i)' = Err
    BY <2>1 DEF lookup, Exists, Inv, LookupTypeOK
  <2>4. QED
    BY <2>1, <2>2, <2>3, OtherLookups
<1>6. ASSUME NEW s \in Slots, NextBank(s) PROVE FALSE
  BY <1>6, Numbers, SMTT(30) DEF NextBank, Inv, LookupTypeOK
<1>7. CASE UNCHANGED <<slot, slot_hashes, tables>>
  BY <1>7 DEF lookup, Exists, IsDeactivated, Recent, get_active_addresses_len
<1>8. QED
  BY <1>1, <1>2, <1>3, <1>4, <1>5, <1>6, <1>7 DEF LookupNext, Donate, lookupVars

(* A lookup has one outcome in a slot, whatever the program's instructions   *)
(* do before or after it: leader and replaying validators agree on what      *)
(* AddressLookupTable::lookup returns.                                       *)
THEOREM LookupsAreStable == LookupSpec => LookupStable
<1>1. Inv /\ [LookupNext]_lookupVars => [SameLookups]_lookupVars
  BY StepKeepsLookups
<1>2. QED
  BY <1>1, InitInv, NextInv, PTL DEF LookupSpec, LookupStable, SameLookups

-----------------------------------------------------------------------------
(* A frozen table was not deactivated and never will be. *)
FrozenIsActive(k) == tables[k].authority = None => tables[k].deactivation_slot = SLOT_MAX

(* The place of a deactivation in the slot hashes is the number of blocks  *)
(* since; it leaves them after MAX_ENTRIES blocks and not before.          *)
CoolsDown(k) ==
  tables[k].deactivation_slot # SLOT_MAX =>
    /\ tables[k].deactivation_slot = slot => deactivated_at[k] = height
    /\ \A i \in 1 .. Len(slot_hashes) :
         slot_hashes[i] = tables[k].deactivation_slot => deactivated_at[k] + i = height
    /\ IsDeactivated(tables[k]) => height > deactivated_at[k] + MAX_ENTRIES

Paid(k) == table_lamports[k] >= minimum_balance(Len(tables[k].addresses))

(* The inductive invariant for the cool-down and the rent, together with Inv. *)
CoolInv == \A k \in TableKeys : Exists(k) => FrozenIsActive(k) /\ CoolsDown(k) /\ Paid(k)

LEMMA InitCool == LookupInit => CoolInv
  BY DEF LookupInit, CoolInv, Exists

(* What a step within a block may do to the table at j: nothing but pay it, *)
(* create it, freeze it, extend it or deactivate it.                        *)
TableStep(j) ==
  \/ /\ Exists(j) /\ tables'[j] = tables[j] /\ deactivated_at'[j] = deactivated_at[j]
     /\ table_lamports'[j] >= table_lamports[j]
  \/ /\ tables'[j].deactivation_slot = SLOT_MAX
     /\ table_lamports'[j] >= minimum_balance(Len(tables'[j].addresses))
  \/ /\ Mutable(j)
     /\ tables'[j].deactivation_slot = slot /\ deactivated_at'[j] = height
     /\ tables'[j].authority = tables[j].authority
     /\ tables'[j].addresses = tables[j].addresses
     /\ table_lamports'[j] = table_lamports[j]

LEMMA TableSteps ==
  ASSUME Inv, CoolInv, [LookupNext]_lookupVars, slot' = slot, NEW j \in TableKeys, Exists(j)'
  PROVE  TableStep(j) /\ UNCHANGED <<slot_hashes, height>>
<1>0. /\ DOMAIN tables = TableKeys /\ table_lamports \in [TableKeys -> Nat]
      /\ deactivated_at \in [TableKeys -> Nat]
      /\ \A k \in TableKeys : Exists(k) => TableOK(tables[k]) /\ Paid(k)
  BY DEF Inv, LookupTypeOK, CoolInv
<1>1. ASSUME NEW k \in TableKeys, j # k,
             tables'[j] = tables[j] /\ table_lamports'[j] >= table_lamports[j],
             deactivated_at'[j] = deactivated_at[j]
      PROVE  TableStep(j)
  BY <1>1 DEF TableStep, Exists
<1>2. ASSUME NEW k \in TableKeys, create_lookup_table(k)
      PROVE  TableStep(j) /\ UNCHANGED <<slot_hashes, height>>
  <2>1. /\ UNCHANGED <<slot_hashes, height, deactivated_at>>
        /\ table_lamports'[j] >= table_lamports[j]
        /\ j # k => tables'[j] = tables[j]
    BY <1>0, <1>2, SMTT(30) DEF create_lookup_table, minimum_balance
  <2>2. CASE j = k
    <3>1. /\ tables'[j].deactivation_slot = SLOT_MAX /\ tables'[j].addresses = <<>>
          /\ Len(tables'[j].addresses) = 0
      BY <1>0, <1>2, <2>2 DEF create_lookup_table
    <3>2. table_lamports'[j] >= minimum_balance(0)
      BY <1>0, <1>2, <2>2, SMTT(30) DEF create_lookup_table, minimum_balance
    <3> QED
      BY <2>1, <3>1, <3>2 DEF TableStep
  <2> QED
    BY <1>1, <2>1, <2>2
<1>3. ASSUME NEW k \in TableKeys, freeze_lookup_table(k)
      PROVE  TableStep(j) /\ UNCHANGED <<slot_hashes, height>>
  <2>1. /\ UNCHANGED <<slot_hashes, height, deactivated_at, table_lamports>>
        /\ j # k => tables'[j] = tables[j]
        /\ table_lamports[j] >= table_lamports[j]
    BY <1>0, <1>3, SMTT(30) DEF freeze_lookup_table
  <2>2. CASE j = k
    <3>1. /\ Exists(j) /\ TableOK(tables[j]) /\ tables[j].deactivation_slot = SLOT_MAX
          /\ tables'[j] = [tables[j] EXCEPT !.authority = None]
      BY <1>0, <1>3, <2>2 DEF freeze_lookup_table, Mutable
    <3>2. /\ tables'[j].deactivation_slot = SLOT_MAX
          /\ tables'[j].addresses = tables[j].addresses
      BY <3>1 DEF TableOK, TableStates
    <3> QED
      BY <1>0, <2>1, <3>1, <3>2 DEF TableStep, Paid
  <2> QED
    BY <1>1, <2>1, <2>2
<1>4. ASSUME NEW k \in TableKeys, NEW new \in NewAddresses, extend_lookup_table(k, new)
      PROVE  TableStep(j) /\ UNCHANGED <<slot_hashes, height>>
  <2> DEFINE t == Extended(tables[k], new)
  <2> HIDE DEF t
  <2>0. /\ UNCHANGED <<slot_hashes, height, deactivated_at>>
        /\ t.deactivation_slot = SLOT_MAX /\ TableOK(t)
        /\ tables' = [tables EXCEPT ![k] = t]
        /\ table_lamports' = [table_lamports EXCEPT ![k] = ToppedUp(t, table_lamports[k])]
    <3>1. table_lamports' = [table_lamports EXCEPT ![k] = ToppedUp(t, table_lamports[k])]
      BY <1>4 DEF extend_lookup_table, t
    <3> QED
      BY <1>4, <3>1, ExtendOK, SMTT(30) DEF t
  <2>1. j # k => tables'[j] = tables[j] /\ table_lamports'[j] >= table_lamports[j]
    BY <1>0, <2>0, SMTT(30)
  <2>2. CASE j = k
    <3>1. tables'[j] = t /\ table_lamports'[j] = ToppedUp(t, table_lamports[j])
      BY <1>0, <2>0, <2>2
    <3>2. Len(t.addresses) \in Nat /\ table_lamports[j] \in Nat
      BY <1>0, <2>0, Fields
    <3>3. table_lamports'[j] >= minimum_balance(Len(t.addresses))
      BY <3>1, <3>2, SMTT(30) DEF ToppedUp, minimum_balance
    <3> QED
      BY <2>0, <3>1, <3>3 DEF TableStep
  <2> QED
    BY <1>1, <2>0, <2>1, <2>2
<1>5. ASSUME NEW k \in TableKeys, deactivate_lookup_table(k)
      PROVE  TableStep(j) /\ UNCHANGED <<slot_hashes, height>>
  <2>1. /\ UNCHANGED <<slot_hashes, height, table_lamports>>
        /\ j # k => tables'[j] = tables[j] /\ deactivated_at'[j] = deactivated_at[j]
        /\ table_lamports[j] >= table_lamports[j]
    BY <1>0, <1>5, SMTT(30) DEF deactivate_lookup_table
  <2>2. CASE j = k
    <3>1. /\ Mutable(j) /\ TableOK(tables[j])
          /\ tables'[j] = [tables[j] EXCEPT !.deactivation_slot = slot]
          /\ deactivated_at'[j] = height
      BY <1>0, <1>5, <2>2 DEF deactivate_lookup_table, Mutable
    <3>2. /\ tables'[j].deactivation_slot = slot
          /\ tables'[j].authority = tables[j].authority
          /\ tables'[j].addresses = tables[j].addresses
      BY <3>1 DEF TableOK, TableStates
    <3> QED
      BY <2>1, <3>1, <3>2 DEF TableStep
  <2> QED
    BY <1>1, <2>1, <2>2
<1>6. ASSUME NEW k \in TableKeys, NEW r \in TableKeys \cup {None}, close_lookup_table(k, r)
      PROVE  TableStep(j) /\ UNCHANGED <<slot_hashes, height>>
  <2>1. /\ UNCHANGED <<slot_hashes, height, deactivated_at>>
        /\ tables' = [tables EXCEPT ![k] = None]
    BY <1>6 DEF close_lookup_table
  <2>2. j # k /\ tables'[j] = tables[j]
    BY <1>0, <2>1 DEF Exists
  <2>3. table_lamports'[j] >= table_lamports[j]
    <3>1. table_lamports'[j] \in {table_lamports[j], table_lamports[j] + table_lamports[k]}
      BY <1>6, <2>2 DEF close_lookup_table
    <3> QED
      BY <1>0, <3>1, SMTT(30)
  <2> QED
    BY <1>1, <2>1, <2>2, <2>3
<1>7. ASSUME NEW k \in TableKeys, Donate(k)
      PROVE  TableStep(j) /\ UNCHANGED <<slot_hashes, height>>
  <2>1. UNCHANGED <<slot_hashes, height, deactivated_at, tables>>
    BY <1>7 DEF Donate
  <2>2. table_lamports'[j] >= table_lamports[j]
    BY <1>0, <1>7, SMTT(30) DEF Donate
  <2> QED
    BY <2>1, <2>2 DEF TableStep, Exists
<1>8. ASSUME NEW s \in Slots, NextBank(s) PROVE FALSE
  BY <1>8, Numbers, SMTT(30) DEF NextBank, Inv, LookupTypeOK
<1>9. CASE UNCHANGED lookupVars
  BY <1>0, <1>9, SMTT(30) DEF TableStep, Exists, lookupVars
<1> QED
  BY <1>2, <1>3, <1>4, <1>5, <1>6, <1>7, <1>8, <1>9 DEF LookupNext

(* Within a block the clock of every deactivated table stands. *)
LEMMA BlockCool ==
  ASSUME Inv, CoolInv, [LookupNext]_lookupVars, slot' = slot
  PROVE  CoolInv'
<1> SUFFICES ASSUME NEW j \in TableKeys, Exists(j)'
             PROVE  FrozenIsActive(j)' /\ CoolsDown(j)' /\ Paid(j)'
  BY DEF CoolInv
<1>1. TableStep(j) /\ UNCHANGED <<slot_hashes, height>> /\ Recent' = Recent
  BY TableSteps DEF Recent
<1>2. CASE /\ Exists(j) /\ tables'[j] = tables[j] /\ deactivated_at'[j] = deactivated_at[j]
           /\ table_lamports'[j] >= table_lamports[j]
  <2>1. FrozenIsActive(j) /\ CoolsDown(j) /\ Paid(j) /\ TableOK(tables[j])
    BY <1>2 DEF CoolInv, Inv, LookupTypeOK
  <2>2. Len(tables[j].addresses) \in Nat /\ table_lamports[j] \in Nat /\ table_lamports'[j] \in Nat
    <3>1. Inv'
      BY NextInv
    <3> QED
      BY <2>1, <3>1, Fields DEF Inv, LookupTypeOK
  <2>3. Paid(j)'
    BY <1>2, <2>1, <2>2, SMTT(30) DEF Paid, minimum_balance
  <2>4. FrozenIsActive(j)' /\ CoolsDown(j)'
    BY <1>1, <1>2, <2>1 DEF FrozenIsActive, CoolsDown, IsDeactivated
  <2> QED
    BY <2>3, <2>4
<1>3. CASE /\ tables'[j].deactivation_slot = SLOT_MAX
           /\ table_lamports'[j] >= minimum_balance(Len(tables'[j].addresses))
  BY <1>3 DEF FrozenIsActive, CoolsDown, Paid, minimum_balance
<1>4. CASE /\ Mutable(j)
           /\ tables'[j].deactivation_slot = slot /\ deactivated_at'[j] = height
           /\ tables'[j].authority = tables[j].authority
           /\ tables'[j].addresses = tables[j].addresses
           /\ table_lamports'[j] = table_lamports[j]
  <2>1. Exists(j) /\ Paid(j) /\ tables[j].authority # None
    BY <1>4 DEF Mutable, CoolInv
  <2>2. \A i \in 1 .. Len(slot_hashes) : slot_hashes[i] # slot
    <3>1. slot \in Nat /\ \A i \in 1 .. Len(slot_hashes) : slot_hashes[i] < slot
      BY Numbers DEF Inv, LookupTypeOK, HashesOrdered
    <3>2. \A x : x < slot /\ x = slot => FALSE
      BY <3>1, SMTT(30)
    <3> QED
      BY <3>1, <3>2
  <2>3. FrozenIsActive(j)' /\ Paid(j)'
    BY <1>4, <2>1 DEF FrozenIsActive, Paid, minimum_balance
  <2>4. CoolsDown(j)'
    BY <1>1, <1>4, <2>2 DEF CoolsDown, IsDeactivated
  <2> QED
    BY <2>3, <2>4
<1> QED
  BY <1>1, <1>2, <1>3, <1>4 DEF TableStep

(* The next block moves every deactivation one place down the slot hashes. *)
LEMMA BankCool ==
  ASSUME Inv, CoolInv, NEW s \in Slots, NextBank(s)
  PROVE  CoolInv'
<1> DEFINE n == IF Len(slot_hashes) < MAX_ENTRIES THEN Len(slot_hashes) + 1 ELSE MAX_ENTRIES
<1>0. /\ slot' = s /\ s > slot
      /\ slot_hashes' = [i \in 1 .. n |-> IF i = 1 THEN slot ELSE slot_hashes[i - 1]]
      /\ UNCHANGED <<tables, table_lamports, deactivated_at>>
      /\ height' = height + 1
  BY DEF NextBank, HashesOfChild
<1>1. /\ n \in Nat /\ n > 0 /\ n <= Len(slot_hashes) + 1
      /\ n = Len(slot_hashes) + 1 \/ (n = Len(slot_hashes) /\ n = MAX_ENTRIES)
      /\ Len(slot_hashes) \in Nat /\ slot \in Nat /\ s \in Nat /\ height \in Nat
      /\ slot_hashes \in Seq(Slots) /\ Slots \subseteq Nat /\ MAX_ENTRIES \in Nat
  BY ConstantsOK, SMTT(30) DEF Inv, LookupTypeOK, Slots
<1> HIDE DEF n
<1>2. Len(slot_hashes') = n
  BY <1>0, <1>1, SMTT(30)
<1> SUFFICES ASSUME NEW k \in TableKeys, Exists(k)'
             PROVE  FrozenIsActive(k)' /\ CoolsDown(k)' /\ Paid(k)'
  BY DEF CoolInv
<1>3. /\ Exists(k) /\ TableDated(k) /\ TableOK(tables[k])
      /\ FrozenIsActive(k) /\ CoolsDown(k) /\ Paid(k)
  BY <1>0 DEF Exists, CoolInv, Inv, LookupTypeOK
<1>4. FrozenIsActive(k)' /\ Paid(k)'
  BY <1>0, <1>3 DEF FrozenIsActive, Paid, minimum_balance
<1> DEFINE d == tables[k].deactivation_slot
           at == deactivated_at[k]
<1>5. d \in Nat /\ at \in Nat
  BY <1>3, Fields DEF Inv, LookupTypeOK
<1>6. CoolsDown(k)'
  <2> SUFFICES ASSUME d # SLOT_MAX
               PROVE  /\ d = s => at = height + 1
                      /\ \A i \in 1 .. n : slot_hashes'[i] = d => at + i = height + 1
                      /\ IsDeactivated(tables[k])' => height + 1 > at + MAX_ENTRIES
    BY <1>0, <1>2 DEF CoolsDown
  <2>1. /\ d = slot => at = height
        /\ \A i \in 1 .. Len(slot_hashes) : slot_hashes[i] = d => at + i = height
        /\ IsDeactivated(tables[k]) => height > at + MAX_ENTRIES
    BY <1>3 DEF CoolsDown
  <2>2. d <= slot
    <3>1. \A r \in Recent : r < slot
      BY DEF Inv, HashesOrdered, Recent
    <3>2. d = slot \/ d < slot
      BY <1>3, <3>1 DEF TableDated, Tracked
    <3> HIDE DEF d
    <3> QED
      BY <1>1, <1>5, <3>2, SMTT(30)
  <2>3. IsDeactivated(tables[k])' => d # s /\ \A i \in 1 .. n : slot_hashes'[i] # d
    BY <1>0, <1>2 DEF IsDeactivated, Recent
  <2>4. d # slot /\ (\A i \in 1 .. Len(slot_hashes) : slot_hashes[i] # d) => IsDeactivated(tables[k])
    BY DEF IsDeactivated, Recent
  <2> HIDE DEF d, at
  <2>5. d # s
    BY <1>0, <1>1, <1>5, <2>2, SMTT(30)
  <2>6. ASSUME NEW i \in 1 .. n, slot_hashes'[i] = d PROVE at + i = height + 1
    <3>1. CASE i = 1
      <4>1. d = slot
        BY <1>0, <2>6, <3>1
      <4> QED
        BY <1>1, <1>5, <2>1, <3>1, <4>1
    <3>2. CASE i # 1
      <4>1. i - 1 \in 1 .. Len(slot_hashes) /\ slot_hashes[i - 1] = d
        BY <1>0, <1>1, <2>6, <3>2, SMTT(30)
      <4>2. at + (i - 1) = height
        BY <2>1, <4>1
      <4> QED
        BY <1>1, <1>5, <4>2, SMTT(30)
    <3> QED
      BY <3>1, <3>2
  <2>7. ASSUME IsDeactivated(tables[k])' PROVE height + 1 > at + MAX_ENTRIES
    <3>1. d # slot
      <4>1. slot_hashes'[1] = slot /\ 1 \in 1 .. n
        BY <1>0, <1>1, SMTT(30)
      <4> QED
        BY <2>3, <2>7, <4>1
    <3>2. CASE \E i \in 1 .. Len(slot_hashes) : slot_hashes[i] = d
      <4>1. PICK i \in 1 .. Len(slot_hashes) : slot_hashes[i] = d
        BY <3>2
      <4>2. ~ (i < n)
        <5>1. i < n => i + 1 \in 1 .. n /\ slot_hashes'[i + 1] = slot_hashes[i]
          BY <1>0, <1>1, SMTT(30)
        <5> QED
          BY <2>3, <2>7, <4>1, <5>1
      <4>3. i = MAX_ENTRIES
        BY <1>1, <4>2, SMTT(30)
      <4> QED
        BY <1>1, <1>5, <2>1, <4>1, <4>3, SMTT(30)
    <3>3. CASE \A i \in 1 .. Len(slot_hashes) : slot_hashes[i] # d
      <4>1. height > at + MAX_ENTRIES
        BY <2>1, <2>4, <3>1, <3>3
      <4> QED
        BY <1>1, <1>5, <4>1, SMTT(30)
    <3> QED
      BY <3>2, <3>3
  <2> QED
    BY <2>5, <2>6, <2>7
<1> QED
  BY <1>4, <1>6

LEMMA NextCool == Inv /\ CoolInv /\ [LookupNext]_lookupVars => CoolInv'
<1> SUFFICES ASSUME Inv, CoolInv, [LookupNext]_lookupVars PROVE CoolInv'
  OBVIOUS
<1>1. CASE slot' = slot
  BY <1>1, BlockCool
<1>2. CASE slot' # slot
  <2>1. PICK s \in Slots : NextBank(s)
    BY <1>2 DEF LookupNext, lookupVars, create_lookup_table, freeze_lookup_table,
       extend_lookup_table, deactivate_lookup_table, close_lookup_table, Donate
  <2> QED
    BY <2>1, BankCool
<1> QED
  BY <1>1, <1>2

LEMMA CoolInvHolds == LookupSpec => [](Inv /\ CoolInv)
<1> QED  BY InitInv, NextInv, InitCool, NextCool, PTL DEF LookupSpec

(***************************************************************************)
(* A table lives once at its address, is usable for exactly MAX_ENTRIES    *)
(* blocks after the one that deactivates it however many slots are         *)
(* skipped, with the number of remaining blocks reported right, and pays   *)
(* for its length (LookupTableMeta::status and the program's processor).   *)
(***************************************************************************)
THEOREM TablesAreOK == LookupSpec => []TablesOK
<1>1. Inv /\ CoolInv => TablesOK
  <2> SUFFICES ASSUME Inv, CoolInv PROVE TablesOK
    OBVIOUS
  <2>1. LookupTypeOK /\ NeverRecreated /\ RentExempt
    BY DEF Inv, CoolInv, NeverRecreated, ClosedIsPast, RentExempt, Paid
  <2>2. ASSUME NEW k \in TableKeys, Exists(k), tables[k].deactivation_slot # SLOT_MAX
        PROVE  /\ IsDeactivated(tables[k]) <=> height > deactivated_at[k] + MAX_ENTRIES
               /\ ~ IsDeactivated(tables[k]) =>
                    RemainingBlocks(tables[k]) + height = deactivated_at[k] + MAX_ENTRIES + 1
    <3> DEFINE d == tables[k].deactivation_slot
               at == deactivated_at[k]
    <3>1. /\ d = slot => at = height
          /\ \A i \in 1 .. Len(slot_hashes) : slot_hashes[i] = d => at + i = height
          /\ IsDeactivated(tables[k]) => height > at + MAX_ENTRIES
      BY <2>2 DEF CoolInv, CoolsDown
    <3>2. /\ at \in Nat /\ height \in Nat /\ MAX_ENTRIES \in Nat
          /\ Len(slot_hashes) \in Nat /\ Len(slot_hashes) <= MAX_ENTRIES
      BY Numbers, SMTT(30) DEF Inv, LookupTypeOK
    <3>3. /\ ~ IsDeactivated(tables[k]) /\ d # slot => d \in Recent
          /\ RemainingBlocks(tables[k]) =
               IF d = slot THEN MAX_ENTRIES + 1 ELSE MAX_ENTRIES - (Position(d) - 1)
      BY <2>2 DEF IsDeactivated, RemainingBlocks
    <3> HIDE DEF d, at
    <3>4. ASSUME ~ IsDeactivated(tables[k])
          PROVE  /\ ~ (height > at + MAX_ENTRIES)
                 /\ RemainingBlocks(tables[k]) + height = at + MAX_ENTRIES + 1
      <4>1. CASE d = slot
        BY <3>1, <3>2, <3>3, <4>1, SMTT(30)
      <4>2. CASE d # slot
        <5>1. \E i \in 1 .. Len(slot_hashes) : slot_hashes[i] = d
          BY <3>3, <3>4, <4>2 DEF Recent
        <5> DEFINE i == Position(d)
        <5>2. i \in 1 .. Len(slot_hashes) /\ slot_hashes[i] = d
          BY <5>1 DEF Position
        <5>3. RemainingBlocks(tables[k]) = MAX_ENTRIES - (i - 1)
          BY <3>3, <4>2
        <5> HIDE DEF i
        <5>4. at + i = height
          BY <3>1, <5>2
        <5>5. i \in Nat /\ i <= MAX_ENTRIES
          BY <3>2, <5>2, SMTT(30)
        <5> QED
          BY <3>2, <5>3, <5>4, <5>5, SMTT(30)
      <4> QED
        BY <4>1, <4>2
    <3> QED
      BY <3>1, <3>4 DEF at
  <2> QED
    BY <2>1, <2>2 DEF TablesOK, CoolDownExact
<1> QED
  BY <1>1, CoolInvHolds, PTL

(* What AddressesStay says of a step. *)
AddressStays ==
  \A k \in TableKeys, i \in 0 .. MAX_ADDRESSES - 1 :
    lookup(k, i) # Err =>
      \/ lookup(k, i)' = lookup(k, i)
      \/ /\ Mutable(k)
         /\ lookup(k, i)' = Err
         /\ slot' > slot /\ tables[k].deactivation_slot < slot

LEMMA StepKeepsAddresses == Inv /\ CoolInv /\ [LookupNext]_lookupVars => AddressStays
<1> SUFFICES ASSUME Inv, CoolInv, [LookupNext]_lookupVars,
                    NEW k \in TableKeys, NEW i \in 0 .. MAX_ADDRESSES - 1, lookup(k, i) # Err
             PROVE  \/ lookup(k, i)' = lookup(k, i)
                    \/ /\ Mutable(k)
                       /\ lookup(k, i)' = Err
                       /\ slot' > slot /\ tables[k].deactivation_slot < slot
  BY DEF AddressStays
<1>1. CASE slot' = slot
  BY <1>1, StepKeepsLookups DEF SameLookups
<1>2. CASE slot' # slot
  <2>1. PICK s \in Slots : NextBank(s)
    BY <1>2 DEF LookupNext, lookupVars, create_lookup_table, freeze_lookup_table,
       extend_lookup_table, deactivate_lookup_table, close_lookup_table, Donate
  <2> DEFINE t == tables[k]
  <2>2. /\ slot' = s /\ s > slot /\ tables' = tables
    BY <2>1 DEF NextBank
  <2>3. /\ Exists(k) /\ ~ IsDeactivated(t) /\ i < get_active_addresses_len(t)
        /\ lookup(k, i) = t.addresses[i + 1]
    BY DEF lookup
  <2>4. /\ TableOK(t) /\ TableDated(k) /\ FrozenIsActive(k)
        /\ slot \in Nat /\ s \in Nat
    BY <2>3, Numbers DEF Inv, CoolInv, LookupTypeOK
  <2>5. /\ t.last_extended_slot \in Nat /\ t.last_extended_slot <= slot
        /\ t.last_extended_slot_start_index \in Nat /\ Len(t.addresses) \in Nat
        /\ t.last_extended_slot_start_index <= Len(t.addresses)
        /\ t.deactivation_slot \in Nat
    <3>1. t.last_extended_slot_start_index \in 0 .. MAX_ADDRESSES - 1
      BY <2>4, Fields
    <3>2. t.last_extended_slot_start_index \in Nat
      BY <3>1, Numbers, SMTT(30)
    <3> QED
      BY <2>4, <3>2, Fields DEF TableDated
  <2>6. /\ Exists(k)'
        /\ i < get_active_addresses_len(tables[k])'
    <3>1. get_active_addresses_len(tables[k])' = IF s > t.last_extended_slot THEN Len(t.addresses)
                                                  ELSE t.last_extended_slot_start_index
      BY <2>2 DEF get_active_addresses_len
    <3>2. s > t.last_extended_slot
      BY <2>2, <2>4, <2>5, SMTT(30)
    <3>3. i < Len(t.addresses)
      BY <2>3, <2>5, SMTT(30) DEF get_active_addresses_len
    <3> QED
      BY <2>2, <2>3, <3>1, <3>2, <3>3 DEF Exists
  <2>7. CASE ~ IsDeactivated(tables[k])'
    BY <2>2, <2>3, <2>6, <2>7 DEF lookup
  <2>8. CASE IsDeactivated(tables[k])'
    <3>1. lookup(k, i)' = Err
      BY <2>8 DEF lookup
    <3>2. /\ t.deactivation_slot # SLOT_MAX
          /\ t.deactivation_slot \notin Recent'
      BY <2>2, <2>8 DEF IsDeactivated
    <3>3. slot \in Recent'
      <4> DEFINE n == IF Len(slot_hashes) < MAX_ENTRIES THEN Len(slot_hashes) + 1 ELSE MAX_ENTRIES
      <4>1. /\ slot_hashes' = [m \in 1 .. n |-> IF m = 1 THEN slot ELSE slot_hashes[m - 1]]
            /\ n \in Nat /\ n > 0
        BY <2>1, ConstantsOK, SMTT(30) DEF NextBank, HashesOfChild, Inv, LookupTypeOK
      <4> HIDE DEF n
      <4>2. Len(slot_hashes') = n /\ 1 \in 1 .. n /\ slot_hashes'[1] = slot
        BY <4>1, SMTT(30)
      <4> QED
        BY <4>2 DEF Recent
    <3>4. t.deactivation_slot < slot
      <4>1. t.deactivation_slot # slot
        BY <3>2, <3>3
      <4>2. t.deactivation_slot \in Recent
        BY <2>3, <3>2, <4>1 DEF IsDeactivated
      <4> QED
        BY <4>2 DEF Recent, Inv, HashesOrdered
    <3>5. Mutable(k)
      BY <2>3, <2>4, <3>2 DEF Mutable, FrozenIsActive
    <3> QED
      BY <2>2, <3>1, <3>4, <3>5
  <2> QED
    BY <2>7, <2>8
<1> QED
  BY <1>1, <1>2

(***************************************************************************)
(* What a lookup resolves to is stable: within a slot for every index, and *)
(* across slots for every index that resolves, until its table has cooled  *)
(* down, which a frozen table never does (AddressLookupTable::lookup and   *)
(* the program's processor).                                               *)
(***************************************************************************)
THEOREM LookupsDoStay == LookupSpec => LookupsStay
<1>1. Inv /\ CoolInv /\ [LookupNext]_lookupVars => [AddressStays]_lookupVars
  BY StepKeepsAddresses
<1>2. LookupSpec => AddressesStay
  BY <1>1, CoolInvHolds, PTL DEF LookupSpec, AddressesStay, AddressStays
<1> QED
  BY <1>2, LookupsAreStable, PTL DEF LookupsStay
=============================================================================
