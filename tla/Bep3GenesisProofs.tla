--------------------------- MODULE Bep3GenesisProofs ---------------------------
(***************************************************************************)
(* Theorems of Bep3Genesis: a chain that was started from a file, and one  *)
(* that was exported and started again, is as sound as one that never      *)
(* stopped.                                                                *)
(***************************************************************************)
EXTENDS Bep3LedgerProofs, Bep3Genesis

\* What unmarshalling makes of a genesis file: any finite list of swaps and
\* supplies, under params that Validate accepts.
WellFormed(gs) ==
    /\ gs.params \in ParamSets /\ gs.prevBlockTime \in Nat
    /\ gs.swaps \subseteq SwapIDs \X Swap /\ IsFiniteSet(gs.swaps)
    /\ gs.supplies \subseteq Denoms \X {s \in SupplyRecord : s.found}

FilesWellFormed == \A gs \in GenesisFiles : WellFormed(gs)

-------------------------------------------------------------------------------
(* Looking up the entries of a file.                                       *)

(* Without duplicates an entry is what is found under its key. *)
LEMMA LookupEntry ==
    ASSUME NEW entries, NoDuplicates(entries), NEW e \in entries, NEW absent
    PROVE  Lookup(entries, e[1], absent) = e[2]
  BY DEF Lookup, NoDuplicates

(* What is under no key is absent. *)
LEMMA LookupAbsent ==
    ASSUME NEW entries, NEW key, \A e \in entries : e[1] # key, NEW absent
    PROVE  Lookup(entries, key, absent) = absent
  BY DEF Lookup

\* A denom without a supply has the zero record.
AbsentSupplies == \A d \in Denoms : ~ supplies[d].found => supplies[d] = NoSupply

(* An export has every swap and supply of the store once, so importing it    *)
(* writes the same store; the indexes are rebuilt from the swaps.           *)
LEMMA ExportedStore ==
    ASSUME TypeOK, IndexesMatchStatus, AbsentSupplies
    PROVE  LET gs == ExportGenesis
           IN  /\ NoDuplicates(gs.swaps) /\ NoDuplicates(gs.supplies)
               /\ ImportedSwaps(gs) = swaps /\ ImportedSupplies(gs) = supplies
               /\ ImportedByTimestamp(gs) = byTimestamp /\ ImportedLongterm(gs) = longterm
  <1> DEFINE S == GetAllAtomicSwaps
             A == GetAllAssetSupplies
  <1>1. ExportGenesis.swaps = S /\ ExportGenesis.supplies = A  BY DEF ExportGenesis
  <1>2. \A e \in S : e[1] \in SwapIDs /\ e[2] = swaps[e[1]] /\ swaps[e[1]].status # "NULL"
    BY DEF GetAllAtomicSwaps, Stored
  <1>3. \A id \in SwapIDs : swaps[id].status # "NULL" => <<id, swaps[id]>> \in S
    BY DEF GetAllAtomicSwaps, Stored
  <1>4. \A e \in A : e[1] \in Denoms /\ e[2] = supplies[e[1]] /\ supplies[e[1]].found
    BY DEF GetAllAssetSupplies
  <1>5. \A d \in Denoms : supplies[d].found => <<d, supplies[d]>> \in A
    BY DEF GetAllAssetSupplies
  <1>6. NoDuplicates(S)  BY DEF NoDuplicates, GetAllAtomicSwaps
  <1>7. NoDuplicates(A)  BY DEF NoDuplicates, GetAllAssetSupplies
  <1> HIDE DEF S, A
  <1>8. ImportedSwaps(ExportGenesis) = swaps
    <2>1. ASSUME NEW id \in SwapIDs
          PROVE  Lookup(S, id, NoSwap) = swaps[id]
      <3>1. CASE swaps[id].status # "NULL"
        <4>1. Lookup(S, <<id, swaps[id]>>[1], NoSwap) = <<id, swaps[id]>>[2]
          BY <1>3, <1>6, <3>1, LookupEntry
        <4> QED  BY <4>1
      <3>2. CASE swaps[id].status = "NULL"
        <4>1. Lookup(S, id, NoSwap) = NoSwap  BY <1>2, <3>2, LookupAbsent
        <4>2. swaps[id] = NoSwap  BY <3>2 DEF TypeOK, StoreTypeOK, Swap
        <4> QED  BY <4>1, <4>2
      <3> QED  BY <3>1, <3>2
    <2>2. swaps = [id \in SwapIDs |-> swaps[id]]  BY DEF TypeOK, StoreTypeOK
    <2> QED  BY <1>1, <2>1, <2>2 DEF ImportedSwaps
  <1>9. ImportedSupplies(ExportGenesis) = supplies
    <2>1. ASSUME NEW d \in Denoms
          PROVE  Lookup(A, d, NoSupply) = supplies[d]
      <3>1. CASE supplies[d].found
        <4>1. Lookup(A, <<d, supplies[d]>>[1], NoSupply) = <<d, supplies[d]>>[2]
          BY <1>5, <1>7, <3>1, LookupEntry
        <4> QED  BY <4>1
      <3>2. CASE ~ supplies[d].found
        <4>1. Lookup(A, d, NoSupply) = NoSupply  BY <1>4, <3>2, LookupAbsent
        <4> QED  BY <3>2, <4>1 DEF AbsentSupplies
      <3> QED  BY <3>1, <3>2
    <2>2. supplies = [d \in Denoms |-> supplies[d]]  BY DEF TypeOK, LedgerTypeOK
    <2> QED  BY <1>1, <2>1, <2>2 DEF ImportedSupplies
  <1>10. ImportedByTimestamp(ExportGenesis) = byTimestamp
    <2>1. \A x : x \in ImportedByTimestamp(ExportGenesis) <=>
                    \E e \in S : e[2].status = "Open" /\ x = <<e[2].expire, e[1]>>
      BY <1>1 DEF ImportedByTimestamp
    <2>2. ASSUME NEW e \in S
          PROVE  e[1] \in SwapIDs /\ e[2] = swaps[e[1]]
      BY <1>2
    <2>3. ASSUME NEW id \in SwapIDs, swaps[id].status = "Open"
          PROVE  \E e \in S : e[1] = id /\ e[2] = swaps[id]
      BY <1>3, <2>3
    <2>4. \A x : x \in ImportedByTimestamp(ExportGenesis) <=>
                    \E id \in SwapIDs : swaps[id].status = "Open" /\ x = <<swaps[id].expire, id>>
      BY <2>1, <2>2, <2>3
    <2>5. \A x : x \in byTimestamp <=>
                    \E id \in SwapIDs : swaps[id].status = "Open" /\ x = <<swaps[id].expire, id>>
      BY DEF IndexesMatchStatus
    <2> QED  BY <2>4, <2>5
  <1>11. ImportedLongterm(ExportGenesis) = longterm
    <2>1. \A x : x \in ImportedLongterm(ExportGenesis) <=>
                    \E e \in S : e[2].status = "Completed" /\ x = <<DeletionHeight(e[2]), e[1]>>
      BY <1>1 DEF ImportedLongterm
    <2>2. ASSUME NEW e \in S
          PROVE  e[1] \in SwapIDs /\ e[2] = swaps[e[1]]
      BY <1>2
    <2>3. ASSUME NEW id \in SwapIDs, swaps[id].status = "Completed"
          PROVE  \E e \in S : e[1] = id /\ e[2] = swaps[id]
      BY <1>3, <2>3
    <2>4. \A x : x \in ImportedLongterm(ExportGenesis) <=>
                    \E id \in SwapIDs : swaps[id].status = "Completed" /\ x = <<DeletionHeight(swaps[id]), id>>
      BY <2>1, <2>2, <2>3
    <2>5. \A x : x \in longterm <=>
                    \E id \in SwapIDs : swaps[id].status = "Completed" /\ x = <<DeletionHeight(swaps[id]), id>>
      BY DEF IndexesMatchStatus
    <2> QED  BY <2>4, <2>5
  <1> QED  BY <1>1, <1>6, <1>7, <1>8, <1>9, <1>10, <1>11

(* A restart loses nothing. *)
LEMMA RestartKeeps ==
    ASSUME TypeOK, IndexesMatchStatus, AbsentSupplies, NEW downtime, Restart(downtime)
    PROVE  /\ UNCHANGED <<store, supplies, params, accounts, bank>>
           /\ maccPerms' = maccPerms /\ blockTime' = blockTime /\ height' \in {0, height}
           /\ prevBlockTime' \in Nat /\ height > 0 /\ inBlock' = FALSE
  <1>1. UNCHANGED <<swaps, supplies, byTimestamp, longterm>>  BY ExportedStore DEF Restart
  <1>2. ExportGenesis.params = params /\ ExportGenesis.prevBlockTime \in Nat
    BY DEF ExportGenesis, TypeOK, BlockTypeOK
  <1> QED  BY <1>1, <1>2 DEF Restart, store

-------------------------------------------------------------------------------
(* What a message does to the supply of the asset it is about: it keeps    *)
(* the record, and has found room for what it reserves.                     *)

SupplyMoves(d) ==
    /\ supplies[d].found /\ supplies'[d].found
    /\ \/ supplies'[d].current + supplies'[d].incoming <= supplies[d].current + supplies[d].incoming
       \/ params[d].listed /\ supplies'[d].current + supplies'[d].incoming <= params[d].limit
    /\ \/ supplies'[d].outgoing <= supplies[d].outgoing
       \/ supplies'[d].outgoing <= supplies[d].current
    /\ \A e \in Denoms \ {d} : supplies'[e] = supplies[e]

(* The amounts of a supply are counts. *)
LEMMA SupplyFields ==
    ASSUME NEW s \in SupplyRecord
    PROVE  s.incoming \in Nat /\ s.outgoing \in Nat /\ s.current \in Nat /\ s.found \in BOOLEAN
  BY DEF SupplyRecord

(* A reservation of incoming supply fits under the limit. *)
LEMMA CreateIncomingMoves ==
    ASSUME TypeOK, NEW id, NEW recipient, NEW d \in Denoms, NEW amount \in Amounts,
           NEW timestamp, NEW span, CreateIncoming(id, recipient, d, amount, timestamp, span)
    PROVE  SupplyMoves(d)
  <1>1. amount \in Nat /\ supplies[d] \in SupplyRecord
    BY NumbersAssumption DEF TypeOK, LedgerTypeOK
  <1>2. /\ supplies'[d] = IncrementIncoming(supplies[d], amount)
        /\ \A e \in Denoms \ {d} : supplies'[e] = supplies[e]
        /\ supplies[d].found /\ params[d].listed
        /\ supplies[d].current + supplies[d].incoming + amount <= params[d].limit
    BY DEF CreateIncoming, CanIncrementIncoming, TypeOK, LedgerTypeOK
  <1>3. /\ supplies'[d].found = supplies[d].found /\ supplies'[d].current = supplies[d].current
        /\ supplies'[d].incoming = supplies[d].incoming + amount
        /\ supplies'[d].outgoing = supplies[d].outgoing
    BY <1>1, <1>2 DEF IncrementIncoming, SupplyRecord
  <1>4. supplies[d].incoming \in Nat /\ supplies[d].outgoing \in Nat /\ supplies[d].current \in Nat
    BY <1>1, SupplyFields
  <1>5. supplies'[d].current + supplies'[d].incoming <= params[d].limit
    <2>1. params[d].limit \in Nat  BY ParamFields
    <2> QED  BY <1>1, <1>2, <1>3, <1>4, <2>1
  <1> QED  BY <1>2, <1>3, <1>4, <1>5 DEF SupplyMoves

(* A reservation of outgoing supply fits under the current supply. *)
LEMMA CreateOutgoingMoves ==
    ASSUME TypeOK, NEW id, NEW recipient, NEW d \in Denoms, NEW amount \in Amounts,
           NEW timestamp, NEW span, CreateOutgoing(id, recipient, d, amount, timestamp, span)
    PROVE  SupplyMoves(d)
  <1>1. amount \in Nat /\ supplies[d] \in SupplyRecord
    BY NumbersAssumption DEF TypeOK, LedgerTypeOK
  <1>2. /\ supplies'[d] = IncrementOutgoing(supplies[d], amount)
        /\ \A e \in Denoms \ {d} : supplies'[e] = supplies[e]
        /\ supplies[d].found /\ supplies[d].outgoing + amount <= supplies[d].current
    BY DEF CreateOutgoing, CanIncrementOutgoing, TypeOK, LedgerTypeOK
  <1>3. /\ supplies'[d].found = supplies[d].found /\ supplies'[d].current = supplies[d].current
        /\ supplies'[d].incoming = supplies[d].incoming
        /\ supplies'[d].outgoing = supplies[d].outgoing + amount
    BY <1>1, <1>2 DEF IncrementOutgoing, SupplyRecord
  <1>4. supplies[d].incoming \in Nat /\ supplies[d].outgoing \in Nat /\ supplies[d].current \in Nat
    BY <1>1, SupplyFields
  <1> QED  BY <1>1, <1>2, <1>3, <1>4 DEF SupplyMoves

(* A mint turns incoming supply into current supply. *)
LEMMA ClaimIncomingMoves ==
    ASSUME TypeOK, NEW id \in SwapIDs, NEW number, ClaimIncoming(id, number)
    PROVE  SupplyMoves(swaps[id].denom)
  <1> DEFINE d == swaps[id].denom
             a == swaps[id].amount
             s == IncrementCurrent(DecrementIncoming(supplies[d], a), params[d], a)
  <1>1. swaps[id].status # "NULL"  BY DEF ClaimIncoming, IsClaimable
  <1>2. d \in Denoms /\ a \in Nat /\ supplies[d] \in SupplyRecord  BY <1>1, SettledSwapFields
  <1>3. supplies'[d] = s /\ supplies[d].found /\ \A e \in Denoms \ {d} : supplies'[e] = supplies[e]
    BY <1>2 DEF ClaimIncoming, CanMint, CanDecrementIncoming, TypeOK, LedgerTypeOK
  <1> HIDE DEF d, a
  <1>4. /\ supplies'[d].found = supplies[d].found /\ supplies'[d].current = supplies[d].current + a
        /\ supplies'[d].incoming = supplies[d].incoming - a
        /\ supplies'[d].outgoing = supplies[d].outgoing
    <2>1. /\ s.found = supplies[d].found /\ s.outgoing = supplies[d].outgoing
          /\ s.incoming = supplies[d].incoming - a /\ s.current = supplies[d].current + a
      BY <1>2, MintFields
    <2> HIDE DEF s
    <2> QED  BY <1>3, <2>1
  <1>5. supplies[d].incoming \in Nat /\ supplies[d].outgoing \in Nat /\ supplies[d].current \in Nat
    BY <1>2, SupplyFields
  <1> QED  BY <1>2, <1>3, <1>4, <1>5 DEF SupplyMoves, d

(* A burn lowers the current and the outgoing supply. *)
LEMMA ClaimOutgoingMoves ==
    ASSUME TypeOK, NEW id \in SwapIDs, NEW number, ClaimOutgoing(id, number)
    PROVE  SupplyMoves(swaps[id].denom)
  <1> DEFINE d == swaps[id].denom
             a == swaps[id].amount
             s == DecrementCurrent(DecrementOutgoing(supplies[d], a), a)
  <1>1. swaps[id].status # "NULL"  BY DEF ClaimOutgoing, IsClaimable
  <1>2. d \in Denoms /\ a \in Nat /\ supplies[d] \in SupplyRecord  BY <1>1, SettledSwapFields
  <1>3. supplies'[d] = s /\ supplies[d].found /\ \A e \in Denoms \ {d} : supplies'[e] = supplies[e]
    BY <1>2 DEF ClaimOutgoing, CanBurn, CanDecrementOutgoing, TypeOK, LedgerTypeOK
  <1> HIDE DEF d, a
  <1>4. /\ supplies'[d].found = supplies[d].found /\ supplies'[d].current = supplies[d].current - a
        /\ supplies'[d].incoming = supplies[d].incoming
        /\ supplies'[d].outgoing = supplies[d].outgoing - a
    BY <1>2, <1>3 DEF DecrementCurrent, DecrementOutgoing, SupplyRecord
  <1>5. supplies[d].incoming \in Nat /\ supplies[d].outgoing \in Nat /\ supplies[d].current \in Nat
    BY <1>2, SupplyFields
  <1> QED  BY <1>2, <1>3, <1>4, <1>5 DEF SupplyMoves, d

(* A refund releases the reservation. *)
LEMMA RefundIncomingMoves ==
    ASSUME TypeOK, NEW id \in SwapIDs, RefundIncoming(id)
    PROVE  SupplyMoves(swaps[id].denom)
  <1> DEFINE d == swaps[id].denom
             a == swaps[id].amount
             s == DecrementIncoming(supplies[d], a)
  <1>1. swaps[id].status # "NULL"  BY DEF RefundIncoming, IsRefundable
  <1>2. d \in Denoms /\ a \in Nat /\ supplies[d] \in SupplyRecord  BY <1>1, SettledSwapFields
  <1>3. supplies'[d] = s /\ supplies[d].found /\ \A e \in Denoms \ {d} : supplies'[e] = supplies[e]
    BY <1>2 DEF RefundIncoming, CanDecrementIncoming, TypeOK, LedgerTypeOK
  <1> HIDE DEF d, a
  <1>4. /\ supplies'[d].found = supplies[d].found /\ supplies'[d].current = supplies[d].current
        /\ supplies'[d].incoming = supplies[d].incoming - a
        /\ supplies'[d].outgoing = supplies[d].outgoing
    BY <1>2, <1>3 DEF DecrementIncoming, SupplyRecord
  <1>5. supplies[d].incoming \in Nat /\ supplies[d].outgoing \in Nat /\ supplies[d].current \in Nat
    BY <1>2, SupplyFields
  <1> QED  BY <1>2, <1>3, <1>4, <1>5 DEF SupplyMoves, d

(* So does the refund of an outgoing swap. *)
LEMMA RefundOutgoingMoves ==
    ASSUME TypeOK, NEW id \in SwapIDs, RefundOutgoing(id)
    PROVE  SupplyMoves(swaps[id].denom)
  <1> DEFINE d == swaps[id].denom
             a == swaps[id].amount
             s == DecrementOutgoing(supplies[d], a)
  <1>1. swaps[id].status # "NULL"  BY DEF RefundOutgoing, IsRefundable
  <1>2. d \in Denoms /\ a \in Nat /\ supplies[d] \in SupplyRecord  BY <1>1, SettledSwapFields
  <1>3. supplies'[d] = s /\ supplies[d].found /\ \A e \in Denoms \ {d} : supplies'[e] = supplies[e]
    BY <1>2 DEF RefundOutgoing, CanRelease, CanDecrementOutgoing, TypeOK, LedgerTypeOK
  <1> HIDE DEF d, a
  <1>4. /\ supplies'[d].found = supplies[d].found /\ supplies'[d].current = supplies[d].current
        /\ supplies'[d].incoming = supplies[d].incoming
        /\ supplies'[d].outgoing = supplies[d].outgoing - a
    BY <1>2, <1>3 DEF DecrementOutgoing, SupplyRecord
  <1>5. supplies[d].incoming \in Nat /\ supplies[d].outgoing \in Nat /\ supplies[d].current \in Nat
    BY <1>2, SupplyFields
  <1> QED  BY <1>2, <1>3, <1>4, <1>5 DEF SupplyMoves, d

(* Every message moves one supply. *)
LEMMA MessageMoves ==
    ASSUME TypeOK, Create \/ Claim \/ Refund
    PROVE  /\ \E d \in Denoms : SupplyMoves(d)
           /\ inBlock /\ UNCHANGED <<params, block>>
  <1>1. CASE Create
    <2>1. \E d \in Denoms : SupplyMoves(d)
      BY <1>1, CreateIncomingMoves, CreateOutgoingMoves DEF Create
    <2>2. inBlock /\ UNCHANGED <<params, block>>
      BY <1>1 DEF Create, CreateIncoming, CreateOutgoing, AcceptSwap
    <2> QED  BY <2>1, <2>2
  <1>2. CASE Claim
    <2>1. PICK id \in SwapIDs, number \in Numbers : ClaimIncoming(id, number) \/ ClaimOutgoing(id, number)
      BY <1>2 DEF Claim
    <2>2. swaps[id].denom \in Denoms
      BY <2>1, SettledSwapFields DEF ClaimIncoming, ClaimOutgoing, IsClaimable
    <2>3. SupplyMoves(swaps[id].denom)  BY <2>1, ClaimIncomingMoves, ClaimOutgoingMoves
    <2>4. inBlock /\ UNCHANGED <<params, block>>  BY <2>1 DEF ClaimIncoming, ClaimOutgoing
    <2> QED  BY <2>2, <2>3, <2>4
  <1>3. CASE Refund
    <2>1. PICK id \in SwapIDs : RefundIncoming(id) \/ RefundOutgoing(id)  BY <1>3 DEF Refund
    <2>2. swaps[id].denom \in Denoms
      BY <2>1, SettledSwapFields DEF RefundIncoming, RefundOutgoing, IsRefundable
    <2>3. SupplyMoves(swaps[id].denom)  BY <2>1, RefundIncomingMoves, RefundOutgoingMoves
    <2>4. inBlock /\ UNCHANGED <<params, block>>  BY <2>1 DEF RefundIncoming, RefundOutgoing
    <2> QED  BY <2>2, <2>3, <2>4
  <1> QED  BY <1>1, <1>2, <1>3

-------------------------------------------------------------------------------
(* What holds of the supplies of an imported chain.                        *)

\* Every supply is of a listed asset and within its limit, for as long as
\* governance leaves the params alone.
SuppliesFit ==
    \A d \in Denoms : supplies[d].found =>
        /\ params[d].listed
        /\ supplies[d].incoming + supplies[d].current <= params[d].limit
        /\ supplies[d].outgoing <= params[d].limit

(* A message keeps the ledger. *)
LEMMA MessageLedger ==
    ASSUME TypeOK, TypeOK', AbsentSupplies, Create \/ Claim \/ Refund
    PROVE  AbsentSupplies' /\ (SuppliesFit => SuppliesFit')
  <1>1. PICK d \in Denoms : SupplyMoves(d)  BY MessageMoves
  <1>2. params' = params  BY MessageMoves
  <1>3. /\ supplies[d] \in SupplyRecord /\ supplies'[d] \in SupplyRecord
        /\ params[d].limit \in Nat
    BY ParamFields DEF TypeOK, LedgerTypeOK
  <1>4. /\ supplies[d].incoming \in Nat /\ supplies[d].outgoing \in Nat /\ supplies[d].current \in Nat
        /\ supplies'[d].incoming \in Nat /\ supplies'[d].outgoing \in Nat /\ supplies'[d].current \in Nat
    BY <1>3, SupplyFields
  <1>5. /\ supplies[d].found /\ supplies'[d].found
        /\ \A e \in Denoms \ {d} : supplies'[e] = supplies[e]
    BY <1>1 DEF SupplyMoves
  <1>6. AbsentSupplies'  BY <1>5 DEF AbsentSupplies
  <1>7. ASSUME SuppliesFit PROVE SuppliesFit'
    <2>1. /\ params[d].listed /\ supplies[d].incoming + supplies[d].current <= params[d].limit
          /\ supplies[d].outgoing <= params[d].limit
      BY <1>5, <1>7 DEF SuppliesFit
    <2>2. /\ supplies'[d].incoming + supplies'[d].current <= params[d].limit
          /\ supplies'[d].outgoing <= params[d].limit
      BY <1>1, <1>3, <1>4, <2>1 DEF SupplyMoves
    <2> QED  BY <1>2, <1>5, <1>7, <2>1, <2>2 DEF SuppliesFit
  <1> QED  BY <1>6, <1>7

(* A block keeps the amounts, and gives every listed asset a record. *)
LEMMA BlockLedger ==
    ASSUME TypeOK, AbsentSupplies, NEW step \in Steps, BeginBlock(step)
    PROVE  AbsentSupplies' /\ (SuppliesFit => SuppliesFit')
  <1>1. params' = params  BY DEF BeginBlock
  <1>2. ASSUME NEW d \in Denoms
        PROVE  \/ params[d].listed /\ supplies'[d].found
               \/ supplies'[d] = supplies[d]
    <2>1. supplies[d] \in SupplyRecord  BY DEF TypeOK, LedgerTypeOK
    <2>2. CASE params[d].listed
      <3>1. supplies'[d] = UpdateWindow(supplies[d], params[d], Elapsed(blockTime'))
        BY <2>2 DEF BeginBlock, UpdateTimeBasedSupplyLimits
      <3>2. ASSUME NEW elapsed
            PROVE  UpdateWindow(supplies[d], params[d], elapsed).found
        BY <2>1 DEF UpdateWindow, SupplyRecord
      <3> QED  BY <2>2, <3>1, <3>2
    <2>3. CASE ~ params[d].listed
      BY <2>3 DEF BeginBlock, UpdateTimeBasedSupplyLimits, TypeOK, LedgerTypeOK
    <2> QED  BY <2>2, <2>3
  <1>3. AbsentSupplies'  BY <1>2 DEF AbsentSupplies
  <1>4. ASSUME SuppliesFit PROVE SuppliesFit'
    <2> SUFFICES ASSUME NEW d \in Denoms, supplies'[d].found
                 PROVE  /\ params[d].listed
                        /\ supplies'[d].incoming + supplies'[d].current <= params[d].limit
                        /\ supplies'[d].outgoing <= params[d].limit
      BY <1>1 DEF SuppliesFit
    <2>1. /\ supplies'[d].incoming = supplies[d].incoming
          /\ supplies'[d].outgoing = supplies[d].outgoing
          /\ supplies'[d].current = supplies[d].current
      BY BeginBlockSupplies
    <2>2. CASE supplies[d].found  BY <1>4, <2>1, <2>2 DEF SuppliesFit
    <2>3. CASE ~ supplies[d].found
      <3>1. supplies[d] = NoSupply  BY <2>3 DEF AbsentSupplies
      <3>2. supplies[d].incoming = 0 /\ supplies[d].outgoing = 0 /\ supplies[d].current = 0
        BY <3>1 DEF NoSupply, CreateNewAssetSupply
      <3>3. params[d].listed  BY <1>2, <2>3
      <3>4. params[d].limit \in Nat  BY ParamFields
      <3> QED  BY <2>1, <3>2, <3>3, <3>4
    <2> QED  BY <2>2, <2>3
  <1> QED  BY <1>3, <1>4

-------------------------------------------------------------------------------
(* Every step of a chain that may be restarted.                            *)

ImportedInv == TypeOK /\ IndexInv /\ AbsentSupplies

(* Messages, blocks, governance and restarts keep types, indexes and        *)
(* supplies in order.                                                       *)
LEMMA NextImported ==
    ASSUME ImportedInv, [RestartNext]_vars
    PROVE  ImportedInv'
  <1>1. TypeOK /\ IndexInv /\ AbsentSupplies  BY DEF ImportedInv
  <1>2. CASE [Next]_vars
    <2>1. TypeOK' /\ IndexInv'  BY <1>1, <1>2, NextTypeOK, NextIndex
    <2>2. AbsentSupplies'
      <3>1. CASE Create \/ Claim \/ Refund  BY <1>1, <2>1, <3>1, MessageLedger
      <3>2. CASE NextBlock  BY <1>1, <3>2, BlockLedger DEF NextBlock
      <3>3. CASE Govern  BY <1>1, <3>3 DEF Govern, SetParams, AbsentSupplies
      <3>4. CASE UNCHANGED vars  BY <1>1, <3>4 DEF vars, AbsentSupplies
      <3> QED  BY <1>2, <3>1, <3>2, <3>3, <3>4 DEF Next, FixedNext
    <2> QED  BY <2>1, <2>2 DEF ImportedInv
  <1>3. CASE \E downtime \in Downtimes : Restart(downtime)
    <2>1. PICK downtime \in Downtimes : Restart(downtime)  BY <1>3
    <2>2. IndexesMatchStatus /\ AbsentSupplies  BY <1>1 DEF IndexInv
    <2>3. /\ UNCHANGED <<store, supplies, params, accounts, bank>>
          /\ maccPerms' = maccPerms /\ blockTime' = blockTime /\ height' \in {0, height}
          /\ prevBlockTime' \in Nat /\ inBlock' = FALSE
      BY <1>1, <2>1, <2>2, RestartKeeps
    <2>4. TypeOK'
      <3>1. StoreTypeOK'  BY <1>1, <2>3 DEF TypeOK, StoreTypeOK, store
      <3>2. LedgerTypeOK'  BY <1>1, <2>3 DEF TypeOK, LedgerTypeOK, bank
      <3>3. BlockTypeOK'
        <4>1. height' \in Nat /\ blockTime' \in Nat /\ prevBlockTime' \in Nat \cup {NoTime}
          BY <1>1, <2>3 DEF TypeOK, BlockTypeOK
        <4>2. maccPerms' \in BOOLEAN /\ inBlock' \in BOOLEAN
          BY <1>1, <2>3, Zenon DEF TypeOK, BlockTypeOK
        <4> QED  BY <4>1, <4>2 DEF BlockTypeOK
      <3> QED  BY <1>1, <2>3, <3>1, <3>2, <3>3 DEF TypeOK
    <2>5. IndexInv'
      <3>1. IndexesMatchStatus'  BY <2>2, <2>3 DEF IndexesMatchStatus, DeletionHeight, store
      <3>2. DeletionsAhead'
        <4> SUFFICES ASSUME NEW id \in SwapIDs, swaps'[id].status = "Completed"
                     PROVE  height' < DeletionHeight(swaps'[id])
          BY DEF DeletionsAhead
        <4>1. swaps' = swaps  BY <2>3 DEF store
        <4>2. height < DeletionHeight(swaps[id])  BY <1>1, <4>1 DEF IndexInv, DeletionsAhead
        <4>3. swaps[id].closedBlock \in Nat /\ height \in Nat
          BY <1>1, <4>1, SwapFields DEF TypeOK, BlockTypeOK
        <4>4. DeletionHeight(swaps[id]) \in Nat /\ 0 < DeletionHeight(swaps[id])
          BY <4>3, NumbersAssumption DEF DeletionHeight
        <4> QED  BY <2>3, <4>1, <4>2, <4>4
      <3> QED  BY <3>1, <3>2 DEF IndexInv
    <2>6. AbsentSupplies'  BY <1>1, <2>3 DEF AbsentSupplies
    <2> QED  BY <2>4, <2>5, <2>6 DEF ImportedInv
  <1> QED  BY <1>2, <1>3 DEF RestartNext

-------------------------------------------------------------------------------
(* Sums of all the coins of the unsettled swaps: `w' is the store before a  *)
(* step, `v' the store after it.                                            *)

(* A swap's coins of a denom are its further ones and, of its first coin's  *)
(* denom, its amount.                                                       *)
LEMMA CoinsOfSwap ==
    ASSUME NEW swap \in Swap, NEW d \in Denoms
    PROVE  /\ Coins(swap)[d] = swap.others[d] + (IF swap.denom = d THEN swap.amount ELSE 0)
           /\ swap.others[d] \in Nat /\ swap.amount \in Nat /\ Coins(swap)[d] \in Nat
  <1>1. swap.others \in [Denoms -> Nat] /\ swap.denom \in Denoms  BY DEF Swap, CoinAmounts
  <1>2. swap.amount \in Nat  BY NumbersAssumption DEF Swap
  <1>3. Coins(swap)[d] = IF swap.denom = d THEN swap.others[d] + swap.amount ELSE swap.others[d]
    BY <1>1 DEF Coins
  <1>4. swap.others[d] \in Nat  BY <1>1
  <1> QED  BY <1>2, <1>3, <1>4

\* The coins of one denom as if they were the amounts of the swaps.
CoinSheet(w, d) == [id \in SwapIDs |-> [amount |-> Coins(w[id])[d]]]

(* So what is known of sums of amounts holds of sums of coins. *)
LEMMA CoinsAreAmounts ==
    ASSUME NEW w, NEW ids, ids \subseteq SwapIDs, NEW d
    PROVE  TotalCoins(w, ids, d) = TotalAmount(CoinSheet(w, d), ids)
  <1>1. \A id \in ids : CoinSheet(w, d)[id].amount = Coins(w[id])[d]  BY DEF CoinSheet
  <1>2. [id \in ids |-> CoinSheet(w, d)[id].amount] = [id \in ids |-> Coins(w[id])[d]]  BY <1>1
  <1> QED  BY <1>2 DEF TotalCoins, TotalAmount

(* Finitely many swaps are unsettled, and their coins add up to a count. *)
LEMMA UnsettledFinite ==
    ASSUME NEW w \in Stores, IsFiniteSet(StoredIn(w)), NEW direction, NEW d \in Denoms
    PROVE  LET L == UnsettledSwaps(w, direction)
           IN  /\ IsFiniteSet(L) /\ L \subseteq SwapIDs
               /\ \A id \in L : w[id] \in Swap /\ Coins(w[id])[d] \in Nat
               /\ TotalCoins(w, L, d) \in Nat
  <1> DEFINE L == UnsettledSwaps(w, direction)
  <1>1. L \subseteq SwapIDs /\ L \subseteq StoredIn(w) /\ \A id \in L : w[id].status # "NULL"
    BY DEF UnsettledSwaps, IsLive, StoredIn
  <1> HIDE DEF L
  <1>2. IsFiniteSet(L)  BY <1>1, FS_Subset
  <1>3. \A id \in L : w[id] \in Swap  BY <1>1, LiveSwapFields
  <1>4. \A id \in L : Coins(w[id])[d] \in Nat  BY <1>3, CoinsOfSwap
  <1>5. \A id \in L : CoinSheet(w, d)[id].amount \in Nat  BY <1>1, <1>4 DEF CoinSheet
  <1>6. TotalCoins(w, L, d) \in Nat  BY <1>1, <1>2, <1>5, AmountsNat, CoinsAreAmounts
  <1> QED  BY <1>1, <1>2, <1>3, <1>4, <1>6 DEF L

(* The coins of swaps that change neither in denom nor in amount.           *)
LEMMA CoinsKept ==
    ASSUME NEW w, NEW v, NEW S, S \subseteq SwapIDs, IsFiniteSet(S), NEW d,
           \A id \in S : Coins(v[id]) = Coins(w[id])
    PROVE  TotalCoins(v, S, d) = TotalCoins(w, S, d)
  <1>1. \A id \in S : CoinSheet(v, d)[id].amount = CoinSheet(w, d)[id].amount  BY DEF CoinSheet
  <1> QED  BY <1>1, AmountsKept, CoinsAreAmounts

(* The coins of one more swap are added. *)
LEMMA CoinsAdded ==
    ASSUME NEW w, NEW S, S \subseteq SwapIDs, IsFiniteSet(S), NEW x \in SwapIDs, x \notin S, NEW d,
           \A id \in S \cup {x} : Coins(w[id])[d] \in Nat
    PROVE  TotalCoins(w, S \cup {x}, d) = TotalCoins(w, S, d) + Coins(w[x])[d]
  <1>1. \A id \in S \cup {x} : CoinSheet(w, d)[id].amount = Coins(w[id])[d]  BY DEF CoinSheet
  <1>2. TotalAmount(CoinSheet(w, d), S \cup {x}) = TotalAmount(CoinSheet(w, d), S) + CoinSheet(w, d)[x].amount
    BY <1>1, AmountAdded
  <1> QED  BY <1>1, <1>2, CoinsAreAmounts

(* A new swap adds its coins. *)
LEMMA OpenedCoins ==
    ASSUME NEW w \in Stores, IsFiniteSet(StoredIn(w)), NEW id \in SwapIDs, w[id].status = "NULL",
           NEW swap \in Swap, swap.status = "Open",
           NEW v, v[id] = swap, \A i \in SwapIDs \ {id} : v[i] = w[i],
           NEW direction, NEW d \in Denoms
    PROVE  TotalCoins(v, UnsettledSwaps(v, direction), d) =
               TotalCoins(w, UnsettledSwaps(w, direction), d)
               + (IF swap.direction = direction THEN Coins(swap)[d] ELSE 0)
  <1> DEFINE L == UnsettledSwaps(w, direction)
             M == UnsettledSwaps(v, direction)
  <1>1. id \notin L /\ L \subseteq SwapIDs  BY DEF UnsettledSwaps, IsLive
  <1>2. M = IF swap.direction = direction THEN L \cup {id} ELSE L
    BY <1>1 DEF UnsettledSwaps, IsLive
  <1>3. IsFiniteSet(L) /\ TotalCoins(w, L, d) \in Nat /\ \A i \in L : Coins(w[i])[d] \in Nat
    BY UnsettledFinite
  <1>4. Coins(swap)[d] \in Nat  BY CoinsOfSwap
  <1> HIDE DEF L, M
  <1>5. \A i \in L : v[i] = w[i]  BY <1>1
  <1>6. TotalCoins(v, L, d) = TotalCoins(w, L, d)  BY <1>1, <1>3, <1>5, CoinsKept
  <1>7. \A i \in L \cup {id} : Coins(v[i])[d] \in Nat  BY <1>3, <1>4, <1>5
  <1>8. TotalCoins(v, L \cup {id}, d) = TotalCoins(v, L, d) + Coins(swap)[d]
    BY <1>1, <1>3, <1>7, CoinsAdded
  <1> QED  BY <1>2, <1>3, <1>4, <1>6, <1>8 DEF L, M

(* A swap that settles takes its coins away. *)
LEMMA SettledCoins ==
    ASSUME NEW w \in Stores, IsFiniteSet(StoredIn(w)), NEW id \in SwapIDs,
           w[id].status \in {"Open", "Expired"},
           NEW v, v[id].status = "Completed", \A i \in SwapIDs \ {id} : v[i] = w[i],
           NEW direction, NEW d \in Denoms
    PROVE  TotalCoins(v, UnsettledSwaps(v, direction), d) =
               TotalCoins(w, UnsettledSwaps(w, direction), d)
               - (IF w[id].direction = direction THEN Coins(w[id])[d] ELSE 0)
  <1> DEFINE L == UnsettledSwaps(w, direction)
             M == UnsettledSwaps(v, direction)
  <1>1. L \subseteq SwapIDs /\ M \subseteq SwapIDs  BY DEF UnsettledSwaps
  <1>2. id \in L <=> w[id].direction = direction  BY DEF UnsettledSwaps, IsLive
  <1>3. M = L \ {id}  BY DEF UnsettledSwaps, IsLive
  <1>4. IsFiniteSet(L) /\ TotalCoins(w, L, d) \in Nat /\ \A i \in L : Coins(w[i])[d] \in Nat
    BY UnsettledFinite
  <1> HIDE DEF L, M
  <1>5. IsFiniteSet(M) /\ \A i \in M : v[i] = w[i]  BY <1>1, <1>3, <1>4, FS_Subset
  <1>6. TotalCoins(v, M, d) = TotalCoins(w, M, d)  BY <1>1, <1>5, CoinsKept
  <1>7. CASE id \in L
    <2>1. L = M \cup {id} /\ id \notin M  BY <1>3, <1>7
    <2>2. TotalCoins(w, L, d) = TotalCoins(w, M, d) + Coins(w[id])[d]
      BY <1>1, <1>4, <1>5, <2>1, CoinsAdded
    <2>3. \A i \in M : CoinSheet(w, d)[i].amount \in Nat
      BY <1>1, <1>3, <1>4 DEF CoinSheet
    <2>4. TotalCoins(w, M, d) \in Nat  BY <1>1, <1>5, <2>3, AmountsNat, CoinsAreAmounts
    <2>5. Coins(w[id])[d] \in Nat  BY <1>4, <1>7
    <2> QED  BY <1>2, <1>6, <1>7, <2>2, <2>4, <2>5 DEF L, M
  <1>8. CASE id \notin L
    <2>1. M = L  BY <1>3, <1>8
    <2> QED  BY <1>2, <1>4, <1>6, <1>8, <2>1 DEF L, M
  <1> QED  BY <1>7, <1>8

(* A block that expires and deletes swaps leaves them as they were. *)
LEMMA ExpiredCoins ==
    ASSUME NEW w \in Stores, IsFiniteSet(StoredIn(w)),
           NEW v, \A i \in SwapIDs :
                      \/ v[i] = w[i]
                      \/ /\ w[i].status = "Open" /\ v[i].status = "Expired"
                         /\ Terms(v[i]) = Terms(w[i])
                      \/ w[i].status = "Completed" /\ v[i].status = "NULL",
           NEW direction, NEW d \in Denoms
    PROVE  TotalCoins(v, UnsettledSwaps(v, direction), d) =
               TotalCoins(w, UnsettledSwaps(w, direction), d)
  <1> DEFINE L == UnsettledSwaps(w, direction)
  <1>1. UnsettledSwaps(v, direction) = L  BY DEF UnsettledSwaps, IsLive, Terms
  <1>2. \A i \in L : /\ v[i].denom = w[i].denom /\ v[i].amount = w[i].amount
                     /\ v[i].others = w[i].others
    BY DEF UnsettledSwaps, IsLive, Terms
  <1>3. \A i \in L : Coins(v[i]) = Coins(w[i])  BY <1>2 DEF Coins
  <1>4. IsFiniteSet(L) /\ L \subseteq SwapIDs  BY UnsettledFinite
  <1> HIDE DEF L
  <1>5. TotalCoins(v, L, d) = TotalCoins(w, L, d)  BY <1>3, <1>4, CoinsKept
  <1> QED  BY <1>1, <1>5 DEF L

-------------------------------------------------------------------------------
(* The state a chain is started in from a file.                            *)

(* The store has the swaps of the file, each under its ID, and no others.   *)
LEMMA SwapsOfFile ==
    ASSUME NEW gs, WellFormed(gs), NoDuplicates(gs.swaps)
    PROVE  LET w == ImportedSwaps(gs)
           IN  /\ w \in [SwapIDs -> Swap \cup {NoSwap}]
               /\ \A e \in gs.swaps : e[1] \in SwapIDs /\ e[2] \in Swap /\ w[e[1]] = e[2]
               /\ \A id \in SwapIDs : w[id].status # "NULL" =>
                      \E e \in gs.swaps : e[1] = id /\ e[2] = w[id]
  <1> DEFINE w == ImportedSwaps(gs)
  <1>1. \A e \in gs.swaps : e[1] \in SwapIDs /\ e[2] \in Swap  BY DEF WellFormed
  <1>2. \A e \in gs.swaps : w[e[1]] = e[2]  BY <1>1, LookupEntry DEF ImportedSwaps
  <1>3. ASSUME NEW id \in SwapIDs, \A e \in gs.swaps : e[1] # id
        PROVE  w[id] = NoSwap
    BY <1>3, LookupAbsent DEF ImportedSwaps
  <1>4. \A id \in SwapIDs : w[id] = NoSwap \/ \E e \in gs.swaps : e[1] = id /\ e[2] = w[id]
    BY <1>2, <1>3
  <1>5. w = [id \in SwapIDs |-> w[id]]  BY DEF ImportedSwaps
  <1> HIDE DEF w
  <1>6. w \in [SwapIDs -> Swap \cup {NoSwap}]  BY <1>1, <1>4, <1>5
  <1>7. NoSwap.status = "NULL"  BY DEF NoSwap
  <1> QED  BY <1>1, <1>2, <1>4, <1>6, <1>7 DEF w

(* The zero record is a supply. *)
LEMMA NoSupplyType == NoSupply \in SupplyRecord
  <1>1. CreateNewAssetSupply \in SupplyRecord
    <2>1. TRUE \in BOOLEAN  OBVIOUS
    <2> QED  BY <2>1 DEF CreateNewAssetSupply, SupplyRecord
  <1>2. ASSUME NEW s \in SupplyRecord
        PROVE  [s EXCEPT !.found = FALSE] \in SupplyRecord
    BY DEF SupplyRecord
  <1> QED  BY <1>1, <1>2 DEF NoSupply

(* The supply of a denom is the file's, or there is none. *)
LEMMA SuppliesOfFile ==
    ASSUME NEW gs, WellFormed(gs), NoDuplicates(gs.supplies)
    PROVE  LET v == ImportedSupplies(gs)
           IN  /\ v \in [Denoms -> SupplyRecord]
               /\ \A d \in Denoms : \/ v[d].found /\ <<d, v[d]>> \in gs.supplies
                                    \/ v[d] = NoSupply /\ \A e \in gs.supplies : e[1] # d
  <1> DEFINE v == ImportedSupplies(gs)
  <1>1. \A e \in gs.supplies : /\ e[1] \in Denoms /\ e[2] \in SupplyRecord /\ e[2].found
                               /\ e = <<e[1], e[2]>>
    BY DEF WellFormed
  <1>2. \A e \in gs.supplies : v[e[1]] = e[2]  BY <1>1, LookupEntry DEF ImportedSupplies
  <1>3. ASSUME NEW d \in Denoms, \A e \in gs.supplies : e[1] # d
        PROVE  v[d] = NoSupply
    BY <1>3, LookupAbsent DEF ImportedSupplies
  <1>4. v = [d \in Denoms |-> v[d]]  BY DEF ImportedSupplies
  <1> HIDE DEF v
  <1>5. ASSUME NEW d \in Denoms
        PROVE  \/ v[d] \in SupplyRecord /\ v[d].found /\ <<d, v[d]>> \in gs.supplies
               \/ v[d] = NoSupply /\ \A e \in gs.supplies : e[1] # d
    BY <1>1, <1>2, <1>3
  <1>6. NoSupply \in SupplyRecord  BY NoSupplyType
  <1>7. v \in [Denoms -> SupplyRecord]  BY <1>4, <1>5, <1>6
  <1> QED  BY <1>5, <1>7 DEF v

(* What a file reserves is the sum of all the coins of the unsettled swaps   *)
(* of the store it is imported to.                                          *)
LEMMA ReservedOfFile ==
    ASSUME NEW gs, WellFormed(gs), NoDuplicates(gs.swaps),
           NEW d \in Denoms, NEW direction
    PROVE  LET w == ImportedSwaps(gs)
           IN  /\ Reserved(gs, d, direction) = TotalCoins(w, UnsettledSwaps(w, direction), d)
               /\ Reserved(gs, d, direction) \in Nat
  <1> DEFINE w == ImportedSwaps(gs)
             S == {e \in gs.swaps : IsLive(e[2]) /\ e[2].direction = direction}
             f == [e \in S |-> Coins(e[2])[d]]
             name == [e \in S |-> e[1]]
             names == {name[e] : e \in S}
             g == [id \in names |-> Coins(w[id])[d]]
  <1>1. /\ \A e \in gs.swaps : e[1] \in SwapIDs /\ e[2] \in Swap /\ w[e[1]] = e[2]
        /\ \A id \in SwapIDs : w[id].status # "NULL" => \E e \in gs.swaps : e[1] = id /\ e[2] = w[id]
    BY SwapsOfFile
  <1>2. IsFiniteSet(S)
    <2>1. S \subseteq gs.swaps /\ IsFiniteSet(gs.swaps)  BY DEF WellFormed
    <2> HIDE DEF S
    <2> QED  BY <2>1, FS_Subset
  <1>3. \A e \in S : f[e] \in Nat
    <2>1. \A e \in S : e[2] \in Swap  BY <1>1
    <2> QED  BY <2>1, CoinsOfSwap
  <1>4. names = UnsettledSwaps(w, direction)
    <2> HIDE DEF w
    <2>1. \A id \in SwapIDs : id \in names <=>
                                \E e \in gs.swaps : /\ e[1] = id /\ IsLive(e[2])
                                                    /\ e[2].direction = direction
      OBVIOUS
    <2>2. names \subseteq SwapIDs  BY <1>1
    <2>3. \A id \in SwapIDs : id \in UnsettledSwaps(w, direction) <=>
                                  IsLive(w[id]) /\ w[id].direction = direction
      BY DEF UnsettledSwaps
    <2>4. UnsettledSwaps(w, direction) \subseteq SwapIDs  BY DEF UnsettledSwaps
    <2>5. \A id \in SwapIDs : IsLive(w[id]) => w[id].status # "NULL"  BY DEF IsLive
    <2> HIDE DEF names
    <2>6. \A id \in SwapIDs : id \in names <=> id \in UnsettledSwaps(w, direction)
      BY <1>1, <2>1, <2>3, <2>5
    <2> QED  BY <2>2, <2>4, <2>6
  <1>5. \A x, y \in S : name[x] = name[y] => x = y
    BY DEF NoDuplicates
  <1>6. \A e \in S : g[name[e]] = f[e]
    <2>1. \A e \in S : name[e] \in names /\ name[e] = e[1] /\ w[e[1]] = e[2]  BY <1>1
    <2> HIDE DEF name, names, w, S
    <2> QED  BY <2>1
  <1>7. DOMAIN f = S /\ DOMAIN g = names  OBVIOUS
  <1>8. Reserved(gs, d, direction) = SumFunction(f)  BY DEF Reserved, AmountOf
  <1>9. TotalCoins(w, names, d) = SumFunction(g)  BY DEF TotalCoins
  <1> HIDE DEF S, f, g, name, names, w
  <1>10. SumFunctionOnSet(g, {name[e] : e \in S}) = SumFunctionOnSet(f, S)
    BY <1>2, <1>3, <1>5, <1>6, SumRenamed
  <1>11. SumFunctionOnSet(g, names) = SumFunctionOnSet(f, S)  BY <1>10 DEF names
  <1>12. SumFunctionOnSet(f, S) \in Nat  BY <1>2, <1>3, SumNat
  <1> QED  BY <1>4, <1>7, <1>8, <1>9, <1>11, <1>12 DEF SumFunction, w

(* Lookup by lookup, an imported chain starts with a well-formed ledger.    *)
LEMMA ImportedStart ==
    ASSUME NEW gs, WellFormed(gs), NEW clock, CanImport(gs, clock),
           supplies = ImportedSupplies(gs), params = gs.params
    PROVE  /\ supplies \in [Denoms -> SupplyRecord] /\ AbsentSupplies /\ SuppliesFit
           /\ \A d \in Denoms : supplies[d].found => ValidSupply(gs, d, supplies[d])
           /\ \A d \in Denoms : ~ supplies[d].found => \A e \in gs.supplies : e[1] # d
  <1>1. NoDuplicates(gs.supplies)  BY DEF CanImport, Validate
  <1>2. /\ supplies \in [Denoms -> SupplyRecord]
        /\ \A d \in Denoms : \/ supplies[d].found /\ <<d, supplies[d]>> \in gs.supplies
                             \/ supplies[d] = NoSupply /\ \A e \in gs.supplies : e[1] # d
    BY <1>1, SuppliesOfFile
  <1>3. ~ NoSupply.found  BY DEF NoSupply, CreateNewAssetSupply
  <1>4. AbsentSupplies  BY <1>2 DEF AbsentSupplies
  <1>5. \A d \in Denoms : supplies[d].found => ValidSupply(gs, d, supplies[d])
    <2>1. \A s \in gs.supplies : ValidSupply(gs, s[1], s[2])  BY DEF CanImport
    <2>2. ASSUME NEW d \in Denoms, supplies[d].found
          PROVE  ValidSupply(gs, d, supplies[d])
      <3> DEFINE entry == <<d, supplies[d]>>
      <3>1. entry \in gs.supplies  BY <1>2, <1>3, <2>2
      <3>2. ValidSupply(gs, entry[1], entry[2])  BY <2>1, <3>1
      <3> QED  BY <3>2
    <2> QED  BY <2>2
  <1>6. SuppliesFit  BY <1>5 DEF SuppliesFit, ValidSupply
  <1> QED  BY <1>2, <1>3, <1>4, <1>5, <1>6

(* The indexes InitGenesis builds are those of the store it writes.        *)
LEMMA ImportedIndexesMatch ==
    ASSUME NEW gs, WellFormed(gs), NoDuplicates(gs.swaps),
           swaps = ImportedSwaps(gs), byTimestamp = ImportedByTimestamp(gs),
           longterm = ImportedLongterm(gs)
    PROVE  StoreTypeOK /\ IndexesMatchStatus
  <1>1. /\ swaps \in [SwapIDs -> Swap \cup {NoSwap}]
        /\ \A e \in gs.swaps : e[1] \in SwapIDs /\ e[2] \in Swap /\ swaps[e[1]] = e[2]
        /\ \A id \in SwapIDs : swaps[id].status # "NULL" =>
               \E e \in gs.swaps : e[1] = id /\ e[2] = swaps[id]
    BY SwapsOfFile
  <1>2. byTimestamp = {<<swaps[id].expire, id>> : id \in {i \in SwapIDs : swaps[i].status = "Open"}}
    <2>1. \A x : x \in byTimestamp <=>
                    \E e \in gs.swaps : e[2].status = "Open" /\ x = <<e[2].expire, e[1]>>
      BY DEF ImportedByTimestamp
    <2>2. \A id \in SwapIDs : swaps[id].status = "Open" =>
              \E e \in gs.swaps : e[1] = id /\ e[2] = swaps[id]
      BY <1>1
    <2>3. \A x : x \in byTimestamp <=>
                    \E id \in SwapIDs : swaps[id].status = "Open" /\ x = <<swaps[id].expire, id>>
      BY <1>1, <2>1, <2>2
    <2> QED  BY <2>3
  <1>3. longterm = {<<DeletionHeight(swaps[id]), id>> : id \in {i \in SwapIDs : swaps[i].status = "Completed"}}
    <2>1. \A x : x \in longterm <=>
                    \E e \in gs.swaps : e[2].status = "Completed" /\ x = <<DeletionHeight(e[2]), e[1]>>
      BY DEF ImportedLongterm
    <2>2. \A id \in SwapIDs : swaps[id].status = "Completed" =>
              \E e \in gs.swaps : e[1] = id /\ e[2] = swaps[id]
      BY <1>1
    <2>3. \A x : x \in longterm <=>
                    \E id \in SwapIDs : swaps[id].status = "Completed" /\ x = <<DeletionHeight(swaps[id]), id>>
      BY <1>1, <2>1, <2>2
    <2> QED  BY <2>3
  <1>4. \A swap \in Swap : swap.expire \in Int /\ DeletionHeight(swap) \in Nat
    BY NumbersAssumption DEF Swap, DeletionHeight
  <1>5. \A id \in SwapIDs : swaps[id].status # "NULL" => swaps[id] \in Swap
    BY <1>1
  <1>6. byTimestamp \subseteq Int \X SwapIDs  BY <1>2, <1>4, <1>5
  <1>7. longterm \subseteq Nat \X SwapIDs  BY <1>3, <1>4, <1>5
  <1> QED  BY <1>1, <1>2, <1>3, <1>6, <1>7 DEF StoreTypeOK, IndexesMatchStatus

(* A chain started from a file an import accepts is in its types, and its   *)
(* indexes and supplies are in order.                                      *)
LEMMA ImportInitInv ==
    ASSUME FilesWellFormed, ImportInit
    PROVE  ImportedInv
  <1>1. PICK gs \in GenesisFiles, downtime \in Downtimes :
            /\ CanImport(gs, GenesisTime + downtime)
            /\ swaps = ImportedSwaps(gs)
            /\ byTimestamp = ImportedByTimestamp(gs) /\ longterm = ImportedLongterm(gs)
            /\ supplies = ImportedSupplies(gs)
            /\ params = gs.params /\ prevBlockTime = gs.prevBlockTime
            /\ accounts = {u \in Users : \E d \in Denoms : GenesisBalances[u][d] > 0}
            /\ balances = GenesisBalances
            /\ escrow = [d \in Denoms |-> Reserved(gs, d, "Outgoing")]
            /\ bankSupply = AddCoins(GenesisBankSupply, escrow)
            /\ maccPerms \in GenesisPerms
            /\ blockTime = GenesisTime /\ height = 0 /\ inBlock = FALSE
            /\ WellFormed(gs)
    BY DEF ImportInit, FilesWellFormed
  <1>2. NoDuplicates(gs.swaps)  BY <1>1 DEF CanImport, Validate
  <1>3. StoreTypeOK /\ IndexesMatchStatus  BY <1>1, <1>2, ImportedIndexesMatch
  <1>4. supplies \in [Denoms -> SupplyRecord] /\ AbsentSupplies  BY <1>1, ImportedStart
  <1>5. LedgerTypeOK
    <2>1. \A d \in Denoms : Reserved(gs, d, "Outgoing") \in Nat  BY <1>1, <1>2, ReservedOfFile
    <2>2. escrow \in CoinAmounts  BY <1>1, <2>1 DEF CoinAmounts
    <2>3. bankSupply \in CoinAmounts
      BY <1>1, <2>2, GenesisAssumption, MovedCoins DEF CoinAmounts
    <2> QED  BY <1>1, <1>4, <2>2, <2>3, GenesisAssumption DEF LedgerTypeOK, CoinAmounts
  <1>6. BlockTypeOK
    <2>1. prevBlockTime \in Nat  BY <1>1 DEF WellFormed
    <2>2. maccPerms \in BOOLEAN /\ blockTime \in Nat /\ height \in Nat  BY <1>1, NumbersAssumption
    <2>3. inBlock \in BOOLEAN  BY <1>1
    <2> QED  BY <2>1, <2>2, <2>3 DEF BlockTypeOK
  <1>7. params \in ParamSets /\ accounts \subseteq Users  BY <1>1 DEF WellFormed
  <1>8. DeletionsAhead
    <2> SUFFICES ASSUME NEW id \in SwapIDs, swaps[id].status = "Completed"
                 PROVE  height < DeletionHeight(swaps[id])
      BY DEF DeletionsAhead
    <2>1. swaps[id].closedBlock \in Nat  BY <1>3, SwapFields
    <2> QED  BY <1>1, <2>1, NumbersAssumption DEF DeletionHeight
  <1> QED  BY <1>3, <1>4, <1>5, <1>6, <1>7, <1>8 DEF ImportedInv, TypeOK, IndexInv

(* The invariant of every chain that was started from a file.               *)
LEMMA ImportSpecInv ==
    ASSUME FilesWellFormed
    PROVE  ImportSpec => []ImportedInv
  <1>1. ImportInit => ImportedInv  BY ImportInitInv
  <1>2. ImportedInv /\ [RestartNext]_vars => ImportedInv'  BY NextImported
  <1> QED  BY <1>1, <1>2, PTL DEF ImportSpec

(* The indexes of a chain started from a file match its swaps, through     *)
(* every later restart: InitGenesis (genesis.go:14) rebuilds what           *)
(* ExportGenesis leaves out.                                               *)
THEOREM ImportedIndexes ==
    ASSUME FilesWellFormed
    PROVE  ImportSpec => []IndexesMatchStatus
  <1>1. ImportedInv => IndexesMatchStatus  BY DEF ImportedInv, IndexInv
  <1> QED  BY <1>1, ImportSpecInv, PTL

(* A restart loses nothing: every swap and supply is exported, imported      *)
(* under its key, and indexed as it was.                                    *)
THEOREM RestartsKeepStore ==
    ASSUME FilesWellFormed
    PROVE  ImportSpec => RestartKeepsStore
  <1>1. ImportedInv
          => [(\E downtime \in Downtimes : Restart(downtime)) => UNCHANGED <<store, supplies, params>>]_vars
    BY RestartKeeps DEF ImportedInv, IndexInv
  <1> QED  BY <1>1, ImportSpecInv, PTL DEF RestartKeepsStore

(* The life of a swap goes on as before when the chain is restarted.       *)
THEOREM ImportedLifecycle ==
    ASSUME FilesWellFormed
    PROVE  ImportSpec => SwapLifecycle
  <1>1. ImportedInv /\ [RestartNext]_vars
          => [\A id \in SwapIDs : swaps'[id] # swaps[id] => LifecycleStep(id)]_vars
    <2> SUFFICES ASSUME ImportedInv, RestartNext, NEW id \in SwapIDs, swaps'[id] # swaps[id]
                 PROVE  LifecycleStep(id)
      OBVIOUS
    <2>1. TypeOK /\ IndexInv /\ IndexesMatchStatus /\ AbsentSupplies
      BY DEF ImportedInv, IndexInv
    <2>2. ~ \E downtime \in Downtimes : Restart(downtime)
      <3> SUFFICES ASSUME NEW downtime \in Downtimes, Restart(downtime) PROVE FALSE  OBVIOUS
      <3>1. UNCHANGED store  BY <2>1, RestartKeeps
      <3> QED  BY <3>1 DEF store
    <2>3. [Next]_vars  BY <2>2 DEF RestartNext
    <2> QED  BY <2>1, <2>3, NextLifecycle
  <1>2. ImportSpec => [][\A id \in SwapIDs : swaps'[id] # swaps[id] => LifecycleStep(id)]_vars
    BY <1>1, ImportSpecInv, PTL DEF ImportSpec
  <1> QED  BY <1>2 DEF SwapLifecycle, LifecycleStep

-------------------------------------------------------------------------------
(* The module account of an imported chain.                                *)

EscrowInv == FiniteStore /\ EscrowHoldsSwaps

(* The store of a file has as few swaps as the file.                        *)
LEMMA FileStoreFinite ==
    ASSUME NEW gs, WellFormed(gs), NoDuplicates(gs.swaps)
    PROVE  IsFiniteSet(StoredIn(ImportedSwaps(gs)))
  <1> DEFINE w == ImportedSwaps(gs)
             name == [e \in gs.swaps |-> e[1]]
  <1>1. IsFiniteSet(gs.swaps)  BY DEF WellFormed
  <1>2. \A id \in SwapIDs : w[id].status # "NULL" => \E e \in gs.swaps : e[1] = id
    BY SwapsOfFile
  <1>3. \A e \in gs.swaps : name[e] = e[1]  OBVIOUS
  <1> HIDE DEF name, w
  <1>4. IsFiniteSet({name[e] : e \in gs.swaps})  BY <1>1, NamesFinite
  <1>5. StoredIn(w) \subseteq {name[e] : e \in gs.swaps}  BY <1>2, <1>3 DEF StoredIn
  <1> QED  BY <1>4, <1>5, FS_Subset DEF w

(* The escrow assumed of the bank is that of the file's swaps.              *)
LEMMA ImportInitEscrow ==
    ASSUME FilesWellFormed, ImportInit
    PROVE  EscrowInv
  <1>1. PICK gs \in GenesisFiles, downtime \in Downtimes :
            /\ CanImport(gs, GenesisTime + downtime)
            /\ swaps = ImportedSwaps(gs)
            /\ escrow = [d \in Denoms |-> Reserved(gs, d, "Outgoing")]
            /\ WellFormed(gs)
    BY DEF ImportInit, FilesWellFormed
  <1>2. NoDuplicates(gs.swaps)  BY <1>1 DEF CanImport, Validate
  <1>3. FiniteStore  BY <1>1, <1>2, FileStoreFinite DEF FiniteStore
  <1>4. EscrowHoldsSwaps  BY <1>1, <1>2, ReservedOfFile DEF EscrowHoldsSwaps, LiveCoins
  <1> QED  BY <1>3, <1>4 DEF EscrowInv

(* A new outgoing swap brings its coins. *)
LEMMA OpenedEscrow ==
    ASSUME TypeOK, EscrowInv, NEW id \in SwapIDs, swaps[id].status = "NULL",
           NEW swap \in Swap, swap.status = "Open", StoreOpenSwap(id, swap),
           \A d \in Denoms :
               escrow'[d] = escrow[d] + (IF swap.direction = "Outgoing" THEN Coins(swap)[d] ELSE 0)
    PROVE  EscrowInv'
  <1>1. swaps \in Stores /\ IsFiniteSet(StoredIn(swaps))
    BY DEF TypeOK, StoreTypeOK, Stores, EscrowInv, FiniteStore
  <1>2. swaps'[id] = swap /\ \A i \in SwapIDs \ {id} : swaps'[i] = swaps[i]
    BY DEF TypeOK, StoreTypeOK, StoreOpenSwap
  <1>3. FiniteStore'
    <2>1. IsFiniteSet(StoredIn(swaps'))  BY <1>1, <1>2, OpenedAmounts
    <2> QED  BY <2>1 DEF FiniteStore
  <1>4. \A d \in Denoms : LiveCoins(d, "Outgoing")' = LiveCoins(d, "Outgoing")
                            + (IF swap.direction = "Outgoing" THEN Coins(swap)[d] ELSE 0)
    BY <1>1, <1>2, OpenedCoins DEF LiveCoins
  <1>5. EscrowHoldsSwaps'  BY <1>4 DEF EscrowInv, EscrowHoldsSwaps
  <1> QED  BY <1>3, <1>5 DEF EscrowInv

(* An outgoing swap that settles takes its coins. *)
LEMMA SettledEscrow ==
    ASSUME TypeOK, EscrowInv, NEW id \in SwapIDs, NEW status \in {"Open", "Expired"},
           Settles(id, status),
           \A d \in Denoms :
               escrow'[d] = escrow[d] - (IF swaps[id].direction = "Outgoing" THEN Coins(swaps[id])[d] ELSE 0)
    PROVE  EscrowInv'
  <1>1. swaps \in Stores /\ IsFiniteSet(StoredIn(swaps))
    BY DEF TypeOK, StoreTypeOK, Stores, EscrowInv, FiniteStore
  <1>2. /\ swaps'[id].status = "Completed" /\ \A i \in SwapIDs \ {id} : swaps'[i] = swaps[i]
        /\ swaps[id].status \in {"Open", "Expired"}
    BY SettledSwap DEF Settles
  <1>3. FiniteStore'
    <2>1. IsFiniteSet(StoredIn(swaps'))  BY <1>1, <1>2, SettledAmounts
    <2> QED  BY <2>1 DEF FiniteStore
  <1>4. \A d \in Denoms : LiveCoins(d, "Outgoing")' = LiveCoins(d, "Outgoing")
                            - (IF swaps[id].direction = "Outgoing" THEN Coins(swaps[id])[d] ELSE 0)
    BY <1>1, <1>2, SettledCoins DEF LiveCoins
  <1>5. EscrowHoldsSwaps'  BY <1>4 DEF EscrowInv, EscrowHoldsSwaps
  <1> QED  BY <1>3, <1>5 DEF EscrowInv

(* The sender of an outgoing swap puts one coin in escrow. *)
LEMMA CreateEscrow ==
    ASSUME TypeOK, EscrowInv, Create
    PROVE  EscrowInv'
  <1>1. PICK id \in SwapIDs, recipient \in Users \cup Maccs, d \in Denoms,
             amount \in Amounts, timestamp \in Timestamps, span \in Spans :
                \/ CreateIncoming(id, recipient, d, amount, timestamp, span)
                \/ CreateOutgoing(id, recipient, d, amount, timestamp, span)
    BY DEF Create
  <1>2. swaps[id].status = "NULL" /\ recipient \in Users
    BY <1>1 DEF CreateIncoming, CreateOutgoing, AcceptSwap, IsNewSwap, CanReceive, Stored
  <1>3. ASSUME NEW direction \in {"Incoming", "Outgoing"},
               NEW swap, swap = NewAtomicSwap(direction, d, amount, timestamp, ExpireTime(span), recipient)
        PROVE  /\ swap \in Swap /\ swap.status = "Open" /\ swap.direction = direction
               /\ \A e \in Denoms : Coins(swap)[e] = IF e = d THEN amount ELSE 0
    <2>1. ExpireTime(span) \in Int  BY ExpireTimeType DEF TypeOK, BlockTypeOK
    <2>2. swap \in Swap  BY <1>2, <1>3, <2>1, NewSwapType
    <2>3. /\ swap.status = "Open" /\ swap.direction = direction /\ swap.others = NoCoins
          /\ swap.denom = d /\ swap.amount = amount
      BY <1>3 DEF NewAtomicSwap
    <2>4. \A e \in Denoms : NoCoins[e] = 0  BY DEF NoCoins
    <2>5. amount \in Nat  BY NumbersAssumption
    <2>6. \A e \in Denoms : Coins(swap)[e] = IF e = d THEN amount ELSE 0
      BY <2>2, <2>3, <2>4, <2>5, CoinsOfSwap
    <2> QED  BY <2>2, <2>3, <2>6
  <1>4. \A e \in Denoms : escrow[e] \in Nat  BY DEF TypeOK, LedgerTypeOK
  <1>5. CASE CreateIncoming(id, recipient, d, amount, timestamp, span)
    <2> DEFINE swap == NewAtomicSwap("Incoming", d, amount, timestamp, ExpireTime(span), recipient)
    <2>1. StoreOpenSwap(id, swap) /\ escrow' = escrow  BY <1>5 DEF CreateIncoming, bank
    <2>2. swap \in Swap /\ swap.status = "Open" /\ swap.direction = "Incoming"  BY <1>3
    <2> HIDE DEF swap
    <2> QED  BY <1>2, <1>4, <2>1, <2>2, OpenedEscrow
  <1>6. CASE CreateOutgoing(id, recipient, d, amount, timestamp, span)
    <2> DEFINE swap == NewAtomicSwap("Outgoing", d, amount, timestamp, ExpireTime(span), recipient)
    <2>1. StoreOpenSwap(id, swap) /\ escrow' = [escrow EXCEPT ![d] = @ + amount]
      BY <1>6 DEF CreateOutgoing
    <2>2. /\ swap \in Swap /\ swap.status = "Open" /\ swap.direction = "Outgoing"
          /\ \A e \in Denoms : Coins(swap)[e] = IF e = d THEN amount ELSE 0
      BY <1>3
    <2>3. \A e \in Denoms : escrow'[e] = escrow[e] + (IF e = d THEN amount ELSE 0)
      BY <1>4, <2>1 DEF TypeOK, LedgerTypeOK
    <2> HIDE DEF swap
    <2> QED  BY <1>2, <2>1, <2>2, <2>3, OpenedEscrow
  <1> QED  BY <1>1, <1>5, <1>6

(* Claims burn, and refunds send, all the coins of an outgoing swap; those   *)
(* of an incoming one were never there.                                    *)
LEMMA SettleEscrow ==
    ASSUME TypeOK, EscrowInv, Claim \/ Refund
    PROVE  EscrowInv'
  <1>1. PICK id \in SwapIDs : \E status \in {"Open", "Expired"} :
            /\ Settles(id, status)
            /\ \/ swaps[id].direction = "Incoming" /\ escrow' = escrow
               \/ swaps[id].direction = "Outgoing" /\ escrow' = SubCoins(escrow, Coins(swaps[id]))
    BY DEF Claim, Refund, ClaimIncoming, ClaimOutgoing, RefundIncoming, RefundOutgoing,
           IsClaimable, IsRefundable, Settles, bank
  <1>2. ASSUME NEW d \in Denoms
        PROVE  escrow'[d] = escrow[d]
                   - (IF swaps[id].direction = "Outgoing" THEN Coins(swaps[id])[d] ELSE 0)
    <2>1. escrow[d] \in Nat  BY DEF TypeOK, LedgerTypeOK
    <2> QED  BY <1>1, <2>1 DEF SubCoins
  <1> QED  BY <1>1, <1>2, SettledEscrow

(* No step moves a coin into or out of the account but a swap's.            *)
LEMMA NextEscrow ==
    ASSUME TypeOK, IndexInv, EscrowInv, [Next]_vars
    PROVE  EscrowInv'
  <1>1. CASE Create  BY <1>1, CreateEscrow
  <1>2. CASE Claim \/ Refund  BY <1>2, SettleEscrow
  <1>3. CASE NextBlock
    <2>1. PICK step \in Steps : BeginBlock(step)  BY <1>3 DEF NextBlock
    <2>2. swaps \in Stores /\ IsFiniteSet(StoredIn(swaps))
      BY DEF TypeOK, StoreTypeOK, Stores, EscrowInv, FiniteStore
    <2>3. \A i \in SwapIDs :
              \/ swaps'[i] = swaps[i]
              \/ /\ swaps[i].status = "Open" /\ swaps'[i].status = "Expired"
                 /\ Terms(swaps'[i]) = Terms(swaps[i])
              \/ swaps[i].status = "Completed" /\ swaps'[i].status = "NULL"
      BY <2>1, BeginBlockKeeps
    <2>4. FiniteStore'
      <3>1. IsFiniteSet(StoredIn(swaps'))  BY <2>2, <2>3, ExpiredAmounts
      <3> QED  BY <3>1 DEF FiniteStore
    <2>5. \A d \in Denoms : LiveCoins(d, "Outgoing")' = LiveCoins(d, "Outgoing")
      BY <2>2, <2>3, ExpiredCoins DEF LiveCoins
    <2>6. escrow' = escrow  BY <2>1 DEF BeginBlock, bank
    <2> QED  BY <2>4, <2>5, <2>6 DEF EscrowInv, EscrowHoldsSwaps
  <1>4. CASE Govern \/ UNCHANGED vars
    <2>1. swaps' = swaps /\ escrow' = escrow
      BY <1>4 DEF Govern, SetParams, store, bank, vars
    <2> QED  BY <2>1 DEF EscrowInv, FiniteStore, EscrowHoldsSwaps, LiveCoins
  <1> QED  BY <1>1, <1>2, <1>3, <1>4 DEF Next, FixedNext

(* The invariant, through imports and restarts. *)
LEMMA EscrowSpecInv ==
    ASSUME FilesWellFormed
    PROVE  ImportSpec => []EscrowInv
  <1>1. ImportInit => EscrowInv  BY ImportInitEscrow
  <1>2. ImportedInv /\ EscrowInv /\ [RestartNext]_vars => EscrowInv'
    <2> SUFFICES ASSUME ImportedInv, EscrowInv, [RestartNext]_vars PROVE EscrowInv'  OBVIOUS
    <2>1. TypeOK /\ IndexInv /\ IndexesMatchStatus /\ AbsentSupplies
      BY DEF ImportedInv, IndexInv
    <2>2. CASE \E downtime \in Downtimes : Restart(downtime)
      <3>1. UNCHANGED <<store, bank>>  BY <2>1, <2>2, RestartKeeps
      <3>2. swaps' = swaps /\ escrow' = escrow  BY <3>1 DEF store, bank
      <3> QED  BY <3>2 DEF EscrowInv, FiniteStore, EscrowHoldsSwaps, LiveCoins
    <2> QED  BY <2>1, <2>2, NextEscrow DEF RestartNext
  <1> QED  BY <1>1, <1>2, ImportSpecInv, PTL DEF ImportSpec

(* The module account of a chain that was imported, and imported again after *)
(* any block, holds all the coins of its unsettled outgoing swaps and no     *)
(* others, whatever number of coins the swaps of the file have.              *)
THEOREM ImportedEscrowHeld ==
    ASSUME FilesWellFormed
    PROVE  ImportSpec => []EscrowHoldsSwaps
  <1>1. EscrowInv => EscrowHoldsSwaps  BY DEF EscrowInv
  <1> QED  BY <1>1, EscrowSpecInv, PTL

-------------------------------------------------------------------------------
(* Swaps that a step opens have one coin, and no step changes the coins of   *)
(* a swap: further coins are those of the file.                             *)

CoinsInv ==
    \A id \in SwapIDs : swaps[id].status # "NULL" =>
        /\ swaps[id].others[swaps[id].denom] = 0
        /\ IsLive(swaps[id]) => \A d \in Denoms \ FurtherDenoms : swaps[id].others[d] = 0

(* Only the creation of a swap makes a free ID one that is taken. *)
LEMMA OpenedByCreate ==
    ASSUME TypeOK, IndexInv, [Next]_vars, NEW id \in SwapIDs,
           swaps[id].status = "NULL", swaps'[id] # swaps[id]
    PROVE  \E direction \in {"Incoming", "Outgoing"}, recipient \in Users \cup Maccs, d \in Denoms,
              amount \in Amounts, timestamp \in Timestamps, span \in Spans :
               /\ \/ CreateIncoming(id, recipient, d, amount, timestamp, span)
                  \/ CreateOutgoing(id, recipient, d, amount, timestamp, span)
               /\ swaps'[id] = NewAtomicSwap(direction, d, amount, timestamp, ExpireTime(span), recipient)
  <1>1. CASE Create
    <2>1. PICK i \in SwapIDs, recipient \in Users \cup Maccs, d \in Denoms,
               amount \in Amounts, timestamp \in Timestamps, span \in Spans :
                  \/ CreateIncoming(i, recipient, d, amount, timestamp, span)
                  \/ CreateOutgoing(i, recipient, d, amount, timestamp, span)
      BY <1>1 DEF Create
    <2>2. i = id
      <3>1. \A j \in SwapIDs \ {i} : swaps'[j] = swaps[j]  BY <2>1, CreateLifecycle
      <3> QED  BY <3>1
    <2>3. ASSUME NEW swap, StoreOpenSwap(id, swap) PROVE swaps'[id] = swap
      BY <2>3 DEF StoreOpenSwap, TypeOK, StoreTypeOK
    <2>4. \E direction \in {"Incoming", "Outgoing"} :
              StoreOpenSwap(id, NewAtomicSwap(direction, d, amount, timestamp, ExpireTime(span), recipient))
      BY <2>1, <2>2 DEF CreateIncoming, CreateOutgoing
    <2> QED  BY <2>1, <2>2, <2>3, <2>4
  <1>2. CASE Claim
    <2>1. PICK i \in SwapIDs : Settles(i, "Open")
      BY <1>2 DEF Claim, ClaimIncoming, ClaimOutgoing, IsClaimable, Settles
    <2> QED  BY <2>1, SettledSwap DEF Settles
  <1>3. CASE Refund
    <2>1. PICK i \in SwapIDs : Settles(i, "Expired")
      BY <1>3 DEF Refund, RefundIncoming, RefundOutgoing, IsRefundable, Settles
    <2> QED  BY <2>1, SettledSwap DEF Settles
  <1>4. CASE NextBlock  BY <1>4, BeginBlockSwap DEF NextBlock
  <1>5. CASE Govern \/ UNCHANGED vars  BY <1>5 DEF Govern, SetParams, vars, store
  <1> QED  BY <1>1, <1>2, <1>3, <1>4, <1>5 DEF Next, FixedNext

(* AtomicSwap.Validate refuses a list with a denom twice, and every denom of *)
(* an unsettled swap's further coins is one of the files'.                   *)
LEMMA ImportInitCoins ==
    ASSUME FilesWellFormed, ImportInit
    PROVE  CoinsInv
  <1>1. PICK gs \in GenesisFiles : \E clock :
            CanImport(gs, clock) /\ WellFormed(gs) /\ swaps = ImportedSwaps(gs)
    BY DEF ImportInit, FilesWellFormed
  <1>2. PICK clock : CanImport(gs, clock)  BY <1>1
  <1>3. NoDuplicates(gs.swaps)  BY <1>2 DEF CanImport, Validate
  <1> SUFFICES ASSUME NEW id \in SwapIDs, swaps[id].status # "NULL"
               PROVE  /\ swaps[id].others[swaps[id].denom] = 0
                      /\ IsLive(swaps[id]) => \A d \in Denoms \ FurtherDenoms : swaps[id].others[d] = 0
    BY DEF CoinsInv
  <1>4. PICK e \in gs.swaps : e[1] = id /\ e[2] = swaps[id] /\ e[2] \in Swap
    BY <1>1, <1>3, SwapsOfFile
  <1>5. ValidSwap(e[1], e[2], clock)  BY <1>2, <1>4 DEF CanImport, Validate
  <1>6. \A d \in Denoms : e[2].others[d] \in Nat  BY <1>4 DEF Swap, CoinAmounts
  <1>7. ASSUME IsLive(e[2]), NEW d \in Denoms \ FurtherDenoms PROVE e[2].others[d] = 0
    <2>1. ~ (e[2].others[d] > 0)  BY <1>4, <1>7 DEF FurtherDenoms
    <2> QED  BY <1>6, <2>1
  <1> QED  BY <1>4, <1>5, <1>7 DEF ValidSwap

(* Every step keeps the coins of the swaps it does not open. *)
LEMMA NextCoinsKept ==
    ASSUME ImportedInv, CoinsInv, [RestartNext]_vars
    PROVE  CoinsInv'
  <1>1. TypeOK /\ IndexInv /\ IndexesMatchStatus /\ AbsentSupplies
    BY DEF ImportedInv, IndexInv
  <1>2. FurtherDenoms' = FurtherDenoms  BY DEF FurtherDenoms, IsLive
  <1> SUFFICES ASSUME NEW id \in SwapIDs, swaps'[id].status # "NULL"
               PROVE  /\ swaps'[id].others[swaps'[id].denom] = 0
                      /\ IsLive(swaps'[id]) => \A d \in Denoms \ FurtherDenoms : swaps'[id].others[d] = 0
    BY <1>2 DEF CoinsInv
  <1>3. CASE swaps'[id] = swaps[id]  BY <1>3 DEF CoinsInv
  <1>4. CASE swaps'[id] # swaps[id]
    <2>1. [Next]_vars
      <3>1. CASE \E downtime \in Downtimes : Restart(downtime)
        <4>1. UNCHANGED store  BY <1>1, <3>1, RestartKeeps
        <4> QED  BY <1>4, <4>1 DEF store
      <3> QED  BY <3>1 DEF RestartNext
    <2>2. CASE swaps[id].status = "NULL"
      <3>1. PICK direction \in {"Incoming", "Outgoing"}, recipient \in Users \cup Maccs, d \in Denoms,
                 amount \in Amounts, timestamp \in Timestamps, span \in Spans :
                swaps'[id] = NewAtomicSwap(direction, d, amount, timestamp, ExpireTime(span), recipient)
        BY <1>1, <1>4, <2>1, <2>2, OpenedByCreate
      <3>2. swaps'[id].others = NoCoins /\ swaps'[id].denom \in Denoms  BY <3>1 DEF NewAtomicSwap
      <3> QED  BY <3>2 DEF NoCoins
    <2>3. CASE swaps[id].status # "NULL"
      <3>1. LifecycleStep(id)  BY <1>1, <1>4, <2>1, NextLifecycle
      <3>2. Terms(swaps'[id]) = Terms(swaps[id]) /\ IsLive(swaps[id])
        BY <2>3, <3>1 DEF LifecycleStep, IsLive
      <3>3. swaps'[id].others = swaps[id].others /\ swaps'[id].denom = swaps[id].denom
        BY <3>2 DEF Terms
      <3> QED  BY <2>3, <3>2, <3>3 DEF CoinsInv
    <2> QED  BY <2>2, <2>3
  <1> QED  BY <1>3, <1>4

(* The invariant of the coins. *)
LEMMA CoinsSpecInv ==
    ASSUME FilesWellFormed
    PROVE  ImportSpec => []CoinsInv
  <1>1. ImportInit => CoinsInv  BY ImportInitCoins
  <1>2. ImportedInv /\ CoinsInv /\ [RestartNext]_vars => CoinsInv'  BY NextCoinsKept
  <1> QED  BY <1>1, <1>2, ImportSpecInv, PTL DEF ImportSpec

-------------------------------------------------------------------------------
(* Supplies and swaps of an imported chain.                                *)

\* A file has a supply record of every asset that is the first coin of an
\* unsettled swap.  InitGenesis does not ask for it: it checks the records that
\* are there.
FilesCoverSwaps ==
    \A gs \in GenesisFiles : \A e \in gs.swaps :
        IsLive(e[2]) => \E s \in gs.supplies : s[1] = e[2].denom

\* The supplies exceed the first coins of the swaps by what the file had of
\* further ones.
CoversSwaps ==
    \E further \in Leftovers :
        /\ SumsBeside(further)
        /\ \A d \in Denoms \ FurtherDenoms : further["Incoming"][d] = 0 /\ further["Outgoing"][d] = 0

(* The first coins of a store's unsettled swaps are among all their coins,   *)
(* and are all of them for a denom that no swap has a further coin of.       *)
LEMMA FirstCoins ==
    ASSUME NEW w \in Stores, IsFiniteSet(StoredIn(w)), NEW direction, NEW d \in Denoms
    PROVE  LET first == TotalAmount(w, LiveSwaps(w, d, direction))
               all   == TotalCoins(w, UnsettledSwaps(w, direction), d)
           IN  /\ first \in Nat /\ all \in Nat /\ first <= all
               /\ (\A id \in SwapIDs : IsLive(w[id]) => w[id].others[d] = 0) => first = all
  <1> DEFINE U == UnsettledSwaps(w, direction)
             L == LiveSwaps(w, d, direction)
             f == [id \in U |-> IF w[id].denom = d THEN w[id].amount ELSE 0]
             g == [id \in U |-> Coins(w[id])[d]]
             h == [id \in L |-> w[id].amount]
  <1>1. /\ IsFiniteSet(U) /\ TotalCoins(w, U, d) \in Nat
        /\ \A id \in U : w[id] \in Swap
    BY UnsettledFinite
  <1>2. \A id \in U : /\ Coins(w[id])[d] = w[id].others[d] + (IF w[id].denom = d THEN w[id].amount ELSE 0)
                      /\ w[id].others[d] \in Nat /\ w[id].amount \in Nat /\ Coins(w[id])[d] \in Nat
    BY <1>1, CoinsOfSwap
  <1>3. L \subseteq U /\ \A id \in U : id \in L <=> w[id].denom = d
    BY DEF LiveSwaps, UnsettledSwaps
  <1>4. TotalCoins(w, U, d) = SumFunctionOnSet(g, U) /\ TotalAmount(w, L) = SumFunctionOnSet(h, L)
    BY DEF TotalCoins, TotalAmount, SumFunction
  <1>5. TotalAmount(w, L) \in Nat  BY LiveAmountNat
  <1>6. \A id \in SwapIDs : id \in U => IsLive(w[id])  BY DEF UnsettledSwaps
  <1>7. U \subseteq SwapIDs  BY DEF UnsettledSwaps
  <1> HIDE DEF U, L
  <1>8. \A id \in U : f[id] \in Nat /\ g[id] \in Nat /\ f[id] <= g[id]  BY <1>2
  <1>9. (\A id \in U : w[id].others[d] = 0) => \A id \in U : f[id] = g[id]  BY <1>2
  <1>10. \A id \in U \ L : f[id] = 0  BY <1>3
  <1>11. \A id \in L : f[id] = h[id]  BY <1>3
  <1> HIDE DEF f, g, h
  <1>12. IsFiniteSet(L)  BY <1>1, <1>3, FS_Subset
  <1>13. SumFunctionOnSet(f, U) = SumFunctionOnSet(f, L)  BY <1>1, <1>3, <1>8, <1>10, SumIgnoresZeros
  <1>14. SumFunctionOnSet(f, L) = SumFunctionOnSet(h, L)  BY <1>11, <1>12, SumSame
  <1>15. SumFunctionOnSet(f, U) <= SumFunctionOnSet(g, U)  BY <1>1, <1>8, SumAtMost
  <1>16. ASSUME \A id \in SwapIDs : IsLive(w[id]) => w[id].others[d] = 0
         PROVE  SumFunctionOnSet(f, U) = SumFunctionOnSet(g, U)
    <2>1. \A id \in U : f[id] = g[id]  BY <1>6, <1>7, <1>9, <1>16
    <2> QED  BY <1>1, <2>1, SumSame
  <1> QED  BY <1>1, <1>4, <1>5, <1>13, <1>14, <1>15, <1>16 DEF U, L

(* A file that InitGenesis accepts and that covers its swaps reserves all    *)
(* their coins where it has a record, and where it has none there is nothing *)
(* that a claim or refund would release.                                    *)
LEMMA ImportInitCovers ==
    ASSUME FilesWellFormed, FilesCoverSwaps, ImportInit
    PROVE  CoversSwaps
  <1>1. PICK gs \in GenesisFiles, downtime \in Downtimes :
            /\ CanImport(gs, GenesisTime + downtime)
            /\ swaps = ImportedSwaps(gs) /\ supplies = ImportedSupplies(gs) /\ params = gs.params
            /\ WellFormed(gs)
    BY DEF ImportInit, FilesWellFormed
  <1>2. NoDuplicates(gs.swaps)  BY <1>1 DEF CanImport, Validate
  <1>3. /\ AbsentSupplies
        /\ \A d \in Denoms : supplies[d].found => ValidSupply(gs, d, supplies[d])
        /\ \A d \in Denoms : ~ supplies[d].found => \A e \in gs.supplies : e[1] # d
    BY <1>1, ImportedStart
  <1>4. FiniteStore  BY <1>1, <1>2, FileStoreFinite DEF FiniteStore
  <1>5. swaps \in Stores /\ IsFiniteSet(StoredIn(swaps))
    BY <1>1, <1>2, <1>4, SwapsOfFile DEF Stores, FiniteStore
  <1>6. ASSUME NEW d \in Denoms, NEW direction
        PROVE  /\ Reserved(gs, d, direction) = LiveCoins(d, direction)
               /\ LiveAmount(d, direction) \in Nat /\ LiveCoins(d, direction) \in Nat
               /\ LiveAmount(d, direction) <= LiveCoins(d, direction)
               /\ d \notin FurtherDenoms => LiveAmount(d, direction) = LiveCoins(d, direction)
    <2>1. Reserved(gs, d, direction) = LiveCoins(d, direction)
      BY <1>1, <1>2, ReservedOfFile DEF LiveCoins
    <2>2. d \notin FurtherDenoms => \A id \in SwapIDs : IsLive(swaps[id]) => swaps[id].others[d] = 0
      BY ImportInitCoins DEF CoinsInv, IsLive
    <2> QED  BY <1>5, <2>1, <2>2, FirstCoins DEF LiveAmount, LiveCoins
  <1>7. NoSupply.incoming = 0 /\ NoSupply.outgoing = 0  BY DEF NoSupply, CreateNewAssetSupply
  <1>8. ASSUME NEW d \in Denoms, ~ supplies[d].found, NEW direction
        PROVE  LiveAmount(d, direction) = 0
    <2>1. ASSUME NEW id \in LiveSwaps(swaps, d, direction) PROVE FALSE
      <3>1. id \in SwapIDs /\ IsLive(swaps[id]) /\ swaps[id].denom = d  BY DEF LiveSwaps
      <3>2. swaps[id].status # "NULL"  BY <3>1 DEF IsLive
      <3>3. PICK e \in gs.swaps : e[2] = swaps[id]  BY <1>1, <1>2, <3>1, <3>2, SwapsOfFile
      <3> QED  BY <1>3, <1>8, <3>1, <3>3 DEF FilesCoverSwaps
    <2>2. LiveSwaps(swaps, d, direction) = {}  BY <2>1
    <2> QED  BY <2>2, NoAmounts DEF LiveAmount
  <1> DEFINE more(d, direction) ==
                 IF supplies[d].found THEN LiveCoins(d, direction) - LiveAmount(d, direction) ELSE 0
             further == [direction \in {"Incoming", "Outgoing"} |-> [d \in Denoms |-> more(d, direction)]]
  <1>9. ASSUME NEW d \in Denoms, NEW direction
        PROVE  more(d, direction) \in Nat /\ (d \notin FurtherDenoms => more(d, direction) = 0)
    BY <1>6
  <1>10. ASSUME NEW d \in Denoms
         PROVE  /\ supplies[d].incoming = LiveAmount(d, "Incoming") + more(d, "Incoming")
                /\ supplies[d].outgoing = LiveAmount(d, "Outgoing") + more(d, "Outgoing")
    <2>1. CASE supplies[d].found
      <3>1. supplies[d].incoming = LiveCoins(d, "Incoming") /\ supplies[d].outgoing = LiveCoins(d, "Outgoing")
        BY <1>3, <1>6, <2>1 DEF ValidSupply
      <3> QED  BY <1>6, <2>1, <3>1
    <2>2. CASE ~ supplies[d].found
      <3>1. supplies[d] = NoSupply  BY <1>3, <2>2 DEF AbsentSupplies
      <3>2. LiveAmount(d, "Incoming") = 0 /\ LiveAmount(d, "Outgoing") = 0  BY <1>8, <2>2
      <3> QED  BY <1>7, <2>2, <3>1, <3>2
    <2> QED  BY <2>1, <2>2
  <1> HIDE DEF more
  <1>11. further \in Leftovers  BY <1>9 DEF Leftovers, CoinAmounts
  <1>12. \A d \in Denoms : /\ further["Incoming"][d] = more(d, "Incoming")
                           /\ further["Outgoing"][d] = more(d, "Outgoing")
    OBVIOUS
  <1> HIDE DEF further
  <1>13. SuppliesExceed(further)  BY <1>10, <1>12 DEF SuppliesExceed
  <1>14. AbsentReservesNothing  BY <1>3, <1>7 DEF AbsentSupplies, AbsentReservesNothing
  <1>15. SumsBeside(further)  BY <1>4, <1>13, <1>14 DEF SumsBeside
  <1> QED  BY <1>9, <1>11, <1>12, <1>15 DEF CoversSwaps

\* What holds of an imported chain whose file covered its swaps.
CoveredInv == ImportedInv /\ CoversSwaps

(* No step changes by how much the supplies exceed the swaps.               *)
LEMMA CoveredSpecInv ==
    ASSUME FilesWellFormed, FilesCoverSwaps
    PROVE  ImportSpec => []CoveredInv
  <1>1. ImportInit => CoveredInv  BY ImportInitInv, ImportInitCovers DEF CoveredInv
  <1>2. CoveredInv /\ [RestartNext]_vars => CoveredInv'
    <2> SUFFICES ASSUME CoveredInv, [RestartNext]_vars PROVE CoveredInv'  OBVIOUS
    <2>1. ImportedInv'  BY NextImported DEF CoveredInv
    <2>2. TypeOK /\ TypeOK' /\ IndexInv /\ IndexesMatchStatus /\ AbsentSupplies
      BY <2>1 DEF CoveredInv, ImportedInv, IndexInv
    <2>3. PICK further \in Leftovers :
              /\ SumsBeside(further)
              /\ \A d \in Denoms \ FurtherDenoms : further["Incoming"][d] = 0 /\ further["Outgoing"][d] = 0
      BY DEF CoveredInv, CoversSwaps
    <2>4. SumsBeside(further)'
      <3>1. CASE [Next]_vars  BY <2>2, <2>3, <3>1, NextSumsBeside
      <3>2. CASE \E downtime \in Downtimes : Restart(downtime)
        <4>1. UNCHANGED <<store, supplies>>  BY <2>2, <3>2, RestartKeeps
        <4>2. swaps' = swaps /\ supplies' = supplies  BY <4>1 DEF store
        <4> QED  BY <2>3, <4>2, SameSums
      <3> QED  BY <3>1, <3>2 DEF RestartNext
    <2>5. FurtherDenoms' = FurtherDenoms /\ Leftovers' = Leftovers
      BY DEF FurtherDenoms, IsLive, Leftovers, CoinAmounts
    <2>6. CoversSwaps'  BY <2>3, <2>4, <2>5 DEF CoversSwaps
    <2> QED  BY <2>1, <2>6 DEF CoveredInv
  <1> QED  BY <1>1, <1>2, PTL DEF ImportSpec

(* The supplies of a chain that was imported, and imported again after any   *)
(* block, are at least what its claims and refunds release, the sums of the  *)
(* first coins of its unsettled swaps, and are just that for a denom that no *)
(* swap of a file has as a further coin.                                    *)
THEOREM ImportedSuppliesCover ==
    ASSUME FilesWellFormed, FilesCoverSwaps
    PROVE  ImportSpec => []SuppliesCoverSwaps
  <1>1. ASSUME CoveredInv
        PROVE  SuppliesCoverSwaps
    <2>1. PICK further \in Leftovers :
              /\ SumsBeside(further)
              /\ \A d \in Denoms \ FurtherDenoms : further["Incoming"][d] = 0 /\ further["Outgoing"][d] = 0
      BY <1>1 DEF CoveredInv, CoversSwaps
    <2>2. swaps \in Stores /\ IsFiniteSet(StoredIn(swaps))
      BY <1>1, <2>1 DEF CoveredInv, ImportedInv, TypeOK, StoreTypeOK, Stores, SumsBeside, FiniteStore
    <2>3. ASSUME NEW d \in Denoms
          PROVE  /\ further["Incoming"][d] \in Nat /\ further["Outgoing"][d] \in Nat
                 /\ LiveAmount(d, "Incoming") \in Nat /\ LiveAmount(d, "Outgoing") \in Nat
      BY <2>2, LiveAmountNat DEF Leftovers, CoinAmounts, LiveAmount
    <2>4. \A d \in Denoms :
              /\ supplies[d].incoming = LiveAmount(d, "Incoming") + further["Incoming"][d]
              /\ supplies[d].outgoing = LiveAmount(d, "Outgoing") + further["Outgoing"][d]
      BY <2>1 DEF SumsBeside, SuppliesExceed
    <2> QED  BY <2>1, <2>3, <2>4 DEF SuppliesCoverSwaps
  <1> QED  BY <1>1, CoveredSpecInv, PTL

(* The account holds what one of the swaps has. *)
LEMMA EscrowOfSwap ==
    ASSUME TypeOK, EscrowInv, NEW id \in SwapIDs, IsLive(swaps[id]), swaps[id].direction = "Outgoing"
    PROVE  Holds(escrow, Coins(swaps[id]))
  <1> SUFFICES ASSUME NEW d \in Denoms PROVE Coins(swaps[id])[d] <= escrow[d]
    BY DEF Holds
  <1> DEFINE U == UnsettledSwaps(swaps, "Outgoing")
  <1>1. swaps \in Stores /\ IsFiniteSet(StoredIn(swaps))
    BY DEF TypeOK, StoreTypeOK, Stores, EscrowInv, FiniteStore
  <1>2. IsFiniteSet(U) /\ U \subseteq SwapIDs /\ \A i \in U : Coins(swaps[i])[d] \in Nat
    BY <1>1, UnsettledFinite
  <1>3. id \in U  BY DEF UnsettledSwaps
  <1>4. escrow[d] = TotalCoins(swaps, U, d)  BY DEF EscrowInv, EscrowHoldsSwaps, LiveCoins
  <1> HIDE DEF U
  <1>5. \A i \in U : CoinSheet(swaps, d)[i].amount = Coins(swaps[i])[d]  BY <1>2 DEF CoinSheet
  <1>6. CoinSheet(swaps, d)[id].amount <= TotalAmount(CoinSheet(swaps, d), U)
    BY <1>2, <1>3, <1>5, AmountsNat
  <1> QED  BY <1>2, <1>3, <1>4, <1>5, <1>6, CoinsAreAmounts

(* Every unsettled swap of such a chain can be refunded once it expires: the *)
(* record of its first coin has the amount it reserved, and the module       *)
(* account all of its coins.                                                *)
THEOREM UnsettledRefundable ==
    ASSUME FilesWellFormed, FilesCoverSwaps
    PROVE  ImportSpec => []UnsettledSwapsRefundable
  <1>1. ASSUME CoveredInv, EscrowInv
        PROVE  UnsettledSwapsRefundable
    <2> SUFFICES ASSUME NEW id \in SwapIDs, IsLive(swaps[id])
                 PROVE  /\ swaps[id].direction = "Incoming" =>
                              CanDecrementIncoming(supplies[swaps[id].denom], swaps[id].amount)
                        /\ swaps[id].direction = "Outgoing" => CanRelease(swaps[id])
                        /\ swaps[id].direction \in {"Incoming", "Outgoing"}
      BY DEF UnsettledSwapsRefundable
    <2> DEFINE d == swaps[id].denom
               a == swaps[id].amount
    <2>1. TypeOK  BY <1>1 DEF CoveredInv, ImportedInv
    <2>2. PICK further \in Leftovers : SumsBeside(further)  BY <1>1 DEF CoveredInv, CoversSwaps
    <2>3. /\ d \in Denoms /\ a \in Nat /\ supplies[d].found
          /\ supplies[d].incoming \in Nat /\ supplies[d].outgoing \in Nat
          /\ swaps[id].direction = "Incoming" => a <= supplies[d].incoming
          /\ swaps[id].direction = "Outgoing" => a <= supplies[d].outgoing
      BY <2>1, <2>2, LiveSwapCovered
    <2>4. swaps[id].direction \in {"Incoming", "Outgoing"}
      <3>1. swaps[id] \in Swap  BY <2>1, SwapFields DEF TypeOK, IsLive
      <3> QED  BY <3>1 DEF Swap
    <2>5. swaps[id].direction = "Outgoing" => Holds(escrow, Coins(swaps[id]))
      BY <1>1, <2>1, EscrowOfSwap
    <2> HIDE DEF d, a
    <2>6. swaps[id].direction = "Incoming" => CanDecrementIncoming(supplies[d], a)
      BY <2>3 DEF CanDecrementIncoming
    <2>7. swaps[id].direction = "Outgoing" => CanDecrementOutgoing(supplies[d], a)
      BY <2>3 DEF CanDecrementOutgoing
    <2> QED  BY <2>4, <2>5, <2>6, <2>7 DEF CanRelease, d, a
  <1> QED  BY <1>1, CoveredSpecInv, EscrowSpecInv, PTL

-------------------------------------------------------------------------------
(* What ExportGenesis writes is a file.                                     *)

(* Finitely many stored swaps make a well-formed file.                      *)
LEMMA ExportWellFormed ==
    ASSUME TypeOK, FiniteStore
    PROVE  WellFormed(ExportGenesis)
  <1> DEFINE S == GetAllAtomicSwaps
             A == GetAllAssetSupplies
             entry == [id \in StoredIn(swaps) |-> <<id, swaps[id]>>]
  <1>1. /\ ExportGenesis.swaps = S /\ ExportGenesis.supplies = A
        /\ ExportGenesis.params = params /\ ExportGenesis.prevBlockTime \in Nat
    BY DEF ExportGenesis, TypeOK, BlockTypeOK
  <1>2. S = {entry[id] : id \in StoredIn(swaps)}
    <2>1. \A id \in StoredIn(swaps) : entry[id] = <<id, swaps[id]>>  OBVIOUS
    <2> HIDE DEF entry
    <2> QED  BY <2>1 DEF GetAllAtomicSwaps, Stored, StoredIn
  <1>3. S \subseteq SwapIDs \X Swap
    <2>1. \A id \in SwapIDs : swaps[id].status # "NULL" => swaps[id] \in Swap
      BY SwapFields DEF TypeOK
    <2> QED  BY <2>1 DEF GetAllAtomicSwaps, Stored
  <1>4. A \subseteq Denoms \X {s \in SupplyRecord : s.found}
    BY DEF GetAllAssetSupplies, TypeOK, LedgerTypeOK
  <1> HIDE DEF S, A, entry
  <1>5. IsFiniteSet(S)  BY <1>2, NamesFinite DEF FiniteStore
  <1>6. params \in ParamSets  BY DEF TypeOK
  <1> QED  BY <1>1, <1>3, <1>4, <1>5, <1>6 DEF WellFormed

(* The swaps of an export reserve what those of the store do.               *)
LEMMA ExportReserves ==
    ASSUME TypeOK, IndexesMatchStatus, AbsentSupplies, FiniteStore, NEW d \in Denoms, NEW direction
    PROVE  Reserved(ExportGenesis, d, direction) = LiveCoins(d, direction)
  <1>1. NoDuplicates(ExportGenesis.swaps) /\ ImportedSwaps(ExportGenesis) = swaps
    BY ExportedStore
  <1>2. Reserved(ExportGenesis, d, direction)
          = TotalCoins(ImportedSwaps(ExportGenesis), UnsettledSwaps(ImportedSwaps(ExportGenesis), direction), d)
    BY <1>1, ExportWellFormed, ReservedOfFile
  <1> QED  BY <1>1, <1>2 DEF LiveCoins

-------------------------------------------------------------------------------
(* When an export can be imported.                                         *)

\* Completed swaps were closed in a block, and the first block is number 1.
ClosedInBlocks ==
    /\ inBlock => height > 0
    /\ \A id \in SwapIDs : swaps[id].status = "Completed" => swaps[id].closedBlock > 0

(* A claim or refund closes a swap at the height of the block it is in.      *)
LEMMA NextClosedInBlocks ==
    ASSUME ImportedInv, ClosedInBlocks, [RestartNext]_vars
    PROVE  ClosedInBlocks'
  <1>1. TypeOK /\ IndexInv /\ IndexesMatchStatus /\ AbsentSupplies /\ height \in Nat
    BY DEF ImportedInv, IndexInv, TypeOK, BlockTypeOK
  <1>2. CASE Create \/ Claim \/ Refund
    <2>1. inBlock /\ block' = block  BY <1>1, <1>2, MessageMoves
    <2>2. height' = height /\ height > 0  BY <2>1 DEF block, ClosedInBlocks
    <2>3. ASSUME NEW i \in SwapIDs, swaps'[i].status = "Completed"
          PROVE  swaps'[i].closedBlock > 0
      <3>1. CASE Create
        <4>1. PICK id \in SwapIDs : \E swap : StoreOpenSwap(id, swap) /\ swap.status = "Open"
          BY <3>1 DEF Create, CreateIncoming, CreateOutgoing, NewAtomicSwap
        <4>2. swaps'[i] = swaps[i]
          BY <1>1, <2>3, <4>1 DEF StoreOpenSwap, TypeOK, StoreTypeOK
        <4> QED  BY <2>3, <4>2 DEF ClosedInBlocks
      <3>2. CASE Claim \/ Refund
        <4>1. PICK id \in SwapIDs : CompleteSwap(id) /\ swaps[id].status # "NULL"
          BY <3>2 DEF Claim, Refund, ClaimIncoming, ClaimOutgoing, RefundIncoming, RefundOutgoing,
                      IsClaimable, IsRefundable
        <4>2. swaps'[id] = Completed(id) /\ \A j \in SwapIDs \ {id} : swaps'[j] = swaps[j]
          BY <1>1, <4>1 DEF CompleteSwap, TypeOK, StoreTypeOK
        <4>3. Completed(id).closedBlock = height
          <5>1. swaps[id] \in Swap  BY <1>1, <4>1, SwapFields DEF TypeOK
          <5> QED  BY <5>1 DEF Completed, Swap
        <4> QED  BY <2>2, <2>3, <4>2, <4>3 DEF ClosedInBlocks
      <3> QED  BY <1>2, <3>1, <3>2
    <2> QED  BY <2>2, <2>3 DEF ClosedInBlocks
  <1>3. CASE NextBlock
    <2>1. PICK step \in Steps : BeginBlock(step)  BY <1>3 DEF NextBlock
    <2>2. height' > 0  BY <1>1, <2>1 DEF BeginBlock
    <2>3. ASSUME NEW i \in SwapIDs, swaps'[i].status = "Completed"
          PROVE  swaps'[i] = swaps[i]
      <3>1. swaps[i].status \in {"NULL", "Open", "Completed", "Expired"}
        BY <1>1 DEF TypeOK, StoreTypeOK, Swap, NoSwap
      <3> QED  BY <1>1, <2>1, <2>3, <3>1, BeginBlockSwap
    <2> QED  BY <2>2, <2>3 DEF ClosedInBlocks
  <1>4. CASE \E downtime \in Downtimes : Restart(downtime)
    <2>1. UNCHANGED store /\ inBlock' = FALSE  BY <1>1, <1>4, RestartKeeps
    <2> QED  BY <2>1 DEF ClosedInBlocks, store
  <1>5. CASE UNCHANGED vars  BY <1>5 DEF ClosedInBlocks, vars, store, block
  <1>6. CASE Govern
    BY <1>6 DEF Govern, SetParams, ClosedInBlocks, store
  <1> QED  BY <1>2, <1>3, <1>4, <1>5, <1>6 DEF RestartNext, Next, FixedNext

(* InitGenesis checks the asset and the closing block of every swap.        *)
LEMMA ImportInitExport ==
    ASSUME FilesWellFormed, ImportInit
    PROVE  /\ SwapsOfLiveAssets /\ ClosedInBlocks
           /\ \A id \in SwapIDs : swaps[id].status # "NULL" => swaps[id].expire # 0
  <1>1. PICK gs \in GenesisFiles : \E clock :
            /\ CanImport(gs, clock) /\ WellFormed(gs)
            /\ swaps = ImportedSwaps(gs) /\ params = gs.params /\ inBlock = FALSE
    BY DEF ImportInit, FilesWellFormed
  <1>2. PICK clock : CanImport(gs, clock)  BY <1>1
  <1>3. NoDuplicates(gs.swaps)  BY <1>2 DEF CanImport, Validate
  <1>4. ASSUME NEW id \in SwapIDs, swaps[id].status # "NULL"
        PROVE  /\ ValidateLiveAsset(params[swaps[id].denom])
               /\ swaps[id].expire # 0
               /\ swaps[id].status = "Completed" => swaps[id].closedBlock > 0
    <2>1. PICK e \in gs.swaps : e[1] = id /\ e[2] = swaps[id] /\ e[2] \in Swap
      BY <1>1, <1>3, <1>4, SwapsOfFile
    <2>2. ValidSwap(e[1], e[2], clock) /\ ValidateLiveAsset(gs.params[e[2].denom])
      BY <1>2 DEF CanImport, Validate
    <2>3. swaps[id].closedBlock \in Nat  BY <2>1 DEF Swap
    <2> QED  BY <1>1, <2>1, <2>2, <2>3 DEF ValidSwap
  <1> QED  BY <1>1, <1>4 DEF SwapsOfLiveAssets, ClosedInBlocks

(* Without further coins, or with none left behind, the supplies are those   *)
(* that InitGenesis computes from the swaps of the export.                   *)
LEMMA ExportSupplies ==
    ASSUME CoveredInv, CoinsInv, NEW d \in Denoms,
           d \in FurtherDenoms => NothingLeftBehind(d)
    PROVE  /\ supplies[d].incoming = Reserved(ExportGenesis, d, "Incoming")
           /\ supplies[d].outgoing = Reserved(ExportGenesis, d, "Outgoing")
  <1>1. TypeOK /\ IndexesMatchStatus /\ AbsentSupplies
    BY DEF CoveredInv, ImportedInv, IndexInv
  <1>2. PICK further \in Leftovers :
            /\ SumsBeside(further)
            /\ \A e \in Denoms \ FurtherDenoms : further["Incoming"][e] = 0 /\ further["Outgoing"][e] = 0
    BY DEF CoveredInv, CoversSwaps
  <1>3. FiniteStore  BY <1>2 DEF SumsBeside
  <1>4. \A direction : Reserved(ExportGenesis, d, direction) = LiveCoins(d, direction)
    BY <1>1, <1>3, ExportReserves
  <1>5. CASE d \in FurtherDenoms  BY <1>4, <1>5 DEF NothingLeftBehind
  <1>6. CASE d \notin FurtherDenoms
    <2>1. swaps \in Stores /\ IsFiniteSet(StoredIn(swaps))
      BY <1>1, <1>3 DEF TypeOK, StoreTypeOK, Stores, FiniteStore
    <2>2. \A id \in SwapIDs : IsLive(swaps[id]) => swaps[id].others[d] = 0
      BY <1>6 DEF CoinsInv, IsLive
    <2>3. \A direction : LiveAmount(d, direction) = LiveCoins(d, direction)
      BY <2>1, <2>2, FirstCoins DEF LiveAmount, LiveCoins
    <2>4. LiveAmount(d, "Incoming") \in Nat /\ LiveAmount(d, "Outgoing") \in Nat
      BY <2>1, LiveAmountNat DEF LiveAmount
    <2>5. supplies[d].incoming = LiveAmount(d, "Incoming") /\ supplies[d].outgoing = LiveAmount(d, "Outgoing")
      BY <1>2, <1>6, <2>4 DEF SumsBeside, SuppliesExceed
    <2> QED  BY <1>4, <2>3, <2>5
  <1> QED  BY <1>5, <1>6

(* The checks of InitGenesis, one by one, of what ExportGenesis writes.      *)
LEMMA ExportPasses ==
    ASSUME CoveredInv, CoinsInv, ClosedInBlocks
    PROVE  ExportAccepted
  <1>1. TypeOK /\ IndexesMatchStatus /\ AbsentSupplies
    BY DEF CoveredInv, ImportedInv, IndexInv
  <1> SUFFICES ASSUME NEW clock,
                      \A id \in SwapIDs : Stored(id) => Reimportable(id, clock),
                      \A d \in Denoms : supplies[d].found =>
                          HasRoom(d) /\ (d \in FurtherDenoms => NothingLeftBehind(d))
               PROVE  CanImport(ExportGenesis, clock)
    BY DEF ExportAccepted
  <1> DEFINE gs == ExportGenesis
  <1>2. gs.params = params /\ gs.swaps = GetAllAtomicSwaps /\ gs.supplies = GetAllAssetSupplies
    BY DEF ExportGenesis
  <1>3. NoDuplicates(gs.swaps) /\ NoDuplicates(gs.supplies)  BY <1>1, ExportedStore
  <1>4. \A d \in Denoms : ValidAssetParam(gs.params[d])
    <2>1. params \in ParamSets  BY <1>1 DEF TypeOK
    <2> QED  BY <1>2, <2>1, ParamsAssumption
  <1>5. ASSUME NEW e \in gs.swaps
        PROVE  ValidSwap(e[1], e[2], clock) /\ ValidateLiveAsset(gs.params[e[2].denom])
    <2>1. PICK id \in SwapIDs : e = <<id, swaps[id]>> /\ Stored(id)
      BY <1>2 DEF GetAllAtomicSwaps
    <2>2. swaps[id] \in Swap /\ swaps[id].status # "NULL"
      BY <1>1, <2>1, SwapFields DEF TypeOK, Stored
    <2>3. swaps[id].timestamp # 0 /\ swaps[id].closedBlock \in Nat
      BY <2>2, NumbersAssumption DEF Swap
    <2>4. swaps[id].status = "Completed" => swaps[id].closedBlock # 0
      BY <2>3 DEF ClosedInBlocks
    <2>5. swaps[id].others[swaps[id].denom] = 0  BY <2>2 DEF CoinsInv
    <2>6. Reimportable(id, clock)  BY <2>1
    <2>7. ValidSwap(id, swaps[id], clock)  BY <2>3, <2>4, <2>5, <2>6 DEF ValidSwap, Reimportable
    <2>8. ValidateLiveAsset(params[swaps[id].denom])  BY <2>6 DEF Reimportable
    <2> QED  BY <1>2, <2>1, <2>7, <2>8
  <1>6. ASSUME NEW s \in gs.supplies
        PROVE  ValidSupply(gs, s[1], s[2])
    <2>1. PICK d \in Denoms : s = <<d, supplies[d]>> /\ supplies[d].found
      BY <1>2 DEF GetAllAssetSupplies
    <2>2. HasRoom(d) /\ (d \in FurtherDenoms => NothingLeftBehind(d))  BY <2>1
    <2>3. /\ supplies[d].incoming = Reserved(gs, d, "Incoming")
          /\ supplies[d].outgoing = Reserved(gs, d, "Outgoing")
      BY <2>2, ExportSupplies
    <2> HIDE DEF gs
    <2>4. ValidSupply(gs, d, supplies[d])  BY <1>2, <2>2, <2>3 DEF ValidSupply, HasRoom
    <2> QED  BY <2>1, <2>4
  <1> QED  BY <1>3, <1>4, <1>5, <1>6 DEF CanImport, Validate

(* The first block is number 1, before a restart at height 0 and after it.   *)
LEMMA ClosedSpecInv ==
    ASSUME FilesWellFormed
    PROVE  ImportSpec => []ClosedInBlocks
  <1>1. ImportInit => ClosedInBlocks  BY ImportInitExport
  <1>2. ImportedInv /\ ClosedInBlocks /\ [RestartNext]_vars => ClosedInBlocks'
    BY NextClosedInBlocks
  <1> QED  BY <1>1, <1>2, ImportSpecInv, PTL DEF ImportSpec

(* "can be imported again with InitGenesis" (genesis.go:111): whatever        *)
(* governance does, the export of any block's state is refused only for a    *)
(* stored swap that is too old, without an address abroad or an expire time, *)
(* or of a paused or delisted asset, for a supply without room under its     *)
(* limit or of a delisted asset, or for a denom of further coins that a      *)
(* settled swap of the file left behind in a supply.                        *)
THEOREM ExportsAccepted ==
    ASSUME FilesWellFormed, FilesCoverSwaps
    PROVE  ImportSpec => []ExportAccepted
  <1>1. CoveredInv /\ CoinsInv /\ ClosedInBlocks => ExportAccepted  BY ExportPasses
  <1> QED  BY <1>1, CoveredSpecInv, CoinsSpecInv, ClosedSpecInv, PTL

-------------------------------------------------------------------------------
(* A chain of which every export can be imported.                          *)

\* The unsettled swaps of a file have one coin each, like those of a chain.
FilesOfOneCoin ==
    \A gs \in GenesisFiles : \A e \in gs.swaps : IsLive(e[2]) => e[2].others = NoCoins

\* There is nothing that governance could change the params to.
NoGovernance == \A p, q \in ParamSets : p = q

\* The run is over, and the chain up again, within a day of every timestamp.
WithinADay ==
    /\ GenesisTime <= MaxTime
    /\ \A t \in Timestamps, downtime \in Downtimes : MaxTime + downtime <= t + OneDay

\* What InitGenesis checks of assets, and no step of such a chain changes.
FixedInv == SuppliesFit /\ SwapsOfLiveAssets

(* InitGenesis checks the assets of the file it starts from.                *)
LEMMA ImportInitFixed ==
    ASSUME FilesWellFormed, ImportInit
    PROVE  FixedInv
  <1>1. PICK gs \in GenesisFiles, downtime \in Downtimes :
            /\ CanImport(gs, GenesisTime + downtime) /\ WellFormed(gs)
            /\ supplies = ImportedSupplies(gs) /\ params = gs.params
    BY DEF ImportInit, FilesWellFormed
  <1>2. SuppliesFit  BY <1>1, ImportedStart
  <1> QED  BY <1>2, ImportInitExport DEF FixedInv

(* Without governance, supplies stay within limits and assets live.         *)
LEMMA NextFixed ==
    ASSUME NoGovernance, ImportedInv, FixedInv, [RestartNext]_vars
    PROVE  FixedInv'
  <1>1. TypeOK /\ IndexInv /\ IndexesMatchStatus /\ AbsentSupplies
    BY DEF ImportedInv, IndexInv
  <1>2. TypeOK'  BY NextImported DEF ImportedInv
  <1>3. CASE [FixedNext]_vars
    <2>1. SwapsOfLiveAssets'  BY <1>1, <1>3, FixedNextLive DEF FixedInv
    <2>2. SuppliesFit'
      <3>1. CASE Create \/ Claim \/ Refund  BY <1>1, <1>2, <3>1, MessageLedger DEF FixedInv
      <3>2. CASE NextBlock  BY <1>1, <3>2, BlockLedger DEF NextBlock, FixedInv
      <3>3. CASE UNCHANGED vars  BY <3>3 DEF vars, FixedInv, SuppliesFit
      <3> QED  BY <1>3, <3>1, <3>2, <3>3 DEF FixedNext
    <2> QED  BY <2>1, <2>2 DEF FixedInv
  <1>4. CASE Govern
    <2>1. PICK newParams \in ParamSets : newParams # params  BY <1>4 DEF Govern
    <2>2. params \in ParamSets  BY <1>1 DEF TypeOK
    <2> QED  BY <2>1, <2>2 DEF NoGovernance
  <1>5. CASE \E downtime \in Downtimes : Restart(downtime)
    <2>1. UNCHANGED <<store, supplies, params>>  BY <1>1, <1>5, RestartKeeps
    <2> QED  BY <2>1 DEF FixedInv, SuppliesFit, SwapsOfLiveAssets, store
  <1> QED  BY <1>3, <1>4, <1>5 DEF RestartNext, Next

(* The assets of a chain without governance. *)
LEMMA FixedSpecInv ==
    ASSUME FilesWellFormed, NoGovernance
    PROVE  ImportSpec => []FixedInv
  <1>1. ImportInit => FixedInv  BY ImportInitFixed
  <1>2. ImportedInv /\ FixedInv /\ [RestartNext]_vars => FixedInv'  BY NextFixed
  <1> QED  BY <1>1, <1>2, ImportSpecInv, PTL DEF ImportSpec

\* Every swap has an expire time, and the run is not over.
RunInv ==
    /\ blockTime <= MaxTime
    /\ \A id \in SwapIDs : swaps[id].status # "NULL" => swaps[id].expire # 0

(* A new swap expires after the block it is created in; no step changes the  *)
(* expire time of a swap.                                                  *)
LEMMA NextRun ==
    ASSUME SpansFit, ImportedInv, RunInv, [RestartNext]_vars
    PROVE  RunInv'
  <1>1. TypeOK /\ IndexInv /\ IndexesMatchStatus /\ AbsentSupplies
    BY DEF ImportedInv, IndexInv
  <1>2. CASE [Next]_vars
    <2>1. blockTime' <= MaxTime
      <3>1. CASE Create \/ Claim \/ Refund
        <4>1. block' = block  BY <1>1, <3>1, MessageMoves
        <4> QED  BY <4>1 DEF RunInv, block
      <3>2. CASE NextBlock  BY <3>2 DEF NextBlock, BeginBlock
      <3>3. CASE Govern \/ UNCHANGED vars
        BY <3>3 DEF RunInv, Govern, SetParams, vars, block
      <3> QED  BY <1>2, <3>1, <3>2, <3>3 DEF Next, FixedNext
    <2>2. ASSUME NEW id \in SwapIDs, swaps'[id].status # "NULL"
          PROVE  swaps'[id].expire # 0
      <3>1. CASE swaps'[id] = swaps[id]  BY <2>2, <3>1 DEF RunInv
      <3>2. CASE swaps'[id] # swaps[id] /\ swaps[id].status # "NULL"
        <4>1. LifecycleStep(id)  BY <1>1, <1>2, <3>2, NextLifecycle
        <4>2. swaps'[id].expire = swaps[id].expire  BY <2>2, <3>2, <4>1 DEF LifecycleStep, Terms
        <4> QED  BY <3>2, <4>2 DEF RunInv
      <3>3. CASE swaps'[id] # swaps[id] /\ swaps[id].status = "NULL"
        <4>1. PICK direction \in {"Incoming", "Outgoing"}, recipient \in Users \cup Maccs, d \in Denoms,
                   amount \in Amounts, timestamp \in Timestamps, span \in Spans :
                 /\ \/ CreateIncoming(id, recipient, d, amount, timestamp, span)
                    \/ CreateOutgoing(id, recipient, d, amount, timestamp, span)
                 /\ swaps'[id] = NewAtomicSwap(direction, d, amount, timestamp, ExpireTime(span), recipient)
          BY <1>1, <1>2, <3>3, OpenedByCreate
        <4>2. blockTime < ExpireTime(span)  BY <1>1, <4>1, NewSwapNotDue
        <4>3. blockTime \in Nat /\ ExpireTime(span) \in Int
          BY <1>1, ExpireTimeType DEF TypeOK, BlockTypeOK
        <4>4. swaps'[id].expire = ExpireTime(span)  BY <4>1 DEF NewAtomicSwap
        <4> QED  BY <4>2, <4>3, <4>4
      <3> QED  BY <3>1, <3>2, <3>3
    <2> QED  BY <2>1, <2>2 DEF RunInv
  <1>3. CASE \E downtime \in Downtimes : Restart(downtime)
    <2>1. UNCHANGED store /\ blockTime' = blockTime  BY <1>1, <1>3, RestartKeeps
    <2> QED  BY <2>1 DEF RunInv, store
  <1> QED  BY <1>2, <1>3 DEF RestartNext

(* The expire times of such a chain. *)
LEMMA RunSpecInv ==
    ASSUME FilesWellFormed, SpansFit, WithinADay
    PROVE  ImportSpec => []RunInv
  <1>1. ImportInit => RunInv
    <2> SUFFICES ASSUME ImportInit PROVE RunInv  OBVIOUS
    <2>1. blockTime = GenesisTime  BY DEF ImportInit
    <2>2. \A id \in SwapIDs : swaps[id].status # "NULL" => swaps[id].expire # 0
      BY ImportInitExport
    <2> QED  BY <2>1, <2>2 DEF RunInv, WithinADay
  <1>2. ImportedInv /\ RunInv /\ [RestartNext]_vars => RunInv'  BY NextRun
  <1> QED  BY <1>1, <1>2, ImportSpecInv, PTL DEF ImportSpec

(* The conditions under which genesis.go:111 holds without exception: no       *)
(* governance, files of swaps of one coin, named chains, spans that do not   *)
(* wrap, and no timestamp a day old.  Each rules out a reason for which      *)
(* ExportAccepted lets an export be refused.                               *)
THEOREM ExportsImportable ==
    ASSUME FilesWellFormed, FilesCoverSwaps, FilesOfOneCoin, NoGovernance,
           SpansFit, Blank \notin Chains, WithinADay
    PROVE  ImportSpec => []ExportImportable
  <1>1. FurtherDenoms = {}
    <2>1. ASSUME NEW d \in Denoms, NEW gs \in GenesisFiles, NEW e \in gs.swaps, IsLive(e[2])
          PROVE  ~ (e[2].others[d] > 0)
      BY <2>1 DEF FilesOfOneCoin, NoCoins
    <2> QED  BY <2>1 DEF FurtherDenoms
  <1>2. ASSUME ImportedInv, FixedInv, RunInv, ExportAccepted
        PROVE  ExportImportable
    <2> SUFFICES ASSUME height > 0, NEW downtime \in Downtimes
                 PROVE  CanImport(ExportGenesis, blockTime + downtime)
      BY DEF ExportImportable
    <2>1. ASSUME NEW id \in SwapIDs, Stored(id)
          PROVE  Reimportable(id, blockTime + downtime)
      <3>1. swaps[id] \in Swap
        BY <1>2, <2>1, SwapFields DEF ImportedInv, TypeOK, Stored
      <3>2. swaps[id].timestamp \in Timestamps /\ swaps[id].timestamp \in Nat
        BY <3>1, NumbersAssumption DEF Swap
      <3>3. MaxTime + downtime <= swaps[id].timestamp + OneDay  BY <3>2 DEF WithinADay
      <3>4. blockTime \in Nat /\ blockTime <= MaxTime /\ swaps[id].expire # 0
        BY <1>2, <2>1 DEF ImportedInv, TypeOK, BlockTypeOK, RunInv, Stored
      <3>5. MaxTime \in Int /\ downtime \in Nat /\ OneDay \in Nat
        BY NumbersAssumption, RestartAssumption
      <3>6. blockTime + downtime <= swaps[id].timestamp + OneDay
        BY <3>2, <3>3, <3>4, <3>5
      <3>7. id.chain # Blank  BY DEF SwapIDs
      <3>8. ValidateLiveAsset(params[swaps[id].denom])
        BY <1>2, <2>1 DEF FixedInv, SwapsOfLiveAssets, Stored
      <3> QED  BY <3>4, <3>6, <3>7, <3>8 DEF Reimportable
    <2>2. \A d \in Denoms : supplies[d].found =>
              HasRoom(d) /\ (d \in FurtherDenoms => NothingLeftBehind(d))
      BY <1>1, <1>2 DEF FixedInv, SuppliesFit, HasRoom
    <2> QED  BY <1>2, <2>1, <2>2 DEF ExportAccepted
  <1> QED  BY <1>2, ImportSpecInv, FixedSpecInv, RunSpecInv, ExportsAccepted, PTL

===============================================================================
