---------------------------- MODULE Bep3HTLCProofs ----------------------------
(***************************************************************************)
(* Bep3 implements HTLC, for every set of swaps and parameters: every step *)
(* of the module is a step of the contracts or changes nothing they show.  *)
(***************************************************************************)
EXTENDS Bep3HTLC, Bep3Proofs

-------------------------------------------------------------------------------
(* An expired swap is past its expire time.                                *)

ExpiredSwapsDue ==
    \A id \in SwapIDs : swaps[id].status = "Expired" => swaps[id].expire <= blockTime

(* No swap is stored at the start.                                          *)
LEMMA InitExpired == Init => ExpiredSwapsDue
  BY DEF Init, ExpiredSwapsDue, NoSwap

(* A step that expires no swap and leaves the clock alone. *)
LEMMA SameExpired ==
    ASSUME TypeOK, ExpiredSwapsDue, blockTime' = blockTime,
           \A id \in SwapIDs : swaps'[id].status = "Expired" => swaps'[id] = swaps[id]
    PROVE  ExpiredSwapsDue'
  BY DEF ExpiredSwapsDue

(* A block expires only what it has reached or passed.                      *)
LEMMA BeginBlockExpired ==
    ASSUME TypeOK, IndexInv, ExpiredSwapsDue, NEW step \in Steps, BeginBlock(step)
    PROVE  ExpiredSwapsDue'
  <1> SUFFICES ASSUME NEW id \in SwapIDs, swaps'[id].status = "Expired"
               PROVE  swaps'[id].expire <= blockTime'
    BY DEF ExpiredSwapsDue
  <1>1. blockTime \in Nat /\ blockTime' \in Nat /\ blockTime <= blockTime'
    BY NumbersAssumption DEF TypeOK, BlockTypeOK, BeginBlock
  <1>2. CASE swaps'[id] = swaps[id]
    <2>1. swaps[id].expire \in Int /\ swaps[id].expire <= blockTime
      BY <1>2, SwapFields DEF ExpiredSwapsDue, TypeOK
    <2> QED  BY <1>1, <1>2, <2>1
  <1>3. CASE swaps'[id] # swaps[id]
    <2>1. swaps[id].status = "Open" /\ Terms(swaps'[id]) = Terms(swaps[id])
      BY <1>3, BeginBlockLifecycle DEF LifecycleStep
    <2>2. swaps'[id].expire = swaps[id].expire  BY <2>1 DEF Terms
    <2>3. swaps[id].expire <= blockTime'  BY <1>3, <2>1, BeginBlockSwap
    <2> QED  BY <2>2, <2>3
  <1> QED  BY <1>2, <1>3

(* The clock never goes back behind an expired swap.                        *)
LEMMA NextExpired == TypeOK /\ IndexInv /\ ExpiredSwapsDue /\ [Next]_vars => ExpiredSwapsDue'
  <1> SUFFICES ASSUME TypeOK, IndexInv, ExpiredSwapsDue, [Next]_vars PROVE ExpiredSwapsDue'  OBVIOUS
  <1>1. CASE Create
    <2>1. PICK id \in SwapIDs, recipient \in Users \cup Maccs, d \in Denoms,
                    amount \in Amounts, timestamp \in Timestamps, span \in Spans :
              \/ CreateIncoming(id, recipient, d, amount, timestamp, span)
              \/ CreateOutgoing(id, recipient, d, amount, timestamp, span)
      BY <1>1 DEF Create
    <2>2. swaps'[id].status = "Open" /\ \A i \in SwapIDs \ {id} : swaps'[i] = swaps[i]
      BY <2>1 DEF TypeOK, StoreTypeOK, CreateIncoming, CreateOutgoing, StoreOpenSwap, NewAtomicSwap
    <2>3. blockTime' = blockTime  BY <2>1 DEF CreateIncoming, CreateOutgoing, block
    <2> QED  BY <2>2, <2>3, SameExpired
  <1>2. CASE Claim
    <2>1. PICK id \in SwapIDs, number \in Numbers : ClaimIncoming(id, number) \/ ClaimOutgoing(id, number)
      BY <1>2 DEF Claim
    <2>2. Settles(id, "Open") /\ blockTime' = blockTime
      BY <2>1 DEF Settles, ClaimIncoming, ClaimOutgoing, IsClaimable, block
    <2> QED  BY <2>2, SettledSwap, SameExpired
  <1>3. CASE Refund
    <2>1. PICK id \in SwapIDs : RefundIncoming(id) \/ RefundOutgoing(id)  BY <1>3 DEF Refund
    <2>2. Settles(id, "Expired") /\ blockTime' = blockTime
      BY <2>1 DEF Settles, RefundIncoming, RefundOutgoing, IsRefundable, block
    <2> QED  BY <2>2, SettledSwap, SameExpired
  <1>4. CASE NextBlock  BY <1>4, BeginBlockExpired DEF NextBlock
  <1>5. CASE Govern  BY <1>5, SameExpired DEF Govern, SetParams, store
  <1>6. CASE UNCHANGED vars  BY <1>6, SameExpired DEF vars, store, block
  <1> QED  BY <1>1, <1>2, <1>3, <1>4, <1>5, <1>6 DEF Next, FixedNext

(* Expired swaps are due in every state of the specification.               *)
LEMMA SpecExpired == Spec => []ExpiredSwapsDue
  BY InitExpired, NextExpired, TypeCorrect, SpecIndex, PTL DEF Spec

-------------------------------------------------------------------------------
(* The contract of a swap.                                                 *)

contracts == [id \in SwapIDs |-> ContractOf(id)]

(* It follows from the swap's terms and from whether it is settled. *)
LEMMA SameContract ==
    ASSUME NEW id, Stored(id), Stored(id)', Terms(swaps'[id]) = Terms(swaps[id]),
           IsLive(swaps'[id]) <=> IsLive(swaps[id])
    PROVE  ContractOf(id)' = ContractOf(id)
  BY DEF ContractOf, Terms, Stored, Unlocks

(* A completed swap is a settled contract.                                  *)
LEMMA SettledContract ==
    ASSUME NEW id, Stored(id), Stored(id)', Terms(swaps'[id]) = Terms(swaps[id]),
           IsLive(swaps[id]), ~ IsLive(swaps'[id])
    PROVE  ContractOf(id)' = [ContractOf(id) EXCEPT !.state = "settled"]
  <1> DEFINE payer == IF swaps[id].direction = "Incoming" THEN Abroad ELSE id.sender
             payee == IF swaps[id].direction = "Incoming" THEN swaps[id].recipient ELSE Abroad
             keys  == {number \in Numbers : Unlocks(id, number)}
             c(state) == [state |-> state, payer |-> payer, payee |-> payee,
                          denom |-> swaps[id].denom, amount |-> swaps[id].amount,
                          deadline |-> swaps[id].expire, keys |-> keys]
  <1>1. ContractOf(id) = c("locked")  BY DEF ContractOf, Stored, Unlocks
  <1>2. ContractOf(id)' = c("settled")  BY DEF ContractOf, Terms, Stored, Unlocks
  <1>3. [c("locked") EXCEPT !.state = "settled"] = c("settled")
    <2> HIDE DEF payer, payee, keys
    <2> QED  OBVIOUS
  <1> QED  BY <1>1, <1>2, <1>3

(* A swap that does not change is a contract that does not.                 *)
LEMMA OtherContract ==
    ASSUME NEW id, swaps'[id] = swaps[id]
    PROVE  ContractOf(id)' = ContractOf(id)
  BY DEF ContractOf, Stored, Unlocks

(* The holdings a settlement leaves. *)
LEMMA SettleStep ==
    ASSUME TypeOK, NEW id \in SwapIDs, NEW status \in {"Open", "Expired"}, Settles(id, status),
           NEW party, balances' = Contracts!Paid(party, swaps[id].denom, swaps[id].amount),
           blockTime' = blockTime
    PROVE  Contracts!Settle(id, party)
  <1>1. /\ swaps'[id].status = "Completed" /\ Terms(swaps'[id]) = Terms(swaps[id])
        /\ \A i \in SwapIDs \ {id} : swaps'[i] = swaps[i]
    BY SettledSwap
  <1>2. ContractOf(id)' = [ContractOf(id) EXCEPT !.state = "settled"]
    BY <1>1, SettledContract DEF Settles, Stored, IsLive
  <1>3. \A i \in SwapIDs \ {id} : ContractOf(i)' = ContractOf(i)  BY <1>1, OtherContract
  <1>4. contracts' = [contracts EXCEPT ![id].state = "settled"]
    BY <1>2, <1>3 DEF contracts
  <1>5. contracts[id].denom = swaps[id].denom /\ contracts[id].amount = swaps[id].amount
    BY DEF contracts, ContractOf, Settles, Stored, Unlocks
  <1> QED  BY <1>4, <1>5 DEF Contracts!Settle, contracts

(* A new swap locks a contract, and what the sender pays. *)
LEMMA LockStep ==
    ASSUME TypeOK, NEW id \in SwapIDs, NEW swap \in Swap, swaps[id].status = "NULL",
           swaps' = [swaps EXCEPT ![id] = swap], swap.status = "Open",
           blockTime < swap.expire, blockTime' = blockTime,
           IF swap.direction = "Incoming" THEN balances' = balances
           ELSE /\ swap.amount <= balances[id.sender][swap.denom]
                /\ balances' = [balances EXCEPT ![id.sender][swap.denom] = @ - swap.amount]
    PROVE  Contracts!Lock(id, contracts'[id])
  <1> DEFINE payer == IF swap.direction = "Incoming" THEN Abroad ELSE id.sender
             payee == IF swap.direction = "Incoming" THEN swap.recipient ELSE Abroad
             keys  == {number \in Numbers : number = id.number /\ swap.timestamp = id.hashTime}
             c     == [state |-> "locked", payer |-> payer, payee |-> payee,
                       denom |-> swap.denom, amount |-> swap.amount,
                       deadline |-> swap.expire, keys |-> keys]
  <1>1. swaps'[id] = swap /\ \A i \in SwapIDs \ {id} : swaps'[i] = swaps[i]
    BY DEF TypeOK, StoreTypeOK
  <1>2. ContractOf(id)' = c  BY <1>1 DEF ContractOf, Stored, IsLive, Unlocks
  <1>3. contracts'[id] = c /\ contracts' = [contracts EXCEPT ![id] = c]
    <2>1. \A i \in SwapIDs \ {id} : ContractOf(i)' = ContractOf(i)  BY <1>1, OtherContract
    <2> HIDE DEF c
    <2> QED  BY <1>2, <2>1 DEF contracts
  <1>4. contracts[id] = Contracts!NoContract
    BY DEF contracts, ContractOf, Stored, Unlocks, Contracts!NoContract
  <1>5. /\ swap.denom \in Denoms /\ swap.amount \in Nat /\ swap.expire \in Int
        /\ swap.recipient \in Users /\ id.sender \in Users
    <2>1. swap.amount \in Amounts /\ swap.denom \in Denoms /\ swap.expire \in Int /\ swap.recipient \in Users
      BY DEF Swap
    <2>2. id.sender \in Users  BY DEF SwapIDs
    <2> QED  BY <2>1, <2>2, NumbersAssumption
  <1>6. c \in Contracts!Contract
    <2>1. payer \in Users \cup {Abroad} /\ payee \in Users \cup {Abroad} /\ keys \in SUBSET Numbers
      BY <1>5
    <2> HIDE DEF payer, payee, keys
    <2> QED  BY <1>5, <2>1 DEF Contracts!Contract
  <1>7. balances' = Contracts!Paid(payer, swap.denom, 0 - swap.amount)
    <2>1. CASE swap.direction = "Incoming"  BY <2>1 DEF Contracts!Paid
    <2>2. CASE swap.direction # "Incoming"
      <3>1. payer = id.sender /\ payer # Abroad  BY <1>5, <2>2, AbroadAssumption
      <3>2. balances[id.sender][swap.denom] \in Nat  BY <1>5 DEF TypeOK, LedgerTypeOK
      <3>3. balances[id.sender][swap.denom] - swap.amount
              = balances[id.sender][swap.denom] + (0 - swap.amount)
        BY <1>5, <3>2
      <3>4. balances' = [balances EXCEPT ![id.sender][swap.denom]
                            = balances[id.sender][swap.denom] + (0 - swap.amount)]
        BY <2>2, <3>3
      <3> QED  BY <3>1, <3>4 DEF Contracts!Paid
    <2> QED  BY <2>1, <2>2
  <1>8. payer # Abroad => swap.amount <= balances[payer][swap.denom]  OBVIOUS
  <1>9. /\ c.state = "locked" /\ c.deadline = swap.expire /\ c.payer = payer
        /\ c.denom = swap.denom /\ c.amount = swap.amount
    <2> HIDE DEF payer, payee, keys
    <2> QED  OBVIOUS
  <1> HIDE DEF c, payer
  <1> QED  BY <1>3, <1>4, <1>6, <1>7, <1>8, <1>9 DEF Contracts!Lock, contracts

(* A creation locks one contract.                                           *)
LEMMA CreateStep ==
    ASSUME SpansFit, TypeOK, NEW id \in SwapIDs, NEW recipient \in Users \cup Maccs, NEW d \in Denoms,
           NEW amount \in Amounts, NEW timestamp \in Timestamps, NEW span \in Spans,
           \/ CreateIncoming(id, recipient, d, amount, timestamp, span)
           \/ CreateOutgoing(id, recipient, d, amount, timestamp, span)
    PROVE  Contracts!Lock(id, contracts'[id])
  <1> DEFINE swap(direction) ==
               NewAtomicSwap(direction, d, amount, timestamp, ExpireTime(span), recipient)
  <1>1. recipient \in Users /\ swaps[id].status = "NULL"
    BY DEF CreateIncoming, CreateOutgoing, AcceptSwap, CanReceive, IsNewSwap, Stored
  <1>2. ExpireTime(span) \in Int /\ blockTime < ExpireTime(span)
    BY ExpireTimeType, NewSwapNotDue DEF TypeOK, BlockTypeOK
  <1>3. \A direction \in {"Incoming", "Outgoing"} :
           /\ swap(direction) \in Swap /\ swap(direction).direction = direction
           /\ swap(direction).status = "Open" /\ swap(direction).expire = ExpireTime(span)
           /\ swap(direction).denom = d /\ swap(direction).amount = amount
    BY <1>1, <1>2, NewSwapType DEF NewAtomicSwap
  <1>4. CASE CreateIncoming(id, recipient, d, amount, timestamp, span)
    <2>1. /\ swaps' = [swaps EXCEPT ![id] = swap("Incoming")]
          /\ balances' = balances /\ blockTime' = blockTime
      BY <1>4 DEF CreateIncoming, StoreOpenSwap, bank, block
    <2> HIDE DEF swap
    <2> QED  BY <1>1, <1>2, <1>3, <2>1, LockStep
  <1>5. CASE CreateOutgoing(id, recipient, d, amount, timestamp, span)
    <2>1. /\ swaps' = [swaps EXCEPT ![id] = swap("Outgoing")]
          /\ blockTime' = blockTime /\ amount <= balances[id.sender][d]
          /\ balances' = [balances EXCEPT ![id.sender][d] = @ - amount]
      BY <1>5 DEF CreateOutgoing, StoreOpenSwap, block
    <2> HIDE DEF swap
    <2> QED  BY <1>1, <1>2, <1>3, <2>1, LockStep
  <1> QED  BY <1>4, <1>5

(* What the contract of an unsettled swap says. *)
LEMMA LockedContract ==
    ASSUME TypeOK, NEW id \in SwapIDs, swaps[id].status \in {"Open", "Expired"}
    PROVE  /\ contracts[id].state = "locked" /\ contracts[id].deadline = swaps[id].expire
           /\ contracts[id].keys = {number \in Numbers : Unlocks(id, number)}
           /\ swaps[id].direction = "Incoming" =>
                 contracts[id].payer = Abroad /\ contracts[id].payee = swaps[id].recipient
           /\ swaps[id].direction = "Outgoing" =>
                 contracts[id].payer = id.sender /\ contracts[id].payee = Abroad
           /\ swaps[id].recipient # Abroad /\ id.sender # Abroad
  <1>1. swaps[id].recipient \in Users /\ id.sender \in Users  BY SwapFields DEF TypeOK, SwapIDs
  <1> QED  BY <1>1, AbroadAssumption DEF contracts, ContractOf, Stored, IsLive, Unlocks

(* A claim redeems a contract before its deadline, with one of its keys. *)
LEMMA ClaimStep ==
    ASSUME TypeOK, OneCoinSwaps, OpenSwapsNotDue, NEW id \in SwapIDs, NEW number \in Numbers,
           ClaimIncoming(id, number) \/ ClaimOutgoing(id, number)
    PROVE  Contracts!Redeem(id, number)
  <1>1. Settles(id, "Open") /\ Unlocks(id, number) /\ blockTime' = blockTime
    BY DEF Settles, ClaimIncoming, ClaimOutgoing, IsClaimable, block
  <1>2. blockTime < swaps[id].expire  BY <1>1 DEF Settles, OpenSwapsNotDue
  <1>3. balances' = Contracts!Paid(contracts[id].payee, swaps[id].denom, swaps[id].amount)
    <2>1. CASE ClaimIncoming(id, number)
      BY <2>1, <1>1, LockedContract, OneCoinClaimIncoming DEF ClaimIncoming, IsClaimable, Settles, Contracts!Paid
    <2>2. CASE ClaimOutgoing(id, number)
      BY <2>2, <1>1, LockedContract DEF ClaimOutgoing, IsClaimable, Settles, Contracts!Paid
    <2> QED  BY <2>1, <2>2
  <1>4. Contracts!Settle(id, contracts[id].payee)  BY <1>1, <1>3, SettleStep
  <1> QED  BY <1>1, <1>2, <1>4, LockedContract DEF Settles, Contracts!Redeem, contracts

(* A refund cancels a contract from its deadline on. *)
LEMMA RefundStep ==
    ASSUME TypeOK, OneCoinSwaps, ExpiredSwapsDue, NEW id \in SwapIDs, RefundIncoming(id) \/ RefundOutgoing(id)
    PROVE  Contracts!Cancel(id)
  <1>1. Settles(id, "Expired") /\ blockTime' = blockTime
    BY DEF Settles, RefundIncoming, RefundOutgoing, IsRefundable, block
  <1>2. swaps[id].expire <= blockTime  BY <1>1 DEF Settles, ExpiredSwapsDue
  <1>3. balances' = Contracts!Paid(contracts[id].payer, swaps[id].denom, swaps[id].amount)
    <2>1. CASE RefundIncoming(id)
      BY <2>1, <1>1, LockedContract DEF RefundIncoming, IsRefundable, Settles, bank, Contracts!Paid
    <2>2. CASE RefundOutgoing(id)
      BY <2>2, <1>1, LockedContract, OneCoinRefundOutgoing DEF RefundOutgoing, IsRefundable, Settles, Contracts!Paid
    <2> QED  BY <2>1, <2>2
  <1>4. Contracts!Settle(id, contracts[id].payer)  BY <1>1, <1>3, SettleStep
  <1> QED  BY <1>1, <1>2, <1>4, LockedContract DEF Settles, Contracts!Cancel, contracts

(* A new block is a tick of the clock that forgets the swaps it deletes; to *)
(* the contract of a swap that it expires nothing happens.                  *)
LEMMA BlockStep ==
    ASSUME TypeOK, IndexInv, NEW step \in Steps, BeginBlock(step)
    PROVE  Contracts!Tick
  <1> DEFINE forgotten == {id \in SwapIDs : swaps[id].status = "Completed" /\ swaps'[id].status = "NULL"}
  <1>1. blockTime' \in Nat /\ blockTime <= blockTime' /\ balances' = balances
    BY NumbersAssumption DEF TypeOK, BlockTypeOK, BeginBlock, bank
  <1>2. forgotten \in SUBSET {id \in SwapIDs : contracts[id].state = "settled"}
    BY DEF contracts, ContractOf, Stored, IsLive, Unlocks
  <1>3. ASSUME NEW id \in SwapIDs
        PROVE  ContractOf(id)' = IF id \in forgotten THEN Contracts!NoContract ELSE ContractOf(id)
    <2>1. CASE swaps'[id] = swaps[id]  BY <2>1, OtherContract
    <2>2. CASE swaps'[id] # swaps[id]
      <3>1. LifecycleStep(id)  BY <2>2, BeginBlockLifecycle
      <3>2. swaps[id].status \in {"NULL", "Open", "Completed", "Expired"}
        BY DEF TypeOK, StoreTypeOK, Swap, NoSwap
      <3>3. CASE swaps[id].status = "Completed"
        <4>1. swaps'[id].status = "NULL"  BY <3>1, <3>3 DEF LifecycleStep
        <4> QED  BY <3>3, <4>1 DEF ContractOf, Stored, Unlocks, Contracts!NoContract
      <3>4. CASE swaps[id].status = "Open"
        <4>1. swaps'[id].status = "Expired" /\ Terms(swaps'[id]) = Terms(swaps[id])
          BY <2>2, <3>1, <3>4, BeginBlockSwap DEF LifecycleStep
        <4>2. ContractOf(id)' = ContractOf(id)
          BY <3>4, <4>1, SameContract DEF Stored, IsLive
        <4> QED  BY <3>4, <4>2
      <3> QED  BY <2>2, <3>2, <3>3, <3>4, BeginBlockSwap
    <2> QED  BY <2>1, <2>2
  <1>4. contracts' = [id \in SwapIDs |-> IF id \in forgotten THEN Contracts!NoContract ELSE contracts[id]]
    <2> HIDE DEF forgotten
    <2> QED  BY <1>3 DEF contracts
  <1> HIDE DEF forgotten
  <1> QED  BY <1>1, <1>2, <1>4 DEF Contracts!Tick, contracts

(* Governance and stuttering change nothing that a contract shows. *)
LEMMA SameContracts ==
    ASSUME UNCHANGED <<store, balances, blockTime>>
    PROVE  UNCHANGED <<contracts, balances, blockTime>>
  <1>1. \A id \in SwapIDs : ContractOf(id)' = ContractOf(id)  BY OtherContract DEF store
  <1> QED  BY <1>1 DEF contracts

(* Every step of Bep3 is a step of the contracts, or none.                  *)
LEMMA ContractsNext ==
    ASSUME SpansFit, TypeOK, OneCoinSwaps, IndexInv, OpenSwapsNotDue, ExpiredSwapsDue, [Next]_vars
    PROVE  [Contracts!Next]_<<contracts, balances, blockTime>>
  <1>1. CASE Create
    <2>1. \E id \in SwapIDs : Contracts!Lock(id, contracts'[id])  BY <1>1, CreateStep DEF Create
    <2> QED  BY <2>1 DEF Contracts!Next, contracts
  <1>2. CASE Claim
    <2>1. \E id \in SwapIDs, number \in Numbers : Contracts!Redeem(id, number)
      BY <1>2, ClaimStep DEF Claim
    <2> QED  BY <2>1 DEF Contracts!Next
  <1>3. CASE Refund
    <2>1. \E id \in SwapIDs : Contracts!Cancel(id)  BY <1>3, RefundStep DEF Refund
    <2> QED  BY <2>1 DEF Contracts!Next
  <1>4. CASE NextBlock
    <2>1. Contracts!Tick  BY <1>4, BlockStep DEF NextBlock
    <2> QED  BY <2>1 DEF Contracts!Next
  <1>5. CASE Govern  BY <1>5, SameContracts DEF Govern, SetParams, bank
  <1>6. CASE UNCHANGED vars  BY <1>6, SameContracts DEF vars, bank, block
  <1> QED  BY <1>1, <1>2, <1>3, <1>4, <1>5, <1>6 DEF Next, FixedNext

(* An empty store is no contracts.                                          *)
LEMMA ContractsInit == Init => Contracts!Init
  BY DEF Init, Contracts!Init, Contracts!NoContract, ContractOf, Stored, Unlocks, NoSwap

(* Every behaviour of the module, whatever its users and its governance do, *)
(* is one of hashed time-locked contracts: a swap is claimed only before    *)
(* its expire time and with its secret, refunded only from then on, and     *)
(* pays once, to the party it is due to; provided that the spans the deputy *)
(* chooses fit a time.Duration. *)
THEOREM SwapsAreContracts ==
    ASSUME SpansFit
    PROVE  Spec => ImplementsHTLC
  <1>1. TypeOK /\ OneCoinSwaps /\ IndexInv /\ OpenSwapsNotDue /\ ExpiredSwapsDue /\ [Next]_vars
           => [Contracts!Next]_<<[id \in SwapIDs |-> ContractOf(id)], balances, blockTime>>
    BY ContractsNext DEF contracts
  <1>2. Spec => [][Contracts!Next]_<<[id \in SwapIDs |-> ContractOf(id)], balances, blockTime>>
    BY <1>1, TypeCorrect, SpecOneCoin, SpecIndex, ClaimsBeforeExpiry, SpecExpired, PTL DEF Spec
  <1> QED  BY <1>2, ContractsInit, PTL DEF Spec, ImplementsHTLC, Contracts!Spec
===============================================================================
