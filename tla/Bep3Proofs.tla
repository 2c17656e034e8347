------------------------------ MODULE Bep3Proofs ------------------------------
(***************************************************************************)
(* Theorems about Bep3, for every set of swaps, users and assets, every    *)
(* genesis state and every choice of the parameters that governance makes. *)
(***************************************************************************)
EXTENDS Bep3, TLAPS

-------------------------------------------------------------------------------
(* What the operations of keeper/asset.go preserve.  Every lemma speaks of *)
(* one operation that its guard admits.                                    *)

(* Reserving and releasing incoming supply keeps the record well-formed.   *)
LEMMA IncomingTypes ==
    ASSUME NEW s \in SupplyRecord, NEW a \in Nat
    PROVE  /\ IncrementIncoming(s, a) \in SupplyRecord
           /\ CanDecrementIncoming(s, a) => DecrementIncoming(s, a) \in SupplyRecord
  BY DEF SupplyRecord, IncrementIncoming, CanDecrementIncoming, DecrementIncoming

(* Reserving and releasing outgoing supply keeps the record well-formed.   *)
LEMMA OutgoingTypes ==
    ASSUME NEW s \in SupplyRecord, NEW a \in Nat
    PROVE  /\ IncrementOutgoing(s, a) \in SupplyRecord
           /\ CanDecrementOutgoing(s, a) => DecrementOutgoing(s, a) \in SupplyRecord
  BY DEF SupplyRecord, IncrementOutgoing, CanDecrementOutgoing, DecrementOutgoing

(* Writing one field of a record with a value of its type.                 *)
LEMMA FieldTypes ==
    ASSUME NEW s \in SupplyRecord
    PROVE  /\ [s EXCEPT !.found = TRUE] \in SupplyRecord
           /\ \A e \in Int : [s EXCEPT !.timeElapsed = e] \in SupplyRecord
           /\ \A n \in Nat : [s EXCEPT !.timeLimitedCurrent = n] \in SupplyRecord
           /\ \A n \in Nat : [s EXCEPT !.current = n] \in SupplyRecord
  BY DEF SupplyRecord

(* Minting and burning current supply keeps the record well-formed.        *)
LEMMA CurrentTypes ==
    ASSUME NEW s \in SupplyRecord, NEW a \in Nat, NEW asset
    PROVE  /\ IncrementCurrent(s, asset, a) \in SupplyRecord
           /\ CanDecrementCurrent(s, a) => DecrementCurrent(s, a) \in SupplyRecord
  <1>1. IncrementCurrent(s, asset, a) \in SupplyRecord
    <2> DEFINE minted == [s EXCEPT !.current = @ + a]
               window == IF asset.timeLimited THEN s.timeLimitedCurrent + a ELSE s.timeLimitedCurrent
    <2>1. minted \in SupplyRecord  BY FieldTypes DEF SupplyRecord
    <2>2. window \in Nat  BY DEF SupplyRecord
    <2>3. [minted EXCEPT !.timeLimitedCurrent = window] \in SupplyRecord
      <3> HIDE DEF minted, window
      <3> QED  BY <2>1, <2>2, FieldTypes
    <2>4. IncrementCurrent(s, asset, a) = [minted EXCEPT !.timeLimitedCurrent = window]
      BY DEF IncrementCurrent, SupplyRecord
    <2> QED  BY <2>3, <2>4
  <1>2. CanDecrementCurrent(s, a) => DecrementCurrent(s, a) \in SupplyRecord
    BY DEF SupplyRecord, CanDecrementCurrent, DecrementCurrent
  <1> QED  BY <1>1, <1>2

(* A duration that wraps is still an integer; one in range does not wrap. *)
LEMMA WrappedDuration ==
    ASSUME NEW seconds \in Int
    PROVE  /\ WrapDuration(seconds) \in Int
           /\ 0 <= seconds /\ seconds < DurationLimit => WrapDuration(seconds) = seconds
  <1>1. DurationLimit \in Nat /\ DurationLimit > 0  BY DurationAssumption
  <1> DEFINE range == 2 * DurationLimit
             sum   == seconds + DurationLimit
  <1>2. range \in Nat \ {0} /\ sum \in Int  BY <1>1
  <1>3. sum % range \in Int
    <2> HIDE DEF range, sum
    <2> QED  BY <1>2
  <1>4. 0 <= sum /\ sum < range => sum % range = sum
    <2> HIDE DEF range, sum
    <2> QED  BY <1>2
  <1>5. 0 <= seconds /\ seconds < DurationLimit => 0 <= sum /\ sum < range  BY <1>1
  <1> QED  BY <1>1, <1>3, <1>4, <1>5 DEF WrapDuration

(* Stopping at the extremes gives a duration, the same one if it is in range. *)
LEMMA SaturatedDuration ==
    ASSUME NEW seconds \in Int
    PROVE  /\ SaturateDuration(seconds) \in Int
           /\ 0 <= seconds /\ seconds < DurationLimit => SaturateDuration(seconds) = seconds
  BY DurationAssumption DEF SaturateDuration

(* The time window's update keeps the record well-formed.                  *)
LEMMA WindowTypes ==
    ASSUME NEW s \in SupplyRecord, NEW elapsed \in Int, NEW asset
    PROVE  UpdateWindow(s, asset, elapsed) \in SupplyRecord
  <1> DEFINE sum     == WrapDuration(s.timeElapsed + elapsed)
             running == asset.timeLimited /\ sum < asset.timePeriod
             time    == IF running THEN sum ELSE 0
             minted  == IF running THEN s.timeLimitedCurrent ELSE 0
  <1>1. sum \in Int
    <2>1. s.timeElapsed + elapsed \in Int  BY DEF SupplyRecord
    <2> QED  BY <2>1, WrappedDuration
  <1>2. time \in Int /\ minted \in Nat
    <2> HIDE DEF sum, running
    <2> QED  BY <1>1 DEF SupplyRecord
  <1>3. UpdateWindow(s, asset, elapsed) =
            [s EXCEPT !.found = TRUE, !.timeElapsed = time, !.timeLimitedCurrent = minted]
    BY Zenon DEF UpdateWindow
  <1> HIDE DEF time, minted
  <1>4. [s EXCEPT !.found = TRUE, !.timeElapsed = time, !.timeLimitedCurrent = minted]
            \in SupplyRecord
    BY <1>2 DEF SupplyRecord
  <1> QED  BY <1>3, <1>4

(* It touches the window and nothing else, and never grows what it counts. *)
LEMMA WindowFields ==
    ASSUME NEW s \in SupplyRecord, NEW elapsed \in Int, NEW asset
    PROVE  /\ UpdateWindow(s, asset, elapsed).incoming = s.incoming
           /\ UpdateWindow(s, asset, elapsed).outgoing = s.outgoing
           /\ UpdateWindow(s, asset, elapsed).current = s.current
           /\ UpdateWindow(s, asset, elapsed).timeLimitedCurrent \in {0, s.timeLimitedCurrent}
  BY DEF SupplyRecord, UpdateWindow

(* A window is updated in a record that exists from then on. *)
LEMMA WindowFound ==
    ASSUME NEW s \in SupplyRecord, NEW elapsed, NEW asset
    PROVE  UpdateWindow(s, asset, elapsed).found = TRUE
  BY DEF SupplyRecord, UpdateWindow

(* A mint takes what it adds to the current supply out of the incoming one. *)
LEMMA MintFields ==
    ASSUME NEW s \in SupplyRecord, NEW a \in Nat, NEW asset
    PROVE  LET minted == IncrementCurrent(DecrementIncoming(s, a), asset, a)
           IN  /\ minted.found = s.found /\ minted.outgoing = s.outgoing
               /\ minted.incoming = s.incoming - a /\ minted.current = s.current + a
  <1> DEFINE r == DecrementIncoming(s, a)
             minted == IncrementCurrent(r, asset, a)
  <1>1. /\ r.found = s.found /\ r.outgoing = s.outgoing
        /\ r.incoming = s.incoming - a /\ r.current = s.current
        /\ DOMAIN r = DOMAIN s
    BY DEF DecrementIncoming, SupplyRecord
  <1>2. DOMAIN s = {"found", "incoming", "outgoing", "current", "timeLimitedCurrent", "timeElapsed"}
    BY DEF SupplyRecord
  <1> HIDE DEF r
  <1>3. /\ minted.found = r.found /\ minted.outgoing = r.outgoing
        /\ minted.incoming = r.incoming /\ minted.current = r.current + a
    BY <1>1, <1>2 DEF IncrementCurrent
  <1> HIDE DEF minted
  <1>4. /\ minted.found = s.found /\ minted.outgoing = s.outgoing
        /\ minted.incoming = s.incoming - a /\ minted.current = s.current + a
    BY <1>1, <1>3
  <1> QED  BY <1>4 DEF minted, r

-------------------------------------------------------------------------------
(* The swaps in the store.                                                 *)

(* What a swap that the store holds looks like. *)
LEMMA SwapFields ==
    ASSUME StoreTypeOK, NEW id \in SwapIDs, swaps[id].status # "NULL"
    PROVE  /\ swaps[id] \in Swap
           /\ swaps[id].denom \in Denoms /\ swaps[id].amount \in Nat \ {0}
           /\ swaps[id].recipient \in Users /\ swaps[id].expire \in Int
           /\ swaps[id].closedBlock \in Nat
  <1>1. swaps[id] \in Swap
    <2>1. swaps[id] \in Swap \cup {NoSwap}  BY DEF StoreTypeOK
    <2>2. NoSwap.status = "NULL"  BY DEF NoSwap
    <2> QED  BY <2>1, <2>2
  <1>2. swaps[id].amount \in Amounts  BY <1>1 DEF Swap
  <1>3. swaps[id].amount \in Nat \ {0}  BY <1>2, NumbersAssumption
  <1> QED  BY <1>1, <1>3 DEF Swap

(* A new swap, stored and indexed, keeps the store's types. *)
LEMMA StoreOpenSwapTypes ==
    ASSUME StoreTypeOK, NEW id \in SwapIDs, NEW swap \in Swap, StoreOpenSwap(id, swap)
    PROVE  StoreTypeOK'
  <1>1. swap.expire \in Int  BY DEF Swap
  <1> QED  BY <1>1 DEF StoreTypeOK, StoreOpenSwap

(* So does a swap that is completed. *)
LEMMA CompleteSwapTypes ==
    ASSUME StoreTypeOK, height \in Nat, NEW id \in SwapIDs, swaps[id].status # "NULL",
           CompleteSwap(id), byTimestamp' \subseteq byTimestamp
    PROVE  StoreTypeOK'
  <1>1. swaps[id] \in Swap  BY SwapFields
  <1>2. Completed(id) \in Swap
    <2> DEFINE done == [swaps[id] EXCEPT !.status = "Completed"]
    <2>1. done \in Swap  BY <1>1 DEF Swap
    <2>2. [done EXCEPT !.closedBlock = height] \in Swap
      <3> HIDE DEF done
      <3> QED  BY <2>1 DEF Swap
    <2> QED  BY <2>2 DEF Completed
  <1>3. Completed(id).closedBlock = height  BY <1>1 DEF Completed, Swap
  <1>4. DeletionHeight(Completed(id)) \in Nat  BY <1>3, NumbersAssumption DEF DeletionHeight
  <1> QED  BY <1>2, <1>4 DEF StoreTypeOK, CompleteSwap

(* The genesis state has the types of the model. *)
LEMMA InitTypeOK == Init => TypeOK
  <1> SUFFICES ASSUME Init PROVE TypeOK  OBVIOUS
  <1>1. StoreTypeOK  BY DEF Init, StoreTypeOK
  <1>2. LedgerTypeOK  BY GenesisAssumption DEF Init, LedgerTypeOK, NoCoins
  <1>3. BlockTypeOK  BY NumbersAssumption DEF Init, BlockTypeOK
  <1>4. params \in ParamSets /\ accounts \subseteq Users  BY ParamsAssumption DEF Init
  <1> QED  BY <1>1, <1>2, <1>3, <1>4 DEF TypeOK

-------------------------------------------------------------------------------
(* Type correctness, one lemma per action.                                 *)

(* What NewAtomicSwap returns is a swap.                                    *)
LEMMA NewSwapType ==
    ASSUME NEW direction \in {"Incoming", "Outgoing"}, NEW d \in Denoms, NEW amount \in Amounts,
           NEW timestamp \in Timestamps, NEW expire \in Int, NEW recipient \in Users
    PROVE  NewAtomicSwap(direction, d, amount, timestamp, expire, recipient) \in Swap
  BY DEF NewAtomicSwap, Swap, NoCoins, CoinAmounts

(* An expire time is an integer, though not always ahead of the clock.      *)
LEMMA ExpireTimeType ==
    ASSUME blockTime \in Nat, NEW span \in Spans
    PROVE  ExpireTime(span) \in Int
  <1>1. span * Minute \in Int  BY NumbersAssumption
  <1>2. WrapDuration(span * Minute) \in Int  BY <1>1, WrappedDuration
  <1> QED  BY <1>2 DEF ExpireTime

(* Creating an incoming swap: the recipient is a user, the deputy's         *)
(* reservation a natural number. *)
LEMMA CreateIncomingTypes ==
    ASSUME TypeOK, NEW id \in SwapIDs, NEW recipient \in Users \cup Maccs, NEW d \in Denoms,
           NEW amount \in Amounts, NEW timestamp \in Timestamps, NEW span \in Spans,
           CreateIncoming(id, recipient, d, amount, timestamp, span)
    PROVE  TypeOK'
  <1>1. recipient \in Users  BY DEF CreateIncoming, AcceptSwap, CanReceive
  <1>2. ExpireTime(span) \in Int
    BY ExpireTimeType DEF TypeOK, BlockTypeOK
  <1>3. NewAtomicSwap("Incoming", d, amount, timestamp, ExpireTime(span), recipient) \in Swap
    BY <1>1, <1>2, NewSwapType
  <1>4. StoreTypeOK'  BY <1>3, StoreOpenSwapTypes DEF TypeOK, CreateIncoming
  <1>5. LedgerTypeOK'
    <2>1. supplies[d] \in SupplyRecord /\ amount \in Nat
      BY NumbersAssumption DEF TypeOK, LedgerTypeOK
    <2>2. IncrementIncoming(supplies[d], amount) \in SupplyRecord  BY <2>1, IncomingTypes
    <2> QED  BY <2>2 DEF TypeOK, LedgerTypeOK, CreateIncoming, bank
  <1>6. BlockTypeOK'  BY DEF TypeOK, BlockTypeOK, CreateIncoming, block
  <1> QED  BY <1>1, <1>4, <1>5, <1>6 DEF TypeOK, CreateIncoming

(* Creating an outgoing swap: the sender has the coins it escrows. *)
LEMMA CreateOutgoingTypes ==
    ASSUME TypeOK, NEW id \in SwapIDs, NEW recipient \in Users \cup Maccs, NEW d \in Denoms,
           NEW amount \in Amounts, NEW timestamp \in Timestamps, NEW span \in Spans,
           CreateOutgoing(id, recipient, d, amount, timestamp, span)
    PROVE  TypeOK'
  <1>1. recipient \in Users  BY DEF CreateOutgoing, AcceptSwap, CanReceive
  <1>2. ExpireTime(span) \in Int
    BY ExpireTimeType DEF TypeOK, BlockTypeOK
  <1>3. NewAtomicSwap("Outgoing", d, amount, timestamp, ExpireTime(span), recipient) \in Swap
    BY <1>1, <1>2, NewSwapType
  <1>4. StoreTypeOK'  BY <1>3, StoreOpenSwapTypes DEF TypeOK, CreateOutgoing
  <1>5. LedgerTypeOK'
    <2>1. supplies[d] \in SupplyRecord /\ amount \in Nat /\ id.sender \in Users
      BY NumbersAssumption DEF TypeOK, LedgerTypeOK, SwapIDs
    <2>2. supplies' \in [Denoms -> SupplyRecord]
      <3>1. IncrementOutgoing(supplies[d], amount) \in SupplyRecord  BY <2>1, OutgoingTypes
      <3> QED  BY <3>1 DEF TypeOK, LedgerTypeOK, CreateOutgoing
    <2>3. balances' \in [Users -> [Denoms -> Nat]]
      BY <2>1 DEF TypeOK, LedgerTypeOK, CreateOutgoing
    <2>4. escrow' \in [Denoms -> Nat] /\ bankSupply' \in [Denoms -> Nat]
      BY <2>1 DEF TypeOK, LedgerTypeOK, CreateOutgoing
    <2> QED  BY <2>2, <2>3, <2>4 DEF LedgerTypeOK
  <1>6. BlockTypeOK'  BY DEF TypeOK, BlockTypeOK, CreateOutgoing, block
  <1> QED  BY <1>4, <1>5, <1>6 DEF TypeOK, CreateOutgoing

(* What a claim or a refund finds of the swap's asset. *)
LEMMA SettledSwapFields ==
    ASSUME TypeOK, NEW id \in SwapIDs, swaps[id].status # "NULL"
    PROVE  /\ swaps[id].denom \in Denoms /\ swaps[id].amount \in Nat
           /\ supplies[swaps[id].denom] \in SupplyRecord
           /\ swaps[id].recipient \in Users /\ id.sender \in Users
  BY SwapFields DEF TypeOK, LedgerTypeOK, SwapIDs

(* All the coins of a stored swap are amounts. *)
LEMMA SwapCoins ==
    ASSUME StoreTypeOK, NEW id \in SwapIDs, swaps[id].status # "NULL"
    PROVE  Coins(swaps[id]) \in CoinAmounts
  <1>1. swaps[id] \in Swap /\ swaps[id].denom \in Denoms /\ swaps[id].amount \in Nat  BY SwapFields
  <1>2. swaps[id].others \in [Denoms -> Nat]  BY <1>1 DEF Swap, CoinAmounts
  <1> QED  BY <1>1, <1>2 DEF Coins, CoinAmounts

(* So is their sum with what an account has, and what is left of it. *)
LEMMA MovedCoins ==
    ASSUME NEW a \in CoinAmounts, NEW b \in CoinAmounts
    PROVE  AddCoins(a, b) \in CoinAmounts /\ (Holds(a, b) => SubCoins(a, b) \in CoinAmounts)
  <1>1. \A d \in Denoms : a[d] \in Nat /\ b[d] \in Nat  BY DEF CoinAmounts
  <1> QED  BY <1>1 DEF AddCoins, SubCoins, Holds, CoinAmounts

(* Claiming an incoming swap. *)
LEMMA ClaimIncomingTypes ==
    ASSUME TypeOK, NEW id \in SwapIDs, NEW number \in Numbers, ClaimIncoming(id, number)
    PROVE  TypeOK'
  <1> DEFINE d == swaps[id].denom
             a == swaps[id].amount
  <1>0. swaps[id].status # "NULL"  BY DEF ClaimIncoming, IsClaimable
  <1>1. d \in Denoms /\ a \in Nat /\ supplies[d] \in SupplyRecord /\ swaps[id].recipient \in Users
    BY <1>0, SettledSwapFields
  <1>2. StoreTypeOK'
    <2>1. CompleteSwap(id) /\ byTimestamp' \subseteq byTimestamp
      BY DEF ClaimIncoming, RemoveFromByTimestamp
    <2> QED  BY <1>0, <2>1, CompleteSwapTypes DEF TypeOK, BlockTypeOK
  <1>3. LedgerTypeOK'
    <2>1. DecrementIncoming(supplies[d], a) \in SupplyRecord
      BY <1>1, IncomingTypes DEF ClaimIncoming, CanMint
    <2>2. IncrementCurrent(DecrementIncoming(supplies[d], a), params[d], a) \in SupplyRecord
      BY <1>1, <2>1, CurrentTypes
    <2>3. supplies' \in [Denoms -> SupplyRecord]
      BY <2>2 DEF TypeOK, LedgerTypeOK, ClaimIncoming
    <2>4. Coins(swaps[id]) \in CoinAmounts  BY <1>0, SwapCoins DEF TypeOK
    <2>5. bankSupply' \in [Denoms -> Nat]
      BY <2>4, MovedCoins DEF TypeOK, LedgerTypeOK, CoinAmounts, ClaimIncoming
    <2>6. balances' \in [Users -> [Denoms -> Nat]]
      <3>1. AddCoins(balances[swaps[id].recipient], Coins(swaps[id])) \in [Denoms -> Nat]
        BY <1>1, <2>4, MovedCoins DEF TypeOK, LedgerTypeOK, CoinAmounts
      <3> QED  BY <3>1 DEF TypeOK, LedgerTypeOK, ClaimIncoming
    <2> QED  BY <2>3, <2>5, <2>6 DEF TypeOK, LedgerTypeOK, ClaimIncoming
  <1>4. BlockTypeOK'  BY DEF TypeOK, BlockTypeOK, ClaimIncoming, block
  <1> QED  BY <1>2, <1>3, <1>4 DEF TypeOK, ClaimIncoming

(* Claiming an outgoing swap. *)
LEMMA ClaimOutgoingTypes ==
    ASSUME TypeOK, NEW id \in SwapIDs, NEW number \in Numbers, ClaimOutgoing(id, number)
    PROVE  TypeOK'
  <1> DEFINE d == swaps[id].denom
             a == swaps[id].amount
  <1>0. swaps[id].status # "NULL"  BY DEF ClaimOutgoing, IsClaimable
  <1>1. d \in Denoms /\ a \in Nat /\ supplies[d] \in SupplyRecord
    BY <1>0, SettledSwapFields
  <1>2. StoreTypeOK'
    <2>1. CompleteSwap(id) /\ byTimestamp' \subseteq byTimestamp
      BY DEF ClaimOutgoing, RemoveFromByTimestamp
    <2> QED  BY <1>0, <2>1, CompleteSwapTypes DEF TypeOK, BlockTypeOK
  <1>3. LedgerTypeOK'
    <2>1. DecrementOutgoing(supplies[d], a) \in SupplyRecord
      BY <1>1, OutgoingTypes DEF ClaimOutgoing, CanBurn
    <2>2. DecrementCurrent(DecrementOutgoing(supplies[d], a), a) \in SupplyRecord
      BY <1>1, <2>1, CurrentTypes DEF ClaimOutgoing, CanBurn
    <2>3. supplies' \in [Denoms -> SupplyRecord]
      BY <2>2 DEF TypeOK, LedgerTypeOK, ClaimOutgoing
    <2>4. escrow' \in [Denoms -> Nat] /\ bankSupply' \in [Denoms -> Nat]
      <3>1. Coins(swaps[id]) \in CoinAmounts  BY <1>0, SwapCoins DEF TypeOK
      <3> QED  BY <3>1, MovedCoins DEF TypeOK, LedgerTypeOK, CoinAmounts, ClaimOutgoing, CanBurn
    <2> QED  BY <2>3, <2>4 DEF TypeOK, LedgerTypeOK, ClaimOutgoing
  <1>4. BlockTypeOK'  BY DEF TypeOK, BlockTypeOK, ClaimOutgoing, block
  <1> QED  BY <1>2, <1>3, <1>4 DEF TypeOK, ClaimOutgoing

(* Refunding an incoming swap. *)
LEMMA RefundIncomingTypes ==
    ASSUME TypeOK, NEW id \in SwapIDs, RefundIncoming(id)
    PROVE  TypeOK'
  <1>0. swaps[id].status # "NULL"  BY DEF RefundIncoming, IsRefundable
  <1>1. swaps[id].denom \in Denoms /\ swaps[id].amount \in Nat
        /\ supplies[swaps[id].denom] \in SupplyRecord
    BY <1>0, SettledSwapFields
  <1>2. StoreTypeOK'
    <2>1. CompleteSwap(id) /\ byTimestamp' \subseteq byTimestamp  BY DEF RefundIncoming
    <2> QED  BY <1>0, <2>1, CompleteSwapTypes DEF TypeOK, BlockTypeOK
  <1>3. DecrementIncoming(supplies[swaps[id].denom], swaps[id].amount) \in SupplyRecord
    BY <1>1, IncomingTypes DEF RefundIncoming
  <1>4. LedgerTypeOK'  BY <1>1, <1>3 DEF TypeOK, LedgerTypeOK, RefundIncoming, bank
  <1>5. BlockTypeOK'  BY DEF TypeOK, BlockTypeOK, RefundIncoming, block
  <1> QED  BY <1>2, <1>4, <1>5 DEF TypeOK, RefundIncoming

(* Refunding an outgoing swap. *)
LEMMA RefundOutgoingTypes ==
    ASSUME TypeOK, NEW id \in SwapIDs, RefundOutgoing(id)
    PROVE  TypeOK'
  <1> DEFINE d == swaps[id].denom
             a == swaps[id].amount
  <1>0. swaps[id].status # "NULL"  BY DEF RefundOutgoing, IsRefundable
  <1>1. d \in Denoms /\ a \in Nat /\ supplies[d] \in SupplyRecord /\ id.sender \in Users
    BY <1>0, SettledSwapFields
  <1>2. StoreTypeOK'
    <2>1. CompleteSwap(id) /\ byTimestamp' \subseteq byTimestamp  BY DEF RefundOutgoing
    <2> QED  BY <1>0, <2>1, CompleteSwapTypes DEF TypeOK, BlockTypeOK
  <1>3. LedgerTypeOK'
    <2>1. DecrementOutgoing(supplies[d], a) \in SupplyRecord
      BY <1>1, OutgoingTypes DEF RefundOutgoing, CanRelease
    <2>2. supplies' \in [Denoms -> SupplyRecord]
      BY <2>1 DEF TypeOK, LedgerTypeOK, RefundOutgoing
    <2>3. balances' \in [Users -> [Denoms -> Nat]] /\ escrow' \in [Denoms -> Nat]
      <3>1. Coins(swaps[id]) \in CoinAmounts  BY <1>0, SwapCoins DEF TypeOK
      <3>2. escrow' \in [Denoms -> Nat]
        BY <3>1, MovedCoins DEF TypeOK, LedgerTypeOK, CoinAmounts, RefundOutgoing, CanRelease
      <3>3. AddCoins(balances[id.sender], Coins(swaps[id])) \in [Denoms -> Nat]
        BY <1>1, <3>1, MovedCoins DEF TypeOK, LedgerTypeOK, CoinAmounts
      <3> QED  BY <3>2, <3>3 DEF TypeOK, LedgerTypeOK, RefundOutgoing
    <2> QED  BY <2>2, <2>3 DEF TypeOK, LedgerTypeOK, RefundOutgoing
  <1>4. BlockTypeOK'  BY DEF TypeOK, BlockTypeOK, RefundOutgoing, block
  <1> QED  BY <1>2, <1>3, <1>4 DEF TypeOK, RefundOutgoing

(* A swap in the store when the block begins is kept, expired or deleted. *)
LEMMA ExpiredSwapType ==
    ASSUME NEW swap \in Swap
    PROVE  [swap EXCEPT !.status = "Expired"] \in Swap
  BY DEF Swap

(* The time since the previous block is a duration. *)
LEMMA ElapsedType ==
    ASSUME TypeOK, NEW now \in Nat
    PROVE  Elapsed(now) \in Int
  <1>1. CASE prevBlockTime = NoTime  BY <1>1 DEF Elapsed
  <1>2. CASE prevBlockTime # NoTime
    <2>1. now - prevBlockTime \in Int  BY <1>2 DEF TypeOK, BlockTypeOK
    <2> QED  BY <1>2, <2>1, SaturatedDuration DEF Elapsed
  <1> QED  BY <1>1, <1>2

(* A new block. *)
LEMMA BeginBlockTypes ==
    ASSUME TypeOK, NEW step \in Steps, BeginBlock(step)
    PROVE  TypeOK'
  <1>1. step \in Nat  BY NumbersAssumption
  <1>2. BlockTypeOK'
    <2>1. blockTime' \in Nat /\ height' \in Nat /\ inBlock' \in BOOLEAN /\ maccPerms' \in BOOLEAN
      BY <1>1 DEF TypeOK, BlockTypeOK, BeginBlock, EnsureModuleAccountPermissions
    <2>2. prevBlockTime' \in Nat \cup {NoTime}
      BY <2>1 DEF TypeOK, BlockTypeOK, BeginBlock, UpdateTimeBasedSupplyLimits
    <2> QED  BY <2>1, <2>2 DEF BlockTypeOK
  <1>3. LedgerTypeOK'
    <2>1. supplies' \in [Denoms -> SupplyRecord]
      <3> DEFINE elapsed == Elapsed(blockTime')
      <3>1. elapsed \in Int  BY <1>2, ElapsedType DEF TypeOK, BlockTypeOK
      <3>2. ASSUME NEW d \in Denoms
            PROVE  UpdateWindow(supplies[d], params[d], elapsed) \in SupplyRecord
        <4>1. supplies[d] \in SupplyRecord  BY DEF TypeOK, LedgerTypeOK
        <4> HIDE DEF elapsed
        <4> QED  BY <3>1, <4>1, WindowTypes
      <3>3. \/ supplies' = supplies
            \/ supplies' = [d \in Denoms |-> IF params[d].listed
                                                THEN UpdateWindow(supplies[d], params[d], elapsed)
                                                ELSE supplies[d]]
        BY DEF BeginBlock, UpdateTimeBasedSupplyLimits
      <3> HIDE DEF elapsed
      <3> QED  BY <3>2, <3>3 DEF TypeOK, LedgerTypeOK
    <2> QED  BY <2>1 DEF TypeOK, LedgerTypeOK, BeginBlock, bank
  <1>4. StoreTypeOK'
    <2>1. ASSUME NEW id \in SwapIDs
          PROVE  swaps'[id] \in Swap \cup {NoSwap}
      <3>1. CASE id \in DueToDelete(height')  BY <3>1 DEF BeginBlock, ExpireAndDelete
      <3>2. CASE id \notin DueToDelete(height') /\ id \in DueToExpire(blockTime')
        <4>1. swaps[id] \in Swap  BY <3>2, SwapFields DEF DueToExpire, Stored, TypeOK
        <4>2. swaps'[id] = [swaps[id] EXCEPT !.status = "Expired"]
          BY <3>2 DEF BeginBlock, ExpireAndDelete
        <4> QED  BY <4>1, <4>2, ExpiredSwapType
      <3>3. CASE id \notin DueToDelete(height') /\ id \notin DueToExpire(blockTime')
        BY <3>3 DEF BeginBlock, ExpireAndDelete, TypeOK, StoreTypeOK
      <3> QED  BY <3>1, <3>2, <3>3
    <2>2. swaps' = [id \in SwapIDs |-> swaps'[id]]  BY DEF BeginBlock, ExpireAndDelete
    <2>3. byTimestamp' \subseteq byTimestamp /\ longterm' \subseteq longterm
      BY DEF BeginBlock, ExpireAndDelete
    <2> QED  BY <2>1, <2>2, <2>3 DEF TypeOK, StoreTypeOK
  <1> QED  BY <1>2, <1>3, <1>4 DEF TypeOK, BeginBlock

(* A change of the params. *)
LEMMA SetParamsTypes ==
    ASSUME TypeOK, NEW newParams \in ParamSets, SetParams(newParams)
    PROVE  TypeOK'
  <1>1. StoreTypeOK' /\ LedgerTypeOK'  BY DEF TypeOK, StoreTypeOK, LedgerTypeOK, SetParams, store, bank
  <1>2. BlockTypeOK'  BY DEF TypeOK, BlockTypeOK, SetParams
  <1> QED  BY <1>1, <1>2 DEF TypeOK, SetParams

(* A step that changes nothing. *)
LEMMA StutterTypes == TypeOK /\ UNCHANGED vars => TypeOK'
  BY DEF TypeOK, StoreTypeOK, LedgerTypeOK, BlockTypeOK, vars, store, bank, block

(* Every step keeps the types. *)
LEMMA NextTypeOK == TypeOK /\ [Next]_vars => TypeOK'
  <1> SUFFICES ASSUME TypeOK, [Next]_vars PROVE TypeOK'  OBVIOUS
  <1>1. CASE Create  BY <1>1, CreateIncomingTypes, CreateOutgoingTypes DEF Create
  <1>2. CASE Claim   BY <1>2, ClaimIncomingTypes, ClaimOutgoingTypes DEF Claim
  <1>3. CASE Refund  BY <1>3, RefundIncomingTypes, RefundOutgoingTypes DEF Refund
  <1>4. CASE NextBlock  BY <1>4, BeginBlockTypes DEF NextBlock
  <1>5. CASE Govern  BY <1>5, SetParamsTypes DEF Govern
  <1>6. CASE UNCHANGED vars  BY <1>6, StutterTypes
  <1> QED  BY <1>1, <1>2, <1>3, <1>4, <1>5, <1>6 DEF Next, FixedNext

(* No message, block or proposal ever drives a supply, a balance or the     *)
(* escrow below zero, or stores a swap that pays a module account. *)
THEOREM TypeCorrect == Spec => []TypeOK
  BY InitTypeOK, NextTypeOK, PTL DEF Spec

-------------------------------------------------------------------------------
(* A chain that was not started from a file has swaps of one coin only,    *)
(* which are all that CreateAtomicSwapState accepts.                       *)

OneCoinSwaps == \A id \in SwapIDs : swaps[id].status # "NULL" => swaps[id].others = NoCoins

(* Completing or expiring a swap changes none of its coins. *)
LEMMA SameOthers ==
    ASSUME NEW swap \in Swap, NEW status, NEW closedBlock
    PROVE  /\ [swap EXCEPT !.status = status].others = swap.others
           /\ [swap EXCEPT !.status = status, !.closedBlock = closedBlock].others = swap.others
  BY DEF Swap

(* A new swap has one coin. *)
LEMMA StoreOneCoin ==
    ASSUME StoreTypeOK, OneCoinSwaps, NEW id \in SwapIDs, NEW swap, swap.others = NoCoins,
           StoreOpenSwap(id, swap)
    PROVE  OneCoinSwaps'
  BY DEF StoreTypeOK, OneCoinSwaps, StoreOpenSwap

(* A settled swap has the coins it had. *)
LEMMA CompleteOneCoin ==
    ASSUME StoreTypeOK, OneCoinSwaps, NEW id \in SwapIDs, swaps[id].status # "NULL", CompleteSwap(id)
    PROVE  OneCoinSwaps'
  <1>1. Completed(id).others = swaps[id].others  BY SwapFields, SameOthers DEF Completed
  <1> QED  BY <1>1 DEF StoreTypeOK, OneCoinSwaps, CompleteSwap

(* A swap that a block leaves in the store has the coins it had. *)
LEMMA ExpireOneCoin ==
    ASSUME StoreTypeOK, OneCoinSwaps, NEW now, NEW h, ExpireAndDelete(now, h)
    PROVE  OneCoinSwaps'
  <1> SUFFICES ASSUME NEW id \in SwapIDs, swaps'[id].status # "NULL" PROVE swaps'[id].others = NoCoins
    BY DEF OneCoinSwaps
  <1>1. swaps'[id] = IF id \in DueToDelete(h) THEN NoSwap
                     ELSE IF id \in DueToExpire(now) THEN [swaps[id] EXCEPT !.status = "Expired"]
                     ELSE swaps[id]
    BY DEF ExpireAndDelete
  <1>2. id \notin DueToDelete(h)  BY <1>1 DEF NoSwap
  <1>3. CASE id \in DueToExpire(now)
    <2>1. swaps[id].status # "NULL"  BY <1>3 DEF DueToExpire, Stored
    <2> QED  BY <1>1, <1>2, <1>3, <2>1, SwapFields, SameOthers DEF OneCoinSwaps
  <1>4. CASE id \notin DueToExpire(now)  BY <1>1, <1>2, <1>4 DEF OneCoinSwaps
  <1> QED  BY <1>3, <1>4

(* Every step keeps the number of coins. *)
LEMMA NextOneCoin == TypeOK /\ OneCoinSwaps /\ [Next]_vars => OneCoinSwaps'
  <1> SUFFICES ASSUME TypeOK, OneCoinSwaps, [Next]_vars PROVE OneCoinSwaps'  OBVIOUS
  <1>0. StoreTypeOK  BY DEF TypeOK
  <1>1. CASE Create
    <2>1. \E id \in SwapIDs : \E swap : swap.others = NoCoins /\ StoreOpenSwap(id, swap)
      BY <1>1 DEF Create, CreateIncoming, CreateOutgoing, NewAtomicSwap
    <2> QED  BY <1>0, <2>1, StoreOneCoin
  <1>2. CASE Claim \/ Refund
    <2>1. \E id \in SwapIDs : swaps[id].status # "NULL" /\ CompleteSwap(id)
      BY <1>2 DEF Claim, Refund, ClaimIncoming, ClaimOutgoing, RefundIncoming, RefundOutgoing,
                  IsClaimable, IsRefundable
    <2> QED  BY <1>0, <2>1, CompleteOneCoin
  <1>3. CASE NextBlock  BY <1>0, <1>3, ExpireOneCoin DEF NextBlock, BeginBlock
  <1>4. CASE Govern  BY <1>4 DEF Govern, SetParams, store, OneCoinSwaps
  <1>5. CASE UNCHANGED vars  BY <1>5 DEF vars, store, OneCoinSwaps
  <1> QED  BY <1>1, <1>2, <1>3, <1>4, <1>5 DEF Next, FixedNext

(* All swaps of the specification have one coin. *)
LEMMA SpecOneCoin == Spec => []OneCoinSwaps
  <1>1. Init => OneCoinSwaps  BY DEF Init, OneCoinSwaps, NoSwap
  <1> QED  BY <1>1, NextOneCoin, TypeCorrect, PTL DEF Spec

(* Moving the coins of such a swap changes one amount. *)
LEMMA OneCoinMoved ==
    ASSUME NEW swap, swap.others = NoCoins, swap.denom \in Denoms, swap.amount \in Nat,
           NEW a \in CoinAmounts
    PROVE  /\ AddCoins(a, Coins(swap)) = [a EXCEPT ![swap.denom] = @ + swap.amount]
           /\ SubCoins(a, Coins(swap)) = [a EXCEPT ![swap.denom] = @ - swap.amount]
           /\ swap.amount <= a[swap.denom] => Holds(a, Coins(swap))
  <1> DEFINE c == Coins(swap)
  <1>1. \A d \in Denoms : c[d] = IF d = swap.denom THEN swap.amount ELSE 0
    BY DEF Coins, NoCoins
  <1>2. a = [d \in Denoms |-> a[d]] /\ \A d \in Denoms : a[d] \in Nat  BY DEF CoinAmounts
  <1> HIDE DEF c
  <1>3. AddCoins(a, c) = [a EXCEPT ![swap.denom] = @ + swap.amount]
    <2>1. \A d \in Denoms : a[d] + c[d] = [a EXCEPT ![swap.denom] = @ + swap.amount][d]  BY <1>1, <1>2
    <2> QED  BY <1>2, <2>1 DEF AddCoins
  <1>4. SubCoins(a, c) = [a EXCEPT ![swap.denom] = @ - swap.amount]
    <2>1. \A d \in Denoms : a[d] - c[d] = [a EXCEPT ![swap.denom] = @ - swap.amount][d]  BY <1>1, <1>2
    <2> QED  BY <1>2, <2>1 DEF SubCoins
  <1>5. swap.amount <= a[swap.denom] => Holds(a, c)  BY <1>1, <1>2 DEF Holds
  <1> QED  BY <1>3, <1>4, <1>5 DEF c

(* What the claim of an incoming swap does to the bank. *)
LEMMA OneCoinClaimIncoming ==
    ASSUME TypeOK, OneCoinSwaps, NEW id \in SwapIDs, NEW number, ClaimIncoming(id, number)
    PROVE  /\ bankSupply' = [bankSupply EXCEPT ![swaps[id].denom] = @ + swaps[id].amount]
           /\ balances' = [balances EXCEPT ![swaps[id].recipient][swaps[id].denom] = @ + swaps[id].amount]
  <1> DEFINE swap == swaps[id]
  <1>1. swap.status # "NULL"  BY DEF ClaimIncoming, IsClaimable
  <1>2. swap.others = NoCoins /\ swap.denom \in Denoms /\ swap.amount \in Nat /\ swap.recipient \in Users
    BY <1>1, SettledSwapFields DEF OneCoinSwaps
  <1>3. bankSupply \in CoinAmounts /\ balances[swap.recipient] \in CoinAmounts
    BY <1>2 DEF TypeOK, LedgerTypeOK, CoinAmounts
  <1>4. /\ bankSupply' = AddCoins(bankSupply, Coins(swap))
        /\ balances' = [balances EXCEPT ![swap.recipient] = AddCoins(balances[swap.recipient], Coins(swap))]
    BY DEF ClaimIncoming
  <1> HIDE DEF swap
  <1>5. AddCoins(balances[swap.recipient], Coins(swap))
            = [balances[swap.recipient] EXCEPT ![swap.denom] = @ + swap.amount]
    BY <1>2, <1>3, OneCoinMoved
  <1>6. bankSupply' = [bankSupply EXCEPT ![swap.denom] = @ + swap.amount]
    BY <1>2, <1>3, <1>4, OneCoinMoved
  <1> QED  BY <1>4, <1>5, <1>6 DEF swap

(* What the claim of an outgoing swap does to it. *)
LEMMA OneCoinClaimOutgoing ==
    ASSUME TypeOK, OneCoinSwaps, NEW id \in SwapIDs, NEW number, ClaimOutgoing(id, number)
    PROVE  /\ bankSupply' = [bankSupply EXCEPT ![swaps[id].denom] = @ - swaps[id].amount]
           /\ escrow' = [escrow EXCEPT ![swaps[id].denom] = @ - swaps[id].amount]
  <1>1. swaps[id].status # "NULL"  BY DEF ClaimOutgoing, IsClaimable
  <1>2. swaps[id].others = NoCoins /\ swaps[id].denom \in Denoms /\ swaps[id].amount \in Nat
    BY <1>1, SettledSwapFields DEF OneCoinSwaps
  <1>3. bankSupply \in CoinAmounts /\ escrow \in CoinAmounts
    BY DEF TypeOK, LedgerTypeOK, CoinAmounts
  <1>4. /\ bankSupply' = SubCoins(bankSupply, Coins(swaps[id]))
        /\ escrow' = SubCoins(escrow, Coins(swaps[id]))
    BY DEF ClaimOutgoing
  <1> QED  BY <1>2, <1>3, <1>4, OneCoinMoved

(* What the refund of an outgoing swap does to it. *)
LEMMA OneCoinRefundOutgoing ==
    ASSUME TypeOK, OneCoinSwaps, NEW id \in SwapIDs, RefundOutgoing(id)
    PROVE  /\ escrow' = [escrow EXCEPT ![swaps[id].denom] = @ - swaps[id].amount]
           /\ balances' = [balances EXCEPT ![id.sender][swaps[id].denom] = @ + swaps[id].amount]
  <1> DEFINE swap == swaps[id]
             u    == id.sender
  <1>1. swap.status # "NULL"  BY DEF RefundOutgoing, IsRefundable
  <1>2. swap.others = NoCoins /\ swap.denom \in Denoms /\ swap.amount \in Nat /\ u \in Users
    BY <1>1, SettledSwapFields DEF OneCoinSwaps
  <1>3. escrow \in CoinAmounts /\ balances[u] \in CoinAmounts
    BY <1>2 DEF TypeOK, LedgerTypeOK, CoinAmounts
  <1>4. /\ escrow' = SubCoins(escrow, Coins(swap))
        /\ balances' = [balances EXCEPT ![u] = AddCoins(balances[u], Coins(swap))]
    BY DEF RefundOutgoing
  <1> HIDE DEF swap, u
  <1>5. AddCoins(balances[u], Coins(swap)) = [balances[u] EXCEPT ![swap.denom] = @ + swap.amount]
    BY <1>2, <1>3, OneCoinMoved
  <1>6. escrow' = [escrow EXCEPT ![swap.denom] = @ - swap.amount]
    BY <1>2, <1>3, <1>4, OneCoinMoved
  <1> QED  BY <1>4, <1>5, <1>6 DEF swap, u

-------------------------------------------------------------------------------
(* The ledger: the escrow backs the outgoing supply, which the current      *)
(* supply covers, and the current supply follows the bank.                 *)

LedgerInv == EscrowBacksOutgoing /\ OutgoingWithinCurrent /\ CurrentTracksBank

(* A genesis without swaps has an empty escrow and no outgoing supply.      *)
LEMMA InitLedger == Init => LedgerInv
  BY GenesisAssumption
  DEF Init, NoCoins, LedgerInv, EscrowBacksOutgoing, OutgoingWithinCurrent, CurrentTracksBank, SupplyRecord

(* A step that leaves the bank alone and changes no outgoing or current    *)
(* supply keeps the ledger. *)
LEMMA SameLedger ==
    ASSUME LedgerInv, escrow' = escrow, bankSupply' = bankSupply,
           \A e \in Denoms : /\ supplies'[e].outgoing = supplies[e].outgoing
                             /\ supplies'[e].current = supplies[e].current
    PROVE  LedgerInv'
  BY DEF LedgerInv, EscrowBacksOutgoing, OutgoingWithinCurrent, CurrentTracksBank

(* Incoming supply is in none of the three invariants.                      *)
LEMMA CreateIncomingLedger ==
    ASSUME TypeOK, LedgerInv, NEW id \in SwapIDs, NEW recipient, NEW d \in Denoms,
           NEW amount \in Amounts, NEW timestamp, NEW span,
           CreateIncoming(id, recipient, d, amount, timestamp, span)
    PROVE  LedgerInv'
  <1>1. \A e \in Denoms : /\ supplies'[e].outgoing = supplies[e].outgoing
                          /\ supplies'[e].current = supplies[e].current
    BY DEF TypeOK, LedgerTypeOK, SupplyRecord, CreateIncoming, IncrementIncoming
  <1> QED  BY <1>1, SameLedger DEF CreateIncoming, bank

(* The escrow and the outgoing supply grow by the same amount, and the      *)
(* guard keeps both within the current supply. *)
LEMMA CreateOutgoingLedger ==
    ASSUME TypeOK, LedgerInv, NEW id \in SwapIDs, NEW recipient, NEW d \in Denoms,
           NEW amount \in Amounts, NEW timestamp, NEW span,
           CreateOutgoing(id, recipient, d, amount, timestamp, span)
    PROVE  LedgerInv'
  <1>1. supplies[d] \in SupplyRecord /\ amount \in Nat
    BY NumbersAssumption DEF TypeOK, LedgerTypeOK
  <1>2. /\ supplies'[d].outgoing = supplies[d].outgoing + amount
        /\ supplies'[d].current = supplies[d].current
        /\ supplies[d].outgoing + amount <= supplies[d].current
    BY <1>1 DEF TypeOK, LedgerTypeOK, SupplyRecord, CreateOutgoing, IncrementOutgoing, CanIncrementOutgoing
  <1>3. escrow'[d] = escrow[d] + amount /\ bankSupply' = bankSupply
    BY DEF TypeOK, LedgerTypeOK, CreateOutgoing
  <1>4. \A e \in Denoms \ {d} : supplies'[e] = supplies[e] /\ escrow'[e] = escrow[e]
    BY DEF TypeOK, LedgerTypeOK, CreateOutgoing
  <1> QED  BY <1>1, <1>2, <1>3, <1>4
           DEF LedgerInv, EscrowBacksOutgoing, OutgoingWithinCurrent, CurrentTracksBank

(* A mint raises the current supply and the bank's supply together. *)
LEMMA ClaimIncomingLedger ==
    ASSUME TypeOK, OneCoinSwaps, LedgerInv, NEW id \in SwapIDs, NEW number, ClaimIncoming(id, number)
    PROVE  LedgerInv'
  <1> DEFINE d == swaps[id].denom
             a == swaps[id].amount
             s == DecrementIncoming(supplies[d], a)
  <1>0. swaps[id].status # "NULL"  BY DEF ClaimIncoming, IsClaimable
  <1>1. d \in Denoms /\ a \in Nat /\ supplies[d] \in SupplyRecord  BY <1>0, SettledSwapFields
  <1>2. s.outgoing = supplies[d].outgoing /\ s.current = supplies[d].current /\ s \in SupplyRecord
    BY <1>1, IncomingTypes DEF SupplyRecord, DecrementIncoming, ClaimIncoming, CanMint
  <1>3. /\ IncrementCurrent(s, params[d], a).outgoing = s.outgoing
        /\ IncrementCurrent(s, params[d], a).current = s.current + a
    <2> HIDE DEF s, d, a
    <2> QED  BY <1>1, <1>2 DEF IncrementCurrent, SupplyRecord
  <1>4. supplies'[d] = IncrementCurrent(s, params[d], a) /\ bankSupply'[d] = bankSupply[d] + a
    BY <1>1, OneCoinClaimIncoming DEF TypeOK, LedgerTypeOK, ClaimIncoming
  <1>5. \A e \in Denoms \ {d} : supplies'[e] = supplies[e] /\ bankSupply'[e] = bankSupply[e]
    BY OneCoinClaimIncoming DEF TypeOK, LedgerTypeOK, ClaimIncoming
  <1>6. escrow' = escrow  BY DEF ClaimIncoming
  <1>7. \A e \in Denoms : /\ bankSupply[e] \in Nat /\ supplies[e].current \in Nat
                          /\ supplies[e].outgoing \in Nat
                          /\ GenesisBankSupply[e] \in Nat /\ GenesisSupplies[e].current \in Nat
    BY GenesisAssumption DEF TypeOK, LedgerTypeOK, SupplyRecord
  <1> HIDE DEF s, d, a
  <1> QED  BY <1>1, <1>2, <1>3, <1>4, <1>5, <1>6, <1>7
           DEF LedgerInv, EscrowBacksOutgoing, OutgoingWithinCurrent, CurrentTracksBank

(* A burn lowers the outgoing, the current, the escrowed and the bank's     *)
(* supply together. *)
LEMMA ClaimOutgoingLedger ==
    ASSUME TypeOK, OneCoinSwaps, LedgerInv, NEW id \in SwapIDs, NEW number, ClaimOutgoing(id, number)
    PROVE  LedgerInv'
  <1> DEFINE d == swaps[id].denom
             a == swaps[id].amount
  <1>0. swaps[id].status # "NULL"  BY DEF ClaimOutgoing, IsClaimable
  <1>1. d \in Denoms /\ a \in Nat /\ supplies[d] \in SupplyRecord  BY <1>0, SettledSwapFields
  <1>2. /\ DecrementCurrent(DecrementOutgoing(supplies[d], a), a).outgoing = supplies[d].outgoing - a
        /\ DecrementCurrent(DecrementOutgoing(supplies[d], a), a).current = supplies[d].current - a
    <2> HIDE DEF d, a
    <2> QED  BY <1>1 DEF DecrementCurrent, DecrementOutgoing, SupplyRecord
  <1>3. /\ supplies'[d] = DecrementCurrent(DecrementOutgoing(supplies[d], a), a)
        /\ bankSupply'[d] = bankSupply[d] - a /\ escrow'[d] = escrow[d] - a
    BY <1>1, OneCoinClaimOutgoing DEF TypeOK, LedgerTypeOK, ClaimOutgoing
  <1>4. \A e \in Denoms \ {d} : /\ supplies'[e] = supplies[e] /\ bankSupply'[e] = bankSupply[e]
                                /\ escrow'[e] = escrow[e]
    BY OneCoinClaimOutgoing DEF TypeOK, LedgerTypeOK, ClaimOutgoing
  <1>5. \A e \in Denoms : /\ bankSupply[e] \in Nat /\ escrow[e] \in Nat
                          /\ supplies[e].current \in Nat /\ supplies[e].outgoing \in Nat
                          /\ GenesisBankSupply[e] \in Nat /\ GenesisSupplies[e].current \in Nat
    BY GenesisAssumption DEF TypeOK, LedgerTypeOK, SupplyRecord
  <1> HIDE DEF d, a
  <1> QED  BY <1>1, <1>2, <1>3, <1>4, <1>5
           DEF LedgerInv, EscrowBacksOutgoing, OutgoingWithinCurrent, CurrentTracksBank

(* Its release by a refund changes none of them either.                     *)
LEMMA RefundIncomingLedger ==
    ASSUME TypeOK, LedgerInv, NEW id \in SwapIDs, RefundIncoming(id)
    PROVE  LedgerInv'
  <1>1. \A e \in Denoms : /\ supplies'[e].outgoing = supplies[e].outgoing
                          /\ supplies'[e].current = supplies[e].current
    BY DEF TypeOK, LedgerTypeOK, SupplyRecord, RefundIncoming, DecrementIncoming
  <1> QED  BY <1>1, SameLedger DEF RefundIncoming, bank

(* A refund releases as much escrow as it releases of the outgoing supply. *)
LEMMA RefundOutgoingLedger ==
    ASSUME TypeOK, OneCoinSwaps, LedgerInv, NEW id \in SwapIDs, RefundOutgoing(id)
    PROVE  LedgerInv'
  <1> DEFINE d == swaps[id].denom
             a == swaps[id].amount
  <1>0. swaps[id].status # "NULL"  BY DEF RefundOutgoing, IsRefundable
  <1>1. d \in Denoms /\ a \in Nat /\ supplies[d] \in SupplyRecord  BY <1>0, SettledSwapFields
  <1>2. /\ supplies'[d].outgoing = supplies[d].outgoing - a
        /\ supplies'[d].current = supplies[d].current /\ escrow'[d] = escrow[d] - a
    BY <1>1, OneCoinRefundOutgoing DEF TypeOK, LedgerTypeOK, RefundOutgoing, DecrementOutgoing, SupplyRecord
  <1>3. \A e \in Denoms \ {d} : supplies'[e] = supplies[e] /\ escrow'[e] = escrow[e]
    BY OneCoinRefundOutgoing DEF TypeOK, LedgerTypeOK, RefundOutgoing
  <1>4. \A e \in Denoms : /\ escrow[e] \in Nat
                          /\ supplies[e].current \in Nat /\ supplies[e].outgoing \in Nat
    BY DEF TypeOK, LedgerTypeOK, SupplyRecord
  <1>5. bankSupply' = bankSupply  BY DEF RefundOutgoing
  <1> HIDE DEF d, a
  <1> QED  BY <1>1, <1>2, <1>3, <1>4, <1>5
           DEF LedgerInv, EscrowBacksOutgoing, OutgoingWithinCurrent, CurrentTracksBank

(* A block's update of the time windows changes no supply but the window's. *)
LEMMA BeginBlockSupplies ==
    ASSUME TypeOK, NEW step \in Steps, BeginBlock(step)
    PROVE  \A e \in Denoms :
              /\ supplies'[e].incoming = supplies[e].incoming
              /\ supplies'[e].outgoing = supplies[e].outgoing
              /\ supplies'[e].current = supplies[e].current
              /\ supplies'[e].timeLimitedCurrent \in {0, supplies[e].timeLimitedCurrent}
  <1> SUFFICES ASSUME NEW e \in Denoms
               PROVE  /\ supplies'[e].incoming = supplies[e].incoming
                      /\ supplies'[e].outgoing = supplies[e].outgoing
                      /\ supplies'[e].current = supplies[e].current
                      /\ supplies'[e].timeLimitedCurrent \in {0, supplies[e].timeLimitedCurrent}
    OBVIOUS
  <1> DEFINE elapsed == Elapsed(blockTime')
  <1>1. elapsed \in Int
    BY NumbersAssumption, ElapsedType DEF TypeOK, BlockTypeOK, BeginBlock
  <1>2. supplies[e] \in SupplyRecord  BY DEF TypeOK, LedgerTypeOK
  <1>3. supplies'[e] = supplies[e] \/ supplies'[e] = UpdateWindow(supplies[e], params[e], elapsed)
    BY DEF BeginBlock, UpdateTimeBasedSupplyLimits
  <1> DEFINE updated == UpdateWindow(supplies[e], params[e], elapsed)
  <1> HIDE DEF elapsed
  <1>4. /\ updated.incoming = supplies[e].incoming
        /\ updated.outgoing = supplies[e].outgoing
        /\ updated.current = supplies[e].current
        /\ updated.timeLimitedCurrent \in {0, supplies[e].timeLimitedCurrent}
    BY <1>1, <1>2, WindowFields
  <1>5. supplies'[e] = supplies[e] \/ supplies'[e] = updated
    BY <1>3
  <1> HIDE DEF updated
  <1>6. CASE supplies'[e] = supplies[e]
    BY <1>6
  <1>7. CASE supplies'[e] = updated
    BY <1>4, <1>7
  <1> QED  BY <1>5, <1>6, <1>7

(* So it leaves the ledger alone. *)
LEMMA BeginBlockLedger ==
    ASSUME TypeOK, LedgerInv, NEW step \in Steps, BeginBlock(step)
    PROVE  LedgerInv'
  <1>1. \A e \in Denoms : /\ supplies'[e].outgoing = supplies[e].outgoing
                          /\ supplies'[e].current = supplies[e].current
    BY BeginBlockSupplies
  <1> QED  BY <1>1, SameLedger DEF BeginBlock, bank

(* Every step keeps the ledger. *)
LEMMA NextLedger == TypeOK /\ OneCoinSwaps /\ LedgerInv /\ [Next]_vars => LedgerInv'
  <1> SUFFICES ASSUME TypeOK, OneCoinSwaps, LedgerInv, [Next]_vars PROVE LedgerInv'  OBVIOUS
  <1>1. CASE Create  BY <1>1, CreateIncomingLedger, CreateOutgoingLedger DEF Create
  <1>2. CASE Claim   BY <1>2, ClaimIncomingLedger, ClaimOutgoingLedger DEF Claim
  <1>3. CASE Refund  BY <1>3, RefundIncomingLedger, RefundOutgoingLedger DEF Refund
  <1>4. CASE NextBlock  BY <1>4, BeginBlockLedger DEF NextBlock
  <1>5. CASE Govern  BY <1>5, SameLedger DEF Govern, SetParams, bank
  <1>6. CASE UNCHANGED vars  BY <1>6, SameLedger DEF vars, bank
  <1> QED  BY <1>1, <1>2, <1>3, <1>4, <1>5, <1>6 DEF Next, FixedNext

(* The ledger invariant of the specification.                               *)
LEMMA SpecLedger == Spec => []LedgerInv
  BY InitLedger, NextLedger, TypeCorrect, SpecOneCoin, PTL DEF Spec

(* The module account holds exactly what unsettled outgoing swaps escrowed. *)
THEOREM EscrowBacked == Spec => []EscrowBacksOutgoing
  <1>1. LedgerInv => EscrowBacksOutgoing  BY DEF LedgerInv
  <1> QED  BY <1>1, SpecLedger, PTL

(* However governance changes the params, the outgoing supply never exceeds *)
(* the current supply, as 02_state.md promises of AssetSupply. *)
THEOREM OutgoingCovered == Spec => []OutgoingWithinCurrent
  <1>1. LedgerInv => OutgoingWithinCurrent  BY DEF LedgerInv
  <1> QED  BY <1>1, SpecLedger, PTL

(* The current supply of an asset and the bank's supply of the coin move    *)
(* together: every mint and burn is accounted for exactly once. *)
THEOREM CurrentTracked == Spec => []CurrentTracksBank
  <1>1. LedgerInv => CurrentTracksBank  BY DEF LedgerInv
  <1> QED  BY <1>1, SpecLedger, PTL

-------------------------------------------------------------------------------
(* The indexes: what is queued for expiry is open, what is queued for       *)
(* deletion is completed and not yet overdue.                              *)

\* The blocks in which completed swaps are deleted are still to come.
DeletionsAhead ==
    \A id \in SwapIDs : swaps[id].status = "Completed" => height < DeletionHeight(swaps[id])

IndexInv == IndexesMatchStatus /\ DeletionsAhead

(* An empty store has empty indexes. *)
LEMMA InitIndex == Init => IndexInv
  BY DEF Init, IndexInv, IndexesMatchStatus, DeletionsAhead, NoSwap

(* Storing a new open swap keeps the indexes. *)
LEMMA StoreOpenSwapIndex ==
    ASSUME StoreTypeOK, IndexInv, NEW id \in SwapIDs, NEW swap \in Swap, swaps[id].status = "NULL",
           StoreOpenSwap(id, swap), swap.status = "Open", height' = height
    PROVE  IndexInv'
  <1>1. swaps'[id] = swap /\ \A i \in SwapIDs \ {id} : swaps'[i] = swaps[i]
    BY DEF StoreTypeOK, StoreOpenSwap
  <1>2. byTimestamp' = {<<swaps'[i].expire, i>> : i \in {j \in SwapIDs : swaps'[j].status = "Open"}}
    BY <1>1 DEF IndexInv, IndexesMatchStatus, StoreOpenSwap
  <1>3. longterm' = {<<DeletionHeight(swaps'[i]), i>> : i \in {j \in SwapIDs : swaps'[j].status = "Completed"}}
    BY <1>1 DEF IndexInv, IndexesMatchStatus, StoreOpenSwap
  <1>4. DeletionsAhead'  BY <1>1 DEF IndexInv, DeletionsAhead
  <1> QED  BY <1>2, <1>3, <1>4 DEF IndexInv, IndexesMatchStatus

(* Completing a swap moves it to the deletion index, out of the expiry      *)
(* index if it was open. *)
LEMMA CompleteSwapIndex ==
    ASSUME StoreTypeOK, IndexInv, height \in Nat, NEW id \in SwapIDs,
           swaps[id].status \in {"Open", "Expired"}, CompleteSwap(id),
           IF swaps[id].status = "Open" THEN RemoveFromByTimestamp(id)
                                        ELSE byTimestamp' = byTimestamp,
           height' = height
    PROVE  IndexInv'
  <1>1. swaps[id] \in Swap  BY SwapFields
  <1>2. swaps'[id] = Completed(id) /\ \A i \in SwapIDs \ {id} : swaps'[i] = swaps[i]
    BY DEF StoreTypeOK, CompleteSwap
  <1>3. Completed(id).status = "Completed" /\ Completed(id).closedBlock = height
    BY <1>1 DEF Completed, Swap
  <1>4. byTimestamp' = {<<swaps'[i].expire, i>> : i \in {j \in SwapIDs : swaps'[j].status = "Open"}}
    <2> DEFINE O == {j \in SwapIDs : swaps[j].status = "Open"}
               P == {j \in SwapIDs : swaps'[j].status = "Open"}
    <2>1. P = O \ {id} /\ \A i \in P : swaps'[i] = swaps[i]  BY <1>2, <1>3
    <2>2. byTimestamp = {<<swaps[i].expire, i>> : i \in O}  BY DEF IndexInv, IndexesMatchStatus
    <2>3. byTimestamp' = {<<swaps[i].expire, i>> : i \in O \ {id}}
      <3> HIDE DEF P
      <3>1. CASE swaps[id].status = "Open"  BY <2>2, <3>1 DEF RemoveFromByTimestamp
      <3>2. CASE swaps[id].status # "Open"  BY <2>2, <3>2
      <3> QED  BY <3>1, <3>2
    <2> HIDE DEF O, P
    <2>4. byTimestamp' = {<<swaps'[i].expire, i>> : i \in P}  BY <2>1, <2>3
    <2> QED  BY <2>4 DEF P
  <1>5. longterm' = {<<DeletionHeight(swaps'[i]), i>> : i \in {j \in SwapIDs : swaps'[j].status = "Completed"}}
    BY <1>2, <1>3 DEF IndexInv, IndexesMatchStatus, CompleteSwap
  <1>6. DeletionsAhead'
    BY <1>2, <1>3, NumbersAssumption DEF IndexInv, DeletionsAhead, DeletionHeight
  <1> QED  BY <1>4, <1>5, <1>6 DEF IndexInv, IndexesMatchStatus

(* A new incoming swap is queued for expiry.                                *)
LEMMA CreateIncomingIndex ==
    ASSUME TypeOK, IndexInv, NEW id \in SwapIDs, NEW recipient \in Users \cup Maccs, NEW d \in Denoms,
           NEW amount \in Amounts, NEW timestamp \in Timestamps, NEW span \in Spans,
           CreateIncoming(id, recipient, d, amount, timestamp, span)
    PROVE  IndexInv'
  <1> DEFINE swap == NewAtomicSwap("Incoming", d, amount, timestamp, ExpireTime(span), recipient)
  <1>1. recipient \in Users /\ swaps[id].status = "NULL"  BY DEF CreateIncoming, AcceptSwap, CanReceive, IsNewSwap, Stored
  <1>2. ExpireTime(span) \in Int  BY ExpireTimeType DEF TypeOK, BlockTypeOK
  <1>3. swap \in Swap  BY <1>1, <1>2, NewSwapType
  <1>4. swap.status = "Open"  BY DEF NewAtomicSwap
  <1>5. StoreOpenSwap(id, swap) /\ height' = height  BY DEF CreateIncoming, block
  <1> HIDE DEF swap
  <1> QED  BY <1>1, <1>3, <1>4, <1>5, StoreOpenSwapIndex DEF TypeOK

(* So is a new outgoing one.                                                *)
LEMMA CreateOutgoingIndex ==
    ASSUME TypeOK, IndexInv, NEW id \in SwapIDs, NEW recipient \in Users \cup Maccs, NEW d \in Denoms,
           NEW amount \in Amounts, NEW timestamp \in Timestamps, NEW span \in Spans,
           CreateOutgoing(id, recipient, d, amount, timestamp, span)
    PROVE  IndexInv'
  <1> DEFINE swap == NewAtomicSwap("Outgoing", d, amount, timestamp, ExpireTime(span), recipient)
  <1>1. recipient \in Users /\ swaps[id].status = "NULL"  BY DEF CreateOutgoing, AcceptSwap, CanReceive, IsNewSwap, Stored
  <1>2. ExpireTime(span) \in Int  BY ExpireTimeType DEF TypeOK, BlockTypeOK
  <1>3. swap \in Swap  BY <1>1, <1>2, NewSwapType
  <1>4. swap.status = "Open"  BY DEF NewAtomicSwap
  <1>5. StoreOpenSwap(id, swap) /\ height' = height  BY DEF CreateOutgoing, block
  <1> HIDE DEF swap
  <1> QED  BY <1>1, <1>3, <1>4, <1>5, StoreOpenSwapIndex DEF TypeOK

(* Claims complete open swaps, refunds expired ones. *)
LEMMA SettleIndex ==
    ASSUME TypeOK, IndexInv, NEW id \in SwapIDs,
           \/ \E number \in Numbers : ClaimIncoming(id, number) \/ ClaimOutgoing(id, number)
           \/ RefundIncoming(id) \/ RefundOutgoing(id)
    PROVE  IndexInv'
  <1>1. CASE \E number \in Numbers : ClaimIncoming(id, number) \/ ClaimOutgoing(id, number)
    <2>1. /\ swaps[id].status = "Open" /\ CompleteSwap(id) /\ RemoveFromByTimestamp(id)
          /\ height' = height
      BY <1>1 DEF ClaimIncoming, ClaimOutgoing, IsClaimable, block
    <2> QED  BY <2>1, CompleteSwapIndex DEF TypeOK, BlockTypeOK
  <1>2. CASE RefundIncoming(id) \/ RefundOutgoing(id)
    <2>1. /\ swaps[id].status = "Expired" /\ CompleteSwap(id) /\ byTimestamp' = byTimestamp
          /\ height' = height
      BY <1>2 DEF RefundIncoming, RefundOutgoing, IsRefundable, block
    <2> QED  BY <2>1, CompleteSwapIndex DEF TypeOK, BlockTypeOK
  <1> QED  BY <1>1, <1>2

(* With indexes that match, BeginBlocker expires exactly the open swaps at  *)
(* or past their expire time and deletes exactly the completed swaps whose  *)
(* storage has run out. *)
LEMMA DueSets ==
    ASSUME StoreTypeOK, IndexInv, NEW now \in Nat, NEW h \in Nat
    PROVE  /\ DueToExpire(now) = {id \in SwapIDs : swaps[id].status = "Open" /\ swaps[id].expire <= now}
           /\ DueToDelete(h) = {id \in SwapIDs : /\ swaps[id].status = "Completed"
                                                 /\ DeletionHeight(swaps[id]) <= h}
  <1>1. \A id \in SwapIDs : (\E e \in byTimestamp : e[2] = id /\ e[1] <= now)
                               <=> swaps[id].status = "Open" /\ swaps[id].expire <= now
    <2>1. byTimestamp = {<<swaps[i].expire, i>> : i \in {j \in SwapIDs : swaps[j].status = "Open"}}
      BY DEF IndexInv, IndexesMatchStatus
    <2>2. ASSUME NEW id \in SwapIDs, NEW e \in byTimestamp, e[2] = id
          PROVE  swaps[id].status = "Open" /\ e[1] = swaps[id].expire
      BY <2>1, <2>2
    <2>3. ASSUME NEW id \in SwapIDs, swaps[id].status = "Open"
          PROVE  \E e \in byTimestamp : e[2] = id /\ e[1] = swaps[id].expire
      <3>1. <<swaps[id].expire, id>> \in byTimestamp  BY <2>1, <2>3
      <3> QED  BY <3>1
    <2> QED  BY <2>2, <2>3
  <1>2. \A id \in SwapIDs : (\E e \in longterm : e[2] = id /\ e[1] <= h)
                               <=> swaps[id].status = "Completed" /\ DeletionHeight(swaps[id]) <= h
    <2>1. longterm = {<<DeletionHeight(swaps[i]), i>> : i \in {j \in SwapIDs : swaps[j].status = "Completed"}}
      BY DEF IndexInv, IndexesMatchStatus
    <2>2. ASSUME NEW id \in SwapIDs, NEW e \in longterm, e[2] = id
          PROVE  swaps[id].status = "Completed" /\ e[1] = DeletionHeight(swaps[id])
      BY <2>1, <2>2
    <2>3. ASSUME NEW id \in SwapIDs, swaps[id].status = "Completed"
          PROVE  \E e \in longterm : e[2] = id /\ e[1] = DeletionHeight(swaps[id])
      <3>1. <<DeletionHeight(swaps[id]), id>> \in longterm  BY <2>1, <2>3
      <3> QED  BY <3>1
    <2> QED  BY <2>2, <2>3
  <1> QED  BY <1>1, <1>2 DEF DueToExpire, DueToDelete, Stored

(* What a new block does to one swap. *)
LEMMA BeginBlockSwap ==
    ASSUME TypeOK, IndexInv, NEW step \in Steps, BeginBlock(step), NEW id \in SwapIDs
    PROVE  /\ swaps[id].status = "Open" /\ swaps[id].expire <= blockTime' =>
                 swaps'[id].status = "Expired"
           /\ swaps[id].status = "Open" /\ ~ (swaps[id].expire <= blockTime') => swaps'[id] = swaps[id]
           /\ swaps[id].status = "Completed" /\ DeletionHeight(swaps[id]) <= height' =>
                 swaps'[id].status = "NULL"
           /\ swaps[id].status = "Completed" /\ ~ (DeletionHeight(swaps[id]) <= height') =>
                 swaps'[id] = swaps[id]
           /\ swaps[id].status \in {"NULL", "Expired"} => swaps'[id] = swaps[id]
  <1>1. blockTime' \in Nat /\ height' \in Nat
    BY NumbersAssumption DEF TypeOK, BlockTypeOK, BeginBlock
  <1>2. /\ DueToExpire(blockTime') =
              {i \in SwapIDs : swaps[i].status = "Open" /\ swaps[i].expire <= blockTime'}
        /\ DueToDelete(height') =
              {i \in SwapIDs : swaps[i].status = "Completed" /\ DeletionHeight(swaps[i]) <= height'}
    BY <1>1, DueSets DEF TypeOK
  <1>3. swaps'[id] = IF id \in DueToDelete(height') THEN NoSwap
                     ELSE IF id \in DueToExpire(blockTime') THEN [swaps[id] EXCEPT !.status = "Expired"]
                     ELSE swaps[id]
    BY DEF BeginBlock, ExpireAndDelete
  <1>4. NoSwap.status = "NULL"  BY DEF NoSwap
  <1>5. swaps[id].status = "Open" => [swaps[id] EXCEPT !.status = "Expired"].status = "Expired"
    BY SwapFields DEF TypeOK, Swap
  <1> QED  BY <1>2, <1>3, <1>4, <1>5

(* So a new block keeps the indexes. *)
LEMMA BeginBlockIndex ==
    ASSUME TypeOK, IndexInv, NEW step \in Steps, BeginBlock(step)
    PROVE  IndexInv'
  <1> DEFINE O == {j \in SwapIDs : swaps[j].status = "Open"}
             P == {j \in SwapIDs : swaps'[j].status = "Open"}
             C == {j \in SwapIDs : swaps[j].status = "Completed"}
             D == {j \in SwapIDs : swaps'[j].status = "Completed"}
             E == {j \in SwapIDs : swaps[j].status = "Open" /\ swaps[j].expire <= blockTime'}
             R == {j \in SwapIDs : swaps[j].status = "Completed" /\ DeletionHeight(swaps[j]) <= height'}
  <1>1. blockTime' \in Nat /\ height' \in Nat /\ height' = height + 1 /\ height \in Nat
    BY NumbersAssumption DEF TypeOK, BlockTypeOK, BeginBlock
  <1>2. DueToExpire(blockTime') = E /\ DueToDelete(height') = R
    BY <1>1, DueSets DEF TypeOK
  <1>3. \A id \in SwapIDs : swaps[id].status \in {"NULL", "Open", "Completed", "Expired"}
    BY DEF TypeOK, StoreTypeOK, Swap, NoSwap
  <1>4. /\ P = O \ E /\ \A i \in P : swaps'[i] = swaps[i]
        /\ D = C \ R /\ \A i \in D : swaps'[i] = swaps[i]
    BY <1>3, BeginBlockSwap
  <1>5. byTimestamp' = {<<swaps'[i].expire, i>> : i \in P}
    <2>1. byTimestamp = {<<swaps[i].expire, i>> : i \in O}  BY DEF IndexInv, IndexesMatchStatus
    <2>2. byTimestamp' = byTimestamp \ {<<swaps[i].expire, i>> : i \in E}
      BY <1>2 DEF BeginBlock, ExpireAndDelete
    <2> HIDE DEF O, P, E
    <2> QED  BY <1>4, <2>1, <2>2
  <1>6. longterm' = {<<DeletionHeight(swaps'[i]), i>> : i \in D}
    <2>1. longterm = {<<DeletionHeight(swaps[i]), i>> : i \in C}  BY DEF IndexInv, IndexesMatchStatus
    <2>2. longterm' = longterm \ {<<DeletionHeight(swaps[i]), i>> : i \in R}
      BY <1>2 DEF BeginBlock, ExpireAndDelete
    <2> HIDE DEF C, D, R
    <2> QED  BY <1>4, <2>1, <2>2
  <1>7. DeletionsAhead'
    <2> SUFFICES ASSUME NEW id \in SwapIDs, swaps'[id].status = "Completed"
                 PROVE  height' < DeletionHeight(swaps'[id])
      BY DEF DeletionsAhead
    <2>1. id \in C /\ id \notin R /\ swaps'[id] = swaps[id]  BY <1>4
    <2>2. swaps[id].closedBlock \in Nat  BY <2>1, SwapFields DEF TypeOK
    <2>3. DeletionHeight(swaps[id]) \in Nat  BY <2>2, NumbersAssumption DEF DeletionHeight
    <2> QED  BY <1>1, <2>1, <2>2, <2>3
  <1> QED  BY <1>5, <1>6, <1>7 DEF IndexInv, IndexesMatchStatus

(* A step that touches neither the store nor the height. *)
LEMMA SameIndex ==
    ASSUME IndexInv, UNCHANGED store, height' = height
    PROVE  IndexInv'
  BY DEF IndexInv, IndexesMatchStatus, DeletionsAhead, store, DeletionHeight

(* Every step keeps the indexes. *)
LEMMA NextIndex == TypeOK /\ IndexInv /\ [Next]_vars => IndexInv'
  <1> SUFFICES ASSUME TypeOK, IndexInv, [Next]_vars PROVE IndexInv'  OBVIOUS
  <1>1. CASE Create  BY <1>1, CreateIncomingIndex, CreateOutgoingIndex DEF Create
  <1>2. CASE Claim   BY <1>2, SettleIndex DEF Claim
  <1>3. CASE Refund  BY <1>3, SettleIndex DEF Refund
  <1>4. CASE NextBlock  BY <1>4, BeginBlockIndex DEF NextBlock
  <1>5. CASE Govern  BY <1>5, SameIndex DEF Govern, SetParams
  <1>6. CASE UNCHANGED vars  BY <1>6, SameIndex DEF vars, block
  <1> QED  BY <1>1, <1>2, <1>3, <1>4, <1>5, <1>6 DEF Next, FixedNext

(* The indexes of every reachable state. *)
LEMMA SpecIndex == Spec => []IndexInv
  BY InitIndex, NextIndex, TypeCorrect, PTL DEF Spec

(* No index entry is ever stale, so UpdateExpiredAtomicSwaps, which         *)
(* overwrites the status of whatever its index names, never reopens a swap  *)
(* that was paid. *)
THEOREM IndexesMatch == Spec => []IndexesMatchStatus
  <1>1. IndexInv => IndexesMatchStatus  BY DEF IndexInv
  <1> QED  BY <1>1, SpecIndex, PTL

\* A chain that was never imported has closed its swaps at heights it has seen.
ClosedInPast ==
    \A id \in SwapIDs : swaps[id].status = "Completed" => swaps[id].closedBlock <= height

(* A step closes swaps at the height it runs at, and no height falls. *)
LEMMA NextClosed ==
    ASSUME TypeOK, IndexInv, ClosedInPast, [Next]_vars
    PROVE  ClosedInPast'
  <1> SUFFICES ASSUME NEW i \in SwapIDs, swaps'[i].status = "Completed"
               PROVE  swaps'[i].closedBlock <= height'
    BY DEF ClosedInPast
  <1>1. CASE Create
    <2>1. PICK id \in SwapIDs : \E swap : StoreOpenSwap(id, swap) /\ swap.status = "Open" /\ height' = height
      BY <1>1 DEF Create, CreateIncoming, CreateOutgoing, NewAtomicSwap, block
    <2>2. swaps'[i] = swaps[i]  BY <2>1 DEF StoreOpenSwap, TypeOK, StoreTypeOK
    <2> QED  BY <2>1, <2>2 DEF ClosedInPast
  <1>2. CASE Claim \/ Refund
    <2>1. PICK id \in SwapIDs : CompleteSwap(id) /\ height' = height /\ swaps[id].status # "NULL"
      BY <1>2 DEF Claim, Refund, ClaimIncoming, ClaimOutgoing, RefundIncoming, RefundOutgoing,
                  IsClaimable, IsRefundable, block
    <2>2. CASE i = id
      <3>1. swaps'[i] = Completed(id)  BY <2>1, <2>2 DEF CompleteSwap, TypeOK, StoreTypeOK
      <3>2. Completed(id).closedBlock = height  BY <2>1, SwapFields DEF Completed, Swap, TypeOK
      <3> QED  BY <2>1, <3>1, <3>2 DEF TypeOK, BlockTypeOK
    <2>3. CASE i # id
      <3>1. swaps'[i] = swaps[i]  BY <2>1, <2>3 DEF CompleteSwap, TypeOK, StoreTypeOK
      <3> QED  BY <2>1, <3>1 DEF ClosedInPast
    <2> QED  BY <2>2, <2>3
  <1>3. CASE NextBlock
    <2>1. PICK step \in Steps : BeginBlock(step)  BY <1>3 DEF NextBlock
    <2>2. swaps[i].status \in {"NULL", "Open", "Completed", "Expired"}
      BY DEF TypeOK, StoreTypeOK, Swap, NoSwap
    <2>3. swaps'[i] = swaps[i]  BY <2>1, <2>2, BeginBlockSwap
    <2>4. swaps[i].closedBlock \in Nat  BY <2>3, SwapFields DEF TypeOK
    <2>5. height \in Nat /\ height' = height + 1  BY <2>1 DEF TypeOK, BlockTypeOK, BeginBlock
    <2> QED  BY <2>3, <2>4, <2>5 DEF ClosedInPast
  <1>4. CASE Govern \/ UNCHANGED vars
    <2>1. swaps' = swaps /\ height' = height  BY <1>4 DEF Govern, SetParams, vars, store, block
    <2> QED  BY <2>1 DEF ClosedInPast
  <1> QED  BY <1>1, <1>2, <1>3, <1>4 DEF Next, FixedNext

(* A completed swap is gone once its storage duration is over. *)
THEOREM CompletedDeleted == Spec => []CompletedSwapsNotOverdue
  <1>1. Init => ClosedInPast  BY DEF Init, ClosedInPast, NoSwap
  <1>2. TypeOK /\ IndexInv /\ ClosedInPast /\ [Next]_vars => ClosedInPast'  BY NextClosed
  <1>3. IndexInv /\ ClosedInPast => CompletedSwapsNotOverdue
    BY DEF IndexInv, DeletionsAhead, ClosedInPast, CompletedSwapsNotOverdue
  <1> QED  BY <1>1, <1>2, <1>3, TypeCorrect, SpecIndex, PTL DEF Spec

-------------------------------------------------------------------------------
(* The limits, as long as the params stay as they are.  InitGenesis checks  *)
(* a supply against the limit but not its window against the window's, so   *)
(* the theorem assumes that of the genesis state.                          *)

GenesisWithinWindow ==
    \A d \in Denoms : GenesisParams[d].timeLimited =>
        GenesisSupplies[d].timeLimitedCurrent <= GenesisParams[d].timeBasedLimit

LimitInv ==
    \A d \in Denoms : params[d].listed =>
        /\ supplies[d].current + supplies[d].incoming <= params[d].limit
        /\ params[d].timeLimited =>
              supplies[d].timeLimitedCurrent + supplies[d].incoming <= params[d].timeBasedLimit

(* The types of what the limits compare.                                    *)
LEMMA ParamFields ==
    ASSUME TypeOK, NEW d \in Denoms
    PROVE  /\ params[d].listed \in BOOLEAN /\ params[d].timeLimited \in BOOLEAN
           /\ params[d].limit \in Nat /\ params[d].timeBasedLimit \in Nat
           /\ supplies[d].current \in Nat /\ supplies[d].incoming \in Nat
           /\ supplies[d].timeLimitedCurrent \in Nat
  BY ParamsAssumption DEF TypeOK, LedgerTypeOK, AssetParam, SupplyRecord

(* InitGenesis checks the limit, GenesisWithinWindow the window.            *)
LEMMA InitLimit ==
    ASSUME GenesisWithinWindow
    PROVE  Init => LimitInv
  <1> SUFFICES ASSUME Init, NEW d \in Denoms, params[d].listed
               PROVE  /\ supplies[d].current + supplies[d].incoming <= params[d].limit
                      /\ params[d].timeLimited =>
                            supplies[d].timeLimitedCurrent + supplies[d].incoming
                               <= params[d].timeBasedLimit
    BY DEF LimitInv
  <1>1. /\ params[d].limit \in Nat /\ supplies[d].current \in Nat /\ supplies[d].timeLimitedCurrent \in Nat
        /\ params = GenesisParams /\ supplies = GenesisSupplies
    BY InitTypeOK, ParamFields DEF Init
  <1>2. supplies[d].incoming = 0  BY <1>1, GenesisAssumption
  <1>3. supplies[d].current <= params[d].limit
    <2>1. NoSupply.current = 0  BY DEF NoSupply, CreateNewAssetSupply
    <2> QED  BY <1>1, <2>1, GenesisAssumption
  <1> QED  BY <1>1, <1>2, <1>3 DEF GenesisWithinWindow

(* A step that changes no param and raises no sum keeps the limits. *)
LEMMA LowerLimit ==
    ASSUME TypeOK, TypeOK', LimitInv, params' = params,
           \A e \in Denoms : /\ supplies'[e].current <= supplies[e].current
                             /\ supplies'[e].incoming <= supplies[e].incoming
                             /\ supplies'[e].timeLimitedCurrent <= supplies[e].timeLimitedCurrent
    PROVE  LimitInv'
  <1> SUFFICES ASSUME NEW e \in Denoms, params[e].listed
               PROVE  /\ supplies'[e].current + supplies'[e].incoming <= params[e].limit
                      /\ params[e].timeLimited =>
                            supplies'[e].timeLimitedCurrent + supplies'[e].incoming
                               <= params[e].timeBasedLimit
    BY DEF LimitInv
  <1>1. /\ supplies'[e].current \in Nat /\ supplies'[e].incoming \in Nat
        /\ supplies'[e].timeLimitedCurrent \in Nat
    BY DEF TypeOK, LedgerTypeOK, SupplyRecord
  <1> QED  BY <1>1, ParamFields DEF LimitInv

(* The guard of IncrementIncomingAssetSupply counts what is reserved. *)
LEMMA CreateIncomingLimit ==
    ASSUME TypeOK, LimitInv, NEW id \in SwapIDs, NEW recipient, NEW d \in Denoms,
           NEW amount \in Amounts, NEW timestamp, NEW span,
           CreateIncoming(id, recipient, d, amount, timestamp, span)
    PROVE  LimitInv'
  <1>1. supplies[d] \in SupplyRecord /\ amount \in Nat
    BY NumbersAssumption DEF TypeOK, LedgerTypeOK
  <1>2. /\ supplies'[d].current = supplies[d].current
        /\ supplies'[d].incoming = supplies[d].incoming + amount
        /\ supplies'[d].timeLimitedCurrent = supplies[d].timeLimitedCurrent
        /\ params' = params
    BY <1>1 DEF TypeOK, LedgerTypeOK, SupplyRecord, CreateIncoming, IncrementIncoming
  <1>3. \A e \in Denoms \ {d} : supplies'[e] = supplies[e]
    BY DEF TypeOK, LedgerTypeOK, CreateIncoming
  <1>4. CanIncrementIncoming(supplies[d], params[d], amount)  BY DEF CreateIncoming
  <1>5. params[d].limit \in Nat /\ params[d].timeBasedLimit \in Nat /\ params[d].timeLimited \in BOOLEAN
    BY ParamFields
  <1> QED  BY <1>1, <1>2, <1>3, <1>4, <1>5 DEF LimitInv, CanIncrementIncoming, SupplyRecord

(* A claim turns what was reserved into what is minted. *)
LEMMA ClaimIncomingLimit ==
    ASSUME TypeOK, LimitInv, NEW id \in SwapIDs, NEW number, ClaimIncoming(id, number)
    PROVE  LimitInv'
  <1> DEFINE d == swaps[id].denom
             a == swaps[id].amount
             s == DecrementIncoming(supplies[d], a)
             t == IncrementCurrent(s, params[d], a)
  <1>0. swaps[id].status # "NULL"  BY DEF ClaimIncoming, IsClaimable
  <1>1. d \in Denoms /\ a \in Nat /\ supplies[d] \in SupplyRecord  BY <1>0, SettledSwapFields
  <1>2. /\ s.incoming = supplies[d].incoming - a /\ s.current = supplies[d].current
        /\ s.timeLimitedCurrent = supplies[d].timeLimitedCurrent /\ s \in SupplyRecord
    BY <1>1, IncomingTypes DEF SupplyRecord, DecrementIncoming, ClaimIncoming, CanMint
  <1>3. /\ t.incoming = s.incoming /\ t.current = s.current + a
        /\ t.timeLimitedCurrent = IF params[d].timeLimited THEN s.timeLimitedCurrent + a
                                                           ELSE s.timeLimitedCurrent
    <2> HIDE DEF s, d, a
    <2> QED  BY <1>1, <1>2 DEF IncrementCurrent, SupplyRecord
  <1>4. supplies'[d] = t /\ params' = params
    BY <1>1 DEF TypeOK, LedgerTypeOK, ClaimIncoming
  <1>5. \A e \in Denoms \ {d} : supplies'[e] = supplies[e]
    BY DEF TypeOK, LedgerTypeOK, ClaimIncoming
  <1>6. /\ params[d].limit \in Nat /\ params[d].timeBasedLimit \in Nat /\ params[d].timeLimited \in BOOLEAN
        /\ supplies[d].current \in Nat /\ supplies[d].incoming \in Nat
        /\ supplies[d].timeLimitedCurrent \in Nat
    BY <1>1, ParamFields
  <1> HIDE DEF s, t, d, a
  <1> QED  BY <1>1, <1>2, <1>3, <1>4, <1>5, <1>6 DEF LimitInv

(* Neither the creation nor the refund of an outgoing swap touches them.    *)
LEMMA OutgoingLimit ==
    ASSUME TypeOK, TypeOK', LimitInv, NEW id \in SwapIDs,
           \/ \E recipient \in Users \cup Maccs, d \in Denoms, amount \in Amounts,
                 timestamp \in Timestamps, span \in Spans :
                    CreateOutgoing(id, recipient, d, amount, timestamp, span)
           \/ RefundOutgoing(id)
    PROVE  LimitInv'
  <1>1. ASSUME NEW e \in Denoms
        PROVE  /\ supplies'[e].current = supplies[e].current
               /\ supplies'[e].incoming = supplies[e].incoming
               /\ supplies'[e].timeLimitedCurrent = supplies[e].timeLimitedCurrent
    <2>1. CASE RefundOutgoing(id)
      BY <2>1 DEF TypeOK, LedgerTypeOK, SupplyRecord, RefundOutgoing, DecrementOutgoing
    <2>2. CASE \E recipient \in Users \cup Maccs, d \in Denoms, amount \in Amounts,
                 timestamp \in Timestamps, span \in Spans :
                    CreateOutgoing(id, recipient, d, amount, timestamp, span)
      BY <2>2 DEF TypeOK, LedgerTypeOK, SupplyRecord, CreateOutgoing, IncrementOutgoing
    <2> QED  BY <2>1, <2>2
  <1>2. params' = params
    <2>1. CASE RefundOutgoing(id)  BY <2>1 DEF RefundOutgoing
    <2>2. CASE \E recipient \in Users \cup Maccs, d \in Denoms, amount \in Amounts,
                 timestamp \in Timestamps, span \in Spans :
                    CreateOutgoing(id, recipient, d, amount, timestamp, span)
      BY <2>2 DEF CreateOutgoing
    <2> QED  BY <2>1, <2>2
  <1>3. \A e \in Denoms : /\ supplies[e].current \in Nat /\ supplies[e].incoming \in Nat
                          /\ supplies[e].timeLimitedCurrent \in Nat
    BY DEF TypeOK, LedgerTypeOK, SupplyRecord
  <1> QED  BY <1>1, <1>2, <1>3, LowerLimit

(* A burn only lowers the current supply. *)
LEMMA ClaimOutgoingLimit ==
    ASSUME TypeOK, TypeOK', LimitInv, NEW id \in SwapIDs, NEW number, ClaimOutgoing(id, number)
    PROVE  LimitInv'
  <1> DEFINE d == swaps[id].denom
             a == swaps[id].amount
             s == DecrementCurrent(DecrementOutgoing(supplies[d], a), a)
  <1>0. swaps[id].status # "NULL"  BY DEF ClaimOutgoing, IsClaimable
  <1>1. d \in Denoms /\ a \in Nat /\ supplies[d] \in SupplyRecord  BY <1>0, SettledSwapFields
  <1>2. /\ s.current = supplies[d].current - a /\ s.incoming = supplies[d].incoming
        /\ s.timeLimitedCurrent = supplies[d].timeLimitedCurrent
    <2> HIDE DEF d, a
    <2> QED  BY <1>1 DEF DecrementCurrent, DecrementOutgoing, SupplyRecord
  <1>3. supplies'[d] = s /\ params' = params
    BY <1>1 DEF TypeOK, LedgerTypeOK, ClaimOutgoing
  <1>4. \A e \in Denoms \ {d} : supplies'[e] = supplies[e]
    BY DEF TypeOK, LedgerTypeOK, ClaimOutgoing
  <1>5. \A e \in Denoms : /\ supplies[e].current \in Nat /\ supplies[e].incoming \in Nat
                          /\ supplies[e].timeLimitedCurrent \in Nat
    BY DEF TypeOK, LedgerTypeOK, SupplyRecord
  <1> HIDE DEF s, d, a
  <1>6. \A e \in Denoms : /\ supplies'[e].current <= supplies[e].current
                          /\ supplies'[e].incoming <= supplies[e].incoming
                          /\ supplies'[e].timeLimitedCurrent <= supplies[e].timeLimitedCurrent
    BY <1>1, <1>2, <1>3, <1>4, <1>5
  <1> QED  BY <1>3, <1>6, LowerLimit

(* A refund gives back what was reserved. *)
LEMMA RefundIncomingLimit ==
    ASSUME TypeOK, TypeOK', LimitInv, NEW id \in SwapIDs, RefundIncoming(id)
    PROVE  LimitInv'
  <1> DEFINE d == swaps[id].denom
             a == swaps[id].amount
             s == DecrementIncoming(supplies[d], a)
  <1>0. swaps[id].status # "NULL"  BY DEF RefundIncoming, IsRefundable
  <1>1. d \in Denoms /\ a \in Nat /\ supplies[d] \in SupplyRecord  BY <1>0, SettledSwapFields
  <1>2. /\ s.current = supplies[d].current /\ s.incoming = supplies[d].incoming - a
        /\ s.timeLimitedCurrent = supplies[d].timeLimitedCurrent
    <2> HIDE DEF d, a
    <2> QED  BY <1>1 DEF DecrementIncoming, SupplyRecord
  <1>3. supplies'[d] = s /\ params' = params
    BY <1>1 DEF TypeOK, LedgerTypeOK, RefundIncoming
  <1>4. \A e \in Denoms \ {d} : supplies'[e] = supplies[e]
    BY DEF TypeOK, LedgerTypeOK, RefundIncoming
  <1>5. \A e \in Denoms : /\ supplies[e].current \in Nat /\ supplies[e].incoming \in Nat
                          /\ supplies[e].timeLimitedCurrent \in Nat
    BY DEF TypeOK, LedgerTypeOK, SupplyRecord
  <1> HIDE DEF s, d, a
  <1>6. \A e \in Denoms : /\ supplies'[e].current <= supplies[e].current
                          /\ supplies'[e].incoming <= supplies[e].incoming
                          /\ supplies'[e].timeLimitedCurrent <= supplies[e].timeLimitedCurrent
    BY <1>1, <1>2, <1>3, <1>4, <1>5
  <1> QED  BY <1>3, <1>6, LowerLimit

(* A new block at most starts a new window. *)
LEMMA BeginBlockLimit ==
    ASSUME TypeOK, TypeOK', LimitInv, NEW step \in Steps, BeginBlock(step)
    PROVE  LimitInv'
  <1>1. \A e \in Denoms : /\ supplies[e].current \in Nat /\ supplies[e].incoming \in Nat
                          /\ supplies[e].timeLimitedCurrent \in Nat
    BY DEF TypeOK, LedgerTypeOK, SupplyRecord
  <1>2. \A e \in Denoms : /\ supplies'[e].current <= supplies[e].current
                          /\ supplies'[e].incoming <= supplies[e].incoming
                          /\ supplies'[e].timeLimitedCurrent <= supplies[e].timeLimitedCurrent
    BY <1>1, BeginBlockSupplies
  <1>3. params' = params  BY DEF BeginBlock
  <1> QED  BY <1>2, <1>3, LowerLimit

(* Every step of a chain whose params stay as they are keeps the limits. *)
LEMMA FixedNextLimit == TypeOK /\ TypeOK' /\ LimitInv /\ [FixedNext]_vars => LimitInv'
  <1> SUFFICES ASSUME TypeOK, TypeOK', LimitInv, [FixedNext]_vars PROVE LimitInv'  OBVIOUS
  <1>1. CASE Create  BY <1>1, CreateIncomingLimit, OutgoingLimit DEF Create
  <1>2. CASE Claim   BY <1>2, ClaimIncomingLimit, ClaimOutgoingLimit DEF Claim
  <1>3. CASE Refund  BY <1>3, RefundIncomingLimit, OutgoingLimit DEF Refund
  <1>4. CASE NextBlock  BY <1>4, BeginBlockLimit DEF NextBlock
  <1>5. CASE UNCHANGED vars  BY <1>5 DEF vars, LimitInv
  <1> QED  BY <1>1, <1>2, <1>3, <1>4, <1>5 DEF FixedNext

(* Types of a chain whose params stay as they are.                          *)
LEMMA FixedTypeCorrect == FixedSpec => []TypeOK
  <1>1. [FixedNext]_vars => [Next]_vars  BY DEF Next
  <1> QED  BY <1>1, InitTypeOK, NextTypeOK, PTL DEF FixedSpec

(* While governance leaves the params alone, an asset's current and         *)
(* reserved supply stay within its limit, and what is minted or reserved    *)
(* within a time window stays within the window's limit. *)
THEOREM LimitsHold ==
    ASSUME GenesisWithinWindow
    PROVE  FixedSpec => []WithinLimits
  <1>1. Init => LimitInv  BY InitLimit
  <1>2. LimitInv => WithinLimits  BY DEF LimitInv, WithinLimits
  <1> QED  BY <1>1, <1>2, FixedNextLimit, FixedTypeCorrect, PTL DEF FixedSpec

-------------------------------------------------------------------------------
(* The life of a swap, step by step.                                       *)

LifecycleStep(id) ==
    \/ swaps[id].status = "NULL" /\ swaps'[id].status = "Open"
    \/ /\ <<swaps[id].status, swaps'[id].status>> \in
             {<<"Open", "Completed">>, <<"Open", "Expired">>, <<"Expired", "Completed">>}
       /\ Terms(swaps'[id]) = Terms(swaps[id])
    \/ /\ swaps[id].status = "Completed" /\ swaps'[id].status = "NULL"
       /\ height' = DeletionHeight(swaps[id])

(* Only the status and the closing block of a swap that settles change. *)
LEMMA CompleteSwapLifecycle ==
    ASSUME TypeOK, NEW id \in SwapIDs, swaps[id].status \in {"Open", "Expired"}, CompleteSwap(id)
    PROVE  LifecycleStep(id) /\ \A i \in SwapIDs \ {id} : swaps'[i] = swaps[i]
  <1>1. swaps[id] \in Swap  BY SwapFields DEF TypeOK
  <1>2. swaps'[id] = Completed(id) /\ \A i \in SwapIDs \ {id} : swaps'[i] = swaps[i]
    BY DEF TypeOK, StoreTypeOK, CompleteSwap
  <1>3. Completed(id).status = "Completed" /\ Terms(Completed(id)) = Terms(swaps[id])
    BY <1>1 DEF Completed, Swap, Terms
  <1> QED  BY <1>2, <1>3 DEF LifecycleStep

(* A claim or a refund as one step, and what it does to the store. *)
Settles(id, status) == swaps[id].status = status /\ CompleteSwap(id)

(* A settled swap keeps its terms, and no other swap changes.               *)
LEMMA SettledSwap ==
    ASSUME TypeOK, NEW id \in SwapIDs, NEW status \in {"Open", "Expired"}, Settles(id, status)
    PROVE  /\ swaps'[id].status = "Completed" /\ Terms(swaps'[id]) = Terms(swaps[id])
           /\ \A i \in SwapIDs \ {id} : swaps'[i] = swaps[i]
  <1>1. swaps[id] \in Swap  BY SwapFields DEF Settles, TypeOK
  <1>2. swaps'[id] = Completed(id) /\ \A i \in SwapIDs \ {id} : swaps'[i] = swaps[i]
    BY DEF Settles, TypeOK, StoreTypeOK, CompleteSwap
  <1> QED  BY <1>1, <1>2 DEF Completed, Swap, Terms

(* A new swap takes an ID that is free. *)
LEMMA CreateLifecycle ==
    ASSUME TypeOK, NEW id \in SwapIDs, NEW recipient, NEW d, NEW amount, NEW timestamp, NEW span,
           \/ CreateIncoming(id, recipient, d, amount, timestamp, span)
           \/ CreateOutgoing(id, recipient, d, amount, timestamp, span)
    PROVE  LifecycleStep(id) /\ \A i \in SwapIDs \ {id} : swaps'[i] = swaps[i]
  <1>1. swaps[id].status = "NULL"  BY DEF CreateIncoming, CreateOutgoing, AcceptSwap, IsNewSwap, Stored
  <1>2. /\ swaps'[id].status = "Open"
        /\ \A i \in SwapIDs \ {id} : swaps'[i] = swaps[i]
    BY DEF TypeOK, StoreTypeOK, CreateIncoming, CreateOutgoing, StoreOpenSwap, NewAtomicSwap
  <1> QED  BY <1>1, <1>2 DEF LifecycleStep

(* A new block expires open swaps and deletes completed ones, each in the   *)
(* block that is due. *)
LEMMA BeginBlockLifecycle ==
    ASSUME TypeOK, IndexInv, NEW step \in Steps, BeginBlock(step), NEW id \in SwapIDs,
           swaps'[id] # swaps[id]
    PROVE  LifecycleStep(id)
  <1>1. swaps[id].status \in {"NULL", "Open", "Completed", "Expired"}
    BY DEF TypeOK, StoreTypeOK, Swap, NoSwap
  <1>2. CASE swaps[id].status = "Open"
    <2>1. swaps[id] \in Swap /\ swaps'[id].status = "Expired"
      BY <1>2, BeginBlockSwap, SwapFields DEF TypeOK
    <2>2. swaps'[id] = [swaps[id] EXCEPT !.status = "Expired"]
      BY <2>1 DEF BeginBlock, ExpireAndDelete, NoSwap
    <2>3. Terms(swaps'[id]) = Terms(swaps[id])  BY <2>1, <2>2 DEF Terms, Swap
    <2> QED  BY <1>2, <2>1, <2>3 DEF LifecycleStep
  <1>3. CASE swaps[id].status = "Completed"
    <2>1. swaps'[id].status = "NULL" /\ DeletionHeight(swaps[id]) <= height'
      BY <1>3, BeginBlockSwap
    <2>2. height < DeletionHeight(swaps[id])  BY <1>3 DEF IndexInv, DeletionsAhead
    <2>3. DeletionHeight(swaps[id]) \in Nat /\ height \in Nat /\ height' = height + 1
      BY <1>3, SwapFields, NumbersAssumption
      DEF DeletionHeight, TypeOK, BlockTypeOK, BeginBlock
    <2> QED  BY <1>3, <2>1, <2>2, <2>3 DEF LifecycleStep
  <1>4. CASE swaps[id].status \in {"NULL", "Expired"}  BY <1>4, BeginBlockSwap
  <1> QED  BY <1>1, <1>2, <1>3, <1>4

(* Every step that changes a swap moves it along its life cycle.            *)
LEMMA NextLifecycle ==
    ASSUME TypeOK, IndexInv, [Next]_vars, NEW id \in SwapIDs, swaps'[id] # swaps[id]
    PROVE  LifecycleStep(id)
  <1>1. CASE Create  BY <1>1, CreateLifecycle DEF Create
  <1>2. CASE Claim
    <2>1. PICK i \in SwapIDs, number \in Numbers : ClaimIncoming(i, number) \/ ClaimOutgoing(i, number)
      BY <1>2 DEF Claim
    <2>2. swaps[i].status = "Open" /\ CompleteSwap(i)
      BY <2>1 DEF ClaimIncoming, ClaimOutgoing, IsClaimable
    <2> QED  BY <2>2, CompleteSwapLifecycle
  <1>3. CASE Refund
    <2>1. PICK i \in SwapIDs : RefundIncoming(i) \/ RefundOutgoing(i)  BY <1>3 DEF Refund
    <2>2. swaps[i].status = "Expired" /\ CompleteSwap(i)
      BY <2>1 DEF RefundIncoming, RefundOutgoing, IsRefundable
    <2> QED  BY <2>2, CompleteSwapLifecycle
  <1>4. CASE NextBlock  BY <1>4, BeginBlockLifecycle DEF NextBlock
  <1>5. CASE Govern  BY <1>5 DEF Govern, SetParams, store
  <1>6. CASE UNCHANGED vars  BY <1>6 DEF vars, store
  <1> QED  BY <1>1, <1>2, <1>3, <1>4, <1>5, <1>6 DEF Next, FixedNext

(* A swap is completed or expired, never reopened, never rewritten, and     *)
(* leaves the store in one block only: a swap that was paid cannot be paid  *)
(* again. *)
THEOREM LifecycleKept == Spec => SwapLifecycle
  <1>1. TypeOK /\ IndexInv /\ [Next]_vars
           => [\A id \in SwapIDs : swaps'[id] # swaps[id] => LifecycleStep(id)]_vars
    BY NextLifecycle
  <1>2. Spec => [][\A id \in SwapIDs : swaps'[id] # swaps[id] => LifecycleStep(id)]_vars
    BY <1>1, TypeCorrect, SpecIndex, PTL DEF Spec
  <1> QED  BY <1>2 DEF SwapLifecycle, LifecycleStep

-------------------------------------------------------------------------------
(* Deadlines.  A span that does not fit a time.Duration wraps, so an        *)
(* incoming swap whose span the deputy chose too large is created at or     *)
(* past its expire time.  What follows needs spans that fit; those of       *)
(* outgoing swaps do, the handler limits them to three days.                *)

SpansFit == \A span \in Spans : span * Minute < DurationLimit

NotDue(id) == blockTime < swaps[id].expire

DeadlineInv ==
    \A id \in SwapIDs :
        swaps[id].status = "Open" /\ (SpansFit \/ swaps[id].direction = "Outgoing") => NotDue(id)

(* A span that fits a time.Duration ends after the block it starts in.      *)
LEMMA ExpireTimeAhead ==
    ASSUME blockTime \in Nat, NEW span \in Int, span > 0, span * Minute < DurationLimit
    PROVE  blockTime < ExpireTime(span)
  <1>1. Minute \in Nat /\ Minute >= 1  BY NumbersAssumption
  <1>2. span * Minute >= 1 /\ span * Minute \in Int  BY <1>1
  <1>3. WrapDuration(span * Minute) = span * Minute  BY <1>2, WrappedDuration
  <1> QED  BY <1>2, <1>3 DEF ExpireTime

(* A new swap expires after the block that creates it. *)
LEMMA NewSwapNotDue ==
    ASSUME TypeOK, NEW id \in SwapIDs, NEW recipient, NEW d, NEW amount, NEW timestamp, NEW span \in Spans,
           \/ SpansFit /\ CreateIncoming(id, recipient, d, amount, timestamp, span)
           \/ CreateOutgoing(id, recipient, d, amount, timestamp, span)
    PROVE  blockTime < ExpireTime(span)
  <1>1. span \in Int /\ blockTime \in Nat  BY NumbersAssumption DEF TypeOK, BlockTypeOK
  <1>2. CASE SpansFit /\ CreateIncoming(id, recipient, d, amount, timestamp, span)
    <2>1. span > 0 /\ span * Minute < DurationLimit
      BY <1>2 DEF CreateIncoming, AcceptSwap, ValidateBasic, SpansFit
    <2> QED  BY <1>1, <2>1, ExpireTimeAhead
  <1>3. CASE CreateOutgoing(id, recipient, d, amount, timestamp, span)
    <2>1. 1 <= span /\ span <= ThreeDayMinutes  BY <1>3 DEF CreateOutgoing, SpanWithinThreeDays
    <2>2. span * Minute <= ThreeDayMinutes * Minute  BY <1>1, <2>1, NumbersAssumption
    <2>3. span * Minute < DurationLimit  BY <1>1, <2>2, NumbersAssumption, DurationAssumption
    <2> QED  BY <1>1, <2>1, <2>3, ExpireTimeAhead
  <1> QED  BY <1>2, <1>3

(* An empty store has nothing due.                                          *)
LEMMA InitDeadline == Init => DeadlineInv
  BY DEF Init, DeadlineInv, NoSwap

(* A new swap is ahead of the clock.                                        *)
LEMMA CreateDeadline ==
    ASSUME TypeOK, DeadlineInv, NEW id \in SwapIDs, NEW recipient, NEW d, NEW amount, NEW timestamp,
           NEW span \in Spans,
           \/ CreateIncoming(id, recipient, d, amount, timestamp, span)
           \/ CreateOutgoing(id, recipient, d, amount, timestamp, span)
    PROVE  DeadlineInv'
  <1>1. blockTime' = blockTime /\ \A i \in SwapIDs \ {id} : swaps'[i] = swaps[i]
    BY DEF TypeOK, StoreTypeOK, CreateIncoming, CreateOutgoing, StoreOpenSwap, block
  <1>2. /\ swaps'[id].expire = ExpireTime(span)
        /\ swaps'[id].direction = "Outgoing" => CreateOutgoing(id, recipient, d, amount, timestamp, span)
    BY DEF TypeOK, StoreTypeOK, CreateIncoming, CreateOutgoing, StoreOpenSwap, NewAtomicSwap
  <1>3. SpansFit \/ swaps'[id].direction = "Outgoing" => blockTime < swaps'[id].expire
    BY <1>2, NewSwapNotDue
  <1> QED  BY <1>1, <1>3 DEF DeadlineInv, NotDue

(* A step after which the open swaps are among those that were open. *)
LEMMA KeptDeadline ==
    ASSUME DeadlineInv, blockTime' = blockTime,
           \A id \in SwapIDs : swaps'[id].status = "Open" => swaps'[id] = swaps[id]
    PROVE  DeadlineInv'
  BY DEF DeadlineInv, NotDue

(* A block expires every open swap it reaches or passes.                    *)
LEMMA BeginBlockDeadline ==
    ASSUME TypeOK, IndexInv, NEW step \in Steps, BeginBlock(step)
    PROVE  DeadlineInv'
  <1> SUFFICES ASSUME NEW id \in SwapIDs, swaps'[id].status = "Open"
               PROVE  blockTime' < swaps'[id].expire
    BY DEF DeadlineInv, NotDue
  <1>1. blockTime' \in Nat  BY NumbersAssumption DEF TypeOK, BlockTypeOK, BeginBlock
  <1>2. swaps[id].status \in {"NULL", "Open", "Completed", "Expired"}
    BY DEF TypeOK, StoreTypeOK, Swap, NoSwap
  <1>3. swaps'[id] = swaps[id] /\ swaps[id].status = "Open" /\ ~ (swaps[id].expire <= blockTime')
    BY <1>2, BeginBlockSwap
  <1>4. swaps[id].expire \in Int  BY <1>3, SwapFields DEF TypeOK
  <1> QED  BY <1>1, <1>3, <1>4

(* No step leaves an open swap due.                                         *)
LEMMA NextDeadline == TypeOK /\ IndexInv /\ DeadlineInv /\ [Next]_vars => DeadlineInv'
  <1> SUFFICES ASSUME TypeOK, IndexInv, DeadlineInv, [Next]_vars PROVE DeadlineInv'  OBVIOUS
  <1>1. CASE Create  BY <1>1, CreateDeadline DEF Create
  <1>2. CASE Claim
    <2>1. PICK id \in SwapIDs, number \in Numbers : ClaimIncoming(id, number) \/ ClaimOutgoing(id, number)
      BY <1>2 DEF Claim
    <2>2. Settles(id, "Open") /\ blockTime' = blockTime
      BY <2>1 DEF Settles, ClaimIncoming, ClaimOutgoing, IsClaimable, block
    <2> QED  BY <2>2, SettledSwap, KeptDeadline
  <1>3. CASE Refund
    <2>1. PICK id \in SwapIDs : RefundIncoming(id) \/ RefundOutgoing(id)  BY <1>3 DEF Refund
    <2>2. Settles(id, "Expired") /\ blockTime' = blockTime
      BY <2>1 DEF Settles, RefundIncoming, RefundOutgoing, IsRefundable, block
    <2> QED  BY <2>2, SettledSwap, KeptDeadline
  <1>4. CASE NextBlock  BY <1>4, BeginBlockDeadline DEF NextBlock
  <1>5. CASE Govern  BY <1>5, KeptDeadline DEF Govern, SetParams, store
  <1>6. CASE UNCHANGED vars  BY <1>6, KeptDeadline DEF vars, store, block
  <1> QED  BY <1>1, <1>2, <1>3, <1>4, <1>5, <1>6 DEF Next, FixedNext

(* The deadline invariant of the specification.                             *)
LEMMA SpecDeadline == Spec => []DeadlineInv
  BY InitDeadline, NextDeadline, TypeCorrect, SpecIndex, PTL DEF Spec

(* When messages run, no open swap is at or past its expire time: the       *)
(* handler of a claim may look at the status alone, provided that the spans *)
(* the deputy chooses fit. *)
THEOREM ClaimsBeforeExpiry ==
    ASSUME SpansFit
    PROVE  Spec => []OpenSwapsNotDue
  <1>1. DeadlineInv => OpenSwapsNotDue  BY DEF DeadlineInv, OpenSwapsNotDue, NotDue
  <1> QED  BY <1>1, SpecDeadline, PTL

(* The coins of a user, which only an outgoing swap takes, are never claimed *)
(* at or past the time from which they can be refunded, whatever the spans. *)
THEOREM OutgoingClaimsBeforeExpiry == Spec => []OutgoingSwapsNotDue
  <1>1. DeadlineInv => OutgoingSwapsNotDue  BY DEF DeadlineInv, OutgoingSwapsNotDue, NotDue
  <1> QED  BY <1>1, SpecDeadline, PTL

-------------------------------------------------------------------------------
(* Mints, under whatever params are in force.                              *)

MintStep(d) ==
    /\ params[d].listed /\ supplies'[d].current <= params[d].limit
    /\ params[d].timeLimited => /\ supplies'[d].timeLimitedCurrent <= params[d].timeBasedLimit
                                /\ supplies'[d].timeLimitedCurrent - supplies[d].timeLimitedCurrent
                                      = bankSupply'[d] - bankSupply[d]

(* The claim of an incoming swap checks both limits for what it mints. *)
LEMMA ClaimIncomingMint ==
    ASSUME TypeOK, OneCoinSwaps, NEW id \in SwapIDs, NEW number, ClaimIncoming(id, number),
           NEW d \in Denoms, bankSupply'[d] > bankSupply[d]
    PROVE  MintStep(d)
  <1> DEFINE a == swaps[id].amount
             s == DecrementIncoming(supplies[d], a)
  <1>0. swaps[id].status # "NULL"  BY DEF ClaimIncoming, IsClaimable
  <1>1. a \in Nat /\ supplies[d] \in SupplyRecord /\ swaps[id].denom \in Denoms
    BY <1>0, SettledSwapFields DEF TypeOK, LedgerTypeOK
  <1>2. bankSupply[d] \in Nat  BY DEF TypeOK, LedgerTypeOK
  <1>3. swaps[id].denom = d
    <2> SUFFICES ASSUME swaps[id].denom # d PROVE FALSE  OBVIOUS
    <2>1. bankSupply'[d] = bankSupply[d]  BY OneCoinClaimIncoming DEF TypeOK, LedgerTypeOK
    <2> QED  BY <1>2, <2>1
  <1>4. CanIncrementCurrent(s, params[d], a)  BY <1>3 DEF ClaimIncoming, CanMint
  <1>5. supplies'[d] = IncrementCurrent(s, params[d], a) /\ bankSupply'[d] = bankSupply[d] + a
    BY <1>1, <1>3, OneCoinClaimIncoming DEF TypeOK, LedgerTypeOK, ClaimIncoming
  <1>6. s.timeLimitedCurrent = supplies[d].timeLimitedCurrent /\ s \in SupplyRecord
    BY <1>1, <1>3, IncomingTypes DEF SupplyRecord, DecrementIncoming, ClaimIncoming, CanMint
  <1>7. /\ IncrementCurrent(s, params[d], a).current = s.current + a
        /\ params[d].timeLimited =>
              IncrementCurrent(s, params[d], a).timeLimitedCurrent = s.timeLimitedCurrent + a
    <2> HIDE DEF s, a
    <2> QED  BY <1>6 DEF IncrementCurrent, SupplyRecord
  <1>8. supplies[d].timeLimitedCurrent \in Nat  BY <1>1 DEF SupplyRecord
  <1> HIDE DEF s, a
  <1> QED  BY <1>1, <1>2, <1>4, <1>5, <1>6, <1>7, <1>8 DEF MintStep, CanIncrementCurrent

(* Nothing else mints. *)
LEMMA NextMint ==
    ASSUME TypeOK, OneCoinSwaps, [Next]_vars, NEW d \in Denoms, bankSupply'[d] > bankSupply[d]
    PROVE  MintStep(d)
  <1>1. bankSupply[d] \in Nat  BY DEF TypeOK, LedgerTypeOK
  <1>2. bankSupply' # bankSupply  BY <1>1
  <1>3. CASE Create  BY <1>2, <1>3 DEF Create, CreateIncoming, CreateOutgoing, bank
  <1>4. CASE Claim
    <2>1. PICK i \in SwapIDs, number \in Numbers : ClaimIncoming(i, number) \/ ClaimOutgoing(i, number)
      BY <1>4 DEF Claim
    <2>2. CASE ClaimIncoming(i, number)  BY <2>2, ClaimIncomingMint
    <2>3. CASE ClaimOutgoing(i, number)
      <3>1. swaps[i].amount \in Nat  BY <2>3, SwapFields DEF TypeOK, ClaimOutgoing, IsClaimable
      <3>2. bankSupply'[d] \in {bankSupply[d], bankSupply[d] - swaps[i].amount}
        BY <2>3, OneCoinClaimOutgoing DEF TypeOK, LedgerTypeOK
      <3> QED  BY <1>1, <3>1, <3>2
    <2> QED  BY <2>1, <2>2, <2>3
  <1>5. CASE Refund  BY <1>2, <1>5 DEF Refund, RefundIncoming, RefundOutgoing, bank
  <1>6. CASE NextBlock  BY <1>2, <1>6 DEF NextBlock, BeginBlock, bank
  <1>7. CASE Govern  BY <1>2, <1>7 DEF Govern, SetParams, bank
  <1>8. CASE UNCHANGED vars  BY <1>2, <1>8 DEF vars, bank
  <1> QED  BY <1>3, <1>4, <1>5, <1>6, <1>7, <1>8 DEF Next, FixedNext

(* Whatever governance has done to the params since a swap was created, no  *)
(* claim mints past the limits then in force. *)
THEOREM MintsLimited == Spec => MintsWithinLimits
  <1>1. TypeOK /\ OneCoinSwaps /\ [Next]_vars
           => [\A d \in Denoms : bankSupply'[d] > bankSupply[d] => MintStep(d)]_vars
    BY NextMint
  <1>2. Spec => [][\A d \in Denoms : bankSupply'[d] > bankSupply[d] => MintStep(d)]_vars
    BY <1>1, TypeCorrect, SpecOneCoin, PTL DEF Spec
  <1> QED  BY <1>2 DEF MintsWithinLimits, MintStep
===============================================================================
