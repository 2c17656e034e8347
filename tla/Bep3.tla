--------------------------------- MODULE Bep3 ---------------------------------
(***************************************************************************)
(* The bep3 module of a Cosmos chain: hashed time-locked swaps between an  *)
(* asset of this chain and its counterpart on another chain, relayed by    *)
(* the asset's deputy.                                                     *)
(*                                                                         *)
(* A transaction is atomic: a handler that returns an error leaves no      *)
(* trace, so a message is an action whose guards are all the handler's     *)
(* error returns.  BeginBlocker runs before the messages of a block and is *)
(* one action.  The bank and account keepers are modelled by the effect    *)
(* the module's calls have on them.                                        *)
(***************************************************************************)
EXTENDS AssetSupply, FiniteSetsExt

CONSTANTS
    Denoms, Users, Maccs,        \* coins, key-holding addresses, module accounts
    Numbers, Timestamps, Chains, \* secrets, unix seconds, lower-cased addresses abroad
    Amounts, Spans, Steps,       \* amounts of a coin, swap spans in minutes, seconds between blocks
    Minute, PastWindow, FutureWindow, ThreeDayMinutes, StorageDuration,
    ParamSets, GenesisParams, GenesisSupplies,      \* governance's choices, genesis state
    GenesisBalances, GenesisBankSupply, GenesisPrevTimes, GenesisPerms,
    GenesisTime, UpgradeTime,
    CreateUntil, MaxTime, MaxHeight \* bounds: last second of a creation, of the run; last block

\* The time of the previous block is absent from the store.
NoTime == -1

ASSUME NumbersAssumption ==
    /\ Minute \in Nat \ {0} /\ StorageDuration \in Nat \ {0}
    /\ PastWindow \in Nat /\ FutureWindow \in Nat /\ ThreeDayMinutes \in Nat
    /\ ThreeDayMinutes * Minute < DurationLimit
    /\ Timestamps \subseteq Nat \ {0} /\ Amounts \subseteq Nat \ {0}
    /\ Spans \subseteq Int /\ Steps \subseteq Nat
    /\ GenesisTime \in Nat /\ UpgradeTime \in Int /\ GenesisPerms \subseteq BOOLEAN
    /\ GenesisPrevTimes \subseteq Nat \cup {NoTime}
    /\ CreateUntil \in Int /\ MaxTime \in Int /\ MaxHeight \in Int

ASSUME AddressAssumption == Users \cap Maccs = {}

\* Params.Validate, run by InitGenesis and by the params subspace on a change.
ASSUME ParamsAssumption ==
    /\ GenesisParams \in ParamSets
    /\ ParamSets \subseteq [Denoms -> AssetParam(Users)]
    /\ \A p \in ParamSets : \A d \in Denoms : ValidAssetParam(p[d])

\* The checks of InitGenesis on a state without swaps.
ASSUME GenesisAssumption ==
    /\ GenesisSupplies \in [Denoms -> SupplyRecord]
    /\ GenesisBalances \in [Users -> [Denoms -> Nat]]
    /\ GenesisBankSupply \in [Denoms -> Nat]
    /\ \A d \in Denoms :
          /\ GenesisSupplies[d].incoming = 0 /\ GenesisSupplies[d].outgoing = 0
          /\ IF GenesisSupplies[d].found
               THEN GenesisParams[d].listed /\ GenesisSupplies[d].current <= GenesisParams[d].limit
               ELSE GenesisSupplies[d] = NoSupply

VARIABLES
    swaps,          \* the AtomicSwap stored under each ID, NoSwap when there is none
    byTimestamp,    \* the expiry index: <<expire timestamp, ID>>
    longterm,       \* the deletion index: <<deletion height, ID>>
    supplies,       \* the AssetSupply of each denom
    prevBlockTime,  \* the stored time of the previous block
    params,         \* the module's parameters, per denom
    accounts,       \* addresses the account keeper knows
    balances,       \* the users' coins in the bank
    escrow,         \* the bep3 module account's coins
    bankSupply,     \* the bank's total of each coin
    maccPerms,      \* the module account may mint and burn
    blockTime, height,
    inBlock         \* between a block's BeginBlocker and its EndBlockers

store == <<swaps, byTimestamp, longterm>>
bank  == <<balances, escrow, bankSupply>>
block == <<prevBlockTime, maccPerms, blockTime, height, inBlock>>
vars  == <<store, supplies, params, accounts, bank, block>>

-------------------------------------------------------------------------------
(* Swaps and their identity.                                               *)

\* CalculateSwapID hashes the random number hash, the sender and the lower
\* cased address on the other chain; CalculateRandomHash hashes a number and
\* a timestamp.  Both are taken to be injective: an ID is what is hashed.
SwapIDs == [number : Numbers, hashTime : Timestamps, sender : Users, chain : Chains]

\* sdk.Coins, denom by denom; a denom without coins has 0.
CoinAmounts    == [Denoms -> Nat]
NoCoins        == [d \in Denoms |-> 0]
AddCoins(a, b) == [d \in Denoms |-> a[d] + b[d]]
SubCoins(a, b) == [d \in Denoms |-> a[d] - b[d]]
Holds(a, b)    == \A d \in Denoms : b[d] <= a[d]

\* The fields of an AtomicSwap that its ID does not already determine.  Its
\* Amount is a list of coins: the first is `amount' of `denom', the rest are in
\* `others'.  Only a swap imported from a genesis file has others.
Swap == [status : {"Open", "Completed", "Expired"}, direction : {"Incoming", "Outgoing"},
         denom : Denoms, amount : Amounts, others : CoinAmounts, timestamp : Timestamps,
         expire : Int, recipient : Users, closedBlock : Nat]

\* GetAtomicSwap's zero value, whose status is NULL.
NoSwap == [status |-> "NULL"]

\* CreateAtomicSwapState refuses any number of coins but one.
NewAtomicSwap(direction, d, amount, timestamp, expire, recipient) ==
    [status |-> "Open", direction |-> direction, denom |-> d, amount |-> amount,
     others |-> NoCoins, timestamp |-> timestamp, expire |-> expire,
     recipient |-> recipient, closedBlock |-> 0]

\* All the coins of a swap, which the bank moves at once.
Coins(swap) == [swap.others EXCEPT ![swap.denom] = @ + swap.amount]

Stored(id)   == swaps[id].status # "NULL"
IsLive(swap) == swap.status \in {"Open", "Expired"}

\* The secret a claim submits is hashed with the timestamp of the stored swap.
Unlocks(id, number) == number = id.number /\ swaps[id].timestamp = id.hashTime

-------------------------------------------------------------------------------
(* Store writes shared by the handlers.                                    *)

\* SetAtomicSwap and InsertIntoByTimestamp of a new swap.
StoreOpenSwapUnindexed(id, swap) ==
    /\ swaps' = [swaps EXCEPT ![id] = swap]
    /\ UNCHANGED <<byTimestamp, longterm>>

StoreOpenSwap(id, swap) ==
    /\ swaps' = [swaps EXCEPT ![id] = swap]
    /\ byTimestamp' = byTimestamp \cup {<<swap.expire, id>>}
    /\ UNCHANGED longterm

DeletionHeight(swap) == swap.closedBlock + StorageDuration

\* The swap is completed (SetAtomicSwap) and entered in the deletion index.
Completed(id) == [swaps[id] EXCEPT !.status = "Completed", !.closedBlock = height]

CompleteSwapNeverDeleted(id) ==
    swaps' = [swaps EXCEPT ![id] = Completed(id)] /\ UNCHANGED longterm

CompleteSwap(id) ==
    /\ swaps' = [swaps EXCEPT ![id] = Completed(id)]
    /\ longterm' = longterm \cup {<<DeletionHeight(Completed(id)), id>>}

RemoveFromByTimestampForgotten(id) == UNCHANGED byTimestamp

RemoveFromByTimestamp(id) == byTimestamp' = byTimestamp \ {<<swaps[id].expire, id>>}

-------------------------------------------------------------------------------
(* CreateAtomicSwapState.  Messages run after the block's BeginBlocker.    *)

TimestampNotFuture(timestamp) == timestamp < blockTime + FutureWindow

TimestampInWindow(timestamp) ==
    /\ blockTime - PastWindow <= timestamp
    /\ timestamp < blockTime + FutureWindow

IsNewSwapUnchecked(id) == TRUE

IsNewSwap(id) == ~ Stored(id)

CanReceiveAnyone(recipient) == TRUE

CanReceive(recipient) == recipient \notin Maccs

\* A message is refused before it reaches the handler unless its numbers are
\* positive; the span of an incoming swap is checked nowhere else.
ValidateBasic(amount, timestamp, span) == amount > 0 /\ timestamp > 0 /\ span > 0

\* The checks both directions share, in the handler's order.
AcceptSwap(id, recipient, d, amount, timestamp, span) ==
    /\ inBlock /\ blockTime <= CreateUntil
    /\ ValidateBasic(amount, timestamp, span)
    /\ IsNewSwap(id)
    /\ CanReceive(recipient)
    /\ ValidateLiveAsset(params[d])
    /\ params[d].minSwapAmount <= amount /\ amount <= params[d].maxSwapAmount
    /\ TimestampInWindow(timestamp)

\* Only the span of an outgoing swap is known to fit.
ExpireTime(span) == blockTime + WrapDuration(span * Minute)

\* The sender is the deputy: coins arrive from the other chain.
CreateIncoming(id, recipient, d, amount, timestamp, span) ==
    /\ AcceptSwap(id, recipient, d, amount, timestamp, span)
    /\ id.sender = params[d].deputy /\ recipient # params[d].deputy
    /\ CanIncrementIncoming(supplies[d], params[d], amount)
    /\ accounts' = accounts \cup {recipient}
    /\ supplies' = [supplies EXCEPT ![d] = IncrementIncoming(@, amount)]
    /\ StoreOpenSwap(id, NewAtomicSwap("Incoming", d, amount, timestamp, ExpireTime(span), recipient))
    /\ UNCHANGED <<params, bank, block>>

SpanPositive(span) == 1 <= span

SpanWithinThreeDays(span) == 1 <= span /\ span <= ThreeDayMinutes

\* The sender is anyone else: the deputy receives, the coins go to escrow.
CreateOutgoing(id, recipient, d, amount, timestamp, span) ==
    /\ AcceptSwap(id, recipient, d, amount, timestamp, span)
    /\ id.sender # params[d].deputy /\ recipient = params[d].deputy
    /\ SpanWithinThreeDays(span)
    /\ params[d].fixedFee + params[d].minSwapAmount < amount
    /\ CanIncrementOutgoing(supplies[d], amount)
    /\ amount <= balances[id.sender][d]
    /\ supplies' = [supplies EXCEPT ![d] = IncrementOutgoing(@, amount)]
    /\ balances' = [balances EXCEPT ![id.sender][d] = @ - amount]
    /\ escrow' = [escrow EXCEPT ![d] = @ + amount]
    /\ StoreOpenSwap(id, NewAtomicSwap("Outgoing", d, amount, timestamp, ExpireTime(span), recipient))
    /\ UNCHANGED <<params, accounts, bankSupply, block>>

-------------------------------------------------------------------------------
(* ClaimAtomicSwapState.  Any account may submit the secret; the handler   *)
(* looks at the stored status, not at the clock.  The supply records follow*)
(* the first coin of the swap only, the bank mints, burns and pays all.    *)

IsClaimableAnyStatus(id, direction) ==
    IsLive(swaps[id]) /\ swaps[id].direction = direction

IsClaimable(id, direction) ==
    swaps[id].status = "Open" /\ swaps[id].direction = direction

\* What the asset's record and parameters must allow an incoming claim.
CanMint(d, amount) ==
    /\ CanDecrementIncoming(supplies[d], amount)
    /\ CanIncrementCurrent(DecrementIncoming(supplies[d], amount), params[d], amount)

ClaimIncoming(id, number) ==
    LET swap == swaps[id]
        d    == swap.denom
    IN  /\ inBlock
        /\ IsClaimable(id, "Incoming")
        /\ Unlocks(id, number)
        /\ CanMint(d, swap.amount)
        /\ maccPerms
        /\ supplies' = [supplies EXCEPT ![d] =
                           IncrementCurrent(DecrementIncoming(@, swap.amount), params[d], swap.amount)]
        /\ bankSupply' = AddCoins(bankSupply, Coins(swap))
        /\ balances' = [balances EXCEPT ![swap.recipient] = AddCoins(@, Coins(swap))]
        /\ CompleteSwap(id) /\ RemoveFromByTimestamp(id)
        /\ UNCHANGED <<params, accounts, escrow, block>>

\* What the asset's record and the module account must allow an outgoing claim.
CanBurn(swap) ==
    LET supply == supplies[swap.denom]
    IN  /\ CanDecrementOutgoing(supply, swap.amount)
        /\ CanDecrementCurrent(DecrementOutgoing(supply, swap.amount), swap.amount)
        /\ Holds(escrow, Coins(swap)) /\ Holds(bankSupply, Coins(swap))

ClaimOutgoing(id, number) ==
    LET swap == swaps[id]
        d    == swap.denom
    IN  /\ inBlock
        /\ IsClaimable(id, "Outgoing")
        /\ Unlocks(id, number)
        /\ CanBurn(swap)
        /\ maccPerms
        /\ supplies' = [supplies EXCEPT ![d] =
                           DecrementCurrent(DecrementOutgoing(@, swap.amount), swap.amount)]
        /\ escrow' = SubCoins(escrow, Coins(swap))
        /\ bankSupply' = SubCoins(bankSupply, Coins(swap))
        /\ CompleteSwap(id) /\ RemoveFromByTimestamp(id)
        /\ UNCHANGED <<params, accounts, balances, block>>

-------------------------------------------------------------------------------
(* RefundAtomicSwapState.  Any account may submit it.                      *)

IsRefundableOpen(id, direction) ==
    IsLive(swaps[id]) /\ swaps[id].direction = direction

IsRefundable(id, direction) ==
    swaps[id].status = "Expired" /\ swaps[id].direction = direction

RefundIncoming(id) ==
    LET swap == swaps[id]
        d    == swap.denom
    IN  /\ inBlock
        /\ IsRefundable(id, "Incoming")
        /\ CanDecrementIncoming(supplies[d], swap.amount)
        /\ supplies' = [supplies EXCEPT ![d] = DecrementIncoming(@, swap.amount)]
        /\ CompleteSwap(id)
        /\ UNCHANGED <<byTimestamp, params, accounts, bank, block>>

\* What the asset's record and the module account must allow a refund.
CanRelease(swap) ==
    CanDecrementOutgoing(supplies[swap.denom], swap.amount) /\ Holds(escrow, Coins(swap))

RefundOutgoing(id) ==
    LET swap == swaps[id]
        d    == swap.denom
    IN  /\ inBlock
        /\ IsRefundable(id, "Outgoing")
        /\ CanRelease(swap)
        /\ supplies' = [supplies EXCEPT ![d] = DecrementOutgoing(@, swap.amount)]
        /\ escrow' = SubCoins(escrow, Coins(swap))
        /\ balances' = [balances EXCEPT ![id.sender] = AddCoins(@, Coins(swap))]
        /\ CompleteSwap(id)
        /\ UNCHANGED <<byTimestamp, params, accounts, bankSupply, block>>

-------------------------------------------------------------------------------
(* BeginBlocker.                                                           *)

\* The time since the previous block; none when the store has no time.
Elapsed(now) == IF prevBlockTime = NoTime THEN 0 ELSE SaturateDuration(now - prevBlockTime)

\* UpdateTimeBasedSupplyLimits returns early, storing no time, when the
\* params list no asset.
UpdateTimeBasedSupplyLimits(now) ==
    IF \E d \in Denoms : params[d].listed
      THEN /\ supplies' = [d \in Denoms |->
                             IF params[d].listed
                               THEN UpdateWindow(supplies[d], params[d], Elapsed(now))
                               ELSE supplies[d]]
           /\ prevBlockTime' = now
      ELSE UNCHANGED <<supplies, prevBlockTime>>

\* The swaps UpdateExpiredAtomicSwaps finds up to (and at) the block's time.
DueToExpireLate(now) ==
    {id \in SwapIDs : Stored(id) /\ \E e \in byTimestamp : e[2] = id /\ e[1] < now}

DueToExpire(now) ==
    {id \in SwapIDs : Stored(id) /\ \E e \in byTimestamp : e[2] = id /\ e[1] <= now}

\* The swaps DeleteClosedAtomicSwapsFromLongtermStorage finds at a height.
DueToDeleteEarly(h) ==
    {id \in SwapIDs : Stored(id) /\ \E e \in longterm : e[2] = id /\ e[1] <= h + 1}

DueToDelete(h) ==
    {id \in SwapIDs : Stored(id) /\ \E e \in longterm : e[2] = id /\ e[1] <= h}

\* Both walks, the second over what the first has stored.  The entry removed
\* is the one computed from the stored swap.
ExpireAndDelete(now, h) ==
    /\ swaps' = [id \in SwapIDs |->
                   IF id \in DueToDelete(h) THEN NoSwap
                   ELSE IF id \in DueToExpire(now) THEN [swaps[id] EXCEPT !.status = "Expired"]
                   ELSE swaps[id]]
    /\ byTimestamp' = byTimestamp \ {<<swaps[id].expire, id>> : id \in DueToExpire(now)}
    /\ longterm' = longterm \ {<<DeletionHeight(swaps[id]), id>> : id \in DueToDelete(h)}

\* From the upgrade's date on the module account's permissions are those the
\* application gives it, which include minting and burning.
EnsureModuleAccountPermissions(now) == maccPerms' = (maccPerms \/ now > UpgradeTime)

\* The module's part of a new block, `step' seconds after the last one.
BeginBlock(step) ==
    /\ blockTime + step <= MaxTime /\ height < MaxHeight
    /\ blockTime' = blockTime + step
    /\ height' = height + 1
    /\ inBlock' = TRUE
    /\ EnsureModuleAccountPermissions(blockTime')
    /\ UpdateTimeBasedSupplyLimits(blockTime')
    /\ ExpireAndDelete(blockTime', height')
    /\ UNCHANGED <<params, accounts, bank>>

-------------------------------------------------------------------------------
(* A governance proposal executes in the EndBlocker of the gov module and  *)
(* changes the params; the next thing to run is a BeginBlocker.            *)

SetParams(newParams) ==
    /\ inBlock
    /\ inBlock' = FALSE
    /\ params' = newParams
    /\ UNCHANGED <<store, supplies, accounts, bank, prevBlockTime, maccPerms, blockTime, height>>

-------------------------------------------------------------------------------

Init ==
    /\ swaps = [id \in SwapIDs |-> NoSwap] /\ byTimestamp = {} /\ longterm = {}
    /\ supplies = GenesisSupplies
    /\ params = GenesisParams
    /\ prevBlockTime \in GenesisPrevTimes
    /\ accounts = {u \in Users : \E d \in Denoms : GenesisBalances[u][d] > 0}
    /\ balances = GenesisBalances
    /\ escrow = NoCoins
    /\ bankSupply = GenesisBankSupply
    /\ maccPerms \in GenesisPerms
    /\ blockTime = GenesisTime /\ height = 0 /\ inBlock = FALSE

Create ==
    \E id \in SwapIDs, recipient \in Users \cup Maccs, d \in Denoms,
       amount \in Amounts, timestamp \in Timestamps, span \in Spans :
          \/ CreateIncoming(id, recipient, d, amount, timestamp, span)
          \/ CreateOutgoing(id, recipient, d, amount, timestamp, span)

Claim ==
    \E id \in SwapIDs, number \in Numbers :
        ClaimIncoming(id, number) \/ ClaimOutgoing(id, number)

Refund == \E id \in SwapIDs : RefundIncoming(id) \/ RefundOutgoing(id)

NextBlock == \E step \in Steps : BeginBlock(step)

Govern == \E newParams \in ParamSets \ {params} : SetParams(newParams)

\* The messages and blocks of a chain whose params stay as they are.
FixedNext == Create \/ Claim \/ Refund \/ NextBlock

Next == FixedNext \/ Govern

FixedSpec == Init /\ [][FixedNext]_vars

Spec == Init /\ [][Next]_vars

-------------------------------------------------------------------------------
(* Properties.                                                             *)

StoreTypeOK ==
    /\ swaps \in [SwapIDs -> Swap \cup {NoSwap}]
    /\ byTimestamp \subseteq Int \X SwapIDs
    /\ longterm \subseteq Nat \X SwapIDs

LedgerTypeOK ==
    /\ supplies \in [Denoms -> SupplyRecord]
    /\ balances \in [Users -> [Denoms -> Nat]]
    /\ escrow \in [Denoms -> Nat]
    /\ bankSupply \in [Denoms -> Nat]

BlockTypeOK ==
    /\ prevBlockTime \in Nat \cup {NoTime}
    /\ maccPerms \in BOOLEAN /\ inBlock \in BOOLEAN
    /\ blockTime \in Nat /\ height \in Nat

\* Every variable stays in its type: amounts never go negative, and a swap is
\* stored with a payable recipient.
TypeOK ==
    /\ StoreTypeOK /\ LedgerTypeOK /\ BlockTypeOK
    /\ params \in ParamSets /\ accounts \subseteq Users

\* Neither index is stale: exactly the open swaps are queued for expiry and
\* exactly the completed ones for deletion, each once, under the key computed
\* from the stored swap.  UpdateExpiredAtomicSwaps overwrites the status of
\* whatever its index names, so a stale entry would reopen a paid swap.
IndexesMatchStatus ==
    /\ byTimestamp = {<<swaps[id].expire, id>> : id \in {i \in SwapIDs : swaps[i].status = "Open"}}
    /\ longterm = {<<DeletionHeight(swaps[id]), id>> : id \in {i \in SwapIDs : swaps[i].status = "Completed"}}

\* ClaimAtomicSwapState checks the status and not the clock: it relies on
\* BeginBlocker to leave no open swap at or past its expire time, so that a
\* claim can never race the refund of the same swap.
OpenSwapsNotDue ==
    \A id \in SwapIDs : swaps[id].status = "Open" => blockTime < swaps[id].expire

\* Even when the deputy chooses spans that wrap, a user's own coins are never
\* claimed at or past the time from which they can be refunded.
OutgoingSwapsNotDue ==
    \A id \in SwapIDs :
        swaps[id].status = "Open" /\ swaps[id].direction = "Outgoing" => blockTime < swaps[id].expire

\* A completed swap is kept for the whole storage duration and not a block
\* longer (06_begin_block.md, Deletion).
CompletedSwapsNotOverdue ==
    \A id \in SwapIDs : swaps[id].status = "Completed" =>
        /\ swaps[id].closedBlock <= height
        /\ height < DeletionHeight(swaps[id])

\* The sum of the amounts that a store holds under some IDs.
TotalAmount(stored, ids) == SumFunction([id \in ids |-> stored[id].amount])

LiveSwaps(stored, d, direction) ==
    {id \in SwapIDs : /\ IsLive(stored[id])
                      /\ stored[id].denom = d /\ stored[id].direction = direction}

LiveAmount(d, direction) == TotalAmount(swaps, LiveSwaps(swaps, d, direction))

\* An asset's incoming and outgoing supplies are the sums of its unsettled
\* swaps, open or expired: what InitGenesis demands of an imported state.
SuppliesMatchSwaps ==
    \A d \in Denoms : /\ supplies[d].incoming = LiveAmount(d, "Incoming")
                      /\ supplies[d].outgoing = LiveAmount(d, "Outgoing")

\* The module account holds exactly the outgoing supply, so a swap is never
\* paid twice and no coin is stranded in escrow.
EscrowBacksOutgoing ==
    \A d \in Denoms : escrow[d] = supplies[d].outgoing

\* Outgoing swaps never reserve more than the current supply, whatever
\* governance does: the burn of a claim never underflows (asset.go:118).
OutgoingWithinCurrent ==
    \A d \in Denoms : supplies[d].outgoing <= supplies[d].current

\* The module's current supply moves with the bank's supply of the coin: claims
\* mint and burn exactly once what they settle (02_state.md, Current supply).
CurrentTracksBank ==
    \A d \in Denoms :
        bankSupply[d] - supplies[d].current = GenesisBankSupply[d] - GenesisSupplies[d].current

\* With unchanged params, what is minted or reserved stays within the asset's
\* limit and its limit for the current time window.
WithinLimits ==
    \A d \in Denoms : supplies[d].found /\ params[d].listed =>
        /\ supplies[d].current + supplies[d].incoming <= params[d].limit
        /\ params[d].timeLimited =>
              supplies[d].timeLimitedCurrent + supplies[d].incoming <= params[d].timeBasedLimit

\* Whatever governance does to the params, an expired swap can be refunded and
\* an open outgoing swap claimed: no coin is stuck behind a changed parameter.
EscrowedCoinsCanLeave ==
    \A id \in SwapIDs :
        /\ IsRefundable(id, "Incoming") => CanDecrementIncoming(supplies[swaps[id].denom], swaps[id].amount)
        /\ IsRefundable(id, "Outgoing") => CanRelease(swaps[id])
        /\ IsClaimable(id, "Outgoing")  => CanBurn(swaps[id])

\* With unchanged params, the reservation made when an incoming swap was
\* created is enough to claim it, however many swaps were created, claimed and
\* expired since and wherever the time window was reset.
ReservationsHold ==
    \A id \in SwapIDs : IsClaimable(id, "Incoming") => CanMint(swaps[id].denom, swaps[id].amount)

\* A swap only moves Open -> Completed, Open -> Expired -> Completed, and its
\* terms never change until it is deleted.
Terms(swap) == <<swap.direction, swap.denom, swap.amount, swap.others, swap.timestamp,
                 swap.expire, swap.recipient>>

SwapLifecycle ==
    [][\A id \in SwapIDs : swaps'[id] # swaps[id] =>
          \/ swaps[id].status = "NULL" /\ swaps'[id].status = "Open"
          \/ /\ <<swaps[id].status, swaps'[id].status>> \in
                   {<<"Open", "Completed">>, <<"Open", "Expired">>, <<"Expired", "Completed">>}
             /\ Terms(swaps'[id]) = Terms(swaps[id])
          \/ /\ swaps[id].status = "Completed" /\ swaps'[id].status = "NULL"
             /\ height' = DeletionHeight(swaps[id])]_vars

\* Every movement of a user's coins is the escrow, refund or payout of swaps
\* that changed status in that very step.
Debits(u, d) ==
    {id \in SwapIDs : /\ swaps[id].status = "NULL" /\ swaps'[id].status = "Open"
                      /\ swaps'[id].direction = "Outgoing" /\ id.sender = u /\ swaps'[id].denom = d}
Credits(u, d) ==
    {id \in SwapIDs : /\ IsLive(swaps[id]) /\ swaps'[id].status = "Completed"
                      /\ swaps[id].denom = d
                      /\ \/ /\ swaps[id].status = "Open" /\ swaps[id].direction = "Incoming"
                            /\ swaps[id].recipient = u
                         \/ /\ swaps[id].status = "Expired" /\ swaps[id].direction = "Outgoing"
                            /\ id.sender = u}
PaymentsSettleSwaps ==
    [][\A u \in Users, d \in Denoms :
          balances'[u][d] - balances[u][d] =
              TotalAmount(swaps, Credits(u, d)) - TotalAmount(swaps', Debits(u, d))]_vars

\* Under the params in force at the time, no step mints beyond the limit or
\* beyond the limit of the running time window, though governance may since
\* have lowered both below what is reserved.
MintsWithinLimits ==
    [][\A d \in Denoms : bankSupply'[d] > bankSupply[d] =>
          /\ params[d].listed /\ supplies'[d].current <= params[d].limit
          /\ params[d].timeLimited => /\ supplies'[d].timeLimitedCurrent <= params[d].timeBasedLimit
                                      /\ supplies'[d].timeLimitedCurrent - supplies[d].timeLimitedCurrent
                                            = bankSupply'[d] - bankSupply[d]]_vars

\* 01_concepts.md promises a relayed incoming swap: if the secret is revealed
\* before the deadline, the equivalent amount is issued.
RevealedInTimeIsIssued ==
    \A id \in SwapIDs :
        inBlock /\ IsClaimable(id, "Incoming") => CanMint(swaps[id].denom, swaps[id].amount)

-------------------------------------------------------------------------------
(* Blocks keep coming: Tendermint's consensus, not this module, decides so.*)

FairSpec == FixedSpec /\ WF_vars(NextBlock)

\* An open swap does not stay open: it is claimed or it expires, though nobody
\* sends a message about it.
OpenSwapsEnd ==
    \A id \in SwapIDs : (swaps[id].status = "Open") ~> (swaps[id].status # "Open")
===============================================================================
