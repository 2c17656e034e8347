------------------------------ MODULE AssetSupply ------------------------------
(***************************************************************************)
(* The supply record of one asset and the operations of keeper/asset.go.   *)
(* Each operation of the keeper is a pair: what it refuses (Can...) and    *)
(* the record it stores otherwise.  `asset' is the entry of the params     *)
(* list that GetAsset finds, with listed = FALSE when it finds none, and   *)
(* found = FALSE is the second result of GetAssetSupply.                   *)
(***************************************************************************)
EXTENDS Integers

CONSTANT DurationLimit   \* seconds in half the range of a time.Duration, 2^63 nanoseconds

ASSUME DurationAssumption == DurationLimit \in Nat \ {0}

\* A time.Duration is an int64 and wraps.
WrapDuration(seconds) == ((seconds + DurationLimit) % (2 * DurationLimit)) - DurationLimit

\* The difference of two times does not wrap: time.Sub stops at the extremes.
SaturateDuration(seconds) ==
    IF seconds >= DurationLimit THEN DurationLimit - 1
    ELSE IF seconds < -DurationLimit THEN -DurationLimit
    ELSE seconds

\* types.AssetSupply.  The amounts are sdk.Int, which cannot be negative in
\* an sdk.Coin; the elapsed time is an int64 that nothing checks.
SupplyRecord == [found : BOOLEAN, incoming : Nat, outgoing : Nat, current : Nat,
                 timeLimitedCurrent : Nat, timeElapsed : Int]

\* types.AssetParam and its SupplyLimit; the time period is an unchecked int64.
AssetParam(addresses) ==
              [listed : BOOLEAN, active : BOOLEAN, deputy : addresses,
               limit : Nat, timeLimited : BOOLEAN, timePeriod : Int,
               timeBasedLimit : Nat, fixedFee : Nat,
               minSwapAmount : Nat, maxSwapAmount : Nat]

\* The conditions of validateAssetParams that relate the fields kept here.
ValidAssetParam(asset) ==
    asset.listed => /\ asset.timeBasedLimit <= asset.limit
                    /\ asset.minSwapAmount > 0
                    /\ asset.minSwapAmount <= asset.maxSwapAmount

\* Supported and not paused.
ValidateLiveAsset(asset) == asset.listed /\ asset.active

CreateNewAssetSupply ==
    [found |-> TRUE, incoming |-> 0, outgoing |-> 0, current |-> 0,
     timeLimitedCurrent |-> 0, timeElapsed |-> 0]

NoSupply == [CreateNewAssetSupply EXCEPT !.found = FALSE]

-------------------------------------------------------------------------------
(* Incoming supply: reserved by the creation of an incoming swap.          *)

CanIncrementIncomingNoReserve(supply, asset, amount) ==
    /\ supply.found /\ asset.listed
    /\ supply.current + amount <= asset.limit
    /\ asset.timeLimited =>
          supply.timeLimitedCurrent + amount <= asset.timeBasedLimit

CanIncrementIncoming(supply, asset, amount) ==
    /\ supply.found /\ asset.listed
    /\ supply.current + supply.incoming + amount <= asset.limit
    /\ asset.timeLimited =>
          supply.timeLimitedCurrent + supply.incoming + amount <= asset.timeBasedLimit

IncrementIncoming(supply, amount) ==
    [supply EXCEPT !.incoming = @ + amount]

CanDecrementIncoming(supply, amount) ==
    supply.found /\ supply.incoming - amount >= 0

DecrementIncomingForgotten(supply, amount) == supply

DecrementIncoming(supply, amount) ==
    [supply EXCEPT !.incoming = @ - amount]

-------------------------------------------------------------------------------
(* Current supply: raised by the claim of an incoming swap, lowered by the *)
(* claim of an outgoing one.                                               *)

CanIncrementCurrentUnlimited(supply, asset, amount) ==
    supply.found /\ asset.listed

CanIncrementCurrent(supply, asset, amount) ==
    /\ supply.found /\ asset.listed
    /\ supply.current + amount <= asset.limit
    /\ asset.timeLimited =>
          supply.timeLimitedCurrent + amount <= asset.timeBasedLimit

IncrementCurrentNoWindow(supply, asset, amount) ==
    [supply EXCEPT !.current = @ + amount]

IncrementCurrent(supply, asset, amount) ==
    [supply EXCEPT !.current = @ + amount,
                   !.timeLimitedCurrent = IF asset.timeLimited THEN @ + amount ELSE @]

CanDecrementCurrent(supply, amount) ==
    supply.found /\ supply.current - amount >= 0

DecrementCurrentForgotten(supply, amount) == supply

DecrementCurrent(supply, amount) ==
    [supply EXCEPT !.current = @ - amount]

-------------------------------------------------------------------------------
(* Outgoing supply: reserved by the creation of an outgoing swap.          *)

CanIncrementOutgoingNoReserve(supply, amount) ==
    supply.found /\ amount <= supply.current

CanIncrementOutgoing(supply, amount) ==
    supply.found /\ supply.outgoing + amount <= supply.current

IncrementOutgoing(supply, amount) ==
    [supply EXCEPT !.outgoing = @ + amount]

CanDecrementOutgoing(supply, amount) ==
    supply.found /\ supply.outgoing - amount >= 0

DecrementOutgoingForgotten(supply, amount) == supply

DecrementOutgoing(supply, amount) ==
    [supply EXCEPT !.outgoing = @ - amount]

-------------------------------------------------------------------------------
(* The body of UpdateTimeBasedSupplyLimits' loop, for one listed asset.  A *)
(* record that is not found is NoSupply, so the record stored in its place *)
(* starts from the zeros of CreateNewAssetSupply.                          *)

UpdateWindowRestarted(supply, asset, elapsed) ==
    [supply EXCEPT !.found = TRUE, !.timeElapsed = 0, !.timeLimitedCurrent = 0]

UpdateWindowInclusive(supply, asset, elapsed) ==
    LET newTimeElapsed == WrapDuration(supply.timeElapsed + elapsed)
        running        == asset.timeLimited /\ newTimeElapsed <= asset.timePeriod
    IN  [supply EXCEPT !.found = TRUE,
                       !.timeElapsed = IF running THEN newTimeElapsed ELSE 0,
                       !.timeLimitedCurrent = IF running THEN @ ELSE 0]

UpdateWindow(supply, asset, elapsed) ==
    LET newTimeElapsed == WrapDuration(supply.timeElapsed + elapsed)
        running        == asset.timeLimited /\ newTimeElapsed < asset.timePeriod
    IN  [supply EXCEPT !.found = TRUE,
                       !.timeElapsed = IF running THEN newTimeElapsed ELSE 0,
                       !.timeLimitedCurrent = IF running THEN @ ELSE 0]
===============================================================================
