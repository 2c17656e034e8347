--------------------------- MODULE MCMessageTransfer ---------------------------
(***************************************************************************)
(* Messages of every type: empty, filled, and with the numbers and lengths *)
(* at which the encoding changes its shape.  A word has 15 bits: two       *)
(* groups of 7 and one bit, as 64 bits are nine groups and one bit.        *)
(***************************************************************************)
EXTENDS MessageTransfer, Unmarshalling

FirstSecond == 0 - 8000

Text   == <<97, 98>>
Digits == <<49, 48>>
Minus  == <<45, 53>>
Long   == [i \in 1 .. 130 |-> 97]

MinInt == -1 - MaxInt
Ints   == {1, 127, 128, MaxInt, MinInt, 0 - 1}

Coin(denom, amount) == [Denom |-> denom, Amount |-> amount]
NoCoin == Coin(<<>>, <<48>>)
Times  == {ZeroTime, [seconds |-> 0, nanos |-> 0], [seconds |-> 0 - 1, nanos |-> NanosPerSecond - 1]}

Swap(coins, text, n, status, crossChain) ==
    [Amount |-> coins, RandomNumberHash |-> text, ExpireTimestamp |-> n, Timestamp |-> n,
     Sender |-> text, Recipient |-> text, SenderOtherChain |-> text, RecipientOtherChain |-> text,
     ClosedBlock |-> n, Status |-> status, CrossChain |-> crossChain, Direction |-> status]

AtomicSwaps ==
    {New(AtomicSwapCases), Swap(<<Coin(Text, Digits), Coin(Text, Minus)>>, <<0>>, 1, 1, TRUE),
     Swap(<<Coin(<<>>, Digits)>>, <<>>, MinInt, 255, FALSE),
     [New(AtomicSwapCases) EXCEPT !["Sender"] = Long, !["Status"] = 3]}
    \cup {[New(AtomicSwapCases) EXCEPT !["ClosedBlock"] = n] : n \in Ints}

Augmented(id, swap) ==
    [name \in DOMAIN swap \cup {"ID"} |-> IF name = "ID" THEN id ELSE swap[name]]

Limits == [Limit : {Digits, <<48>>}, TimeLimited : BOOLEAN, TimePeriod : {0, 128}, TimeBasedLimit : {Minus}]

Param(text, limit, active, n) ==
    [Denom |-> text, CoinID |-> n, SupplyLimit |-> limit, Active |-> active, DeputyAddress |-> text,
     FixedFee |-> Digits, MinSwapAmount |-> <<49>>, MaxSwapAmount |-> Digits,
     SwapTimestamp |-> n, SwapTimeSpanMin |-> n]
AssetParams == {Param(text, limit, text = Text, 1) : text \in {<<>>, Text}, limit \in Limits}
SomeParams  == {<<>>} \cup {<<p>> : p \in AssetParams} \cup {<<p, p>> : p \in AssetParams}

Record(coin, n) ==
    [IncomingSupply |-> coin, OutgoingSupply |-> NoCoin, CurrentSupply |-> coin,
     TimeLimitedCurrentSupply |-> NoCoin, TimeElapsed |-> n]
AssetSupplyRecords == {Record(coin, n) : coin \in {NoCoin, Coin(Text, Digits)}, n \in Ints \cup {0}}
SomeSupplies == [AssetSupplies : {<<>>, <<Record(NoCoin, 0)>>, <<Record(NoCoin, 1), Record(Coin(Text, Digits), 0)>>}]

SwapQueries ==
    [Page : {0, 1, 0 - 1}, Limit : {0, 100}, Involve : {<<>>, Text}, Expiration : {0, MaxInt},
     Status : {0, 3}, Direction : {0, 2}]

SomeMessages ==
    [AtomicSwap           |-> AtomicSwaps,
     AugmentedAtomicSwap  |-> {Augmented(id, s) : id \in {<<>>, Text}, s \in AtomicSwaps},
     AugmentedAtomicSwaps |-> [AugmentedAtomicSwaps :
                                  {<<>>} \cup {<<Augmented(Text, s), Augmented(<<>>, s)>> : s \in AtomicSwaps}],
     MsgCreateAtomicSwap  |-> [From : {<<>>, Text}, To : {Text}, RecipientOtherChain : {Text},
                               SenderOtherChain : {<<>>, Text}, RandomNumberHash : {Text},
                               Timestamp : {0, 1}, Amount : {<<>>, <<Coin(Text, Digits)>>},
                               TimeSpanMin : Ints],
     MsgClaimAtomicSwap   |-> [From : {<<>>, Text}, SwapID : {<<>>, <<1>>}, RandomNumber : {<<>>, <<2, 0>>}],
     MsgRefundAtomicSwap  |-> [From : {<<>>, Text}, SwapID : {<<>>, <<1>>}],
     PrevBlockTime        |-> [Val : Times],
     MsgCreateAtomicSwapResponse |-> [RandomNumberHash : {<<>>, Text}, SwapID : {<<>>, Text}],
     MsgClaimAtomicSwapResponse  |-> [RandomNumberHash : {<<>>, Text}, Timestamp : {0, 1}],
     MsgRefundAtomicSwapResponse |-> [RandomNumberHash : {<<>>, Text}, Timestamp : {0, 1}],
     SupplyLimit   |-> Limits,
     AssetParam    |-> AssetParams,
     Params        |-> [AssetParams : SomeParams],
     AssetSupply   |-> AssetSupplyRecords,
     AssetSupplies |-> SomeSupplies,
     GenesisState  |-> [Params : [AssetParams : {<<>>, <<Param(Text, CHOOSE l \in Limits : TRUE, TRUE, 1)>>}],
                        AtomicSwaps : {<<>>} \cup {<<s>> : s \in AtomicSwaps},
                        Supplies : SomeSupplies, PreviousBlockTime : Times],
     QueryAssetSupplyRequest    |-> [Denom : {<<>>, Text}],
     QueryAssetSupplyResponse   |-> [Supply : AssetSupplyRecords],
     QueryAssetSuppliesRequest  |-> {New(QueryAssetSuppliesRequestCases)},
     QueryAssetSuppliesResponse |-> [Supplies : SomeSupplies],
     QuerySwapRequest    |-> [SwapID : {<<>>, <<0, 255>>}],
     QuerySwapResponse   |-> [Swap : AtomicSwaps],
     QuerySwapsRequest   |-> [Params : {<<>>} \cup {<<q>> : q \in SwapQueries}],
     QuerySwapsResponse  |-> [Swaps : [AugmentedAtomicSwaps : {<<>>} \cup {<<Augmented(Text, s)>> : s \in AtomicSwaps}]],
     QueryAssetSupply    |-> [Denom : {<<>>, Text}],
     QueryAtomicSwapByID |-> [SwapID : {<<>>, Text}],
     QueryAssetSupplies  |-> [Page : Ints, Limit : {0, 100}],
     QueryAtomicSwaps    |-> SwapQueries]

\* Field 15 as a varint, as bytes, as 4 and 8 bytes, and as a group that holds a
\* field and a group.
SomeUnknownFields ==
    {<<120, 150, 1>>, <<122, 2, 8, 1>>, <<125, 1, 2, 3, 4>>, <<121, 1, 2, 3, 4, 5, 6, 7, 8>>,
     <<123, 8, 1, 11, 12, 124>>}
===============================================================================
