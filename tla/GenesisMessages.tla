---------------------------- MODULE GenesisMessages ----------------------------
(***************************************************************************)
(* The messages of genesis.pb.go: the parameters, the supply records as    *)
(* they are stored, and the genesis state.                                 *)
(***************************************************************************)
EXTENDS SwapMessages

\* A number, embedded in any message.
IntField(tag, i) == Embedded(tag, MarshalInt(i))
IntSize(i)       == EmbeddedSize(Len(MarshalInt(i)))

MarshalSupplyLimit(m) ==
    IntField(10, m.Limit) \o BoolField(16, m.TimeLimited)
    \o VarintField(24, m.TimePeriod) \o IntField(34, m.TimeBasedLimit)

SizeSupplyLimit(m) ==
    IntSize(m.Limit) + BoolSize(m.TimeLimited) + VarintSize(m.TimePeriod) + IntSize(m.TimeBasedLimit)

SupplyLimitCases ==
    << SdkInt("Limit"), Bool("TimeLimited"), Int64("TimePeriod"), SdkInt("TimeBasedLimit") >>

-------------------------------------------------------------------------------

MarshalAssetParam(m) ==
    BytesField(10, m.Denom) \o VarintField(16, m.CoinID)
    \o Embedded(26, MarshalSupplyLimit(m.SupplyLimit)) \o BoolField(32, m.Active)
    \o BytesField(42, m.DeputyAddress) \o IntField(50, m.FixedFee)
    \o IntField(58, m.MinSwapAmount) \o IntField(66, m.MaxSwapAmount)
    \o VarintField(72, m.SwapTimestamp) \o VarintField(80, m.SwapTimeSpanMin)

SizeAssetParam(m) ==
    BytesSize(m.Denom) + VarintSize(m.CoinID) + EmbeddedSize(SizeSupplyLimit(m.SupplyLimit))
    + BoolSize(m.Active) + BytesSize(m.DeputyAddress) + IntSize(m.FixedFee)
    + IntSize(m.MinSwapAmount) + IntSize(m.MaxSwapAmount)
    + VarintSize(m.SwapTimestamp) + VarintSize(m.SwapTimeSpanMin)

AssetParamCases ==
    << Bytes("Denom"), Int64("CoinID"), Message("SupplyLimit", SupplyLimitCases), Bool("Active"),
       Bytes("DeputyAddress"), SdkInt("FixedFee"), SdkInt("MinSwapAmount"), SdkInt("MaxSwapAmount"),
       Int64("SwapTimestamp"), Int64("SwapTimeSpanMin") >>

MarshalParams(m) == ListField(10, m.AssetParams, MarshalAssetParam)

SizeParams(m) == ListSize(m.AssetParams, SizeAssetParam)

ParamsCases == << List("AssetParams", AssetParamCases) >>

-------------------------------------------------------------------------------

MarshalAssetSupply(m) ==
    Embedded(10, MarshalCoin(m.IncomingSupply)) \o Embedded(18, MarshalCoin(m.OutgoingSupply))
    \o Embedded(26, MarshalCoin(m.CurrentSupply))
    \o Embedded(34, MarshalCoin(m.TimeLimitedCurrentSupply)) \o VarintField(40, m.TimeElapsed)

SizeAssetSupply(m) ==
    EmbeddedSize(SizeCoin(m.IncomingSupply)) + EmbeddedSize(SizeCoin(m.OutgoingSupply))
    + EmbeddedSize(SizeCoin(m.CurrentSupply))
    + EmbeddedSize(SizeCoin(m.TimeLimitedCurrentSupply)) + VarintSize(m.TimeElapsed)

AssetSupplyCases ==
    << Message("IncomingSupply", CoinCases), Message("OutgoingSupply", CoinCases),
       Message("CurrentSupply", CoinCases), Message("TimeLimitedCurrentSupply", CoinCases),
       Int64("TimeElapsed") >>

MarshalAssetSupplies(m) == ListField(10, m.AssetSupplies, MarshalAssetSupply)

SizeAssetSupplies(m) == ListSize(m.AssetSupplies, SizeAssetSupply)

AssetSuppliesCases == << List("AssetSupplies", AssetSupplyCases) >>

-------------------------------------------------------------------------------

MarshalGenesisState(m) ==
    Embedded(10, MarshalParams(m.Params)) \o ListField(18, m.AtomicSwaps, MarshalAtomicSwap)
    \o Embedded(26, MarshalAssetSupplies(m.Supplies))
    \o Embedded(34, MarshalStdTime(m.PreviousBlockTime))

SizeGenesisState(m) ==
    EmbeddedSize(SizeParams(m.Params)) + ListSize(m.AtomicSwaps, SizeAtomicSwap)
    + EmbeddedSize(SizeAssetSupplies(m.Supplies)) + EmbeddedSize(SizeOfStdTime(m.PreviousBlockTime))

GenesisStateCases ==
    << Message("Params", ParamsCases), List("AtomicSwaps", AtomicSwapCases),
       Message("Supplies", AssetSuppliesCases), StdTime("PreviousBlockTime") >>
===============================================================================
