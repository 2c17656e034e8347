----------------------------- MODULE QueryMessages -----------------------------
(***************************************************************************)
(* The messages of query.pb.go: the four queries of the gRPC service with  *)
(* their answers, and the parameters of the legacy querier's.              *)
(***************************************************************************)
EXTENDS GenesisMessages

MarshalQueryAssetSupplyRequest(m) == BytesField(10, m.Denom)

SizeQueryAssetSupplyRequest(m) == BytesSize(m.Denom)

QueryAssetSupplyRequestCases == << Bytes("Denom") >>

MarshalQueryAssetSupplyResponse(m) == Embedded(10, MarshalAssetSupply(m.Supply))

SizeQueryAssetSupplyResponse(m) == EmbeddedSize(SizeAssetSupply(m.Supply))

QueryAssetSupplyResponseCases == << Message("Supply", AssetSupplyCases) >>

MarshalQueryAssetSuppliesRequest(m) == <<>>

SizeQueryAssetSuppliesRequest(m) == 0

QueryAssetSuppliesRequestCases == <<>>

MarshalQueryAssetSuppliesResponse(m) == Embedded(10, MarshalAssetSupplies(m.Supplies))

SizeQueryAssetSuppliesResponse(m) == EmbeddedSize(SizeAssetSupplies(m.Supplies))

QueryAssetSuppliesResponseCases == << Message("Supplies", AssetSuppliesCases) >>

-------------------------------------------------------------------------------

MarshalQuerySwapRequest(m) == BytesField(10, m.SwapID)

SizeQuerySwapRequest(m) == BytesSize(m.SwapID)

QuerySwapRequestCases == << Bytes("SwapID") >>

MarshalQuerySwapResponse(m) == Embedded(10, MarshalAtomicSwap(m.Swap))

SizeQuerySwapResponse(m) == EmbeddedSize(SizeAtomicSwap(m.Swap))

QuerySwapResponseCases == << Message("Swap", AtomicSwapCases) >>

MarshalQueryAtomicSwaps(m) ==
    VarintField(8, m.Page) \o VarintField(16, m.Limit) \o BytesField(26, m.Involve)
    \o VarintField(32, m.Expiration) \o VarintField(40, m.Status) \o VarintField(48, m.Direction)

SizeQueryAtomicSwaps(m) ==
    VarintSize(m.Page) + VarintSize(m.Limit) + BytesSize(m.Involve)
    + VarintSize(m.Expiration) + VarintSize(m.Status) + VarintSize(m.Direction)

QueryAtomicSwapsCases ==
    << Int64("Page"), Int64("Limit"), Bytes("Involve"), Int64("Expiration"), Enum("Status"),
       Enum("Direction") >>

\* The one pointer: nil (<<>>) asks for all swaps, a query (<<q>>) for a page.
MarshalQuerySwapsRequest(m) == ListField(10, m.Params, MarshalQueryAtomicSwaps)

SizeQuerySwapsRequest(m) == ListSize(m.Params, SizeQueryAtomicSwaps)

QuerySwapsRequestCases == << Pointer("Params", QueryAtomicSwapsCases) >>

MarshalQuerySwapsResponse(m) == Embedded(10, MarshalAugmentedAtomicSwaps(m.Swaps))

SizeQuerySwapsResponse(m) == EmbeddedSize(SizeAugmentedAtomicSwaps(m.Swaps))

QuerySwapsResponseCases == << Message("Swaps", AugmentedAtomicSwapsCases) >>

-------------------------------------------------------------------------------

MarshalQueryAssetSupply(m) == BytesField(10, m.Denom)

SizeQueryAssetSupply(m) == BytesSize(m.Denom)

QueryAssetSupplyCases == << Bytes("Denom") >>

MarshalQueryAtomicSwapByID(m) == BytesField(10, m.SwapID)

SizeQueryAtomicSwapByID(m) == BytesSize(m.SwapID)

QueryAtomicSwapByIDCases == << Bytes("SwapID") >>

MarshalQueryAssetSupplies(m) == VarintField(8, m.Page) \o VarintField(16, m.Limit)

SizeQueryAssetSupplies(m) == VarintSize(m.Page) + VarintSize(m.Limit)

QueryAssetSuppliesCases == << Int64("Page"), Int64("Limit") >>
===============================================================================
