----------------------------- MODULE SwapMessages -----------------------------
(***************************************************************************)
(* The messages of swap.pb.go and tx.pb.go: swaps as they are stored and   *)
(* as queries return them, the three transactions and their responses.     *)
(* For each message: what it writes, with the tag bytes of the code; its   *)
(* Size; and the cases of its Unmarshal.                                   *)
(***************************************************************************)
EXTENDS Protobuf

\* sdk.Coin.
CoinCases      == << Bytes("Denom"), SdkInt("Amount") >>
MarshalCoin(c) == BytesField(10, c.Denom) \o Embedded(18, MarshalInt(c.Amount))
SizeCoin(c)    == BytesSize(c.Denom) + EmbeddedSize(Len(MarshalInt(c.Amount)))

-------------------------------------------------------------------------------

MarshalAtomicSwap(m) ==
    ListField(10, m.Amount, MarshalCoin) \o BytesField(18, m.RandomNumberHash)
    \o VarintField(24, m.ExpireTimestamp) \o VarintField(32, m.Timestamp)
    \o BytesField(42, m.Sender) \o BytesField(50, m.Recipient)
    \o BytesField(58, m.SenderOtherChain) \o BytesField(66, m.RecipientOtherChain)
    \o VarintField(72, m.ClosedBlock) \o VarintField(80, m.Status)
    \o BoolField(88, m.CrossChain) \o VarintField(96, m.Direction)

SizeAtomicSwap(m) ==
    ListSize(m.Amount, SizeCoin) + BytesSize(m.RandomNumberHash)
    + VarintSize(m.ExpireTimestamp) + VarintSize(m.Timestamp)
    + BytesSize(m.Sender) + BytesSize(m.Recipient)
    + BytesSize(m.SenderOtherChain) + BytesSize(m.RecipientOtherChain)
    + VarintSize(m.ClosedBlock) + VarintSize(m.Status)
    + BoolSize(m.CrossChain) + VarintSize(m.Direction)

AtomicSwapCases ==
    << List("Amount", CoinCases), Bytes("RandomNumberHash"), Int64("ExpireTimestamp"),
       Int64("Timestamp"), Bytes("Sender"), Bytes("Recipient"), Bytes("SenderOtherChain"),
       Bytes("RecipientOtherChain"), Int64("ClosedBlock"), Enum("Status"), Bool("CrossChain"),
       Enum("Direction") >>

-------------------------------------------------------------------------------

MarshalAugmentedAtomicSwap(m) ==
    BytesField(10, m.ID) \o ListField(18, m.Amount, MarshalCoin)
    \o BytesField(26, m.RandomNumberHash) \o VarintField(32, m.ExpireTimestamp)
    \o VarintField(40, m.Timestamp) \o BytesField(50, m.Sender) \o BytesField(58, m.Recipient)
    \o BytesField(66, m.SenderOtherChain) \o BytesField(74, m.RecipientOtherChain)
    \o VarintField(80, m.ClosedBlock) \o VarintField(88, m.Status)
    \o BoolField(96, m.CrossChain) \o VarintField(104, m.Direction)

SizeAugmentedAtomicSwap(m) ==
    BytesSize(m.ID) + ListSize(m.Amount, SizeCoin) + BytesSize(m.RandomNumberHash)
    + VarintSize(m.ExpireTimestamp) + VarintSize(m.Timestamp)
    + BytesSize(m.Sender) + BytesSize(m.Recipient)
    + BytesSize(m.SenderOtherChain) + BytesSize(m.RecipientOtherChain)
    + VarintSize(m.ClosedBlock) + VarintSize(m.Status)
    + BoolSize(m.CrossChain) + VarintSize(m.Direction)

AugmentedAtomicSwapCases ==
    << Bytes("ID"), List("Amount", CoinCases), Bytes("RandomNumberHash"),
       Int64("ExpireTimestamp"), Int64("Timestamp"), Bytes("Sender"), Bytes("Recipient"),
       Bytes("SenderOtherChain"), Bytes("RecipientOtherChain"), Int64("ClosedBlock"),
       Enum("Status"), Bool("CrossChain"), Enum("Direction") >>

MarshalAugmentedAtomicSwaps(m) == ListField(10, m.AugmentedAtomicSwaps, MarshalAugmentedAtomicSwap)

SizeAugmentedAtomicSwaps(m) == ListSize(m.AugmentedAtomicSwaps, SizeAugmentedAtomicSwap)

AugmentedAtomicSwapsCases == << List("AugmentedAtomicSwaps", AugmentedAtomicSwapCases) >>

-------------------------------------------------------------------------------

MarshalMsgCreateAtomicSwap(m) ==
    BytesField(10, m.From) \o BytesField(18, m.To) \o BytesField(26, m.RecipientOtherChain)
    \o BytesField(34, m.SenderOtherChain) \o BytesField(42, m.RandomNumberHash)
    \o VarintField(48, m.Timestamp) \o ListField(58, m.Amount, MarshalCoin)
    \o VarintField(64, m.TimeSpanMin)

SizeMsgCreateAtomicSwap(m) ==
    BytesSize(m.From) + BytesSize(m.To) + BytesSize(m.RecipientOtherChain)
    + BytesSize(m.SenderOtherChain) + BytesSize(m.RandomNumberHash)
    + VarintSize(m.Timestamp) + ListSize(m.Amount, SizeCoin) + VarintSize(m.TimeSpanMin)

MsgCreateAtomicSwapCases ==
    << Bytes("From"), Bytes("To"), Bytes("RecipientOtherChain"), Bytes("SenderOtherChain"),
       Bytes("RandomNumberHash"), Int64("Timestamp"), List("Amount", CoinCases),
       Int64("TimeSpanMin") >>

MarshalMsgClaimAtomicSwap(m) ==
    BytesField(10, m.From) \o BytesField(18, m.SwapID) \o BytesField(26, m.RandomNumber)

SizeMsgClaimAtomicSwap(m) ==
    BytesSize(m.From) + BytesSize(m.SwapID) + BytesSize(m.RandomNumber)

MsgClaimAtomicSwapCasesSwapped == << Bytes("From"), Bytes("RandomNumber"), Bytes("SwapID") >>

MsgClaimAtomicSwapCases == << Bytes("From"), Bytes("SwapID"), Bytes("RandomNumber") >>

MarshalMsgRefundAtomicSwap(m) == BytesField(10, m.From) \o BytesField(18, m.SwapID)

SizeMsgRefundAtomicSwap(m) == BytesSize(m.From) + BytesSize(m.SwapID)

MsgRefundAtomicSwapCases == << Bytes("From"), Bytes("SwapID") >>

MarshalPrevBlockTime(m) == Embedded(10, MarshalStdTime(m.Val))

SizePrevBlockTime(m) == EmbeddedSize(SizeOfStdTime(m.Val))

PrevBlockTimeCases == << StdTime("Val") >>

-------------------------------------------------------------------------------
(* tx.pb.go.                                                               *)

MarshalMsgCreateAtomicSwapResponse(m) ==
    BytesField(10, m.RandomNumberHash) \o BytesField(18, m.SwapID)

SizeMsgCreateAtomicSwapResponse(m) == BytesSize(m.RandomNumberHash) + BytesSize(m.SwapID)

MsgCreateAtomicSwapResponseCases == << Bytes("RandomNumberHash"), Bytes("SwapID") >>

MarshalMsgClaimAtomicSwapResponse(m) ==
    BytesField(10, m.RandomNumberHash) \o VarintField(16, m.Timestamp)

SizeMsgClaimAtomicSwapResponse(m) == BytesSize(m.RandomNumberHash) + VarintSize(m.Timestamp)

MsgClaimAtomicSwapResponseCases == << Bytes("RandomNumberHash"), Int64("Timestamp") >>

MarshalMsgRefundAtomicSwapResponse(m) ==
    BytesField(10, m.RandomNumberHash) \o VarintField(16, m.Timestamp)

SizeMsgRefundAtomicSwapResponse(m) == BytesSize(m.RandomNumberHash) + VarintSize(m.Timestamp)

MsgRefundAtomicSwapResponseCases == << Bytes("RandomNumberHash"), Int64("Timestamp") >>
===============================================================================
