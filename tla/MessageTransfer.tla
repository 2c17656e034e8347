---------------------------- MODULE MessageTransfer ----------------------------
(***************************************************************************)
(* A message on its way: written by the keeper, a client or a peer, held   *)
(* in the store or carried by the network, and read by a node that may     *)
(* know fewer of its fields than the writer.  What is carried may also be  *)
(* cut short or altered: the reader of a transaction or a query has no     *)
(* other guarantee about its bytes.                                        *)
(***************************************************************************)
EXTENDS QueryMessages

CONSTANTS
    Messages,        \* the messages of each type that are sent
    UnknownFields,   \* fields, tag and value, that only a newer writer knows
    Garbage,         \* bytes that may replace a byte of the message
    MaxGarbled       \* bound on the length of a message that is altered or cut

VARIABLES
    cases,     \* the message's type, as the cases of its Unmarshal
    sent,      \* the message
    data,      \* its bytes
    extended,  \* a field unknown to the reader was written among the others
    garbled,   \* the bytes were altered or cut
    phase,     \* "carried", "reading", "returned", or "panicked" when writing
    reader     \* what the loop of Unmarshal holds: [ok, iNdEx, m]

vars == <<cases, sent, data, extended, garbled, phase, reader>>

Start(c) == [ok |-> TRUE, iNdEx |-> 0, m |-> New(c)]

\* Marshal of a message of type c, which writes past the start of its buffer
\* when the Size computed for it is too small.
Marshalled(c, m, size, written) ==
    /\ cases = c /\ sent = m
    /\ data = Filled(size, written)
    /\ phase = IF FitsBuffer(size, written) THEN "carried" ELSE "panicked"

Init ==
    /\ \/ \E m \in Messages.AtomicSwap :
              Marshalled(AtomicSwapCases, m, SizeAtomicSwap(m), MarshalAtomicSwap(m))
       \/ \E m \in Messages.AugmentedAtomicSwap :
              Marshalled(AugmentedAtomicSwapCases, m, SizeAugmentedAtomicSwap(m), MarshalAugmentedAtomicSwap(m))
       \/ \E m \in Messages.AugmentedAtomicSwaps :
              Marshalled(AugmentedAtomicSwapsCases, m, SizeAugmentedAtomicSwaps(m), MarshalAugmentedAtomicSwaps(m))
       \/ \E m \in Messages.MsgCreateAtomicSwap :
              Marshalled(MsgCreateAtomicSwapCases, m, SizeMsgCreateAtomicSwap(m), MarshalMsgCreateAtomicSwap(m))
       \/ \E m \in Messages.MsgClaimAtomicSwap :
              Marshalled(MsgClaimAtomicSwapCases, m, SizeMsgClaimAtomicSwap(m), MarshalMsgClaimAtomicSwap(m))
       \/ \E m \in Messages.MsgRefundAtomicSwap :
              Marshalled(MsgRefundAtomicSwapCases, m, SizeMsgRefundAtomicSwap(m), MarshalMsgRefundAtomicSwap(m))
       \/ \E m \in Messages.PrevBlockTime :
              Marshalled(PrevBlockTimeCases, m, SizePrevBlockTime(m), MarshalPrevBlockTime(m))
       \/ \E m \in Messages.MsgCreateAtomicSwapResponse :
              Marshalled(MsgCreateAtomicSwapResponseCases, m, SizeMsgCreateAtomicSwapResponse(m),
                         MarshalMsgCreateAtomicSwapResponse(m))
       \/ \E m \in Messages.MsgClaimAtomicSwapResponse :
              Marshalled(MsgClaimAtomicSwapResponseCases, m, SizeMsgClaimAtomicSwapResponse(m),
                         MarshalMsgClaimAtomicSwapResponse(m))
       \/ \E m \in Messages.MsgRefundAtomicSwapResponse :
              Marshalled(MsgRefundAtomicSwapResponseCases, m, SizeMsgRefundAtomicSwapResponse(m),
                         MarshalMsgRefundAtomicSwapResponse(m))
       \/ \E m \in Messages.SupplyLimit :
              Marshalled(SupplyLimitCases, m, SizeSupplyLimit(m), MarshalSupplyLimit(m))
       \/ \E m \in Messages.AssetParam :
              Marshalled(AssetParamCases, m, SizeAssetParam(m), MarshalAssetParam(m))
       \/ \E m \in Messages.Params :
              Marshalled(ParamsCases, m, SizeParams(m), MarshalParams(m))
       \/ \E m \in Messages.AssetSupply :
              Marshalled(AssetSupplyCases, m, SizeAssetSupply(m), MarshalAssetSupply(m))
       \/ \E m \in Messages.AssetSupplies :
              Marshalled(AssetSuppliesCases, m, SizeAssetSupplies(m), MarshalAssetSupplies(m))
       \/ \E m \in Messages.GenesisState :
              Marshalled(GenesisStateCases, m, SizeGenesisState(m), MarshalGenesisState(m))
       \/ \E m \in Messages.QueryAssetSupplyRequest :
              Marshalled(QueryAssetSupplyRequestCases, m, SizeQueryAssetSupplyRequest(m),
                         MarshalQueryAssetSupplyRequest(m))
       \/ \E m \in Messages.QueryAssetSupplyResponse :
              Marshalled(QueryAssetSupplyResponseCases, m, SizeQueryAssetSupplyResponse(m),
                         MarshalQueryAssetSupplyResponse(m))
       \/ \E m \in Messages.QueryAssetSuppliesRequest :
              Marshalled(QueryAssetSuppliesRequestCases, m, SizeQueryAssetSuppliesRequest(m),
                         MarshalQueryAssetSuppliesRequest(m))
       \/ \E m \in Messages.QueryAssetSuppliesResponse :
              Marshalled(QueryAssetSuppliesResponseCases, m, SizeQueryAssetSuppliesResponse(m),
                         MarshalQueryAssetSuppliesResponse(m))
       \/ \E m \in Messages.QuerySwapRequest :
              Marshalled(QuerySwapRequestCases, m, SizeQuerySwapRequest(m), MarshalQuerySwapRequest(m))
       \/ \E m \in Messages.QuerySwapResponse :
              Marshalled(QuerySwapResponseCases, m, SizeQuerySwapResponse(m), MarshalQuerySwapResponse(m))
       \/ \E m \in Messages.QuerySwapsRequest :
              Marshalled(QuerySwapsRequestCases, m, SizeQuerySwapsRequest(m), MarshalQuerySwapsRequest(m))
       \/ \E m \in Messages.QuerySwapsResponse :
              Marshalled(QuerySwapsResponseCases, m, SizeQuerySwapsResponse(m), MarshalQuerySwapsResponse(m))
       \/ \E m \in Messages.QueryAssetSupply :
              Marshalled(QueryAssetSupplyCases, m, SizeQueryAssetSupply(m), MarshalQueryAssetSupply(m))
       \/ \E m \in Messages.QueryAtomicSwapByID :
              Marshalled(QueryAtomicSwapByIDCases, m, SizeQueryAtomicSwapByID(m), MarshalQueryAtomicSwapByID(m))
       \/ \E m \in Messages.QueryAssetSupplies :
              Marshalled(QueryAssetSuppliesCases, m, SizeQueryAssetSupplies(m), MarshalQueryAssetSupplies(m))
       \/ \E m \in Messages.QueryAtomicSwaps :
              Marshalled(QueryAtomicSwapsCases, m, SizeQueryAtomicSwaps(m), MarshalQueryAtomicSwaps(m))
    /\ extended = FALSE /\ garbled = FALSE
    /\ reader = Start(cases)

-------------------------------------------------------------------------------
(* The writer knows more fields, or the bytes do not arrive as they were   *)
(* sent.                                                                   *)

\* Where a field begins or the message ends.
IsBoundary(k) == Unmarshal(cases, SubSeq(data, 1, k), New(cases)).ok

Extend ==
    /\ phase = "carried" /\ ~ extended /\ ~ garbled
    /\ \E k \in 0 .. Len(data), field \in UnknownFields :
          /\ IsBoundary(k)
          /\ data' = SubSeq(data, 1, k) \o field \o SubSeq(data, k + 1, Len(data))
    /\ extended' = TRUE
    /\ UNCHANGED <<cases, sent, garbled, phase, reader>>

Garble ==
    /\ phase = "carried" /\ ~ garbled /\ Len(data) <= MaxGarbled
    /\ \/ \E k \in DOMAIN data, b \in Garbage : data' = [data EXCEPT ![k] = b]
       \/ \E k \in 0 .. Len(data) - 1 : data' = SubSeq(data, 1, k)
    /\ garbled' = TRUE
    /\ UNCHANGED <<cases, sent, extended, phase, reader>>

-------------------------------------------------------------------------------
(* Unmarshal of an empty message from the bytes.                           *)

Deliver ==
    /\ phase = "carried"
    /\ phase' = "reading"
    /\ UNCHANGED <<cases, sent, data, extended, garbled, reader>>

ReadNext ==
    /\ phase = "reading" /\ reader.ok /\ reader.iNdEx < Len(data)
    /\ reader' = ReadField(cases, data, reader)
    /\ UNCHANGED <<cases, sent, data, extended, garbled, phase>>

\* With an error, also when the index has passed the end.
Return ==
    /\ phase = "reading"
    /\ ~ reader.ok \/ reader.iNdEx >= Len(data)
    /\ phase' = "returned"
    /\ reader' = [reader EXCEPT !.ok = @ /\ reader.iNdEx = Len(data)]
    /\ UNCHANGED <<cases, sent, data, extended, garbled>>

Next == Extend \/ Garble \/ Deliver \/ ReadNext \/ Return

Spec == Init /\ [][Next]_vars

-------------------------------------------------------------------------------
(* Properties.                                                             *)

\* A buffer is a slice of bytes, as many as an int can count.
IsSlice == data \in Seq(Byte) /\ Len(data) <= MaxInt

\* A reader that has not failed stands within its buffer.
TypeOK ==
    /\ IsSlice
    /\ extended \in BOOLEAN /\ garbled \in BOOLEAN
    /\ phase \in {"carried", "reading", "returned", "panicked"}
    /\ reader = [ok |-> reader.ok, iNdEx |-> reader.iNdEx, m |-> reader.m]
    /\ reader.ok => reader.iNdEx \in 0 .. Len(data)

\* What is read is what was written, by a node of the same version and by one
\* that does not know all the fields: Marshal's tags, Size's count of bytes and
\* Unmarshal's cases agree for every type, negative numbers, empty fields and
\* lengths of two bytes included.  The keeper relies on it for every swap and
\* supply it stores.
MessagesArrive ==
    /\ phase # "panicked"
    /\ phase = "returned" /\ ~ garbled => reader.ok /\ reader.m = sent

\* Whatever bytes arrive, every pass of Unmarshal's loop moves the index forward
\* and never past the end, or ends in an error: reading a transaction or a query
\* of unknown origin terminates and touches no byte outside it.
ReaderAdvances ==
    [][phase = "reading" /\ phase' = "reading" /\ reader'.ok =>
          reader.iNdEx < reader'.iNdEx /\ reader'.iNdEx <= Len(data)]_vars
===============================================================================
