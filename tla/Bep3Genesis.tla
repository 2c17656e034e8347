------------------------------ MODULE Bep3Genesis ------------------------------
(***************************************************************************)
(* InitGenesis and ExportGenesis: Bep3 started from a genesis file, and    *)
(* Bep3 stopped, exported and started again.  A file is                    *)
(*   [params, swaps, supplies, prevBlockTime]                              *)
(* with the list of swaps as a set of pairs <<ID, swap>> and the list of   *)
(* supplies as a set of pairs <<denom, record>>.                           *)
(***************************************************************************)
EXTENDS Bep3

CONSTANTS
    OneDay,        \* the age of a timestamp that AtomicSwap.Validate accepts
    Downtimes,     \* seconds between the last block and the import
    GenesisFiles   \* files written by hand

ASSUME RestartAssumption ==
    OneDay \in Nat /\ Downtimes \subseteq Nat

-------------------------------------------------------------------------------
(* GenesisState.Validate, AtomicSwap.Validate and the checks of InitGenesis.*)

NoDuplicates(entries) == \A e, f \in entries : e[1] = f[1] => e = f

\* An address on the other chain of nothing but white space.
Blank == ""

\* The amount is any list of coins that names no denom twice.  The age is
\* measured by the clock of the importing node (swap.go:69).  A blank address of
\* the sender is refused here, and accepted by MsgCreateAtomicSwap; a blank one
\* of the recipient is refused by both.
ValidSwap(id, swap, clock) ==
    /\ swap.others[swap.denom] = 0
    /\ id.chain # Blank
    /\ swap.expire # 0 /\ swap.timestamp # 0
    /\ clock <= swap.timestamp + OneDay
    /\ swap.status = "Completed" => swap.closedBlock # 0

Validate(gs, clock) ==
    /\ \A d \in Denoms : ValidAssetParam(gs.params[d])
    /\ NoDuplicates(gs.swaps) /\ NoDuplicates(gs.supplies)
    /\ \A e \in gs.swaps : ValidSwap(e[1], e[2], clock)

\* The amount of a denom in the sum of all the coins of the entries.
AmountOf(entries, d) == SumFunction([e \in entries |-> Coins(e[2])[d]])

ReservedByOpen(gs, d, direction) ==
    AmountOf({e \in gs.swaps : e[2].status = "Open" /\ e[2].direction = direction}, d)

\* incomingSupplies and outgoingSupplies: the coins of the unsettled swaps.
Reserved(gs, d, direction) ==
    AmountOf({e \in gs.swaps : IsLive(e[2]) /\ e[2].direction = direction}, d)

\* The final loop, over the supply records the file has.
ValidSupplyUnmatched(gs, d, supply) ==
    /\ gs.params[d].listed
    /\ supply.incoming + supply.current <= gs.params[d].limit
    /\ supply.outgoing <= gs.params[d].limit

ValidSupply(gs, d, supply) ==
    /\ supply.incoming = Reserved(gs, d, "Incoming")
    /\ supply.outgoing = Reserved(gs, d, "Outgoing")
    /\ gs.params[d].listed
    /\ supply.incoming + supply.current <= gs.params[d].limit
    /\ supply.outgoing <= gs.params[d].limit

\* Only the first coin of a swap has to be of a live asset.
CanImport(gs, clock) ==
    /\ Validate(gs, clock)
    /\ \A e \in gs.swaps : ValidateLiveAsset(gs.params[e[2].denom])
    /\ \A s \in gs.supplies : ValidSupply(gs, s[1], s[2])

-------------------------------------------------------------------------------
(* What InitGenesis writes to an empty store.                              *)

Lookup(entries, key, absent) ==
    IF \E e \in entries : e[1] = key THEN (CHOOSE e \in entries : e[1] = key)[2] ELSE absent

ImportedSwaps(gs)    == [id \in SwapIDs |-> Lookup(gs.swaps, id, NoSwap)]
ImportedSupplies(gs) == [d \in Denoms |-> Lookup(gs.supplies, d, NoSupply)]

ImportedByTimestampNone(gs) == {}

ImportedByTimestamp(gs) ==
    {<<e[2].expire, e[1]>> : e \in {f \in gs.swaps : f[2].status = "Open"}}

ImportedLongtermAll(gs) ==
    {<<DeletionHeight(e[2]), e[1]>> : e \in gs.swaps}

ImportedLongterm(gs) ==
    {<<DeletionHeight(e[2]), e[1]>> : e \in {f \in gs.swaps : f[2].status = "Completed"}}

GetAllAtomicSwaps   == {<<id, swaps[id]>> : id \in {i \in SwapIDs : Stored(i)}}
GetAllAssetSupplies == {<<d, supplies[d]>> : d \in {c \in Denoms : supplies[c].found}}

ExportGenesis ==
    [params        |-> params,
     swaps         |-> GetAllAtomicSwaps,
     supplies      |-> GetAllAssetSupplies,
     prevBlockTime |-> IF prevBlockTime = NoTime THEN 0 ELSE prevBlockTime]

-------------------------------------------------------------------------------
(* A chain started from a file.  The bank's genesis is another module's:   *)
(* that the module account holds what the outgoing swaps have in escrow,   *)
(* and the bank's total counts it, is assumed, nothing checks it.          *)

ImportInit ==
    \E gs \in GenesisFiles, downtime \in Downtimes :
        /\ CanImport(gs, GenesisTime + downtime)
        /\ swaps = ImportedSwaps(gs)
        /\ byTimestamp = ImportedByTimestamp(gs) /\ longterm = ImportedLongterm(gs)
        /\ supplies = ImportedSupplies(gs)
        /\ params = gs.params /\ prevBlockTime = gs.prevBlockTime
        /\ accounts = {u \in Users : \E d \in Denoms : GenesisBalances[u][d] > 0}
        /\ balances = GenesisBalances
        /\ escrow = [d \in Denoms |-> Reserved(gs, d, "Outgoing")]
        /\ bankSupply = AddCoins(GenesisBankSupply, escrow)
        /\ maccPerms \in GenesisPerms
        /\ blockTime = GenesisTime /\ height = 0 /\ inBlock = FALSE

-------------------------------------------------------------------------------
(* A chain stopped after a block, whose EndBlockers may have changed the   *)
(* params, exported, and started again from the export `downtime' seconds  *)
(* later, at the height it had reached or at 0.  The other modules' state  *)
(* is exported and imported by them.                                       *)

Restart(downtime) ==
    LET gs == ExportGenesis
    IN  /\ height > 0
        /\ inBlock' = FALSE
        /\ height' \in {0, height}
        /\ CanImport(gs, blockTime + downtime)
        /\ swaps' = ImportedSwaps(gs)
        /\ byTimestamp' = ImportedByTimestamp(gs) /\ longterm' = ImportedLongterm(gs)
        /\ supplies' = ImportedSupplies(gs)
        /\ params' = gs.params /\ prevBlockTime' = gs.prevBlockTime
        /\ UNCHANGED <<accounts, bank, maccPerms, blockTime>>

RestartNext == Next \/ (\E downtime \in Downtimes : Restart(downtime))

ImportSpec == ImportInit /\ [][RestartNext]_vars

-------------------------------------------------------------------------------
(* Properties.                                                             *)

\* ExportGenesis "writes the current store values to a genesis file, which can
\* be imported again with InitGenesis" (genesis.go:111): of every block's state.
ExportImportable ==
    height > 0 => \A downtime \in Downtimes : CanImport(ExportGenesis, blockTime + downtime)

\* Denoms that a file has beside the first coin of an unsettled swap.
FurtherDenoms ==
    {d \in Denoms : \E gs \in GenesisFiles : \E e \in gs.swaps : IsLive(e[2]) /\ e[2].others[d] > 0}

\* All the coins of a denom in the unsettled swaps of a direction.
TotalCoins(stored, ids, d) == SumFunction([id \in ids |-> Coins(stored[id])[d]])

UnsettledSwaps(stored, direction) ==
    {id \in SwapIDs : IsLive(stored[id]) /\ stored[id].direction = direction}

LiveCoins(d, direction) == TotalCoins(swaps, UnsettledSwaps(swaps, direction), d)

\* What InitGenesis has to find for it to accept a stored swap and a supply
\* again, though it accepted or created them once: time and governance decide.
Reimportable(id, clock) ==
    /\ id.chain # Blank /\ swaps[id].expire # 0
    /\ clock <= swaps[id].timestamp + OneDay
    /\ ValidateLiveAsset(params[swaps[id].denom])

HasRoom(d) ==
    /\ params[d].listed
    /\ supplies[d].incoming + supplies[d].current <= params[d].limit
    /\ supplies[d].outgoing <= params[d].limit

\* No settled swap has left a further coin of this denom behind in the supplies.
NothingLeftBehind(d) ==
    supplies[d].incoming = LiveCoins(d, "Incoming") /\ supplies[d].outgoing = LiveCoins(d, "Outgoing")

\* An export is refused only for a stored swap that is too old, has no address
\* abroad or no expire time, or whose first coin is of a paused or delisted asset;
\* for a supply that is over a limit since governance lowered it, or of a delisted
\* asset; or for further coins of a settled swap.  No order of messages, blocks,
\* governance and restarts adds a reason, least of all a supply that does not
\* match the swaps (genesis.go:78).
ExportAccepted ==
    height > 0 => \A downtime \in Downtimes :
        LET clock == blockTime + downtime
        IN  /\ \A id \in SwapIDs : Stored(id) => Reimportable(id, clock)
            /\ \A d \in Denoms : supplies[d].found =>
                  HasRoom(d) /\ (d \in FurtherDenoms => NothingLeftBehind(d))
            => CanImport(ExportGenesis, clock)

\* A restart loses nothing: the indexes, which the file does not have, are
\* rebuilt as they were, so every swap still expires and is deleted when due.
RestartKeepsStore ==
    [][(\E downtime \in Downtimes : Restart(downtime)) => UNCHANGED <<store, supplies, params>>]_vars

\* Of an accepted file too, with any number of coins to a swap, the supplies
\* cover what claims and refunds will release, the first coin of each swap; they
\* exceed it by the further coins of the file's swaps and by nothing else.
SuppliesCoverSwaps ==
    \A d \in Denoms :
        /\ LiveAmount(d, "Incoming") <= supplies[d].incoming
        /\ LiveAmount(d, "Outgoing") <= supplies[d].outgoing
        /\ d \notin FurtherDenoms => /\ supplies[d].incoming = LiveAmount(d, "Incoming")
                                     /\ supplies[d].outgoing = LiveAmount(d, "Outgoing")

\* The module account holds all the coins of the unsettled outgoing swaps and no
\* other, although the outgoing supply of a further coin is never released.
EscrowHoldsSwaps ==
    \A d \in Denoms : escrow[d] = LiveCoins(d, "Outgoing")

\* However a file combines swaps and supplies, once it is accepted every
\* unsettled swap can be refunded, with all its coins, when it expires.
UnsettledSwapsRefundable ==
    \A id \in SwapIDs : IsLive(swaps[id]) =>
        CASE swaps[id].direction = "Incoming" ->
                 CanDecrementIncoming(supplies[swaps[id].denom], swaps[id].amount)
          [] swaps[id].direction = "Outgoing" -> CanRelease(swaps[id])
===============================================================================
