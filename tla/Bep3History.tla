------------------------------ MODULE Bep3History ------------------------------
(***************************************************************************)
(* Bep3 with a memory: what the store forgets when it deletes a swap or    *)
(* starts a new time window, remembered by two history variables that no   *)
(* action reads.                                                           *)
(***************************************************************************)
EXTENDS Bep3

VARIABLES
    opened,   \* every <<ID, timestamp>> under which a swap was ever opened
    minted    \* how much of each coin was minted at each second

hvars == <<vars, opened, minted>>

Opens(id) == swaps[id].status = "NULL" /\ swaps'[id].status = "Open"

Mints(d) == IF bankSupply'[d] > bankSupply[d] THEN bankSupply'[d] - bankSupply[d] ELSE 0

HInit ==
    /\ Init
    /\ opened = {}
    /\ minted = [d \in Denoms |-> [t \in GenesisTime .. MaxTime |-> 0]]

Remember ==
    /\ opened' = opened \cup {<<id, swaps'[id].timestamp>> : id \in {i \in SwapIDs : Opens(i)}}
    /\ minted' = [d \in Denoms |-> [minted[d] EXCEPT ![blockTime] = @ + Mints(d)]]

HNext == FixedNext /\ Remember

HSpec == HInit /\ [][HNext]_hvars

-------------------------------------------------------------------------------

\* A swap ID is never opened twice with one timestamp, though a completed swap
\* is forgotten: it is stored for longer than its timestamp is accepted.  The
\* secret that a claim revealed unlocks no later swap, since a claim's hash
\* covers the timestamp of the stored swap (swap_trx.go:153).
OpenedOnce ==
    [][\A id \in SwapIDs : Opens(id) => <<id, swaps'[id].timestamp>> \notin opened]_hvars

\* Whatever the times of the blocks, no stretch of an asset's time period sees
\* more than two windows' limits minted: the windows of asset.go:175 begin at
\* blocks, at least a period apart.
MintedBetween(d, first, last) == SumFunctionOnSet(minted[d], first .. last)

MintRateBounded ==
    \A d \in Denoms : params[d].timeLimited =>
        \A t \in GenesisTime .. MaxTime :
            LET last == Min({t + params[d].timePeriod - 1, MaxTime})
            IN  MintedBetween(d, t, last) <= 2 * params[d].timeBasedLimit

\* Nor does a window last longer than its period: what it counts against the
\* limit was minted less than a period ago, as long as neither the elapsed time
\* nor the period comes near the end of an int64 (asset.go:175).
WindowsEnd ==
    \A d \in Denoms : params[d].timeLimited =>
        supplies[d].timeLimitedCurrent
            <= MintedBetween(d, Max({GenesisTime, blockTime - params[d].timePeriod + 1}), blockTime)
===============================================================================
