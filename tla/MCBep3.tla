-------------------------------- MODULE MCBep3 --------------------------------
(***************************************************************************)
(* Small instances of Bep3.  A minute and a window are scaled to a few     *)
(* seconds, so that a swap is created, claimed or expired, refunded and    *)
(* deleted within the bound, with every order of the blocks between.       *)
(***************************************************************************)
EXTENDS Bep3

CONSTANTS deputy, alice, gold, silver, macc

Asset(limit, tbl, period, fee, min, max) ==
    [listed |-> TRUE, active |-> TRUE, deputy |-> deputy, limit |-> limit,
     timeLimited |-> period > 0, timePeriod |-> period, timeBasedLimit |-> tbl,
     fixedFee |-> fee, minSwapAmount |-> min, maxSwapAmount |-> max]

\* A store to which no InitGenesis has written the time of a previous block.
Absent == {NoTime}

Supply(current) == [CreateNewAssetSupply EXCEPT !.current = current]

\* One asset, limited to 4 coins, 2 of which a time window of 2 seconds admits.
\* Of the 4 coins in circulation only 2 came over a swap, so the asset's current
\* supply is less than what a user can pay.
OneAsset == [d \in Denoms |-> Asset(4, 2, 2, 0, 1, 2)]
OneAssetOnly == {OneAsset}
OneAssetSupplies == [d \in Denoms |-> Supply(2)]
OneAssetBalances == [u \in Users |-> [d \in Denoms |-> IF u = alice THEN 4 ELSE 0]]
OneAssetBank == [d \in Denoms |-> 4]

\* What governance may do to the asset: lower its limits below what is in
\* circulation, pause it, hand it to another deputy, drop its time window,
\* or take it off the list (then no asset is listed).
Lowered    == [d \in Denoms |-> [OneAsset[d] EXCEPT !.limit = 1, !.timeBasedLimit = 0]]
Paused     == [d \in Denoms |-> [OneAsset[d] EXCEPT !.active = FALSE]]
HandedOver == [d \in Denoms |-> [OneAsset[d] EXCEPT !.deputy = alice]]
Unwindowed == [d \in Denoms |-> [OneAsset[d] EXCEPT !.timeLimited = FALSE]]
Delisted   == [d \in Denoms |-> [OneAsset[d] EXCEPT !.listed = FALSE]]
GovernedAsset == {OneAsset, Lowered, Paused, HandedOver, Unwindowed, Delisted}

\* Two assets with deputies of their own, each of whom may swap the other's
\* asset as an ordinary user; silver has no time window.  The module was added
\* to a running chain, so its store is empty and the silver in circulation untracked.
TwoAssets == [d \in Denoms |->
    IF d = gold THEN Asset(3, 1, 2, 0, 1, 1)
    ELSE [Asset(3, 0, 0, 0, 1, 2) EXCEPT !.deputy = alice]]
TwoAssetsOnly == {TwoAssets}
EmptyStore == [d \in Denoms |-> NoSupply]
TwoAssetsBalances == [u \in Users |-> [d \in Denoms |-> IF u = deputy /\ d = silver THEN 2 ELSE 0]]
TwoAssetsBank == [d \in Denoms |-> IF d = gold THEN 0 ELSE 2]
===============================================================================
