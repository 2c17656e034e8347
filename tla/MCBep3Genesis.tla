---------------------------- MODULE MCBep3Genesis -----------------------------
(***************************************************************************)
(* Small instances of Bep3Genesis.                                         *)
(***************************************************************************)
EXTENDS MCBep3, Bep3Genesis

\* Swaps of gold in each direction, and with an ounce of silver on top; a file
\* has at most two swaps.
GenesisID(timestamp, sender) == [number |-> "n1", hashTime |-> timestamp, sender |-> sender, chain |-> "c1"]

GenesisSwap(direction, status, amount, others, timestamp) ==
    [NewAtomicSwap(direction, gold, amount, timestamp, timestamp + 1,
                   IF direction = "Incoming" THEN alice ELSE deputy)
        EXCEPT !.status = status, !.closedBlock = IF status = "Completed" THEN 1 ELSE 0,
               !.others = others]

Entries(statuses, amounts, others) ==
    {<<GenesisID(timestamp, IF direction = "Incoming" THEN deputy ELSE alice),
       GenesisSwap(direction, status, amount, others, timestamp)>> :
        direction \in {"Incoming", "Outgoing"}, status \in statuses,
        amount \in amounts, timestamp \in Timestamps}

OneCoinEntries == Entries({"Open", "Completed", "Expired"}, Amounts, NoCoins)
TwoCoinEntries == Entries({"Open", "Expired"}, {1}, [NoCoins EXCEPT ![silver] = 1])

Files(genesisParams, entries, supplySets) ==
    [params : {genesisParams}, swaps : {{}} \cup {{e, f} : e \in entries, f \in entries},
     supplies : supplySets, prevBlockTime : {0}]

\* Silver is listed and paused: no swap of it can be created, and its record can
\* be in a file.  Gold is what governance pauses, delists or lowers the limit of.
GoldAndSilver == [d \in Denoms |->
    IF d = gold THEN OneAsset[d] ELSE [Asset(4, 0, 0, 0, 1, 2) EXCEPT !.active = FALSE]]
GoldPaused   == [GoldAndSilver EXCEPT ![gold].active = FALSE]
GoldDelisted == [GoldAndSilver EXCEPT ![gold].listed = FALSE]
GoldLowered  == [GoldAndSilver EXCEPT ![gold].limit = 1, ![gold].timeBasedLimit = 0]
GovernedGold == {GoldAndSilver, GoldPaused, GoldDelisted, GoldLowered}

\* Every record of supplies a file may claim.
Records(d, currents, amounts) ==
    {<<d, [Supply(current) EXCEPT !.incoming = incoming, !.outgoing = outgoing]>> :
        current \in currents, incoming \in amounts, outgoing \in amounts}

GoldRecords   == Records(gold, {0, 2}, 0 .. 4)
SilverRecords == Records(silver, {0}, 0 .. 2)

FilesWithSupplies    == Files(GoldAndSilver, OneCoinEntries \cup TwoCoinEntries,
                              {{r, s} : r \in GoldRecords, s \in SilverRecords}
                                  \cup {{r} : r \in GoldRecords})
FilesWithoutSupplies == Files(OneAsset, OneCoinEntries, {{}})
EmptyFile == {[params |-> OneAsset, swaps |-> {}, supplies |-> {<<gold, Supply(2)>>}, prevBlockTime |-> 0]}
===============================================================================
