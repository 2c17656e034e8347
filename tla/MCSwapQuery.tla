------------------------------ MODULE MCSwapQuery ------------------------------
(***************************************************************************)
(* Stores of up to three swaps and two supplies, questions with every      *)
(* combination of filters, records that are there and that are not, and    *)
(* pages shorter and longer than the store.                                *)
(***************************************************************************)
EXTENDS SwapQuery

Listed(sender, recipient, expire, status, direction) ==
    [sender |-> sender, recipient |-> recipient, expire |-> expire,
     status |-> status, direction |-> direction]

SomeSwaps ==
    {Listed("a", "b", 1, "Open", "Incoming"), Listed("b", "a", 2, "Open", "Outgoing"),
     Listed("b", "b", 2, "Completed", "Incoming"), Listed("a", "b", 2, "Expired", "Outgoing"),
     Listed("b", "a", 1, "Expired", "Incoming")}

SomeStores ==
    [swaps : UNION {[1 .. n -> SomeSwaps] : n \in 0 .. 3}, supplies : {<<"gold">>}]
        \cup [swaps : {<<>>}, supplies : {<<>>, <<"gold", "silver">>}]

SomeQuestions ==
    [rpc : {"Swaps"}, involve : {"", "a"}, expiration : {0, 1}, status : {"", "open", "Expired", "out"},
     direction : {"", "I", "out", "sideways"}, limit : {0, 1, 2}]
        \cup [rpc : {"Swap"}, swapID : {1, 3}]
        \cup [rpc : {"AssetSupply"}, denom : {"gold", "silver"}]
        \cup [rpc : {"AssetSupplies"}]
===============================================================================
