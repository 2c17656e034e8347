------------------------------- MODULE Bep3HTLC -------------------------------
(***************************************************************************)
(* Bep3 implements HTLC: the statuses that BeginBlocker moves, the indexes *)
(* and the supplies are the means by which the deadlines are kept.         *)
(***************************************************************************)
EXTENDS Bep3

CONSTANT Abroad

ASSUME AbroadAssumption == Abroad \notin Users

\* An open and an expired swap are both locked contracts; which of the two a
\* swap is must follow from the clock.
ContractOf(id) ==
    IF ~ Stored(id) THEN [state |-> "none"]
    ELSE [state    |-> IF IsLive(swaps[id]) THEN "locked" ELSE "settled",
          payer    |-> IF swaps[id].direction = "Incoming" THEN Abroad ELSE id.sender,
          payee    |-> IF swaps[id].direction = "Incoming" THEN swaps[id].recipient ELSE Abroad,
          denom    |-> swaps[id].denom,
          amount   |-> swaps[id].amount,
          deadline |-> swaps[id].expire,
          keys     |-> {number \in Numbers : Unlocks(id, number)}]

Contracts == INSTANCE HTLC WITH
    IDs <- SwapIDs, Secrets <- Numbers, Times <- Nat,
    StartHoldings <- GenesisBalances, StartTime <- GenesisTime,
    contract <- [id \in SwapIDs |-> ContractOf(id)], holdings <- balances, now <- blockTime

\* Whatever blocks, users and governance do, every swap behaves as a hashed
\* time-locked contract: claimed only before its expire time and only with its
\* secret, refunded only from then on, paid once and to the right party.
ImplementsHTLC == Contracts!Spec
===============================================================================
