--------------------------------- MODULE HTLC ---------------------------------
(***************************************************************************)
(* What a swap promises: a hashed time-locked contract per ID.  A payer's  *)
(* coins are locked until a deadline; before it whoever knows the secret   *)
(* moves them to the payee, from it on they go back to the payer.  `Abroad'*)
(* is the other end of a payment that leaves or enters the chain: nothing  *)
(* is taken from it or given to it here.  There are no indexes, no         *)
(* supplies, no limits and no block: only the clock.                       *)
(***************************************************************************)
EXTENDS Integers

CONSTANTS IDs, Users, Abroad, Denoms, Secrets, Times, StartHoldings, StartTime

VARIABLES contract, holdings, now

NoContract == [state |-> "none"]

Contract == [state : {"locked", "settled"}, payer : Users \cup {Abroad}, payee : Users \cup {Abroad},
             denom : Denoms, amount : Nat, deadline : Int, keys : SUBSET Secrets]

Init ==
    /\ contract = [id \in IDs |-> NoContract]
    /\ holdings = StartHoldings
    /\ now = StartTime

\* The holdings after `amount' is given to a party, or taken if negative.
Paid(party, d, amount) ==
    IF party = Abroad THEN holdings ELSE [holdings EXCEPT ![party][d] = @ + amount]

Lock(id, c) ==
    /\ contract[id] = NoContract
    /\ c \in Contract /\ c.state = "locked"
    /\ now < c.deadline
    /\ c.payer # Abroad => c.amount <= holdings[c.payer][c.denom]
    /\ contract' = [contract EXCEPT ![id] = c]
    /\ holdings' = Paid(c.payer, c.denom, 0 - c.amount)
    /\ UNCHANGED now

Settle(id, party) ==
    /\ contract' = [contract EXCEPT ![id].state = "settled"]
    /\ holdings' = Paid(party, contract[id].denom, contract[id].amount)
    /\ UNCHANGED now

Redeem(id, secret) ==
    /\ contract[id].state = "locked"
    /\ now < contract[id].deadline
    /\ secret \in contract[id].keys
    /\ Settle(id, contract[id].payee)

Cancel(id) ==
    /\ contract[id].state = "locked"
    /\ contract[id].deadline <= now
    /\ Settle(id, contract[id].payer)

\* Time passes; settled contracts may be forgotten.
Tick ==
    /\ now' \in Times /\ now <= now'
    /\ \E forgotten \in SUBSET {id \in IDs : contract[id].state = "settled"} :
          contract' = [id \in IDs |-> IF id \in forgotten THEN NoContract ELSE contract[id]]
    /\ UNCHANGED holdings

Next ==
    \/ \E id \in IDs : Lock(id, contract'[id]) \/ Cancel(id)
    \/ \E id \in IDs, secret \in Secrets : Redeem(id, secret)
    \/ Tick

Spec == Init /\ [][Next]_<<contract, holdings, now>>
===============================================================================
