---------------------------- MODULE MCBep3History -----------------------------
(***************************************************************************)
(* Small instances of Bep3History.                                         *)
(***************************************************************************)
EXTENDS MCBep3, Bep3History

\* Nothing minted yet; a window of 3 seconds that admits 1 of the 4 coins.
ThinWindow == [d \in Denoms |-> Asset(4, 1, 3, 0, 1, 1)]
ThinWindowOnly == {ThinWindow}
NothingMinted == [d \in Denoms |-> Supply(0)]
NoBalances == [u \in Users |-> [d \in Denoms |-> 0]]
NoBank == [d \in Denoms |-> 0]
===============================================================================
