--------------------------- MODULE MCEventProtocol ---------------------------
(* Values of the constants for the model-checking runs of EventProtocol.    *)
EXTENDS MarketRefinement, Rejections, TLC

CONSTANTS Funds, TokenFunds    \* the same for every user

MCEndowment == [u \in Users |-> [a \in Assets |->
                  IF a = Native THEN Funds ELSE TokenFunds]]

Symmetry == Permutations(Users)
=============================================================================
