-------------------------- MODULE MCDirectTransfers --------------------------
(* Values of the constants for the run of DirectTransfers.                  *)
EXTENDS DirectTransfers, TLC

CONSTANTS
    Funds, TokenFunds,    \* the same for every user
    Unowned               \* a mint of which nobody owns a token

MCEndowment == [u \in Users |-> [a \in Assets |->
                  CASE a = Native  -> Funds
                    [] a = Unowned -> 0
                    [] OTHER       -> TokenFunds]]

Symmetry == Permutations(Users)
=============================================================================
