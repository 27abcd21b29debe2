---------------------------- MODULE MCClientFlow ----------------------------
(* Values of the constants for the run of ClientFlow.                       *)
EXTENDS ClientFlow

CONSTANTS Funds, TokenFunds    \* the same for every user

MCEndowment == [u \in Users |-> [a \in Assets |->
                  IF a = Native THEN Funds ELSE TokenFunds]]
=============================================================================
