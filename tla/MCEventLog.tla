----------------------------- MODULE MCEventLog -----------------------------
(* Values of the constants for the run of EventLog.                         *)
EXTENDS EventLog, TLC

CONSTANTS Funds, TokenFunds    \* the same for every user

MCEndowment == [u \in Users |-> [a \in Assets |->
                  IF a = Native THEN Funds ELSE TokenFunds]]

Symmetry == Permutations(Users)
=============================================================================
