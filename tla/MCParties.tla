------------------------------ MODULE MCParties ------------------------------
(* The addresses and tokens of the model-checking runs.                      *)
CONSTANTS alice, bob, carol, dave, self,   \* addresses; self is the contract
          gold, iron                       \* tokens

None == {}
=============================================================================
