--------------------------- MODULE EscrowRefinement ---------------------------
(* The escrow contract implements EscrowPromise: an escrow is a purse that     *)
(* holds its amount while it is funded, and the surplus of a token is what the *)
(* contract's balance exceeds the funded amounts by.                           *)
EXTENDS EscrowProperties

PurseOf(id) ==
  [token |-> escrow[id].token, held |-> IF status[id] = "Funded" THEN escrow[id].amount ELSE 0,
   shared |-> IsPooled(id), outcome |-> status[id]]
Purses == [id \in DOMAIN status |-> PurseOf(id)]
Surplus ==
  [t \in Tokens |-> balance[t][Contract] - Total([id \in DOMAIN status |-> Owed(id, t)])]

Promise == INSTANCE EscrowPromise
  WITH purse <- Purses, surplus <- Surplus, Seizable <- ClawbackTokens

\* Every behaviour of the contract, seen through its purses, is one EscrowPromise
\* allows: no creation, contribution, claim, top-up, transfer, rotation or
\* settlement, alone or in a batch, touches another escrow's money, pays out
\* twice, or leaves the contract short.
PromiseKept == Promise!Spec
=============================================================================
