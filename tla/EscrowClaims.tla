---------------------------- MODULE EscrowClaims ----------------------------
(* A statement the repository makes of the contract which the contract, as   *)
(* it is written, does not keep: a run must refute it.                       *)
EXTENDS EscrowRefinement

\* docs/threat-model.md, I6: an escrow created with requires_acceptance cannot
\* be released, refunded or cancelled before the payee's accept.
AcceptBeforeSettlement ==
  \A id \in DOMAIN escrow :
    escrow[id].requires_acceptance /\ escrow[id].status # "Funded" =>
      escrow[id].accepted_at # {}
=============================================================================
