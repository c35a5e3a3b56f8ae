------------------------------ MODULE ReaderClaims ------------------------------
(* What the documents say of the React package and the code does not do.         *)
EXTENDS ReaderProperties

\* The doc of useEscrowActions: it invalidates the matching useEscrow cache entry
\* after a successful settlement or creation, so a status view refreshes without
\* manual wiring.  So an action that resolves shows what it did, unless its read
\* failed.
ActionRefreshesView == action = "resolved" => failed \/ ShowsAction
=============================================================================
