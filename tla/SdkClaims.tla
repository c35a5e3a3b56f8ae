------------------------------- MODULE SdkClaims -------------------------------
(* Statements the SDK makes of itself which its code does not keep.  A run that *)
(* must refute it checks each.                                                 *)
EXTENDS SdkProperties, ToolProperties

\* The doc of BatchOptions.resumeFrom: retrying the items of a failed batch that
\* did not succeed never double-creates an escrow.
NoDoubleCreate ==
  job.does = "create" => \A i \in DOMAIN results : Cardinality(Carried(i)) <= 1

\* The doc of buildMultisigSetup: it throws on any configuration that would lock
\* the account out, so a setup that was applied has not.
NoSetupLocksOut == applied # {} => InControl(onLedger)

\* The doc of getContractVersion: a failed lookup rejects and isn't cached, so a
\* caller that tries again after a transient failure makes a request of its own
\* (or joins one under way), and reports a lost request only if that one is lost.
FailedLookupNotCached ==
  \A c \in Callers :
    calls[c].at = "failed" /\ calls[c].cause = "lost" => lost > calls[c].lostBefore
=============================================================================
