----------------------------- MODULE ToolProperties -----------------------------
(* What the SDK's tools around the contract promise: the multisig helper, the    *)
(* factory client, the amount helpers and the wallet signer.                     *)
EXTENDS MultisigSetup, FactoryClient, TokenAmounts, WalletSigner

\* The reason multisig.ts gives for its existence: no setup locks the account out.
\* With the master key removed, an account whose last change was a setup that was
\* validated for it, however long before, is controlled by its signers without the
\* master key, and verifies unless it had other signers.  An account found to match
\* a valid policy, the master key kept or not, is controlled by the keys the policy
\* names and by no other.  And the dry run tells what the transaction will do: how
\* many operations it has and, unless the master key is kept, the weight in control
\* of an account that had no signers before.
ControlKept ==
  /\ \A p \in applied :
       LET policy == resolveMultisigPolicy(p) IN
       policy.removeMasterKey =>
         /\ InControl(onLedger) /\ onLedger.masterWeight = 0
         /\ DOMAIN onLedger.signers \subseteq NonMaster(policy) => Differences(policy, onLedger) = {}
  /\ \A v \in verified :
       v.matches /\ validateMultisigPolicy(v.policy) =>
         /\ InControl(v.onState)
         /\ DOMAIN v.onState.signers \cup (IF v.onState.masterWeight > 0 THEN {Own} ELSE {})
              \subseteq {s.key : s \in Range(v.policy.signers)}
  /\ \A setup \in setups :
       LET after == Changed([onLedger EXCEPT !.signers = <<>>], setup.operations) IN
       /\ setup.dryRun.operationCount = Len(setup.operations)
       /\ resolveMultisigPolicy(setup.policy).removeMasterKey =>
            setup.dryRun.totalWeight = after.masterWeight + SumOf(after.signers, DOMAIN after.signers)

\* deployInstance and forIntegrator name the integrator's own instance: what is
\* returned as already deployed is it, a deployment that was executed created it at
\* the address returned before, and a client is bound to it.
InstanceKnown ==
  /\ \A k \in DOMAIN deploys :
       deploys[k].alreadyDeployed \/ deploys[k].transaction = "executed" =>
         deploys[k].instanceId = Found(deploys[k].integrator)
  /\ \A client \in bound : {client.contractId} = Found(client.integrator)

\* An amount is neither scaled wrongly nor rounded: what is sent is what was typed,
\* with the decimals the token has, whichever of several readers filled the cache;
\* and what is shown, or given back as normalised, is typed in as the same amount.
AmountsExact ==
  /\ \A e \in parsed :
       LET decimals == ReportedDecimals[e.token] IN
       /\ e.amount * PowerOfTen(Len(e.text.fraction))
            = Value(e.text.whole \o e.text.fraction) * PowerOfTen(decimals)
       /\ CanParse(e.normal, decimals) /\ parseAmount(e.normal, decimals) = e.amount
  /\ \A s \in shown :
       LET decimals == ReportedDecimals[s.token] IN
       CanParse(s.text, decimals) /\ parseAmount(s.text, decimals) = s.amount

\* Signing testnet transactions on mainnet is never safe: with the check on, and a
\* wallet that can tell where it is, a signature for another network than the
\* signer's was asked for by name, or the wallet is one that signs for its own and
\* was switched while the request was open.  A user who declines is never thrown at,
\* and nothing is signed without an approval.
WalletAskedRightly ==
  \A k \in DOMAIN asks :
    LET ask == asks[k] ours == signer.networkPassphrase
        tells == wallet.getNetwork = "passphrase" \/
                 (wallet.getNetwork = "name" /\ ours \in NamedNetworks) IN
    /\ signer.checkNetwork /\ tells =>
         \A network \in ask.signedFor \ {ours} :
           IF wallet.obeys THEN ask.network = network ELSE ask.switched
    /\ ask.user = "declined" => ask.at = "returned" /\ ask.outcome = "rejected"
    /\ ask.outcome = "signed" => ask.user = "approved"
=============================================================================
