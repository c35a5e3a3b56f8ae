-------------------------------- MODULE MCSdk --------------------------------
(* The SDK's components side by side, each against the contract where it needs *)
(* one: a behaviour exercises the part it starts with.                         *)
EXTENDS SdkClaims, MCParties

CONSTANTS c1, c2, Parts
VARIABLE part

toolVars == <<multisigVars, factoryVars, amountVars, walletVars>>
mcVars == <<part, callVars, netVars, batchVars, signingVars, toolVars>>
TwoCallers == {c1, c2}

\* Clients with a preset, with each check forced or waived, and without either.
Plainly == [mainnet |-> FALSE, allowMainnet |-> FALSE, preset |-> TRUE, verifyNetwork |-> {},
            verifyContractVersion |-> {}, onEvent |-> FALSE]
SomeConfigs ==
  {Plainly, [Plainly EXCEPT !.mainnet = TRUE],
   [Plainly EXCEPT !.verifyNetwork = {TRUE}, !.verifyContractVersion = {TRUE}, !.onEvent = TRUE],
   [Plainly EXCEPT !.preset = FALSE, !.verifyContractVersion = {TRUE}],
   [Plainly EXCEPT !.verifyNetwork = {FALSE}, !.mainnet = TRUE, !.allowMainnet = TRUE]}
Healthy == [network |-> "ours", getNetwork |-> TRUE, version |-> "supported"]
SomeRpcs ==
  {Healthy, [Healthy EXCEPT !.network = "other"], [Healthy EXCEPT !.getNetwork = FALSE],
   [Healthy EXCEPT !.version = "missing"], [Healthy EXCEPT !.version = "unsupported"]}

\* alice funds bob, carol releases.
Params ==
  [payer |-> alice, payee |-> bob, token |-> gold, amount |-> 1,
   conditionRef |-> [length |-> 1, bytes |-> 1], releaser |-> carol, refundAfter |-> {},
   notifyPayee |-> FALSE, refundTo |-> {}, releaseNotBefore |-> {}, feeRecipient |-> {},
   feeBps |-> {}, requiresAcceptance |-> FALSE]
Gated == [Params EXCEPT !.requiresAcceptance = TRUE, !.refundTo = {carol},
                        !.feeRecipient = {carol}, !.feeBps = {100}]
Later == [Params EXCEPT !.amount = 2, !.releaseNotBefore = {1}, !.feeRecipient = {carol},
                        !.feeBps = {100}]
Quorum2 ==
  [payer |-> alice, payee |-> bob, token |-> gold, amount |-> 1,
   conditionRef |-> [length |-> 1, bytes |-> 1], releasers |-> <<alice, carol>>, threshold |-> 2,
   refundAfter |-> {}, notifyPayee |-> FALSE, refundTo |-> {}]
Pool2 ==
  [creator |-> alice, payee |-> bob, token |-> gold, fundingTarget |-> 2,
   conditionRef |-> [length |-> 1, bytes |-> 1], releaser |-> carol, fundingDeadline |-> 1]
SomeCreates == {Params, Gated, Later,
  [Params EXCEPT !.conditionRef.length = 9], [Params EXCEPT !.feeBps = {1}],
   [Params EXCEPT !.feeRecipient = {carol}, !.feeBps = {1001}],
   [Gated EXCEPT !.notifyPayee = TRUE]}

Job(does, items, size) == [does |-> does, items |-> items, chunkSize |-> size]
Milestones(list, amount) ==
  [does |-> "milestones", params |-> [Params EXCEPT !.amount = amount], milestones |-> list,
   chunkSize |-> {}]
Op(id, kind) == [escrowId |-> id, kind |-> kind, caller |-> carol]
SomeJobs ==
  {Job("create", <<Params, [Params EXCEPT !.feeBps = {1}], Later>>, {2}),
   Job("settle", <<Op(0, "release"), Op(1, "refund"), Op(0, "refund")>>, {0}),
   Milestones(<<1, 2>>, 3), Milestones(<<1, 2>>, 4)}
SomeQuorums == {Quorum2, [Quorum2 EXCEPT !.threshold = 3]}
SomePools == {Pool2, [Pool2 EXCEPT !.fundingTarget = 0]}
SomeApprovers == {<<alice, carol>>, <<carol, carol>>, <<carol>>}
Users == {alice, carol}

\* Calls prepared on escrow 0, by its payer and its payee, and relayed on it.
SomeLifecycleCalls ==
  {LifecycleCall("accept", 0, bob, 0), LifecycleCall("cancel", 0, alice, 0)}
SomeSettlements == {[LifecycleCall("release", 0, carol, 0) EXCEPT !.signers = {carol}]}
SdkPurse == [t \in Tokens |-> [a \in Addr |-> IF a = alice THEN 10 ELSE 0]]

\* Policies that remove or keep the master key, one of which locks the account out.
Signers(list) == [i \in DOMAIN list |-> [key |-> list[i][1], weight |-> list[i][2]]]
Policy(list, threshold) ==
  [signers |-> Signers(list), threshold |-> threshold, lowThreshold |-> {}, mediumThreshold |-> {},
   highThreshold |-> {}, removeMasterKey |-> {}]
SomePolicies ==
  {Policy(<<<<alice, 1>>, <<bob, 1>>>>, 2),
   [Policy(<<<<alice, 1>>, <<bob, 1>>>>, 2) EXCEPT !.highThreshold = {3}],
   [Policy(<<<<alice, 2>>, <<bob, 1>>>>, 2) EXCEPT !.lowThreshold = {1}, !.highThreshold = {3}],
   [Policy(<<<<self, 2>>, <<alice, 1>>>>, 3) EXCEPT !.removeMasterKey = {FALSE}],
   Policy(<<<<self, 1>>, <<alice, 1>>>>, 1), Policy(<<<<alice, 1>>, <<alice, 1>>>>, 1)}
SomeOldSigners == {{}, {carol}}

\* Tokens with and without decimals, and one that reports nonsense.
SomeDecimals == [t \in {"units", "cents", "broken"} |->
                   CASE t = "units" -> 0 [] t = "cents" -> 2 [] t = "broken" -> 9]
Typed(whole, dot, fraction) == [plain |-> TRUE, whole |-> whole, dot |-> dot, fraction |-> fraction]
SomeTexts ==
  {Typed(<<0, 1, 2>>, FALSE, <<>>), Typed(<<>>, TRUE, <<5>>), Typed(<<1>>, TRUE, <<0, 5>>),
   Typed(<<3>>, TRUE, <<5, 0>>), Typed(<<7>>, TRUE, <<1, 2, 3>>), Typed(<<4>>, TRUE, <<>>),
   [Typed(<<1>>, FALSE, <<>>) EXCEPT !.plain = FALSE]}

\* Wallets that tell where they are or do not; one that signs for where it is.
Kit(reports, entries, obeys) == [getNetwork |-> reports, signAuthEntry |-> entries, obeys |-> obeys]
SomeWallets ==
  {Kit("none", TRUE, TRUE), Kit("name", TRUE, FALSE), Kit("passphrase", FALSE, TRUE),
   Kit("passphrase", TRUE, FALSE)}
SomeSigners ==
  {[networkPassphrase |-> "test", checkNetwork |-> TRUE],
   [networkPassphrase |-> "local", checkNetwork |-> TRUE],
   [networkPassphrase |-> "test", checkNetwork |-> FALSE]}

SdkInit ==
  /\ part \in Parts
  /\ RequestsInit /\ BatchInit /\ SigningInit /\ MultisigInit /\ FactoryInit /\ AmountsInit
  /\ WalletInit
  /\ part # "multisig" => DOMAIN onLedger.signers = {}
  /\ part # "wallet" =>
       /\ signer = [networkPassphrase |-> "test", checkNetwork |-> TRUE]
       /\ wallet = Kit("none", TRUE, TRUE) /\ walletNetwork = "test"
  /\ IF part = "calls"
       THEN \E c \in {x \in Configs : ~MainnetRefused(x)}, r \in Rpcs : CallInit(c, r)
       ELSE CallInit(Plainly, Healthy)

\* What is settled or signed about, and somebody who settles it meanwhile.
Meanwhile ==
  \E call \in IF part = "batch" THEN createEscrow([Params EXCEPT !.payee = carol]) \cup refund(0, carol)
              ELSE createEscrow(Gated) :
    Submitted(call) /\ UNCHANGED chain

\* Plain calls go one after the other; the other parts overlap theirs.  No item of
\* a group depends on the time.
InFlight == Cardinality({k \in DOMAIN txs : txs[k].state = "sent"})

SdkNext ==
  /\ UNCHANGED part
  /\ \/ /\ UNCHANGED toolVars
        /\ \/ part = "calls" /\ CallNext /\ UNCHANGED <<netVars, batchVars, signingVars>>
           \/ part = "methods" /\ RequestsNext /\ InFlight' <= 1
              /\ UNCHANGED <<callVars, batchVars, signingVars>>
           \/ part = "batch" /\ BatchNext /\ UNCHANGED <<now, callVars, signingVars>>
           \/ part = "signing" /\ SigningNext /\ UNCHANGED <<callVars, batchVars>>
           \/ /\ part \in {"batch", "signing"} /\ Meanwhile
              /\ UNCHANGED <<callVars, batchVars, signingVars>>
     \/ /\ UNCHANGED <<callVars, netVars, batchVars, signingVars>>
        /\ \/ part = "multisig" /\ MultisigNext /\ UNCHANGED <<factoryVars, amountVars, walletVars>>
           \/ part = "factory" /\ FactoryNext /\ UNCHANGED <<multisigVars, amountVars, walletVars>>
           \/ part = "amounts" /\ AmountsNext /\ UNCHANGED <<multisigVars, factoryVars, walletVars>>
           \/ part = "wallet" /\ WalletNext /\ UNCHANGED <<multisigVars, factoryVars, amountVars>>

SdkSpec == SdkInit /\ [][SdkNext]_mcVars /\ BatchFairness
=============================================================================
