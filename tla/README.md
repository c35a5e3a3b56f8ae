# Formal verification of DocForum Escrow

TLA+ models of the escrow system in this repository, the TLC runs that check them
on small instances, and theorems about them that the TLA+ proof system (TLAPS)
checks for every value of the constants. `PROJECT.json` is the index: components,
runs, the source lines each definition models (`map`), the hazards the properties
are for, the faults (`mutants`) each property is known to catch, and the theorems.

    tlc -config gates.cfg MCEscrow.tla            # one model-checking run
    tlc -config account.cfg MCReleaserAccount.tla
    tlc -config client.cfg MCSdk.tla              # the SDK; about two minutes
    tlapm EscrowProofs.tla                        # the proofs of one module

## 1. The system

| Component | State it keeps | Operations | Correct when | Here |
|---|---|---|---|---|
| Escrow contract, `contracts/escrow/src/lib.rs` | per id an `Escrow`, a `Status`, for pools a `Pooled` and one `Contribution` per payer; per token a `Liability`; `NextId`, `Paused`, the constructor's allowlist and custodian | five creators, the pooled trio, `accept`, `rotate_releaser`, `top_up`, `transfer_payee`, six settling calls, `pause`/`unpause`, readers | each escrow pays once, in full, to who is entitled to it, on the signatures its terms ask for; the shared token balance covers all of them; nothing is trapped | `EscrowContract`, `EscrowProperties`, proved about in three modules; abstractly, `EscrowPromise` |
| Releaser account, `contracts/releaser-account/src/lib.rs` | the `Signer` entries, `SignerCount`, `Threshold`, `ManagementNonce`, policy, `WindowUsage` per window | `__constructor`, `manage` (four actions), `__check_auth` | it changes only by a current quorum's fresh signatures, stays operable, and lets through only releases and refunds, a bounded number per window | `ReleaserAccount`, `ReleaserAccountProperties` |
| SDK client, `sdk/src/index.ts` | two cached promises (network, contract version) shared by its callers; per batch its results; per prepared call a document; per subscription a cursor | the writes and reads of single calls, `createEscrows`/`settleMany` with `resumeFrom`, milestone groups, prepare/sign/submit and relayed settlements, `subscribe` | no call goes to an unverified network; what it reports is true of the chain; a signature takes effect once, as what was signed; events reach the handler in order and none is skipped | `SdkRequests`, `SdkCalls`, `SdkBatch`, `SdkSigning`, `EventFeed` |
| Multisig helper, `sdk/src/multisig.ts` | none (a plan computed from a policy) | validate, dry run, build the setup transaction, verify an account | the account the operations produce reaches its own thresholds, by the keys the policy names and no others | `MultisigSetup` |
| Factory client, `sdk/src/factory.ts` | none; the factory keeps one instance per integrator | `deployInstance`, `getInstance`, `forIntegrator` | the instance it names is the integrator's | `FactoryClient` |
| Amounts, `sdk/src/amounts.ts` | a cache of token decimals | parse, format, read decimals | what is sent is what was typed | `TokenAmounts` |
| Wallet signer, `sdk/src/signers/` | none; the wallet has a current network | `signTransaction`, `signAuthEntry` | nothing is signed for another network or without an approval | `WalletSigner` |
| React package, `packages/escrow-react/` | the last escrow read, a timer, the pending action | `useEscrow`, `useEscrowActions`, `useEscrowTimeline` | what is shown is what the contract has, in the end and after an action | `EscrowView` |
| Indexer, `indexer/src/mappings/index.ts` | one record per escrow, one per event | one handler for every event | its records agree with the contract's | `EventIndexer` |
| Go client, `sdk-go/` | none across calls | build, simulate, send, poll | a poll that times out is not read as "did not happen" | not modelled |
| Tokens, payee contracts, ledger clock | balances, trustlines, hooks, time | transfers, `on_escrow_released` | outside the repository | environment of `EscrowContract` |

How they interact:

* Every call of the contract is one **atomic invocation** of the host: it commits
  all its writes, token transfers and events, or none. Inside, the contract calls
  a *token* (untrusted: it may deliver less, or refuse a frozen account) and, on a
  release with `notify_payee`, the *payee's own contract*. A failure in either
  reverts the invocation.
* All escrows of one token **share one balance**, the contract's. What keeps them
  apart is bookkeeping: the amount in each record and one liability per token.
* The releaser of an escrow may be a *releaser account*. The host then calls its
  `__check_auth` with the calls about to be made; it counts signatures made
  off-line and uses up an operation slot of the current window of ledgers.
* Clients talk to the contract through an RPC server, which may drop a request,
  execute a transaction late, or lose the answer of one that took effect. Signatures
  are collected off-line from several parties, in documents that get copied and edited.
* Every entry point publishes *events*. The subscription reads them in pages from a
  server that trims its history; the indexer gets them one by one; the React hooks
  poll the state instead.

What is hard about it: many actors (payer, payee, releasers, sponsor, contributors,
custodian, anybody after a timeout) race on one record; six ways to settle share
one routine but differ in their checks; totals are kept by hand in three places;
signatures made for one state are submitted in another; a batch skips some failures
and reverts on others; and a settlement must get money out although a payee is
frozen, a hook fails or deposits are paused. Outside the contract it is lost answers
and what is done about them, checks shared by concurrent callers, and readers that are
behind, interrupted and started over. `PROJECT.json` lists each hazard at the
line where it bites and the properties that would catch it going wrong.

## 2. The models

### Escrow contract

`EscrowContract` has one variable per storage key (`escrow`, `status`, `pooled`,
`contribution`, `liability`, `paused`, `nextId`), the tokens' books (`balance`), the
ledger time (`now`), the accounts and hooks that fail at the moment (`frozen`,
`broken`), and `auth`, the addresses that signed the last invocation, which the
properties about authority read. One action is one successful invocation, with all
the checks of the entry point and of the routines it calls as guards; a failing
invocation is a stuttering step, since the host reverts it. The names are those of
the code: `CreateEscrowInner`, `CheckApprovals`, `RefundChecks`, `TransferInExact`,
`Settle`, ... An `Option` is a set of at most one element.

* **Creation.** The five creators take parts of one argument record (`Request`) and
  share `CreateEscrowInner`; `create_escrows` runs it for a sequence, as a whole.
  One batch is one transfer in the model: every item is checked exactly
  (`transfer_in_exact`), so the sum is exact if and only if each of them is.
* **Deposits.** `TransferInExact` lets a token in `ShortTokens` credit one unit too
  few or too many, and compares what arrived with what was asked for.
* **Settlement.** `Settle` is the code's `settle` for one escrow or for all those one
  `settle_many` call settles, in the order of their operations: gates, status and
  liability, fee, payout, callback. `SettleMany` skips an operation whose checks
  fail and is impossible as a whole if one fails later, as in the code.
* **Authorisation.** The host lets an address authorise a frame once, so a call that
  asks the same address twice fails (`RequireAuth`): a payer who is its own releaser
  cannot rotate it. The contract's address signs for nobody.
* **Environment.** `Tick`, `SetFrozen`, `SetBroken`, `Clawback` (an issuer takes back
  what the contract holds) and `Donate` (a transfer past every entry point).

`Totals` defines the sum of a function as the number of its unit coins. Sums carry
all the accounting, and a fold could be reasoned about only by induction.

### Releaser account

`ReleaserAccount` has one variable per storage key, the ledger's `sequence`, and the
signatures in circulation: `approved` (key, action, nonce) and `endorsed` (key,
authorisation entry). A key signs whenever it likes (`Approve`, `Endorse`), registered
or not; anyone submits any list of keys later (`Manage`, `CheckAuth`), and a list
counts if the account's own checks accept it. A hash is the tuple of what goes into
it, so two messages have the same digest exactly if the code hashes the same data.
`spent` is the host's memory of entries already let through; `settled` and
`settledSincePolicy` are history variables that count operations per ledger and are
read by properties only.

### The contract's promise

`EscrowPromise` is the abstract specification: purses of money, each of which is opened,
added to, and emptied once and for good, in one of the outcomes its kind allows, while
what is held beyond all purses shrinks only if an issuer seizes some. It knows nothing
of parties, signatures, time or fees. `EscrowRefinement` maps the contract to it: an
escrow is a purse that holds its `amount` while it is funded, and a token's surplus is
the contract's balance less the funded amounts. A claim on a failed round is the one step
that takes from a purse that stays open, which only a shared purse allows; a fee is part
of what its settlement pays out.

### Events

`EscrowEvents` adds to each entry point what it publishes: `ChainStep` is a step of the
contract with the events of that step appended to `log`, with topic, id, ledger and, where
the code publishes one, the snapshot of the whole escrow. `InOrder` puts the escrows of one
call in order; it is defined by what it returns, as nothing can be proved about the sorting
operator of the libraries. `EventFeed`, `EventIndexer` and `EscrowView` extend it.

### The SDK

* `SdkRequests`: every writing method as the set of calls it may lead to: empty if the
  method throws first, else the entry point with its arguments and the keys that sign it.
  A call becomes a transaction that is `sent`, and then executed as one action of
  `EscrowContract` (`Invocation` names which) or dropped. Time may pass in between. The
  reads `getEscrow`, `getPooled`, ... translate the records under the SDK's names.
* `SdkBatch`: `createEscrows`, `settleMany` and `createMilestoneEscrow` as one loop over
  items. Each item throws before it is sent, is answered, or is given up on while its
  transaction lives on (`BatchFail`). `BatchResume` passes the results back. A milestone
  group that returned is settled tranche by tranche (`SettleMilestone`).
* `SdkSigning`: documents of prepared and relayed calls, each with its nonce, expiry, the
  source's sequence number and its label. They are signed, copied, mixed up with each
  other, and submitted in any order, beside other transactions of the same source.
* `SdkCalls`: one client with the modes its constructor derives from the configuration, and
  callers at the gate. A shared promise is cleared by its own failure, then wakes all who
  wait for it. The version lookup waits for the network check itself, so a failed check
  clears the two promises one after the other (`NetworkFailure`, `RejectionPasses`), and
  callers may act in between (`Rejecting`). A write then goes through its four phases, each
  with a span.
* `MultisigSetup`: the account as the ledger has it, setup transactions that were built
  earlier and still have the right sequence number, and other tools that change the
  account. `FactoryClient`: deployments that are pending, executed, failed or dropped,
  against a factory that keeps the first instance. `TokenAmounts`: texts as digit
  sequences, overlapping reads of decimals. `WalletSigner`: a wallet of several kinds whose
  user switches, approves and declines.

`MCSdk` puts these beside each other. A behaviour picks one `part` at the start and stays
with it: the parts share no state but the contract, and their product would only multiply
states. In the part for batches the clock stands still, since no item there depends on it.

### Readers

`EventFeed` is the loop of `subscribe`: poll a page, hand over its events one by one, move
the cursor. Polls and the handler may fail, which ends it (as in the code); the server
trims its history; the process may be killed and subscribe again, from the last event its
handler finished or afresh. `EventIndexer` is one handler with two saves, between which
the process may stop; it then repeats events from an earlier one. `EscrowView` is a
component with one query, a poll timer, a countdown and actions; the query cache (external)
starts a read, drops it when invalidated unless it is a first one, with nothing to show yet,
which it lets end instead, and polls when `refetchInterval` says so. The countdown runs on
the local clock plus an offset, off from the ledger's by one of `ClockErrors` at each tick.
`joined` is a history variable: whether the action waits for a first read that had its
answer before.

### Faults

Definitions marked `Fault` are wrong versions of the definition that follows them: a
dropped guard, `<=` for `<`, a counter overwritten. No action uses them. For each
property `PROJECT.json` names one which, put in the place of the right definition,
makes the run of that property fail; so each property can tell that mistake.

## 3. What is checked

| Run | Question | Properties | Distinct states |
|---|---|---|---|
| `gates` | who may settle an escrow, when, and what may change before | `AcceptanceDecides`, `AlwaysAWayOut`, `SettlementAuthorised`, `SettledIsFinal`, `TermsKept`, `PauseStopsDeposits` | about 24 000 |
| `pool` | a funding round beside a plain escrow in the same token | `TypeOK`, `PoolExact`, `NoReleaseAfterClaim`, `RoundDecided`, and under fairness `TimeoutSettles`, `FailedRoundDrains` | about 67 000 |
| `money` | fees, top-ups, batches, a token that misdelivers, one that is clawed back | `LiabilityExact`, `Solvent`, `OutflowIsDebt`, `PayoutsEntitled`, and the refinement `PromiseKept` | about 26 000 |
| `account` | old signatures, removed signers, padded lists | `TypeOK`, `QuorumReachable`, `SlotsBounded`, `ChangesApproved`, `OperationsEndorsed` | about 213 000 |
| `client` | does the SDK tell its callers the truth, over a network that loses answers | `VerifiedBeforeSent`, `FailuresAreFresh`, `SpansBalanced`, `CreatedAsAsked`, `BatchReportsTruth`, `ResumeKeepsSuccesses`, `MilestonesAccounted`, `ExecutedAsMeant`, `PreflightSound`, `ControlKept`, `InstanceKnown`, `AmountsExact`, `WalletAskedRightly`, and under fairness `BatchEnds` | about 526 000 |
| `readers` | do those who read from outside get everything, and in the end the truth | `NothingMissed`, `IndexAgrees`, `ViewTruth`, and under fairness `ReadersCatchUp` | about 167 000 |
| `claim_*` | six statements of the repository that the code does not keep (section 5) | one each | violated |

What the properties say together, for the contract:

* *Authority.* `SettlementAuthorised`: on every settling path the signatures on the
  call are what the terms of that moment ask for, and the time lock is over, also for
  releases by approvals (section 5).
  `TermsKept`: between creation and settlement one party's signature never changes
  what another signed for. `AcceptanceDecides`: accept and cancel cannot both win.
* *Money.* `LiabilityExact` and `PoolExact`: the running totals agree with the records
  they sum, after any sequence of calls. `Solvent`: the balance covers the liability
  in every token nobody claws back. `OutflowIsDebt`: a step pays no more than it stops
  owing, in one transfer or two. `PayoutsEntitled`: only entitled addresses gain.
  `PromiseKept`: all of it together does what `EscrowPromise` says and nothing else.
* *Decisions.* `SettledIsFinal`; `NoReleaseAfterClaim`: a pool is paid whole or given
  back, never in part each; `RoundDecided`: success or failure of a round is fixed at
  its deadline and does not turn afterwards.
* *Way out.* `PauseStopsDeposits` and `AlwaysAWayOut`: the pause stops what comes in
  and nothing that goes out, whatever frozen payees, broken hooks or the other
  escrows do. `TimeoutSettles`, `FailedRoundDrains`: the money does leave.

For the releaser account: `ChangesApproved` (a change is one action that a quorum of the
keys registered *now* signed at the *present* nonce, all of them for the policy),
`OperationsEndorsed` (a let-through entry is one release or refund by this account,
signed by a quorum of now), `SlotsBounded` (cap per window, and twice the cap in any
run of that many ledgers, while one policy is in force), `QuorumReachable` (manage
never locks the account).

For the SDK:

* *Its checks.* `VerifiedBeforeSent`: past the gate the network is the configured one, and
  the version supported, wherever that was required, also when callers share a check that
  fails for one request. `FailuresAreFresh`: nobody is told of a failure older than its
  call, but for direct requests for the version made while it is passing (section 5).
  `SpansBalanced`: every span opened is closed, whichever phase fails.
* *Its words.* `CreatedAsAsked`: an escrow reads back as its parameters say. `PreflightSound`:
  a call refused before it is sent would have been refused by the contract, and a round
  that reads full, or failed, is one. `BatchReportsTruth`, `ResumeKeepsSuccesses`,
  `MilestonesAccounted`: what is reported done is done, once, and a group that fails leaves
  at most one escrow it does not name. `BatchEnds`.
* *Signatures.* `ExecutedAsMeant`: a prepared or relayed call takes effect as what its
  submitter expected, once, and not after the ledger its signer was told.
* *Tools.* `ControlKept`, `InstanceKnown`, `AmountsExact`, `WalletAskedRightly`.

For the readers: `NothingMissed`: no event the subscription asked for lies behind it
unhandled and none is handled twice; `IndexAgrees`: with every event seen, the records
agree in all that the events tell; `ViewTruth`: what the view shows after an action that
resolved, unless that joined a first read already answered (section 5), and what it shows
once it has stopped polling is true of the contract, and a deadline shows as passed no
earlier than the local clock is ahead of the ledger; `ReadersCatchUp`.

### Bounds, and why they are enough

* `gates`: one escrow, five addresses, three instants. One escrow shows every race
  between its parties; three instants put each deadline before, at and after another
  action. Approver lists have up to three members and batches two operations, the
  least with which a quorum of two can be padded and a batch can name an escrow
  twice. Every check of `create_escrow_inner` has a request that it turns down.
* `pool`: one round and one timed escrow, a target of 3 and deposits of 1 and 2, so
  that the last deposit fits exactly, is too large, or comes from a payer that already
  contributed; the deadline is the last of three instants, and nothing ends there: claims,
  refunds and releases go on in it without end.
* `money`: three ids and two tokens. A fee of 10% on 15 and on 20 (after a top-up)
  rounds down in one case and not in the other, and `I128Max` = 20 000 is just where
  the product of amount and basis points overflows. A batch of two pays
  the contract itself once, one has a bad second item, one is too long.
* `account`: two keys, one of which is added and removed, three ledgers and windows
  of two and three, so a window's end is crossed; three management actions and four
  signatures, enough for an action approved, overtaken, and submitted again.
* `client`: batches of three items with chunks of two, started twice, so that an item of
  the second chunk is carried over; one item of each is refused before it is sent.
  Milestones that add up and that do not. Two callers and three calls of one client, one
  lost request: a check can fail for one caller while the other waits for it and a third
  call starts afresh. Two documents, whose fields can be exchanged. Two setups and an
  account that had a signer before; policies that remove or keep the master key. Two
  integrators, two deployments. Tokens of 0, 2 and (nonsense) 9 decimals with texts of up
  to three digits on each side of the point. Two requests to a wallet of four kinds.
* `readers`: two escrows, three events, pages of two, so that a page ends between events of
  one call and a filter leaves pages empty; one failed poll, two subscriptions, one restart of
  the indexer, one failed read and one action of the view while others settle the escrow. A
  local clock that is right, one unit ahead or one behind, so that a deadline is shown as
  passed before, when and after it is.
  The subscription and the view are shown only the kinds of events that they can tell
  apart (`Plot`); the indexer gets all of them.

`MaxEscrows`, `MaxTime`, `MaxListLen`, `MaxSequence`, `MaxNonce`, `MaxSignatures`, `MaxTxs`,
`MaxCalls`, `MaxLost`, `MaxRuns`, `MaxDocs`, `MaxSetups`, `MaxDeploys`, `MaxTokenReads`, `MaxDigits`,
`MaxAsks`, `MaxEvents`, `MaxFailures`, `MaxSubscriptions`, `MaxRestarts`, `MaxReads` and
`MaxActs` are bounds of the runs and appear as guards; the other constants are the code's
own limits and inputs. The theorems hold for all their values. The account, the SDK and the
readers can reach their bounds with nothing left to do, so their runs do not look for
deadlock; those of the contract do.

### Fairness

* `pool` (`FairSpec`): the clock goes on (`Tick`), the payer of an escrow keeps asking for its
  own refund, and each contributor keeps claiming. They act in their own interest, and from
  the deadline on nobody but the contract can refuse them: the refund after `refund_after`
  asks for no releaser. Nothing is assumed of releasers, payees or the custodian, who may be
  gone or hostile, and nothing in that run freezes a claimant for good. Weak fairness is
  enough because each of these, once possible, stays so until the escrow is settled or the
  claim made. A *full* pool whose releaser has disappeared is not promised a way out by the
  code, and none is stated.
* `client` (`BatchFairness`): the loop of a batch sends or throws, and a call it waits for is
  answered *or given up on*: the SDK polls for a bounded time. Success is not assumed, nor
  that anybody resumes a batch.
* `readers` (`ReadersFairness`): the loop of a running subscription goes on, with polls that
  succeed or end it; the view's poll timer fires and its reads end, successfully or not.
  How often they fail is bounded (`MaxFailures`, `MaxReads`); that the contract or anybody
  does anything is not assumed, and a process that was killed need not come back.

## 4. What is proved

| Module | Theorems |
|---|---|
| `TotalsProofs` | the sum of a function of natural numbers: type, zero, one point, renaming, addition, change at one point, extension, order, part; the least and the largest of some numbers; induction over the set of the numbers with a property |
| `EscrowProofs` | `TypeCorrect`: `Spec => []TypeOK`; `PoolAccounting`: `Spec => []PoolExact`; `AccountedAlways` |
| `EscrowMoneyProofs` | `LiabilityAccounting`: `Spec => []LiabilityExact`; `Solvency`: `Spec => []Solvent`; `OutflowsAreDebts`: `Spec => OutflowIsDebt`; `PayoutsAreEntitled`: `Spec => PayoutsEntitled`; `ContractKeepsItsPromise`: `Spec => PromiseKept`; `RefundsAreOpen`, `ReleasesAreOpen`, `ClaimsAreOpen`: a refund, release or claim that should be possible is |
| `EscrowFinalityProofs` | `SettlementsAreFinal`: `Spec => SettledIsFinal`; `ReleasedPoolsAreWhole`: `Spec => []NoReleaseAfterClaim`; `PauseHoldsDeposits`: `Spec => PauseStopsDeposits`; `SettlementsAreAuthorised`: `Spec => SettlementAuthorised`; `TermsAreKept`: `Spec => TermsKept`; `AcceptanceRace`: `Spec => []AcceptanceDecides`; `RoundsAreDecided`: `Spec => RoundDecided`; `QuorumsAreReachable`: `Spec => []QuorumsFit`; `FeesNeverOverflow`: `Spec => [](PoolsPlain /\ FeesFit)` |
| `ReleaserAccountProofs` | `AccountTypeCorrect`: `Spec => []TypeOK`; `QuorumStaysReachable`: `Spec => []QuorumReachable`; `AuthorityIsNarrow`: `Spec => OperationsEndorsed`; `ChangesAreApproved`: `Spec => ChangesApproved`; `SlotsAreBounded`: `Spec => []SlotsBounded` |
| `SdkProofs` | `CallsAreVerified`: `CallsSpec => []VerifiedBeforeSent`; `LossesAreFresh`: `CallsSpec => []FailuresAreFresh`; `SpansAreBalanced`: `CallsSpec => []SpansBalanced`; `SignedAheadAsMeant`: `WritesSpec => []ExecutedAsMeant`; `EscrowsAreAsAsked`: `WritesSpec => CreatedAsAsked`; `SuccessesAreKept`: `WritesSpec => ResumeKeepsSuccesses`; `ReportsAreTrue`: `WritesSpec => [](NobodyTopsUp => BatchReportsTruth)`; `MilestonesAreAccounted`: `TranchesApart /\ WritesSpec => [](ReleasedThroughGroup => MilestonesAccounted)`; `RefusalsAreRight`: what `topUp`, `accept` and `cancel` refuse, the contract would |
| `ToolProofs` | `NobodyIsLockedOut`: `MultisigSpec => []ControlKept`; `AmountsAreExact`: `AmountsSpec => []AmountsExact`; `InstancesAreKnown`: `FactorySpec => []InstanceKnown`; `WalletIsAskedRightly`: `WalletSpec => []WalletAskedRightly` |
| `ReaderProofs` | `NothingIsMissed`: `FeedSpec => []NothingMissed`; `IndexesAgree`: `IndexerSpec => []IndexAgrees`; `ViewsAreTrue`: `ViewSpec => []ViewTruth` |

They hold for any finite sets of addresses and tokens, any limits, requests, batches,
deposits, purses and misbehaving tokens, under the named assumptions of the modules
(`PartiesAssumption`, `LimitsAssumption`, `InputsAssumption`, `AccountAssumption`, and for
the SDK and the readers `CallsAssumption`, `JobsAssumption` and their like): that the sets are finite where
the code's are, that arguments have the types of the entry points or of the TypeScript
parameters, that the contract starts with no tokens and that it cannot be frozen itself.

The argument for the contract. `TypeOK` is not inductive: `claim_refund` subtracts a
recorded contribution from the escrow's amount, which stays in its type only if the
amount is the sum of the open contributions. The inductive invariant is `Accounted`:

* `TypeOK`;
* `StatusMirrors`: the `Status` entry equals the status in the record, needed because
  `LiabilityExact` reads the one and the guards the other;
* `ClaimsWait`: a claimed contribution belongs to a round whose deadline has passed. A
  contribution added to a record already claimed would be owed to nobody and break the
  sum; it cannot be, since claims and contributions lie on opposite sides of it;
* `PoolExact`.

A lemma per family of entry points says what a step does (`SettleEffect`, `CreateEffect`,
`DepositEffect`, `EditEffect`, `PoolEffect`, `ClaimEffect`, `EnvironmentEffect`);
`StepKinds` shows that these are all the steps. Each part of the invariant is then kept
by each family. `Solvent` and `LiabilityExact` follow step by step from `Accounted`: a
settlement sends exactly the amount whatever the fee (`SentIsAmount`), and the total
over all escrows moves by what moved (`OwedGrows`, `OwedKept`, `OwedSettles`). TLC
confirmed `Accounted` on the three contract configurations beforehand.

The refinement rests on the same invariant. A surplus is a sum over all escrows, but while
`LiabilityExact` holds it is the difference of two counters (`Mapped`), and a step's effect
on both is what the lemmas above say. So each family of entry points is mapped by one
lemma: creations to `Open` (`OpenStep`), deposits and claims to `Adjust` (`AdjustStep`),
settlements of one or several escrows to `Settle`, and everything else to a step that leaves
the purses alone; only a clawback lets a surplus shrink, and only in a token that has one.

The action properties of the contract are shown in the same two stages: a lemma says what
each entry point asked before it did what it did (`SettlingCall` for the six ways to
settle, the `Create...`, `Edit...` and `Claim...` lemmas for the others), and the property
follows by cases over `StepKinds`. `SettlementAuthorised` splits a settlement by entry
point, since each has checks of its own on one shared routine; `AcceptanceDecides`
needs `AcceptancesPast` besides: no acceptance is dated later than now. `PayoutsEntitled` is about
sums: a batch sends an address the total of its shares (`Sent`, `Share`), and what has
arrived there can only be more than before if one of the shares is not zero.

The provers have no ENABLED, but that a call can be made can be said without it. A
*move* fixes every variable after the step from those before it (`SettledAlone`: this escrow
settled and paid out, `ClaimedBack`: this contribution returned, nothing else changed), and the
theorems say that the move, signed by whom it takes, is a step of the entry point:
`RefundsAreOpen` for `refund` and `refund_with_approvals` (what `AlwaysAWayOut` checks, and
past `refund_after` for anybody), `ReleasesAreOpen` for the releases of an escrow whose gates
are open or of a full pool, `ClaimsAreOpen` for every contributor of a failed round. What could refuse them inside
the contract is arithmetic, and the invariants they assume rule it out in every state
(`GroundsAlways`): the counter covers the amount (`LiabilityExact`), as many
releasers are listed as must sign (`QuorumsFit`), the fee can be computed (`FeesFit`) and is part
of the amount (`FeeIsPart`), and a pool has no gate, hook or fee (`PoolsPlain`). What they
leave to be asked is outside the contract: that those who are paid take transfers, that the payee's hook
does not fail, that no issuer has clawed the amount back, and that no releaser is the
contract itself, for which nobody can sign. `FeesFit` is not inductive alone: contributions are
added to a pool without a look at its fee, which is right because it has none.

For the account, `TypeOK /\ QuorumReachable` is inductive as it stands: a window of zero
ledgers would leave `WindowOf` undefined, `QuorumReachable` ties the counter to the set,
and the removal of a key asks for one more than the threshold. The two action
properties rest on `ListCounts`: a list that verifies is an injection into the keys that
signed and are registered, so their number reaches its length and the threshold; and a
list as long as the signer set is all of it, which is what a change of policy asks for.

`SlotsBounded` needs that the usage counter of a window is the sum of what was let through
in its ledgers since the policy was set; a run of as many ledgers as a window overlaps two
windows at most, and the sum over it is at most the sums over both (`TotalMonotone`).

The parts of the SDK are proved about one by one: `CallsSpec`, `MultisigSpec`,
`AmountsSpec`, `FactorySpec` and `WalletSpec` are a part's initial states and its next-state relation over its own
variables, and every step of the run's `SdkSpec` is a step of a part or leaves its
variables as they are. `WritesSpec` is the part that reaches the contract: any methods,
one group of calls, prepared and relayed calls and the network, interleaved.

* Single calls. `GateKept` says what is known of the server at each place of a call and in
  each cached promise: it must hold of the caches as well as of the calls, since a check
  asked for by one call lets another one past. `CallMoves` lists what a step can do to a
  call, so that the freshness of failures and the spans need one case each. For the former,
  `LossesCounted` says that while a loss is passing through the lookup (`Rejecting`), who may
  still be told of it was there before it was lost, or called meanwhile (`amid`) and, unless
  it asks for the version alone, gets a network check of its own first.
* Calls signed ahead. In every document, however it was mixed up from others, the ledger
  at which the signature runs out is the one its signer was told (`DocsKept`). What is
  submitted keeps that and is the call its submitter expected, whatever the label says;
  and no two executed calls share a nonce, since the chain refuses one it has seen
  (`TxsKept`).
* Creations. The call that a creation becomes is one of `createEscrow`'s for its
  parameters (`AtOnce`), whether it was made by hand or by a group, and each of the four
  entry points stores what it is given (`CreateOneEffect`).
* Groups. `GroupKept` ties the results to the items, the cursor and the transactions in
  flight. `ReportsAreTrue` needs besides that the ids of executed creations differ
  (`TxsTrue`) and that what a transaction did stays: a settled status does by the
  contract's own finality, but the amount of a plain escrow can be topped up. The property
  compares it with the amount that was asked for, so the theorem speaks of the states
  before which no call through the SDK was a top-up (`NobodyTopsUp`); in the others it is
  the property that would have to say "at least".
* Refusals. `RefusalsAreRight` compares the checks of `checkLifecycleCall` with the guards of
  the three entry points; it needs no invariant.
* Milestones. A group of milestones is made one at a time, so its results are the items up
  to some place, all but the last of them successes (`InOrder`); and each place was sent at
  most once, so there is at most one transaction more than there are results (`SentOnce`):
  the tranche that an answer was lost of. With that the amounts of a group that returned are
  the tranches', which add up, and a group that failed leaves at most one escrow unlisted.
  `SettledAsNamed` (a settlement of the group named the tranche whose escrow it settled) and
  `ReleasedByCall` (what was created through the SDK was released by an executed call)
  tie `getMilestones` to the calls. Two hypotheses tell the group from the
  other callers that `WritesSpec` lets do anything: `TranchesApart`, nobody creates
  by another call an escrow with a tranche's parameters, whose condition reference
  bears the tranche's tag; and `ReleasedThroughGroup`, an escrow of the group is released by
  a call that names its tranche. In a state where somebody released it by its bare id, it
  is `released` although no call on a milestone did so, which is right of the code and not
  what the property says.
* Multisig helper. `MultisigKept` says that every setup built has the operations of a
  policy that was validated, and that an account whose last change was a setup is one such
  a setup produces (`Reaches`): its thresholds are the policy's, its signers have the weights the
  policy gives them, whatever signers it had besides. `SetupChanges` follows the operations
  one by one through the recursive function `Changed`; weights are sums over keys, so that
  a larger set of signers never has less weight (`TotalPart`).
* Amounts. `AmountsKept` says that the cache holds what the tokens report. The rest is
  arithmetic in sequences of digits: the value of a concatenation (`ValueOfConcatenation`),
  digits of a number are worth the number (`ValueOfNumber`), and both directions of the
  helper from these (`TypedIsScaled`, `ShownIsTyped`).

The provers have no induction over data. Where a recursive function is followed, the
proof forms the set of the numbers up to which a statement holds, shows that it has 0 and
with each number the next one, and concludes that it is all of them (`AllNumbers`, from
the well-foundedness of the natural numbers).

Each reader is proved about beside a contract that anybody may call (`FeedSpec`,
`IndexerSpec`, `ViewSpec`); in the run each behaviour has one reader, whose steps are those
of that specification, with inputs the run bounds. They rest on `ChainKept`: `Accounted`,
and that a pool has no deadline of its own for refunds.

* Subscription. `FeedKept` says for each place in the loop which events are finished
  (`Reached`) and what a page still holds (`PageKept`): its events are ascending, lie past
  what is finished and up to `next`, and include every unfinished match there. A page that was
  cut by its limit, emptied by the filter or abandoned halfway keeps it alike.
* Indexer. `LogKept` is about the log itself: every escrow has an event from which on all
  its events agree with the escrow as it is now, in each field if it is settled and in those
  that last if not. `IndexKept` adds that for every event worked off, the record of its
  escrow comes from that event or a later one (`UpToDate`); at the end of the log that
  leaves only events that agree.
* View. `ViewKept` bounds what an old copy can still be right about: the status of a settled
  escrow and its refund deadline (`Tells`), which is why a view may stop polling, and that
  what its clock shows is a time the local clock has reached (`ClockReached`), whatever its
  errors are.

TLC confirmed the three on the instance of `readers` beforehand.

Only model-checked: the liveness properties, `AlwaysAWayOut` and `PreflightSound`, since fairness
and ENABLED are out of the prover's reach. Of the last two the theorems `RefundsAreOpen`,
`ReleasesAreOpen`, `ClaimsAreOpen` and `RefusalsAreRight` say without ENABLED what they say
with it, and TLC evaluates the ENABLED itself.

## 5. Where the repository says otherwise

`EscrowClaims`, `WindowCapKept`, `SdkClaims` and `ReaderClaims` state six sentences of the
repository as they are written; the `claim_*` runs refute each with a short trace.

* `claim_acceptance`: docs/threat-model.md:63 (I6) says that an escrow with
  `requires_acceptance` cannot be released, refunded or cancelled before `accept`;
  refund and cancel do not ask for it (the payee-acceptance ADR 0008 agrees with the
  code on refunds).
* `claim_window`: ADR 0008 (window cap) says the cap limits the operations accepted
  during a window. Slots are stored under the window's index alone, and a `SetPolicy`
  that every signer approved renumbers the windows: operations already made in the
  window now in force are not counted. Within one policy the cap holds.
* `claim_resume`: sdk/src/index.ts:564-567 says a batch taken up again with `resumeFrom`
  never double-creates. An item whose answer was lost is recorded as failed and sent
  again. What was *reported* as done stays so (`ResumeKeepsSuccesses`).
* `claim_lockout`: sdk/src/multisig.ts:322 says the setup throws on any configuration that
  would lock the account out. A kept master key is counted with the weight the policy
  lists it with, and no operation sets that weight. With the master key removed, which is
  the default, the statement holds (`ControlKept`).
* `claim_retry`: sdk/src/index.ts:1253-1254 says a failed version lookup is not cached. A
  lookup waits for the network check, and when that fails, those who awaited
  `verifyNetwork()` hear of it some turns of the microtask queue before the lookup is
  forgotten (index.ts:1228, 1270). Who then asks for the version gets the lookup that is
  about to fail, for a loss older than the call. All other calls ask anew
  (`FailuresAreFresh`).
* `claim_refresh`: useEscrowActions.ts:35-37 says a successful action refreshes the view.
  React Query does not restart a first read under way; if it had its answer before the
  action, the action resolves while the view shows the escrow as it was, with no failure,
  until the next poll if there is one. In every other case it holds (`ViewTruth`).

One disagreement is shown by what a passing run checks and a theorem proves:

* docs/threat-model.md:717-722, 728-730 and 756 (T15) say that `release_with_approvals`
  intentionally does not respect `release_not_before`, and that quorum approvals can release
  at any time. `settle` checks it for every release (lib.rs:1467-1473), so one by approvals
  fails before it too. `SettlementAuthorised` follows the code: `gates` checks it with a
  time-locked escrow and every list of approvers, `SettlementsAreAuthorised` proves it. (No
  entry point makes a time-locked escrow with several releasers; its one releaser is its
  quorum.)

Five more came up and are not the subject of a run (`findings`):

* lib.rs:586 says the releaser set cannot be changed; `rotate_releaser` replaces a 1-of-N
  set by one address. `TermsKept` allows it, on the signatures the code asks for.
* lib.rs:1115 says an operation of a batch is checked exactly like the entry point it
  mirrors; a payee's refund passes alone and is turned down in a batch.
* A gated creation drops the fee its caller asked for.
* `deployInstance` returns a salt that may not be the salt of the instance it returns.
* `isTerminalStatus` does not know `Cancelled`, so a cancelled escrow is polled for ever
  (what is shown is right, `ViewTruth`).

Noted while reading, and stated in no property:

* `deployInstance` returns the predicted id of a transaction that is merely pending;
  `InstanceKnown` speaks of the executed ones.
* `createMilestoneEscrow` cannot name a tranche whose answer was lost in
  `createdEscrowIds`; `MilestonesAccounted` allows one such escrow.
* A subscription that fails before its handler finished an event has nothing to resume
  from: subscribed afresh, it starts at the present.
* `getEvents` with a `types` filter lets through events of topics it does not know, as the
  comment at index.ts:164-167 has it for clients older than the contract.
* `getSolvency`, `isPaused` and `getPauseAdmin` do not call `ensureNetworkVerified`, whose
  doc (index.ts:1236) speaks of every network call path. `VerifiedBeforeSent` is about
  writes and the reads that call it.
* The wallet signer checks the wallet against the passphrase it was built with and asks it
  to sign for the one in the call's options, if there is one. `WalletAskedRightly` tells
  the cases apart.
* The clock of `useEscrowTimeline` is the local one, with an offset of 0 unless the
  application gives one, as its comment says (useEscrowTimeline.ts:11-19): a countdown can
  end before or after the contract's deadline, and `ViewTruth` promises no more than that.
* `submitLifecycleCall` and `submitRelayed` compare the `method` field of the document's JSON
  (index.ts:1832, 1836, 2327-2331); `MethodMatches` compares the function the transaction
  calls. That they agree is taken from the library that reads the document.
* A wallet's refusal is what `isUserRejection` recognises; an error worded otherwise is a
  failure to the SDK, and `WalletAskedRightly` goes by its view.
* The SDK limits `conditionRef` by its length as a string, the contract by bytes.
* `IndexedEscrow.status` of the indexer client (indexer-client.ts:15) lacks `Cancelled`.
* A releaser account can take part in neither `settle_many` nor the approvals calls.
* README.md:52 speaks of 20 settle operations, lib.rs:91 of 12.

## 6. Plan

Done: the contract, its promise and events; the account; the TypeScript SDK; the readers. Next:

1. `EscrowWithAccount`: the contract composed with an account as its releaser. Each keeps
   its own promise already; the composition would show which escrows it cannot settle.
2. The Go client: the writes of `SdkRequests` with a poll that times out while the
   transaction lives on.

## 7. What is not modelled

* Strings, formatting, condition references (only their length): opaque to the contract.
* Storage lifetimes. Only liability entries and window counters have theirs extended;
  an archived entry must be restored before a call can name it, so a step sees every
  entry. A window counter outlives its window because `window_ledgers < max_ttl`.
* Re-entrant tokens and hooks: the host refuses to enter a contract that is on its call
  stack, which makes an invocation atomic. A model of it would check the host.
* Fees of the network, resource limits other than the code's own constants, upgrades
  (the contract has none). With them `estimate`, `feeBump` and `guardSponsorship`, which
  compute and check the fee of a transaction and change no state.
* Of the SDK, what only decodes or looks up: the decoder for records of older contracts,
  whose code is not in the repository, the deployment table, the generated bindings beyond
  the calls that reach them, and the GraphQL query of the indexer client.
* The Go client (section 6).
* React Query, SubQuery, the RPC server, the factory contract, wallets and their kits: they
  are external, and appear as what the code in `src/` can observe of them.
* The web demo, deployment and repository scripts (among them the pull-request checks of
  `.github/scripts`), and the earlier `spec/Escrow.tla` and `certora/escrow.spec`, which
  describe an earlier, smaller contract.
