----------------------------- MODULE SdkRequests -----------------------------
(* The writes of the TypeScript SDK (sdk/src/index.ts) on their way to the    *)
(* contract: what a method checks before it sends anything, the contract call *)
(* it turns its parameters into, whose keys sign it, and the transaction that *)
(* carries it.  A transaction may be executed late, be dropped, or be          *)
(* executed while its answer is lost.                                         *)
(*                                                                            *)
(* Names in lower case are the SDK's methods; the capitalised ones they reach *)
(* are the entry points of EscrowContract.  Definitions marked Fault are      *)
(* mistaken versions of the definition that follows them.                     *)
EXTENDS EscrowContract

CONSTANTS
  MAX_CONDITION_REF_LENGTH,  \* the SDK's copies of the contract's limits
  SdkMaxReleasers, SdkMaxFeeBps,
  \* The inputs enumerated: parameters of the creators, ids, callers, amounts,
  \* lists of approvers
  CreateInputs, QuorumInputs, PoolInputs, CalledIds, CallerInputs, AmountInputs, ApproverInputs,
  MaxTxs                     \* transactions sent

VARIABLE txs                 \* the transactions sent, in order

chain == <<now, paused, nextId, books, world, auth>>
netVars == <<chain, txs>>

\* Signers are the addresses of their keys.  A conditionRef is a string of some
\* length, which the SDK looks at, and of some bytes, which the contract counts.
ConditionRef == {ref \in [length : Nat, bytes : Nat] : ref.length <= ref.bytes}
CreateEscrowParams ==
  [payer : Addr, payee : Addr, token : Tokens, amount : Int, conditionRef : ConditionRef,
   releaser : Addr, refundAfter : Option(Nat), notifyPayee : BOOLEAN,
   refundTo : Option(Addr), releaseNotBefore : Option(Nat),
   feeRecipient : Option(Addr), feeBps : Option(Int), requiresAcceptance : BOOLEAN]
CreateQuorumEscrowParams ==
  [payer : Addr, payee : Addr, token : Tokens, amount : Int, conditionRef : ConditionRef,
   releasers : Seq(Addr), threshold : Int, refundAfter : Option(Nat),
   notifyPayee : BOOLEAN, refundTo : Option(Addr)]
CreatePooledEscrowParams ==
  [creator : Addr, payee : Addr, token : Tokens, fundingTarget : Int, conditionRef : ConditionRef,
   releaser : Addr, fundingDeadline : Int]

Distinct(list) == \A i, j \in DOMAIN list : list[i] = list[j] => i = j

\* A method either throws before anything is sent, or sends one call.
Unless(refused, call) == IF refused THEN {} ELSE {call}
-----------------------------------------------------------------------------
(* Creation.                                                                  *)

BadCreateParams(p) ==
  \/ p.conditionRef.length > MAX_CONDITION_REF_LENGTH
  \/ (p.feeRecipient = {}) # (p.feeBps = {})
  \/ \E bps \in p.feeBps : bps < 0 \/ bps > SdkMaxFeeBps
  \/ p.requiresAcceptance /\ (p.notifyPayee \/ p.releaseNotBefore # {})

\* Fault: one of the entry points is not told where a refund goes.
RefundToForgotten(p) == IF p.requiresAcceptance THEN {} ELSE p.refundTo
RefundToArgument(p) == p.refundTo

\* The entry point with an acceptance gate takes no fee, so it is given none.
CreateArguments(p) ==
  LET fee(f) == IF p.requiresAcceptance THEN {} ELSE f IN
  [payer |-> p.payer, payee |-> p.payee, token |-> p.token, amount |-> p.amount,
   condition_ref_len |-> p.conditionRef.bytes, releasers |-> <<p.releaser>>, threshold |-> 1,
   refund_after |-> p.refundAfter, notify_payee |-> p.notifyPayee,
   requires_acceptance |-> p.requiresAcceptance, refund_to |-> RefundToArgument(p),
   release_not_before |-> p.releaseNotBefore,
   fee_recipient |-> fee(p.feeRecipient), fee_bps |-> fee(p.feeBps)]

createEscrow(p) ==
  Unless(BadCreateParams(p),
    [fn |-> IF p.requiresAcceptance THEN "create_escrow_with_acceptance"
            ELSE IF p.releaseNotBefore = {} THEN "create_escrow"
            ELSE "create_escrow_release_time",
     request |-> CreateArguments(p), params |-> p, source |-> p.payer,
     signers |-> {p.payer}])

createQuorumEscrow(p) ==
  Unless(\/ p.conditionRef.length > MAX_CONDITION_REF_LENGTH
         \/ p.releasers = <<>> \/ Len(p.releasers) > SdkMaxReleasers
         \/ ~Distinct(p.releasers)
         \/ p.threshold < 1 \/ p.threshold > Len(p.releasers),
    [fn |-> "create_escrow_with_releasers",
     request |->
       [payer |-> p.payer, payee |-> p.payee, token |-> p.token, amount |-> p.amount,
        condition_ref_len |-> p.conditionRef.bytes, releasers |-> p.releasers,
        threshold |-> p.threshold, refund_after |-> p.refundAfter,
        notify_payee |-> p.notifyPayee, requires_acceptance |-> FALSE,
        refund_to |-> p.refundTo, release_not_before |-> {},
        fee_recipient |-> {}, fee_bps |-> {}],
     source |-> p.payer, signers |-> {p.payer}])

createPooledEscrow(p) ==
  Unless(\/ p.conditionRef.length > MAX_CONDITION_REF_LENGTH
         \/ p.fundingTarget <= 0 \/ p.fundingDeadline <= 0,
    [fn |-> "create_pooled_escrow",
     request |-> [creator |-> p.creator, payee |-> p.payee, token |-> p.token,
                  funding_target |-> p.fundingTarget, condition_ref_len |-> p.conditionRef.bytes,
                  releaser |-> p.releaser, funding_deadline |-> p.fundingDeadline],
     source |-> p.creator, signers |-> {p.creator}])
-----------------------------------------------------------------------------
(* Reads.  Each is simulated on the chain as it stands.                       *)

getStatus(id) == status[id]

\* The record under the SDK's names.  The text of conditionRef is not kept.
getEscrow(id) ==
  LET e == escrow[id] IN
  [payer |-> e.payer, payee |-> e.payee, token |-> e.token, amount |-> e.amount,
   releasers |-> e.releasers, threshold |-> e.threshold, refundAfter |-> e.refund_after,
   notifyPayee |-> e.notify_payee, refundTo |-> e.refund_to,
   releaseNotBefore |-> e.release_not_before, feeRecipient |-> e.fee_recipient,
   feeBps |-> e.fee_bps, requiresAcceptance |-> e.requires_acceptance,
   acceptedAt |-> e.accepted_at, status |-> e.status]

\* A pool's configuration, and one contributor's record, if there is any.
getPooled(id) ==
  [fundingTarget |-> pooled[id].funding_target, fundingDeadline |-> pooled[id].funding_deadline]
getContribution(id, contributor) ==
  {contribution[key] : key \in {<<id, contributor>>} \cap DOMAIN contribution}
-----------------------------------------------------------------------------
(* Calls on one escrow.                                                       *)

\* A call that its caller signs and pays for.
By(caller, fn, id) ==
  [fn |-> fn, id |-> id, caller |-> caller, source |-> caller, signers |-> {caller}]
WithAmount(call, amount) ==
  [fn |-> call.fn, id |-> call.id, caller |-> call.caller, source |-> call.source,
   signers |-> call.signers, amount |-> amount]

release(id, caller) == {By(caller, "release", id)}
refund(id, caller) == {By(caller, "refund", id)}
contribute(id, payer, amount) ==
  Unless(amount <= 0, WithAmount(By(payer, "contribute", id), amount))
claimRefund(id, contributor) == {By(contributor, "claim_refund", id)}
pause(caller) == {By(caller, "pause", 0)}
unpause(caller) == {By(caller, "unpause", 0)}

\* All the approvers sign the one call; the first is its source.
settleWithApprovals(settlement, id, approvers) ==
  Unless(approvers = <<>> \/ ~Distinct(approvers),
    [fn |-> settlement, id |-> id, approvers |-> approvers, source |-> Head(approvers),
     signers |-> {approvers[i] : i \in DOMAIN approvers}])
releaseWithApprovals(id, approvers) == settleWithApprovals("release_with_approvals", id, approvers)
refundWithApprovals(id, approvers) == settleWithApprovals("refund_with_approvals", id, approvers)

\* The three lifecycle calls: who must be the caller, going by what was read.
LifecycleParty(e, fn) == IF fn = "accept" THEN e.payee ELSE e.payer

\* Fault: any escrow is taken to have an acceptance gate it has passed.
PreconditionsFailLate(e, call) ==
  \/ call.caller # LifecycleParty(e, call.fn)
  \/ e.status # "Funded"
  \/ e.requiresAcceptance \/ e.acceptedAt # {}
\* checkLifecycleCall over the escrow it read.
PreconditionsFail(e, call) ==
  \/ call.caller # LifecycleParty(e, call.fn)
  \/ e.status # "Funded"
  \/ call.fn # "top_up" /\ (~e.requiresAcceptance \/ e.acceptedAt # {})

LifecycleRefused(call) ==
  \/ call.fn = "top_up" /\ call.amount <= 0
  \/ ~Exists(call.id)
  \/ PreconditionsFail(getEscrow(call.id), call)

LifecycleCall(fn, id, caller, amount) == WithAmount(By(caller, fn, id), amount)
topUp(id, payer, amount) ==
  LET call == LifecycleCall("top_up", id, payer, amount) IN Unless(LifecycleRefused(call), call)
accept(id, payee) ==
  LET call == LifecycleCall("accept", id, payee, 0) IN Unless(LifecycleRefused(call), call)
cancel(id, payer) ==
  LET call == LifecycleCall("cancel", id, payer, 0) IN Unless(LifecycleRefused(call), call)
-----------------------------------------------------------------------------
(* The network.                                                               *)

\* The entry point a call names, run with its arguments.
Invocation(call) ==
  \/ call.fn = "create_escrow" /\ CreateEscrow(call.request)
  \/ call.fn = "create_escrow_release_time" /\ CreateEscrowReleaseTime(call.request)
  \/ call.fn = "create_escrow_with_acceptance" /\ CreateEscrowWithAcceptance(call.request)
  \/ call.fn = "create_escrow_with_releasers" /\ CreateEscrowWithReleasers(call.request)
  \/ call.fn = "create_pooled_escrow" /\ CreatePooledEscrow(call.request)
  \/ call.fn = "contribute" /\ Contribute(call.id, call.caller, call.amount)
  \/ call.fn = "claim_refund" /\ ClaimRefund(call.id, call.caller)
  \/ call.fn = "accept" /\ Accept(call.id, call.caller)
  \/ call.fn = "top_up" /\ TopUp(call.id, call.caller, call.amount)
  \/ call.fn = "cancel" /\ Cancel(call.id, call.caller)
  \/ call.fn = "release" /\ Release(call.id, call.caller)
  \/ call.fn = "refund" /\ Refund(call.id, call.caller)
  \/ call.fn = "release_with_approvals" /\ ReleaseWithApprovals(call.id, call.approvers)
  \/ call.fn = "refund_with_approvals" /\ RefundWithApprovals(call.id, call.approvers)
  \/ call.fn = "pause" /\ Pause(call.caller)
  \/ call.fn = "unpause" /\ Unpause(call.caller)

\* The call takes effect only on the signatures the contract asks for.
TakesEffect(call) == Invocation(call) /\ auth' \subseteq call.signers

\* A transaction is built on the sequence number of its source, which the
\* transactions that succeed move on; those built on the same one exclude each other.
SequenceOf(source) ==
  Cardinality({k \in DOMAIN txs : txs[k].state = "executed" /\ txs[k].call.source = source})
Submitted(call) ==
  /\ Len(txs) < MaxTxs
  /\ txs' = Append(txs, [call |-> call, state |-> "sent", escrowId |-> {}, ledger |-> {},
                         sequence |-> IF "sequence" \in DOMAIN call THEN call.sequence
                                      ELSE SequenceOf(call.source)])

\* What was signed ahead has a nonce, which is good once, and a last ledger.  A
\* ledger closes with every tick.
Unspent(call) ==
  "nonce" \in DOMAIN call =>
    \A tx \in {txs[j] : j \in DOMAIN txs} :
      tx.state = "executed" /\ "nonce" \in DOMAIN tx.call => tx.call.nonce # call.nonce
InTime(call) == "expires" \in DOMAIN call => \A last \in call.expires : now <= last

\* A transaction enters a ledger and succeeds; what it creates gets the next id.
Execute(k) ==
  /\ txs[k].state = "sent" /\ txs[k].sequence = SequenceOf(txs[k].call.source)
  /\ Unspent(txs[k].call) /\ InTime(txs[k].call)
  /\ TakesEffect(txs[k].call)
  /\ txs' = [txs EXCEPT ![k].state = "executed", ![k].ledger = {now},
                        ![k].escrowId = IF nextId' > nextId THEN {nextId} ELSE {}]

\* It fails in its ledger, or its time bounds pass.
Drop(k) ==
  /\ txs[k].state = "sent"
  /\ txs' = [txs EXCEPT ![k].state = "dropped"]
  /\ UNCHANGED chain

\* The calls the methods send now.
Creations ==
  UNION ({createEscrow(p) : p \in CreateInputs} \cup {createQuorumEscrow(p) : p \in QuorumInputs}
         \cup {createPooledEscrow(p) : p \in PoolInputs})
CallsBy(a, id) ==
  release(id, a) \cup refund(id, a) \cup claimRefund(id, a) \cup accept(id, a) \cup cancel(id, a)
  \cup (UNION {contribute(id, a, n) \cup topUp(id, a, n) : n \in AmountInputs})
Calls ==
  Creations
  \cup (UNION {CallsBy(a, id) : a \in CallerInputs, id \in CalledIds})
  \cup (UNION {releaseWithApprovals(id, l) \cup refundWithApprovals(id, l) :
                  l \in ApproverInputs, id \in CalledIds})
  \cup (UNION {pause(a) \cup unpause(a) : a \in CallerInputs})

\* Any method, called by anybody; its answer is not waited for.
CallMethod == \E call \in Calls : Submitted(call) /\ UNCHANGED chain

Network ==
  \/ \E k \in DOMAIN txs : Execute(k) \/ Drop(k)
  \/ Tick /\ UNCHANGED txs

RequestsInit == Init /\ txs = <<>>
RequestsNext == CallMethod \/ Network
=============================================================================
