----------------------------- MODULE SdkProperties -----------------------------
(* What the SDK promises its callers, over the contract and a network that may  *)
(* lose what it is asked and what it answers.                                   *)
EXTENDS SdkCalls, SdkBatch, SdkSigning

-----------------------------------------------------------------------------
(* Verification and spans.                                                     *)

\* The gate of every write and checked read: once it is past, the RPC has named
\* the configured network whenever the mode asks for it, and the contract's
\* version is supported if that was required, however many callers share one
\* check and whichever of its requests fail.
VerifiedBeforeSent ==
  \A c \in Callers :
    calls[c].kind \in {"write", "read"} /\ calls[c].at \in Phases \cup {"done"} =>
      /\ NetworkVerification = "required" => rpc.getNetwork
      /\ NetworkVerification # "off" /\ rpc.getNetwork =>
           rpc.network = "ours" /\ networkVerified = "verified"
      /\ ContractVersionCheck = "required" => rpc.version = "supported"

\* Failures are not handed on: a call that reports a lost request lost one after
\* it was made, its own or one it waited for.  Only verifyContractVersion can get an
\* older one, and only if it was made while that one was passing through the
\* promises: writes, reads and verifyNetwork ask again even then.
FailuresAreFresh ==
  \A c \in Callers :
    LET call == calls[c] IN
    call.at = "failed" /\ call.cause = "lost" =>
      lost > call.lostBefore \/ (call.kind = "verifyContractVersion" /\ call.amid)

\* A call that returns has closed every span it opened, once; a write that
\* succeeded has its four phases, and one that was sent at all has both of its
\* network phases even if it failed between them.
SpansBalanced ==
  \A c \in Callers :
    LET call == calls[c] IN
    config.onEvent /\ call.at \in {"done", "failed"} =>
      /\ \A p \in Phases : call.spans[p].opened = call.spans[p].ended
      /\ call.kind = "write" /\ call.at = "done" => \A p \in Phases : call.spans[p].ended = 1
      /\ call.spans["submit"].ended = call.spans["confirm"].ended
-----------------------------------------------------------------------------
(* Creation.                                                                   *)

\* An escrow the SDK creates reads back as its parameters describe it, whichever
\* of the four entry points they lead to; the gate takes no fee.
CreatedAsAsked ==
  [][\A k \in DOMAIN txs :
       LET call == txs[k].call p == call.params IN
       /\ txs[k].state = "sent" /\ txs'[k].state = "executed"
       /\ "params" \in DOMAIN call
       => LET e == getEscrow(nextId - 1)' IN
          /\ <<e.payer, e.payee, e.token, e.amount, e.releasers, e.threshold>>
               = <<p.payer, p.payee, p.token, p.amount, <<p.releaser>>, 1>>
          /\ e.refundAfter = p.refundAfter /\ e.notifyPayee = p.notifyPayee
          /\ e.refundTo = (IF p.refundTo = {} THEN p.payer ELSE The(p.refundTo))
          /\ e.releaseNotBefore = p.releaseNotBefore
          /\ e.requiresAcceptance = p.requiresAcceptance
          /\ ~p.requiresAcceptance =>
               e.feeRecipient = p.feeRecipient /\ e.feeBps = p.feeBps]_netVars
-----------------------------------------------------------------------------
(* Groups of calls.                                                            *)

\* What an item's success stands for on the chain.
Done(i) ==
  LET item == Items(job)[i] IN
  IF job.does = "settle"
    THEN Exists(item.escrowId) /\
         escrow[item.escrowId].status = (IF item.kind = "release" THEN "Released" ELSE "Refunded")
    ELSE \E id \in results[i].escrowId :
           Exists(id) /\ escrow[id].payee = item.payee /\ escrow[id].amount = item.amount

\* Reports are true and complete: an item said to have succeeded did, under an
\* id no other item has; a run that ends has tried every item that had not
\* succeeded, and returns normally only if all have.
BatchReportsTruth ==
  /\ \A i \in DOMAIN results : results[i].ok => Done(i)
  /\ \A i, j \in DOMAIN results :
       i # j /\ results[i].escrowId # {} => results[i].escrowId # results[j].escrowId
  /\ phase \in {"returned", "thrown"} /\ job.does # "milestones" =>
       \A i \in DOMAIN results : results[i].tried \/ results[i].skipped
  /\ phase = "returned" => \A i \in DOMAIN results : results[i].ok

\* resumeFrom: an item that was reported done is carried over as done and under
\* the same id, however often the batch is taken up.
ResumeKeepsSuccesses ==
  [][\A i \in DOMAIN results :
       results[i].ok => i \in DOMAIN results' /\ results'[i].ok
                        /\ results'[i].escrowId = results[i].escrowId]_<<batchVars, netVars>>

\* A call is answered or given up on in the end, and the loop goes on with what
\* it has; whether calls succeed is not assumed.
BatchFairness ==
  /\ WF_<<batchVars, netVars>>(BatchSend \/ BatchThrow)
  /\ WF_<<batchVars, netVars>>(BatchAnswer \/ BatchFail)
  /\ WF_<<batchVars, netVars>>(BatchEnd)

\* However its chunks are sized and its calls go, a group comes to an end.
BatchEnds == phase = "running" ~> phase \in {"returned", "thrown"}

Executed(k) == txs[k].state = "executed"
\* The transactions that took item i onto the chain.
Carried(i) == {k \in DOMAIN txs : Executed(k) /\ txs[k].call \in ItemCall(job, Items(job)[i])}

\* A milestone group that returns has one escrow per tranche and they add up to
\* the amount; one that fails lists the tranches before the failure and leaves
\* at most the failed one, whose answer was lost, on the chain unlisted.  A call on
\* one milestone settles that tranche, and none reads as released without one.
MilestonesAccounted ==
  job.does = "milestones" =>
    LET listed == {i \in DOMAIN results : results[i].ok} IN
    /\ phase = "returned" => Total([i \in listed |-> job.milestones[i]]) = job.params.amount
    /\ phase = "thrown" =>
         /\ listed = 1..Cardinality(listed) /\ Cardinality(listed) < Len(results)
         /\ Cardinality(UNION {Carried(i) : i \in DOMAIN results}) <= Cardinality(listed) + 1
    /\ phase = "returned" => \A i \in DOMAIN results :
         LET settled == {txs[k].call.fn : k \in {j \in DOMAIN txs : Executed(j) /\
                           "milestone" \in DOMAIN txs[j].call /\ txs[j].call.milestone = i - 1}} IN
         /\ "release" \in settled <=> getMilestones[i] = "released"
         /\ "refund" \in settled => getMilestones[i] = "refunded"
-----------------------------------------------------------------------------
(* Calls signed in several places.                                             *)

\* A prepared or relayed call takes effect as what its submitter expected, at
\* most once, and on the party's signature only until the ledger it was told.
ExecutedAsMeant ==
  \A k \in DOMAIN txs :
    Executed(k) /\ "nonce" \in DOMAIN txs[k].call =>
      LET call == txs[k].call IN
      /\ \A fn \in call.expected : call.fn = fn
      /\ call.expires # {} => \A l \in txs[k].ledger : l <= call.announced
      /\ \A j \in DOMAIN txs :
           j # k /\ Executed(j) /\ "nonce" \in DOMAIN txs[j].call => txs[j].call.nonce # call.nonce

\* What the doc of getPooled has a reader conclude: a round that reads full can be
\* released, one that reads short at its deadline pays back every record not claimed.
RoundReadsTrue ==
  \A id \in DOMAIN pooled :
    LET e == getEscrow(id) p == getPooled(id) IN
    getStatus(id) = "Funded" =>
      /\ e.amount = p.fundingTarget => ENABLED Release(id, Head(e.releasers))
      /\ now >= p.fundingDeadline /\ e.amount < p.fundingTarget =>
           \A a \in Addr : \A r \in getContribution(id, a) :
             ~r.refunded => ENABLED ClaimRefund(id, a)

\* What is read before a call tells what the contract will do: checkLifecycleCall
\* refuses nothing that the contract, with the escrow as it stands, would take from
\* anybody at any time, and a pool is where its reader thinks it is.
PreflightSound ==
  /\ RoundReadsTrue
  /\ \A id \in DOMAIN escrow, fn \in {"top_up", "accept", "cancel"}, a \in Addr :
       LET call == LifecycleCall(fn, id, a, 1) IN
       PreconditionsFail(getEscrow(id), call) => ~ENABLED Invocation(call)
=============================================================================
