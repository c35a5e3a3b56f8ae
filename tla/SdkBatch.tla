------------------------------- MODULE SdkBatch -------------------------------
(* The SDK's groups of calls (sdk/src/index.ts): createEscrows and settleMany, *)
(* which try every item, report each and are taken up again with resumeFrom,   *)
(* and createMilestoneEscrow, which stops at its first failure.  They run      *)
(* against the contract over a network that may lose the answer of a call.     *)
EXTENDS SdkRequests

CONSTANTS
  Jobs,                \* the groups of calls tried
  MaxRuns              \* times one of them is started

VARIABLES
  job,                 \* the call: what it does, its items, its chunk size
  results,             \* BatchItemResult of each item
  index,               \* the item last attempted; 0 before the first
  waiting,             \* the transaction whose answer is awaited, if any
  phase, runs

batchVars == <<job, results, index, waiting, phase, runs>>

\* index is the position; tried is set by an attempt of this run.
BatchItemResult == [ok : BOOLEAN, skipped : BOOLEAN, tried : BOOLEAN, escrowId : Option(Nat)]
BatchSettleOperation == [escrowId : Nat, kind : {"release", "refund"}, caller : Addr]
BatchOptions == [chunkSize : Option(Int)]
\* A call of createEscrows, settleMany or createMilestoneEscrow.
BatchJob ==
  [does : {"create"}, items : Seq(CreateEscrowParams), chunkSize : Option(Int)]
  \cup [does : {"settle"}, items : Seq(BatchSettleOperation), chunkSize : Option(Int)]
  \cup [does : {"milestones"}, params : CreateEscrowParams, milestones : Seq(Int),
        chunkSize : Option(Int)]
Untried == [ok |-> FALSE, skipped |-> FALSE, tried |-> FALSE, escrowId |-> {}]

ASSUME JobsAssumption == Jobs \subseteq BatchJob /\ MAX_BATCH_SIZE > 0

\* Fault: a chunk may be empty.
AnyChunkSize(requested) == Min(requested \cup {MAX_BATCH_SIZE})
ResolveChunkSize(requested) ==
  IF \E n \in requested : n >= 1 THEN Min(requested \cup {MAX_BATCH_SIZE}) ELSE MAX_BATCH_SIZE

Chunk(start, size, n) == start..Min({start + size - 1, n})
\* The items the two loops go over, in ascending order.
Attempts(n, size) ==
  UNION {Chunk(start, size, n) : start \in {s \in 1..n : \E k \in 0..n : s = 1 + k * size}}
-----------------------------------------------------------------------------
(* Milestones: one escrow per tranche, tagged #m<i>/<n>.                      *)

\* Fault: the sum is not compared with the amount.
ValidateEachTranche(milestones, amount) ==
  amount > 0 /\ milestones # <<>> /\ \A i \in DOMAIN milestones : milestones[i] > 0
ValidateMilestoneSchedule(milestones, amount) ==
  /\ amount > 0 /\ milestones # <<>>
  /\ \A i \in DOMAIN milestones : milestones[i] > 0 /\ milestones[i] <= I128Max
  /\ Total(milestones) = amount /\ amount <= I128Max

\* The tag #m<i>/<n> is ASCII; the digits of numbers below 100.
Digits(n) == IF n < 10 THEN 1 ELSE 2
MilestoneConditionRef(ref, i, n) ==
  LET tag == 3 + Digits(i) + Digits(n) IN
  [length |-> ref.length + tag, bytes |-> ref.bytes + tag]

\* The parameters of the tranches, one createEscrow each.
Tranches(params, milestones) ==
  [i \in DOMAIN milestones |->
     [params EXCEPT !.amount = milestones[i],
                    !.conditionRef = MilestoneConditionRef(@, i, Len(milestones))]]
MilestoneAccepted(params, milestones) ==
  /\ ValidateMilestoneSchedule(milestones, params.amount)
  /\ \A i \in DOMAIN milestones :
       Tranches(params, milestones)[i].conditionRef.length <= MAX_CONDITION_REF_LENGTH

\* What each item of the job calls.
Items(j) == IF j.does = "milestones" THEN Tranches(j.params, j.milestones) ELSE j.items
SettleCall(op) ==
  IF op.kind = "release" THEN release(op.escrowId, op.caller) ELSE refund(op.escrowId, op.caller)
ItemCall(j, item) == IF j.does = "settle" THEN SettleCall(item) ELSE createEscrow(item)

\* The reports a run starts from.  Fault: what was done is not carried over.
BatchResultsAfresh(n, resumeFrom) == [i \in 1..n |-> Untried]
BatchResults(n, resumeFrom) ==
  [i \in 1..n |-> IF i \in DOMAIN resumeFrom /\ resumeFrom[i].ok
                    THEN [resumeFrom[i] EXCEPT !.skipped = TRUE, !.tried = FALSE] ELSE Untried]
-----------------------------------------------------------------------------
BatchStart(j) ==
  /\ phase = "idle"
  /\ job' = j
  /\ IF j.does = "milestones" /\ ~MilestoneAccepted(j.params, j.milestones)
       THEN phase' = "refused" /\ results' = <<>>
       ELSE phase' = "running" /\ results' = BatchResults(Len(Items(j)), <<>>)
  /\ index' = 0 /\ waiting' = {} /\ runs' = 1
  /\ UNCHANGED netVars

\* The items still to be attempted in this run, in the order of the loops.
Remaining ==
  {i \in Attempts(Len(results), ResolveChunkSize(job.chunkSize)) : i > index /\ ~results[i].ok}
Running == phase = "running" /\ waiting = {}

\* One item is sent; its parameters may make the SDK throw instead.
BatchSend ==
  /\ Running /\ Remaining # {}
  /\ \E call \in ItemCall(job, Items(job)[Min(Remaining)]) : Submitted(call)
  /\ index' = Min(Remaining)
  /\ waiting' = {Len(txs) + 1}
  /\ UNCHANGED <<chain, job, results, phase, runs>>

\* Ends the attempt on item i.  A milestone group ends with its first failure.
Record(i, ok, escrowId) ==
  /\ results' = [results EXCEPT ![i] =
                   [ok |-> ok, skipped |-> FALSE, tried |-> TRUE, escrowId |-> escrowId]]
  /\ phase' = IF job.does = "milestones" /\ ~ok THEN "thrown" ELSE phase
  /\ index' = i /\ waiting' = {}
  /\ UNCHANGED <<netVars, job, runs>>

\* The attempt fails before anything is sent: refused parameters, a failed
\* verification or simulation, a signer that declines.
BatchThrow == Running /\ Remaining # {} /\ Record(Min(Remaining), FALSE, {})

\* Fault: an accepted submission is taken for an executed transaction.
AnsweredOnSubmission(tx) == tx.state # "dropped"
Answered(tx) == tx.state = "executed"
BatchAnswer ==
  \E k \in waiting : Answered(txs[k]) /\ Record(index, TRUE, txs[k].escrowId)

\* The transaction failed, or polling for it timed out or lost the answer.
BatchFail == \E k \in waiting : Record(index, FALSE, {})

\* The loop over the chunks gets past the last item, if it advances at all.
BatchEnd ==
  /\ Running /\ Remaining = {} /\ ResolveChunkSize(job.chunkSize) > 0
  /\ phase' = IF \A i \in DOMAIN results : results[i].ok THEN "returned" ELSE "thrown"
  /\ UNCHANGED <<netVars, job, results, index, waiting, runs>>

\* The caller passes the error's results back; milestones have no such call.
BatchResume ==
  /\ phase = "thrown" /\ job.does # "milestones" /\ runs < MaxRuns
  /\ results' = BatchResults(Len(Items(job)), results)
  /\ phase' = "running" /\ index' = 0 /\ runs' = runs + 1
  /\ UNCHANGED <<netVars, job, waiting>>

-----------------------------------------------------------------------------
(* A milestone group that was returned.  Its tranches are counted from 0.     *)

trancheOf(milestoneIndex) == results[milestoneIndex + 1]

\* releaseMilestone and refundMilestone.
SettleMilestone(kind, milestoneIndex, caller) ==
  /\ job.does = "milestones" /\ phase = "returned"
  /\ milestoneIndex \in 0..Len(results) - 1
  /\ \E id \in trancheOf(milestoneIndex).escrowId :
       Submitted([fn |-> kind, id |-> id, caller |-> caller, source |-> caller,
                  signers |-> {caller}, milestone |-> milestoneIndex])
  /\ UNCHANGED <<chain, batchVars>>

\* One get_escrow per tranche.
getMilestones ==
  [i \in DOMAIN results |->
     CASE getEscrow(The(results[i].escrowId)).status = "Released" -> "released"
       [] getEscrow(The(results[i].escrowId)).status = "Funded" -> "unreleased"
       [] OTHER -> "refunded"]
-----------------------------------------------------------------------------
BatchInit ==
  /\ job = [does |-> "none"] /\ results = <<>> /\ index = 0 /\ waiting = {}
  /\ phase = "idle" /\ runs = 0

BatchNext ==
  \/ \E j \in Jobs : BatchStart(j)
  \/ BatchSend
  \/ BatchThrow
  \/ BatchAnswer
  \/ BatchFail
  \/ BatchEnd
  \/ BatchResume
  \/ \E kind \in {"release", "refund"}, i \in 0..Len(results), caller \in CallerInputs :
       SettleMilestone(kind, i, caller)
  \/ Network /\ UNCHANGED batchVars
=============================================================================
