------------------------- MODULE EscrowFinalityProofs -------------------------
(* What a step may never do to an escrow: settlements are final, a released  *)
(* pool never gives anything back, and a pause lets no new money in.  And    *)
(* what a step must have had to do what it did: who may settle and when,     *)
(* which terms may change, who wins the race of acceptance and abandonment,  *)
(* and when a funding round is decided.  Of what it stores: a quorum can     *)
(* always be found among an escrow's releasers, and its fee be computed.     *)
EXTENDS EscrowProofs

\* All that is stored for escrow id.
Untouched(id) ==
  /\ escrow'[id] = escrow[id] /\ status'[id] = status[id]
  /\ (id \in DOMAIN pooled) = (id \in DOMAIN pooled')
  /\ id \in DOMAIN pooled => pooled'[id] = pooled[id]
  /\ \A a \in Addr : Recorded(id, a)' = Recorded(id, a)

\* A step changes nothing of an escrow that is no longer funded.
LEMMA FinalStep ==
  ASSUME Accounted, Next, NEW x \in Ids, escrow[x].status # "Funded"
  PROVE  Untouched(x)
<1>1. /\ TypeOK /\ PoolExact /\ escrow \in [Ids -> EscrowData] /\ ~Funded(x)
      /\ DOMAIN pooled \subseteq Ids /\ nextId \in Nat /\ Ids = 0..(nextId - 1)
  BY DEF Accounted, TypeOK, Funded, Ids
<1>2. CASE CreateStep
  <2>1. PICK payer \in Addr, reqs \in Seq(Request) :
          reqs # <<>> /\ CreateEscrowInner(payer, reqs)
    BY <1>2 DEF CreateStep
  <2>2. /\ \A id \in Ids : escrow'[id] = escrow[id] /\ status'[id] = status[id]
        /\ pooled' = pooled /\ contribution' = contribution
    BY <1>1, <2>1, CreateEffect
  <2> QED BY <2>2, RecordsKept DEF Untouched
<1>3. CASE \E req \in PoolRequest : CreatePooledEscrow(req)
  <2>1. PICK req \in PoolRequest : CreatePooledEscrow(req)
    BY <1>3
  <2>2. PICK p : pooled' = Put(pooled, nextId, p)
    BY <2>1 DEF CreatePooledEscrow
  <2>3. /\ \A id \in Ids : escrow'[id] = escrow[id] /\ status'[id] = status[id]
        /\ contribution' = contribution
    BY <1>1, <2>1, PoolEffect
  <2>4. x # nextId
    BY <1>1
  <2>5. /\ (x \in DOMAIN pooled) = (x \in DOMAIN pooled')
        /\ x \in DOMAIN pooled => pooled'[x] = pooled[x]
    BY <2>2, <2>4 DEF Put
  <2> QED BY <2>3, <2>5, RecordsKept DEF Untouched
<1>4. CASE \E id \in Ids, a \in Addr, amount \in Int : DepositStep(id, a, amount)
  <2>1. PICK id \in Ids, a \in Addr, amount \in Int : DepositStep(id, a, amount)
    BY <1>4
  <2>2. /\ escrow' = [escrow EXCEPT ![id].amount = @ + amount]
        /\ Funded(id) /\ status' = status /\ pooled' = pooled
    BY <1>1, <2>1, DepositEffect
  <2>3. x # id /\ escrow'[x] = escrow[x]
    BY <1>1, <2>2
  <2>4. \A b \in Addr : Recorded(x, b)' = Recorded(x, b)
    <3>1. CASE Contribute(id, a, amount)
      <4>1. PICK r : contribution' = Put(contribution, <<id, a>>, r)
        BY <3>1 DEF Contribute
      <4> QED BY <2>3, <4>1, OtherRecords
    <3>2. CASE TopUp(id, a, amount)
      BY <3>2, RecordsKept DEF TopUp
    <3> QED BY <2>1, <3>1, <3>2 DEF DepositStep
  <2> QED BY <2>2, <2>3, <2>4 DEF Untouched
<1>5. CASE \E id \in Ids, a \in Addr : ClaimRefund(id, a)
  <2>1. PICK id \in Ids, a \in Addr : ClaimRefund(id, a)
    BY <1>5
  <2>2. /\ escrow' = [escrow EXCEPT ![id].amount = @ - Unclaimed(id, a)]
        /\ contribution' = [contribution EXCEPT ![<<id, a>>].refunded = TRUE]
        /\ <<id, a>> \in DOMAIN contribution
        /\ Funded(id) /\ status' = status /\ pooled' = pooled
    BY <1>1, <2>1, ClaimEffect
  <2>3. x # id /\ escrow'[x] = escrow[x]
    BY <1>1, <2>2
  <2>4. PICK k, r : k = <<id, a>> /\ r = [contribution[k] EXCEPT !.refunded = TRUE]
    OBVIOUS
  <2>5. contribution' = Put(contribution, k, r)
    BY <2>2, <2>4, PutExisting
  <2>6. \A b \in Addr : Recorded(x, b)' = Recorded(x, b)
    BY <2>3, <2>4, <2>5, OtherRecords
  <2> QED BY <2>2, <2>3, <2>6 DEF Untouched
<1>6. CASE \E id \in Ids, a \in Addr, b \in Addr : EditStep(id, a, b)
  <2>1. PICK id \in Ids, a \in Addr, b \in Addr : EditStep(id, a, b)
    BY <1>6
  <2>2. Funded(id) /\ \A y \in Ids \ {id} : escrow'[y] = escrow[y]
    BY <1>1, <2>1 DEF EditStep, Accept, RotateReleaser, TransferPayee
  <2>3. UNCHANGED <<status, pooled, contribution>>
    BY <1>1, <2>1, EditEffect
  <2> QED BY <1>1, <2>2, <2>3, RecordsKept DEF Untouched
<1>7. CASE SettleStep
  <2>1. PICK ids \in SUBSET Ids : \E to \in [ids -> Terminal] :
          Settled(ids, to) /\ \A id \in ids : Funded(id) /\ FullyFunded(id)
    BY <1>1, <1>7, SettleStepEffect
  <2>2. PICK to \in [ids -> Terminal] : Settled(ids, to) /\ \A id \in ids : Funded(id)
    BY <2>1
  <2>3. x \notin ids /\ UNCHANGED <<pooled, contribution>>
    BY <1>1, <2>2 DEF Settled
  <2>4. escrow'[x] = escrow[x] /\ status'[x] = status[x]
    BY <2>2, <2>3 DEF Settled
  <2> QED BY <2>3, <2>4, RecordsKept DEF Untouched
<1>8. CASE UNCHANGED <<escrow, status, pooled, contribution>>
  BY <1>8, RecordsKept DEF Untouched
<1>9. CASE \E caller \in Addr : Pause(caller) \/ Unpause(caller)
  BY <1>8, <1>9 DEF Pause, Unpause, books
<1>10. CASE Environment
  BY <1>1, <1>8, <1>10, EnvironmentEffect
<1> QED
  BY <1>1, <1>2, <1>3, <1>4, <1>5, <1>6, <1>7, <1>9, <1>10, StepKinds DEF DepositStep

\* I3 for any number of escrows, parties and contributors: no sequence of calls
\* changes the records of an escrow that is released, refunded or cancelled.
THEOREM SettlementsAreFinal == Spec => SettledIsFinal
<1>1. ASSUME Accounted, [Next]_vars
      PROVE  [\A id \in DOMAIN escrow :
                escrow[id].status # "Funded" =>
                  /\ escrow'[id] = escrow[id] /\ status'[id] = status[id]
                  /\ \A a \in Addr : Recorded(id, a)' = Recorded(id, a)]_vars
  <2>1. DOMAIN escrow = Ids
    BY <1>1 DEF Accounted, TypeOK
  <2>2. CASE Next
    BY <1>1, <2>1, <2>2, FinalStep DEF Untouched
  <2> QED BY <1>1, <2>2
<1> QED BY <1>1, AccountedAlways, PTL DEF Spec, SettledIsFinal
-----------------------------------------------------------------------------
(* Pools.                                                                    *)

\* What settles a funded escrow in a step that leaves the other records alone.
SettledNow(id) ==
  /\ Funded(id) /\ FullyFunded(id)
  /\ escrow'[id].amount = escrow[id].amount
  /\ UNCHANGED <<pooled, contribution>>

\* An escrow that is settled after a step was settled before it, or is settled
\* by it; a pool then only if it is complete.
LEMMA SettledHow ==
  ASSUME Accounted, Next, NEW x \in Ids', escrow'[x].status # "Funded"
  PROVE  x \in Ids /\ (escrow[x].status # "Funded" \/ SettledNow(x))
<1>1. /\ TypeOK /\ PoolExact /\ escrow \in [Ids -> EscrowData]
      /\ \A id \in Ids : Funded(id) <=> escrow[id].status = "Funded"
      /\ nextId \in Nat /\ Ids = 0..(nextId - 1) /\ Ids' = 0..(nextId' - 1)
  BY DEF Accounted, TypeOK, Funded, Exists, Ids
<1>2. CASE CreateStep
  <2>1. PICK payer \in Addr, reqs \in Seq(Request) :
          reqs # <<>> /\ CreateEscrowInner(payer, reqs)
    BY <1>2 DEF CreateStep
  <2>2. /\ Len(reqs) \in Nat \ {0} /\ nextId' = nextId + Len(reqs)
        /\ \A id \in Ids : escrow'[id] = escrow[id]
        /\ \A id \in nextId..(nextId + Len(reqs) - 1) : escrow'[id].status = "Funded"
    BY <1>1, <2>1, CreateEffect
  <2>3. x \in Ids \/ x \in nextId..(nextId + Len(reqs) - 1)
    BY <1>1, <2>2
  <2> QED BY <2>2, <2>3
<1>3. CASE \E req \in PoolRequest : CreatePooledEscrow(req)
  <2>1. /\ nextId' = nextId + 1 /\ escrow'[nextId].status = "Funded"
        /\ \A id \in Ids : escrow'[id] = escrow[id]
    BY <1>1, <1>3, PoolEffect
  <2>2. x \in Ids \/ x = nextId
    BY <1>1, <2>1
  <2> QED BY <2>1, <2>2
<1>4. CASE \E id \in Ids, a \in Addr, amount \in Int : DepositStep(id, a, amount)
  <2>1. PICK id \in Ids, a \in Addr, amount \in Int : DepositStep(id, a, amount)
    BY <1>4
  <2>2. escrow' = [escrow EXCEPT ![id].amount = @ + amount] /\ nextId' = nextId
    BY <1>1, <2>1, DepositEffect
  <2> QED BY <1>1, <2>2 DEF EscrowData
<1>5. CASE \E id \in Ids, a \in Addr : ClaimRefund(id, a)
  <2>1. PICK id \in Ids, a \in Addr : ClaimRefund(id, a)
    BY <1>5
  <2>2. /\ escrow' = [escrow EXCEPT ![id].amount = @ - contribution[<<id, a>>].amount]
        /\ nextId' = nextId
    BY <2>1 DEF ClaimRefund
  <2> QED BY <1>1, <2>2 DEF EscrowData
<1>6. CASE \E id \in Ids, a \in Addr, b \in Addr : EditStep(id, a, b)
  <2>1. (\A id \in Ids : escrow'[id].status = escrow[id].status) /\ nextId' = nextId
    BY <1>1, <1>6, EditEffect
  <2> QED BY <1>1, <2>1
<1>7. CASE SettleStep
  <2>1. PICK ids \in SUBSET Ids : \E to \in [ids -> Terminal] :
          Settled(ids, to) /\ \A id \in ids : Funded(id) /\ FullyFunded(id)
    BY <1>1, <1>7, SettleStepEffect
  <2>2. PICK to \in [ids -> Terminal] :
          Settled(ids, to) /\ \A id \in ids : Funded(id) /\ FullyFunded(id)
    BY <2>1
  <2>3. /\ \A id \in Ids : escrow'[id] = IF id \in ids THEN [escrow[id] EXCEPT !.status = to[id]]
                                         ELSE escrow[id]
        /\ UNCHANGED <<nextId, pooled, contribution>>
    BY <2>2 DEF Settled
  <2>4. x \in Ids
    BY <1>1, <2>3
  <2>5. CASE x \in ids
    <3>1. escrow'[x].amount = escrow[x].amount
      <4>1. escrow[x] \in EscrowData /\ escrow'[x] = [escrow[x] EXCEPT !.status = to[x]]
        BY <1>1, <2>3, <2>4, <2>5
      <4> QED BY <4>1 DEF EscrowData
    <3> QED BY <2>2, <2>3, <2>4, <2>5, <3>1 DEF SettledNow
  <2> QED BY <2>3, <2>4, <2>5
<1>8. CASE UNCHANGED <<nextId, escrow>>
  BY <1>1, <1>8
<1>9. CASE \E caller \in Addr : Pause(caller) \/ Unpause(caller)
  BY <1>8, <1>9 DEF Pause, Unpause, books
<1>10. CASE Environment
  BY <1>1, <1>8, <1>10, EnvironmentEffect
<1> QED
  BY <1>1, <1>2, <1>3, <1>4, <1>5, <1>6, <1>7, <1>9, <1>10, StepKinds DEF DepositStep

\* The total that a pool's contributors can claim depends on its records only.
LEMMA UnclaimedKept ==
  ASSUME NEW id, \A a \in Addr : Recorded(id, a)' = Recorded(id, a)
  PROVE  Total([a \in Addr |-> Unclaimed(id, a)])' = Total([a \in Addr |-> Unclaimed(id, a)])
<1>1. [a \in Addr |-> Unclaimed(id, a)]' = [a \in Addr |-> Unclaimed(id, a)]
  BY DEF Unclaimed
<1> QED BY <1>1 DEF Total, Coins

\* A step releases a pool only when it holds its target, unclaimed, and it
\* stays so.
LEMMA ReleaseStep ==
  ASSUME Accounted, NoReleaseAfterClaim, Next
  PROVE  NoReleaseAfterClaim'
<1>1. SUFFICES ASSUME NEW x \in DOMAIN pooled', escrow'[x].status = "Released"
               PROVE  /\ escrow'[x].amount = pooled'[x].funding_target
                      /\ Total([a \in Addr |-> Unclaimed(x, a)])' = pooled'[x].funding_target
  BY DEF NoReleaseAfterClaim
<1>2. x \in Ids'
  BY TypeStep DEF TypeOK
<1>3. x \in Ids /\ (escrow[x].status # "Funded" \/ SettledNow(x))
  BY <1>1, <1>2, SettledHow
<1>4. CASE escrow[x].status # "Funded"
  <2>1. Untouched(x)
    BY <1>3, <1>4, FinalStep
  <2>2. /\ x \in DOMAIN pooled /\ pooled'[x] = pooled[x] /\ escrow'[x] = escrow[x]
        /\ \A a \in Addr : Recorded(x, a)' = Recorded(x, a)
    BY <1>1, <2>1 DEF Untouched
  <2>3. Total([a \in Addr |-> Unclaimed(x, a)])' = Total([a \in Addr |-> Unclaimed(x, a)])
    BY <2>2, UnclaimedKept
  <2>4. /\ escrow[x].amount = pooled[x].funding_target
        /\ Total([a \in Addr |-> Unclaimed(x, a)]) = pooled[x].funding_target
    BY <1>1, <2>2 DEF NoReleaseAfterClaim
  <2> QED BY <2>2, <2>3, <2>4
<1>5. CASE SettledNow(x)
  <2>1. /\ x \in DOMAIN pooled /\ Funded(x) /\ pooled' = pooled
        /\ escrow'[x].amount = escrow[x].amount
        /\ escrow[x].amount = pooled[x].funding_target
    BY <1>1, <1>5 DEF SettledNow, FullyFunded, IsPooled
  <2>2. Total([a \in Addr |-> Unclaimed(x, a)])' = Total([a \in Addr |-> Unclaimed(x, a)])
    BY <1>5, RecordsKept, UnclaimedKept DEF SettledNow
  <2>3. escrow[x].amount = Total([a \in Addr |-> Unclaimed(x, a)])
    BY <2>1 DEF Accounted, PoolExact
  <2> QED BY <2>1, <2>2, <2>3
<1> QED BY <1>3, <1>4, <1>5

\* I3 for any number of pools and contributors: a pool is released only whole,
\* and whoever has taken a contribution back is not part of a released pool.
THEOREM ReleasedPoolsAreWhole == Spec => []NoReleaseAfterClaim
<1>1. Init => NoReleaseAfterClaim
  BY DEF Init, NoReleaseAfterClaim
<1>2. NoReleaseAfterClaim /\ Accounted /\ [Next]_vars => NoReleaseAfterClaim'
  <2>1. ASSUME NoReleaseAfterClaim, UNCHANGED vars PROVE NoReleaseAfterClaim'
    <3>1. UNCHANGED <<escrow, pooled, contribution>>
      BY <2>1 DEF vars, books
    <3> QED BY <2>1, <3>1 DEF NoReleaseAfterClaim, Unclaimed, Recorded
  <2> QED BY <2>1, ReleaseStep
<1> QED BY <1>1, <1>2, AccountedAlways, PTL DEF Spec
-----------------------------------------------------------------------------
(* The pause.                                                                *)

\* No step raises a debt or hands out an id while the contract is paused.
LEMMA PausedStep ==
  ASSUME Accounted, Next, paused
  PROVE  nextId' = nextId /\ \A t \in Tokens : liability'[t] <= liability[t]
<1>1. TypeOK /\ PoolExact /\ \A t \in Tokens : liability[t] \in Nat
  BY LimitsAssumption DEF Accounted, TypeOK, Amount
<1>2. ~CreateStep /\ ~(\E req \in PoolRequest : CreatePooledEscrow(req))
  BY DEF CreateStep, CreateEscrowInner, CreatePooledEscrow, DepositsOpen
<1>3. ~(\E id \in Ids, a \in Addr, amount \in Int : DepositStep(id, a, amount))
  BY DEF DepositStep, Contribute, TopUp, DepositsOpen
<1>4. CASE \E id \in Ids, a \in Addr : ClaimRefund(id, a)
  <2>1. PICK id \in Ids, a \in Addr : ClaimRefund(id, a)
    BY <1>4
  <2>2. /\ \A t \in Tokens :
             /\ liability'[t] = liability[t] - Just(escrow[id].token, Unclaimed(id, a))[t]
             /\ balance'[t][Contract] =
                  balance[t][Contract] - Just(escrow[id].token, Unclaimed(id, a))[t]
        /\ UNCHANGED nextId
    BY <1>1, <2>1, ClaimEffect
  <2>3. \A t \in Tokens : Just(escrow[id].token, Unclaimed(id, a))[t] \in Nat
    BY <1>1, RecordedType DEF Just
  <2> QED BY <1>1, <2>2, <2>3
<1>5. CASE SettleStep
  <2>1. PICK ids \in SUBSET Ids : \E to \in [ids -> Terminal] : Settled(ids, to)
    BY <1>1, <1>5, SettleStepEffect
  <2>2. PICK to \in [ids -> Terminal] : Settled(ids, to)
    BY <2>1
  <2>3. nextId' = nextId /\ \A t \in Tokens : liability'[t] = liability[t] - Due(to, t)
    BY <2>2 DEF Settled
  <2>4. \A t \in Tokens : Due(to, t) \in Nat
    BY <1>1, DueType
  <2> QED BY <1>1, <2>3, <2>4
<1>6. CASE UNCHANGED <<nextId, liability>>
  BY <1>1, <1>6
<1>7. CASE \E id \in Ids, a \in Addr, b \in Addr : EditStep(id, a, b)
  BY <1>1, <1>6, <1>7, EditEffect
<1>8. CASE \E caller \in Addr : Pause(caller) \/ Unpause(caller)
  BY <1>6, <1>8 DEF Pause, Unpause, books
<1>9. CASE Environment
  BY <1>1, <1>6, <1>9, EnvironmentEffect
<1> QED BY <1>1, <1>2, <1>3, <1>4, <1>5, <1>7, <1>8, <1>9, StepKinds DEF DepositStep

\* I8 for every deposit path at once: while paused, no entry point of the
\* contract makes it owe more or hands out an escrow id.
THEOREM PauseHoldsDeposits == Spec => PauseStopsDeposits
<1>1. ASSUME Accounted, [Next]_vars
      PROVE  [paused => /\ nextId' = nextId
                        /\ \A t \in Tokens : liability'[t] <= liability[t]]_vars
  BY <1>1, PausedStep
<1> QED BY <1>1, AccountedAlways, PTL DEF Spec, PauseStopsDeposits
-----------------------------------------------------------------------------
(* Who settles.                                                              *)

\* A single caller who is a releaser is a quorum of one.
LEMMA OneIsQuorum ==
  ASSUME NEW id, NEW a \in Addr, RequireAuth(<<a>>), CheckSingleCaller(escrow[id], a)
  PROVE  Quorum(id)
<1>1. auth' = {a} /\ Contains(escrow[id].releasers, a) /\ escrow[id].threshold = 1
  BY AuthOne DEF CheckSingleCaller
<1>2. {b \in auth' : Contains(escrow[id].releasers, b)} = {a}
  BY <1>1
<1>3. Cardinality({a}) = 1
  BY FS_Singleton
<1> QED BY <1>1, <1>2, <1>3 DEF Quorum

\* Distinct approvers who are all releasers, threshold of them, are a quorum.
LEMMA ApproversAreQuorum ==
  ASSUME NEW id, escrow[id].threshold \in Nat, NEW approvers \in Seq(Addr),
         CheckApprovals(escrow[id], approvers)
  PROVE  Quorum(id)
<1> DEFINE n == Len(approvers)
           signers == {approvers[i] : i \in 1..n}
<1>1. n \in Nat /\ DOMAIN approvers = 1..n /\ approvers \in [1..n -> Addr]
  BY LenProperties
<1>2. /\ escrow[id].threshold <= n /\ auth' = signers
      /\ \A i \in 1..n : Contains(escrow[id].releasers, approvers[i])
      /\ \A i, j \in 1..n : approvers[i] = approvers[j] => i = j
  BY <1>1 DEF CheckApprovals, RequireAuth
<1>3. {a \in auth' : Contains(escrow[id].releasers, a)} = signers
  BY <1>2
<1>4. approvers \in Bijection(1..n, signers)
  <2>1. approvers \in [1..n -> signers]
    BY <1>1
  <2> QED BY <1>2, <2>1 DEF Bijection, Injection, IsInjective, Surjection
<1>5. IsFiniteSet(1..n) /\ Cardinality(1..n) = n
  <2> HIDE DEF n
  <2>1. 1 \in Int /\ n \in Int
    BY <1>1
  <2>2. /\ IsFiniteSet(1..n)
        /\ Cardinality(1..n) = IF 1 > n THEN 0 ELSE n - 1 + 1
    BY <2>1, FS_Interval
  <2> QED BY <1>1, <2>2
<1>6. Cardinality(signers) = n
  <2> HIDE DEF n, signers
  <2>1. Cardinality(signers) = Cardinality(1..n)
    <3>1. ExistsBijection(1..n, signers)
      BY <1>4 DEF ExistsBijection
    <3> QED BY <1>5, <3>1, FS_Bijection
  <2> QED BY <1>5, <2>1
<1> QED BY <1>1, <1>2, <1>3, <1>6 DEF Quorum

\* What a step that settles escrow id as to must have been given.
Entitled(id, to) ==
  /\ Ripe(id, to)
  /\ CASE to = "Released" -> Quorum(id) /\ ReleaseGates(escrow[id])
       [] to = "Refunded" ->
            Quorum(id) \/ escrow[id].payee \in auth' \/ TimeoutPassed(escrow[id])
       [] OTHER -> /\ escrow[id].payer \in auth'
                   /\ escrow[id].requires_acceptance /\ escrow[id].accepted_at = {}

\* Some escrows are settled, each by who may, and nothing else changes.
EntitledStep ==
  \E ids \in SUBSET Ids : \E to \in [ids -> Terminal] :
    Settled(ids, to) /\ \A id \in ids : Entitled(id, to[id])

\* A settlement of one escrow is an entitled one if its conditions hold.
LEMMA SettleOneEntitled ==
  ASSUME TypeOK, NEW id \in Ids, NEW to \in Terminal, SettleOne(id, to),
         to = "Released" /\ ReleaseGates(escrow[id]) => Entitled(id, to),
         to # "Released" => Entitled(id, to)
  PROVE  EntitledStep
<1> DEFINE tos == [x \in {id} |-> to]
           ats == [x \in {id} |-> 1]
<1>1. {id} \in SUBSET Ids /\ tos \in [{id} -> Terminal] /\ tos \in [{id} -> EscrowStatus]
  BY DEF Terminal
<1>2. Settle(tos, ats) /\ tos[id] = to /\ DOMAIN tos = {id}
  BY DEF SettleOne
<1> HIDE DEF tos, ats
<1>3. Settled({id}, tos)
  BY <1>1, <1>2, SettleEffect
<1>4. to = "Released" => ReleaseGates(escrow[id])
  BY <1>2 DEF Settle
<1>5. \A x \in {id} : Entitled(x, tos[x])
  BY <1>2, <1>4
<1> QED BY <1>1, <1>3, <1>5 DEF EntitledStep

\* Every call that settles one escrow is entitled to.
LEMMA SettleCallEntitled ==
  ASSUME TypeOK, NEW id \in Ids, SettlingCall(id)
  PROVE  EntitledStep
<1>0. escrow[id].threshold \in Nat
  BY LimitsAssumption DEF TypeOK, EscrowData
<1>1. ASSUME NEW a \in Addr, Release(id, a)
      PROVE  EntitledStep
  <2>1. /\ RequireAuth(<<a>>) /\ CheckSingleCaller(escrow[id], a)
        /\ Funded(id) /\ FullyFunded(id) /\ SettleOne(id, "Released")
    BY <1>1 DEF Release, ReleaseChecks
  <2>2. Quorum(id)
    BY <2>1, OneIsQuorum
  <2> QED BY <2>1, <2>2, SettleOneEntitled DEF Entitled, Ripe, Terminal, EscrowStatus
<1>2. ASSUME NEW a \in Addr, Refund(id, a)
      PROVE  EntitledStep
  <2>1. /\ RequireAuth(<<a>>) /\ Funded(id) /\ ~IsPooled(id) /\ SettleOne(id, "Refunded")
        /\ \/ a = escrow[id].payee
           \/ TimeoutPassed(escrow[id])
           \/ CheckSingleCaller(escrow[id], a)
    BY <1>2 DEF Refund, RefundChecks
  <2>2. Quorum(id) \/ escrow[id].payee \in auth' \/ TimeoutPassed(escrow[id])
    BY <2>1, OneIsQuorum, AuthOne
  <2>3. Entitled(id, "Refunded")
    BY <2>1, <2>2 DEF Entitled, Ripe, FullyFunded
  <2> QED BY <2>1, <2>3, SettleOneEntitled DEF Terminal, EscrowStatus
<1>3. ASSUME NEW a \in Addr, Cancel(id, a)
      PROVE  EntitledStep
  <2>1. /\ RequireAuth(<<a>>) /\ Funded(id) /\ ~IsPooled(id) /\ SettleOne(id, "Cancelled")
        /\ a = escrow[id].payer
        /\ escrow[id].requires_acceptance /\ escrow[id].accepted_at = {}
    BY <1>3 DEF Cancel
  <2>2. escrow[id].payer \in auth'
    BY <2>1, AuthOne
  <2>3. Entitled(id, "Cancelled")
    BY <2>1, <2>2 DEF Entitled, Ripe, FullyFunded
  <2> QED BY <2>1, <2>3, SettleOneEntitled DEF Terminal, EscrowStatus
<1>4. ASSUME NEW approvers \in Seq(Addr), ReleaseWithApprovals(id, approvers)
      PROVE  EntitledStep
  <2>1. /\ CheckApprovals(escrow[id], approvers) /\ SettleOne(id, "Released")
        /\ Funded(id) /\ FullyFunded(id)
    BY <1>4 DEF ReleaseWithApprovals
  <2>2. Quorum(id)
    BY <1>0, <2>1, ApproversAreQuorum
  <2> QED BY <2>1, <2>2, SettleOneEntitled DEF Entitled, Ripe, Terminal, EscrowStatus
<1>5. ASSUME NEW approvers \in Seq(Addr), RefundWithApprovals(id, approvers)
      PROVE  EntitledStep
  <2>1. /\ CheckApprovals(escrow[id], approvers) /\ SettleOne(id, "Refunded")
        /\ Funded(id) /\ ~IsPooled(id)
    BY <1>5 DEF RefundWithApprovals
  <2>2. Quorum(id)
    BY <1>0, <2>1, ApproversAreQuorum
  <2>3. Entitled(id, "Refunded")
    BY <2>1, <2>2 DEF Entitled, Ripe, FullyFunded
  <2> QED BY <2>1, <2>3, SettleOneEntitled DEF Terminal, EscrowStatus
<1> QED BY <1>1, <1>2, <1>3, <1>4, <1>5 DEF SettlingCall

\* So is a batch of settlements: each escrow by the operation that settles it.
LEMMA SettleManyEntitled ==
  ASSUME TypeOK, NEW caller \in Addr, NEW ops \in Lists(Operations), SettleMany(caller, ops)
  PROVE  EntitledStep
<1> DEFINE passing(id) == {i \in DOMAIN ops : ops[i][1] = id /\ OperationChecks(ops[i], caller)}
           settled == {id \in DOMAIN escrow : passing(id) # {}}
           first == [id \in settled |-> Min(passing(id))]
           to == [id \in settled |-> ops[first[id]][2]]
<1>1. RequireAuth(<<caller>>) /\ Settle(to, first)
  BY DEF SettleMany
<1>2. settled \in SUBSET Ids /\ DOMAIN to = settled
  BY DEF TypeOK
<1>3. DOMAIN ops \in SUBSET Nat /\ \A i \in DOMAIN ops : ops[i] \in Operations
  <2>1. ops \in Seq(Operations)
    BY ListsOf
  <2> QED BY <2>1, LenProperties
<1>4. \A id \in settled : first[id] \in passing(id)
  <2> SUFFICES ASSUME NEW id \in settled PROVE first[id] \in passing(id)
    OBVIOUS
  <2>1. passing(id) # {} /\ passing(id) \in SUBSET Nat
    BY <1>3
  <2> HIDE DEF passing
  <2> QED BY <2>1, MinMember
<1>5. ASSUME NEW id \in settled
      PROVE  to[id] \in Terminal /\ Entitled(id, to[id])
  <2>1. PICK i \in DOMAIN ops : i = first[id] /\ ops[i][1] = id /\ OperationChecks(ops[i], caller)
    BY <1>4
  <2>2. to[id] = ops[i][2] /\ ops[i][2] \in {"Released", "Refunded"}
    BY <1>3, <2>1 DEF Operations
  <2>3. CASE ops[i][2] = "Released"
    <3>1. ReleaseChecks(id, caller) /\ ReleaseGates(escrow[id])
      BY <2>1, <2>3 DEF OperationChecks
    <3>2. Quorum(id)
      BY <1>1, <3>1, OneIsQuorum DEF ReleaseChecks
    <3>3. Entitled(id, "Released")
      BY <3>1, <3>2 DEF ReleaseChecks, Entitled, Ripe
    <3> QED BY <2>2, <2>3, <3>3 DEF Terminal, EscrowStatus
  <2>4. CASE ops[i][2] = "Refunded"
    <3>1. RefundChecks(id, caller)
      BY <2>1, <2>4 DEF OperationChecks
    <3>2. Quorum(id) \/ TimeoutPassed(escrow[id])
      BY <1>1, <3>1, OneIsQuorum DEF RefundChecks
    <3>3. Entitled(id, "Refunded")
      BY <3>1, <3>2 DEF RefundChecks, Entitled, Ripe, FullyFunded
    <3> QED BY <2>2, <2>4, <3>3 DEF Terminal, EscrowStatus
  <2> QED BY <2>2, <2>3, <2>4
<1> HIDE DEF settled, first, to
<1>6. to \in [settled -> Terminal] /\ to \in [settled -> EscrowStatus]
  <2>1. \A id \in settled : to[id] \in Terminal
    BY <1>5
  <2>2. to = [id \in settled |-> to[id]]
    BY DEF to
  <2> QED BY <2>1, <2>2 DEF Terminal
<1>7. Settled(settled, to)
  BY <1>1, <1>2, <1>6, SettleEffect
<1> QED BY <1>2, <1>5, <1>6, <1>7 DEF EntitledStep

\* Whatever step settles an escrow was entitled to, and changes only its status.
LEMMA SettlingStep ==
  ASSUME Accounted, Next, NEW x \in Ids, Funded(x), escrow'[x].status # "Funded"
  PROVE  /\ Entitled(x, escrow'[x].status) /\ escrow'[x].status \in Terminal
         /\ escrow'[x] = [escrow[x] EXCEPT !.status = escrow'[x].status]
         /\ now' = now
<1>1. /\ TypeOK /\ PoolExact /\ escrow \in [Ids -> EscrowData]
      /\ escrow[x].status = "Funded"
      /\ nextId \in Nat /\ Ids = 0..(nextId - 1)
  BY DEF Accounted, TypeOK, Funded, Exists, Ids
<1>2. ~CreateStep
  <2>1. SUFFICES ASSUME CreateStep PROVE FALSE
    OBVIOUS
  <2>2. PICK payer \in Addr, reqs \in Seq(Request) :
          reqs # <<>> /\ CreateEscrowInner(payer, reqs)
    BY <2>1 DEF CreateStep
  <2> QED BY <1>1, <2>2, CreateEffect
<1>3. ~(\E req \in PoolRequest : CreatePooledEscrow(req))
  BY <1>1, PoolEffect
<1>4. ~(\E id \in Ids, a \in Addr, amount \in Int : DepositStep(id, a, amount))
  <2>1. SUFFICES ASSUME NEW id \in Ids, NEW a \in Addr, NEW amount \in Int,
                        DepositStep(id, a, amount)
                 PROVE  FALSE
    OBVIOUS
  <2>2. escrow' = [escrow EXCEPT ![id].amount = @ + amount]
    BY <1>1, <2>1, DepositEffect
  <2> QED BY <1>1, <2>2 DEF EscrowData
<1>5. ~(\E id \in Ids, a \in Addr : ClaimRefund(id, a))
  <2>1. SUFFICES ASSUME NEW id \in Ids, NEW a \in Addr, ClaimRefund(id, a) PROVE FALSE
    OBVIOUS
  <2>2. escrow' = [escrow EXCEPT ![id].amount = @ - contribution[<<id, a>>].amount]
    BY <2>1 DEF ClaimRefund
  <2> QED BY <1>1, <2>2 DEF EscrowData
<1>6. ~(\E id \in Ids, a \in Addr, b \in Addr : EditStep(id, a, b))
  BY <1>1, EditEffect
<1>7. ~(\E caller \in Addr : Pause(caller) \/ Unpause(caller)) /\ ~Environment
  BY <1>1, EnvironmentEffect DEF Pause, Unpause, books
<1>8. EntitledStep
  BY <1>1, <1>2, <1>3, <1>4, <1>5, <1>6, <1>7, StepCalls, SettleCallEntitled,
     SettleManyEntitled DEF DepositStep
<1>9. PICK ids \in SUBSET Ids : \E to \in [ids -> Terminal] :
        Settled(ids, to) /\ \A id \in ids : Entitled(id, to[id])
  BY <1>8 DEF EntitledStep
<1>10. PICK to \in [ids -> Terminal] : Settled(ids, to) /\ \A id \in ids : Entitled(id, to[id])
  BY <1>9
<1>11. x \in ids /\ escrow'[x] = [escrow[x] EXCEPT !.status = to[x]] /\ now' = now
  BY <1>1, <1>10 DEF Settled
<1>12. escrow'[x].status = to[x]
  BY <1>1, <1>11 DEF EscrowData
<1> QED BY <1>10, <1>11, <1>12

\* I2 for any releaser set, list of approvers or batch: whatever settles an
\* escrow was signed by those the contract asks, after the times it waits for.
THEOREM SettlementsAreAuthorised == Spec => SettlementAuthorised
<1>1. ASSUME Accounted, Next, NEW id \in DOMAIN escrow, Settling(id)
      PROVE  CASE escrow'[id].status = "Released" ->
                    /\ Quorum(id)
                    /\ \A release_time \in escrow[id].release_not_before : now >= release_time
               [] escrow'[id].status = "Refunded" ->
                    /\ ~IsPooled(id)
                    /\ Quorum(id) \/ escrow[id].payee \in auth' \/ TimeoutPassed(escrow[id])
               [] OTHER -> ~IsPooled(id) /\ escrow[id].payer \in auth'
  <2>1. id \in Ids
    BY <1>1 DEF Accounted, TypeOK
  <2>2. Entitled(id, escrow'[id].status)
    BY <1>1, <2>1, SettlingStep DEF Settling
  <2> QED BY <2>2 DEF Entitled, Ripe, ReleaseGates
<1>2. ASSUME Accounted, [Next]_vars
      PROVE  [\A id \in DOMAIN escrow :
                Settling(id) =>
                  CASE escrow'[id].status = "Released" ->
                         /\ Quorum(id)
                         /\ \A release_time \in escrow[id].release_not_before :
                              now >= release_time
                    [] escrow'[id].status = "Refunded" ->
                         /\ ~IsPooled(id)
                         /\ Quorum(id) \/ escrow[id].payee \in auth'
                              \/ TimeoutPassed(escrow[id])
                    [] OTHER -> ~IsPooled(id) /\ escrow[id].payer \in auth']_vars
  BY <1>1, <1>2
<1> QED BY <1>2, AccountedAlways, PTL DEF Spec, SettlementAuthorised
-----------------------------------------------------------------------------
(* Terms.                                                                    *)

\* What one step may do to the terms of an escrow that is there.
TermsKeptFor(id) ==
  LET old == escrow[id] new == escrow'[id] IN
  /\ id \in DOMAIN escrow' /\ Fixed(new) = Fixed(old)
  /\ new.payee # old.payee => auth' = {old.payee}
  /\ new.releasers # old.releasers =>
       old.threshold = 1 /\ auth' = {old.payer, old.releasers[1]}
  /\ new.accepted_at # old.accepted_at =>
       old.accepted_at = {} /\ new.accepted_at = {now} /\ auth' = {old.payee}
  /\ ~IsPooled(id) => new.amount >= old.amount
  /\ ~IsPooled(id) /\ new.amount > old.amount => auth' = {old.payer}

\* An escrow holds a natural amount.
LEMMA AmountType ==
  ASSUME TypeOK, NEW x \in Ids
  PROVE  escrow[x].amount \in Nat
<1>1. escrow[x] \in EscrowData
  BY DEF TypeOK
<1> QED BY <1>1, LimitsAssumption DEF EscrowData, Amount

\* A record that is not written keeps its terms.
LEMMA SameRecord ==
  ASSUME TypeOK, NEW x \in Ids, x \in DOMAIN escrow', escrow'[x] = escrow[x]
  PROVE  TermsKeptFor(x)
<1>1. escrow[x].amount \in Nat
  BY AmountType
<1> QED BY <1>1 DEF TermsKeptFor

\* A step that writes only the amount of an escrow, a pool or more of its payer.
LEMMA AmountRecord ==
  ASSUME TypeOK, NEW id \in Ids, NEW amount \in Int,
         escrow' = [escrow EXCEPT ![id].amount = amount],
         IsPooled(id) \/ (amount >= escrow[id].amount /\ auth' = {escrow[id].payer}),
         NEW x \in Ids
  PROVE  TermsKeptFor(x)
<1>1. /\ escrow \in [Ids -> EscrowData] /\ escrow[id] \in EscrowData
      /\ DOMAIN escrow' = Ids
  BY DEF TypeOK
<1>2. CASE x # id
  BY <1>1, <1>2, SameRecord
<1>3. CASE x = id
  <2>1. escrow'[x] = [escrow[x] EXCEPT !.amount = amount]
    BY <1>1, <1>3
  <2>2. escrow'[x].amount = amount /\ Fixed(escrow'[x]) = Fixed(escrow[x])
        /\ escrow'[x].payee = escrow[x].payee /\ escrow'[x].releasers = escrow[x].releasers
        /\ escrow'[x].accepted_at = escrow[x].accepted_at
    BY <1>1, <1>3, <2>1 DEF EscrowData, Fixed
  <2> QED BY <1>1, <1>3, <2>2 DEF TermsKeptFor
<1> QED BY <1>2, <1>3

\* A change of a term is agreed to by whom it takes.
LEMMA EditKeeps ==
  ASSUME TypeOK, NEW id \in Ids, NEW a \in Addr, NEW b \in Addr, EditStep(id, a, b),
         NEW x \in Ids
  PROVE  TermsKeptFor(x)
<1>1. /\ escrow \in [Ids -> EscrowData] /\ escrow[id] \in EscrowData
      /\ escrow[id].amount \in Nat
  <2>1. escrow \in [Ids -> EscrowData] /\ escrow[id] \in EscrowData
    BY DEF TypeOK
  <2> QED BY <2>1, AmountType
<1>2. /\ DOMAIN escrow' = Ids
      /\ \A y \in Ids \ {id} : escrow'[y] = escrow[y]
  BY <1>1 DEF EditStep, Accept, RotateReleaser, TransferPayee
<1>3. CASE x # id
  BY <1>2, <1>3, SameRecord
<1>4. CASE x = id /\ Accept(id, a)
  <2>1. /\ escrow'[id] = [escrow[id] EXCEPT !.accepted_at = {now}]
        /\ RequireAuth(<<a>>) /\ a = escrow[id].payee /\ escrow[id].accepted_at = {}
    BY <1>1, <1>4 DEF Accept
  <2>2. auth' = {escrow[id].payee}
    BY <2>1, AuthOne
  <2> QED BY <1>1, <1>2, <1>4, <2>1, <2>2 DEF TermsKeptFor, Fixed, EscrowData
<1>5. CASE x = id /\ RotateReleaser(id, a, b)
  <2>1. /\ escrow'[id] = [escrow[id] EXCEPT !.releasers = <<b>>]
        /\ RequireAuth(<<a, escrow[id].payer>>)
        /\ a = escrow[id].releasers[1] /\ escrow[id].threshold = 1
    BY <1>1, <1>5 DEF RotateReleaser
  <2>2. auth' = {escrow[id].payer, escrow[id].releasers[1]}
    <3>1. DOMAIN <<a, escrow[id].payer>> = {1, 2}
      OBVIOUS
    <3>2. auth' = {<<a, escrow[id].payer>>[i] : i \in {1, 2}}
      BY <2>1, <3>1 DEF RequireAuth
    <3>3. <<a, escrow[id].payer>>[1] = a /\ <<a, escrow[id].payer>>[2] = escrow[id].payer
      OBVIOUS
    <3> QED BY <2>1, <3>2, <3>3
  <2> QED BY <1>1, <1>2, <1>5, <2>1, <2>2 DEF TermsKeptFor, Fixed, EscrowData
<1>6. CASE x = id /\ TransferPayee(id, a, b)
  <2>1. /\ escrow'[id] = [escrow[id] EXCEPT !.payee = b]
        /\ RequireAuth(<<a>>) /\ a = escrow[id].payee
    BY <1>1, <1>6 DEF TransferPayee
  <2>2. auth' = {escrow[id].payee}
    BY <2>1, AuthOne
  <2> QED BY <1>1, <1>2, <1>6, <2>1, <2>2 DEF TermsKeptFor, Fixed, EscrowData
<1> QED BY <1>3, <1>4, <1>5, <1>6 DEF EditStep

\* No step changes a term without those who may change it.
LEMMA TermsStep ==
  ASSUME Accounted, Next, NEW x \in Ids
  PROVE  TermsKeptFor(x)
<1>1. /\ TypeOK /\ PoolExact /\ escrow \in [Ids -> EscrowData]
      /\ \A id \in Ids : escrow[id].amount \in Nat
      /\ nextId \in Nat /\ Ids = 0..(nextId - 1)
  BY AmountType DEF Accounted, TypeOK, Ids
<1>2. CASE CreateStep
  <2>1. PICK payer \in Addr, reqs \in Seq(Request) :
          reqs # <<>> /\ CreateEscrowInner(payer, reqs)
    BY <1>2 DEF CreateStep
  <2>2. /\ Len(reqs) \in Nat \ {0} /\ escrow' \in [0..(nextId + Len(reqs) - 1) -> EscrowData]
        /\ escrow'[x] = escrow[x]
    BY <1>1, <2>1, CreateEffect
  <2>3. x \in DOMAIN escrow'
    BY <1>1, <2>2
  <2> QED BY <1>1, <2>2, <2>3, SameRecord
<1>3. CASE \E req \in PoolRequest : CreatePooledEscrow(req)
  <2>1. escrow' \in [0..nextId -> EscrowData] /\ escrow'[x] = escrow[x]
    BY <1>1, <1>3, PoolEffect
  <2> QED BY <1>1, <2>1, SameRecord
<1>4. CASE \E id \in Ids, a \in Addr, amount \in Int : DepositStep(id, a, amount)
  <2>1. PICK id \in Ids, a \in Addr, amount \in Int : DepositStep(id, a, amount)
    BY <1>4
  <2>2. escrow' = [escrow EXCEPT ![id].amount = escrow[id].amount + amount]
        /\ amount \in Nat
    BY <1>1, <2>1, DepositEffect
  <2>3. IsPooled(id) \/ auth' = {escrow[id].payer}
    <3>1. CASE Contribute(id, a, amount)
      BY <3>1 DEF Contribute
    <3>2. CASE TopUp(id, a, amount)
      BY <3>2, AuthOne DEF TopUp
    <3> QED BY <2>1, <3>1, <3>2 DEF DepositStep
  <2>4. escrow[id].amount + amount \in Int /\ escrow[id].amount + amount >= escrow[id].amount
    BY <1>1, <2>2
  <2> QED BY <1>1, <2>2, <2>3, <2>4, AmountRecord
<1>5. CASE \E id \in Ids, a \in Addr : ClaimRefund(id, a)
  <2>1. PICK id \in Ids, a \in Addr : ClaimRefund(id, a)
    BY <1>5
  <2>2. PICK k : k = Unclaimed(id, a) /\ k \in Nat
    BY <1>1, RecordedType
  <2>3. escrow' = [escrow EXCEPT ![id].amount = escrow[id].amount - k] /\ IsPooled(id)
    <3>1. /\ escrow' = [escrow EXCEPT ![id].amount = @ - Unclaimed(id, a)]
          /\ id \in DOMAIN pooled
      BY <1>1, <2>1, ClaimEffect
    <3> QED BY <2>2, <3>1 DEF IsPooled
  <2>4. escrow[id].amount - k \in Int
    BY <1>1, <2>2
  <2> QED BY <1>1, <2>3, <2>4, AmountRecord
<1>6. CASE \E id \in Ids, a \in Addr, b \in Addr : EditStep(id, a, b)
  BY <1>1, <1>6, EditKeeps
<1>7. CASE SettleStep
  <2>1. PICK ids \in SUBSET Ids : \E to \in [ids -> Terminal] : Settled(ids, to)
    BY <1>1, <1>7, SettleStepEffect
  <2>2. PICK to \in [ids -> Terminal] : Settled(ids, to)
    BY <2>1
  <2>3. x \in DOMAIN escrow' /\ escrow'[x] = IF x \in ids THEN [escrow[x] EXCEPT !.status = to[x]]
                                            ELSE escrow[x]
    BY <2>2 DEF Settled
  <2>4. escrow[x] \in EscrowData
    BY <1>1
  <2>5. CASE x \in ids
    BY <1>1, <2>3, <2>4, <2>5 DEF TermsKeptFor, Fixed, EscrowData
  <2> QED BY <1>1, <2>3, <2>5, SameRecord
<1>8. CASE UNCHANGED escrow
  BY <1>1, <1>8, SameRecord
<1>9. CASE \E caller \in Addr : Pause(caller) \/ Unpause(caller)
  BY <1>8, <1>9 DEF Pause, Unpause, books
<1>10. CASE Environment
  BY <1>1, <1>8, <1>10, EnvironmentEffect
<1> QED
  BY <1>1, <1>2, <1>3, <1>4, <1>5, <1>6, <1>7, <1>9, <1>10, StepKinds DEF DepositStep

\* I6 and the amendments, for any number of escrows and parties: the terms stay
\* as signed except where those they bind sign the change.
THEOREM TermsAreKept == Spec => TermsKept
<1>1. ASSUME Accounted, [Next]_vars
      PROVE  [\A id \in DOMAIN escrow :
                LET old == escrow[id] new == escrow'[id] IN
                /\ id \in DOMAIN escrow' /\ Fixed(new) = Fixed(old)
                /\ new.payee # old.payee => auth' = {old.payee}
                /\ new.releasers # old.releasers =>
                     old.threshold = 1 /\ auth' = {old.payer, old.releasers[1]}
                /\ new.accepted_at # old.accepted_at =>
                     old.accepted_at = {} /\ auth' = {old.payee}
                /\ ~IsPooled(id) => new.amount >= old.amount
                /\ ~IsPooled(id) /\ new.amount > old.amount => auth' = {old.payer}]_vars
  <2>1. DOMAIN escrow = Ids
    BY <1>1 DEF Accounted, TypeOK
  <2>2. CASE Next
    BY <1>1, <2>1, <2>2, TermsStep DEF TermsKeptFor
  <2> QED BY <1>1, <2>2
<1> QED BY <1>1, AccountedAlways, PTL DEF Spec, TermsKept
-----------------------------------------------------------------------------
(* Acceptance.                                                               *)

\* Ledger time does not go back.
LEMMA ClockStep ==
  ASSUME Accounted, Next
  PROVE  now \in Nat /\ now' \in Nat /\ now <= now'
<1>1. TypeOK /\ PoolExact /\ now \in Nat /\ now <= now
  BY DEF Accounted, TypeOK
<1>2. CASE now' = now
  BY <1>1, <1>2
<1>3. CASE CreateStep
  BY <1>2, <1>3 DEF CreateStep, CreateEscrowInner
<1>4. CASE \E req \in PoolRequest : CreatePooledEscrow(req)
  BY <1>2, <1>4 DEF CreatePooledEscrow
<1>5. CASE \E id \in Ids, a \in Addr, amount \in Int : DepositStep(id, a, amount)
  BY <1>2, <1>5 DEF DepositStep, Contribute, TopUp
<1>6. CASE \E id \in Ids, a \in Addr : ClaimRefund(id, a)
  BY <1>2, <1>6 DEF ClaimRefund
<1>7. CASE \E id \in Ids, a \in Addr, b \in Addr : EditStep(id, a, b)
  BY <1>1, <1>2, <1>7, EditEffect
<1>8. CASE SettleStep
  BY <1>2, <1>8 DEF SettleStep, Settle
<1>9. CASE \E caller \in Addr : Pause(caller) \/ Unpause(caller)
  BY <1>2, <1>9 DEF Pause, Unpause
<1>10. CASE Environment
  <2>1. now' >= now /\ TypeOK'
    BY <1>1, <1>10, EnvironmentEffect, TypeStep
  <2>2. now' \in Nat
    BY <2>1 DEF TypeOK
  <2> QED BY <1>1, <2>1, <2>2
<1> QED
  BY <1>1, <1>3, <1>4, <1>5, <1>6, <1>7, <1>8, <1>9, <1>10, StepKinds DEF DepositStep

\* A step that hands out an id stores a funded escrow that nobody has accepted,
\* whose releasers are as many as it asks for and whose fee can be computed.
LEMMA NewIsOpen ==
  ASSUME Accounted, Next, NEW x \in Ids', x \notin Ids
  PROVE  /\ escrow'[x].status = "Funded" /\ escrow'[x].accepted_at = {}
         /\ escrow'[x].threshold <= Len(escrow'[x].releasers)
         /\ \A bps \in escrow'[x].fee_bps : FeeFits(escrow'[x].amount, bps)
<1>1. /\ TypeOK /\ PoolExact /\ escrow \in [Ids -> EscrowData] /\ nextId \in Nat
      /\ Ids = 0..(nextId - 1) /\ Ids' = 0..(nextId' - 1)
  BY DEF Accounted, TypeOK, Ids
<1>2. CASE CreateStep
  <2>1. PICK payer \in Addr, reqs \in Seq(Request) :
          reqs # <<>> /\ CreateEscrowInner(payer, reqs)
    BY <1>2 DEF CreateStep
  <2> DEFINE last == nextId + Len(reqs) - 1
  <2>2. /\ nextId' = last + 1
        /\ escrow' = [id \in Ids \cup (nextId..last) |->
                        IF id < nextId THEN escrow[id] ELSE NewEscrow(reqs[id - nextId + 1])]
        /\ \A i \in DOMAIN reqs :
             /\ CheckReleaserSet(reqs[i].releasers, reqs[i].threshold)
             /\ \A bps \in reqs[i].fee_bps : FeeFits(reqs[i].amount, bps)
    BY <1>1, <2>1 DEF CreateEscrowInner, CreateChecks, CheckFee
  <2>3. Len(reqs) \in Nat /\ DOMAIN reqs = 1..Len(reqs)
    BY LenProperties
  <2>4. x \in nextId..last /\ ~(x < nextId) /\ x - nextId + 1 \in DOMAIN reqs
    BY <1>1, <2>2, <2>3
  <2>5. escrow'[x] = NewEscrow(reqs[x - nextId + 1])
    BY <2>2, <2>4
  <2> QED BY <2>2, <2>4, <2>5 DEF NewEscrow, CheckReleaserSet
<1>3. CASE \E req \in PoolRequest : CreatePooledEscrow(req)
  <2>1. PICK req \in PoolRequest : CreatePooledEscrow(req)
    BY <1>3
  <2>2. nextId' = nextId + 1
    BY <2>1 DEF CreatePooledEscrow
  <2>3. x = nextId
    BY <1>1, <2>2
  <2>4. escrow'[x].threshold = 1 /\ escrow'[x].releasers = <<req.releaser>>
        /\ escrow'[x].status = "Funded" /\ escrow'[x].accepted_at = {}
        /\ escrow'[x].fee_bps = {}
    BY <2>1, <2>3 DEF CreatePooledEscrow, Put
  <2> QED BY <2>4
<1>4. nextId' = nextId => FALSE
  BY <1>1
<1>5. ~(\E id \in Ids, a \in Addr, amount \in Int : DepositStep(id, a, amount))
  <2>1. \A id \in Ids, a \in Addr, amount \in Int :
          ~Contribute(id, a, amount) /\ ~TopUp(id, a, amount)
    BY <1>4 DEF Contribute, TopUp
  <2> QED BY <2>1 DEF DepositStep
<1>6. ~(\E id \in Ids, a \in Addr : ClaimRefund(id, a))
  BY <1>4 DEF ClaimRefund
<1>7. ~(\E id \in Ids, a \in Addr, b \in Addr : EditStep(id, a, b))
  BY <1>1, <1>4, EditEffect
<1>8. ~SettleStep
  BY <1>4 DEF SettleStep, Settle
<1>9. ~(\E caller \in Addr : Pause(caller) \/ Unpause(caller))
  BY <1>4 DEF Pause, Unpause
<1>10. ~Environment
  BY <1>1, <1>4, EnvironmentEffect
<1> QED
  BY <1>1, <1>2, <1>3, <1>5, <1>6, <1>7, <1>8, <1>9, <1>10, StepKinds DEF DepositStep

\* No escrow was accepted in the future.
AcceptancesPast == \A id \in Ids : \A t \in escrow[id].accepted_at : t <= now

\* A step keeps acceptances in the past.
LEMMA AcceptancesStep ==
  ASSUME Accounted, AcceptancesPast, Next
  PROVE  AcceptancesPast'
<1>1. SUFFICES ASSUME NEW x \in Ids', NEW t \in escrow'[x].accepted_at PROVE t <= now'
  BY DEF AcceptancesPast
<1>2. now \in Nat /\ now' \in Nat /\ now <= now'
  BY ClockStep
<1>3. x \in Ids
  BY <1>1, NewIsOpen
<1>4. CASE escrow'[x].accepted_at = escrow[x].accepted_at
  <2>1. t <= now /\ t \in Nat
    BY <1>1, <1>3, <1>4 DEF AcceptancesPast, Accounted, TypeOK, EscrowData, Option
  <2> QED BY <1>2, <2>1
<1>5. CASE escrow'[x].accepted_at = {now}
  BY <1>1, <1>2, <1>5
<1> QED BY <1>3, <1>4, <1>5, TermsStep DEF TermsKeptFor

\* Whichever of accept and cancel comes first decides.
LEMMA AcceptanceStep ==
  ASSUME Accounted, AcceptancesPast, AcceptanceDecides, Next
  PROVE  AcceptanceDecides'
<1>1. SUFFICES ASSUME NEW x \in Ids'
               PROVE  /\ escrow'[x].status = "Cancelled" =>
                           escrow'[x].requires_acceptance /\ escrow'[x].accepted_at = {}
                      /\ escrow'[x].status = "Released" /\ escrow'[x].requires_acceptance =>
                           \E t \in escrow'[x].accepted_at : t <= now'
  <2>1. (DOMAIN escrow)' = Ids'
    BY TypeStep DEF TypeOK
  <2> QED BY <2>1 DEF AcceptanceDecides
<1>2. /\ now \in Nat /\ now' \in Nat /\ now <= now'
      /\ escrow \in [Ids -> EscrowData]
  BY ClockStep DEF Accounted, TypeOK
<1>3. CASE escrow'[x].status = "Funded"
  BY <1>3
<1>4. CASE x \in Ids /\ escrow[x].status # "Funded"
  <2>1. escrow'[x] = escrow[x]
    BY <1>4, FinalStep DEF Untouched
  <2>2. \A t \in escrow[x].accepted_at : t <= now'
    <3>1. \A t \in escrow[x].accepted_at : t <= now /\ t \in Nat
      BY <1>2, <1>4 DEF AcceptancesPast, EscrowData, Option
    <3> QED BY <1>2, <3>1
  <2>3. /\ escrow[x].status = "Cancelled" =>
             escrow[x].requires_acceptance /\ escrow[x].accepted_at = {}
        /\ escrow[x].status = "Released" /\ escrow[x].requires_acceptance =>
             escrow[x].accepted_at # {}
    BY <1>2, <1>4 DEF AcceptanceDecides
  <2> QED BY <2>1, <2>2, <2>3
<1>5. CASE x \in Ids /\ Funded(x) /\ escrow'[x].status # "Funded"
  <2>1. /\ Entitled(x, escrow'[x].status) /\ escrow'[x].status \in Terminal
        /\ escrow'[x] = [escrow[x] EXCEPT !.status = escrow'[x].status] /\ now' = now
    BY <1>5, SettlingStep
  <2>2. /\ escrow'[x].requires_acceptance = escrow[x].requires_acceptance
        /\ escrow'[x].accepted_at = escrow[x].accepted_at
    BY <1>2, <1>5, <2>1 DEF EscrowData
  <2>3. escrow'[x].status = "Released" =>
          (escrow[x].requires_acceptance => escrow[x].accepted_at # {})
    BY <2>1 DEF Entitled, ReleaseGates
  <2>4. escrow'[x].status = "Cancelled" =>
          escrow[x].requires_acceptance /\ escrow[x].accepted_at = {}
    BY <2>1 DEF Entitled
  <2>5. \A t \in escrow[x].accepted_at : t <= now'
    BY <1>5, <2>1 DEF AcceptancesPast
  <2> QED BY <2>2, <2>3, <2>4, <2>5
<1>6. x \in Ids \/ escrow'[x].status = "Funded"
  BY NewIsOpen
<1>7. x \in Ids => Funded(x) \/ escrow[x].status # "Funded"
  BY <1>2 DEF Funded, Exists
<1> QED BY <1>3, <1>4, <1>5, <1>6, <1>7

\* The race between accept and cancel, for any number of escrows and any order
\* of calls: a cancelled escrow was never accepted, a released one that asked
\* for acceptance was, and earlier.
THEOREM AcceptanceRace == Spec => []AcceptanceDecides
<1>1. Init => AcceptancesPast /\ AcceptanceDecides
  BY DEF Init, AcceptancesPast, AcceptanceDecides, Ids
<1>2. AcceptancesPast /\ AcceptanceDecides /\ Accounted /\ [Next]_vars
        => AcceptancesPast' /\ AcceptanceDecides'
  <2>1. ASSUME AcceptancesPast, AcceptanceDecides, UNCHANGED vars
        PROVE  AcceptancesPast' /\ AcceptanceDecides'
    <3>1. UNCHANGED <<now, nextId, escrow>>
      BY <2>1 DEF vars, books
    <3> QED BY <2>1, <3>1 DEF AcceptancesPast, AcceptanceDecides, Ids
  <2> QED BY <2>1, AcceptancesStep, AcceptanceStep
<1> QED BY <1>1, <1>2, AccountedAlways, PTL DEF Spec
-----------------------------------------------------------------------------
(* Quorums.                                                                  *)

\* Every escrow has as many releasers as its settlement asks for, all distinct.
QuorumsFit ==
  \A id \in Ids :
    LET list == escrow[id].releasers IN
    /\ escrow[id].threshold <= Len(list)
    /\ \A i, j \in DOMAIN list : list[i] = list[j] => i = j

\* A list of releasers is not empty and has each address once.
LEMMA ListType ==
  ASSUME NEW e \in EscrowData
  PROVE  /\ Len(e.releasers) \in Nat \ {0} /\ DOMAIN e.releasers = 1..Len(e.releasers)
         /\ \A i \in DOMAIN e.releasers : e.releasers[i] \in Addr
         /\ \A i, j \in DOMAIN e.releasers : e.releasers[i] = e.releasers[j] => i = j
<1>1. PICK list : list = e.releasers /\ list \in ReleaserList
  BY DEF EscrowData
<1>2. PICK n \in 1..MAX_RELEASERS : list \in [1..n -> Addr]
  BY <1>1 DEF ReleaserList
<1>3. n \in Nat \ {0} /\ list \in Seq(Addr) /\ Len(list) = n /\ DOMAIN list = 1..n
  <2>1. n \in Nat \ {0}
    BY LimitsAssumption
  <2> QED BY <1>2, <2>1
<1>4. \A i, j \in DOMAIN list : list[i] = list[j] => i = j
  BY <1>1 DEF ReleaserList
<1> QED BY <1>1, <1>2, <1>3, <1>4

\* The quorum an escrow asks for can be found among its releasers, whoever rotates
\* whom: a rotation leaves one, but is open only where one is enough.
THEOREM QuorumsAreReachable == Spec => []QuorumsFit
<1>1. Init => QuorumsFit
  BY DEF Init, QuorumsFit, Ids
<1>2. ASSUME QuorumsFit, Accounted, Accounted', [Next]_vars PROVE QuorumsFit'
  <2>1. CASE UNCHANGED vars
    BY <1>2, <2>1 DEF vars, books, QuorumsFit, Ids
  <2>2. CASE Next
    <3> SUFFICES ASSUME NEW x \in Ids'
                 PROVE  LET list == escrow'[x].releasers IN
                        /\ escrow'[x].threshold <= Len(list)
                        /\ \A i, j \in DOMAIN list : list[i] = list[j] => i = j
      BY DEF QuorumsFit
    <3>1. escrow'[x] \in EscrowData
      BY <1>2 DEF Accounted, TypeOK
    <3>2. CASE x \notin Ids
      BY <1>2, <2>2, <3>1, <3>2, NewIsOpen, ListType
    <3>3. CASE x \in Ids
      <4>1. TermsKeptFor(x)
        BY <1>2, <2>2, <3>3, TermsStep
      <4>2. escrow'[x].threshold = escrow[x].threshold
        BY <4>1 DEF TermsKeptFor, Fixed
      <4>3. CASE escrow'[x].releasers = escrow[x].releasers
        BY <1>2, <3>3, <4>2, <4>3 DEF QuorumsFit
      <4>4. CASE escrow[x].threshold = 1
        <5>1. Len(escrow'[x].releasers) \in Nat \ {0}
          BY <3>1, ListType
        <5> QED BY <3>1, <4>2, <4>4, <5>1, ListType
      <4> QED BY <4>1, <4>3, <4>4 DEF TermsKeptFor
    <3> QED BY <3>2, <3>3
  <2> QED BY <1>2, <2>1, <2>2
<1> QED BY <1>1, <1>2, AccountedAlways, PTL DEF Spec
-----------------------------------------------------------------------------
(* Fees.                                                                     *)

\* A pool has one releaser to ask, no gate, no deadline of a payer, no hook and no fee.
PoolsPlain ==
  \A id \in DOMAIN pooled :
    LET e == escrow[id] IN
    /\ e.threshold = 1 /\ e.refund_after = {} /\ ~e.notify_payee /\ ~e.requires_acceptance
    /\ e.release_not_before = {} /\ e.fee_recipient = {} /\ e.fee_bps = {}

\* The fee of every escrow can be computed on its amount.
FeesFit == \A id \in Ids : \A bps \in escrow[id].fee_bps : FeeFits(escrow[id].amount, bps)

\* Every step keeps pools plain, since none of these terms can change.
LEMMA PlainStep ==
  ASSUME Accounted, PoolsPlain, Next
  PROVE  PoolsPlain'
<1>1. /\ TypeOK /\ PoolExact /\ DOMAIN pooled \subseteq Ids /\ DOMAIN escrow = Ids
  BY DEF Accounted, TypeOK
<1>2. ASSUME NEW id \in DOMAIN pooled, NEW new, new = escrow'[id]
      PROVE  /\ new.threshold = 1 /\ new.refund_after = {} /\ ~new.notify_payee
             /\ ~new.requires_acceptance /\ new.release_not_before = {}
             /\ new.fee_recipient = {} /\ new.fee_bps = {}
  <2>1. Fixed(new) = Fixed(escrow[id])
    BY <1>1, <1>2, TermsStep DEF TermsKeptFor
  <2> QED BY <2>1 DEF PoolsPlain, Fixed
<1>3. CASE pooled' = pooled
  BY <1>2, <1>3 DEF PoolsPlain
<1>4. CASE \E req \in PoolRequest : CreatePooledEscrow(req)
  <2>1. PICK req \in PoolRequest : CreatePooledEscrow(req)
    BY <1>4
  <2>2. PICK new : new = escrow'[nextId]
    OBVIOUS
  <2>3. /\ new.threshold = 1 /\ new.refund_after = {} /\ ~new.notify_payee
        /\ ~new.requires_acceptance /\ new.release_not_before = {}
        /\ new.fee_recipient = {} /\ new.fee_bps = {}
    BY <2>1, <2>2 DEF CreatePooledEscrow, Put
  <2>4. DOMAIN pooled' = DOMAIN pooled \cup {nextId}
    BY <2>1 DEF CreatePooledEscrow, Put
  <2> QED BY <1>2, <2>2, <2>3, <2>4 DEF PoolsPlain
<1>5. CASE CreateStep
  BY <1>3, <1>5 DEF CreateStep, CreateEscrowInner
<1>6. CASE \E id \in Ids, a \in Addr, amount \in Int : DepositStep(id, a, amount)
  BY <1>3, <1>6 DEF DepositStep, Contribute, TopUp
<1>7. CASE \E id \in Ids, a \in Addr : ClaimRefund(id, a)
  BY <1>3, <1>7 DEF ClaimRefund
<1>8. CASE \E id \in Ids, a \in Addr, b \in Addr : EditStep(id, a, b)
  BY <1>1, <1>3, <1>8, EditEffect
<1>9. CASE SettleStep
  BY <1>3, <1>9 DEF SettleStep, Settle
<1>10. CASE \E caller \in Addr : Pause(caller) \/ Unpause(caller)
  BY <1>3, <1>10 DEF Pause, Unpause, books
<1>11. CASE Environment
  BY <1>1, <1>3, <1>11, EnvironmentEffect
<1> QED
  BY <1>1, <1>4, <1>5, <1>6, <1>7, <1>8, <1>9, <1>10, <1>11, StepKinds DEF DepositStep

\* Where the amount of an escrow changes, its fee is looked at again or there is none.
LEMMA AmountStep ==
  ASSUME Accounted, PoolsPlain, Next, NEW x \in Ids, NEW bps \in escrow[x].fee_bps
  PROVE  escrow'[x].amount = escrow[x].amount \/ FeeFits(escrow'[x].amount, bps)
<1>1. /\ TypeOK /\ PoolExact /\ escrow \in [Ids -> EscrowData] /\ escrow[x] \in EscrowData
      /\ x \notin DOMAIN pooled /\ nextId \in Nat /\ Ids = 0..(nextId - 1)
  BY DEF Accounted, TypeOK, PoolsPlain, Ids
<1>2. CASE CreateStep
  <2>1. PICK payer \in Addr, reqs \in Seq(Request) :
          reqs # <<>> /\ CreateEscrowInner(payer, reqs)
    BY <1>2 DEF CreateStep
  <2> QED BY <1>1, <2>1, CreateEffect
<1>3. CASE \E req \in PoolRequest : CreatePooledEscrow(req)
  BY <1>1, <1>3, PoolEffect
<1>4. CASE \E id \in Ids, a \in Addr, amount \in Int : Contribute(id, a, amount)
  <2>1. PICK id \in Ids, a \in Addr, amount \in Int : Contribute(id, a, amount)
    BY <1>4
  <2>2. x # id /\ escrow' = [escrow EXCEPT ![id].amount = @ + amount]
    BY <1>1, <2>1 DEF Contribute, IsPooled
  <2> QED BY <1>1, <2>2
<1>5. CASE \E id \in Ids, a \in Addr, amount \in Int : TopUp(id, a, amount)
  <2>1. PICK id \in Ids, a \in Addr, amount \in Int : TopUp(id, a, amount)
    BY <1>5
  <2>2. /\ escrow' = [escrow EXCEPT ![id].amount = escrow[id].amount + amount]
        /\ \A b \in escrow[id].fee_bps : FeeFits(escrow[id].amount + amount, b)
    BY <2>1 DEF TopUp
  <2>3. CASE x = id
    <3>1. escrow'[x].amount = escrow[id].amount + amount
      BY <1>1, <2>2, <2>3 DEF EscrowData
    <3> QED BY <2>2, <2>3, <3>1
  <2> QED BY <1>1, <2>2, <2>3
<1>6. CASE \E id \in Ids, a \in Addr : ClaimRefund(id, a)
  <2>1. PICK id \in Ids, a \in Addr : ClaimRefund(id, a)
    BY <1>6
  <2>2. PICK k : k = Unclaimed(id, a)
    OBVIOUS
  <2>3. escrow' = [escrow EXCEPT ![id].amount = escrow[id].amount - k] /\ id \in DOMAIN pooled
    <3>1. /\ escrow' = [escrow EXCEPT ![id].amount = @ - Unclaimed(id, a)]
          /\ id \in DOMAIN pooled
      BY <1>1, <2>1, ClaimEffect
    <3> QED BY <2>2, <3>1
  <2> QED BY <1>1, <2>3
<1>7. CASE \E id \in Ids, a \in Addr, b \in Addr : EditStep(id, a, b)
  BY <1>1, <1>7, EditEffect
<1>8. CASE SettleStep
  <2>1. PICK ids \in SUBSET Ids : \E to \in [ids -> Terminal] : Settled(ids, to)
    BY <1>1, <1>8, SettleStepEffect
  <2>2. PICK to \in [ids -> Terminal] : Settled(ids, to)
    BY <2>1
  <2>3. escrow'[x] = IF x \in ids THEN [escrow[x] EXCEPT !.status = to[x]] ELSE escrow[x]
    BY <2>2 DEF Settled
  <2> QED BY <1>1, <2>3 DEF EscrowData
<1>9. CASE \E caller \in Addr : Pause(caller) \/ Unpause(caller)
  BY <1>9 DEF Pause, Unpause, books
<1>10. CASE Environment
  BY <1>1, <1>10, EnvironmentEffect
<1> QED
  BY <1>1, <1>2, <1>3, <1>4, <1>5, <1>6, <1>7, <1>8, <1>9, <1>10, StepKinds

\* The i128 product in fee_amount never overflows when an escrow is released: the amount
\* was bounded at its creation and at every top-up, and what grows without that check, a
\* pool, has no fee.
THEOREM FeesNeverOverflow == Spec => [](PoolsPlain /\ FeesFit)
<1>1. Init => PoolsPlain /\ FeesFit
  BY DEF Init, PoolsPlain, FeesFit, Ids
<1>2. ASSUME PoolsPlain, FeesFit, Accounted, Accounted', [Next]_vars PROVE PoolsPlain' /\ FeesFit'
  <2>1. CASE UNCHANGED vars
    BY <1>2, <2>1 DEF vars, books, PoolsPlain, FeesFit, Ids
  <2>2. CASE Next
    <3> SUFFICES ASSUME NEW x \in Ids', NEW bps \in escrow'[x].fee_bps
                 PROVE  FeeFits(escrow'[x].amount, bps)
      BY <1>2, <2>2, PlainStep DEF FeesFit, FeeFits
    <3>1. CASE x \notin Ids
      BY <1>2, <2>2, <3>1, NewIsOpen
    <3>2. CASE x \in Ids
      <4>1. escrow'[x].fee_bps = escrow[x].fee_bps
        BY <1>2, <2>2, <3>2, TermsStep DEF TermsKeptFor, Fixed
      <4> QED BY <1>2, <2>2, <3>2, <4>1, AmountStep DEF FeesFit
    <3> QED BY <3>1, <3>2
  <2> QED BY <1>2, <2>1, <2>2
<1> QED BY <1>1, <1>2, AccountedAlways, PTL DEF Spec
-----------------------------------------------------------------------------
(* Funding rounds.                                                           *)

\* What one step may do to a funding round.
RoundKept(id) ==
  LET met == escrow[id].amount = pooled[id].funding_target IN
  /\ now >= pooled[id].funding_deadline =>
       met = (escrow'[id].amount = pooled'[id].funding_target)
  /\ now < pooled[id].funding_deadline =>
       \A a \in Addr : Unclaimed(id, a)' >= Unclaimed(id, a)

\* A step that moves neither the pool nor its records.
LEMMA RoundStill ==
  ASSUME TypeOK, NEW x \in DOMAIN pooled, escrow'[x].amount = escrow[x].amount,
         pooled'[x] = pooled[x], \A a \in Addr : Recorded(x, a)' = Recorded(x, a)
  PROVE  RoundKept(x)
<1>1. \A a \in Addr : Unclaimed(x, a) \in Nat
  BY RecordedType
<1> QED BY <1>1 DEF RoundKept, Unclaimed

\* No step decides a round otherwise than its deadline did.
LEMMA RoundStep ==
  ASSUME Accounted, Next, NEW x \in DOMAIN pooled
  PROVE  RoundKept(x)
<1>1. /\ TypeOK /\ PoolExact /\ escrow \in [Ids -> EscrowData] /\ x \in Ids
      /\ DOMAIN pooled \subseteq Ids /\ nextId \in Nat /\ Ids = 0..(nextId - 1)
      /\ pooled[x].funding_deadline \in Nat /\ now \in Nat
  BY DEF Accounted, TypeOK, Ids, PooledData
<1>2. CASE CreateStep
  <2>1. PICK payer \in Addr, reqs \in Seq(Request) :
          reqs # <<>> /\ CreateEscrowInner(payer, reqs)
    BY <1>2 DEF CreateStep
  <2>2. escrow'[x] = escrow[x] /\ pooled' = pooled /\ contribution' = contribution
    BY <1>1, <2>1, CreateEffect
  <2> QED BY <1>1, <2>2, RecordsKept, RoundStill
<1>3. CASE \E req \in PoolRequest : CreatePooledEscrow(req)
  <2>1. PICK req \in PoolRequest : CreatePooledEscrow(req)
    BY <1>3
  <2>2. PICK p : pooled' = Put(pooled, nextId, p)
    BY <2>1 DEF CreatePooledEscrow
  <2>3. escrow'[x] = escrow[x] /\ contribution' = contribution
    BY <1>1, <2>1, PoolEffect
  <2>4. x # nextId
    BY <1>1
  <2>5. pooled'[x] = pooled[x]
    BY <2>2, <2>4 DEF Put
  <2> QED BY <1>1, <2>3, <2>5, RecordsKept, RoundStill
<1>4. CASE \E id \in Ids, a \in Addr, amount \in Int : Contribute(id, a, amount)
  <2>1. PICK id \in Ids, a \in Addr, amount \in Int : Contribute(id, a, amount)
    BY <1>4
  <2>2. /\ amount > 0 /\ now < pooled[id].funding_deadline /\ pooled' = pooled
        /\ escrow' = [escrow EXCEPT ![id].amount = @ + amount]
        /\ contribution' = Put(contribution, <<id, a>>,
                               [Recorded(id, a) EXCEPT !.amount = @ + amount])
    BY <2>1 DEF Contribute, FundingOpen
  <2>3. CASE x # id
    <3>1. escrow'[x] = escrow[x]
      BY <1>1, <2>2, <2>3
    <3>2. PICK r : contribution' = Put(contribution, <<id, a>>, r)
      BY <2>2
    <3>3. \A b \in Addr : Recorded(x, b)' = Recorded(x, b)
      BY <2>3, <3>2, OtherRecords
    <3> QED BY <1>1, <2>2, <3>1, <3>3, RoundStill
  <2>4. CASE x = id
    <3>1. \A b \in Addr : Unclaimed(x, b)' >= Unclaimed(x, b)
      <4>1. SUFFICES ASSUME NEW b \in Addr PROVE Unclaimed(x, b)' >= Unclaimed(x, b)
        OBVIOUS
      <4>2. Recorded(x, b) \in Contribution /\ Unclaimed(x, b) \in Nat
            /\ Recorded(x, b).amount \in Nat
        BY <1>1, RecordedType
      <4>3. CASE b = a
        <5>1. Recorded(x, b)' = [Recorded(x, b) EXCEPT !.amount = @ + amount]
          BY <2>2, <2>4, <4>3 DEF Recorded, Put
        <5>2. /\ Recorded(x, b)'.amount = Recorded(x, b).amount + amount
              /\ Recorded(x, b)'.refunded = Recorded(x, b).refunded
          BY <4>2, <5>1 DEF Contribution
        <5> QED BY <2>2, <4>2, <5>2 DEF Unclaimed
      <4>4. CASE b # a
        <5>1. Recorded(x, b)' = Recorded(x, b)
          BY <2>2, <2>4, <4>4 DEF Recorded, Put
        <5> QED BY <4>2, <5>1 DEF Unclaimed
      <4> QED BY <4>3, <4>4
    <3> QED BY <1>1, <2>2, <2>4, <3>1 DEF RoundKept
  <2> QED BY <2>3, <2>4
<1>5. CASE \E id \in Ids, a \in Addr, amount \in Int : TopUp(id, a, amount)
  <2>1. PICK id \in Ids, a \in Addr, amount \in Int : TopUp(id, a, amount)
    BY <1>5
  <2>2. /\ x # id /\ pooled' = pooled /\ contribution' = contribution
        /\ escrow' = [escrow EXCEPT ![id].amount = @ + amount]
    BY <2>1 DEF TopUp, IsPooled
  <2>3. escrow'[x] = escrow[x]
    BY <1>1, <2>2
  <2> QED BY <1>1, <2>2, <2>3, RecordsKept, RoundStill
<1>6. CASE \E id \in Ids, a \in Addr : ClaimRefund(id, a)
  <2>1. PICK id \in Ids, a \in Addr : ClaimRefund(id, a)
    BY <1>6
  <2>2. /\ ~(now < pooled[id].funding_deadline) /\ escrow[id].amount < pooled[id].funding_target
        /\ contribution' = [contribution EXCEPT ![<<id, a>>].refunded = TRUE]
        /\ <<id, a>> \in DOMAIN contribution /\ pooled' = pooled
    BY <2>1 DEF ClaimRefund, FundingOpen
  <2>3. PICK k : k = Unclaimed(id, a) /\ k \in Nat
    BY <1>1, RecordedType
  <2>4. /\ escrow' = [escrow EXCEPT ![id].amount = escrow[id].amount - k]
        /\ id \in DOMAIN pooled
    <3>1. /\ escrow' = [escrow EXCEPT ![id].amount = @ - Unclaimed(id, a)]
          /\ id \in DOMAIN pooled
      BY <1>1, <2>1, ClaimEffect
    <3> QED BY <2>3, <3>1
  <2>5. CASE x # id
    <3>1. PICK key, r : key = <<id, a>> /\ r = [contribution[key] EXCEPT !.refunded = TRUE]
      OBVIOUS
    <3>2. contribution' = Put(contribution, key, r)
      BY <2>2, <3>1, PutExisting
    <3>3. \A b \in Addr : Recorded(x, b)' = Recorded(x, b)
      BY <2>5, <3>1, <3>2, OtherRecords
    <3>4. escrow'[x] = escrow[x]
      BY <1>1, <2>4, <2>5
    <3> QED BY <1>1, <2>2, <3>3, <3>4, RoundStill
  <2>6. CASE x = id
    <3>1. /\ escrow[x] \in EscrowData /\ escrow[x].amount \in Nat
          /\ pooled[x].funding_target \in Nat
      <4>1. pooled[x] \in PooledData /\ escrow[x] \in EscrowData
        BY <1>1 DEF TypeOK
      <4> QED BY <1>1, <4>1, AmountType, LimitsAssumption DEF PooledData, Amount
    <3>2. escrow'[x].amount = escrow[x].amount - k
      BY <1>1, <2>4, <2>6, <3>1 DEF EscrowData
    <3>3. escrow[x].amount # pooled[x].funding_target
          /\ escrow'[x].amount # pooled'[x].funding_target
      BY <2>2, <2>3, <2>6, <3>1, <3>2
    <3> QED BY <2>2, <2>6, <3>3 DEF RoundKept
  <2> QED BY <2>5, <2>6
<1>7. CASE \E id \in Ids, a \in Addr, b \in Addr : EditStep(id, a, b)
  <2>1. escrow'[x].amount = escrow[x].amount /\ UNCHANGED <<pooled, contribution>>
    BY <1>1, <1>7, EditEffect
  <2> QED BY <1>1, <2>1, RecordsKept, RoundStill
<1>8. CASE SettleStep
  <2>1. PICK ids \in SUBSET Ids : \E to \in [ids -> Terminal] : Settled(ids, to)
    BY <1>1, <1>8, SettleStepEffect
  <2>2. PICK to \in [ids -> Terminal] : Settled(ids, to)
    BY <2>1
  <2>3. /\ escrow'[x] = IF x \in ids THEN [escrow[x] EXCEPT !.status = to[x]] ELSE escrow[x]
        /\ UNCHANGED <<pooled, contribution>>
    BY <1>1, <2>2 DEF Settled
  <2>4. escrow[x] \in EscrowData
    BY <1>1
  <2>5. escrow'[x].amount = escrow[x].amount
    BY <2>3, <2>4 DEF EscrowData
  <2> QED BY <1>1, <2>3, <2>5, RecordsKept, RoundStill
<1>9. CASE UNCHANGED <<escrow, pooled, contribution>>
  BY <1>1, <1>9, RecordsKept, RoundStill
<1>10. CASE \E caller \in Addr : Pause(caller) \/ Unpause(caller)
  BY <1>9, <1>10 DEF Pause, Unpause, books
<1>11. CASE Environment
  BY <1>1, <1>9, <1>11, EnvironmentEffect
<1> QED
  BY <1>1, <1>2, <1>3, <1>4, <1>5, <1>6, <1>7, <1>8, <1>10, <1>11, StepKinds

\* ADR 0011 for any number of pools and contributors: the deadline decides a
\* round for good, and before it nobody loses what it put in.
THEOREM RoundsAreDecided == Spec => RoundDecided
<1>1. ASSUME Accounted, [Next]_vars
      PROVE  [\A id \in DOMAIN pooled :
                LET met == escrow[id].amount = pooled[id].funding_target IN
                /\ now >= pooled[id].funding_deadline =>
                     met = (escrow'[id].amount = pooled'[id].funding_target)
                /\ now < pooled[id].funding_deadline =>
                     \A a \in Addr : Unclaimed(id, a)' >= Unclaimed(id, a)]_vars
  BY <1>1, RoundStep DEF RoundKept
<1> QED BY <1>1, AccountedAlways, PTL DEF Spec, RoundDecided
=============================================================================
