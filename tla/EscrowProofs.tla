----------------------------- MODULE EscrowProofs -----------------------------
(* Proofs about the escrow contract, for every set of parties and tokens,    *)
(* every input and every bound.                                              *)
EXTENDS EscrowProperties, TotalsProofs, SequenceTheorems

-----------------------------------------------------------------------------
(* The helpers.                                                              *)

\* An option that is there has a value of its type.
LEMMA OptionValue ==
  ASSUME NEW S, NEW opt \in Option(S), opt # {}
  PROVE  The(opt) \in S
  BY DEF Option, The

\* Only addresses other than the contract authorise.
LEMMA AuthType ==
  ASSUME NEW addrs \in Seq(Addr), RequireAuth(addrs)
  PROVE  /\ auth' \in SUBSET (Addr \ {Contract})
         /\ \A i \in 1..Len(addrs) : addrs[i] # Contract
<1>1. DOMAIN addrs = 1..Len(addrs) /\ \A i \in 1..Len(addrs) : addrs[i] \in Addr
  BY LenProperties
<1> QED BY <1>1 DEF RequireAuth

\* The same for a single address.
LEMMA AuthOne ==
  ASSUME NEW a \in Addr, RequireAuth(<<a>>)
  PROVE  auth' = {a} /\ a # Contract
<1>1. DOMAIN <<a>> = {1} /\ <<a>>[1] = a
  OBVIOUS
<1> QED BY <1>1 DEF RequireAuth

\* A settlement sends exactly the amount, in one transfer or two.
LEMMA SentIsAmount ==
  ASSUME NEW e \in EscrowData, NEW to
  PROVE  /\ Fee(e, to) \in Int
         /\ Sent(e, to) = e.amount
         /\ \A a \in Addr : Share(e, to, a) \in Int
<1>1. e.amount \in Int /\ e.fee_bps \in Option(0..MAX_FEE_BPS)
  BY LimitsAssumption DEF EscrowData, Amount
<1>2. ASSUME e.fee_bps # {} PROVE FeeAmount(e.amount, The(e.fee_bps)) \in Int
  <2>1. The(e.fee_bps) \in Int
    <3>1. The(e.fee_bps) \in 0..MAX_FEE_BPS
      BY <1>1, <1>2, OptionValue
    <3> QED BY <3>1 DEF MAX_FEE_BPS
  <2>2. e.amount * The(e.fee_bps) \in Int
    BY <1>1, <2>1
  <2> QED BY <2>2 DEF FeeAmount, BASIS_POINTS
<1>3. Fee(e, to) \in Int
  BY <1>2 DEF Fee
<1> QED BY <1>1, <1>3 DEF Sent, Share, Payout

\* A request that passes the checks becomes a well-formed escrow.
LEMMA NewEscrowType ==
  ASSUME NEW req \in Request, CreateChecks(req)
  PROVE  /\ NewEscrow(req) \in EscrowData
         /\ NewEscrow(req).token = req.token /\ NewEscrow(req).amount = req.amount
         /\ req.amount \in Nat
<1> USE LimitsAssumption
<1>1. req.amount \in Amount
  BY DEF CreateChecks, Amount, Request
<1>2. req.releasers \in ReleaserList /\ req.threshold \in 1..MAX_RELEASERS
  <2>1. /\ req.releasers \in Seq(Addr) /\ req.threshold \in Nat
        /\ CheckReleaserSet(req.releasers, req.threshold)
    BY DEF CreateChecks, Request
  <2>2. /\ Len(req.releasers) \in Nat
        /\ req.releasers \in [1..Len(req.releasers) -> Addr]
    BY <2>1, LenProperties
  <2> QED BY <2>1, <2>2 DEF CheckReleaserSet, ReleaserList
<1>3. RefundTo(req) \in Addr
  <2>1. req.refund_to \in Option(Addr) /\ req.payer \in Addr
    BY DEF Request
  <2> QED BY <2>1, OptionValue DEF RefundTo
<1>4. req.fee_bps \in Option(0..MAX_FEE_BPS)
  <2>1. req.fee_bps \in SUBSET Nat /\ \A x, y \in req.fee_bps : x = y
    BY DEF Request, Option
  <2>2. \A bps \in req.fee_bps : bps <= MAX_FEE_BPS
    BY DEF CreateChecks, CheckFee
  <2>3. ASSUME NEW bps \in req.fee_bps PROVE bps \in 0..MAX_FEE_BPS
    <3>1. bps \in Nat /\ bps <= MAX_FEE_BPS
      BY <2>1, <2>2
    <3> QED BY <3>1 DEF MAX_FEE_BPS
  <2> QED BY <2>1, <2>3 DEF Option
<1>5. {} \in Option(Nat)
  BY DEF Option
<1> QED
  BY <1>1, <1>2, <1>3, <1>4, <1>5 DEF NewEscrow, EscrowData, EscrowStatus, Request, Amount
-----------------------------------------------------------------------------
(* What the shared steps of the entry points do.                             *)

\* An exact transfer credits the contract and its debt with the same amounts.
LEMMA TransferEffect ==
  ASSUME TypeOK, NEW payer \in Addr, payer # Contract, NEW in \in [Tokens -> Nat],
         TransferInExact(payer, in)
  PROVE  /\ liability' \in [Tokens -> Amount] /\ balance' \in [Tokens -> [Addr -> Int]]
         /\ \A t \in Tokens : /\ liability'[t] = liability[t] + in[t]
                             /\ balance'[t][Contract] = balance[t][Contract] + in[t]
<1> USE LimitsAssumption, PartiesAssumption
<1>1. liability \in [Tokens -> Amount] /\ balance \in [Tokens -> [Addr -> Int]]
  BY DEF TypeOK
<1>2. /\ AddLiability(in)
      /\ balance' = [t \in Tokens |-> [a \in Addr |->
                       balance[t][a] + (IF a = Contract THEN in[t] ELSE 0)
                                     - (IF a = payer THEN in[t] ELSE 0)]]
  BY DEF TransferInExact, DeliveredExactly
<1>3. \A t \in Tokens : liability[t] + in[t] \in Amount
  BY <1>1, <1>2 DEF AddLiability, Amount
<1>4. liability' = [t \in Tokens |-> liability[t] + in[t]]
  BY <1>2 DEF AddLiability
<1> QED BY <1>1, <1>2, <1>3, <1>4

\* What the escrows in the domain of to owe in token t.
Due(to, t) ==
  Total([id \in DOMAIN to |-> IF escrow[id].token = t THEN escrow[id].amount ELSE 0])

\* What is due is a natural number.
LEMMA DueType ==
  ASSUME TypeOK, NEW ids \in SUBSET Ids, NEW to, DOMAIN to = ids, NEW t
  PROVE  Due(to, t) \in Nat
<1> DEFINE due == [id \in ids |-> IF escrow[id].token = t THEN escrow[id].amount ELSE 0]
<1>1. IsFiniteSet(ids)
  <2>1. nextId \in Nat
    BY DEF TypeOK
  <2>2. IsFiniteSet(Ids)
    BY <2>1, FS_Interval DEF Ids
  <2> QED BY <2>2, FS_Subset
<1>2. due \in [ids -> Int]
  BY LimitsAssumption DEF TypeOK, EscrowData, Amount
<1> HIDE DEF due
<1>3. Total(due) \in Nat
  BY <1>1, <1>2, TotalType
<1> QED BY <1>3 DEF Due, due

\* A settlement takes from the debt what the settled escrows owed, takes no
\* more than that from the contract, and changes nothing but their status.
Settled(ids, to) ==
  /\ escrow' = [id \in Ids |-> IF id \in ids THEN [escrow[id] EXCEPT !.status = to[id]]
                             ELSE escrow[id]]
  /\ status' = [id \in Ids |-> IF id \in ids THEN to[id] ELSE status[id]]
  /\ liability' \in [Tokens -> Amount] /\ balance' \in [Tokens -> [Addr -> Int]]
  /\ \A t \in Tokens :
       /\ liability'[t] = liability[t] - Due(to, t)
       /\ balance'[t][Contract] >= balance[t][Contract] - Due(to, t)
  /\ UNCHANGED <<now, paused, nextId, pooled, contribution, world>>

\* A settlement settles what it names, and books and pays what that owes.
LEMMA SettleEffect ==
  ASSUME TypeOK, NEW ids \in SUBSET Ids, NEW to \in [ids -> EscrowStatus], NEW at,
         Settle(to, at)
  PROVE  Settled(ids, to)
<1> USE LimitsAssumption, PartiesAssumption
<1> DEFINE owed(t) == [id \in ids |-> IF escrow[id].token = t THEN escrow[id].amount ELSE 0]
           sent(t) == [id \in ids |->
                         IF escrow[id].token = t THEN Sent(escrow[id], to[id]) ELSE 0]
           paid(t, a) == [id \in ids |->
                            IF escrow[id].token = t THEN Share(escrow[id], to[id], a) ELSE 0]
<1>1. /\ escrow \in [Ids -> EscrowData] /\ status \in [Ids -> EscrowStatus]
      /\ liability \in [Tokens -> Amount] /\ balance \in [Tokens -> [Addr -> Int]]
      /\ nextId \in Nat /\ DOMAIN to = ids
  BY DEF TypeOK
<1>2. IsFiniteSet(ids)
  <2>1. IsFiniteSet(Ids)
    BY <1>1, FS_Interval DEF Ids
  <2> QED BY <2>1, FS_Subset
<1>3. \A id \in ids : /\ escrow[id] \in EscrowData /\ escrow[id].amount \in Nat
                      /\ Sent(escrow[id], to[id]) = escrow[id].amount
                      /\ \A a \in Addr : Share(escrow[id], to[id], a) \in Int
  <2> SUFFICES ASSUME NEW id \in ids
               PROVE  /\ escrow[id] \in EscrowData /\ escrow[id].amount \in Nat
                      /\ Sent(escrow[id], to[id]) = escrow[id].amount
                      /\ \A a \in Addr : Share(escrow[id], to[id], a) \in Int
    OBVIOUS
  <2>1. escrow[id] \in EscrowData
    BY <1>1
  <2>2. escrow[id].amount \in Nat
    BY <2>1 DEF EscrowData, Amount
  <2> QED BY <2>1, <2>2, SentIsAmount
<1>4. \A t \in Tokens : owed(t) \in [ids -> Int] /\ sent(t) = owed(t)
  BY <1>3
<1>5. \A t \in Tokens, a \in Addr : paid(t, a) \in [ids -> Int]
  BY <1>3
<1>6. \A t \in Tokens : Total(owed(t)) \in Nat /\ Due(to, t) = Total(owed(t))
  <2> HIDE DEF owed
  <2>1. \A t \in Tokens : Total(owed(t)) \in Nat
    BY <1>2, <1>4, TotalType
  <2> QED BY <1>1, <2>1 DEF Due, owed
<1>7. \A t \in Tokens, a \in Addr : Total(paid(t, a)) \in Nat
  <2> HIDE DEF paid
  <2> QED BY <1>2, <1>5, TotalType
<1>8. /\ SubLiability([t \in Tokens |-> Total(owed(t))])
      /\ balance' = [t \in Tokens |-> [a \in Addr |->
           balance[t][a] + Total(paid(t, a)) - (IF a = Contract THEN Total(sent(t)) ELSE 0)]]
      /\ UNCHANGED <<now, paused, nextId, pooled, contribution, world>>
      /\ escrow' = [id \in Ids |-> IF id \in ids THEN [escrow[id] EXCEPT !.status = to[id]]
                                  ELSE escrow[id]]
      /\ status' = [id \in Ids |-> IF id \in ids THEN to[id] ELSE status[id]]
  BY <1>1 DEF Settle
<1> HIDE DEF owed, sent, paid
<1>9. /\ \A t \in Tokens : liability[t] - Total(owed(t)) >= 0
      /\ liability' = [t \in Tokens |-> liability[t] - Total(owed(t))]
  BY <1>8 DEF SubLiability
<1>10. liability' \in [Tokens -> Amount]
  BY <1>1, <1>6, <1>9 DEF Amount
<1>11. \A t \in Tokens : Total(sent(t)) = Due(to, t) /\ Due(to, t) \in Nat
  BY <1>4, <1>6
<1>12. balance' \in [Tokens -> [Addr -> Int]]
  BY <1>1, <1>7, <1>8, <1>11
<1>13. ASSUME NEW t \in Tokens
       PROVE  balance'[t][Contract] >= balance[t][Contract] - Due(to, t)
  <2>1. balance'[t][Contract] = balance[t][Contract] + Total(paid(t, Contract)) - Due(to, t)
    BY <1>8, <1>11
  <2>2. Total(paid(t, Contract)) \in Nat /\ balance[t][Contract] \in Int
    BY <1>1, <1>7
  <2> QED BY <1>11, <2>1, <2>2
<1>14. \A t \in Tokens : liability'[t] = liability[t] - Due(to, t)
  BY <1>6, <1>9
<1> QED BY <1>8, <1>10, <1>12, <1>13, <1>14 DEF Settled
-----------------------------------------------------------------------------
(* What a step is.                                                           *)

Terminal == EscrowStatus \ {"Funded"}

\* A funded escrow that may end as to: a pool is never pushed back.
Ripe(id, to) == Funded(id) /\ FullyFunded(id) /\ (IsPooled(id) => to = "Released")

\* Some funded escrows, pools only once complete, are settled.
SettleStep ==
  /\ auth' \in SUBSET (Addr \ {Contract})
  /\ \E ids \in SUBSET Ids : \E to \in [ids -> Terminal], at \in [ids -> Nat] :
       /\ \A id \in ids : Ripe(id, to[id])
       /\ Settle(to, at)

\* A settlement of one escrow is a settlement step.
LEMMA SettleOneStep ==
  ASSUME NEW id \in Ids, NEW to \in Terminal, Ripe(id, to),
         auth' \in SUBSET (Addr \ {Contract}), SettleOne(id, to)
  PROVE  SettleStep
<1> DEFINE tos == [x \in {id} |-> to]
           ats == [x \in {id} |-> 1]
<1>1. {id} \in SUBSET Ids /\ tos \in [{id} -> Terminal] /\ ats \in [{id} -> Nat]
  OBVIOUS
<1>2. Settle(tos, ats)
  BY DEF SettleOne
<1>3. \A x \in {id} : Ripe(x, tos[x])
  OBVIOUS
<1> HIDE DEF tos, ats
<1> QED BY <1>1, <1>2, <1>3 DEF SettleStep

\* An approver list that is tried is a sequence of addresses.
LEMMA ListsOf ==
  ASSUME NEW S, NEW l \in Lists(S)
  PROVE  l \in Seq(S)
<1>1. PICK n \in 0..MaxListLen : l \in [1..n -> S]
  BY DEF Lists
<1>2. n \in Nat
  BY LimitsAssumption
<1> QED BY <1>1, <1>2

\* So is a batch of settlements.
LEMMA SettleManyStep ==
  ASSUME TypeOK, NEW caller \in Addr, NEW ops \in Lists(Operations), SettleMany(caller, ops)
  PROVE  SettleStep
<1> DEFINE passing(id) == {i \in DOMAIN ops : ops[i][1] = id /\ OperationChecks(ops[i], caller)}
           settled == {id \in DOMAIN escrow : passing(id) # {}}
           first == [id \in settled |-> Min(passing(id))]
           to == [id \in settled |-> ops[first[id]][2]]
<1>1. RequireAuth(<<caller>>) /\ Settle(to, first)
  BY DEF SettleMany
<1>2. auth' \in SUBSET (Addr \ {Contract})
  BY <1>1, AuthOne
<1>3. settled \in SUBSET Ids
  BY DEF TypeOK
<1>4. DOMAIN ops \in SUBSET Nat /\ \A i \in DOMAIN ops : ops[i] \in Operations
  <2>1. ops \in Seq(Operations)
    BY ListsOf
  <2> QED BY <2>1, LenProperties
<1>5. \A id \in settled : first[id] \in passing(id)
  <2> SUFFICES ASSUME NEW id \in settled PROVE first[id] \in passing(id)
    OBVIOUS
  <2>1. passing(id) # {} /\ passing(id) \in SUBSET Nat
    BY <1>4
  <2> HIDE DEF passing
  <2> QED BY <2>1, MinMember
<1>6. ASSUME NEW id \in settled
      PROVE  first[id] \in Nat /\ to[id] \in Terminal /\ Ripe(id, to[id])
  <2>1. PICK i \in DOMAIN ops : i = first[id] /\ ops[i][1] = id /\ OperationChecks(ops[i], caller)
    BY <1>5
  <2>2. to[id] = ops[i][2] /\ ops[i] \in Operations /\ i \in Nat
    BY <1>4, <2>1
  <2>3. ops[i][2] \in {"Released", "Refunded"}
    BY <2>2 DEF Operations
  <2>4. Ripe(id, ops[i][2])
    BY <2>1, <2>3 DEF OperationChecks, ReleaseChecks, RefundChecks, FullyFunded, Ripe
  <2> QED BY <2>1, <2>2, <2>3, <2>4 DEF Terminal, EscrowStatus
<1>7. to \in [settled -> Terminal] /\ first \in [settled -> Nat]
  <2> HIDE DEF settled
  <2>1. \A id \in settled : first[id] \in Nat /\ to[id] \in Terminal
    BY <1>6
  <2> QED BY <2>1
<1> HIDE DEF settled, first, to
<1> QED BY <1>1, <1>2, <1>3, <1>6, <1>7 DEF SettleStep
-----------------------------------------------------------------------------
\* What a creation deposits of each token.
Deposit(reqs) ==
  [t \in Tokens |-> Total([i \in DOMAIN reqs |->
     IF reqs[i].token = t THEN reqs[i].amount ELSE 0])]

\* Requests that pass the checks deposit natural amounts.
LEMMA DepositType ==
  ASSUME NEW reqs \in Seq(Request), \A i \in DOMAIN reqs : reqs[i].amount \in Nat
  PROVE  Deposit(reqs) \in [Tokens -> Nat]
<1> DEFINE in(t) == [i \in DOMAIN reqs |-> IF reqs[i].token = t THEN reqs[i].amount ELSE 0]
<1>1. IsFiniteSet(DOMAIN reqs)
  BY LenProperties, FS_Interval
<1>2. \A t \in Tokens : in(t) \in [DOMAIN reqs -> Int]
  OBVIOUS
<1>3. \A t \in Tokens : Total(in(t)) \in Nat
  <2> HIDE DEF in
  <2> QED BY <1>1, <1>2, TotalType
<1> QED BY <1>3 DEF Deposit

\* A creation appends well-formed funded escrows and deposits their amounts.
LEMMA CreateEffect ==
  ASSUME TypeOK, NEW payer \in Addr, NEW reqs \in Seq(Request), reqs # <<>>,
         CreateEscrowInner(payer, reqs)
  PROVE  /\ auth' \in SUBSET (Addr \ {Contract})
         /\ Len(reqs) \in Nat \ {0} /\ nextId' = nextId + Len(reqs)
         /\ escrow' \in [0..(nextId + Len(reqs) - 1) -> EscrowData]
         /\ status' \in [0..(nextId + Len(reqs) - 1) -> EscrowStatus]
         /\ \A id \in Ids : escrow'[id] = escrow[id] /\ status'[id] = status[id]
         /\ \A id \in nextId..(nextId + Len(reqs) - 1) :
              /\ escrow'[id].token = reqs[id - nextId + 1].token
              /\ escrow'[id].amount = reqs[id - nextId + 1].amount
              /\ escrow'[id].status = "Funded" /\ status'[id] = "Funded"
         /\ \A i \in DOMAIN reqs : reqs[i].amount \in Nat
         /\ liability' \in [Tokens -> Amount] /\ balance' \in [Tokens -> [Addr -> Int]]
         /\ \A t \in Tokens :
              /\ liability'[t] = liability[t] + Deposit(reqs)[t]
              /\ balance'[t][Contract] = balance[t][Contract] + Deposit(reqs)[t]
         /\ UNCHANGED <<now, paused, pooled, contribution, world>>
<1> USE LimitsAssumption, PartiesAssumption
<1> DEFINE n == Len(reqs)
           last == nextId + n - 1
           asked == <<payer>> \o IF reqs[1].notify_payee THEN <<reqs[1].payee>> ELSE <<>>
<1>1. /\ n \in Nat \ {0} /\ DOMAIN reqs = 1..n
      /\ \A i \in 1..n : reqs[i] \in Request
  BY EmptySeq, LenProperties
<1>2. /\ escrow \in [Ids -> EscrowData] /\ status \in [Ids -> EscrowStatus]
      /\ nextId \in Nat /\ Ids = 0..(nextId - 1)
  BY DEF TypeOK, Ids
<1>3. /\ \A i \in DOMAIN reqs : CreateChecks(reqs[i])
      /\ RequireAuth(asked) /\ TransferInExact(payer, Deposit(reqs))
      /\ nextId' = last + 1
      /\ escrow' = [id \in DOMAIN escrow \cup (nextId..last) |->
                      IF id < nextId THEN escrow[id] ELSE NewEscrow(reqs[id - nextId + 1])]
      /\ status' = [id \in DOMAIN status \cup (nextId..last) |->
                      IF id < nextId THEN status[id] ELSE "Funded"]
      /\ UNCHANGED <<now, paused, pooled, contribution, world>>
  BY DEF CreateEscrowInner, Deposit
<1>4. auth' \in SUBSET (Addr \ {Contract}) /\ payer # Contract
  <2>1. reqs[1].payee \in Addr
    <3>1. reqs[1] \in Request
      BY <1>1
    <3> QED BY <3>1 DEF Request
  <2>2. CASE reqs[1].notify_payee
    <3>1. asked = <<payer>> \o <<reqs[1].payee>>
      BY <2>2
    <3>2. /\ <<payer>> \in Seq(Addr) /\ <<reqs[1].payee>> \in Seq(Addr)
          /\ Len(<<payer>>) = 1 /\ Len(<<reqs[1].payee>>) = 1 /\ <<payer>>[1] = payer
      BY <2>1
    <3> HIDE DEF asked
    <3>4. asked \in Seq(Addr) /\ Len(asked) = 2 /\ asked[1] = payer
      BY <3>1, <3>2, ConcatProperties
    <3>3. /\ auth' \in SUBSET (Addr \ {Contract})
          /\ \A i \in 1..Len(asked) : asked[i] # Contract
      BY <1>3, <3>4, AuthType
    <3> QED BY <3>3, <3>4
  <2>3. CASE ~reqs[1].notify_payee
    <3>1. asked = <<payer>>
      BY <2>3
    <3> QED BY <1>3, <3>1, AuthOne
  <2> QED BY <2>2, <2>3
<1>5. \A i \in 1..n : /\ NewEscrow(reqs[i]) \in EscrowData /\ reqs[i].amount \in Nat
                      /\ NewEscrow(reqs[i]).token = reqs[i].token
                      /\ NewEscrow(reqs[i]).amount = reqs[i].amount
                      /\ NewEscrow(reqs[i]).status = "Funded"
  <2> SUFFICES ASSUME NEW i \in 1..n
               PROVE  /\ NewEscrow(reqs[i]) \in EscrowData /\ reqs[i].amount \in Nat
                      /\ NewEscrow(reqs[i]).token = reqs[i].token
                      /\ NewEscrow(reqs[i]).amount = reqs[i].amount
                      /\ NewEscrow(reqs[i]).status = "Funded"
    OBVIOUS
  <2>1. reqs[i] \in Request /\ CreateChecks(reqs[i])
    BY <1>1, <1>3
  <2>2. NewEscrow(reqs[i]).status = "Funded"
    BY DEF NewEscrow
  <2> QED BY <2>1, <2>2, NewEscrowType
<1>6. DOMAIN escrow \cup (nextId..last) = 0..last /\ DOMAIN status \cup (nextId..last) = 0..last
  BY <1>1, <1>2
<1>7. \A id \in nextId..last : id - nextId + 1 \in 1..n /\ ~(id < nextId) /\ id \in 0..last
  BY <1>1, <1>2
<1>8. \A id \in Ids : id < nextId /\ id \in 0..last
  BY <1>1, <1>2
<1>9. \A id \in 0..last : id \in Ids \/ id \in nextId..last
  BY <1>1, <1>2
<1>10. /\ escrow' = [id \in 0..last |->
                       IF id < nextId THEN escrow[id] ELSE NewEscrow(reqs[id - nextId + 1])]
       /\ status' = [id \in 0..last |-> IF id < nextId THEN status[id] ELSE "Funded"]
  BY <1>3, <1>6
<1>11. \A id \in Ids : /\ escrow'[id] = escrow[id] /\ status'[id] = status[id]
                       /\ escrow'[id] \in EscrowData /\ status'[id] \in EscrowStatus
  BY <1>2, <1>8, <1>10
<1>12. \A id \in nextId..last :
         /\ escrow'[id] = NewEscrow(reqs[id - nextId + 1])
         /\ escrow'[id] \in EscrowData /\ status'[id] = "Funded" /\ "Funded" \in EscrowStatus
  BY <1>5, <1>7, <1>10 DEF EscrowStatus
<1>13. escrow' \in [0..last -> EscrowData] /\ status' \in [0..last -> EscrowStatus]
  <2>1. \A id \in 0..last : escrow'[id] \in EscrowData /\ status'[id] \in EscrowStatus
    BY <1>9, <1>11, <1>12
  <2> QED BY <1>10, <2>1
<1>14. Deposit(reqs) \in [Tokens -> Nat]
  BY <1>1, <1>5, DepositType
<1>15. /\ liability' \in [Tokens -> Amount] /\ balance' \in [Tokens -> [Addr -> Int]]
       /\ \A t \in Tokens :
            /\ liability'[t] = liability[t] + Deposit(reqs)[t]
            /\ balance'[t][Contract] = balance[t][Contract] + Deposit(reqs)[t]
  BY <1>3, <1>4, <1>14, TransferEffect
<1>16. \A id \in nextId..last : /\ escrow'[id].token = reqs[id - nextId + 1].token
                                /\ escrow'[id].amount = reqs[id - nextId + 1].amount
                                /\ escrow'[id].status = "Funded" /\ status'[id] = "Funded"
  BY <1>5, <1>7, <1>12
<1>17. nextId' = nextId + n
  BY <1>1, <1>2, <1>3
<1> QED BY <1>1, <1>3, <1>4, <1>5, <1>11, <1>13, <1>15, <1>16, <1>17

\* The entry points that create a plain escrow.
CreateStep ==
  \E payer \in Addr, reqs \in Seq(Request) : reqs # <<>> /\ CreateEscrowInner(payer, reqs)

\* The entry points that change a term of a funded escrow and move no money.
EditStep(id, a, b) == Accept(id, a) \/ RotateReleaser(id, a, b) \/ TransferPayee(id, a, b)

\* The calls that settle escrow id by itself.
SettlingCall(id) ==
  \/ \E a \in Addr : Release(id, a) \/ Refund(id, a) \/ Cancel(id, a)
  \/ \E approvers \in Seq(Addr) :
       ReleaseWithApprovals(id, approvers) \/ RefundWithApprovals(id, approvers)

\* The single settlements are settlement steps.
LEMMA SettleCallStep ==
  ASSUME NEW id \in Ids, SettlingCall(id)
  PROVE  SettleStep
<1>1. ASSUME NEW a \in Addr, Release(id, a) \/ Refund(id, a) \/ Cancel(id, a)
      PROVE  SettleStep
  <2>1. auth' \in SUBSET (Addr \ {Contract})
    BY <1>1, AuthOne DEF Release, Refund, Cancel
  <2>2. Funded(id) /\ FullyFunded(id) /\ (IsPooled(id) => SettleOne(id, "Released"))
    BY <1>1 DEF Release, Refund, Cancel, ReleaseChecks, RefundChecks, FullyFunded
  <2>3. \E to \in Terminal : SettleOne(id, to) /\ Ripe(id, to)
    BY <1>1, <2>2 DEF Release, Refund, Cancel, Terminal, EscrowStatus, Ripe
  <2> QED BY <2>1, <2>3, SettleOneStep
<1>2. ASSUME NEW approvers \in Seq(Addr),
             ReleaseWithApprovals(id, approvers) \/ RefundWithApprovals(id, approvers)
      PROVE  SettleStep
  <2>1. auth' \in SUBSET (Addr \ {Contract})
    <3>1. RequireAuth(approvers)
      BY <1>2 DEF ReleaseWithApprovals, RefundWithApprovals, CheckApprovals
    <3> QED BY <3>1, AuthType
  <2>2. Funded(id) /\ FullyFunded(id) /\ (IsPooled(id) => SettleOne(id, "Released"))
    BY <1>2 DEF ReleaseWithApprovals, RefundWithApprovals, FullyFunded
  <2>3. \E to \in Terminal : SettleOne(id, to) /\ Ripe(id, to)
    BY <1>2, <2>2 DEF ReleaseWithApprovals, RefundWithApprovals, Terminal, EscrowStatus, Ripe
  <2> QED BY <2>1, <2>3, SettleOneStep
<1> QED BY <1>1, <1>2 DEF SettlingCall

\* Every entry point that creates escrows is one of the two kinds.
LEMMA CreationKinds ==
  ASSUME Create
  PROVE  CreateStep \/ \E req \in PoolRequest : CreatePooledEscrow(req)
<1> USE InputsAssumption
<1>1. ASSUME NEW req \in Requests, CreateEscrowInner(req.payer, <<req>>) PROVE CreateStep
  <2>1. req \in Request /\ req.payer \in Addr
    BY DEF Request
  <2>2. <<req>> \in Seq(Request) /\ <<req>> # <<>>
    BY <2>1
  <2> QED BY <1>1, <2>1, <2>2 DEF CreateStep
<1>2. ASSUME NEW payer \in Addr, NEW items \in Batches, CreateEscrows(payer, items)
      PROVE  CreateStep
  <2>1. items \in Seq(Request) /\ items # <<>> /\ CreateEscrowInner(payer, items)
    BY <1>2 DEF CreateEscrows
  <2> QED BY <2>1 DEF CreateStep
<1> QED
  BY <1>1, <1>2 DEF Create, CreateEscrow, CreateEscrowReleaseTime,
     CreateEscrowWithAcceptance, CreateEscrowWithReleasers

\* Every step is a call of one of these.
LEMMA StepCalls ==
  ASSUME TypeOK, Next
  PROVE  \/ CreateStep
         \/ \E req \in PoolRequest : CreatePooledEscrow(req)
         \/ \E id \in Ids, a \in Addr, amount \in Int : Contribute(id, a, amount)
         \/ \E id \in Ids, a \in Addr, amount \in Int : TopUp(id, a, amount)
         \/ \E id \in Ids, a \in Addr : ClaimRefund(id, a)
         \/ \E id \in Ids, a \in Addr, b \in Addr : EditStep(id, a, b)
         \/ \E id \in Ids : SettlingCall(id)
         \/ \E caller \in Addr, ops \in Lists(Operations) : SettleMany(caller, ops)
         \/ \E caller \in Addr : Pause(caller) \/ Unpause(caller)
         \/ Environment
<1> USE InputsAssumption
<1>1. DOMAIN escrow = Ids
  BY DEF TypeOK
<1>2. Create => CreateStep \/ \E req \in PoolRequest : CreatePooledEscrow(req)
  BY CreationKinds
<1>3. ASSUME NEW id \in Ids, Use(id)
      PROVE  \/ \E a \in Addr, amount \in Int : Contribute(id, a, amount)
             \/ \E a \in Addr, amount \in Int : TopUp(id, a, amount)
             \/ \E a \in Addr : ClaimRefund(id, a)
             \/ \E a \in Addr, b \in Addr : EditStep(id, a, b)
             \/ SettlingCall(id)
  BY <1>3, ListsOf DEF Use, EditStep, SettlingCall
<1> QED BY <1>1, <1>2, <1>3 DEF Next, Create

\* Every step is of one of these kinds.
LEMMA StepKinds ==
  ASSUME TypeOK, Next
  PROVE  \/ CreateStep
         \/ \E req \in PoolRequest : CreatePooledEscrow(req)
         \/ \E id \in Ids, a \in Addr, amount \in Int : Contribute(id, a, amount)
         \/ \E id \in Ids, a \in Addr, amount \in Int : TopUp(id, a, amount)
         \/ \E id \in Ids, a \in Addr : ClaimRefund(id, a)
         \/ \E id \in Ids, a \in Addr, b \in Addr : EditStep(id, a, b)
         \/ SettleStep
         \/ \E caller \in Addr : Pause(caller) \/ Unpause(caller)
         \/ Environment
  BY StepCalls, SettleCallStep, SettleManyStep

\* A change of a term keeps every escrow well-formed and moves no money.
LEMMA EditEffect ==
  ASSUME TypeOK, NEW id \in Ids, NEW a \in Addr, NEW b \in Addr, EditStep(id, a, b)
  PROVE  /\ auth' \in SUBSET (Addr \ {Contract})
         /\ escrow' \in [Ids -> EscrowData]
         /\ \A x \in Ids : /\ escrow'[x].amount = escrow[x].amount
                           /\ escrow'[x].token = escrow[x].token
                           /\ escrow'[x].status = escrow[x].status
         /\ UNCHANGED <<now, paused, nextId, status, pooled, contribution, liability,
                        balance, world>>
<1>1. escrow \in [Ids -> EscrowData] /\ escrow[id] \in EscrowData /\ now \in Nat
  BY DEF TypeOK
<1>2. CASE Accept(id, a)
  <2>1. /\ escrow' = [escrow EXCEPT ![id].accepted_at = {now}] /\ RequireAuth(<<a>>)
        /\ UNCHANGED <<now, paused, nextId, status, pooled, contribution, liability,
                       balance, world>>
    BY <1>2 DEF Accept
  <2>2. {now} \in Option(Nat)
    BY <1>1 DEF Option
  <2>3. [escrow[id] EXCEPT !.accepted_at = {now}] \in EscrowData
    BY <1>1, <2>2 DEF EscrowData
  <2>4. auth' \in SUBSET (Addr \ {Contract})
    BY <2>1, AuthOne
  <2> QED BY <1>1, <2>1, <2>3, <2>4 DEF EscrowData
<1>3. CASE RotateReleaser(id, a, b)
  <2>1. /\ escrow' = [escrow EXCEPT ![id].releasers = <<b>>]
        /\ RequireAuth(<<a, escrow[id].payer>>)
        /\ UNCHANGED <<now, paused, nextId, status, pooled, contribution, liability,
                       balance, world>>
    BY <1>3 DEF RotateReleaser
  <2>2. <<b>> \in ReleaserList
    <3>1. 1 \in 1..MAX_RELEASERS
      BY <1>1, LimitsAssumption DEF EscrowData, ReleaserList
    <3>2. <<b>> \in [1..1 -> Addr] /\ \A i, j \in DOMAIN <<b>> : i = j
      OBVIOUS
    <3> QED BY <3>1, <3>2 DEF ReleaserList
  <2>3. [escrow[id] EXCEPT !.releasers = <<b>>] \in EscrowData
    BY <1>1, <2>2 DEF EscrowData
  <2>4. auth' \in SUBSET (Addr \ {Contract})
    <3>1. <<a, escrow[id].payer>> \in Seq(Addr)
      BY <1>1 DEF EscrowData
    <3> QED BY <2>1, <3>1, AuthType
  <2> QED BY <1>1, <2>1, <2>3, <2>4 DEF EscrowData
<1>4. CASE TransferPayee(id, a, b)
  <2>1. /\ escrow' = [escrow EXCEPT ![id].payee = b] /\ RequireAuth(<<a>>)
        /\ UNCHANGED <<now, paused, nextId, status, pooled, contribution, liability,
                       balance, world>>
    BY <1>4 DEF TransferPayee
  <2>2. [escrow[id] EXCEPT !.payee = b] \in EscrowData
    BY <1>1 DEF EscrowData
  <2>3. auth' \in SUBSET (Addr \ {Contract})
    BY <2>1, AuthOne
  <2> QED BY <1>1, <2>1, <2>2, <2>3 DEF EscrowData
<1> QED BY <1>2, <1>3, <1>4 DEF EditStep

\* The sum of one token is a deposit like any other.
LEMMA JustType ==
  ASSUME NEW token \in Tokens, NEW amount \in Nat
  PROVE  /\ Just(token, amount) \in [Tokens -> Nat]
         /\ Just(token, amount)[token] = amount
         /\ \A t \in Tokens \ {token} : Just(token, amount)[t] = 0
  BY DEF Just

\* A contributor has a record of its own, or the empty one.
LEMMA RecordedType ==
  ASSUME TypeOK, NEW id, NEW a
  PROVE  /\ Recorded(id, a) \in Contribution
         /\ Recorded(id, a).amount \in Nat /\ Unclaimed(id, a) \in Nat
<1>1. [amount |-> 0, refunded |-> FALSE] \in Contribution
  BY LimitsAssumption DEF Contribution, Amount
<1>2. Recorded(id, a) \in Contribution
  BY <1>1 DEF Recorded, TypeOK
<1>3. Recorded(id, a).amount \in Nat
  BY <1>2 DEF Contribution, Amount
<1> QED BY <1>2, <1>3 DEF Unclaimed

\* The deposits into an escrow that is there: a contribution or a top-up.
DepositStep(id, payer, amount) == Contribute(id, payer, amount) \/ TopUp(id, payer, amount)

\* A deposit adds the same amount to the escrow, the debt and the balance.
LEMMA DepositEffect ==
  ASSUME TypeOK, NEW id \in Ids, NEW payer \in Addr, NEW amount \in Int,
         DepositStep(id, payer, amount)
  PROVE  /\ auth' \in SUBSET (Addr \ {Contract}) /\ payer # Contract /\ amount \in Nat
         /\ Funded(id)
         /\ escrow' \in [Ids -> EscrowData]
         /\ escrow' = [escrow EXCEPT ![id].amount = @ + amount]
         /\ liability' \in [Tokens -> Amount] /\ balance' \in [Tokens -> [Addr -> Int]]
         /\ \A t \in Tokens :
              /\ liability'[t] = liability[t] + Just(escrow[id].token, amount)[t]
              /\ balance'[t][Contract] =
                   balance[t][Contract] + Just(escrow[id].token, amount)[t]
         /\ UNCHANGED <<now, paused, nextId, status, pooled, world>>
<1> USE LimitsAssumption
<1>1. /\ escrow \in [Ids -> EscrowData] /\ escrow[id] \in EscrowData
      /\ escrow[id].token \in Tokens /\ escrow[id].amount \in Nat
  BY DEF TypeOK, EscrowData, Amount
<1>2. /\ RequireAuth(<<payer>>) /\ amount > 0 /\ Funded(id)
      /\ TransferInExact(payer, Just(escrow[id].token, amount))
      /\ escrow' = [escrow EXCEPT ![id].amount = @ + amount]
      /\ UNCHANGED <<now, paused, nextId, status, pooled, world>>
  BY DEF DepositStep, Contribute, TopUp
<1>3. escrow[id].amount + amount \in Amount
  <2>1. CASE Contribute(id, payer, amount)
    <3>1. pooled[id].funding_target \in Amount
      BY <2>1 DEF Contribute, IsPooled, TypeOK, PooledData
    <3>2. amount <= pooled[id].funding_target - escrow[id].amount
      BY <2>1 DEF Contribute
    <3> QED BY <1>1, <1>2, <3>1, <3>2 DEF Amount
  <2>2. CASE TopUp(id, payer, amount)
    BY <1>1, <1>2, <2>2 DEF TopUp, Amount
  <2> QED BY <2>1, <2>2 DEF DepositStep
<1>4. [escrow[id] EXCEPT !.amount = @ + amount] \in EscrowData
  BY <1>1, <1>3 DEF EscrowData
<1>5. escrow' \in [Ids -> EscrowData]
  BY <1>1, <1>2, <1>4
<1>6. auth' \in SUBSET (Addr \ {Contract}) /\ payer # Contract /\ amount \in Nat
  BY <1>2, AuthOne
<1>7. Just(escrow[id].token, amount) \in [Tokens -> Nat]
  BY <1>1, <1>6, JustType
<1> QED BY <1>2, <1>5, <1>6, <1>7, TransferEffect

\* A contributor's claim is at most what its pool holds, and the pool, the debt
\* and the balance go down by it.
LEMMA ClaimEffect ==
  ASSUME TypeOK, PoolExact, NEW id \in Ids, NEW a \in Addr, ClaimRefund(id, a)
  PROVE  /\ auth' \in SUBSET (Addr \ {Contract}) /\ a # Contract
         /\ Funded(id) /\ id \in DOMAIN pooled /\ <<id, a>> \in DOMAIN contribution
         /\ Unclaimed(id, a) = contribution[<<id, a>>].amount
         /\ Unclaimed(id, a) <= escrow[id].amount
         /\ escrow' \in [Ids -> EscrowData]
         /\ escrow' = [escrow EXCEPT ![id].amount = @ - Unclaimed(id, a)]
         /\ contribution' = [contribution EXCEPT ![<<id, a>>].refunded = TRUE]
         /\ liability' \in [Tokens -> Amount] /\ balance' \in [Tokens -> [Addr -> Int]]
         /\ \A t \in Tokens :
              /\ liability'[t] = liability[t] - Just(escrow[id].token, Unclaimed(id, a))[t]
              /\ balance'[t][Contract] =
                   balance[t][Contract] - Just(escrow[id].token, Unclaimed(id, a))[t]
         /\ UNCHANGED <<now, paused, nextId, status, pooled, world>>
<1> USE LimitsAssumption, PartiesAssumption
<1> DEFINE k == Unclaimed(id, a)
           token == escrow[id].token
<1>1. /\ escrow \in [Ids -> EscrowData] /\ escrow[id] \in EscrowData
      /\ token \in Tokens /\ escrow[id].amount \in Amount
      /\ liability \in [Tokens -> Amount] /\ balance \in [Tokens -> [Addr -> Int]]
  BY DEF TypeOK, EscrowData
<1>2. /\ RequireAuth(<<a>>) /\ id \in DOMAIN pooled /\ Funded(id)
      /\ <<id, a>> \in DOMAIN contribution /\ ~contribution[<<id, a>>].refunded
      /\ contribution' = [contribution EXCEPT ![<<id, a>>].refunded = TRUE]
      /\ UNCHANGED <<now, paused, nextId, status, pooled, world>>
  BY DEF ClaimRefund, IsPooled
<1>3. k = contribution[<<id, a>>].amount /\ k \in Nat
  BY <1>2, RecordedType DEF Unclaimed, Recorded
<1>4. /\ escrow' = [escrow EXCEPT ![id].amount = @ - k]
      /\ SubLiability(Just(token, k))
      /\ balance' = [balance EXCEPT ![token][Contract] = @ - k, ![token][a] = @ + k]
  BY <1>3 DEF ClaimRefund
<1>5. auth' \in SUBSET (Addr \ {Contract}) /\ a # Contract
  BY <1>2, AuthOne
<1>6. k <= escrow[id].amount
  <2> DEFINE unclaimed == [x \in Addr |-> Unclaimed(id, x)]
  <2>1. escrow[id].amount = Total(unclaimed)
    BY <1>2 DEF PoolExact
  <2>2. unclaimed \in [Addr -> Nat] /\ unclaimed[a] = k
    BY RecordedType
  <2> HIDE DEF unclaimed
  <2>3. unclaimed[a] <= Total(unclaimed)
    BY <2>2, TotalMember
  <2> QED BY <2>1, <2>2, <2>3
<1>7. [escrow[id] EXCEPT !.amount = @ - k] \in EscrowData
  <2>1. escrow[id].amount - k \in Amount
    BY <1>1, <1>3, <1>6 DEF Amount
  <2> QED BY <1>1, <2>1 DEF EscrowData
<1>8. escrow' \in [Ids -> EscrowData]
  BY <1>1, <1>4, <1>7
<1>9. Just(token, k) \in [Tokens -> Nat]
  BY <1>1, <1>3, JustType
<1>10. /\ liability' \in [Tokens -> Amount]
       /\ \A t \in Tokens : liability'[t] = liability[t] - Just(token, k)[t]
  BY <1>1, <1>4, <1>9 DEF SubLiability, Amount
<1>11. /\ balance' \in [Tokens -> [Addr -> Int]]
       /\ \A t \in Tokens : balance'[t][Contract] = balance[t][Contract] - Just(token, k)[t]
  <2>1. balance[token][a] + k \in Int /\ balance[token][Contract] - k \in Int
    BY <1>1, <1>3
  <2>2. balance'[token][Contract] = balance[token][Contract] - k
    BY <1>1, <1>4, <1>5
  <2>3. \A t \in Tokens \ {token} : balance'[t] = balance[t]
    BY <1>1, <1>4
  <2>4. balance' \in [Tokens -> [Addr -> Int]]
    BY <1>1, <1>4, <2>1
  <2>5. \A t \in Tokens \ {token} :
          balance'[t][Contract] = balance[t][Contract] - Just(token, k)[t]
    <3>1. \A t \in Tokens \ {token} : Just(token, k)[t] = 0
      BY <1>1, <1>3, JustType
    <3>2. \A t \in Tokens : balance[t][Contract] \in Int
      BY <1>1
    <3> HIDE DEF token, k
    <3> QED BY <2>3, <3>1, <3>2
  <2>6. Just(token, k)[token] = k
    BY <1>1, <1>3, JustType
  <2> QED BY <2>2, <2>4, <2>5, <2>6
<1> QED BY <1>2, <1>3, <1>4, <1>5, <1>6, <1>8, <1>10, <1>11

\* A new pool is an empty, well-formed escrow.
LEMMA PoolEffect ==
  ASSUME TypeOK, NEW req \in PoolRequest, CreatePooledEscrow(req)
  PROVE  /\ auth' \in SUBSET (Addr \ {Contract}) /\ nextId' = nextId + 1
         /\ escrow' \in [0..nextId -> EscrowData] /\ status' \in [0..nextId -> EscrowStatus]
         /\ \A id \in Ids : escrow'[id] = escrow[id] /\ status'[id] = status[id]
         /\ escrow'[nextId].amount = 0
         /\ escrow'[nextId].status = "Funded" /\ status'[nextId] = "Funded"
         /\ pooled' = Put(pooled, nextId, [funding_target |-> req.funding_target,
                                           funding_deadline |-> req.funding_deadline])
         /\ pooled'[nextId] \in PooledData
         /\ UNCHANGED <<now, paused, contribution, liability, balance, world>>
<1> USE LimitsAssumption
<1> DEFINE e == [payer |-> req.creator, payee |-> req.payee, token |-> req.token,
                 amount |-> 0, status |-> "Funded", releasers |-> <<req.releaser>>,
                 threshold |-> 1, refund_after |-> {}, notify_payee |-> FALSE,
                 requires_acceptance |-> FALSE, accepted_at |-> {},
                 refund_to |-> req.creator, release_not_before |-> {},
                 fee_recipient |-> {}, fee_bps |-> {}]
           p == [funding_target |-> req.funding_target, funding_deadline |-> req.funding_deadline]
<1>1. /\ escrow \in [Ids -> EscrowData] /\ status \in [Ids -> EscrowStatus]
      /\ nextId \in Nat /\ Ids = 0..(nextId - 1)
  BY DEF TypeOK, Ids
<1>2. /\ RequireAuth(<<req.creator>>) /\ nextId' = nextId + 1
      /\ escrow' = Put(escrow, nextId, e) /\ status' = Put(status, nextId, "Funded")
      /\ pooled' = Put(pooled, nextId, p)
      /\ CheckReleaserSet(<<req.releaser>>, 1)
      /\ req.funding_target > 0 /\ req.funding_target <= I128Max
      /\ UNCHANGED <<now, paused, contribution, liability, balance, world>>
  BY DEF CreatePooledEscrow
<1>3. /\ req.creator \in Addr /\ req.payee \in Addr /\ req.token \in Tokens
      /\ req.releaser \in Addr /\ req.funding_target \in Int
      /\ req.funding_deadline \in Nat
  BY DEF PoolRequest
<1>4. <<req.releaser>> \in ReleaserList /\ 1 \in 1..MAX_RELEASERS
  <2>1. 1 <= MAX_RELEASERS
    BY <1>2 DEF CheckReleaserSet
  <2>2. <<req.releaser>> \in [1..1 -> Addr]
    BY <1>3
  <2> QED BY <2>1, <2>2 DEF ReleaserList
<1>5. \A S : {} \in Option(S)
  BY DEF Option
<1>6. e \in EscrowData /\ "Funded" \in EscrowStatus
  BY <1>3, <1>4, <1>5 DEF EscrowData, EscrowStatus, Amount
<1>7. p \in PooledData
  BY <1>2, <1>3 DEF PooledData, Amount
<1>8. DOMAIN escrow \cup {nextId} = 0..nextId /\ DOMAIN status \cup {nextId} = 0..nextId
      /\ nextId \notin Ids
  BY <1>1
<1>9. auth' \in SUBSET (Addr \ {Contract})
  BY <1>2, <1>3, AuthOne
<1>10. pooled'[nextId] = p
  BY <1>2 DEF Put
<1>11. e.amount = 0 /\ e.status = "Funded"
  OBVIOUS
<1> HIDE DEF e
<1>12. /\ escrow' = [x \in 0..nextId |-> IF x = nextId THEN e ELSE escrow[x]]
       /\ status' = [x \in 0..nextId |-> IF x = nextId THEN "Funded" ELSE status[x]]
  BY <1>2, <1>8 DEF Put
<1>13. \A x \in 0..nextId : x # nextId => x \in Ids
  BY <1>1
<1>14. escrow' \in [0..nextId -> EscrowData] /\ status' \in [0..nextId -> EscrowStatus]
  BY <1>1, <1>6, <1>12, <1>13
<1>15. \A id \in Ids : escrow'[id] = escrow[id] /\ status'[id] = status[id]
  BY <1>1, <1>8, <1>12
<1>16. escrow'[nextId] = e /\ status'[nextId] = "Funded"
  BY <1>1, <1>12
<1> QED BY <1>2, <1>7, <1>9, <1>10, <1>11, <1>14, <1>15, <1>16

\* The environment touches no record of the contract, and takes money from it
\* only in a token that can be clawed back.
LEMMA EnvironmentEffect ==
  ASSUME TypeOK, Environment
  PROVE  /\ now' \in Nat /\ now' >= now /\ auth' \in SUBSET (Addr \ {Contract})
         /\ frozen' \in SUBSET CanFreeze /\ broken' \in SUBSET CanBreak
         /\ balance' \in [Tokens -> [Addr -> Int]]
         /\ \A t \in Tokens \ ClawbackTokens : balance'[t][Contract] >= balance[t][Contract]
         /\ UNCHANGED <<paused, nextId, escrow, status, pooled, contribution, liability>>
<1> USE PartiesAssumption
<1>1. /\ now \in Nat /\ frozen \in SUBSET CanFreeze /\ broken \in SUBSET CanBreak
      /\ balance \in [Tokens -> [Addr -> Int]]
  BY DEF TypeOK
<1>2. \A t \in Tokens : balance[t][Contract] \in Int
  BY <1>1
<1>3. CASE Tick
  BY <1>1, <1>2, <1>3 DEF Tick, books, world
<1>4. CASE \E a \in CanFreeze : SetFrozen(a)
  BY <1>1, <1>2, <1>4 DEF SetFrozen, books
<1>5. CASE \E a \in CanBreak : SetBroken(a)
  BY <1>1, <1>2, <1>5 DEF SetBroken, books
<1>6. ASSUME NEW t \in ClawbackTokens, NEW amount \in Int, Clawback(t, amount)
      PROVE  /\ balance' \in [Tokens -> [Addr -> Int]]
             /\ \A u \in Tokens \ ClawbackTokens :
                  balance'[u][Contract] >= balance[u][Contract]
  <2>1. balance' = [balance EXCEPT ![t][Contract] = @ - amount] /\ t \in Tokens
    BY <1>6 DEF Clawback
  <2>2. balance[t][Contract] - amount \in Int
    BY <1>2, <1>6, <2>1
  <2>3. balance' \in [Tokens -> [Addr -> Int]]
    BY <1>1, <2>1, <2>2
  <2>4. \A u \in Tokens \ ClawbackTokens : balance'[u][Contract] = balance[u][Contract]
    BY <1>1, <2>1
  <2> QED BY <1>2, <2>3, <2>4
<1>7. ASSUME NEW t \in Tokens, NEW a \in Addr \ {Contract}, NEW amount \in Donations,
             Donate(t, a, amount)
      PROVE  /\ balance' \in [Tokens -> [Addr -> Int]]
             /\ \A u \in Tokens : balance'[u][Contract] >= balance[u][Contract]
  <2>1. /\ balance' = [balance EXCEPT ![t][a] = @ - amount, ![t][Contract] = @ + amount]
        /\ amount \in Nat
    BY <1>7, InputsAssumption DEF Donate
  <2>2. balance[t][a] - amount \in Int /\ balance[t][Contract] + amount \in Int
    BY <1>1, <2>1
  <2>3. balance' \in [Tokens -> [Addr -> Int]]
    BY <1>1, <2>1, <2>2
  <2>4. balance'[t][Contract] = balance[t][Contract] + amount
    BY <1>1, <2>1
  <2>5. \A u \in Tokens \ {t} : balance'[u] = balance[u]
    BY <1>1, <2>1
  <2> QED BY <1>2, <2>1, <2>3, <2>4, <2>5
<1>8. CASE \E t \in ClawbackTokens : \E amount \in 1..balance[t][Contract] : Clawback(t, amount)
  <2>1. PICK t \in ClawbackTokens, amount \in Int : Clawback(t, amount)
    BY <1>8
  <2>2. /\ auth' = {}
        /\ UNCHANGED <<now, paused, nextId, escrow, status, pooled, contribution, liability, world>>
    BY <2>1 DEF Clawback
  <2> QED BY <1>1, <1>6, <2>1, <2>2 DEF world
<1>9. CASE \E t \in Tokens, a \in Addr \ {Contract}, amount \in Donations : Donate(t, a, amount)
  <2>1. PICK t \in Tokens, a \in Addr \ {Contract}, amount \in Donations : Donate(t, a, amount)
    BY <1>9
  <2>2. /\ auth' = {}
        /\ UNCHANGED <<now, paused, nextId, escrow, status, pooled, contribution, liability, world>>
    BY <2>1 DEF Donate
  <2> QED BY <1>1, <1>7, <2>1, <2>2 DEF world
<1> QED BY <1>3, <1>4, <1>5, <1>8, <1>9 DEF Environment
-----------------------------------------------------------------------------
(* The inductive invariant.                                                  *)

\* The two copies of the status agree: get_status reads what settle wrote.
StatusMirrors == \A id \in Ids : status[id] = escrow[id].status

\* Nothing is claimed back while a round is open, so nobody contributes on top
\* of a record that is marked refunded.
ClaimsWait ==
  \A id \in DOMAIN pooled : FundingOpen(id) => \A a \in Addr : ~Recorded(id, a).refunded

\* A claim is covered only because a funded pool holds exactly what its
\* contributors have not claimed, and a contribution is added to the pool only
\* if its record is not refunded: types, pools and claims are one invariant.
Accounted == TypeOK /\ StatusMirrors /\ ClaimsWait /\ PoolExact

\* The part of TypeOK about pools follows from two conditions on a step.
LEMMA ContributionsKept ==
  ASSUME TypeOK, NEW id \in DOMAIN pooled, NEW a \in Addr \ {Contract}, NEW r \in Contribution,
         contribution' = Put(contribution, <<id, a>>, r), pooled' = pooled
  PROVE  /\ DOMAIN contribution' \subseteq (DOMAIN pooled') \X (Addr \ {Contract})
         /\ \A key \in DOMAIN contribution' : contribution'[key] \in Contribution
  BY DEF TypeOK, Put

\* Types are kept.
LEMMA TypeStep ==
  ASSUME Accounted, Next
  PROVE  TypeOK'
<1> USE LimitsAssumption
<1>1. /\ TypeOK /\ PoolExact
      /\ now \in Nat /\ paused \in BOOLEAN /\ nextId \in Nat
      /\ escrow \in [Ids -> EscrowData] /\ status \in [Ids -> EscrowStatus]
      /\ DOMAIN pooled \subseteq Ids /\ \A id \in DOMAIN pooled : pooled[id] \in PooledData
      /\ DOMAIN contribution \subseteq (DOMAIN pooled) \X (Addr \ {Contract})
      /\ \A key \in DOMAIN contribution : contribution[key] \in Contribution
      /\ liability \in [Tokens -> Amount] /\ balance \in [Tokens -> [Addr -> Int]]
      /\ frozen \in SUBSET CanFreeze /\ broken \in SUBSET CanBreak
      /\ auth \in SUBSET (Addr \ {Contract})
  BY DEF Accounted, TypeOK
<1>2. CASE CreateStep
  <2>1. PICK payer \in Addr, reqs \in Seq(Request) :
          reqs # <<>> /\ CreateEscrowInner(payer, reqs)
    BY <1>2 DEF CreateStep
  <2>2. /\ auth' \in SUBSET (Addr \ {Contract})
        /\ Len(reqs) \in Nat \ {0} /\ nextId' = nextId + Len(reqs)
        /\ escrow' \in [0..(nextId + Len(reqs) - 1) -> EscrowData]
        /\ status' \in [0..(nextId + Len(reqs) - 1) -> EscrowStatus]
        /\ liability' \in [Tokens -> Amount] /\ balance' \in [Tokens -> [Addr -> Int]]
        /\ UNCHANGED <<now, paused, pooled, contribution, world>>
    BY <1>1, <2>1, CreateEffect
  <2>3. Ids \subseteq Ids' /\ Ids' = 0..(nextId + Len(reqs) - 1) /\ nextId' \in Nat
    BY <1>1, <2>2 DEF Ids
  <2> QED BY <1>1, <2>2, <2>3 DEF TypeOK, world
<1>3. CASE \E req \in PoolRequest : CreatePooledEscrow(req)
  <2>1. PICK req \in PoolRequest : CreatePooledEscrow(req)
    BY <1>3
  <2> DEFINE p == [funding_target |-> req.funding_target,
                   funding_deadline |-> req.funding_deadline]
  <2>2. /\ auth' \in SUBSET (Addr \ {Contract}) /\ nextId' = nextId + 1
        /\ escrow' \in [0..nextId -> EscrowData] /\ status' \in [0..nextId -> EscrowStatus]
        /\ pooled' = Put(pooled, nextId, p) /\ pooled'[nextId] \in PooledData
        /\ UNCHANGED <<now, paused, contribution, liability, balance, world>>
    BY <1>1, <2>1, PoolEffect
  <2>3. Ids \subseteq Ids' /\ Ids' = 0..nextId /\ nextId' \in Nat /\ nextId \in Ids'
    BY <1>1, <2>2 DEF Ids
  <2> HIDE DEF p
  <2>4. /\ DOMAIN pooled' = DOMAIN pooled \cup {nextId}
        /\ \A id \in DOMAIN pooled' : pooled'[id] \in PooledData
    BY <1>1, <2>2 DEF Put
  <2>5. /\ DOMAIN pooled' \subseteq Ids'
        /\ DOMAIN contribution' \subseteq (DOMAIN pooled') \X (Addr \ {Contract})
        /\ \A key \in DOMAIN contribution' : contribution'[key] \in Contribution
    BY <1>1, <2>2, <2>3, <2>4
  <2> QED BY <1>1, <2>2, <2>3, <2>4, <2>5 DEF TypeOK, world
<1>4. CASE \E id \in Ids, a \in Addr, amount \in Int : DepositStep(id, a, amount)
  <2>1. PICK id \in Ids, a \in Addr, amount \in Int : DepositStep(id, a, amount)
    BY <1>4
  <2>2. /\ auth' \in SUBSET (Addr \ {Contract}) /\ a # Contract /\ amount \in Nat
        /\ escrow' \in [Ids -> EscrowData]
        /\ liability' \in [Tokens -> Amount] /\ balance' \in [Tokens -> [Addr -> Int]]
        /\ UNCHANGED <<now, paused, nextId, status, pooled, world>>
    BY <1>1, <2>1, DepositEffect
  <2>3. /\ DOMAIN contribution' \subseteq (DOMAIN pooled') \X (Addr \ {Contract})
        /\ \A key \in DOMAIN contribution' : contribution'[key] \in Contribution
    <3>1. CASE Contribute(id, a, amount)
      <4> DEFINE r == [Recorded(id, a) EXCEPT !.amount = @ + amount]
      <4>1. /\ contribution' = Put(contribution, <<id, a>>, r) /\ id \in DOMAIN pooled
            /\ Recorded(id, a).amount + amount <= I128Max
        BY <3>1 DEF Contribute, IsPooled
      <4>2. Recorded(id, a) \in Contribution /\ Recorded(id, a).amount \in Nat
        BY <1>1, RecordedType
      <4>3. Recorded(id, a).amount + amount \in Amount
        BY <2>2, <4>1, <4>2 DEF Amount
      <4>4. r \in Contribution
        BY <4>2, <4>3 DEF Contribution
      <4> HIDE DEF r
      <4> QED BY <1>1, <2>2, <4>1, <4>4, ContributionsKept
    <3>2. CASE TopUp(id, a, amount)
      BY <1>1, <2>2, <3>2 DEF TopUp
    <3> QED BY <2>1, <3>1, <3>2 DEF DepositStep
  <2>4. Ids' = Ids
    BY <2>2 DEF Ids
  <2> QED BY <1>1, <2>2, <2>3, <2>4 DEF TypeOK, world
<1>5. CASE \E id \in Ids, a \in Addr : ClaimRefund(id, a)
  <2>1. PICK id \in Ids, a \in Addr : ClaimRefund(id, a)
    BY <1>5
  <2>2. /\ auth' \in SUBSET (Addr \ {Contract}) /\ a # Contract
        /\ <<id, a>> \in DOMAIN contribution
        /\ escrow' \in [Ids -> EscrowData]
        /\ contribution' = [contribution EXCEPT ![<<id, a>>].refunded = TRUE]
        /\ liability' \in [Tokens -> Amount] /\ balance' \in [Tokens -> [Addr -> Int]]
        /\ UNCHANGED <<now, paused, nextId, status, pooled, world>>
    BY <1>1, <2>1, ClaimEffect
  <2>3. Ids' = Ids
    BY <2>2 DEF Ids
  <2>4. /\ DOMAIN contribution' \subseteq (DOMAIN pooled') \X (Addr \ {Contract})
        /\ \A key \in DOMAIN contribution' : contribution'[key] \in Contribution
    <3>1. [contribution[<<id, a>>] EXCEPT !.refunded = TRUE] \in Contribution
      BY <1>1, <2>2 DEF Contribution
    <3>2. DOMAIN contribution' = DOMAIN contribution
      BY <2>2
    <3>3. \A key \in DOMAIN contribution : contribution'[key] \in Contribution
      BY <1>1, <2>2, <3>1
    <3> QED BY <1>1, <2>2, <3>2, <3>3
  <2> QED BY <1>1, <2>2, <2>3, <2>4 DEF TypeOK, world
<1>6. CASE \E id \in Ids, a \in Addr, b \in Addr : EditStep(id, a, b)
  <2>1. PICK id \in Ids, a \in Addr, b \in Addr : EditStep(id, a, b)
    BY <1>6
  <2>2. /\ auth' \in SUBSET (Addr \ {Contract}) /\ escrow' \in [Ids -> EscrowData]
        /\ UNCHANGED <<now, paused, nextId, status, pooled, contribution, liability,
                       balance, world>>
    BY <1>1, <2>1, EditEffect
  <2>3. Ids' = Ids
    BY <2>2 DEF Ids
  <2> QED BY <1>1, <2>2, <2>3 DEF TypeOK, world
<1>7. CASE SettleStep
  <2>1. PICK ids \in SUBSET Ids : \E to \in [ids -> Terminal], at \in [ids -> Nat] : Settle(to, at)
    BY <1>7 DEF SettleStep
  <2>2. PICK to \in [ids -> Terminal], at \in [ids -> Nat] : Settle(to, at)
    BY <2>1
  <2>3. to \in [ids -> EscrowStatus]
    BY DEF Terminal
  <2>4. /\ escrow' = [id \in Ids |-> IF id \in ids THEN [escrow[id] EXCEPT !.status = to[id]]
                                    ELSE escrow[id]]
        /\ status' = [id \in Ids |-> IF id \in ids THEN to[id] ELSE status[id]]
        /\ liability' \in [Tokens -> Amount] /\ balance' \in [Tokens -> [Addr -> Int]]
        /\ UNCHANGED <<now, paused, nextId, pooled, contribution, world>>
    <3>1. Settled(ids, to)
      BY <1>1, <2>2, <2>3, SettleEffect
    <3> QED BY <3>1 DEF Settled
  <2>5. Ids' = Ids
    BY <2>4 DEF Ids
  <2>6. escrow' \in [Ids -> EscrowData]
    <3>1. ASSUME NEW id \in ids PROVE [escrow[id] EXCEPT !.status = to[id]] \in EscrowData
      <4>1. escrow[id] \in EscrowData /\ to[id] \in EscrowStatus
        BY <1>1, <2>3
      <4> QED BY <4>1 DEF EscrowData
    <3> QED BY <1>1, <2>4, <3>1
  <2>7. status' \in [Ids -> EscrowStatus]
    BY <1>1, <2>3, <2>4
  <2>8. auth' \in SUBSET (Addr \ {Contract})
    BY <1>7 DEF SettleStep
  <2> QED BY <1>1, <2>4, <2>5, <2>6, <2>7, <2>8 DEF TypeOK, world
<1>8. CASE \E caller \in Addr : Pause(caller) \/ Unpause(caller)
  <2>1. /\ auth' \in SUBSET (Addr \ {Contract}) /\ paused' \in BOOLEAN
        /\ UNCHANGED <<now, nextId, books, world>>
    BY <1>8, AuthOne DEF Pause, Unpause
  <2>2. Ids' = Ids
    BY <2>1 DEF Ids
  <2> QED BY <1>1, <2>1, <2>2 DEF TypeOK, world, books
<1>9. CASE Environment
  <2>1. /\ now' \in Nat /\ auth' \in SUBSET (Addr \ {Contract})
        /\ frozen' \in SUBSET CanFreeze /\ broken' \in SUBSET CanBreak
        /\ balance' \in [Tokens -> [Addr -> Int]]
        /\ UNCHANGED <<paused, nextId, escrow, status, pooled, contribution, liability>>
    BY <1>1, <1>9, EnvironmentEffect
  <2>2. Ids' = Ids
    BY <2>1 DEF Ids
  <2> QED BY <1>1, <2>1, <2>2 DEF TypeOK
<1> QED BY <1>1, <1>2, <1>3, <1>4, <1>5, <1>6, <1>7, <1>8, <1>9, StepKinds DEF DepositStep

\* What a settlement step settles, and that it does just that.
LEMMA SettleStepEffect ==
  ASSUME TypeOK, SettleStep
  PROVE  \E ids \in SUBSET Ids : \E to \in [ids -> Terminal] :
           /\ Settled(ids, to) /\ \A id \in ids : Funded(id) /\ FullyFunded(id)
           /\ \A id \in ids : Ripe(id, to[id])
<1>1. PICK ids \in SUBSET Ids : \E to \in [ids -> Terminal], at \in [ids -> Nat] :
        (\A id \in ids : Ripe(id, to[id])) /\ Settle(to, at)
  BY DEF SettleStep
<1>2. PICK to \in [ids -> Terminal], at \in [ids -> Nat] :
        (\A id \in ids : Ripe(id, to[id])) /\ Settle(to, at)
  BY <1>1
<1>3. to \in [ids -> EscrowStatus]
  BY DEF Terminal
<1>4. \A id \in ids : Funded(id) /\ FullyFunded(id)
  BY <1>2 DEF Ripe
<1>5. Settled(ids, to)
  BY <1>2, <1>3, <1>4, SettleEffect
<1> QED BY <1>2, <1>4, <1>5

\* The two copies of the status stay equal.
LEMMA StatusStep ==
  ASSUME Accounted, Next
  PROVE  StatusMirrors'
<1>1. /\ TypeOK /\ PoolExact /\ nextId \in Nat /\ Ids = 0..(nextId - 1)
      /\ escrow \in [Ids -> EscrowData] /\ \A id \in Ids : status[id] = escrow[id].status
  BY DEF Accounted, TypeOK, StatusMirrors, Ids
<1>2. CASE CreateStep
  <2>1. PICK payer \in Addr, reqs \in Seq(Request) :
          reqs # <<>> /\ CreateEscrowInner(payer, reqs)
    BY <1>2 DEF CreateStep
  <2>2. /\ Len(reqs) \in Nat \ {0} /\ nextId' = nextId + Len(reqs)
        /\ \A id \in Ids : escrow'[id] = escrow[id] /\ status'[id] = status[id]
        /\ \A id \in nextId..(nextId + Len(reqs) - 1) :
             escrow'[id].status = "Funded" /\ status'[id] = "Funded"
    BY <1>1, <2>1, CreateEffect
  <2>3. \A id \in Ids' : id \in Ids \/ id \in nextId..(nextId + Len(reqs) - 1)
    BY <1>1, <2>2 DEF Ids
  <2> QED BY <1>1, <2>2, <2>3 DEF StatusMirrors
<1>3. CASE \E req \in PoolRequest : CreatePooledEscrow(req)
  <2>1. /\ nextId' = nextId + 1
        /\ \A id \in Ids : escrow'[id] = escrow[id] /\ status'[id] = status[id]
        /\ escrow'[nextId].status = "Funded" /\ status'[nextId] = "Funded"
    BY <1>1, <1>3, PoolEffect
  <2>2. \A id \in Ids' : id \in Ids \/ id = nextId
    BY <1>1, <2>1 DEF Ids
  <2> QED BY <1>1, <2>1, <2>2 DEF StatusMirrors
<1>4. CASE \E id \in Ids, a \in Addr, amount \in Int : DepositStep(id, a, amount)
  <2>1. PICK id \in Ids, a \in Addr, amount \in Int : DepositStep(id, a, amount)
    BY <1>4
  <2>2. /\ escrow' = [escrow EXCEPT ![id].amount = @ + amount]
        /\ UNCHANGED <<nextId, status>>
    BY <1>1, <2>1, DepositEffect
  <2> QED BY <1>1, <2>2 DEF StatusMirrors, Ids, EscrowData
<1>5. CASE \E id \in Ids, a \in Addr : ClaimRefund(id, a)
  <2>1. PICK id \in Ids, a \in Addr : ClaimRefund(id, a)
    BY <1>5
  <2>2. /\ escrow' = [escrow EXCEPT ![id].amount = @ - Unclaimed(id, a)]
        /\ UNCHANGED <<nextId, status>>
    BY <1>1, <2>1, ClaimEffect
  <2> QED BY <1>1, <2>2 DEF StatusMirrors, Ids, EscrowData
<1>6. CASE \E id \in Ids, a \in Addr, b \in Addr : EditStep(id, a, b)
  <2>1. (\A x \in Ids : escrow'[x].status = escrow[x].status) /\ UNCHANGED <<nextId, status>>
    BY <1>1, <1>6, EditEffect
  <2> QED BY <1>1, <2>1 DEF StatusMirrors, Ids
<1>7. CASE SettleStep
  <2>1. PICK ids \in SUBSET Ids : \E to \in [ids -> Terminal] : Settled(ids, to)
    BY <1>1, <1>7, SettleStepEffect
  <2>2. PICK to \in [ids -> Terminal] : Settled(ids, to)
    BY <2>1
  <2>3. /\ escrow' = [id \in Ids |-> IF id \in ids THEN [escrow[id] EXCEPT !.status = to[id]]
                                    ELSE escrow[id]]
        /\ status' = [id \in Ids |-> IF id \in ids THEN to[id] ELSE status[id]]
        /\ nextId' = nextId
    BY <2>2 DEF Settled
  <2> QED BY <1>1, <2>3 DEF StatusMirrors, Ids, EscrowData
<1>8. CASE UNCHANGED <<nextId, escrow, status>>
  BY <1>1, <1>8 DEF StatusMirrors, Ids
<1>9. CASE \E caller \in Addr : Pause(caller) \/ Unpause(caller)
  BY <1>8, <1>9 DEF Pause, Unpause, books
<1>10. CASE Environment
  BY <1>1, <1>8, <1>10, EnvironmentEffect
<1> QED BY <1>1, <1>2, <1>3, <1>4, <1>5, <1>6, <1>7, <1>9, <1>10, StepKinds DEF DepositStep

\* What PoolExact says of one pool.
PoolHolds(id) ==
  Funded(id) =>
    /\ escrow[id].amount = Total([a \in Addr |-> Unclaimed(id, a)])
    /\ escrow[id].amount <= pooled[id].funding_target

\* A step that leaves a pool's amount, target and records alone leaves it exact.
LEMMA PoolFrame ==
  ASSUME TypeOK, PoolExact, TypeOK', NEW id \in DOMAIN pooled, pooled'[id] = pooled[id],
         escrow'[id].amount = escrow[id].amount,
         escrow'[id].status = "Funded" => escrow[id].status = "Funded",
         \A a \in Addr : Recorded(id, a)' = Recorded(id, a)
  PROVE  PoolHolds(id)'
<1>1. id \in DOMAIN escrow
  BY DEF TypeOK
<1>2. [a \in Addr |-> Unclaimed(id, a)]' = [a \in Addr |-> Unclaimed(id, a)]
  BY DEF Unclaimed
<1>3. SUFFICES ASSUME Funded(id)'
               PROVE  /\ escrow'[id].amount = Total([a \in Addr |-> Unclaimed(id, a)])'
                      /\ escrow'[id].amount <= pooled'[id].funding_target
  BY DEF PoolHolds
<1>4. Funded(id)
  BY <1>1, <1>3 DEF Funded, Exists
<1>5. /\ escrow[id].amount = Total([a \in Addr |-> Unclaimed(id, a)])
      /\ escrow[id].amount <= pooled[id].funding_target
  BY <1>4 DEF PoolExact
<1>6. Total([a \in Addr |-> Unclaimed(id, a)])' = Total([a \in Addr |-> Unclaimed(id, a)])
  BY <1>2 DEF Total, Coins
<1> QED BY <1>5, <1>6

\* Records are kept when no contribution changes.
LEMMA RecordsKept ==
  ASSUME contribution' = contribution
  PROVE  \A id, a : Recorded(id, a)' = Recorded(id, a)
  BY DEF Recorded

\* Changing one contributor's record leaves all the others alone.
LEMMA OtherRecords ==
  ASSUME NEW id, NEW a, NEW r, contribution' = Put(contribution, <<id, a>>, r)
  PROVE  /\ Recorded(id, a)' = r
         /\ \A x, b : <<x, b>> # <<id, a>> => Recorded(x, b)' = Recorded(x, b)
  BY DEF Recorded, Put

\* Changing the record of a known contributor is putting it again.
LEMMA PutExisting ==
  ASSUME NEW k \in DOMAIN contribution, NEW r,
         r = [contribution[k] EXCEPT !.refunded = TRUE],
         contribution' = [contribution EXCEPT ![k].refunded = TRUE]
  PROVE  contribution' = Put(contribution, k, r)
  BY DEF Put

\* If one contributor's unclaimed part and the pool's amount move together, the
\* pool still holds what is unclaimed.
LEMMA PoolMoves ==
  ASSUME TypeOK, PoolExact, TypeOK', NEW id \in DOMAIN pooled, NEW a \in Addr, Funded(id),
         \A b \in Addr \ {a} : Recorded(id, b)' = Recorded(id, b),
         escrow'[id].amount - escrow[id].amount = Unclaimed(id, a)' - Unclaimed(id, a),
         pooled' = pooled, escrow'[id].amount <= pooled[id].funding_target
  PROVE  PoolHolds(id)'
<1> DEFINE f == [b \in Addr |-> Unclaimed(id, b)]
           g == [b \in Addr |-> Unclaimed(id, b)']
<1>1. f \in [Addr -> Nat]
  BY RecordedType
<1>2. \A b \in Addr : Unclaimed(id, b)' \in Nat
  <2>1. ASSUME NEW b \in Addr PROVE Recorded(id, b)' \in Contribution
    <3>1. [amount |-> 0, refunded |-> FALSE] \in Contribution
      BY LimitsAssumption DEF Contribution, Amount
    <3> QED BY <3>1 DEF Recorded, TypeOK
  <2> QED BY <2>1 DEF Unclaimed, Contribution, Amount
<1>3. g \in [Addr -> Nat]
  BY <1>2
<1>4. \A b \in Addr \ {a} : f[b] = g[b]
  BY DEF Unclaimed
<1>5. f[a] = Unclaimed(id, a) /\ g[a] = Unclaimed(id, a)'
  OBVIOUS
<1>6. escrow[id].amount = Total(f) /\ escrow[id].amount \in Nat /\ escrow'[id].amount \in Int
  <2>1. escrow[id].amount = Total(f)
    BY DEF PoolExact
  <2>2. id \in Ids /\ escrow[id] \in EscrowData
    BY DEF TypeOK
  <2>3. id \in Ids' /\ escrow'[id] \in EscrowData
    BY DEF TypeOK
  <2> QED BY <2>1, <2>2, <2>3, LimitsAssumption DEF EscrowData, Amount
<1>7. Total(f) - f[a] = Total(g) - g[a] /\ Total(g) \in Nat
  <2> HIDE DEF f, g
  <2>1. IsFiniteSet(Addr) /\ g \in [Addr -> Int]
    BY <1>3, PartiesAssumption
  <2> QED BY <1>1, <1>3, <1>4, <2>1, TotalChange, TotalType
<1>8. escrow'[id].amount = Total(g)
  <2> HIDE DEF f, g
  <2> QED BY <1>1, <1>3, <1>5, <1>6, <1>7
<1>9. Total([b \in Addr |-> Unclaimed(id, b)])' = Total(g)
  BY DEF Total, Coins
<1> QED BY <1>8, <1>9 DEF PoolHolds

\* Every funded pool keeps holding exactly what its contributors can claim.
LEMMA PoolStep ==
  ASSUME Accounted, Next
  PROVE  PoolExact'
<1>1. /\ TypeOK /\ PoolExact /\ TypeOK' /\ DOMAIN pooled \subseteq Ids
      /\ nextId \in Nat /\ Ids = 0..(nextId - 1) /\ escrow \in [Ids -> EscrowData]
      /\ DOMAIN contribution \subseteq (DOMAIN pooled) \X (Addr \ {Contract})
      /\ \A id \in DOMAIN pooled : pooled[id] \in PooledData
      /\ \A id \in DOMAIN pooled : FundingOpen(id) => \A a \in Addr : ~Recorded(id, a).refunded
      /\ \A key \in DOMAIN contribution : contribution[key] \in Contribution
  BY TypeStep DEF Accounted, TypeOK, Ids, ClaimsWait
<1>2. SUFFICES ASSUME NEW x \in DOMAIN pooled' PROVE PoolHolds(x)'
  BY DEF PoolExact, PoolHolds
<1>3. CASE CreateStep
  <2>1. PICK payer \in Addr, reqs \in Seq(Request) :
          reqs # <<>> /\ CreateEscrowInner(payer, reqs)
    BY <1>3 DEF CreateStep
  <2>2. /\ \A id \in Ids : escrow'[id] = escrow[id]
        /\ pooled' = pooled /\ contribution' = contribution
    BY <1>1, <2>1, CreateEffect
  <2> QED BY <1>1, <2>2, PoolFrame, RecordsKept
<1>4. CASE \E req \in PoolRequest : CreatePooledEscrow(req)
  <2>1. PICK req \in PoolRequest : CreatePooledEscrow(req)
    BY <1>4
  <2> DEFINE p == [funding_target |-> req.funding_target,
                   funding_deadline |-> req.funding_deadline]
  <2>2. /\ \A id \in Ids : escrow'[id] = escrow[id]
        /\ escrow'[nextId].amount = 0 /\ escrow'[nextId].status = "Funded"
        /\ pooled' = Put(pooled, nextId, p) /\ pooled'[nextId] \in PooledData
        /\ contribution' = contribution
    BY <1>1, <2>1, PoolEffect
  <2> HIDE DEF p
  <2>3. CASE x = nextId
    <3>1. \A a \in Addr : Recorded(x, a)'.amount = 0
      <4>1. \A a \in Addr : <<x, a>> \notin DOMAIN contribution'
        BY <1>1, <2>2, <2>3
      <4> QED BY <4>1 DEF Recorded
    <3>2. [a \in Addr |-> Unclaimed(x, a)]' = [a \in Addr |-> 0]
      BY <3>1 DEF Unclaimed
    <3>3. Total([a \in Addr |-> 0]) = 0
      <4> DEFINE zero == [a \in Addr |-> 0]
      <4>1. zero \in [Addr -> Nat] /\ zero[Contract] = 0 /\ \A a \in Addr : zero[a] = 0
        BY PartiesAssumption
      <4> HIDE DEF zero
      <4>2. Total(zero) = zero[Contract]
        BY <4>1, TotalPoint, PartiesAssumption
      <4> QED BY <4>1, <4>2 DEF zero
    <3>4. Total([a \in Addr |-> Unclaimed(x, a)])' = 0
      BY <3>2, <3>3 DEF Total, Coins
    <3>5. 0 <= pooled'[x].funding_target
      BY <2>2, <2>3, LimitsAssumption DEF PooledData, Amount
    <3> QED BY <2>2, <2>3, <3>4, <3>5 DEF PoolHolds
  <2>4. CASE x # nextId
    <3>1. x \in DOMAIN pooled /\ pooled'[x] = pooled[x]
      BY <2>2, <2>4 DEF Put
    <3> QED BY <1>1, <2>2, <3>1, PoolFrame, RecordsKept
  <2> QED BY <2>3, <2>4
<1>5. CASE \E id \in Ids, a \in Addr, amount \in Int : DepositStep(id, a, amount)
  <2>1. PICK id \in Ids, a \in Addr, amount \in Int : DepositStep(id, a, amount)
    BY <1>5
  <2>2. /\ escrow' = [escrow EXCEPT ![id].amount = @ + amount]
        /\ pooled' = pooled /\ amount \in Nat /\ Funded(id)
    BY <1>1, <2>1, DepositEffect
  <2>3. CASE x # id
    <3>1. escrow'[x] = escrow[x]
      BY <1>1, <2>2, <2>3
    <3>2. \A b \in Addr : Recorded(x, b)' = Recorded(x, b)
      <4>1. CASE Contribute(id, a, amount)
        <5>1. PICK r : contribution' = Put(contribution, <<id, a>>, r)
          BY <4>1 DEF Contribute
        <5> QED BY <2>3, <5>1, OtherRecords
      <4>2. CASE TopUp(id, a, amount)
        BY <4>2, RecordsKept DEF TopUp
      <4> QED BY <2>1, <4>1, <4>2 DEF DepositStep
    <3> QED BY <1>1, <2>2, <3>1, <3>2, PoolFrame
  <2>4. CASE x = id
    <3>1. Contribute(id, a, amount)
      BY <2>1, <2>2, <2>4 DEF DepositStep, TopUp, IsPooled
    <3>2. PICK r : r = [Recorded(id, a) EXCEPT !.amount = @ + amount]
      OBVIOUS
    <3>3. /\ contribution' = Put(contribution, <<id, a>>, r)
          /\ amount <= pooled[id].funding_target - escrow[id].amount
          /\ FundingOpen(id)
      BY <3>1, <3>2 DEF Contribute
    <3>4. /\ Recorded(id, a)' = r
          /\ \A b \in Addr \ {a} : Recorded(id, b)' = Recorded(id, b)
      BY <3>3, OtherRecords
    <3>5. /\ Recorded(id, a) \in Contribution /\ Recorded(id, a).amount \in Nat
          /\ ~Recorded(id, a).refunded
      <4>1. id \in DOMAIN pooled
        BY <2>2, <2>4
      <4> QED BY <1>1, <3>3, <4>1, RecordedType
    <3>6. r.refunded = Recorded(id, a).refunded /\ r.amount = Recorded(id, a).amount + amount
      BY <3>2, <3>5 DEF Contribution
    <3>7. Unclaimed(id, a)' = Unclaimed(id, a) + amount
      BY <3>4, <3>5, <3>6 DEF Unclaimed
    <3>8. escrow[id].amount \in Nat /\ escrow'[id].amount = escrow[id].amount + amount
      BY <1>1, <2>2 DEF EscrowData, Amount
    <3>9. /\ escrow'[id].amount - escrow[id].amount = Unclaimed(id, a)' - Unclaimed(id, a)
          /\ escrow'[id].amount <= pooled[id].funding_target
      <4>1. pooled[id].funding_target \in Nat /\ Unclaimed(id, a) \in Nat
        BY <1>1, <2>2, <2>4, RecordedType, LimitsAssumption DEF PooledData, Amount
      <4> QED BY <2>2, <3>3, <3>7, <3>8, <4>1
    <3>10. id \in DOMAIN pooled
      BY <2>2, <2>4
    <3> QED BY <1>1, <2>2, <2>4, <3>4, <3>9, <3>10, PoolMoves
  <2> QED BY <2>3, <2>4
<1>6. CASE \E id \in Ids, a \in Addr : ClaimRefund(id, a)
  <2>1. PICK id \in Ids, a \in Addr : ClaimRefund(id, a)
    BY <1>6
  <2>2. /\ Funded(id) /\ id \in DOMAIN pooled /\ <<id, a>> \in DOMAIN contribution
        /\ Unclaimed(id, a) <= escrow[id].amount
        /\ escrow' = [escrow EXCEPT ![id].amount = @ - Unclaimed(id, a)]
        /\ contribution' = [contribution EXCEPT ![<<id, a>>].refunded = TRUE]
        /\ pooled' = pooled
    BY <1>1, <2>1, ClaimEffect
  <2>3. PICK r : r = [contribution[<<id, a>>] EXCEPT !.refunded = TRUE]
    OBVIOUS
  <2>4. contribution' = Put(contribution, <<id, a>>, r)
    BY <2>2, <2>3, PutExisting
  <2>5. /\ Recorded(id, a)' = r
        /\ \A y, b : <<y, b>> # <<id, a>> => Recorded(y, b)' = Recorded(y, b)
    BY <2>4, OtherRecords
  <2>6. CASE x # id
    <3>1. escrow'[x] = escrow[x] /\ \A b \in Addr : Recorded(x, b)' = Recorded(x, b)
      BY <1>1, <2>2, <2>5, <2>6
    <3> QED BY <1>1, <2>2, <3>1, PoolFrame
  <2>7. CASE x = id
    <3>1. r.refunded
      BY <1>1, <2>2, <2>3 DEF Contribution
    <3>2. Unclaimed(id, a)' = 0
      BY <2>5, <3>1 DEF Unclaimed
    <3>3. /\ escrow[id].amount \in Nat /\ Unclaimed(id, a) \in Nat
          /\ escrow'[id].amount = escrow[id].amount - Unclaimed(id, a)
          /\ escrow[id].amount <= pooled[id].funding_target
          /\ pooled[id].funding_target \in Nat
      <4>1. escrow[id].amount \in Nat
        BY <1>1 DEF EscrowData, Amount
      <4>2. pooled[id] \in PooledData
        BY <1>1, <2>2
      <4>3. pooled[id].funding_target \in Nat
        BY <4>2 DEF PooledData, Amount
      <4>4. escrow[id].amount <= pooled[id].funding_target
        BY <1>1, <2>2 DEF PoolExact
      <4>5. escrow'[id].amount = escrow[id].amount - Unclaimed(id, a)
        BY <1>1, <2>2 DEF EscrowData
      <4> QED BY <1>1, <4>1, <4>3, <4>4, <4>5, RecordedType
    <3>4. /\ escrow'[id].amount - escrow[id].amount = Unclaimed(id, a)' - Unclaimed(id, a)
          /\ escrow'[id].amount <= pooled[id].funding_target
      BY <3>2, <3>3
    <3> QED BY <1>1, <2>2, <2>5, <2>7, <3>4, PoolMoves
  <2> QED BY <2>6, <2>7
<1>7. CASE \E id \in Ids, a \in Addr, b \in Addr : EditStep(id, a, b)
  <2>1. /\ \A y \in Ids : /\ escrow'[y].amount = escrow[y].amount
                          /\ escrow'[y].status = escrow[y].status
        /\ pooled' = pooled /\ contribution' = contribution
    BY <1>1, <1>7, EditEffect
  <2> QED BY <1>1, <2>1, PoolFrame, RecordsKept
<1>8. CASE SettleStep
  <2>1. PICK ids \in SUBSET Ids : \E to \in [ids -> Terminal] : Settled(ids, to)
    BY <1>1, <1>8, SettleStepEffect
  <2>2. PICK to \in [ids -> Terminal] : Settled(ids, to)
    BY <2>1
  <2>3. /\ escrow' = [id \in Ids |-> IF id \in ids THEN [escrow[id] EXCEPT !.status = to[id]]
                                    ELSE escrow[id]]
        /\ pooled' = pooled /\ contribution' = contribution
    BY <2>2 DEF Settled
  <2>4. x \in Ids /\ escrow[x] \in EscrowData
    BY <1>1, <2>3
  <2>5. x \in ids => escrow'[x].status # "Funded"
    BY <2>3, <2>4 DEF Terminal, EscrowData
  <2>6. escrow'[x].amount = escrow[x].amount
    BY <2>3, <2>4 DEF EscrowData
  <2>7. escrow'[x].status = "Funded" => escrow[x].status = "Funded"
    BY <2>3, <2>4, <2>5
  <2> QED BY <1>1, <2>3, <2>6, <2>7, PoolFrame, RecordsKept
<1>9. CASE UNCHANGED <<escrow, pooled, contribution>>
  BY <1>1, <1>9, PoolFrame, RecordsKept
<1>10. CASE \E caller \in Addr : Pause(caller) \/ Unpause(caller)
  BY <1>9, <1>10 DEF Pause, Unpause, books
<1>11. CASE Environment
  BY <1>1, <1>9, <1>11, EnvironmentEffect
<1> QED
  BY <1>1, <1>3, <1>4, <1>5, <1>6, <1>7, <1>8, <1>10, <1>11, StepKinds DEF DepositStep

\* Nothing is claimed back from a round that is open.
LEMMA ClaimsStep ==
  ASSUME Accounted, Next
  PROVE  ClaimsWait'
<1>1. /\ TypeOK /\ PoolExact /\ DOMAIN pooled \subseteq Ids
      /\ now \in Nat /\ nextId \in Nat /\ Ids = 0..(nextId - 1)
      /\ DOMAIN contribution \subseteq (DOMAIN pooled) \X (Addr \ {Contract})
      /\ \A id \in DOMAIN pooled : pooled[id].funding_deadline \in Nat
      /\ \A id \in DOMAIN pooled : FundingOpen(id) => \A a \in Addr : ~Recorded(id, a).refunded
  BY DEF Accounted, TypeOK, Ids, ClaimsWait, PooledData
<1>2. CASE contribution' = contribution /\ pooled' = pooled /\ now' \in Nat /\ now' >= now
  <2>1. \A id \in DOMAIN pooled : FundingOpen(id)' => FundingOpen(id)
    BY <1>1, <1>2 DEF FundingOpen
  <2> QED BY <1>1, <1>2, <2>1, RecordsKept DEF ClaimsWait
<1>3. CASE CreateStep
  <2>1. PICK payer \in Addr, reqs \in Seq(Request) :
          reqs # <<>> /\ CreateEscrowInner(payer, reqs)
    BY <1>3 DEF CreateStep
  <2>2. UNCHANGED <<now, pooled, contribution>>
    BY <2>1 DEF CreateEscrowInner
  <2> QED BY <1>1, <1>2, <2>2
<1>4. CASE \E req \in PoolRequest : CreatePooledEscrow(req)
  <2>1. PICK n, p : /\ n = nextId /\ pooled' = Put(pooled, n, p)
                    /\ UNCHANGED <<now, contribution>>
    BY <1>4 DEF CreatePooledEscrow
  <2>2. ASSUME NEW id \in DOMAIN pooled', FundingOpen(id)', NEW a \in Addr
        PROVE  ~Recorded(id, a)'.refunded
    <3>1. CASE id = n
      <4>1. <<id, a>> \notin DOMAIN contribution'
        BY <1>1, <2>1, <3>1
      <4> QED BY <4>1 DEF Recorded
    <3>2. CASE id # n
      <4>1. id \in DOMAIN pooled /\ pooled'[id] = pooled[id]
        BY <2>1, <3>2 DEF Put
      <4>2. FundingOpen(id)
        BY <2>1, <2>2, <4>1 DEF FundingOpen
      <4> QED BY <1>1, <2>1, <4>1, <4>2, RecordsKept
    <3> QED BY <3>1, <3>2
  <2> QED BY <2>2 DEF ClaimsWait
<1>5. CASE \E id \in Ids, a \in Addr, amount \in Int : Contribute(id, a, amount)
  <2>1. PICK id \in Ids, a \in Addr, amount \in Int : Contribute(id, a, amount)
    BY <1>5
  <2>2. PICK r : r = [Recorded(id, a) EXCEPT !.amount = @ + amount]
    OBVIOUS
  <2>3. /\ contribution' = Put(contribution, <<id, a>>, r) /\ UNCHANGED <<now, pooled>>
        /\ id \in DOMAIN pooled /\ FundingOpen(id)
    BY <2>1, <2>2 DEF Contribute, IsPooled
  <2>4. ~r.refunded
    BY <1>1, <2>2, <2>3, RecordedType DEF Contribution
  <2>5. /\ Recorded(id, a)' = r
        /\ \A x, b : <<x, b>> # <<id, a>> => Recorded(x, b)' = Recorded(x, b)
    BY <2>3, OtherRecords
  <2>6. ASSUME NEW x \in DOMAIN pooled', FundingOpen(x)', NEW b \in Addr
        PROVE  ~Recorded(x, b)'.refunded
    <3>1. x \in DOMAIN pooled /\ FundingOpen(x)
      BY <2>3, <2>6 DEF FundingOpen
    <3>2. CASE <<x, b>> = <<id, a>>
      BY <2>4, <2>5, <3>2
    <3>3. CASE <<x, b>> # <<id, a>>
      BY <1>1, <2>5, <3>1, <3>3
    <3> QED BY <3>2, <3>3
  <2> QED BY <2>6 DEF ClaimsWait
<1>6. CASE \E id \in Ids, a \in Addr, amount \in Int : TopUp(id, a, amount)
  BY <1>1, <1>2, <1>6 DEF TopUp
<1>7. CASE \E id \in Ids, a \in Addr : ClaimRefund(id, a)
  <2>1. PICK id \in Ids, a \in Addr : ClaimRefund(id, a)
    BY <1>7
  <2>2. /\ <<id, a>> \in DOMAIN contribution /\ ~FundingOpen(id)
        /\ contribution' = [contribution EXCEPT ![<<id, a>>].refunded = TRUE]
        /\ UNCHANGED <<now, pooled>>
    BY <2>1 DEF ClaimRefund
  <2>3. PICK r : r = [contribution[<<id, a>>] EXCEPT !.refunded = TRUE]
    OBVIOUS
  <2>4. contribution' = Put(contribution, <<id, a>>, r)
    BY <2>2, <2>3, PutExisting
  <2>5. \A x, b : <<x, b>> # <<id, a>> => Recorded(x, b)' = Recorded(x, b)
    BY <2>4, OtherRecords
  <2>6. ASSUME NEW x \in DOMAIN pooled', FundingOpen(x)', NEW b \in Addr
        PROVE  ~Recorded(x, b)'.refunded
    <3>1. x \in DOMAIN pooled /\ FundingOpen(x) /\ x # id
      BY <2>2, <2>6 DEF FundingOpen
    <3> QED BY <1>1, <2>5, <3>1
  <2> QED BY <2>6 DEF ClaimsWait
<1>8. CASE \E id \in Ids, a \in Addr, b \in Addr : EditStep(id, a, b)
  BY <1>1, <1>2, <1>8, EditEffect
<1>9. CASE SettleStep
  <2>1. UNCHANGED <<now, pooled, contribution>>
    BY <1>1, <1>9, SettleStepEffect DEF Settled
  <2> QED BY <1>1, <1>2, <2>1
<1>10. CASE \E caller \in Addr : Pause(caller) \/ Unpause(caller)
  BY <1>1, <1>2, <1>10 DEF Pause, Unpause, books
<1>11. CASE Environment
  BY <1>1, <1>2, <1>11, EnvironmentEffect
<1> QED
  BY <1>1, <1>3, <1>4, <1>5, <1>6, <1>7, <1>8, <1>9, <1>10, <1>11, StepKinds

\* The books are empty at first, so everything is accounted for.
LEMMA AccountedInit == Init => Accounted
<1> SUFFICES ASSUME Init PROVE Accounted
  OBVIOUS
<1> USE PartiesAssumption, LimitsAssumption, InputsAssumption
<1>1. Ids = {} /\ DOMAIN <<>> = {}
  BY DEF Init, Ids
<1>2. TypeOK
  <2>1. escrow \in [Ids -> EscrowData] /\ status \in [Ids -> EscrowStatus]
    BY <1>1 DEF Init
  <2>2. liability \in [Tokens -> Amount] /\ balance \in [Tokens -> [Addr -> Int]]
    BY DEF Init, Amount
  <2> QED BY <1>1, <2>1, <2>2 DEF Init, TypeOK
<1>3. StatusMirrors /\ ClaimsWait /\ PoolExact
  BY <1>1 DEF Init, StatusMirrors, ClaimsWait, PoolExact
<1> QED BY <1>2, <1>3 DEF Accounted

\* Every step keeps everything accounted for.
LEMMA AccountedStep == Accounted /\ [Next]_vars => Accounted'
<1> SUFFICES ASSUME Accounted, [Next]_vars PROVE Accounted'
  OBVIOUS
<1>1. CASE Next
  BY <1>1, TypeStep, StatusStep, ClaimsStep, PoolStep DEF Accounted
<1>2. CASE UNCHANGED vars
  <2>1. UNCHANGED <<now, paused, nextId, escrow, status, pooled, contribution, liability,
                    balance, frozen, broken, auth>>
    BY <1>2 DEF vars, books, world
  <2>2. Ids' = Ids
    BY <2>1 DEF Ids
  <2>3. TypeOK'
    BY <2>1, <2>2 DEF Accounted, TypeOK
  <2>4. StatusMirrors' /\ ClaimsWait'
    BY <2>1, <2>2 DEF Accounted, StatusMirrors, ClaimsWait, FundingOpen, Recorded
  <2>5. PoolExact'
    <3>1. ASSUME NEW id \in DOMAIN pooled' PROVE PoolHolds(id)'
      BY <2>1, <2>3, PoolFrame, RecordsKept DEF Accounted
    <3> QED BY <3>1 DEF PoolExact, PoolHolds
  <2> QED BY <2>3, <2>4, <2>5 DEF Accounted
<1> QED BY <1>1, <1>2

\* Everything stays accounted for: the inductive invariant of the contract.
THEOREM AccountedAlways == Spec => []Accounted
  BY AccountedInit, AccountedStep, PTL DEF Spec

\* Whatever is called, in whatever order, every stored record keeps its type:
\* no amount leaves the i128 range, no id is handed out without its records.
THEOREM TypeCorrect == Spec => []TypeOK
<1>1. Accounted => TypeOK
  BY DEF Accounted
<1> QED BY <1>1, AccountedAlways, PTL

\* For any number of contributors and pools a funded pool holds exactly what
\* its contributors have not claimed back, and never more than its target.
THEOREM PoolAccounting == Spec => []PoolExact
<1>1. Accounted => PoolExact
  BY DEF Accounted
<1> QED BY <1>1, AccountedAlways, PTL
=============================================================================
