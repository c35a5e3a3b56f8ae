-------------------------- MODULE EscrowMoneyProofs --------------------------
(* The accounting of the escrow contract, on top of its inductive invariant: *)
(* solvency, the exactness of the liability counter, what leaves the         *)
(* contract and who gets it; that no arithmetic stands in the way of a       *)
(* settlement or a claim; and that the contract implements EscrowPromise for *)
(* any number of parties, tokens and escrows.                                *)
EXTENDS EscrowFinalityProofs, EscrowRefinement

\* No step pays out more of a token nobody claws back than it stops owing: an
\* exact transfer raises balance and debt alike, a settlement or a claim takes
\* no more than it was due.
LEMMA OutflowStep ==
  ASSUME Accounted, Next, NEW t \in Tokens \ ClawbackTokens
  PROVE  /\ balance[t][Contract] \in Int /\ balance'[t][Contract] \in Int
         /\ liability[t] \in Int /\ liability'[t] \in Int
         /\ balance'[t][Contract] - balance[t][Contract] >= liability'[t] - liability[t]
<1>1. /\ TypeOK /\ PoolExact
      /\ balance[t][Contract] \in Int /\ liability[t] \in Int
      /\ balance'[t][Contract] \in Int /\ liability'[t] \in Int
  BY TypeStep, PartiesAssumption DEF Accounted, TypeOK, Amount
<1>2. CASE \E d \in Int : /\ liability'[t] = liability[t] + d
                          /\ balance'[t][Contract] >= balance[t][Contract] + d
  BY <1>1, <1>2
<1>3. CASE UNCHANGED <<liability, balance>>
  BY <1>1, <1>3
<1>4. CASE CreateStep
  <2>1. PICK payer \in Addr, reqs \in Seq(Request) :
          reqs # <<>> /\ CreateEscrowInner(payer, reqs)
    BY <1>4 DEF CreateStep
  <2>2. /\ liability'[t] = liability[t] + Deposit(reqs)[t]
        /\ balance'[t][Contract] = balance[t][Contract] + Deposit(reqs)[t]
        /\ \A i \in DOMAIN reqs : reqs[i].amount \in Nat
    BY <1>1, <2>1, CreateEffect
  <2>3. Deposit(reqs) \in [Tokens -> Nat]
    BY <2>2, DepositType
  <2> QED BY <1>1, <1>2, <2>2, <2>3
<1>5. CASE \E req \in PoolRequest : CreatePooledEscrow(req)
  BY <1>3, <1>5 DEF CreatePooledEscrow
<1>6. CASE \E id \in Ids, a \in Addr, amount \in Int : DepositStep(id, a, amount)
  <2>1. PICK id \in Ids, a \in Addr, amount \in Int : DepositStep(id, a, amount)
    BY <1>6
  <2>2. /\ amount \in Nat /\ liability'[t] = liability[t] + Just(escrow[id].token, amount)[t]
        /\ balance'[t][Contract] = balance[t][Contract] + Just(escrow[id].token, amount)[t]
    BY <1>1, <2>1, DepositEffect
  <2>3. Just(escrow[id].token, amount)[t] \in Int
    BY <2>2 DEF Just
  <2> QED BY <1>1, <1>2, <2>2, <2>3
<1>7. CASE \E id \in Ids, a \in Addr : ClaimRefund(id, a)
  <2>1. PICK id \in Ids, a \in Addr : ClaimRefund(id, a)
    BY <1>7
  <2> DEFINE d(u) == Just(escrow[id].token, Unclaimed(id, a))[u]
  <2>2. \A u \in Tokens : /\ liability'[u] = liability[u] - d(u)
                          /\ balance'[u][Contract] = balance[u][Contract] - d(u)
    BY <1>1, <2>1, ClaimEffect
  <2>3. d(t) \in Int
    <3>1. Unclaimed(id, a) \in Nat
      BY <1>1, RecordedType
    <3> QED BY <3>1 DEF Just
  <2> HIDE DEF d
  <2> QED BY <1>1, <2>2, <2>3
<1>8. CASE \E id \in Ids, a \in Addr, b \in Addr : EditStep(id, a, b)
  BY <1>3, <1>8 DEF EditStep, Accept, RotateReleaser, TransferPayee
<1>9. CASE SettleStep
  <2>1. PICK ids \in SUBSET Ids : \E to \in [ids -> Terminal] : Settled(ids, to)
    BY <1>1, <1>9, SettleStepEffect
  <2>2. PICK to \in [ids -> Terminal] : Settled(ids, to)
    BY <2>1
  <2>3. /\ liability'[t] = liability[t] - Due(to, t)
        /\ balance'[t][Contract] >= balance[t][Contract] - Due(to, t)
    BY <2>2 DEF Settled
  <2>4. Due(to, t) \in Int
    BY <1>1, <2>2, DueType
  <2> QED BY <1>1, <2>3, <2>4
<1>10. CASE \E caller \in Addr : Pause(caller) \/ Unpause(caller)
  BY <1>3, <1>10 DEF Pause, Unpause, books
<1>11. CASE Environment
  BY <1>1, <1>11, EnvironmentEffect
<1> QED
  BY <1>1, <1>4, <1>5, <1>6, <1>7, <1>8, <1>9, <1>10, <1>11, StepKinds DEF DepositStep

\* A debt that is covered stays covered.
LEMMA SolventStep ==
  ASSUME Accounted, Solvent, Next
  PROVE  Solvent'
<1>1. SUFFICES ASSUME NEW t \in Tokens \ ClawbackTokens, balance[t][Contract] >= liability[t]
               PROVE  balance'[t][Contract] >= liability'[t]
  BY DEF Solvent
<1>2. /\ balance[t][Contract] \in Int /\ balance'[t][Contract] \in Int
      /\ liability[t] \in Int /\ liability'[t] \in Int
      /\ balance'[t][Contract] - balance[t][Contract] >= liability'[t] - liability[t]
  BY OutflowStep
<1> QED BY <1>1, <1>2

\* For every token nobody claws back, and whatever the other tokens do: money
\* leaves the contract only against a debt that is settled in the same step.
THEOREM OutflowsAreDebts == Spec => OutflowIsDebt
<1>1. ASSUME Accounted, Next, NEW t \in Tokens \ ClawbackTokens
      PROVE  balance[t][Contract] - balance'[t][Contract] <= liability[t] - liability'[t]
  <2>1. /\ balance[t][Contract] \in Int /\ balance'[t][Contract] \in Int
        /\ liability[t] \in Int /\ liability'[t] \in Int
        /\ balance'[t][Contract] - balance[t][Contract] >= liability'[t] - liability[t]
    BY <1>1, OutflowStep
  <2> QED BY <2>1
<1>2. ASSUME Accounted, [Next]_vars
      PROVE  [\A t \in Tokens \ ClawbackTokens :
                balance'[t][Contract] < balance[t][Contract] =>
                  balance[t][Contract] - balance'[t][Contract] <= liability[t] - liability'[t]]_vars
  BY <1>1, <1>2
<1> QED BY <1>2, AccountedAlways, PTL DEF Spec, OutflowIsDebt

\* solvency(token) for any number of escrows, tokens and parties: whatever is
\* called and however other tokens misbehave, the contract holds at least what
\* it owes in every token that is not clawed back.
THEOREM Solvency == Spec => []Solvent
<1>1. Init => Solvent
  BY PartiesAssumption, InputsAssumption DEF Init, Solvent
<1>2. Solvent /\ Accounted /\ [Next]_vars => Solvent'
  <2>1. ASSUME Solvent, UNCHANGED vars PROVE Solvent'
    BY <2>1 DEF vars, books, Solvent
  <2> QED BY <2>1, SolventStep
<1> QED BY <1>1, <1>2, AccountedAlways, PTL DEF Spec
-----------------------------------------------------------------------------
(* The counter and the sum it stands for.                                    *)

\* The sum that the counter of token t must equal, over the ids handed out.
OwedOf(t) == [id \in Ids |-> Owed(id, t)]

\* What is owed is a natural number for each of finitely many escrows.
LEMMA OwedType ==
  ASSUME TypeOK, NEW t
  PROVE  IsFiniteSet(Ids) /\ OwedOf(t) \in [Ids -> Nat]
<1>1. IsFiniteSet(Ids)
  BY FS_Interval DEF TypeOK, Ids
<1>2. \A id \in Ids : Owed(id, t) \in Nat
  BY LimitsAssumption DEF TypeOK, EscrowData, Amount, Owed
<1> QED BY <1>1, <1>2 DEF OwedOf

\* The counter is exact if it equals that sum.
LEMMA LiabilityIsTotal ==
  ASSUME TypeOK
  PROVE  LiabilityExact <=> \A t \in Tokens : liability[t] = Total(OwedOf(t))
<1>1. DOMAIN status = Ids
  BY DEF TypeOK
<1> QED BY <1>1 DEF LiabilityExact, OwedOf

\* If one escrow comes to owe d more, so does the sum.
LEMMA OwedMoves ==
  ASSUME TypeOK, TypeOK', nextId' = nextId, NEW t \in Tokens, NEW id \in Ids, NEW d \in Int,
         \A x \in Ids \ {id} : Owed(x, t)' = Owed(x, t),
         Owed(id, t)' = Owed(id, t) + d
  PROVE  Total(OwedOf(t))' = Total(OwedOf(t)) + d
<1> DEFINE f == OwedOf(t)
           g == [x \in Ids |-> Owed(x, t)']
<1>1. Ids' = Ids
  BY DEF Ids
<1>2. IsFiniteSet(Ids) /\ f \in [Ids -> Nat]
  BY OwedType
<1>3. g \in [Ids -> Nat]
  <2>1. \A x \in Ids : Owed(x, t)' \in Nat
    BY <1>1, LimitsAssumption DEF TypeOK, EscrowData, Amount, Owed
  <2> QED BY <2>1
<1>4. (\A x \in Ids \ {id} : f[x] = g[x]) /\ f[id] = Owed(id, t) /\ g[id] = Owed(id, t)'
  BY DEF OwedOf
<1>5. Total(OwedOf(t))' = Total(g)
  BY <1>1 DEF OwedOf, Total, Coins
<1> HIDE DEF f, g
<1>6. Total(f) - f[id] = Total(g) - g[id] /\ Total(f) \in Nat /\ Total(g) \in Nat
  <2>1. f \in [Ids -> Int] /\ g \in [Ids -> Int]
    BY <1>2, <1>3
  <2> QED BY <1>2, <1>3, <1>4, <2>1, TotalChange, TotalType
<1>7. Total(g) = Total(f) + d
  BY <1>2, <1>3, <1>4, <1>6
<1> QED BY <1>5, <1>7 DEF f

\* A creation adds to the sum what it deposits.
LEMMA OwedGrows ==
  ASSUME TypeOK, NEW payer \in Addr, NEW reqs \in Seq(Request), reqs # <<>>,
         CreateEscrowInner(payer, reqs), NEW t \in Tokens
  PROVE  Total(OwedOf(t))' = Total(OwedOf(t)) + Deposit(reqs)[t]
<1> DEFINE n == Len(reqs)
           f == OwedOf(t)
           new == nextId..(nextId + n - 1)
           both == Ids \cup new
           g == [id \in both |-> Owed(id, t)']
           asked == [i \in DOMAIN reqs |-> IF reqs[i].token = t THEN reqs[i].amount ELSE 0]
           index == [id \in new |-> id - nextId + 1]
<1>1. /\ n \in Nat \ {0} /\ nextId' = nextId + n
      /\ \A id \in Ids : escrow'[id] = escrow[id] /\ status'[id] = status[id]
      /\ \A id \in new : /\ escrow'[id].token = reqs[id - nextId + 1].token
                         /\ escrow'[id].amount = reqs[id - nextId + 1].amount
                         /\ status'[id] = "Funded"
      /\ \A i \in DOMAIN reqs : reqs[i].amount \in Nat
  BY CreateEffect
<1>2. nextId \in Nat /\ Ids = 0..(nextId - 1) /\ DOMAIN reqs = 1..n
  BY LenProperties DEF TypeOK, Ids
<1>3. /\ Ids' = Ids \cup new /\ Ids \cap new = {}
      /\ \A id \in new : id - nextId + 1 \in 1..n
  BY <1>1, <1>2 DEF Ids
<1>4. \A id \in Ids : Owed(id, t)' = Owed(id, t)
  BY <1>1 DEF Owed
<1>5. \A id \in new : Owed(id, t)' = asked[index[id]]
  BY <1>1, <1>2, <1>3 DEF Owed
<1>6. IsFiniteSet(Ids) /\ f \in [Ids -> Nat] /\ asked \in [DOMAIN reqs -> Nat]
  <2>1. IsFiniteSet(Ids) /\ f \in [Ids -> Nat]
    BY OwedType
  <2>2. \A i \in DOMAIN reqs : asked[i] \in Nat
    BY <1>1
  <2>3. asked \in [DOMAIN reqs -> Nat]
    BY <2>2
  <2> HIDE DEF f, asked
  <2> QED BY <2>1, <2>3
<1>7. \A id \in new : Owed(id, t)' \in Nat
  <2>1. ASSUME NEW id \in new PROVE asked[index[id]] \in Nat
    <3>1. index[id] \in DOMAIN reqs
      BY <1>2, <1>3, <2>1
    <3> HIDE DEF asked, index
    <3> QED BY <1>6, <3>1
  <2> HIDE DEF asked, index, new
  <2> QED BY <1>5, <2>1
<1>8. \A id \in Ids : Owed(id, t) \in Nat /\ f[id] = Owed(id, t)
  BY <1>6 DEF OwedOf
<1>9. g \in [Ids \cup new -> Int]
  <2>1. \A id \in both : Owed(id, t)' \in Int
    BY <1>4, <1>7, <1>8
  <2> QED BY <2>1
<1>10. IsFiniteSet(new)
  <2>1. nextId \in Int /\ nextId + n - 1 \in Int
    BY <1>1, <1>2
  <2> QED BY <2>1, FS_Interval
<1>11. index \in Bijection(new, DOMAIN reqs)
  <2>1. index \in [new -> 1..n]
    BY <1>3
  <2>2. \A x, y \in new : index[x] = index[y] => x = y
    BY <1>1, <1>2
  <2>3. \A i \in 1..n : i + nextId - 1 \in new /\ index[i + nextId - 1] = i
    BY <1>1, <1>2
  <2> HIDE DEF index, new
  <2> QED BY <1>2, <2>1, <2>2, <2>3 DEF Bijection, Injection, IsInjective, Surjection
<1>12. Extends(g, f, asked, index, Ids, new, DOMAIN reqs)
  <2>1. \A id \in Ids : g[id] = f[id]
    BY <1>4, <1>8
  <2>2. \A id \in new : g[id] = asked[index[id]]
    BY <1>5
  <2>3. f \in [Ids -> Int] /\ asked \in [DOMAIN reqs -> Int]
    BY <1>6
  <2> HIDE DEF n, f, both, new, g, asked, index
  <2> QED BY <1>3, <1>6, <1>9, <1>10, <1>11, <2>1, <2>2, <2>3 DEF Extends
<1>13. Total(OwedOf(t))' = Total(g)
  BY <1>3 DEF OwedOf, Total, Coins
<1>14. Deposit(reqs)[t] = Total(asked)
  BY DEF Deposit
<1>15. Total(g) = Total(f) + Total(asked)
  <2> HIDE DEF f, g, asked, index, new
  <2> QED BY <1>12, TotalExtend
<1> QED BY <1>13, <1>14, <1>15

\* A new escrow that holds nothing adds nothing to the sum.
LEMMA OwedKept ==
  ASSUME TypeOK, Ids \subseteq Ids', NEW t \in Tokens,
         \A x \in Ids : Owed(x, t)' = Owed(x, t),
         \A x \in Ids' \ Ids : Owed(x, t)' = 0
  PROVE  Total(OwedOf(t))' = Total(OwedOf(t))
<1>1. PICK I, J : I = Ids /\ J = Ids'
  OBVIOUS
<1>2. PICK f, g : f = OwedOf(t) /\ g = [x \in J |-> Owed(x, t)']
  OBVIOUS
<1>3. I \subseteq J
  BY <1>1
<1>4. f \in [I -> Nat] /\ \A x \in I : f[x] = Owed(x, t)
  <2>1. f \in [I -> Nat]
    BY <1>1, <1>2, OwedType
  <2> QED BY <1>1, <1>2, <2>1 DEF OwedOf
<1>5. \A x \in J : Owed(x, t)' = IF x \in I THEN f[x] ELSE 0
  BY <1>1, <1>4
<1>6. /\ f \in [I -> Int] /\ g \in [J -> Int]
      /\ \A x \in I \cap J : f[x] = g[x]
      /\ \A x \in I \ J : f[x] = 0
      /\ \A x \in J \ I : g[x] = 0
  BY <1>2, <1>3, <1>4, <1>5
<1>7. Total(f) = Total(g)
  <2>1. ASSUME NEW c PROVE c \in Coins(f) <=> c \in Coins(g)
    <3>1. c \in Coins(f) <=> \E x \in I, k \in Nat : c = <<x, k>> /\ 1 <= k /\ k <= f[x]
      BY <1>6, CoinsMember
    <3>2. c \in Coins(g) <=> \E x \in J, k \in Nat : c = <<x, k>> /\ 1 <= k /\ k <= g[x]
      BY <1>6, CoinsMember
    <3> QED BY <1>3, <1>6, <3>1, <3>2
  <2>2. Coins(f) = Coins(g)
    BY <2>1, Zenon
  <2> QED BY <2>2 DEF Total
<1>8. Total(OwedOf(t))' = Total(g)
  <2>1. OwedOf(t)' = g
    BY <1>1, <1>2 DEF OwedOf
  <2> QED BY <2>1 DEF Total, Coins
<1> QED BY <1>2, <1>7, <1>8

\* A settlement takes from the sum what was due.
LEMMA OwedSettles ==
  ASSUME TypeOK, StatusMirrors, NEW ids \in SUBSET Ids, NEW to \in [ids -> Terminal],
         \A id \in ids : Funded(id), Settled(ids, to), NEW t \in Tokens
  PROVE  Total(OwedOf(t))' = Total(OwedOf(t)) - Due(to, t)
<1> DEFINE f == OwedOf(t)
           g == [x \in Ids |-> Owed(x, t)']
           h == [x \in Ids |-> IF x \in ids /\ escrow[x].token = t THEN escrow[x].amount ELSE 0]
           due == [x \in ids |-> IF escrow[x].token = t THEN escrow[x].amount ELSE 0]
<1>1. IsFiniteSet(Ids) /\ f \in [Ids -> Nat]
  BY OwedType
<1>2. \A x \in Ids : escrow[x].amount \in Nat
  BY LimitsAssumption DEF TypeOK, EscrowData, Amount
<1>3. h \in [Ids -> Nat] /\ due \in [ids -> Nat]
  BY <1>2
<1>4. ASSUME NEW x \in Ids
      PROVE  /\ Owed(x, t)' = IF x \in ids THEN 0 ELSE Owed(x, t)
             /\ Owed(x, t) = Owed(x, t)' + h[x]
  <2>1. /\ escrow'[x] = IF x \in ids THEN [escrow[x] EXCEPT !.status = to[x]] ELSE escrow[x]
        /\ status'[x] = IF x \in ids THEN to[x] ELSE status[x]
    BY DEF Settled
  <2>2. CASE x \in ids
    <3>1. status[x] = "Funded" /\ to[x] # "Funded"
      BY <2>2 DEF StatusMirrors, Funded, Terminal
    <3> QED BY <1>2, <2>1, <2>2, <3>1 DEF Owed
  <2>3. CASE x \notin ids
    <3>1. Owed(x, t)' = Owed(x, t)
      BY <2>1, <2>3 DEF Owed
    <3>2. Owed(x, t) \in Nat
      BY <1>2 DEF Owed
    <3> QED BY <2>3, <3>1, <3>2
  <2> QED BY <2>2, <2>3
<1>5. \A x \in Ids : f[x] = Owed(x, t) /\ g[x] = Owed(x, t)' /\ Owed(x, t) \in Nat
  BY <1>1 DEF OwedOf
<1>6. g \in [Ids -> Nat] /\ \A x \in Ids : f[x] = g[x] + h[x]
  BY <1>4, <1>5
<1>7. Total(OwedOf(t))' = Total(g)
  <2>1. Ids' = Ids
    BY DEF Settled, Ids
  <2> QED BY <2>1 DEF OwedOf, Total, Coins
<1>8. Total(f) = Total(g) + Total(h) /\ Total(g) \in Nat /\ Total(h) \in Nat
  <2> HIDE DEF f, g, h
  <2>1. g \in [Ids -> Int] /\ h \in [Ids -> Int]
    BY <1>3, <1>6
  <2> QED BY <1>1, <1>3, <1>6, <2>1, TotalAdd, TotalType
<1>9. Total(h) = Total(due)
  <2>1. /\ \A x \in Ids \cap ids : h[x] = due[x]
        /\ \A x \in Ids \ ids : h[x] = 0
        /\ \A x \in ids \ Ids : due[x] = 0
    OBVIOUS
  <2> HIDE DEF h, due
  <2>2. h \in [Ids -> Int] /\ due \in [ids -> Int]
    BY <1>3
  <2> QED BY <2>1, <2>2, TotalSupport
<1>10. Due(to, t) = Total(due)
  BY DEF Due
<1> QED
  <2> HIDE DEF g, h, due
  <2> QED BY <1>7, <1>8, <1>9, <1>10

\* Every step keeps the counter equal to the sum.
LEMMA LiabilityStep ==
  ASSUME Accounted, LiabilityExact, Next
  PROVE  LiabilityExact'
<1>1. TypeOK /\ TypeOK' /\ PoolExact /\ StatusMirrors
  BY TypeStep DEF Accounted
<1>2. SUFFICES ASSUME NEW t \in Tokens, liability[t] = Total(OwedOf(t))
               PROVE  liability'[t] = Total(OwedOf(t))'
  <2>1. \A t \in Tokens : liability[t] = Total(OwedOf(t))
    BY <1>1, LiabilityIsTotal
  <2>2. LiabilityExact' <=> \A t \in Tokens : liability'[t] = Total(OwedOf(t))'
    <3>1. (DOMAIN status)' = Ids'
      BY <1>1 DEF TypeOK
    <3> QED BY <3>1 DEF LiabilityExact, OwedOf
  <2> QED BY <1>2, <2>1, <2>2
<1>3. ASSUME NEW id \in Ids PROVE escrow[id].amount \in Nat /\ escrow[id].token \in Tokens
  <2>1. escrow[id] \in EscrowData
    BY <1>1 DEF TypeOK
  <2> QED BY <2>1, LimitsAssumption DEF EscrowData, Amount
<1>3a. escrow \in [Ids -> EscrowData] /\ \A id \in Ids : escrow[id] \in EscrowData
  BY <1>1 DEF TypeOK
<1>4. CASE CreateStep
  <2>1. PICK payer \in Addr, reqs \in Seq(Request) :
          reqs # <<>> /\ CreateEscrowInner(payer, reqs)
    BY <1>4 DEF CreateStep
  <2>2. liability'[t] = liability[t] + Deposit(reqs)[t]
    BY <1>1, <2>1, CreateEffect
  <2>3. Total(OwedOf(t))' = Total(OwedOf(t)) + Deposit(reqs)[t]
    BY <1>1, <2>1, OwedGrows
  <2> QED BY <1>2, <2>2, <2>3
<1>5. CASE \E req \in PoolRequest : CreatePooledEscrow(req)
  <2>1. /\ nextId' = nextId + 1 /\ escrow'[nextId].amount = 0 /\ liability' = liability
        /\ \A id \in Ids : escrow'[id] = escrow[id] /\ status'[id] = status[id]
    BY <1>1, <1>5, PoolEffect
  <2>2. \A id \in Ids : Owed(id, t)' = Owed(id, t)
    BY <2>1 DEF Owed
  <2>3. Ids \subseteq Ids' /\ \A x \in Ids' \ Ids : x = nextId
    BY <1>1, <2>1 DEF TypeOK, Ids
  <2>4. \A x \in Ids' \ Ids : Owed(x, t)' = 0
    BY <2>1, <2>3 DEF Owed
  <2> QED BY <1>1, <1>2, <2>1, <2>2, <2>3, <2>4, OwedKept
<1>6. CASE \E id \in Ids, a \in Addr, amount \in Int : DepositStep(id, a, amount)
  <2>1. PICK id \in Ids, a \in Addr, amount \in Int : DepositStep(id, a, amount)
    BY <1>6
  <2>2. PICK d : d = Just(escrow[id].token, amount)[t]
    OBVIOUS
  <2>3. /\ amount \in Nat /\ Funded(id) /\ liability'[t] = liability[t] + d
        /\ escrow' = [escrow EXCEPT ![id].amount = @ + amount]
        /\ UNCHANGED <<nextId, status>>
    BY <1>1, <2>1, <2>2, DepositEffect
  <2>4. d \in Int /\ Owed(id, t)' = Owed(id, t) + d
    <3>1. status'[id] = "Funded" /\ status[id] = "Funded"
      BY <1>1, <2>3 DEF StatusMirrors, Funded
    <3>2. escrow'[id].token = escrow[id].token /\ escrow'[id].amount = escrow[id].amount + amount
      BY <1>3a, <2>3 DEF EscrowData
    <3> QED BY <1>3, <2>2, <2>3, <3>1, <3>2 DEF Owed, Just
  <2>5. \A x \in Ids \ {id} : Owed(x, t)' = Owed(x, t)
    BY <1>1, <2>3 DEF Owed, TypeOK
  <2> QED BY <1>1, <1>2, <2>3, <2>4, <2>5, OwedMoves
<1>7. CASE \E id \in Ids, a \in Addr : ClaimRefund(id, a)
  <2>1. PICK id \in Ids, a \in Addr : ClaimRefund(id, a)
    BY <1>7
  <2>1a. PICK k : k = Unclaimed(id, a)
    OBVIOUS
  <2>2. PICK d : d = - Just(escrow[id].token, k)[t]
    OBVIOUS
  <2>3. /\ Funded(id) /\ liability'[t] = liability[t] - Just(escrow[id].token, k)[t]
        /\ escrow' = [escrow EXCEPT ![id].amount = @ - k]
        /\ UNCHANGED <<nextId, status>>
    <3>1. /\ Funded(id)
          /\ \A u \in Tokens :
               /\ liability'[u] = liability[u] - Just(escrow[id].token, Unclaimed(id, a))[u]
               /\ balance'[u][Contract] =
                    balance[u][Contract] - Just(escrow[id].token, Unclaimed(id, a))[u]
          /\ escrow' = [escrow EXCEPT ![id].amount = @ - Unclaimed(id, a)]
          /\ UNCHANGED <<nextId, status>>
      BY <1>1, <2>1, ClaimEffect
    <3> QED BY <2>1a, <3>1
  <2>4. k \in Nat
    BY <1>1, <2>1a, RecordedType
  <2>5. d \in Int /\ Owed(id, t)' = Owed(id, t) + d
    <3>1. status'[id] = "Funded" /\ status[id] = "Funded"
      BY <1>1, <2>3 DEF StatusMirrors, Funded
    <3>2. escrow'[id].token = escrow[id].token /\ escrow'[id].amount = escrow[id].amount - k
      BY <1>3a, <2>3 DEF EscrowData
    <3> QED BY <1>3, <2>2, <2>4, <3>1, <3>2 DEF Owed, Just
  <2>6. \A x \in Ids \ {id} : Owed(x, t)' = Owed(x, t)
    BY <1>1, <2>3 DEF Owed, TypeOK
  <2>7. liability'[t] = liability[t] + d
    <3>1. liability[t] \in Int /\ Just(escrow[id].token, k)[t] \in Int
      BY <1>1, <2>4 DEF TypeOK, Amount, Just
    <3> QED BY <2>2, <2>3, <3>1
  <2>8. Total(OwedOf(t))' = Total(OwedOf(t)) + d
    BY <1>1, <2>3, <2>5, <2>6, OwedMoves
  <2> QED BY <1>2, <2>7, <2>8
<1>8. CASE \E id \in Ids, a \in Addr, b \in Addr : EditStep(id, a, b)
  <2>1. /\ \A x \in Ids : escrow'[x].amount = escrow[x].amount /\ escrow'[x].token = escrow[x].token
        /\ UNCHANGED <<nextId, status, liability>>
    BY <1>1, <1>8, EditEffect
  <2>2. \A x \in Ids : Owed(x, t)' = Owed(x, t)
    BY <2>1 DEF Owed
  <2> QED BY <1>1, <1>2, <2>1, <2>2, OwedKept DEF Ids
<1>9. CASE SettleStep
  <2>1. PICK ids \in SUBSET Ids : \E to \in [ids -> Terminal] :
          Settled(ids, to) /\ \A id \in ids : Funded(id)
    BY <1>1, <1>9, SettleStepEffect
  <2>2. PICK to \in [ids -> Terminal] : Settled(ids, to) /\ \A id \in ids : Funded(id)
    BY <2>1
  <2>3. liability'[t] = liability[t] - Due(to, t)
    BY <2>2 DEF Settled
  <2>4. Total(OwedOf(t))' = Total(OwedOf(t)) - Due(to, t)
    BY <1>1, <2>2, OwedSettles
  <2> QED BY <1>2, <2>3, <2>4
<1>10. CASE UNCHANGED <<nextId, escrow, status, liability>>
  <2>1. \A x \in Ids : Owed(x, t)' = Owed(x, t)
    BY <1>10 DEF Owed
  <2> QED BY <1>1, <1>2, <1>10, <2>1, OwedKept DEF Ids
<1>11. CASE \E caller \in Addr : Pause(caller) \/ Unpause(caller)
  BY <1>10, <1>11 DEF Pause, Unpause, books
<1>12. CASE Environment
  BY <1>1, <1>10, <1>12, EnvironmentEffect
<1> QED
  BY <1>1, <1>4, <1>5, <1>6, <1>7, <1>8, <1>9, <1>11, <1>12, StepKinds DEF DepositStep

\* The doc of solvency() for any number of escrows: the counter that the
\* contract adds to and subtracts from never drifts from the funded amounts.
THEOREM LiabilityAccounting == Spec => []LiabilityExact
<1>1. Init => LiabilityExact
  <2>1. ASSUME Init, NEW t \in Tokens PROVE Total([id \in DOMAIN status |-> Owed(id, t)]) = 0
    <3>1. Coins([id \in DOMAIN status |-> Owed(id, t)]) = {}
      BY <2>1 DEF Init, Coins
    <3> QED BY <3>1, FS_EmptySet DEF Total
  <2> QED BY <2>1 DEF Init, LiabilityExact
<1>2. LiabilityExact /\ Accounted /\ [Next]_vars => LiabilityExact'
  <2>1. ASSUME LiabilityExact, UNCHANGED vars PROVE LiabilityExact'
    <3>1. UNCHANGED <<escrow, status, liability>>
      BY <2>1 DEF vars, books
    <3> QED BY <2>1, <3>1 DEF LiabilityExact, Owed
  <2> QED BY <2>1, LiabilityStep
<1> QED BY <1>1, <1>2, AccountedAlways, PTL DEF Spec
-----------------------------------------------------------------------------
(* The way out.  What ENABLED would say of a settlement or a claim, said     *)
(* without it: the moves below fix every variable, and are steps of the      *)
(* contract.                                                                 *)

\* Escrow id alone is settled and paid out, and nothing else happens.
SettledAlone(id, to) ==
  LET e == escrow[id] IN
  /\ escrow' = [escrow EXCEPT ![id].status = to]
  /\ status' = [status EXCEPT ![id] = to]
  /\ liability' = [t \in Tokens |-> liability[t] - Just(e.token, e.amount)[t]]
  /\ balance' = [t \in Tokens |-> [a \in Addr |->
                   balance[t][a] + (IF e.token = t THEN Share(e, to, a) ELSE 0)
                                 - (IF a = Contract THEN Just(e.token, e.amount)[t] ELSE 0)]]
  /\ UNCHANGED <<now, paused, nextId, pooled, contribution, world>>

\* What is still owed of a pool to a goes back to a, and nothing else happens.
ClaimedBack(id, a) ==
  LET e == escrow[id] k == Unclaimed(id, a) IN
  /\ contribution' = [contribution EXCEPT ![<<id, a>>].refunded = TRUE]
  /\ escrow' = [escrow EXCEPT ![id].amount = @ - k]
  /\ liability' = [t \in Tokens |-> liability[t] - Just(e.token, k)[t]]
  /\ balance' = [balance EXCEPT ![e.token][Contract] = @ - k, ![e.token][a] = @ + k]
  /\ UNCHANGED <<now, paused, nextId, status, pooled, world>>

\* While it is funded, an escrow's amount is within what its token owes.
LEMMA LiabilityCovers ==
  ASSUME Accounted, LiabilityExact, NEW id \in Ids, Funded(id)
  PROVE  /\ escrow[id].token \in Tokens /\ escrow[id].amount \in Nat
         /\ liability[escrow[id].token] \in Nat
         /\ escrow[id].amount <= liability[escrow[id].token]
<1>1. PICK token, amount : token = escrow[id].token /\ amount = escrow[id].amount
  OBVIOUS
<1>2. /\ TypeOK /\ escrow[id] \in EscrowData /\ status[id] = escrow[id].status
      /\ liability \in [Tokens -> Amount]
  BY DEF Accounted, TypeOK, StatusMirrors
<1>3. token \in Tokens /\ amount \in Nat /\ liability[token] \in Nat
  BY <1>1, <1>2, LimitsAssumption DEF EscrowData, Amount
<1>4. liability[token] = Total(OwedOf(token))
  BY <1>2, <1>3, LiabilityIsTotal
<1>5. OwedOf(token)[id] = amount
  BY <1>1, <1>2 DEF OwedOf, Owed, Funded
<1>6. OwedOf(token)[id] <= Total(OwedOf(token))
  BY <1>2, OwedType, TotalMember
<1> QED BY <1>1, <1>3, <1>4, <1>5, <1>6

\* A fee is part of the amount, so that nobody's share of it is negative.
LEMMA FeeIsPart ==
  ASSUME NEW e \in EscrowData, NEW to
  PROVE  Fee(e, to) \in 0..e.amount /\ \A a \in Addr : Share(e, to, a) \in Nat
<1>1. e.amount \in Nat /\ e.fee_bps \in Option(0..MAX_FEE_BPS)
  BY LimitsAssumption DEF EscrowData, Amount
<1>2. ASSUME e.fee_bps # {} PROVE FeeAmount(e.amount, The(e.fee_bps)) \in 0..e.amount
  <2>1. PICK m, bps : m = e.amount /\ bps = The(e.fee_bps)
    OBVIOUS
  <2>2. bps \in 0..1000
    BY <1>1, <1>2, <2>1, OptionValue DEF MAX_FEE_BPS
  <2>3. m \in Nat /\ bps \in Nat /\ bps <= 10000
    <3>1. bps \in Nat /\ bps <= 10000
      BY <2>2
    <3> QED BY <1>1, <2>1, <3>1
  <2>4. PICK gross : gross = m * bps
    OBVIOUS
  <2>5. gross \in Nat /\ gross <= 10000 * m
    BY <2>3, <2>4
  <2>6. gross \div 10000 \in 0..m
    BY <2>3, <2>5
  <2> QED BY <2>1, <2>4, <2>6 DEF FeeAmount, BASIS_POINTS
<1>3. Fee(e, to) \in 0..e.amount
  BY <1>1, <1>2 DEF Fee
<1>4. Payout(e, to) \in Nat
  BY <1>1, <1>3 DEF Payout
<1> QED BY <1>3, <1>4 DEF Share

\* The settlement of one escrow goes through if its gates are open, whoever is paid
\* takes transfers and the contract holds the amount.
LEMMA AloneIsSettlement ==
  ASSUME Accounted, LiabilityExact, FeesFit, NEW id \in Ids, Funded(id),
         NEW to \in {"Released", "Refunded"},
         to = "Released" => /\ ReleaseGates(escrow[id])
                            /\ escrow[id].notify_payee => escrow[id].payee \notin broken,
         \A a \in frozen : Share(escrow[id], to, a) = 0,
         balance[escrow[id].token][Contract] >= escrow[id].amount, SettledAlone(id, to)
  PROVE  SettleOne(id, to)
<1> DEFINE tos == [x \in {id} |-> to]
           ats == [x \in {id} |-> 1]
<1>1. PICK e : e = escrow[id]
  OBVIOUS
<1>2. /\ e \in EscrowData /\ e.token \in Tokens /\ e.amount \in Nat
      /\ liability[e.token] \in Nat /\ e.amount <= liability[e.token]
      /\ escrow \in [Ids -> EscrowData] /\ status \in [Ids -> EscrowStatus]
      /\ liability \in [Tokens -> Amount] /\ balance \in [Tokens -> [Addr -> Int]]
  BY <1>1, LiabilityCovers DEF Accounted, TypeOK
<1>3. Sent(e, to) = e.amount
  BY <1>2, SentIsAmount
<1>4. \A a \in Addr : Share(e, to, a) \in Nat
  BY <1>2, FeeIsPart
<1>5. ASSUME NEW n \in Nat PROVE Total([x \in {id} |-> n]) = n
  <2>1. PICK f : f = [x \in {id} |-> n]
    OBVIOUS
  <2>2. f \in [{id} -> Nat] /\ f[id] = n /\ \A x \in {id} \ {id} : f[x] = 0
    BY <2>1
  <2>3. Total(f) = f[id]
    BY <2>2, TotalPoint
  <2> QED BY <2>1, <2>2, <2>3
<1> DEFINE owed(t) == Total([x \in DOMAIN tos |-> IF escrow[x].token = t THEN escrow[x].amount ELSE 0])
           sent(t) == Total([x \in DOMAIN tos |->
                        IF escrow[x].token = t THEN Sent(escrow[x], tos[x]) ELSE 0])
           paid(t, a) == Total([x \in DOMAIN tos |->
                           IF escrow[x].token = t THEN Share(escrow[x], tos[x], a) ELSE 0])
           spent(x) == Total([j \in DOMAIN tos |->
                         IF ats[j] < ats[x] /\ escrow[j].token = escrow[x].token
                           THEN Sent(escrow[j], tos[j]) - Share(escrow[j], tos[j], Contract) ELSE 0])
<1>6. DOMAIN tos = {id} /\ tos[id] = to /\ ats[id] = 1
  OBVIOUS
<1>7. ASSUME NEW t \in Tokens
      PROVE  Just(e.token, e.amount)[t] \in Nat /\ owed(t) = Just(e.token, e.amount)[t]
             /\ sent(t) = Just(e.token, e.amount)[t]
  <2>1. PICK n : n = Just(e.token, e.amount)[t]
    OBVIOUS
  <2>2. n \in Nat /\ n = IF e.token = t THEN e.amount ELSE 0
    BY <1>2, <2>1 DEF Just
  <2>3. [x \in DOMAIN tos |-> IF escrow[x].token = t THEN escrow[x].amount ELSE 0] = [x \in {id} |-> n]
    BY <1>1, <2>2
  <2>4. [x \in DOMAIN tos |-> IF escrow[x].token = t THEN Sent(escrow[x], tos[x]) ELSE 0] = [x \in {id} |-> n]
    BY <1>1, <1>3, <2>2
  <2> QED BY <1>5, <2>1, <2>2, <2>3, <2>4
<1>8. ASSUME NEW t \in Tokens, NEW a \in Addr
      PROVE  paid(t, a) = IF e.token = t THEN Share(e, to, a) ELSE 0
  <2>1. PICK n : n = IF e.token = t THEN Share(e, to, a) ELSE 0
    OBVIOUS
  <2>2. n \in Nat
    BY <1>4, <2>1
  <2>3. [x \in DOMAIN tos |-> IF escrow[x].token = t THEN Share(escrow[x], tos[x], a) ELSE 0] = [x \in {id} |-> n]
    BY <1>1, <2>1
  <2> QED BY <1>5, <2>1, <2>2, <2>3
<1>9. spent(id) = 0
  <2>1. [j \in DOMAIN tos |->
           IF ats[j] < ats[id] /\ escrow[j].token = escrow[id].token
             THEN Sent(escrow[j], tos[j]) - Share(escrow[j], tos[j], Contract) ELSE 0] = [x \in {id} |-> 0]
    BY <1>6
  <2> QED BY <1>5, <2>1
<1>10. \A x \in DOMAIN tos :
         /\ tos[x] = "Released" => ReleaseGates(escrow[x])
         /\ \A bps \in escrow[x].fee_bps : tos[x] = "Released" => FeeFits(escrow[x].amount, bps)
         /\ \A a \in frozen : Share(escrow[x], tos[x], a) = 0
         /\ spent(x) + Sent(escrow[x], tos[x]) <= balance[escrow[x].token][Contract]
         /\ escrow[x].notify_payee /\ tos[x] = "Released" => escrow[x].payee \notin broken
  <2>1. spent(id) + Sent(e, to) <= balance[e.token][Contract]
    <3> HIDE DEF spent
    <3> QED BY <1>1, <1>2, <1>3, <1>9
  <2> HIDE DEF spent
  <2> QED BY <1>1, <1>6, <2>1 DEF FeesFit
<1>11. /\ escrow' = [x \in DOMAIN escrow |->
                       IF x \in DOMAIN tos THEN [escrow[x] EXCEPT !.status = tos[x]] ELSE escrow[x]]
       /\ status' = [x \in DOMAIN status |-> IF x \in DOMAIN tos THEN tos[x] ELSE status[x]]
  BY <1>2 DEF SettledAlone
<1>12. SubLiability([t \in Tokens |-> owed(t)])
  <2>1. liability' = [t \in Tokens |-> liability[t] - Just(e.token, e.amount)[t]]
    BY <1>1 DEF SettledAlone
  <2>2. \A t \in Tokens : liability[t] - Just(e.token, e.amount)[t] >= 0
    BY <1>2, LimitsAssumption DEF Just, Amount
  <2> HIDE DEF owed
  <2> QED BY <1>7, <2>1, <2>2 DEF SubLiability
<1>13. balance' = [t \in Tokens |-> [a \in Addr |->
                     balance[t][a] + paid(t, a) - (IF a = Contract THEN sent(t) ELSE 0)]]
  <2> HIDE DEF paid, sent
  <2> QED BY <1>1, <1>7, <1>8 DEF SettledAlone
<1>14. UNCHANGED <<now, paused, nextId, pooled, contribution, world>>
  BY DEF SettledAlone
<1>15. Settle(tos, ats)
  BY <1>10, <1>11, <1>12, <1>13, <1>14 DEF Settle
<1> QED BY <1>15 DEF SettleOne

\* What the three theorems that follow ask of a state holds in every state.
WayOutGrounds == Accounted /\ LiabilityExact /\ QuorumsFit /\ FeesFit /\ PoolsPlain
LEMMA GroundsAlways == Spec => []WayOutGrounds
  BY AccountedAlways, LiabilityAccounting, QuorumsAreReachable, FeesNeverOverflow, PTL DEF WayOutGrounds

\* An address other than the contract can authorise a call alone.
LEMMA OneSigns == ASSUME NEW a, a # Contract, auth' = {a} PROVE RequireAuth(<<a>>)
<1>1. DOMAIN <<a>> = {1} /\ <<a>>[1] = a
  OBVIOUS
<1> QED BY <1>1 DEF RequireAuth

\* So can all the releasers of an escrow together.
LEMMA ReleasersSign ==
  ASSUME QuorumsFit, NEW id \in Ids, escrow[id] \in EscrowData,
         ~Contains(escrow[id].releasers, Contract),
         auth' = {escrow[id].releasers[i] : i \in DOMAIN escrow[id].releasers}
  PROVE  CheckApprovals(escrow[id], escrow[id].releasers)
  BY ListType DEF CheckApprovals, RequireAuth, Contains, QuorumsFit

\* I8 for any number of escrows, tokens and parties, and with the pause on or off: the
\* releasers of a plain funded escrow can give it back, alone if one is enough and
\* together if not, and past refund_after anybody can; neither the counter nor
\* another escrow stands in the way.
THEOREM RefundsAreOpen ==
  ASSUME WayOutGrounds, NEW id \in Ids, Funded(id), ~IsPooled(id),
         escrow[id].refund_to \notin frozen,
         balance[escrow[id].token][Contract] >= escrow[id].amount, SettledAlone(id, "Refunded")
  PROVE  LET e == escrow[id] IN
         /\ e.threshold = 1 => \A i \in DOMAIN e.releasers :
              e.releasers[i] # Contract /\ auth' = {e.releasers[i]} => Refund(id, e.releasers[i])
         /\ ~Contains(e.releasers, Contract) /\ auth' = {e.releasers[i] : i \in DOMAIN e.releasers}
              => RefundWithApprovals(id, e.releasers)
         /\ TimeoutPassed(e) => \A a \in Addr \ {Contract} : auth' = {a} => Refund(id, a)
<1>1. PICK e : e = escrow[id] /\ e \in EscrowData /\ e.amount \in Nat
  BY LiabilityCovers DEF WayOutGrounds, Accounted, TypeOK
<1>2. \A a \in frozen : Share(e, "Refunded", a) = 0
  BY <1>1 DEF Share, Fee, Destination
<1>3. SettleOne(id, "Refunded") /\ Exists(id)
  BY <1>1, <1>2, AloneIsSettlement DEF Funded, WayOutGrounds
<1>4. ASSUME NEW a \in Addr, a # Contract, auth' = {a}, TimeoutPassed(e) \/ CheckSingleCaller(e, a)
      PROVE  Refund(id, a)
  BY <1>1, <1>3, <1>4, OneSigns DEF Refund, RefundChecks
<1>5. ASSUME ~Contains(e.releasers, Contract), auth' = {e.releasers[i] : i \in DOMAIN e.releasers}
      PROVE  RefundWithApprovals(id, e.releasers)
  BY <1>1, <1>3, <1>5, ReleasersSign DEF RefundWithApprovals, WayOutGrounds
<1>6. ASSUME e.threshold = 1, NEW i \in DOMAIN e.releasers, e.releasers[i] # Contract,
             auth' = {e.releasers[i]}
      PROVE  Refund(id, e.releasers[i])
  BY <1>1, <1>4, <1>6, ListType DEF CheckSingleCaller, Contains
<1> QED BY <1>1, <1>4, <1>5, <1>6

\* The same of a release: once accepted and due, its releasers can release an escrow to
\* whoever takes transfers, its fee included.  A pool has neither gate nor fee nor
\* hook, so its releaser can release it as soon as it is full.
THEOREM ReleasesAreOpen ==
  ASSUME WayOutGrounds, NEW id \in Ids, Funded(id), FullyFunded(id),
         escrow[id].payee \notin frozen,
         IsPooled(id) \/ /\ ReleaseGates(escrow[id]) /\ escrow[id].fee_recipient \cap frozen = {}
                         /\ escrow[id].notify_payee => escrow[id].payee \notin broken,
         balance[escrow[id].token][Contract] >= escrow[id].amount, SettledAlone(id, "Released")
  PROVE  LET e == escrow[id] IN
         /\ e.threshold = 1 => \A i \in DOMAIN e.releasers :
              e.releasers[i] # Contract /\ auth' = {e.releasers[i]} => Release(id, e.releasers[i])
         /\ ~Contains(e.releasers, Contract) /\ auth' = {e.releasers[i] : i \in DOMAIN e.releasers}
              => ReleaseWithApprovals(id, e.releasers)
<1>1. PICK e : e = escrow[id] /\ e \in EscrowData /\ e.amount \in Nat
  BY LiabilityCovers DEF WayOutGrounds, Accounted, TypeOK
<1>2. /\ ReleaseGates(e) /\ e.fee_recipient \cap frozen = {}
      /\ e.notify_payee => e.payee \notin broken
  BY <1>1 DEF WayOutGrounds, PoolsPlain, IsPooled, ReleaseGates
<1>3. \A a \in frozen : Share(e, "Released", a) = 0
  BY <1>1, <1>2 DEF Share, Destination
<1>4. SettleOne(id, "Released") /\ Exists(id)
  BY <1>1, <1>2, <1>3, AloneIsSettlement DEF Funded, WayOutGrounds
<1>5. ASSUME ~Contains(e.releasers, Contract), auth' = {e.releasers[i] : i \in DOMAIN e.releasers}
      PROVE  ReleaseWithApprovals(id, e.releasers)
  BY <1>1, <1>4, <1>5, ReleasersSign DEF ReleaseWithApprovals, WayOutGrounds
<1>6. ASSUME e.threshold = 1, NEW i \in DOMAIN e.releasers, e.releasers[i] # Contract,
             auth' = {e.releasers[i]}
      PROVE  Release(id, e.releasers[i])
  BY <1>1, <1>4, <1>6, ListType, OneSigns DEF Release, ReleaseChecks, CheckSingleCaller, Contains
<1> QED BY <1>1, <1>5, <1>6

\* ADR 0011 for any number of contributors: once a round has failed, each of them can
\* take back its own money, in any order and whoever else has.
THEOREM ClaimsAreOpen ==
  ASSUME WayOutGrounds, NEW id \in DOMAIN pooled, Funded(id), ~FundingOpen(id),
         escrow[id].amount < pooled[id].funding_target,
         NEW a \in Addr, Unclaimed(id, a) > 0, a \notin frozen,
         balance[escrow[id].token][Contract] >= Unclaimed(id, a),
         ClaimedBack(id, a), auth' = {a}
  PROVE  ClaimRefund(id, a)
<1>1. PICK k, token : k = Unclaimed(id, a) /\ token = escrow[id].token
  OBVIOUS
<1>2. /\ TypeOK /\ PoolExact /\ id \in Ids
      /\ liability \in [Tokens -> Amount] /\ balance \in [Tokens -> [Addr -> Int]]
  BY DEF WayOutGrounds, Accounted, TypeOK
<1>3. /\ token \in Tokens /\ escrow[id].amount \in Nat /\ liability[token] \in Nat
      /\ escrow[id].amount <= liability[token]
  BY <1>1, <1>2, LiabilityCovers DEF WayOutGrounds
<1>4. /\ <<id, a>> \in DOMAIN contribution /\ ~contribution[<<id, a>>].refunded
      /\ contribution[<<id, a>>].amount = k
  BY <1>1 DEF Unclaimed, Recorded
<1>5. k \in Nat /\ k <= escrow[id].amount
  <2>1. \A b \in Addr : Unclaimed(id, b) \in Nat
    BY <1>2, RecordedType
  <2>2. PICK f : f = [b \in Addr |-> Unclaimed(id, b)]
    OBVIOUS
  <2>3. f \in [Addr -> Nat] /\ f[a] = k /\ Total(f) = escrow[id].amount
    BY <1>1, <1>2, <2>1, <2>2 DEF PoolExact
  <2>4. f[a] <= Total(f)
    BY <2>3, PartiesAssumption, TotalMember
  <2> QED BY <2>3, <2>4
<1>6. a # Contract
  BY <1>2, <1>4 DEF TypeOK
<1>7. RequireAuth(<<a>>)
  BY <1>6, OneSigns
<1>8. SubLiability(Just(token, k))
  <2>1. \A t \in Tokens : liability[t] - Just(token, k)[t] >= 0
    BY <1>2, <1>3, <1>5, LimitsAssumption DEF Just, Amount
  <2> QED BY <1>1, <2>1 DEF SubLiability, ClaimedBack
<1>9. balance[token][Contract] >= k
  BY <1>1
<1> QED BY <1>1, <1>4, <1>7, <1>8, <1>9 DEF ClaimRefund, ClaimedBack, IsPooled
-----------------------------------------------------------------------------
(* Who is paid.                                                              *)

\* Whoever pays into the contract gains nothing, and neither does anyone else.
LEMMA TransferTakes ==
  ASSUME TypeOK, NEW payer \in Addr, NEW in \in [Tokens -> Nat], TransferInExact(payer, in),
         NEW t \in Tokens, NEW a \in Addr \ {Contract}
  PROVE  ~(balance'[t][a] > balance[t][a])
<1>1. balance[t][a] \in Int /\ in[t] \in Nat
  BY DEF TypeOK
<1>2. balance' = [u \in Tokens |-> [b \in Addr |->
                    balance[u][b] + (IF b = Contract THEN in[u] ELSE 0)
                                  - (IF b = payer THEN in[u] ELSE 0)]]
  BY DEF TransferInExact, DeliveredExactly
<1>3. balance'[t][a] = balance[t][a] + 0 - (IF a = payer THEN in[t] ELSE 0)
  BY <1>2
<1> QED BY <1>1, <1>3

\* The environment gives nobody but the contract anything.
LEMMA EnvironmentTakes ==
  ASSUME TypeOK, Environment, NEW t \in Tokens, NEW a \in Addr \ {Contract}
  PROVE  ~(balance'[t][a] > balance[t][a])
<1>1. balance \in [Tokens -> [Addr -> Int]] /\ balance[t][a] \in Int
  BY DEF TypeOK
<1>2. CASE UNCHANGED balance
  BY <1>1, <1>2
<1>3. CASE Tick \/ (\E b \in CanFreeze : SetFrozen(b)) \/ (\E b \in CanBreak : SetBroken(b))
  BY <1>2, <1>3 DEF Tick, SetFrozen, SetBroken, books
<1>4. CASE \E u \in ClawbackTokens : \E amount \in 1..balance[u][Contract] : Clawback(u, amount)
  <2>1. PICK u \in ClawbackTokens : \E amount \in 1..balance[u][Contract] : Clawback(u, amount)
    BY <1>4
  <2>2. balance'[t][a] = balance[t][a]
    BY <1>1, <2>1 DEF Clawback
  <2> QED BY <1>1, <2>2
<1>5. CASE \E u \in Tokens, b \in Addr \ {Contract}, amount \in Donations : Donate(u, b, amount)
  <2>1. PICK u \in Tokens, b \in Addr \ {Contract}, amount \in Donations : Donate(u, b, amount)
    BY <1>5
  <2>2. amount \in Nat
    BY InputsAssumption
  <2>3. balance' = [balance EXCEPT ![u][b] = @ - amount, ![u][Contract] = @ + amount]
    BY <2>1 DEF Donate
  <2>4. balance'[t][a] = IF t = u /\ a = b THEN balance[t][a] - amount ELSE balance[t][a]
    BY <1>1, <2>3
  <2> QED BY <1>1, <2>2, <2>4
<1> QED BY <1>3, <1>4, <1>5 DEF Environment

\* The escrow whose step pays a in token t, and on what account.
Payee(t, a) ==
  \E id \in DOMAIN escrow :
    /\ Funded(id) /\ escrow[id].token = t
    /\ CASE escrow'[id].status = "Released" ->
              a = escrow[id].payee \/ a \in escrow[id].fee_recipient
         [] escrow'[id].status \in {"Refunded", "Cancelled"} ->
              ~IsPooled(id) /\ a = escrow[id].refund_to
         [] OTHER -> a \in auth' /\ Unclaimed(id, a) > 0 /\ Unclaimed(id, a)' = 0

\* A settlement pays an address only as its outcome provides.
LEMMA ShareOf ==
  ASSUME NEW e, NEW to \in Terminal, NEW a, Share(e, to, a) # 0
  PROVE  /\ to = "Released" => a = e.payee \/ a \in e.fee_recipient
         /\ to # "Released" => a = e.refund_to
<1>1. \/ a \in e.fee_recipient /\ Fee(e, to) # 0
      \/ a = Destination(e, to)
  BY DEF Share
<1>2. Fee(e, to) # 0 => to = "Released"
  BY DEF Fee
<1> QED BY <1>1, <1>2 DEF Destination

\* Whom a settlement pays.
LEMMA SettlePays ==
  ASSUME TypeOK, SettleStep, NEW t \in Tokens, NEW a \in Addr \ {Contract},
         balance'[t][a] > balance[t][a]
  PROVE  Payee(t, a)
<1>1. PICK ids \in SUBSET Ids : \E to \in [ids -> Terminal], at \in [ids -> Nat] :
        (\A id \in ids : Ripe(id, to[id])) /\ Settle(to, at)
  BY DEF SettleStep
<1>2. PICK to \in [ids -> Terminal], at \in [ids -> Nat] :
        (\A id \in ids : Ripe(id, to[id])) /\ Settle(to, at)
  BY <1>1
<1> DEFINE paid == [id \in ids |->
                      IF escrow[id].token = t THEN Share(escrow[id], to[id], a) ELSE 0]
<1>3. /\ balance[t][a] \in Int /\ DOMAIN escrow = Ids /\ DOMAIN to = ids
      /\ \A id \in ids : escrow[id] \in EscrowData
  BY DEF TypeOK
<1>4. /\ balance'[t][a] = balance[t][a] + Total(paid) - 0
      /\ escrow' = [id \in Ids |-> IF id \in ids THEN [escrow[id] EXCEPT !.status = to[id]]
                                  ELSE escrow[id]]
  BY <1>2, <1>3 DEF Settle
<1>5. paid \in [ids -> Int]
  BY <1>3, SentIsAmount
<1> HIDE DEF paid
<1>6. Total(paid) # 0
  BY <1>3, <1>4
<1>7. PICK x \in ids : paid[x] > 0
  BY <1>5, <1>6, TotalPositive
<1>8. escrow[x].token = t /\ Share(escrow[x], to[x], a) # 0
  BY <1>7 DEF paid
<1>9. escrow'[x].status = to[x] /\ to[x] \in Terminal
  BY <1>3, <1>4 DEF EscrowData
<1>10. /\ to[x] = "Released" => a = escrow[x].payee \/ a \in escrow[x].fee_recipient
       /\ to[x] # "Released" => a = escrow[x].refund_to
  BY <1>8, <1>9, ShareOf
<1>11. /\ x \in DOMAIN escrow /\ Funded(x)
       /\ to[x] # "Released" => ~IsPooled(x)
  BY <1>2, <1>3 DEF Ripe
<1> QED BY <1>8, <1>9, <1>10, <1>11 DEF Payee, Terminal, EscrowStatus

\* Whom a claim pays.
LEMMA ClaimPays ==
  ASSUME TypeOK, PoolExact, NEW id \in Ids, NEW b \in Addr, ClaimRefund(id, b),
         NEW t \in Tokens, NEW a \in Addr \ {Contract}, balance'[t][a] > balance[t][a]
  PROVE  Payee(t, a)
<1>1. /\ balance \in [Tokens -> [Addr -> Int]] /\ balance[t][a] \in Int
      /\ escrow \in [Ids -> EscrowData] /\ escrow[id].token \in Tokens
  BY DEF TypeOK, EscrowData
<1>2. PICK k : k = Unclaimed(id, b) /\ k \in Nat
  BY RecordedType
<1>3. /\ Funded(id) /\ b # Contract /\ <<id, b>> \in DOMAIN contribution
      /\ k = contribution[<<id, b>>].amount
      /\ escrow' = [escrow EXCEPT ![id].amount = @ - k]
      /\ contribution' = [contribution EXCEPT ![<<id, b>>].refunded = TRUE]
  <2>1. /\ Funded(id) /\ b # Contract /\ <<id, b>> \in DOMAIN contribution
        /\ Unclaimed(id, b) = contribution[<<id, b>>].amount
        /\ escrow' = [escrow EXCEPT ![id].amount = @ - Unclaimed(id, b)]
        /\ contribution' = [contribution EXCEPT ![<<id, b>>].refunded = TRUE]
    BY ClaimEffect
  <2> QED BY <1>2, <2>1
<1>4. balance' = [balance EXCEPT ![escrow[id].token][Contract] = @ - k,
                                 ![escrow[id].token][b] = @ + k]
  BY <1>3 DEF ClaimRefund
<1>5. balance'[t][a] = IF t = escrow[id].token /\ a = b THEN balance[t][a] + k ELSE balance[t][a]
  BY <1>1, <1>3, <1>4
<1>6. t = escrow[id].token /\ a = b /\ k > 0
  BY <1>1, <1>2, <1>5
<1>7. escrow'[id].status = "Funded"
  BY <1>1, <1>3 DEF EscrowData, Funded
<1>8. auth' = {b}
  BY AuthOne DEF ClaimRefund
<1>9. Unclaimed(id, a)' = 0
  <2>1. contribution'[<<id, b>>].refunded /\ <<id, b>> \in DOMAIN contribution'
    <3>1. contribution[<<id, b>>] \in Contribution
      BY <1>3 DEF TypeOK
    <3> QED BY <1>3, <3>1 DEF Contribution
  <2> QED BY <1>6, <2>1 DEF Unclaimed, Recorded
<1> QED BY <1>1, <1>2, <1>3, <1>6, <1>7, <1>8, <1>9 DEF Payee

\* No step pays anyone who is not entitled to it.
LEMMA PayoutStep ==
  ASSUME Accounted, Next, NEW t \in Tokens, NEW a \in Addr \ {Contract},
         balance'[t][a] > balance[t][a]
  PROVE  Payee(t, a)
<1>1. /\ TypeOK /\ PoolExact /\ ~UNCHANGED balance
  <2>1. balance[t][a] \in Int
    BY DEF Accounted, TypeOK
  <2> QED BY <2>1 DEF Accounted
<1>2. ~CreateStep
  <2>1. SUFFICES ASSUME NEW payer \in Addr, NEW reqs \in Seq(Request), reqs # <<>>,
                        CreateEscrowInner(payer, reqs)
                 PROVE  FALSE
    BY DEF CreateStep
  <2>2. \A i \in DOMAIN reqs : reqs[i].amount \in Nat
    BY <1>1, <2>1, CreateEffect
  <2>3. Deposit(reqs) \in [Tokens -> Nat] /\ TransferInExact(payer, Deposit(reqs))
    BY <2>1, <2>2, DepositType DEF CreateEscrowInner, Deposit
  <2> QED BY <1>1, <2>3, TransferTakes
<1>3. ~(\E req \in PoolRequest : CreatePooledEscrow(req))
  BY <1>1 DEF CreatePooledEscrow
<1>4. ~(\E id \in Ids, b \in Addr, amount \in Int : DepositStep(id, b, amount))
  <2>1. SUFFICES ASSUME NEW id \in Ids, NEW b \in Addr, NEW amount \in Int,
                        DepositStep(id, b, amount)
                 PROVE  FALSE
    OBVIOUS
  <2>2. TransferInExact(b, Just(escrow[id].token, amount)) /\ amount \in Nat
    BY <1>1, <2>1, DepositEffect DEF DepositStep, Contribute, TopUp
  <2>3. Just(escrow[id].token, amount) \in [Tokens -> Nat]
    BY <2>2 DEF Just
  <2> QED BY <1>1, <2>2, <2>3, TransferTakes
<1>5. ~(\E id \in Ids, b \in Addr, c \in Addr : EditStep(id, b, c))
  BY <1>1, EditEffect
<1>6. ~(\E caller \in Addr : Pause(caller) \/ Unpause(caller))
  BY <1>1 DEF Pause, Unpause, books
<1>7. ~Environment
  BY <1>1, EnvironmentTakes
<1> QED
  BY <1>1, <1>2, <1>3, <1>4, <1>5, <1>6, <1>7, StepKinds, SettlePays, ClaimPays DEF DepositStep

\* I1 for any number of escrows, tokens and parties: tokens reach an address
\* only on an escrow that names it for this outcome, or on its own record.
THEOREM PayoutsAreEntitled == Spec => PayoutsEntitled
<1>1. ASSUME Accounted, [Next]_vars
      PROVE  [\A t \in Tokens, a \in Addr \ {Contract} :
                balance'[t][a] > balance[t][a] =>
                  \E id \in DOMAIN escrow :
                    /\ Funded(id) /\ escrow[id].token = t
                    /\ CASE escrow'[id].status = "Released" ->
                              a = escrow[id].payee \/ a \in escrow[id].fee_recipient
                         [] escrow'[id].status \in {"Refunded", "Cancelled"} ->
                              ~IsPooled(id) /\ a = escrow[id].refund_to
                         [] OTHER -> a \in auth' /\ Unclaimed(id, a) > 0 /\ Unclaimed(id, a)' = 0
             ]_vars
  BY <1>1, PayoutStep DEF Payee
<1> QED BY <1>1, AccountedAlways, PTL DEF Spec, PayoutsEntitled

-----------------------------------------------------------------------------
(* The contract implements EscrowPromise.  Exact accounting makes the surplus *)
(* of a token the difference of two counters, so that each kind of step can be *)
(* mapped by what it does to them.                                             *)

Excess(t) == balance[t][Contract] - liability[t]

\* What the mapping shows of a state whose accounts are in order.
LEMMA Mapped ==
  ASSUME Accounted, LiabilityExact
  PROVE  /\ DOMAIN Purses = Ids /\ \A id \in Ids : Purses[id] = PurseOf(id)
         /\ \A t \in Tokens : Surplus[t] = Excess(t)
  BY DEF Accounted, TypeOK, Purses, Surplus, LiabilityExact, Excess

\* The same of the state after a step.
LEMMA MappedNext ==
  ASSUME Accounted', LiabilityExact'
  PROVE  /\ DOMAIN Purses' = Ids' /\ \A id \in Ids' : Purses'[id] = PurseOf(id)'
         /\ \A t \in Tokens : Surplus'[t] = Excess(t)'
  BY DEF Accounted, TypeOK, Purses, Surplus, LiabilityExact, Excess

\* A step that moves as much into a token's balance as it adds to its debt, or
\* takes no more from it than it stops owing, leaves the surplus intact.
LEMMA ExcessKept ==
  ASSUME Accounted, Accounted', NEW t \in Tokens, NEW d \in Int,
         liability'[t] = liability[t] + d, balance'[t][Contract] >= balance[t][Contract] + d
  PROVE  Excess(t)' >= Excess(t)
<1>1. /\ balance[t][Contract] \in Int /\ liability[t] \in Int
      /\ balance'[t][Contract] \in Int /\ liability'[t] \in Int
  BY PartiesAssumption DEF Accounted, TypeOK, Amount
<1> QED BY <1>1 DEF Excess

\* A purse changes only if its escrow does.
LEMMA PurseKept ==
  ASSUME NEW id, escrow'[id].token = escrow[id].token, escrow'[id].amount = escrow[id].amount,
         status'[id] = status[id], IsPooled(id)' = IsPooled(id)
  PROVE  PurseOf(id)' = PurseOf(id)
  BY DEF PurseOf
-----------------------------------------------------------------------------
(* The kinds of steps.                                                         *)

\* New escrows are new purses.
LEMMA OpenStep ==
  ASSUME Accounted, LiabilityExact, Accounted', LiabilityExact',
         Ids \subseteq Ids', \A id \in Ids : PurseOf(id)' = PurseOf(id),
         \A id \in Ids' \ Ids : status'[id] = "Funded",
         \A t \in Tokens : Excess(t)' >= Excess(t)
  PROVE  Promise!Next
<1>1. Promise!Open
  <2>1. DOMAIN Purses \subseteq DOMAIN Purses' /\ \A id \in DOMAIN Purses : Purses'[id] = Purses[id]
    BY Mapped, MappedNext
  <2>2. \A id \in DOMAIN Purses' \ DOMAIN Purses : Purses'[id].outcome = "Funded"
    <3>1. ASSUME NEW id \in Ids' \ Ids PROVE Purses'[id].outcome = "Funded"
      <4>1. Purses'[id] = PurseOf(id)'
        BY MappedNext
      <4> QED BY <4>1 DEF PurseOf
    <3> QED BY <3>1, Mapped, MappedNext
  <2> QED BY <2>1, <2>2 DEF Promise!Open, Promise!Untouched
<1>2. Promise!Intact(Tokens)
  BY Mapped, MappedNext DEF Promise!Intact
<1> QED BY <1>1, <1>2 DEF Promise!Next

\* More or less money in an escrow is more or less money in its purse.
LEMMA AdjustStep ==
  ASSUME Accounted, LiabilityExact, Accounted', LiabilityExact',
         NEW id \in Ids, nextId' = nextId, status' = status, pooled' = pooled, Funded(id),
         \A x \in Ids \ {id} : escrow'[x] = escrow[x],
         escrow'[id].token = escrow[id].token,
         IsPooled(id) \/ escrow'[id].amount >= escrow[id].amount,
         \A t \in Tokens : Excess(t)' >= Excess(t)
  PROVE  Promise!Next
<1>1. Ids' = Ids /\ status[id] = "Funded"
  BY DEF Ids, Accounted, StatusMirrors, Funded
<1>2. DOMAIN Purses' = DOMAIN Purses /\ id \in DOMAIN Purses
  BY <1>1, Mapped, MappedNext
<1>3. \A x \in DOMAIN Purses \ {id} : Purses'[x] = Purses[x]
  <2>1. ASSUME NEW x \in Ids \ {id} PROVE PurseOf(x)' = PurseOf(x)
    BY <2>1 DEF PurseOf, IsPooled
  <2> QED BY <1>1, <2>1, Mapped, MappedNext
<1>4. /\ Purses[id].outcome = "Funded"
      /\ Purses'[id] = [Purses[id] EXCEPT !.held = Purses'[id].held]
      /\ Purses[id].shared \/ Purses'[id].held >= Purses[id].held
  <2>1. Purses[id] = PurseOf(id) /\ Purses'[id] = PurseOf(id)'
    BY <1>1, Mapped, MappedNext
  <2>2. /\ PurseOf(id) = [token |-> escrow[id].token, held |-> escrow[id].amount,
                          shared |-> IsPooled(id), outcome |-> "Funded"]
        /\ PurseOf(id)' = [token |-> escrow[id].token, held |-> escrow'[id].amount,
                           shared |-> IsPooled(id), outcome |-> "Funded"]
    BY <1>1 DEF PurseOf, IsPooled
  <2> QED BY <2>1, <2>2
<1>5. Promise!Adjust(id)
  BY <1>2, <1>3, <1>4 DEF Promise!Adjust, Promise!Untouched
<1>6. Promise!Intact(Tokens)
  BY Mapped, MappedNext DEF Promise!Intact
<1> QED BY <1>2, <1>5, <1>6 DEF Promise!Next

\* Settled escrows are emptied purses.
LEMMA EmptyStep ==
  ASSUME Accounted, LiabilityExact, Accounted', LiabilityExact', SettleStep
  PROVE  Promise!Next
<1>1. TypeOK /\ StatusMirrors
  BY DEF Accounted
<1>2. PICK ids \in SUBSET Ids : \E to \in [ids -> Terminal] :
        Settled(ids, to) /\ \A id \in ids : Ripe(id, to[id])
  BY <1>1, SettleStepEffect
<1>3. PICK to \in [ids -> Terminal] : Settled(ids, to) /\ \A id \in ids : Ripe(id, to[id])
  BY <1>2
<1>4. Ids' = Ids /\ DOMAIN Purses' = DOMAIN Purses /\ DOMAIN Purses = Ids
  BY <1>3, Mapped, MappedNext DEF Settled, Ids
<1>5. ASSUME NEW id \in Ids
      PROVE  \/ Purses'[id] = Purses[id]
             \/ /\ Purses[id].outcome = "Funded"
                /\ Purses'[id].outcome \in Promise!Outcomes(id)
                /\ Purses'[id] = [token |-> Purses[id].token, held |-> 0,
                                  shared |-> Purses[id].shared, outcome |-> Purses'[id].outcome]
  <2>1. Purses[id] = PurseOf(id) /\ Purses'[id] = PurseOf(id)'
    BY <1>4, Mapped, MappedNext
  <2>2. IsPooled(id)' = IsPooled(id)
    BY <1>3 DEF Settled, IsPooled
  <2>3. CASE id \notin ids
    <3>1. escrow'[id] = escrow[id] /\ status'[id] = status[id]
      BY <1>3, <2>3 DEF Settled
    <3> QED BY <2>1, <2>2, <3>1, PurseKept
  <2>4. CASE id \in ids
    <3>1. status[id] = "Funded" /\ status'[id] = to[id] /\ to[id] \in Terminal
      BY <1>1, <1>3, <2>4 DEF Settled, StatusMirrors, Ripe, Funded
    <3>2. escrow'[id].token = escrow[id].token
      <4>1. escrow[id] \in EscrowData /\ escrow'[id] = [escrow[id] EXCEPT !.status = to[id]]
        BY <1>1, <1>3, <2>4 DEF TypeOK, Settled
      <4> QED BY <4>1 DEF EscrowData
    <3>3. /\ PurseOf(id) = [token |-> escrow[id].token, held |-> escrow[id].amount,
                            shared |-> IsPooled(id), outcome |-> "Funded"]
          /\ PurseOf(id)' = [token |-> escrow[id].token, held |-> 0,
                             shared |-> IsPooled(id), outcome |-> to[id]]
      BY <2>2, <3>1, <3>2 DEF PurseOf, Terminal
    <3>4. to[id] \in Promise!Outcomes(id)
      <4>1. IsPooled(id) => to[id] = "Released"
        BY <1>3, <2>4 DEF Ripe
      <4>2. Purses[id].shared = IsPooled(id)
        BY <2>1, <3>3
      <4> QED BY <3>1, <4>1, <4>2 DEF Promise!Outcomes, Terminal, EscrowStatus
    <3>5. Purses[id].outcome = "Funded" /\ Purses'[id].outcome = to[id]
      BY <2>1, <3>3
    <3>6. Purses'[id] = [token |-> Purses[id].token, held |-> 0, shared |-> Purses[id].shared,
                         outcome |-> Purses'[id].outcome]
      BY <2>1, <3>3
    <3> QED BY <3>4, <3>5, <3>6
  <2> QED BY <2>3, <2>4
<1>6. Promise!Settle
  BY <1>4, <1>5 DEF Promise!Settle, Promise!Untouched
<1>7. Promise!Intact(Tokens)
  <2>1. ASSUME NEW t \in Tokens PROVE Excess(t)' >= Excess(t)
    <3>1. PICK d : d = - Due(to, t)
      OBVIOUS
    <3>2. Due(to, t) \in Int /\ liability[t] \in Int /\ balance[t][Contract] \in Int
      <4>1. DOMAIN to = ids
        OBVIOUS
      <4>2. Due(to, t) \in Nat
        BY <1>1, <4>1, DueType
      <4> QED BY <1>1, <4>2, PartiesAssumption DEF TypeOK, Amount
    <3>3. liability'[t] = liability[t] + d /\ balance'[t][Contract] >= balance[t][Contract] + d
      BY <1>3, <3>1, <3>2 DEF Settled
    <3> QED BY <3>1, <3>2, <3>3, ExcessKept
  <2> QED BY <2>1, Mapped, MappedNext DEF Promise!Intact
<1> QED BY <1>6, <1>7 DEF Promise!Next
-----------------------------------------------------------------------------
(* The refinement.                                                             *)

\* A contract just deployed has promised nothing yet.
LEMMA PromiseInit == Init => Promise!Init
<1> SUFFICES ASSUME Init PROVE Promise!Init
  OBVIOUS
<1>1. status = <<>> /\ DOMAIN status = {}
  BY DEF Init
<1>2. Purses = <<>>
  BY <1>1 DEF Purses
<1>3. ASSUME NEW t \in Tokens PROVE Surplus[t] = 0
  <2>1. Coins([id \in DOMAIN status |-> Owed(id, t)]) = {}
    BY <1>1 DEF Coins
  <2>2. Total([id \in DOMAIN status |-> Owed(id, t)]) = 0
    BY <2>1, FS_EmptySet DEF Total
  <2>3. balance[t][Contract] = 0
    BY PartiesAssumption, InputsAssumption DEF Init
  <2> QED BY <2>2, <2>3 DEF Surplus
<1>4. Surplus = [t \in Tokens |-> 0]
  BY <1>3 DEF Surplus
<1> QED BY <1>2, <1>4 DEF Promise!Init

\* Whoever does what, the purses move as EscrowPromise says.
LEMMA PromiseStep ==
  ASSUME Accounted, LiabilityExact, Accounted', LiabilityExact', Next
  PROVE  Promise!Next \/ UNCHANGED <<Purses, Surplus>>
<1>1. TypeOK /\ PoolExact /\ StatusMirrors /\ escrow \in [Ids -> EscrowData]
  BY DEF Accounted, TypeOK
<1>2. nextId \in Nat /\ Ids = 0..(nextId - 1) /\ Ids' = 0..(nextId' - 1) /\ DOMAIN pooled \subseteq Ids
  BY <1>1 DEF TypeOK, Ids
<1>3. CASE CreateStep
  <2>1. PICK payer \in Addr, reqs \in Seq(Request) :
          reqs # <<>> /\ CreateEscrowInner(payer, reqs)
    BY <1>3 DEF CreateStep
  <2>2. /\ Len(reqs) \in Nat \ {0} /\ nextId' = nextId + Len(reqs)
        /\ \A id \in Ids : escrow'[id] = escrow[id] /\ status'[id] = status[id]
        /\ \A id \in nextId..(nextId + Len(reqs) - 1) : status'[id] = "Funded"
        /\ \A i \in DOMAIN reqs : reqs[i].amount \in Nat
        /\ \A t \in Tokens : /\ liability'[t] = liability[t] + Deposit(reqs)[t]
                             /\ balance'[t][Contract] = balance[t][Contract] + Deposit(reqs)[t]
        /\ pooled' = pooled
    BY <1>1, <2>1, CreateEffect
  <2>3. Ids \subseteq Ids' /\ \A id \in Ids' \ Ids : id \in nextId..(nextId + Len(reqs) - 1)
    BY <1>2, <2>2
  <2>4. \A id \in Ids : PurseOf(id)' = PurseOf(id)
    BY <2>2 DEF PurseOf, IsPooled
  <2>5. ASSUME NEW t \in Tokens PROVE Excess(t)' >= Excess(t)
    <3>1. Deposit(reqs)[t] \in Int
      BY <2>2, DepositType
    <3>2. balance'[t][Contract] >= balance[t][Contract] + Deposit(reqs)[t]
      BY <1>1, <2>2, <3>1, PartiesAssumption DEF TypeOK
    <3> QED BY <2>2, <3>1, <3>2, ExcessKept
  <2> QED BY <2>2, <2>3, <2>4, <2>5, OpenStep
<1>4. CASE \E req \in PoolRequest : CreatePooledEscrow(req)
  <2>1. PICK req \in PoolRequest : CreatePooledEscrow(req)
    BY <1>4
  <2>2. /\ nextId' = nextId + 1 /\ status'[nextId] = "Funded"
        /\ \A id \in Ids : escrow'[id] = escrow[id] /\ status'[id] = status[id]
        /\ pooled' = Put(pooled, nextId, [funding_target |-> req.funding_target,
                                          funding_deadline |-> req.funding_deadline])
        /\ UNCHANGED <<liability, balance>>
    BY <1>1, <2>1, PoolEffect
  <2>3. Ids \subseteq Ids' /\ (\A id \in Ids' \ Ids : id = nextId) /\ nextId \notin Ids
    BY <1>2, <2>2
  <2>4. ASSUME NEW id \in Ids PROVE PurseOf(id)' = PurseOf(id)
    <3>1. DOMAIN pooled' = DOMAIN pooled \cup {nextId}
      BY <2>2 DEF Put
    <3>2. IsPooled(id)' = IsPooled(id)
      BY <2>3, <2>4, <3>1 DEF IsPooled
    <3> QED BY <2>2, <3>2, PurseKept
  <2>5. ASSUME NEW t \in Tokens PROVE Excess(t)' >= Excess(t)
    <3>1. Excess(t)' = Excess(t) /\ Excess(t) \in Int
      BY <1>1, <2>2, PartiesAssumption DEF Excess, TypeOK, Amount
    <3> QED BY <3>1
  <2> QED BY <2>2, <2>3, <2>4, <2>5, OpenStep
<1>5. CASE \E id \in Ids, a \in Addr, amount \in Int : DepositStep(id, a, amount)
  <2>1. PICK id \in Ids, a \in Addr, amount \in Int : DepositStep(id, a, amount)
    BY <1>5
  <2>2. /\ amount \in Nat /\ Funded(id)
        /\ escrow' = [escrow EXCEPT ![id].amount = @ + amount]
        /\ \A t \in Tokens :
             /\ liability'[t] = liability[t] + Just(escrow[id].token, amount)[t]
             /\ balance'[t][Contract] = balance[t][Contract] + Just(escrow[id].token, amount)[t]
        /\ UNCHANGED <<nextId, status, pooled>>
    BY <1>1, <2>1, DepositEffect
  <2>3. /\ \A x \in Ids \ {id} : escrow'[x] = escrow[x]
        /\ escrow'[id].token = escrow[id].token
        /\ escrow'[id].amount = escrow[id].amount + amount
    BY <1>1, <2>2 DEF EscrowData
  <2>4. escrow[id].amount \in Int
    BY <1>1 DEF EscrowData, Amount
  <2>5. ASSUME NEW t \in Tokens PROVE Excess(t)' >= Excess(t)
    <3>1. PICK d : d = Just(escrow[id].token, amount)[t]
      OBVIOUS
    <3>2. d \in Int
      BY <2>2, <3>1 DEF Just
    <3>3. balance[t][Contract] \in Int
      BY <1>1, PartiesAssumption DEF TypeOK
    <3>4. liability'[t] = liability[t] + d /\ balance'[t][Contract] >= balance[t][Contract] + d
      BY <2>2, <3>1, <3>2, <3>3
    <3> QED BY <3>2, <3>4, ExcessKept
  <2>6. escrow'[id].amount >= escrow[id].amount
    BY <2>2, <2>3, <2>4
  <2> QED BY <2>2, <2>3, <2>5, <2>6, AdjustStep
<1>6. CASE \E id \in Ids, a \in Addr : ClaimRefund(id, a)
  <2>1. PICK id \in Ids, a \in Addr : ClaimRefund(id, a)
    BY <1>6
  <2>2. PICK k : k = Unclaimed(id, a)
    OBVIOUS
  <2>3. /\ Funded(id) /\ id \in DOMAIN pooled
        /\ escrow' = [escrow EXCEPT ![id].amount = @ - k]
        /\ \A t \in Tokens :
             /\ liability'[t] = liability[t] - Just(escrow[id].token, k)[t]
             /\ balance'[t][Contract] = balance[t][Contract] - Just(escrow[id].token, k)[t]
        /\ UNCHANGED <<nextId, status, pooled>>
    <3>1. /\ Funded(id) /\ id \in DOMAIN pooled
          /\ escrow' = [escrow EXCEPT ![id].amount = @ - Unclaimed(id, a)]
          /\ \A t \in Tokens :
               /\ liability'[t] = liability[t] - Just(escrow[id].token, Unclaimed(id, a))[t]
               /\ balance'[t][Contract] =
                    balance[t][Contract] - Just(escrow[id].token, Unclaimed(id, a))[t]
          /\ UNCHANGED <<nextId, status, pooled>>
      BY <1>1, <2>1, ClaimEffect
    <3> QED BY <2>2, <3>1
  <2>4. k \in Nat
    BY <1>1, <2>2, RecordedType
  <2>5. (\A x \in Ids \ {id} : escrow'[x] = escrow[x]) /\ escrow'[id].token = escrow[id].token
    BY <1>1, <2>3 DEF EscrowData
  <2>6. ASSUME NEW t \in Tokens PROVE Excess(t)' >= Excess(t)
    <3>1. PICK d : d = - Just(escrow[id].token, k)[t]
      OBVIOUS
    <3>2. Just(escrow[id].token, k)[t] \in Int
      BY <2>4 DEF Just
    <3>3. balance[t][Contract] \in Int /\ liability[t] \in Int
      BY <1>1, PartiesAssumption DEF TypeOK, Amount
    <3>4. /\ d \in Int
          /\ liability'[t] = liability[t] + d /\ balance'[t][Contract] >= balance[t][Contract] + d
      BY <2>3, <3>1, <3>2, <3>3
    <3> QED BY <3>4, ExcessKept
  <2> QED BY <2>3, <2>5, <2>6, AdjustStep DEF IsPooled
<1>7. CASE SettleStep
  BY <1>7, EmptyStep
<1>8. ASSUME UNCHANGED <<nextId, status, pooled, liability>>,
             \A x \in Ids : escrow'[x].token = escrow[x].token /\ escrow'[x].amount = escrow[x].amount
      PROVE  /\ DOMAIN Purses' = DOMAIN Purses /\ Purses' = Purses
  <2>1. Ids' = Ids /\ \A x \in Ids : PurseOf(x)' = PurseOf(x)
    BY <1>8 DEF Ids, PurseOf, IsPooled
  <2>2. DOMAIN status = Ids /\ DOMAIN status' = Ids
    BY <1>1, <1>8 DEF TypeOK
  <2> QED BY <2>1, <2>2 DEF Purses
<1>9. ASSUME UNCHANGED <<nextId, status, pooled, liability, balance>>,
             \A x \in Ids : escrow'[x].token = escrow[x].token /\ escrow'[x].amount = escrow[x].amount
      PROVE  UNCHANGED <<Purses, Surplus>>
  <2>1. \A t \in Tokens : Surplus'[t] = Surplus[t]
    BY <1>9, Mapped, MappedNext DEF Excess
  <2>2. Surplus' = Surplus
    BY <2>1 DEF Surplus
  <2> QED BY <1>8, <1>9, <2>2
<1>10. CASE \E id \in Ids, a \in Addr, b \in Addr : EditStep(id, a, b)
  BY <1>1, <1>9, <1>10, EditEffect
<1>11. CASE \E caller \in Addr : Pause(caller) \/ Unpause(caller)
  BY <1>9, <1>11 DEF Pause, Unpause, books, world
<1>12. CASE Environment
  <2>1. /\ \A t \in Tokens \ ClawbackTokens : balance'[t][Contract] >= balance[t][Contract]
        /\ UNCHANGED <<nextId, escrow, status, pooled, liability>>
    BY <1>1, <1>12, EnvironmentEffect
  <2>2. Purses' = Purses
    BY <1>8, <2>1
  <2>3. ASSUME NEW t \in Tokens \ ClawbackTokens PROVE Surplus'[t] >= Surplus[t]
    <3>1. PICK d : d = 0
      OBVIOUS
    <3>2. /\ liability'[t] = liability[t] + d /\ d \in Int
          /\ balance'[t][Contract] >= balance[t][Contract] + d
      BY <1>1, <2>1, <3>1, PartiesAssumption DEF TypeOK, Amount
    <3> QED BY <3>2, ExcessKept, Mapped, MappedNext
  <2> QED BY <2>2, <2>3 DEF Promise!Next, Promise!Intact
<1> QED
  BY <1>1, <1>3, <1>4, <1>5, <1>6, <1>7, <1>10, <1>11, <1>12, StepKinds DEF DepositStep

\* The contract implements EscrowPromise, whatever the parties, the tokens and
\* the number of escrows.
THEOREM ContractKeepsItsPromise == Spec => PromiseKept
<1>1. Accounted /\ Accounted' /\ LiabilityExact /\ LiabilityExact' /\ [Next]_vars
        => [Promise!Next]_<<Purses, Surplus>>
  <2>1. ASSUME UNCHANGED vars PROVE UNCHANGED <<Purses, Surplus>>
    BY <2>1 DEF vars, books, Purses, PurseOf, IsPooled, Surplus, Owed
  <2> QED BY <2>1, PromiseStep
<1> QED
  BY <1>1, PromiseInit, AccountedAlways, LiabilityAccounting, PTL DEF Spec, PromiseKept, Promise!Spec
=============================================================================
