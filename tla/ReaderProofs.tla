------------------------------- MODULE ReaderProofs -------------------------------
(* Proofs about the readers of the contract: the subscription, the indexer and    *)
(* the view, each alone with a contract that anybody may call.                    *)
EXTENDS ReaderProperties, EscrowFinalityProofs

-----------------------------------------------------------------------------
(* The contract that is read.                                                    *)

\* What is published along with them, the steps are steps of the contract.
LEMMA ChainCalls == ASSUME ChainStep PROVE Next
<1>1. CASE PublishingCreate
  BY <1>1 DEF PublishingCreate, Next, Create
<1>2. CASE \E id \in DOMAIN escrow, a \in Addr : PublishingChange(id, a)
  BY <1>2 DEF PublishingChange, Next, Use
<1>3. CASE \E id \in DOMAIN escrow : PublishingSettlement(id)
  BY <1>3 DEF PublishingSettlement, PublishingRelease, PublishingRefund, Next, Use
<1>4. CASE PublishingSettleMany
  BY <1>4 DEF PublishingSettleMany, Next
<1>5. CASE PublishingPause
  BY <1>5 DEF PublishingPause, Next
<1>6. CASE Tick
  BY <1>6 DEF Next, Environment
<1> QED BY <1>1, <1>2, <1>3, <1>4, <1>5, <1>6 DEF ChainStep

\* A pool has no deadline of its own for refunds.
PoolsOpenEnded == \A id \in DOMAIN pooled : escrow[id].refund_after = {}

\* What the readers rely on: the contract's own invariants and that one.
ChainKept == Accounted /\ PoolsOpenEnded

\* What a copy of an escrow taken earlier still tells.
Tells(copy, id) ==
  /\ id \in DOMAIN escrow /\ copy.refund_after = escrow[id].refund_after
  /\ copy.status # "Funded" => copy.status = escrow[id].status

\* The deadline of an escrow stays, and so does the outcome of a settled one.
LEMMA StoredStep ==
  ASSUME Accounted, Next, NEW id \in DOMAIN escrow
  PROVE  /\ id \in DOMAIN escrow' /\ escrow'[id].refund_after = escrow[id].refund_after
         /\ escrow[id].status # "Funded" => escrow'[id].status = escrow[id].status
<1>1. id \in Ids
  BY DEF Accounted, TypeOK
<1>2. TermsKeptFor(id)
  BY <1>1, TermsStep
<1>3. escrow[id].status # "Funded" => Untouched(id)
  BY <1>1, FinalStep
<1> QED BY <1>2, <1>3 DEF TermsKeptFor, Fixed, Untouched

\* So whatever a copy tells stays true.
LEMMA TellsStep ==
  ASSUME Accounted, Next, NEW copy, NEW id, Tells(copy, id)
  PROVE  Tells(copy, id)'
BY StoredStep DEF Tells

\* Pools are made without a deadline, and a deadline stays as it is.
LEMMA PoolsOpenStep ==
  ASSUME ChainKept, Next
  PROVE  PoolsOpenEnded'
<1>1. /\ Accounted /\ TypeOK /\ PoolExact /\ DOMAIN escrow = Ids
      /\ DOMAIN pooled \subseteq Ids /\ PoolsOpenEnded
  BY DEF ChainKept, Accounted, TypeOK
<1>2. ASSUME pooled' = pooled
      PROVE  PoolsOpenEnded'
  BY <1>1, <1>2, StoredStep DEF PoolsOpenEnded
<1>3. CASE CreateStep
  <2>1. PICK payer \in Addr, reqs \in Seq(Request) :
          reqs # <<>> /\ CreateEscrowInner(payer, reqs)
    BY <1>3 DEF CreateStep
  <2> QED BY <1>2, <2>1 DEF CreateEscrowInner
<1>4. CASE \E req \in PoolRequest : CreatePooledEscrow(req)
  <2>1. PICK req \in PoolRequest : CreatePooledEscrow(req)
    BY <1>4
  <2>2. PICK e, p : /\ escrow' = Put(escrow, nextId, e) /\ pooled' = Put(pooled, nextId, p)
                    /\ e.refund_after = {}
    BY <2>1 DEF CreatePooledEscrow
  <2>3. \A id \in DOMAIN pooled' : id = nextId \/ id \in DOMAIN pooled
    BY <2>2 DEF Put
  <2>4. escrow'[nextId].refund_after = {}
    BY <2>2 DEF Put
  <2> QED BY <1>1, <2>3, <2>4, StoredStep DEF PoolsOpenEnded
<1>5. CASE \E id \in Ids, a \in Addr, amount \in Int : DepositStep(id, a, amount)
  <2>1. pooled' = pooled
    BY <1>1, <1>5, DepositEffect
  <2> QED BY <1>2, <2>1
<1>6. CASE \E id \in Ids, a \in Addr : ClaimRefund(id, a)
  BY <1>2, <1>6 DEF ClaimRefund
<1>7. CASE \E id \in Ids, a \in Addr, b \in Addr : EditStep(id, a, b)
  <2>1. pooled' = pooled
    BY <1>1, <1>7, EditEffect
  <2> QED BY <1>2, <2>1
<1>8. CASE SettleStep
  <2>1. PICK ids \in SUBSET Ids : \E to \in [ids -> Terminal] : Settled(ids, to)
    BY <1>1, <1>8, SettleStepEffect
  <2> QED BY <1>2, <2>1 DEF Settled
<1>9. CASE \E caller \in Addr : Pause(caller) \/ Unpause(caller)
  BY <1>2, <1>9 DEF Pause, Unpause, books
<1>10. CASE Environment
  BY <1>1, <1>2, <1>10, EnvironmentEffect
<1> QED
  BY <1>1, <1>3, <1>4, <1>5, <1>6, <1>7, <1>8, <1>9, <1>10, StepKinds DEF DepositStep

\* The contract keeps its invariants, whoever reads it.
LEMMA ChainKeptInit ==
  ASSUME ChainInit
  PROVE  ChainKept
BY AccountedInit DEF ChainInit, ChainKept, PoolsOpenEnded, Init

\* Every step of the contract keeps what the readers rely on.
LEMMA ChainKeptStep ==
  ASSUME ChainKept, [Next]_vars
  PROVE  ChainKept'
<1>1. CASE Next
  BY <1>1, AccountedStep, PoolsOpenStep DEF ChainKept
<1>2. CASE UNCHANGED vars
  <2>1. UNCHANGED <<escrow, pooled>>
    BY <1>2 DEF vars, books
  <2> QED BY <1>2, <2>1, AccountedStep DEF ChainKept, PoolsOpenEnded
<1> QED BY <1>1, <1>2

\* While the contract stands still, so does what is kept of it.
LEMMA ChainStill ==
  ASSUME ChainKept, UNCHANGED chain
  PROVE  ChainKept'
BY ChainKeptStep DEF chain, vars

-----------------------------------------------------------------------------
(* The view.                                                                   *)

\* What the action asked for has happened, and what shows that.
Performed == 0 \in DOMAIN escrow /\ (act # "create" => escrow[0].status # "Funded")
ClockReached == \E time \in LocalClock : clock <= time
ShowsIt(copies) == copies # {} /\ \A e \in copies : act # "create" => e.status # "Funded"

\* What the view has read and still holds was true when it was read and has not
\* become false; its clock shows a time the local clock has reached; once an action
\* is performed every later read shows it; and the action resolves after such a
\* read, unless it waits for an earlier one.
ViewKept ==
  /\ ChainKept /\ clock \in Int /\ ClockReached
  /\ \A copies \in {seen, data} : \A e, f \in copies : e = f /\ Tells(e, 0)
  /\ action \in {"performed", "refreshing", "resolved"} => Performed
  /\ action \in {"refreshing", "resolved"} /\ ~joined /\ reading = "read" => ShowsIt(seen)
  /\ action = "resolved" /\ ~joined => failed \/ ShowsIt(data)

\* The clock that was reached stays reached, and a new sample of it is reached.
LEMMA ClockStays ==
  ASSUME now \in Nat, now' \in Nat, now' >= now, clock \in Int, ClockReached,
         clock' = clock \/ (clock' \in LocalClock /\ now' = now)
  PROVE  clock' \in Int /\ ClockReached'
<1>1. CASE clock' = clock
  <2>1. PICK error \in ClockErrors : clock <= now + error
    BY DEF ClockReached, LocalClock
  <2>2. error \in Int
    BY ViewAssumption
  <2>3. clock' <= now' + error
    <3>1. ASSUME NEW m \in Nat, NEW n \in Nat, n >= m, NEW c \in Int, NEW e \in Int, c <= m + e
          PROVE  c <= n + e
      BY <3>1
    <3> QED BY <1>1, <2>1, <2>2, <3>1
  <2>4. now' + error \in LocalClock'
    BY DEF LocalClock
  <2> QED BY <1>1, <2>3, <2>4 DEF ClockReached
<1>2. CASE clock' \in LocalClock /\ now' = now
  <2>1. clock' \in Int /\ clock' \in LocalClock' /\ clock' <= clock'
    BY <1>2, ViewAssumption DEF LocalClock
  <2> QED BY <2>1 DEF ClockReached
<1> QED BY <1>1, <1>2

\* A step of the view alone leaves true what is true of the contract.
LEMMA WhileStill ==
  ASSUME ViewKept, UNCHANGED chain, clock' = clock \/ clock' \in LocalClock
  PROVE  /\ ChainKept' /\ clock' \in Int /\ ClockReached'
         /\ act' = act => Performed' = Performed
         /\ \A e : Tells(e, 0)' = Tells(e, 0)
<1>1. now' = now /\ now \in Nat /\ escrow' = escrow
  BY DEF ViewKept, ChainKept, Accounted, TypeOK, chain, books, vars
<1>2. ChainKept' /\ clock' \in Int /\ ClockReached'
  BY <1>1, ChainStill, ClockStays DEF ViewKept
<1>3. act' = act => Performed' = Performed
  BY <1>1 DEF Performed
<1>4. \A e : Tells(e, 0)' = Tells(e, 0)
  BY <1>1 DEF Tells
<1> QED BY <1>2, <1>3, <1>4

\* A step of the contract falsifies nothing of it.
LEMMA ViewKeptByChain ==
  ASSUME ViewKept, Next, UNCHANGED viewVars
  PROVE  ViewKept'
<1>1. ChainKept /\ Accounted /\ now \in Nat
  BY DEF ViewKept, ChainKept, Accounted, TypeOK
<1>2. ChainKept' /\ now' >= now /\ now' \in Nat
  <2>1. ChainKept'
    BY <1>1, ChainKeptStep
  <2> QED BY <1>1, <2>1, ClockStep DEF ChainKept, Accounted, TypeOK
<1>3. Performed => Performed'
  BY <1>1, StoredStep DEF Performed, viewVars
<1>4. \A copies \in {seen, data} : \A e, f \in copies : e = f /\ Tells(e, 0)'
  BY <1>1, TellsStep DEF ViewKept
<1>5. clock' \in Int /\ ClockReached'
  BY <1>1, <1>2, ClockStays DEF ViewKept, viewVars
<1> QED BY <1>2, <1>3, <1>4, <1>5 DEF ViewKept, viewVars, ShowsIt

\* What is read from the ledger is what the ledger has.
LEMMA ViewKeptByRead ==
  ASSUME ViewKept, ReadLedger
  PROVE  ViewKept'
<1>1. /\ UNCHANGED chain /\ reading' = "read" /\ seen' = (IF Exists(0) THEN {escrow[0]} ELSE {})
      /\ UNCHANGED <<data, failed, clock, action, act, joined>>
  BY DEF ReadLedger, actionVars
<1>2. /\ ChainKept' /\ clock' \in Int /\ ClockReached'
      /\ Performed' = Performed /\ \A e : Tells(e, 0)' = Tells(e, 0)
  BY <1>1, WhileStill
<1>3. \A e, f \in seen' : e = f /\ Tells(e, 0)
  BY <1>1 DEF Tells, Exists
<1>4. \A e, f \in data' : e = f /\ Tells(e, 0)
  BY <1>1 DEF ViewKept
<1>5. Performed => ShowsIt(seen)'
  BY <1>1 DEF Performed, ShowsIt, Exists
<1>6. action' \in {"performed", "refreshing", "resolved"} => Performed
  BY <1>1 DEF ViewKept
<1>7. action' = "resolved" /\ ~joined' => failed' \/ ShowsIt(data)'
  BY <1>1 DEF ViewKept, ShowsIt
<1> QED BY <1>1, <1>2, <1>3, <1>4, <1>5, <1>6, <1>7 DEF ViewKept

\* A read that ends, either way, is what an action that resolves has waited for.
LEMMA ViewKeptByAnswer ==
  ASSUME ViewKept, ReadAnswered \/ ReadFails
  PROVE  ViewKept'
<1>1. /\ UNCHANGED chain /\ reading' = "none" /\ UNCHANGED <<seen, clock, act, joined>> /\ Refreshed
      /\ \/ reading = "read" /\ failed' = (seen = {}) /\ data' = (IF seen = {} THEN data ELSE seen)
         \/ failed' = TRUE /\ data' = data
  BY DEF ReadAnswered, ReadFails
<1>2. /\ ChainKept' /\ clock' \in Int /\ ClockReached'
      /\ Performed' = Performed /\ \A e : Tells(e, 0)' = Tells(e, 0)
  BY <1>1, WhileStill
<1>3. \A copies \in {seen', data'} : \A e, f \in copies : e = f /\ Tells(e, 0)
  BY <1>1 DEF ViewKept
<1>4. action' \in {"performed", "refreshing", "resolved"} => Performed
  BY <1>1 DEF ViewKept, Refreshed
<1>5. action' = "resolved" /\ ~joined' => failed' \/ ShowsIt(data)'
  BY <1>1 DEF ViewKept, Refreshed, ShowsIt
<1> QED BY <1>1, <1>2, <1>3, <1>4, <1>5 DEF ViewKept

\* A step of the action that performs nothing asks for a read before it resolves.
LEMMA ViewKeptByAction ==
  ASSUME ViewKept,
         (\E kind : Act(kind)) \/ Decline \/ ActFails \/ OnSuccess
  PROVE  ViewKept'
<1>1. UNCHANGED chain /\ UNCHANGED <<seen, data, failed, clock>>
  BY DEF Act, Decline, ActFails, OnSuccess, queryVars
<1>2. /\ ChainKept' /\ clock' \in Int /\ ClockReached' /\ \A e : Tells(e, 0)' = Tells(e, 0)
  BY <1>1, WhileStill
<1>3. \A copies \in {seen', data'} : \A e, f \in copies : e = f /\ Tells(e, 0)
  BY <1>1 DEF ViewKept
<1>4. \/ action' \in {"asked", "rejected", "failed"}
      \/ /\ action = "performed" /\ action' = "refreshing" /\ act' = act
         /\ ~joined' => reading' # "read"
  BY DEF Act, Decline, ActFails, OnSuccess, Invalidated
<1>5. act' = act => Performed' = Performed
  BY <1>1 DEF Performed, chain, books
<1> QED BY <1>2, <1>3, <1>4, <1>5 DEF ViewKept

\* An action that succeeds is performed.
LEMMA ViewKeptByPerform ==
  ASSUME ViewKept, Perform
  PROVE  ViewKept'
<1>1. ChainKept /\ Accounted /\ TypeOK /\ now \in Nat /\ escrow \in [Ids -> EscrowData]
  BY DEF ViewKept, ChainKept, Accounted, TypeOK
<1>2. /\ UNCHANGED <<reading, seen, data, failed, clock, act>> /\ action' = "performed"
  BY DEF Perform, queryVars
<1>3. Next
  BY ViewAssumption DEF Perform, PublishingRelease, PublishingRefund, Release, ReleaseChecks, Exists,
     Refund, RefundChecks, Funded, Next, Use, Create
<1>4. ChainKept' /\ now' >= now /\ now' \in Nat
  <2>1. ChainKept'
    BY <1>1, <1>3, ChainKeptStep
  <2> QED BY <1>1, <1>3, <2>1, ClockStep DEF ChainKept, Accounted, TypeOK
<1>5. Performed'
  <2>1. CASE act \in {"release", "refund"}
    <3>1. 0 \in DOMAIN escrow /\ \E to \in Terminal : SettleOne(0, to)
      BY <2>1 DEF Perform, PublishingRelease, PublishingRefund, Release, ReleaseChecks, Exists,
         Refund, RefundChecks, Funded, Terminal, EscrowStatus
    <3>2. escrow'[0].status # "Funded" /\ 0 \in DOMAIN escrow'
      BY <1>1, <3>1 DEF SettleOne, Settle, Terminal, EscrowData
    <3> QED BY <3>2 DEF Performed
  <2>2. CASE act = "create"
    <3>1. PICK req \in Requests : CreateEscrowInner(req.payer, <<req>>)
      BY <2>2 DEF Perform, CreateEscrow
    <3>2. nextId' = nextId + 1 /\ nextId \in Nat
      BY <1>1, <3>1 DEF CreateEscrowInner, TypeOK
    <3>3. 0 \in DOMAIN escrow'
      BY <1>4, <3>2 DEF ChainKept, Accounted, TypeOK, Ids
    <3> QED BY <1>2, <2>2, <3>3 DEF Performed
  <2> QED BY <2>1, <2>2 DEF Perform
<1>6. \A copies \in {seen, data} : \A e, f \in copies : e = f /\ Tells(e, 0)'
  BY <1>1, <1>3, TellsStep DEF ViewKept
<1>7. clock' \in Int /\ ClockReached'
  BY <1>1, <1>2, <1>4, ClockStays DEF ViewKept
<1> QED BY <1>2, <1>4, <1>5, <1>6, <1>7 DEF ViewKept

\* Nothing is shown or asked for at first.
LEMMA ViewKeptInit ==
  ASSUME ChainInit, ViewInit
  PROVE  ViewKept
<1>1. ChainKept /\ now = 0
  BY ChainKeptInit DEF ChainInit, Init
<1>2. clock \in Int /\ clock \in LocalClock /\ clock <= clock
  BY <1>1, ViewAssumption DEF ViewInit, LocalClock
<1> QED BY <1>1, <1>2 DEF ViewInit, ViewKept, ClockReached

\* Nor does one that only asks for a read, or looks at the clock.
LEMMA ViewKeptByTimers ==
  ASSUME ViewKept, Poll \/ TimerTick \/ UNCHANGED <<chain, viewVars>>
  PROVE  ViewKept'
<1>1. /\ UNCHANGED chain /\ UNCHANGED <<seen, data, failed, action, act, joined>>
      /\ reading' \in {reading, "asked"} /\ (clock' = clock \/ clock' \in LocalClock)
  BY DEF Poll, TimerTick, viewVars, queryVars, actionVars
<1>2. /\ ChainKept' /\ clock' \in Int /\ ClockReached'
      /\ Performed' = Performed /\ \A e : Tells(e, 0)' = Tells(e, 0)
  BY <1>1, WhileStill
<1>3. \A copies \in {seen', data'} : \A e, f \in copies : e = f /\ Tells(e, 0)
  BY <1>1 DEF ViewKept
<1> QED BY <1>1, <1>2, <1>3 DEF ViewKept, ShowsIt

\* Every step of the view and of the contract keeps all of it.
LEMMA ViewKeptStep ==
  ASSUME ViewKept, [ViewNext]_<<chain, viewVars>>
  PROVE  ViewKept'
BY ViewKeptByChain, ViewKeptByRead, ViewKeptByAnswer, ViewKeptByAction, ViewKeptByPerform,
   ViewKeptByTimers, ChainCalls DEF ViewNext, ReadStep

\* For any contract, whatever it is asked, and any number of failing reads: an
\* action that resolves shows unless it waited for an earlier first read, what the
\* view shows as settled is, and a deadline shows as passed no earlier than the
\* local clock is ahead.
THEOREM ViewsAreTrue == ViewSpec => []ViewTruth
<1>1. ASSUME ViewKept PROVE ViewTruth
  <2>1. /\ StatusMirrors /\ TypeOK /\ PoolsOpenEnded /\ DOMAIN escrow = Ids
        /\ now \in Nat /\ clock \in Int /\ ClockReached /\ escrow \in [Ids -> EscrowData]
    BY <1>1 DEF ViewKept, ChainKept, Accounted, TypeOK
  <2>2. \A e, f \in data : e = f /\ Tells(e, 0)
    BY <1>1 DEF ViewKept
  <2>3. action = "resolved" /\ ~joined => failed \/ ShowsAction
    BY <1>1 DEF ViewKept, ShowsIt, ShowsAction, Shown
  <2>4. ASSUME data # {}, interval > 0, ~RefetchInterval
        PROVE  Shown = {status[0]}
    <3>1. PICK e \in data : isTerminalStatus(e.status)
      BY <2>4 DEF RefetchInterval, Shown
    <3>2. data = {e} /\ Tells(e, 0)
      BY <2>2
    <3>3. e.status = escrow[0].status /\ 0 \in Ids
      BY <2>1, <3>1, <3>2 DEF Tells, isTerminalStatus
    <3> QED BY <2>1, <3>2, <3>3 DEF Shown, StatusMirrors
  <2>5. ASSUME expired, Funded(0)
        PROVE  \E deadline \in escrow[0].refund_after, reached \in LocalClock : reached >= deadline
    <3>1. PICK e \in data : \E deadline \in e.refund_after : clock >= deadline
      BY <2>5 DEF expired, Deadline
    <3>2. PICK deadline \in e.refund_after : clock >= deadline
      BY <3>1
    <3>3. 0 \in Ids /\ e.refund_after = escrow[0].refund_after
      BY <2>1, <2>2 DEF Tells
    <3>4. deadline \in Nat
      <4>1. escrow[0] \in EscrowData
        BY <2>1, <3>3
      <4>2. escrow[0].refund_after \in Option(Nat)
        BY <4>1 DEF EscrowData
      <4> QED BY <3>2, <3>3, <4>2 DEF Option
    <3>5. PICK time \in LocalClock : clock <= time
      BY <2>1 DEF ClockReached
    <3>6. time >= deadline
      BY <2>1, <3>2, <3>4, <3>5, ViewAssumption DEF LocalClock
    <3> QED BY <3>2, <3>3, <3>5, <3>6
  <2> QED BY <2>3, <2>4, <2>5 DEF ViewTruth
<1> QED BY <1>1, ViewKeptInit, ViewKeptStep, PTL DEF ViewSpec

-----------------------------------------------------------------------------
(* The order of the log.                                                         *)

\* A finite set ranked without ties has an order by rank: the place of a member is
\* one more than the number of those before it.  All members are in it.
LEMMA InOrderIs ==
  ASSUME NEW S, IsFiniteSet(S), NEW rank \in [S -> Nat],
         \A x, y \in S : rank[x] = rank[y] => x = y
  PROVE  LET s == InOrder(S, rank) IN
         /\ Cardinality(S) \in Nat /\ s \in [1..Cardinality(S) -> S]
         /\ \A i, j \in 1..Cardinality(S) : i < j => rank[s[i]] < rank[s[j]]
         /\ \A x \in S : \E i \in 1..Cardinality(S) : s[i] = x
<1> DEFINE n == Cardinality(S)
           lower(x) == {y \in S : rank[y] < rank[x]}
           place == [x \in S |-> Cardinality(lower(x)) + 1]
           inverse == [i \in 1..n |-> CHOOSE x \in S : place[x] = i]
           Ordered(s) == \A i, j \in DOMAIN s : i < j => rank[s[i]] < rank[s[j]]
<1>1. n \in Nat /\ IsFiniteSet(1..n) /\ Cardinality(1..n) = n
  BY FS_CardinalityType, FS_Interval
<1>2. ASSUME NEW x \in S
      PROVE  /\ IsFiniteSet(lower(x)) /\ Cardinality(lower(x)) \in Nat
             /\ Cardinality(lower(x)) < n
  <2>1. IsFiniteSet(lower(x)) /\ Cardinality(lower(x)) \in Nat
    BY FS_Subset, FS_CardinalityType
  <2>2. x \notin lower(x) /\ lower(x) \cup {x} \in SUBSET S
    OBVIOUS
  <2>3. Cardinality(lower(x) \cup {x}) = Cardinality(lower(x)) + 1
    BY <2>1, <2>2, FS_AddElement
  <2>4. Cardinality(lower(x) \cup {x}) <= n
    BY <2>2, FS_Subset
  <2> QED BY <1>1, <2>1, <2>3, <2>4
<1>3. ASSUME NEW x \in S, NEW y \in S, rank[x] < rank[y]
      PROVE  Cardinality(lower(x)) < Cardinality(lower(y))
  <2>1. x \notin lower(x) /\ lower(x) \cup {x} \in SUBSET lower(y)
    BY <1>3
  <2>2. Cardinality(lower(x) \cup {x}) = Cardinality(lower(x)) + 1
    BY <1>2, <2>1, FS_AddElement
  <2>3. Cardinality(lower(x) \cup {x}) <= Cardinality(lower(y))
    BY <1>2, <2>1, FS_Subset
  <2> HIDE DEF lower
  <2> QED BY <1>2, <2>2, <2>3
<1>4. /\ place \in [S -> 1..n]
      /\ \A x, y \in S : rank[x] < rank[y] <=> place[x] < place[y]
  <2> HIDE DEF lower, n
  <2>1. \A x \in S : place[x] \in 1..n
    BY <1>1, <1>2
  <2>2. ASSUME NEW x \in S, NEW y \in S
        PROVE  rank[x] < rank[y] <=> place[x] < place[y]
    <3>1. CASE rank[x] < rank[y]
      BY <1>2, <1>3, <3>1
    <3>2. CASE rank[y] < rank[x]
      BY <1>2, <1>3, <3>2
    <3>3. CASE x = y
      BY <3>3, <1>2
    <3> QED BY <3>1, <3>2, <3>3
  <2> QED BY <2>1, <2>2
<1> HIDE DEF place
<1>5. place \in Injection(S, 1..n)
  BY <1>4 DEF Injection, IsInjective
<1>6. place \in Surjection(S, 1..n)
  BY <1>1, <1>5, FS_Injection
<1>7. inverse \in [1..n -> S] /\ \A i \in 1..n : place[inverse[i]] = i
  BY <1>6 DEF Surjection
<1> HIDE DEF inverse
<1>8. Ordered(inverse)
  BY <1>4, <1>7
<1>9. PICK s : s = InOrder(S, rank)
  OBVIOUS
<1>10. s \in [1..n -> S] /\ Ordered(s)
  BY <1>7, <1>8, <1>9 DEF InOrder
<1>11. s \in Injection(1..n, S)
  <2> SUFFICES ASSUME NEW i \in 1..n, NEW j \in 1..n, s[i] = s[j] PROVE i = j
    BY <1>10 DEF Injection, IsInjective
  <2>1. ~(i < j) /\ ~(j < i)
    BY <1>10
  <2> QED BY <1>1, <2>1
<1>12. s \in Surjection(1..n, S)
  BY <1>1, <1>11, FS_Injection
<1> QED BY <1>1, <1>9, <1>10, <1>12 DEF Surjection

\* An event as it is stored; the escrow a lifecycle event is about, and whether what
\* it says of it holds now: of an open one, as far as nothing can change it.
Topic ==
  IndexedActions \cup {"accepted", "rotate", "pay_xfer", "top_up", "contrib", "claimed",
                       "payee_refunded", "paused", "unpaused"}
EventData == [topic : Topic, id : SUBSET Nat, ledger : Nat, snapshot : SUBSET EscrowData]
EventOf(ev, id) == ev.topic \in IndexedActions /\ ev.id = {id}
Agrees(ev, e) ==
  \A f \in IF e.status = "Funded" THEN Lasting ELSE EntityFields : The(ev.snapshot)[f] = e[f]

\* The log tells, of every escrow, where its story ends: from some event of it on,
\* all events of it say what the contract has.
LogKept ==
  /\ ChainKept /\ log \in Seq(EventData)
  /\ \A p \in 1..Len(log) : log[p].topic \in IndexedActions =>
       log[p].snapshot # {} /\ \E id \in DOMAIN escrow : log[p].id = {id}
  /\ \A id \in DOMAIN escrow : \E p \in 1..Len(log) :
       /\ EventOf(log[p], id)
       /\ \A q \in p..Len(log) : EventOf(log[q], id) => Agrees(log[q], escrow[id])

\* What a step appends: snapshots of escrows as the step leaves them, of each one that
\* it creates or settles, and events that carry none.
Announced(events) ==
  /\ events \in Seq(EventData) /\ log' = log \o events
  /\ \A i \in 1..Len(events) : events[i].topic \in IndexedActions =>
       \E id \in DOMAIN escrow' : events[i] = PublishedState(id)
  /\ \A id \in DOMAIN escrow' :
       \/ \E i \in 1..Len(events) : events[i] = PublishedState(id)
       \/ id \in DOMAIN escrow /\ escrow'[id].status \in {"Funded", escrow[id].status}

\* A published state is an event of its escrow and carries it whole.
LEMMA StateIsEvent ==
  ASSUME now \in Nat, TypeOK', NEW id \in DOMAIN escrow'
  PROVE  /\ PublishedState(id) \in EventData /\ PublishedState(id).topic \in IndexedActions
         /\ PublishedState(id).id = {id} /\ PublishedState(id).snapshot = {escrow'[id]}
<1>1. escrow'[id] \in EscrowData /\ id \in Nat
  BY DEF TypeOK, Ids
<1>2. PICK s : s = escrow'[id].status /\ s \in EscrowStatus
  BY <1>1 DEF EscrowData
<1>3. Action(s) \in IndexedActions
  <2>1. /\ Action("Funded") = "created" /\ Action("Released") = "released"
        /\ Action("Refunded") = "refunded" /\ Action("Cancelled") = "cancelled"
    BY DEF Action
  <2> QED BY <1>2, <2>1 DEF EscrowStatus, IndexedActions
<1> QED BY <1>1, <1>2, <1>3 DEF PublishedState, Event, EventData, Topic

\* States published in some order are the states of exactly those escrows.
LEMMA StatesListed ==
  ASSUME now \in Nat, TypeOK', NEW ids \in SUBSET (DOMAIN escrow'), IsFiniteSet(ids),
         NEW rank \in [ids -> Nat], \A x, y \in ids : rank[x] = rank[y] => x = y,
         PublishInOrder(ids, rank)
  PROVE  \E events \in Seq(EventData) :
           /\ log' = log \o events
           /\ \A i \in 1..Len(events) : \E id \in ids : events[i] = PublishedState(id)
           /\ \A id \in ids : \E i \in 1..Len(events) : events[i] = PublishedState(id)
<1>1. PICK n \in Nat : n = Cardinality(ids)
  BY FS_CardinalityType
<1>2. PICK order : order = InOrder(ids, rank)
  OBVIOUS
<1>3. /\ order \in [1..n -> ids]
      /\ \A x \in ids : \E i \in 1..n : order[i] = x
  BY <1>1, <1>2, InOrderIs
<1>4. PICK events : events = [i \in 1..n |-> PublishedState(order[i])]
  OBVIOUS
<1>5. events \in [1..n -> EventData]
  BY <1>3, <1>4, StateIsEvent
<1>6. events \in Seq(EventData) /\ Len(events) = n
  BY <1>5
<1>7. log' = log \o events
  BY <1>2, <1>3, <1>4 DEF PublishInOrder, Publish
<1>8. \A i \in 1..Len(events) : \E id \in ids : events[i] = PublishedState(id)
  BY <1>3, <1>4, <1>6
<1>9. \A id \in ids : \E i \in 1..Len(events) : events[i] = PublishedState(id)
  BY <1>3, <1>4, <1>6
<1> QED BY <1>6, <1>7, <1>8, <1>9

\* A single event without a snapshot, when no escrow is created or settled.
LEMMA NoteAnnounced ==
  ASSUME ChainKept, NEW topic \in Topic \ IndexedActions, NEW id \in SUBSET Nat,
         Publish(<<Event(topic, id, {})>>), DOMAIN escrow' = DOMAIN escrow,
         \A x \in DOMAIN escrow : escrow'[x].status = escrow[x].status
  PROVE  \E events : Announced(events)
<1>1. Event(topic, id, {}) \in EventData /\ Event(topic, id, {}).topic = topic
  BY DEF ChainKept, Accounted, TypeOK, EventData, Event
<1>2. PICK events : events = <<Event(topic, id, {})>>
  OBVIOUS
<1>3. /\ events \in Seq(EventData) /\ Len(events) = 1 /\ events[1].topic \notin IndexedActions
      /\ log' = log \o events
  BY <1>1, <1>2 DEF Publish
<1> QED BY <1>3 DEF Announced

\* What is listed covers what changes.
LEMMA ListAnnounced ==
  ASSUME ChainKept, ChainKept', NEW ids \in SUBSET (DOMAIN escrow'), IsFiniteSet(ids),
         NEW rank \in [ids -> Nat], \A x, y \in ids : rank[x] = rank[y] => x = y,
         PublishInOrder(ids, rank),
         \A x \in (DOMAIN escrow') \ ids : x \in DOMAIN escrow /\ escrow'[x] = escrow[x]
  PROVE  \E events : Announced(events)
<1>1. now \in Nat /\ TypeOK'
  BY DEF ChainKept, Accounted, TypeOK
<1>2. PICK events \in Seq(EventData) :
        /\ log' = log \o events
        /\ \A i \in 1..Len(events) : \E id \in ids : events[i] = PublishedState(id)
        /\ \A id \in ids : \E i \in 1..Len(events) : events[i] = PublishedState(id)
  BY <1>1, StatesListed
<1>3. \A i \in 1..Len(events) : events[i].topic \in IndexedActions =>
        \E id \in DOMAIN escrow' : events[i] = PublishedState(id)
  BY <1>2
<1>4. \A id \in DOMAIN escrow' :
        \/ \E i \in 1..Len(events) : events[i] = PublishedState(id)
        \/ id \in DOMAIN escrow /\ escrow'[id].status \in {"Funded", escrow[id].status}
  BY <1>2
<1> QED BY <1>2, <1>3, <1>4 DEF Announced

\* The escrows of a creation are announced.
LEMMA CreateAnnounced ==
  ASSUME ChainKept, ChainKept', PublishingCreate
  PROVE  \E events : Announced(events)
<1>1. /\ TypeOK /\ TypeOK' /\ nextId \in Nat /\ nextId' \in Nat
      /\ DOMAIN escrow = 0..(nextId - 1) /\ DOMAIN escrow' = 0..(nextId' - 1)
  BY DEF ChainKept, Accounted, TypeOK, Ids
<1>2. CreateStep \/ \E req \in PoolRequest : CreatePooledEscrow(req)
  BY CreationKinds DEF PublishingCreate, Create
<1>3. \A x \in DOMAIN escrow : escrow'[x] = escrow[x]
  <2>1. CASE CreateStep
    <3>1. PICK payer \in Addr, reqs \in Seq(Request) :
            reqs # <<>> /\ CreateEscrowInner(payer, reqs)
      BY <2>1 DEF CreateStep
    <3> QED BY <1>1, <3>1, CreateEffect DEF Ids
  <2>2. CASE \E req \in PoolRequest : CreatePooledEscrow(req)
    BY <1>1, <2>2, PoolEffect DEF Ids
  <2> QED BY <1>2, <2>1, <2>2
<1>4. PICK ids : ids = nextId..nextId' - 1
  OBVIOUS
<1>5. PICK rank : rank = [id \in ids |-> id]
  OBVIOUS
<1>6. /\ ids \in SUBSET (DOMAIN escrow') /\ IsFiniteSet(ids) /\ rank \in [ids -> Nat]
      /\ \A x, y \in ids : rank[x] = rank[y] => x = y
  <2>1. nextId \in Int /\ nextId' - 1 \in Int
    BY <1>1
  <2>2. IsFiniteSet(ids)
    BY <1>4, <2>1, FS_Interval
  <2>3. PICK m : m = nextId' /\ m \in Nat /\ DOMAIN escrow' = 0..(m - 1) /\ ids = nextId..(m - 1)
    BY <1>1, <1>4
  <2>4. \A id \in nextId..(m - 1) : id \in Nat /\ id \in 0..(m - 1)
    <3>1. nextId \in Nat /\ m \in Nat
      BY <1>1, <2>3
    <3> QED BY <3>1
  <2> QED BY <1>5, <2>2, <2>3, <2>4
<1>7. PublishInOrder(ids, rank)
  BY <1>4, <1>5 DEF PublishingCreate, PublishStates
<1>8. \A x \in (DOMAIN escrow') \ ids : x \in DOMAIN escrow
  BY <1>1, <1>4
<1> QED BY <1>3, <1>6, <1>7, <1>8, ListAnnounced

\* A change of an open escrow is noted.
LEMMA ChangeAnnounced ==
  ASSUME ChainKept, NEW id \in DOMAIN escrow, NEW a \in Addr, PublishingChange(id, a)
  PROVE  \E events : Announced(events)
<1>1. TypeOK /\ PoolExact /\ id \in Ids /\ id \in Nat /\ escrow \in [Ids -> EscrowData]
  BY DEF ChainKept, Accounted, TypeOK, Ids
<1>2. PICK topic \in Topic \ IndexedActions : Note(topic, id)
  BY DEF PublishingChange, Topic, IndexedActions
<1>3. DOMAIN escrow' = DOMAIN escrow /\ \A x \in DOMAIN escrow : escrow'[x].status = escrow[x].status
  <2>1. CASE \E b \in Addr : EditStep(id, a, b)
    BY <1>1, <2>1, EditEffect
  <2>2. ASSUME NEW n, escrow' = [escrow EXCEPT ![id].amount = n]
        PROVE  DOMAIN escrow' = DOMAIN escrow
               /\ \A x \in DOMAIN escrow : escrow'[x].status = escrow[x].status
    BY <1>1, <2>2 DEF EscrowData
  <2>3. CASE \E amount \in Deposits : DepositStep(id, a, amount)
    BY <2>2, <2>3 DEF DepositStep, TopUp, Contribute
  <2>4. CASE ClaimRefund(id, a)
    BY <2>2, <2>4 DEF ClaimRefund
  <2> QED BY <2>1, <2>3, <2>4 DEF PublishingChange, EditStep, DepositStep
<1> QED BY <1>1, <1>2, <1>3, NoteAnnounced DEF Note

\* A settlement is announced, once or twice.
LEMMA SettlementAnnounced ==
  ASSUME ChainKept, ChainKept', NEW id \in DOMAIN escrow, PublishingSettlement(id)
  PROVE  \E events : Announced(events)
<1>1. /\ TypeOK /\ TypeOK' /\ id \in Ids /\ id \in Nat /\ escrow \in [Ids -> EscrowData] /\ now \in Nat
      /\ DOMAIN escrow = Ids
  <2>1. /\ TypeOK /\ TypeOK' /\ escrow \in [Ids -> EscrowData] /\ now \in Nat /\ id \in Ids
    BY DEF ChainKept, Accounted, TypeOK
  <2>2. id \in Nat
    BY <2>1 DEF Ids
  <2> QED BY <2>1, <2>2
<1>2. PICK to \in Terminal : SettleOne(id, to)
  BY DEF PublishingSettlement, PublishingRelease, PublishingRefund, Release, Refund, Cancel,
     ReleaseWithApprovals, RefundWithApprovals, Terminal, EscrowStatus
<1>3. DOMAIN escrow' = DOMAIN escrow /\ \A x \in DOMAIN escrow : x # id => escrow'[x] = escrow[x]
  BY <1>1, <1>2 DEF SettleOne, Settle
<1>4. CASE PublishStates({id})
  <2>1. PICK rank : rank = [x \in {id} |-> x]
    OBVIOUS
  <2>2. rank \in [{id} -> Nat] /\ {id} \in SUBSET (DOMAIN escrow') /\ IsFiniteSet({id})
    BY <1>1, <1>3, <2>1, FS_Singleton
  <2>3. PublishInOrder({id}, rank)
    BY <1>4, <2>1 DEF PublishStates
  <2> QED BY <1>3, <2>2, <2>3, ListAnnounced
<1>5. CASE \E a \in Addr : PublishingRefund(id, a)
  <2>1. PICK more : /\ Publish(<<PublishedState(id)>> \o more)
                    /\ more \in {<<>>, <<Event("payee_refunded", {id}, {})>>}
    BY <1>5 DEF PublishingRefund
  <2>2. PublishedState(id) \in EventData /\ Event("payee_refunded", {id}, {}) \in EventData
    BY <1>1, <1>3, StateIsEvent DEF EventData, Event, Topic
  <2>3. PICK events : events = <<PublishedState(id)>> \o more
    OBVIOUS
  <2>4. /\ events \in Seq(EventData) /\ log' = log \o events
        /\ Len(events) \in Nat /\ Len(events) >= 1
        /\ events[1] = PublishedState(id)
        /\ \A i \in 1..Len(events) : i = 1 \/ events[i] = Event("payee_refunded", {id}, {})
    <3>1. CASE more = <<>>
      BY <2>1, <2>2, <2>3, <3>1 DEF Publish
    <3>2. CASE more = <<Event("payee_refunded", {id}, {})>>
      <4>1. PICK x, y : x = PublishedState(id) /\ y = Event("payee_refunded", {id}, {})
        OBVIOUS
      <4>2. x \in EventData /\ y \in EventData /\ events = <<x>> \o <<y>>
        BY <2>2, <2>3, <3>2, <4>1
      <4>3. /\ <<x>> \in Seq(EventData) /\ Len(<<x>>) = 1 /\ <<x>>[1] = x
            /\ <<y>> \in Seq(EventData) /\ Len(<<y>>) = 1 /\ <<y>>[1] = y
        BY <4>2
      <4>4. /\ events \in Seq(EventData) /\ Len(events) = 2
            /\ \A i \in 1..2 : events[i] = IF i <= 1 THEN <<x>>[i] ELSE <<y>>[i - 1]
        BY <4>2, <4>3, ConcatProperties
      <4>5. events[1] = x /\ events[2] = y
        BY <4>3, <4>4
      <4> QED BY <2>1, <2>3, <4>1, <4>4, <4>5 DEF Publish
    <3> QED BY <2>1, <3>1, <3>2
  <2>5. \A i \in 1..Len(events) : events[i].topic \in IndexedActions => events[i] = PublishedState(id)
    BY <2>4 DEF Event, IndexedActions
  <2>6. id \in DOMAIN escrow' /\ 1 \in 1..Len(events)
    BY <1>3, <2>4
  <2>7. ASSUME NEW x \in DOMAIN escrow'
        PROVE  \/ \E i \in 1..Len(events) : events[i] = PublishedState(x)
               \/ x \in DOMAIN escrow /\ escrow'[x].status \in {"Funded", escrow[x].status}
    BY <1>3, <2>4, <2>6
  <2> QED BY <2>4, <2>5, <2>6, <2>7 DEF Announced
<1> QED BY <1>4, <1>5 DEF PublishingSettlement, PublishingRelease

\* A batch announces what it settles, in the order of its operations: no operation
\* settles two escrows.
LEMMA SettleManyAnnounced ==
  ASSUME ChainKept, ChainKept', PublishingSettleMany
  PROVE  \E events : Announced(events)
<1>1. /\ TypeOK /\ DOMAIN escrow = Ids /\ nextId \in Nat
  BY DEF ChainKept, Accounted, TypeOK
<1>2. PICK a \in Addr : \E ops \in Lists(Operations) :
        /\ SettleMany(a, ops)
        /\ LET settled == {id \in DOMAIN escrow : escrow'[id] # escrow[id]}
               first == [id \in settled |->
                         Min({i \in DOMAIN ops : ops[i][1] = id /\ OperationChecks(ops[i], a)})] IN
           PublishInOrder(settled, first)
  BY DEF PublishingSettleMany
<1>3. PICK ops \in Lists(Operations) :
        /\ SettleMany(a, ops)
        /\ LET settled == {id \in DOMAIN escrow : escrow'[id] # escrow[id]}
               first == [id \in settled |->
                         Min({i \in DOMAIN ops : ops[i][1] = id /\ OperationChecks(ops[i], a)})] IN
           PublishInOrder(settled, first)
  BY <1>2
<1> DEFINE passing(id) == {i \in DOMAIN ops : ops[i][1] = id /\ OperationChecks(ops[i], a)}
           settled == {id \in DOMAIN escrow : escrow'[id] # escrow[id]}
           first == [id \in settled |-> Min(passing(id))]
<1>4. PublishInOrder(settled, first)
  BY <1>3
<1>5. DOMAIN ops \in SUBSET Nat
  <2>1. ops \in Seq(Operations)
    BY ListsOf
  <2> QED BY <2>1, LenProperties
<1>6. /\ DOMAIN escrow' = DOMAIN escrow
      /\ \A id \in DOMAIN escrow : passing(id) # {} \/ escrow'[id] = escrow[id]
  BY <1>3 DEF SettleMany, Settle
<1>7. ASSUME NEW id \in settled
      PROVE  first[id] \in Nat /\ ops[first[id]][1] = id
  <2>1. passing(id) # {} /\ passing(id) \in SUBSET Nat
    BY <1>5, <1>6
  <2>2. Min(passing(id)) \in passing(id)
    <3> HIDE DEF passing
    <3> QED BY <2>1, MinMember
  <2>3. first[id] = Min(passing(id))
    OBVIOUS
  <2> QED BY <1>5, <2>2, <2>3
<1>8. settled \in SUBSET (DOMAIN escrow') /\ IsFiniteSet(settled)
  <2>1. IsFiniteSet(Ids)
    BY <1>1, FS_Interval DEF Ids
  <2> QED BY <1>1, <1>6, <2>1, FS_Subset
<1>9. \A x \in (DOMAIN escrow') \ settled : x \in DOMAIN escrow /\ escrow'[x] = escrow[x]
  BY <1>6
<1>10. DOMAIN first = settled /\ first = [id \in settled |-> first[id]]
  OBVIOUS
<1> HIDE DEF settled, first
<1>11. first \in [settled -> Nat] /\ \A x, y \in settled : first[x] = first[y] => x = y
  BY <1>7, <1>10
<1> QED BY <1>4, <1>8, <1>9, <1>11, ListAnnounced

\* Whatever a step changes of the contract, it announces.
LEMMA StepAnnounced ==
  ASSUME ChainKept, ChainKept', ChainStep
  PROVE  \E events : Announced(events)
<1>1. CASE PublishingPause
  <2>1. PICK topic \in Topic \ IndexedActions : Publish(<<Event(topic, {}, {})>>)
    BY <1>1 DEF PublishingPause, Topic, IndexedActions
  <2>2. escrow' = escrow
    BY <1>1 DEF PublishingPause, Pause, Unpause, books
  <2> QED BY <2>1, <2>2, NoteAnnounced
<1>2. CASE Tick /\ UNCHANGED log
  <2>1. escrow' = escrow /\ log' = log
    BY <1>2 DEF Tick, books
  <2>2. PICK events : events = <<>>
    OBVIOUS
  <2>3. events \in Seq(EventData) /\ Len(events) = 0
    BY <2>2
  <2>4. log' = log \o events
    BY <2>1, <2>2, ConcatEmptySeq DEF LogKept
  <2>5. \A i \in 1..Len(events) : FALSE
    BY <2>3
  <2>6. \A id \in DOMAIN escrow' :
          id \in DOMAIN escrow /\ escrow'[id].status \in {"Funded", escrow[id].status}
    BY <2>1
  <2> QED BY <2>3, <2>4, <2>5, <2>6 DEF Announced
<1> QED
  BY <1>1, <1>2, CreateAnnounced, ChangeAnnounced, SettlementAnnounced, SettleManyAnnounced
     DEF ChainStep

\* So the log goes on telling where each story ends.
LEMMA LogKeptStep ==
  ASSUME LogKept, ChainStep
  PROVE  LogKept' /\ \E events \in Seq(EventData) : log' = log \o events
<1>1. /\ ChainKept /\ ChainKept' /\ Accounted /\ log \in Seq(EventData)
      /\ TypeOK' /\ now \in Nat /\ DOMAIN escrow = Ids
  <2>1. ChainKept /\ ChainKept'
    BY ChainCalls, ChainKeptStep DEF LogKept
  <2> QED BY <2>1 DEF LogKept, ChainKept, Accounted, TypeOK
<1>2. PICK events : Announced(events)
  BY <1>1, StepAnnounced DEF LogKept
<1>3. PICK m \in Nat, n \in Nat : m = Len(log) /\ n = Len(events)
  BY <1>1, <1>2 DEF Announced
<1>4. /\ events \in Seq(EventData) /\ log' = log \o events
      /\ log' \in Seq(EventData) /\ Len(log') = m + n
      /\ \A p \in 1..m : log'[p] = log[p]
      /\ \A p \in (m + 1)..(m + n) : log'[p] = events[p - m]
  <2>1. events \in Seq(EventData) /\ log' = log \o events
    BY <1>2 DEF Announced
  <2>2. /\ log' \in Seq(EventData) /\ Len(log') = m + n
        /\ \A p \in 1..(m + n) : log'[p] = IF p <= m THEN log[p] ELSE events[p - m]
    BY <1>1, <1>3, <2>1, ConcatProperties
  <2> QED BY <1>3, <2>1, <2>2
<1>5. ASSUME NEW p \in (m + 1)..(m + n), log'[p].topic \in IndexedActions
      PROVE  \E id \in DOMAIN escrow' : log'[p] = PublishedState(id)
  <2>1. PICK i \in 1..Len(events) : i = p - m
    <3>1. p - m \in 1..n
      OBVIOUS
    <3> QED BY <1>3, <3>1
  <2>2. events[i] = log'[p]
    BY <1>4, <2>1
  <2> QED BY <1>2, <1>5, <2>2 DEF Announced
<1>6. \A p \in 1..(m + n) : p \in 1..m \/ p \in (m + 1)..(m + n)
  BY <1>3
<1>7. /\ \A id \in DOMAIN escrow : id \in DOMAIN escrow' /\ escrow'[id].refund_after = escrow[id].refund_after
      /\ Next
  BY <1>1, StoredStep, ChainCalls
<1>8. ASSUME NEW p \in 1..Len(log'), log'[p].topic \in IndexedActions
      PROVE  log'[p].snapshot # {} /\ \E id \in DOMAIN escrow' : log'[p].id = {id}
  <2>1. CASE p \in 1..m
    <3>1. log'[p] = log[p] /\ p \in 1..Len(log)
      BY <1>3, <1>4, <2>1
    <3> QED BY <1>7, <1>8, <3>1 DEF LogKept
  <2>2. CASE p \in (m + 1)..(m + n)
    <3>1. PICK id \in DOMAIN escrow' : log'[p] = PublishedState(id)
      BY <1>5, <1>8, <2>2
    <3> QED BY <1>1, <3>1, StateIsEvent
  <2> QED BY <1>4, <1>6, <2>1, <2>2
<1>9. ASSUME NEW id \in DOMAIN escrow', NEW q \in (m + 1)..(m + n), EventOf(log'[q], id)
      PROVE  Agrees(log'[q], escrow'[id])
  <2>1. PICK x \in DOMAIN escrow' : log'[q] = PublishedState(x)
    BY <1>5, <1>9 DEF EventOf
  <2>2. PublishedState(x).id = {x} /\ PublishedState(x).snapshot = {escrow'[x]}
    BY <1>1, StateIsEvent
  <2>3. x = id /\ log'[q].snapshot = {escrow'[id]}
    BY <1>9, <2>1, <2>2 DEF EventOf
  <2>4. The(log'[q].snapshot) = escrow'[id]
    BY <2>3 DEF The
  <2>5. Lasting \subseteq EntityFields
    BY DEF Lasting
  <2> QED BY <2>4, <2>5 DEF Agrees
\* What an older event says of an escrow that this step does not settle still holds.
<1>10. ASSUME NEW id \in DOMAIN escrow, NEW ev, Agrees(ev, escrow[id]),
              escrow'[id].status \in {"Funded", escrow[id].status}
       PROVE  Agrees(ev, escrow'[id])
  <2>1. CASE escrow[id].status # "Funded"
    <3>1. Untouched(id)
      BY <1>1, <1>7, <2>1, FinalStep
    <3> QED BY <1>10, <3>1 DEF Untouched
  <2>2. CASE escrow[id].status = "Funded"
    <3>1. Fixed(escrow'[id]) = Fixed(escrow[id]) /\ escrow'[id].status = "Funded"
      BY <1>1, <1>7, <1>10, <2>2, TermsStep DEF TermsKeptFor
    <3>2. \A f \in Lasting : escrow'[id][f] = escrow[id][f]
      BY <2>2, <3>1 DEF Fixed, Lasting, EntityFields
    <3> QED BY <1>10, <2>2, <3>1, <3>2 DEF Agrees
  <2> QED BY <2>1, <2>2
<1>11. ASSUME NEW id \in DOMAIN escrow'
       PROVE  \E p \in 1..Len(log') :
                /\ EventOf(log'[p], id)
                /\ \A q \in p..Len(log') : EventOf(log'[q], id) => Agrees(log'[q], escrow'[id])
  <2>1. CASE \E i \in 1..Len(events) : events[i] = PublishedState(id)
    <3>1. PICK i \in 1..n : events[i] = PublishedState(id)
      BY <1>3, <2>1
    <3>2. PICK p : p = m + i
      OBVIOUS
    <3>3. p \in (m + 1)..(m + n) /\ p - m = i /\ p \in 1..Len(log')
      BY <1>3, <1>4, <3>2
    <3>4. EventOf(log'[p], id)
      BY <1>1, <1>4, <3>1, <3>3, StateIsEvent DEF EventOf
    <3>5. \A q \in p..Len(log') : q \in (m + 1)..(m + n)
      BY <1>3, <1>4, <3>3
    <3> QED BY <1>9, <3>3, <3>4, <3>5
  <2>2. CASE /\ ~ \E i \in 1..Len(events) : events[i] = PublishedState(id)
             /\ id \in DOMAIN escrow /\ escrow'[id].status \in {"Funded", escrow[id].status}
    <3>1. PICK p \in 1..m : /\ EventOf(log[p], id)
                            /\ \A q \in p..m : EventOf(log[q], id) => Agrees(log[q], escrow[id])
      BY <1>3, <2>2 DEF LogKept
    <3>2. p \in 1..Len(log') /\ EventOf(log'[p], id)
      BY <1>3, <1>4, <3>1
    <3>3. ASSUME NEW q \in p..Len(log'), EventOf(log'[q], id)
          PROVE  Agrees(log'[q], escrow'[id])
      <4>1. (q \in p..m /\ q \in 1..m) \/ q \in (m + 1)..(m + n)
        BY <1>3, <1>4, <3>1
      <4>2. CASE q \in p..m /\ q \in 1..m
        <5>1. log'[q] = log[q]
          BY <1>4, <4>2
        <5> QED BY <1>10, <2>2, <3>1, <3>3, <4>2, <5>1
      <4> QED BY <1>9, <3>3, <4>1, <4>2
    <3> QED BY <3>2, <3>3
  <2> QED BY <1>2, <2>1, <2>2 DEF Announced
<1> QED BY <1>1, <1>4, <1>8, <1>11 DEF LogKept

\* The log is empty at first.
LEMMA LogKeptInit ==
  ASSUME ChainInit
  PROVE  LogKept
<1>1. ChainKept /\ log = <<>> /\ DOMAIN escrow = {}
  <2>1. ChainKept /\ log = <<>> /\ escrow = <<>>
    BY ChainKeptInit DEF ChainInit, Init
  <2> QED BY <2>1
<1>2. log \in Seq(EventData) /\ Len(log) = 0
  BY <1>1
<1> QED BY <1>1, <1>2 DEF LogKept

\* It stays as it is while the contract does.
LEMMA LogKeptStill ==
  ASSUME LogKept, UNCHANGED chain
  PROVE  LogKept'
<1>1. ChainKept' /\ UNCHANGED <<escrow, log>>
  BY ChainStill DEF LogKept, chain, books
<1> QED BY <1>1 DEF LogKept

\* Events are only added.
LEMMA LogGrows ==
  ASSUME LogKept, ChainStep
  PROVE  /\ LogKept' /\ DOMAIN escrow \subseteq DOMAIN escrow'
         /\ Len(log) \in Nat /\ Len(log') \in Nat /\ Len(log) <= Len(log')
         /\ \A p \in 1..Len(log) : log'[p] = log[p]
<1>1. LogKept' /\ log \in Seq(EventData) /\ Accounted
  BY LogKeptStep DEF LogKept, ChainKept
<1>2. PICK events \in Seq(EventData) : log' = log \o events
  BY LogKeptStep
<1>3. \A id \in DOMAIN escrow : id \in DOMAIN escrow'
  BY <1>1, ChainCalls, StoredStep
<1>4. /\ Len(log') = Len(log) + Len(events)
      /\ \A p \in 1..Len(log) + Len(events) : log'[p] = IF p <= Len(log) THEN log[p] ELSE events[p - Len(log)]
  BY <1>1, <1>2, ConcatProperties
<1>5. Len(log) \in Nat /\ Len(events) \in Nat
  BY <1>1, <1>2
<1> QED BY <1>1, <1>3, <1>4, <1>5

-----------------------------------------------------------------------------
(* The indexer.                                                                *)

\* The last event whose record is saved; its history entry may still be missing.
SavedTo == IF saved THEN indexed + 1 ELSE indexed

\* The record of the escrow of event p is that of event p or of a later one.
UpToDate(p) ==
  log[p].topic \in IndexedActions =>
    \A id \in log[p].id : \E q \in p..Len(log) :
      EventOf(log[q], id) /\ id \in DOMAIN record /\ record[id] = Entity(log[q])

\* However often the indexer starts over, what it has seen since has left its mark.
IndexKept ==
  /\ LogKept /\ indexed \in 0..Len(log) /\ saved \in BOOLEAN
  /\ saved => indexed < Len(log) /\ log[indexed + 1].topic \in IndexedActions
  /\ DOMAIN record \subseteq DOMAIN escrow
  /\ \A p \in 1..SavedTo : UpToDate(p)
  /\ \A p \in DOMAIN history : p \in 1..Len(log) /\ log[p].topic \in IndexedActions
  /\ \A p \in 1..indexed : log[p].topic \in IndexedActions => p \in DOMAIN history

\* Which events leave a mark at all.
LEMMA IndexableIs ==
  ASSUME LogKept, NEW p \in 1..Len(log)
  PROVE  /\ Indexable(log[p]) <=> log[p].topic \in IndexedActions
         /\ Indexable(log[p]) => \E id \in DOMAIN escrow :
              log[p].id = {id} /\ The(log[p].id) = id /\ EventOf(log[p], id)
<1>1. ASSUME log[p].topic \in IndexedActions
      PROVE  Indexable(log[p]) /\ \E id \in DOMAIN escrow :
               log[p].id = {id} /\ The(log[p].id) = id /\ EventOf(log[p], id)
  <2>1. PICK id \in DOMAIN escrow : log[p].id = {id} /\ log[p].snapshot # {}
    BY <1>1 DEF LogKept
  <2> QED BY <1>1, <2>1 DEF Indexable, The, EventOf
<1> QED BY <1>1 DEF Indexable

\* New events come after those it has seen.
LEMMA IndexKeptByChain ==
  ASSUME IndexKept, ChainStep, UNCHANGED indexVars
  PROVE  IndexKept'
<1>1. /\ LogKept' /\ DOMAIN escrow \subseteq DOMAIN escrow'
      /\ Len(log) \in Nat /\ Len(log') \in Nat /\ Len(log) <= Len(log')
      /\ \A p \in 1..Len(log) : log'[p] = log[p]
  BY LogGrows DEF IndexKept
<1>2. UNCHANGED <<indexed, saved, record, history>> /\ SavedTo' = SavedTo /\ indexed \in Nat
  BY <1>1 DEF indexVars, SavedTo, IndexKept
<1>3. indexed \in 0..Len(log) /\ SavedTo \in 0..Len(log)
  BY <1>1, <1>2 DEF IndexKept, SavedTo
<1>4. saved => indexed < Len(log') /\ log'[indexed + 1].topic \in IndexedActions
  <2>1. saved => indexed + 1 \in 1..Len(log)
    BY <1>1, <1>2 DEF IndexKept
  <2> QED BY <1>1, <1>3, <2>1 DEF IndexKept
<1>5. ASSUME NEW p \in 1..SavedTo
      PROVE  UpToDate(p)'
  <2>1. p \in 1..Len(log) /\ UpToDate(p)
    BY <1>1, <1>3, <1>5 DEF IndexKept
  <2>2. ASSUME NEW id \in log[p].id, log[p].topic \in IndexedActions
        PROVE  \E q \in p..Len(log') :
                 EventOf(log'[q], id) /\ id \in DOMAIN record /\ record[id] = Entity(log'[q])
    <3>1. PICK q \in p..Len(log) :
            EventOf(log[q], id) /\ id \in DOMAIN record /\ record[id] = Entity(log[q])
      BY <2>1, <2>2 DEF UpToDate
    <3>2. log'[q] = log[q] /\ q \in p..Len(log')
      BY <1>1, <2>1
    <3> QED BY <3>1, <3>2
  <2> QED BY <1>1, <1>2, <2>1, <2>2 DEF UpToDate
<1>6. \A p \in DOMAIN history : p \in 1..Len(log') /\ log'[p].topic \in IndexedActions
  BY <1>1 DEF IndexKept
<1>7. \A p \in 1..indexed : log'[p].topic \in IndexedActions => p \in DOMAIN history
  BY <1>1, <1>3 DEF IndexKept
<1>8. indexed \in 0..Len(log') /\ (saved => indexed < Len(log'))
  BY <1>1, <1>3, <1>4
<1>9. \A p \in 1..SavedTo' : UpToDate(p)'
  BY <1>2, <1>5
<1>10. DOMAIN record \subseteq DOMAIN escrow'
  BY <1>1 DEF IndexKept
<1> QED BY <1>1, <1>2, <1>4, <1>6, <1>7, <1>8, <1>9, <1>10 DEF IndexKept

\* Saving a record leaves the mark of its event, over those of earlier ones.
LEMMA IndexKeptBySave ==
  ASSUME IndexKept, SaveRecord
  PROVE  IndexKept'
<1>1. /\ LogKept /\ LogKept' /\ escrow' = escrow /\ log' = log /\ saved' = TRUE /\ ~saved
      /\ UNCHANGED <<indexed, history>> /\ indexed < Len(log) /\ Indexable(NextEvent)
  BY LogKeptStill DEF IndexKept, SaveRecord, chain, books
<1>2. PICK n : n = indexed + 1 /\ n \in 1..Len(log) /\ NextEvent = log[n] /\ Len(log) \in Nat
  BY <1>1 DEF IndexKept, LogKept, NextEvent
<1>3. PICK id \in DOMAIN escrow : log[n].id = {id} /\ The(log[n].id) = id /\ EventOf(log[n], id)
  BY <1>1, <1>2, IndexableIs
<1>4. PICK entity : entity = Entity(log[n])
  OBVIOUS
<1>5. record' = Put(record, id, entity)
  BY <1>2, <1>3, <1>4 DEF SaveRecord
<1>6. /\ DOMAIN record' = DOMAIN record \cup {id} /\ record'[id] = entity
      /\ \A x \in DOMAIN record : x # id => record'[x] = record[x]
  BY <1>5 DEF Put
<1>7. ASSUME NEW p \in 1..n, log[p].topic \in IndexedActions, NEW x \in log[p].id
      PROVE  \E q \in p..Len(log) :
               EventOf(log[q], x) /\ x \in DOMAIN record' /\ record'[x] = Entity(log[q])
  <2>1. CASE x = id
    <3>1. n \in p..Len(log)
      BY <1>2
    <3> QED BY <1>3, <1>4, <1>6, <2>1, <3>1
  <2>2. CASE x # id
    <3>1. p # n
      BY <1>3, <1>7, <2>2
    <3>2. p \in 1..SavedTo
      BY <1>1, <1>2, <3>1 DEF SavedTo, IndexKept
    <3>3. PICK q \in p..Len(log) :
            EventOf(log[q], x) /\ x \in DOMAIN record /\ record[x] = Entity(log[q])
      BY <1>7, <3>2 DEF IndexKept, UpToDate
    <3> QED BY <1>6, <2>2, <3>3
  <2> QED BY <2>1, <2>2
<1>8. SavedTo' = n
  BY <1>1, <1>2 DEF SavedTo
<1>9. \A p \in 1..SavedTo' : UpToDate(p)'
  BY <1>1, <1>7, <1>8 DEF UpToDate
<1>10. log[indexed + 1].topic \in IndexedActions
  BY <1>2, <1>3 DEF EventOf
<1> QED BY <1>1, <1>3, <1>6, <1>9, <1>10 DEF IndexKept

\* Passing an event by, or saving its history entry, ends with it.
LEMMA IndexKeptByPass ==
  ASSUME IndexKept, IgnoreEvent \/ SaveHistory
  PROVE  IndexKept'
<1>1. /\ LogKept /\ LogKept' /\ escrow' = escrow /\ log' = log /\ record' = record
      /\ indexed' = indexed + 1 /\ indexed < Len(log)
  BY LogKeptStill DEF IndexKept, IgnoreEvent, SaveHistory, chain, books
<1>2. PICK n : n = indexed + 1 /\ n \in 1..Len(log) /\ NextEvent = log[n] /\ Len(log) \in Nat
               /\ indexed \in Nat
  BY <1>1 DEF IndexKept, LogKept, NextEvent
<1>3. \/ ~saved /\ saved' = saved /\ history' = history /\ log[n].topic \notin IndexedActions
      \/ /\ saved /\ saved' = FALSE /\ DOMAIN history' = DOMAIN history \cup {n}
         /\ log[n].topic \in IndexedActions
  BY <1>1, <1>2, IndexableIs DEF IndexKept, IgnoreEvent, SaveHistory, Put
<1>4. SavedTo' = n
  BY <1>1, <1>2, <1>3 DEF SavedTo
<1>5. ASSUME NEW p \in 1..n
      PROVE  UpToDate(p)
  <2>1. p \in 1..SavedTo \/ (p = n /\ ~saved)
    BY <1>2 DEF SavedTo
  <2> QED BY <1>3, <2>1 DEF IndexKept, UpToDate
<1>6. \A p \in 1..SavedTo' : UpToDate(p)'
  BY <1>1, <1>4, <1>5 DEF UpToDate
<1>7. \A p \in DOMAIN history' : p \in 1..Len(log) /\ log[p].topic \in IndexedActions
  BY <1>2, <1>3 DEF IndexKept
<1>8. \A p \in 1..n : log[p].topic \in IndexedActions => p \in DOMAIN history'
  BY <1>2, <1>3 DEF IndexKept
<1>9. saved' = FALSE /\ n \in 0..Len(log) /\ DOMAIN record \subseteq DOMAIN escrow
  BY <1>2, <1>3 DEF IndexKept
<1> QED BY <1>1, <1>2, <1>6, <1>7, <1>8, <1>9 DEF IndexKept

\* Starting over forgets no mark.
LEMMA IndexKeptByRestart ==
  ASSUME IndexKept, Restart
  PROVE  IndexKept'
<1>1. /\ LogKept' /\ UNCHANGED <<escrow, log, record, history>> /\ saved' = FALSE
      /\ indexed' \in 0..indexed /\ indexed \in 0..Len(log) /\ Len(log) \in Nat
  BY LogKeptStill DEF IndexKept, LogKept, Restart, chain, books
<1>2. PICK n : n = indexed' /\ n \in 0..indexed /\ n \in 0..Len(log) /\ SavedTo' = n
  BY <1>1 DEF SavedTo
<1>3. ASSUME NEW p \in 1..n PROVE p \in 1..SavedTo /\ p \in 1..indexed
  BY <1>1, <1>2 DEF SavedTo, IndexKept
<1>4. \A p \in 1..SavedTo' : UpToDate(p)'
  BY <1>1, <1>2, <1>3 DEF UpToDate, IndexKept
<1> QED BY <1>1, <1>2, <1>3, <1>4 DEF IndexKept

\* For any contract and any number of restarts: once every event is handled, the
\* records say what the contract has, and the history is complete.
THEOREM IndexesAgree == IndexerSpec => []IndexAgrees
<1>1. ASSUME ChainInit, IndexerInit
      PROVE  IndexKept
  <2>1. LogKept /\ Len(log) = 0
    BY <1>1, LogKeptInit DEF ChainInit
  <2>2. /\ indexed = 0 /\ saved = FALSE /\ SavedTo = 0
        /\ DOMAIN record = {} /\ DOMAIN history = {}
    <3>1. record = <<>> /\ history = <<>> /\ indexed = 0 /\ saved = FALSE
      BY <1>1 DEF IndexerInit
    <3> QED BY <3>1 DEF SavedTo
  <2>3. (\A p \in 1..0 : FALSE) /\ 0 \in 0..0
    OBVIOUS
  <2> QED BY <2>1, <2>2, <2>3 DEF IndexKept
<1>2. ASSUME IndexKept, [IndexerNext]_<<chain, indexVars>>
      PROVE  IndexKept'
  <2>1. CASE UNCHANGED <<chain, indexVars>>
    <3>1. LogKept' /\ UNCHANGED <<escrow, log, indexed, saved, record, history>>
      BY <1>2, <2>1, LogKeptStill DEF IndexKept, chain, books, indexVars
    <3> QED BY <1>2, <3>1 DEF IndexKept, SavedTo, UpToDate
  <2> QED
    BY <1>2, <2>1, IndexKeptByChain, IndexKeptBySave, IndexKeptByPass, IndexKeptByRestart
       DEF IndexerNext, HandleEscrowEvent
<1>3. ASSUME IndexKept PROVE IndexAgrees
  <2>1. SUFFICES ASSUME indexed = Len(log)
        PROVE  /\ DOMAIN record = DOMAIN escrow
               /\ \A id \in DOMAIN escrow :
                    \A f \in IF status[id] = "Funded" THEN Lasting ELSE EntityFields :
                      record[id].fields[f] = escrow[id][f]
               /\ \A p \in DOMAIN log :
                    p \in DOMAIN history <=> log[p].topic \in {"created", "released", "refunded", "cancelled"}
    BY DEF IndexAgrees
  <2>2. /\ LogKept /\ Len(log) \in Nat /\ DOMAIN log = 1..Len(log) /\ DOMAIN record \subseteq DOMAIN escrow
        /\ StatusMirrors /\ DOMAIN escrow = Ids /\ SavedTo = Len(log)
    <3>1. LogKept /\ DOMAIN record \subseteq DOMAIN escrow /\ (saved => indexed < Len(log))
      BY <1>3 DEF IndexKept
    <3>2. log \in Seq(EventData) /\ StatusMirrors /\ DOMAIN escrow = Ids
      BY <3>1 DEF LogKept, ChainKept, Accounted, TypeOK
    <3>3. Len(log) \in Nat /\ DOMAIN log = 1..Len(log)
      BY <3>2
    <3> QED BY <2>1, <3>1, <3>2, <3>3 DEF SavedTo
  <2>3. ASSUME NEW id \in DOMAIN escrow
        PROVE  /\ id \in DOMAIN record
               /\ \A f \in IF status[id] = "Funded" THEN Lasting ELSE EntityFields :
                    record[id].fields[f] = escrow[id][f]
    <3>1. PICK p \in 1..Len(log) :
            /\ EventOf(log[p], id)
            /\ \A q \in p..Len(log) : EventOf(log[q], id) => Agrees(log[q], escrow[id])
      BY <2>2 DEF LogKept
    <3>2. PICK q \in p..Len(log) :
            EventOf(log[q], id) /\ id \in DOMAIN record /\ record[id] = Entity(log[q])
      BY <1>3, <2>2, <3>1 DEF IndexKept, UpToDate, EventOf
    <3>3. Agrees(log[q], escrow[id]) /\ status[id] = escrow[id].status
      BY <2>2, <3>1, <3>2 DEF StatusMirrors
    <3>4. \A f \in EntityFields : record[id].fields[f] = The(log[q].snapshot)[f]
      BY <3>2 DEF Entity
    <3>5. Lasting \subseteq EntityFields
      BY DEF Lasting
    <3> QED BY <3>2, <3>3, <3>4, <3>5 DEF Agrees
  <2> QED BY <1>3, <2>1, <2>2, <2>3 DEF IndexKept, IndexedActions
<1> QED BY <1>1, <1>2, <1>3, PTL DEF IndexerSpec

-----------------------------------------------------------------------------
(* The subscription.                                                             *)

Finished(p) == \E i \in DOMAIN handled : handled[i] = p

\* All that was asked for up to event n is finished, and nothing after it.
Reached(n) ==
  /\ n \in 0..Len(log) /\ \A i \in DOMAIN handled : handled[i] <= n
  /\ \A start \in origin : \A p \in start + 1..n : Matches(p) => Finished(p)

\* What is left of the page comes after what is finished, in order, and with it makes
\* up all that was asked for up to next.
PageKept ==
  /\ next \in 0..Len(log) /\ \A i \in DOMAIN handled : handled[i] <= next
  /\ page \in Seq(Nat) /\ \A j \in 1..Len(page) : page[j] \in 1..next
  /\ \A j, k \in 1..Len(page) : j < k => page[j] < page[k]
  /\ \A i \in DOMAIN handled, j \in 1..Len(page) : handled[i] < page[j]
  /\ \A start \in origin : \A p \in start + 1..next :
       Matches(p) => Finished(p) \/ \E j \in 1..Len(page) : page[j] = p

\* Wherever the loop is, it has reached the place it goes on from.
FeedKept ==
  /\ LogKept /\ origin \in SUBSET Nat /\ handled \in Seq(Nat)
  /\ \A i, j \in DOMAIN handled : i < j => handled[i] < handled[j]
  /\ \A n \in LastHandled \cup (IF stopped THEN {} ELSE cursor) : Reached(n)
  /\ at = "latest" => origin = {} /\ handled = <<>> /\ cursor = {}
  /\ at = "poll" => Reached(from)
  /\ at = "sleep" => cursor # {} /\ \A n \in cursor : Reached(n)
  /\ at \in {"page", "handler"} => PageKept
  /\ at = "handler" => page # <<>>

\* The log has kept what it had, and perhaps grown.
Extended ==
  /\ LogKept' /\ Len(log) \in Nat /\ Len(log') \in Nat /\ Len(log) <= Len(log')
  /\ \A p \in 1..Len(log) : log'[p] = log[p]

\* A step of the contract adds to the log, and nothing else changes it.
LEMMA LogExtends ==
  ASSUME LogKept, ChainStep \/ UNCHANGED chain
  PROVE  Extended
<1>1. CASE ChainStep
  BY <1>1, LogGrows DEF Extended
<1>2. CASE UNCHANGED chain
  <2>1. LogKept' /\ log' = log /\ log \in Seq(EventData)
    BY <1>2, LogKeptStill DEF LogKept, chain
  <2> QED BY <2>1 DEF Extended
<1> QED BY <1>1, <1>2

\* What matches the subscription's filter goes on matching it.
LEMMA MatchesStays ==
  ASSUME Extended, filter' = filter, NEW p \in 1..Len(log)
  PROVE  Matches(p)' = Matches(p)
BY DEF Extended, Matches

\* A place that is reached stays reached until something more is delivered.
LEMMA ReachedStays ==
  ASSUME Extended, UNCHANGED <<filter, origin, handled>>, origin \in SUBSET Nat,
         NEW n, Reached(n)
  PROVE  Reached(n)'
<1>1. n \in 0..Len(log) /\ n \in 0..Len(log') /\ n \in Nat
  BY DEF Reached, Extended
<1>2. ASSUME NEW start \in origin, NEW p \in start + 1..n, Matches(p)'
      PROVE  Finished(p)'
  <2>1. p \in 1..Len(log)
    BY <1>1 DEF Extended
  <2>2. Matches(p)
    BY <1>2, <2>1, MatchesStays
  <2> QED BY <1>2, <2>2 DEF Reached, Finished
<1> QED BY <1>1, <1>2 DEF Reached

\* So does the rest of a page.
LEMMA PageStays ==
  ASSUME Extended, UNCHANGED <<filter, origin, handled, page, next>>, origin \in SUBSET Nat,
         PageKept
  PROVE  PageKept'
<1>1. next \in 0..Len(log) /\ next \in 0..Len(log') /\ next \in Nat
  BY DEF PageKept, Extended
<1>2. ASSUME NEW start \in origin, NEW p \in start + 1..next, Matches(p)'
      PROVE  Finished(p)' \/ \E j \in 1..Len(page) : page[j] = p
  <2>1. p \in 1..Len(log)
    BY <1>1 DEF Extended
  <2>2. Matches(p)
    BY <1>2, <2>1, MatchesStays
  <2> QED BY <1>2, <2>2 DEF PageKept, Finished
<1> QED BY <1>1, <1>2 DEF PageKept

\* Whatever leaves the loop where it is: the contract, the server, a call of stop.
LEMMA FeedKeptByOthers ==
  ASSUME FeedKept, ChainStep \/ UNCHANGED chain, stopped' \in {stopped, TRUE},
         UNCHANGED <<filter, at, cursor, from, page, next, origin, handled>>
  PROVE  FeedKept'
<1>1. Extended /\ origin \in SUBSET Nat
  BY LogExtends DEF FeedKept
<1>2. \A n : Reached(n) => Reached(n)'
  BY <1>1, ReachedStays
<1>3. PageKept => PageKept'
  BY <1>1, PageStays
<1>4. \A n \in LastHandled' \cup (IF stopped' THEN {} ELSE cursor') : Reached(n)'
  <2>1. LastHandled' = LastHandled
    BY DEF LastHandled
  <2>2. CASE stopped' = TRUE
    BY <1>2, <2>1, <2>2 DEF FeedKept
  <2>3. CASE stopped' = stopped
    BY <1>2, <2>1, <2>3 DEF FeedKept
  <2> QED BY <2>2, <2>3
<1> QED BY <1>1, <1>2, <1>3, <1>4 DEF FeedKept, Extended

\* Leaving the loop.
LEMMA FeedKeptByLeaving ==
  ASSUME FeedKept, Leave
  PROVE  FeedKept'
<1>1. /\ UNCHANGED chain /\ UNCHANGED <<filter, origin, handled>> /\ at' = "ended" /\ cursor' = {}
  BY DEF Leave
<1>2. Extended /\ origin \in SUBSET Nat
  BY <1>1, LogExtends DEF FeedKept
<1>3. \A n \in LastHandled' \cup (IF stopped' THEN {} ELSE cursor') : Reached(n)'
  BY <1>1, <1>2, ReachedStays DEF FeedKept, LastHandled
<1> QED BY <1>1, <1>2, <1>3 DEF FeedKept, Extended

\* Subscribing again, from the last event that was finished or afresh.
LEMMA FeedKeptBySubscribe ==
  ASSUME FeedKept, NEW resumed \in {{}, LastHandled}, Subscribe(resumed)
  PROVE  FeedKept'
<1>1. UNCHANGED chain /\ filter' = filter /\ cursor' = resumed /\ stopped' = FALSE
  BY DEF Subscribe
<1>2. Extended /\ origin \in SUBSET Nat
  BY <1>1, LogExtends DEF FeedKept
<1>3. CASE resumed = {}
  <2>1. at' = "latest" /\ origin' = {} /\ handled' = <<>> /\ cursor' = {}
    BY <1>1, <1>3 DEF Subscribe
  <2>2. LastHandled' = {} /\ handled' \in Seq(Nat) /\ DOMAIN handled' = {}
    BY <2>1 DEF LastHandled
  <2> QED BY <1>1, <1>2, <2>1, <2>2 DEF FeedKept, Extended
<1>4. CASE resumed # {}
  <2>1. /\ at' = "poll" /\ from' = The(resumed) /\ UNCHANGED <<origin, handled>>
        /\ resumed = LastHandled
    BY <1>4 DEF Subscribe
  <2>2. The(resumed) \in LastHandled
    BY <1>4, <2>1 DEF The
  <2>3. \A n \in LastHandled : Reached(n)'
    BY <1>1, <1>2, <2>1, ReachedStays DEF FeedKept
  <2>4. LastHandled' = LastHandled
    BY <2>1 DEF LastHandled
  <2> QED BY <1>1, <1>2, <2>1, <2>2, <2>3, <2>4 DEF FeedKept, Extended
<1> QED BY <1>3, <1>4

\* The first poll of a subscription: what happened before it was not asked for.
LEMMA FeedKeptByLatest ==
  ASSUME FeedKept, GotLatestLedger
  PROVE  FeedKept'
<1>1. /\ UNCHANGED chain /\ UNCHANGED <<filter, cursor, stopped, handled>> /\ at' = "poll"
      /\ origin = {} /\ handled = <<>> /\ cursor = {} /\ from' = Before(now) /\ origin' = {Before(now)}
  BY DEF GotLatestLedger, FeedKept
<1>2. Extended /\ log' = log /\ log \in Seq(EventData)
  BY <1>1, LogExtends DEF FeedKept, LogKept, chain
<1>3. Before(now) \in 0..Len(log)
  <2>1. DOMAIN log = 1..Len(log) /\ Len(log) \in Nat
    BY <1>2
  <2>2. IsFiniteSet(1..Len(log)) /\ Cardinality(1..Len(log)) = Len(log)
    <3>1. PICK m \in Nat : m = Len(log)
      BY <2>1
    <3>2. IsFiniteSet(1..m) /\ Cardinality(1..m) = IF 1 > m THEN 0 ELSE m - 1 + 1
      BY FS_Interval
    <3> QED BY <3>1, <3>2
  <2>3. PICK early : early = {p \in DOMAIN log : log[p].ledger < now} /\ early \in SUBSET (1..Len(log))
    BY <2>1
  <2>4. Cardinality(early) \in Nat /\ Cardinality(early) <= Len(log)
    BY <2>2, <2>3, FS_Subset, FS_CardinalityType
  <2> QED BY <2>1, <2>3, <2>4 DEF Before
<1>4. PICK n : n = Before(now) /\ n \in Nat /\ n <= Len(log)
  BY <1>2, <1>3
<1>5. DOMAIN handled = {} /\ LastHandled' = {} /\ handled' \in Seq(Nat)
  BY <1>1 DEF LastHandled
<1>6. Reached(n)'
  <2>1. \A start \in origin' : \A p \in start + 1..n : FALSE
    BY <1>1, <1>4
  <2> QED BY <1>1, <1>2, <1>4, <1>5, <2>1 DEF Reached, Extended
<1> QED BY <1>1, <1>2, <1>4, <1>5, <1>6 DEF FeedKept, Extended

\* A page: the matching events of the stretch it covers, all of them and in order.
LEMMA FeedKeptByPage ==
  ASSUME FeedKept, GotPage
  PROVE  FeedKept'
<1>1. /\ UNCHANGED chain /\ UNCHANGED <<filter, origin, cursor, stopped, handled>> /\ at' = "page"
      /\ Reached(from) /\ page' = getEvents(from) /\ next' = PageEnd(from)
  BY DEF GotPage, loopVars, FeedKept
<1>2. /\ Extended /\ log' = log /\ log \in Seq(EventData) /\ Len(log) \in Nat /\ from \in 0..Len(log)
      /\ origin \in SUBSET Nat /\ handled \in Seq(Nat)
  <2>1. Extended
    BY <1>1, LogExtends DEF FeedKept
  <2>2. log' = log /\ log \in Seq(EventData) /\ origin \in SUBSET Nat /\ handled \in Seq(Nat)
    BY <1>1 DEF chain, FeedKept, LogKept
  <2> QED BY <1>1, <2>1, <2>2 DEF Reached
<1>3. PICK upto : upto = PageEnd(from) /\ upto \in from..Len(log)
  <2>1. PICK l \in Nat, f \in Nat : l = Len(log) /\ f = from /\ f <= l
    BY <1>2
  <2>2. {f + Limit, l} \in SUBSET Nat /\ {f + Limit, l} # {}
    BY <2>1, FeedAssumption
  <2>3. PICK m : m = Min({f + Limit, l})
    OBVIOUS
  <2>4. m \in {f + Limit, l} /\ m <= l
    BY <2>2, <2>3, MinMember
  <2>5. m \in f..l
    BY <2>1, <2>4, FeedAssumption
  <2> QED BY <2>1, <2>3, <2>5 DEF PageEnd
<1>4. PICK matching : matching = {p \in from + 1..upto : Matches(p)}
  OBVIOUS
<1>5. PICK rank : rank = [p \in matching |-> p]
  OBVIOUS
<1>6. /\ IsFiniteSet(matching) /\ rank \in [matching -> Nat]
      /\ \A p \in matching : rank[p] = p /\ p \in from + 1..upto /\ p \in Nat
  <2>1. IsFiniteSet(from + 1..upto)
    BY <1>2, <1>3, FS_Interval
  <2>2. \A p \in matching : p \in from + 1..upto /\ p \in Nat
    BY <1>2, <1>3, <1>4
  <2> QED BY <1>4, <1>5, <2>1, <2>2, FS_Subset
<1>7. page' = InOrder(matching, rank)
  BY <1>1, <1>3, <1>4, <1>5 DEF getEvents
<1>8. PICK n \in Nat :
        /\ page' \in [1..n -> matching]
        /\ \A i, j \in 1..n : i < j => rank[page'[i]] < rank[page'[j]]
        /\ \A p \in matching : \E i \in 1..n : page'[i] = p
  BY <1>6, <1>7, InOrderIs
<1>9. /\ page' \in Seq(Nat) /\ Len(page') = n
      /\ \A j \in 1..n : page'[j] \in from + 1..upto
      /\ \A j, k \in 1..n : j < k => page'[j] < page'[k]
  BY <1>6, <1>8
<1>10. PageKept'
  <2>1. from \in Nat /\ upto \in Nat /\ from <= upto /\ upto <= Len(log)
    BY <1>2, <1>3
  <2>2. \A i \in DOMAIN handled : handled[i] \in Nat /\ handled[i] <= from
    BY <1>1, <1>2 DEF Reached
  <2>3. \A j \in 1..n : page'[j] \in 1..upto /\ from < page'[j]
    BY <1>9, <2>1
  <2>4. \A i \in DOMAIN handled : handled[i] <= upto /\ \A j \in 1..n : handled[i] < page'[j]
    BY <1>9, <2>1, <2>2, <2>3
  <2>5. ASSUME NEW start \in origin, NEW p \in start + 1..upto, Matches(p)'
        PROVE  Finished(p)' \/ \E j \in 1..n : page'[j] = p
    <3>1. p \in 1..Len(log)
      BY <1>2, <2>1
    <3>2. Matches(p)
      BY <1>1, <1>2, <2>5, <3>1, MatchesStays
    <3>3. p \in start + 1..from \/ p \in from + 1..upto
      BY <1>2, <2>1, <3>1
    <3>4. CASE p \in start + 1..from
      BY <1>1, <3>2, <3>4 DEF Reached, Finished
    <3>5. CASE p \in from + 1..upto
      BY <1>4, <1>8, <3>2, <3>5
    <3> QED BY <3>3, <3>4, <3>5
  <2> QED BY <1>1, <1>2, <1>3, <1>9, <2>1, <2>3, <2>4, <2>5 DEF PageKept
<1>11. \A m \in LastHandled' \cup (IF stopped' THEN {} ELSE cursor') : Reached(m)'
  BY <1>1, <1>2, ReachedStays DEF FeedKept, LastHandled
<1> QED BY <1>1, <1>2, <1>10, <1>11 DEF FeedKept, Extended

\* Handing the next event over, and going to sleep or waking up.
LEMMA FeedKeptByTurn ==
  ASSUME FeedKept, Deliver \/ PageDone \/ Wake
  PROVE  FeedKept'
<1>1. /\ UNCHANGED chain /\ UNCHANGED <<filter, origin, stopped, handled>>
      /\ Extended /\ origin \in SUBSET Nat
  <2>1. UNCHANGED chain /\ UNCHANGED <<filter, origin, stopped, handled>>
    BY DEF Deliver, PageDone, Wake, loopVars
  <2> QED BY <2>1, LogExtends DEF FeedKept
<1>2. \A n \in LastHandled' : Reached(n)'
  BY <1>1, ReachedStays DEF FeedKept, LastHandled
<1>3. CASE Deliver
  <2>1. /\ at = "page" /\ at' = "handler" /\ page # <<>> /\ UNCHANGED <<cursor, page, next>>
    BY <1>3 DEF Deliver
  <2>2. PageKept'
    BY <1>1, <2>1, PageStays DEF FeedKept
  <2>3. \A n \in (IF stopped' THEN {} ELSE cursor') : Reached(n)'
    BY <1>1, <2>1, ReachedStays DEF FeedKept
  <2> QED BY <1>1, <1>2, <2>1, <2>2, <2>3 DEF FeedKept, Extended
<1>4. CASE PageDone
  <2>1. /\ PageKept /\ (page = <<>> \/ stopped) /\ cursor' = {next}
        /\ at' = IF stopped THEN "ended" ELSE "sleep"
    BY <1>4 DEF PageDone, NextCursor, FeedKept
  <2>2. CASE stopped
    BY <1>1, <1>2, <2>1, <2>2 DEF FeedKept, Extended
  <2>3. CASE ~stopped
    <3>1. Reached(next)
      <4>1. Len(page) = 0 /\ \A j \in 1..Len(page) : FALSE
        BY <2>1, <2>3
      <4> QED BY <2>1, <4>1 DEF PageKept, Reached, Finished
    <3>2. \A n \in cursor' : Reached(n)'
      BY <1>1, <2>1, <3>1, ReachedStays
    <3> QED BY <1>1, <1>2, <2>1, <2>3, <3>2 DEF FeedKept, Extended
  <2> QED BY <2>2, <2>3
<1>5. CASE Wake
  <2>1. /\ cursor # {} /\ cursor' = cursor /\ \A n \in cursor : Reached(n)
        /\ at' = (IF stopped THEN "ended" ELSE "poll") /\ from' = The(cursor)
    BY <1>5 DEF Wake, FeedKept
  <2>2. The(cursor) \in cursor
    BY <2>1 DEF The
  <2>3. \A n \in cursor : Reached(n)'
    BY <1>1, <2>1, ReachedStays
  <2> QED BY <1>1, <1>2, <2>1, <2>2, <2>3 DEF FeedKept, Extended
<1> QED BY <1>3, <1>4, <1>5

\* A handler that returns finishes the next event, and no other.
LEMMA FeedKeptByReturn ==
  ASSUME FeedKept, HandlerReturns
  PROVE  FeedKept'
<1>1. /\ UNCHANGED chain /\ UNCHANGED <<filter, origin, stopped, next>> /\ at' = "page"
      /\ PageKept /\ page # <<>> /\ handled' = Append(handled, Head(page))
      /\ cursor' = {Head(page)} /\ page' = Tail(page)
      /\ origin \in SUBSET Nat /\ handled \in Seq(Nat)
  BY DEF HandlerReturns, loopVars, FeedKept
<1>2. Extended /\ log' = log
  BY <1>1, LogExtends DEF FeedKept, chain
<1>3. PICK h : h = Head(page)
  OBVIOUS
<1>4. PICK k \in Nat, m \in Nat : k = Len(handled) /\ m = Len(page) /\ m # 0
  BY <1>1 DEF PageKept
<1>5. /\ handled' \in Seq(Nat) /\ Len(handled') = k + 1 /\ handled'[k + 1] = h
      /\ \A i \in 1..k : handled'[i] = handled[i]
      /\ DOMAIN handled = 1..k /\ DOMAIN handled' = 1..(k + 1) /\ h \in Nat /\ handled' # <<>>
  <2>1. h \in Nat
    BY <1>1, <1>3, HeadTailProperties DEF PageKept
  <2>2. /\ handled' \in Seq(Nat) /\ Len(handled') = k + 1 /\ handled'[k + 1] = h
        /\ \A i \in 1..k : handled'[i] = handled[i] /\ handled' # <<>>
    BY <1>1, <1>3, <1>4, <2>1, AppendProperties
  <2> QED BY <1>1, <1>4, <2>1, <2>2
<1>6. /\ page' \in Seq(Nat) /\ Len(page') = m - 1
      /\ \A j \in 1..(m - 1) : page'[j] = page[j + 1]
      /\ page[1] = h
  BY <1>1, <1>3, <1>4, HeadTailProperties DEF PageKept
<1>7. /\ h \in 1..next /\ \A i \in 1..k : handled[i] < h
      /\ \A j \in 1..(m - 1) : page'[j] \in 1..next /\ h < page'[j]
      /\ \A i, j \in 1..(m - 1) : i < j => page'[i] < page'[j]
  <2>1. 1 \in 1..m /\ \A j \in 1..(m - 1) : j + 1 \in 1..m /\ 1 < j + 1
    BY <1>4
  <2>2. /\ \A j \in 1..m : page[j] \in 1..next
        /\ \A i, j \in 1..m : i < j => page[i] < page[j]
        /\ \A i \in 1..k, j \in 1..m : handled[i] < page[j]
    BY <1>1, <1>4, <1>5 DEF PageKept
  <2> QED BY <1>6, <2>1, <2>2
<1>8. \A p : Finished(p)' <=> Finished(p) \/ p = h
  BY <1>4, <1>5 DEF Finished
<1>9. ASSUME NEW i \in DOMAIN handled', NEW j \in DOMAIN handled', i < j
      PROVE  handled'[i] < handled'[j]
  <2>1. i \in 1..k /\ (j \in 1..k \/ j = k + 1)
    BY <1>4, <1>5, <1>9
  <2> QED BY <1>5, <1>7, <1>9, <2>1 DEF FeedKept
<1>10. /\ \A i \in DOMAIN handled' : handled'[i] <= h /\ handled'[i] \in Nat
       /\ next \in Nat /\ next \in 0..Len(log) /\ h \in 0..Len(log)
  <2>1. \A i \in DOMAIN handled' : i \in 1..k \/ i = k + 1
    BY <1>4, <1>5
  <2>2. next \in 0..Len(log) /\ Len(log) \in Nat
    BY <1>1, <1>2 DEF PageKept, Extended
  <2>3. \A i \in 1..k : handled[i] \in Nat
    BY <1>1, <1>5
  <2> QED BY <1>5, <1>7, <2>1, <2>2, <2>3
<1>11. ASSUME NEW start \in origin, NEW p \in start + 1..next, Matches(p)'
       PROVE  Finished(p)' \/ \E j \in 1..(m - 1) : page'[j] = p
  <2>1. p \in 1..Len(log)
    BY <1>1, <1>10
  <2>2. Matches(p)
    BY <1>1, <1>2, <1>11, <2>1, MatchesStays
  <2>3. CASE Finished(p)
    BY <1>8, <2>3
  <2>4. ASSUME NEW j \in 1..m, page[j] = p
        PROVE  Finished(p)' \/ \E i \in 1..(m - 1) : page'[i] = p
    <3>1. CASE j = 1
      BY <1>6, <1>8, <2>4, <3>1
    <3>2. CASE j # 1
      <4>1. j - 1 \in 1..(m - 1) /\ (j - 1) + 1 = j
        BY <1>4, <3>2
      <4> QED BY <1>6, <2>4, <4>1
    <3> QED BY <3>1, <3>2
  <2> QED BY <1>1, <1>4, <1>11, <2>2, <2>3, <2>4 DEF PageKept
<1>12. PageKept'
  <2>1. \A i \in DOMAIN handled', j \in 1..(m - 1) : handled'[i] < page'[j]
    <3>1. ASSUME NEW i \in DOMAIN handled', NEW j \in 1..(m - 1)
          PROVE  handled'[i] < page'[j]
      <4>1. handled'[i] <= h /\ handled'[i] \in Nat /\ h \in Nat
        BY <1>5, <1>10
      <4>2. h < page'[j] /\ page'[j] \in 1..next /\ next \in Nat
        BY <1>7, <1>10
      <4> QED BY <4>1, <4>2
    <3> QED BY <3>1
  <2>2. \A i \in DOMAIN handled' : handled'[i] <= next
    BY <1>5, <1>7, <1>10
  <2> QED BY <1>1, <1>2, <1>6, <1>7, <1>10, <1>11, <2>1, <2>2 DEF PageKept
<1>13. Reached(h)'
  <2>1. ASSUME NEW start \in origin, NEW p \in start + 1..h, Matches(p)'
        PROVE  Finished(p)'
    <3>1. p \in start + 1..next /\ p <= h
      BY <1>1, <1>5, <1>7, <1>10
    <3>2. \A j \in 1..(m - 1) : page'[j] # p
      <4>1. ASSUME NEW j \in 1..(m - 1) PROVE page'[j] # p
        <5>1. h < page'[j] /\ page'[j] \in 1..next /\ next \in Nat /\ h \in Nat
          BY <1>5, <1>7, <1>10
        <5>2. p \in Nat
          BY <1>1, <3>1
        <5> QED BY <3>1, <5>1, <5>2
      <4> QED BY <4>1
    <3> QED BY <1>11, <2>1, <3>1, <3>2
  <2> QED BY <1>1, <1>2, <1>10, <2>1 DEF Reached
<1>14. LastHandled' = {h} /\ cursor' = {h}
  BY <1>1, <1>3, <1>5 DEF LastHandled
<1>15. \A n \in LastHandled' \cup (IF stopped' THEN {} ELSE cursor') : Reached(n)'
  BY <1>13, <1>14
<1> QED BY <1>1, <1>2, <1>5, <1>9, <1>12, <1>15 DEF FeedKept, Extended

\* Before anybody subscribes.
LEMMA FeedKeptInit ==
  ASSUME ChainInit, FeedInit
  PROVE  FeedKept
<1>1. LogKept /\ at = "none" /\ cursor = {} /\ origin = {} /\ handled = <<>>
  BY LogKeptInit DEF FeedInit
<1>2. handled \in Seq(Nat) /\ DOMAIN handled = {} /\ LastHandled = {}
  BY <1>1 DEF LastHandled
<1> QED BY <1>1, <1>2 DEF FeedKept

\* Every step of the subscription and of what it reads keeps it.
LEMMA FeedKeptStep ==
  ASSUME FeedKept, [FeedNext]_<<chain, feedVars>>
  PROVE  FeedKept'
<1>1. CASE UNCHANGED <<chain, feedVars>>
  BY <1>1, FeedKeptByOthers DEF feedVars
<1>2. CASE \E resumed \in {{}, LastHandled} : Subscribe(resumed)
  BY <1>2, FeedKeptBySubscribe
<1>3. CASE FeedLoop
  BY <1>3, FeedKeptByLatest, FeedKeptByPage, FeedKeptByLeaving, FeedKeptByTurn, FeedKeptByReturn
     DEF FeedLoop, CursorExpired
<1>4. CASE RequestFails \/ HandlerThrows \/ Crash
  BY <1>4, FeedKeptByLeaving DEF RequestFails, HandlerThrows, Crash, Fails
<1>5. CASE Stop \/ Trim \/ (ChainStep /\ UNCHANGED feedVars)
  BY <1>5, FeedKeptByOthers DEF Stop, Trim, feedVars, loopVars
<1> QED BY <1>1, <1>2, <1>3, <1>4, <1>5 DEF FeedNext

\* For any contract, filter, page size, trimming and number of failures: events are
\* finished in order, none twice, and none that was asked for is left out.
THEOREM NothingIsMissed == FeedSpec => []NothingMissed
<1>1. ASSUME FeedKept PROVE NothingMissed
  BY <1>1 DEF FeedKept, NothingMissed, Reached, Finished
<1> QED BY <1>1, FeedKeptInit, FeedKeptStep, PTL DEF FeedSpec
=============================================================================
