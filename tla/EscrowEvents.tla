----------------------------- MODULE EscrowEvents -----------------------------
(* The events of the escrow contract (contracts/escrow/src/lib.rs): what each *)
(* entry point publishes when it succeeds, in the order it publishes it.      *)
(* created, released, refunded and cancelled carry the whole escrow; the      *)
(* others only say what they changed.                                         *)
EXTENDS EscrowContract

CONSTANT MaxEvents
VARIABLE log           \* every event published so far, in order

chain == <<now, paused, nextId, books, world, auth, log>>

\* snapshot holds the EscrowData of publish_state, id what stands in the topics.
Event(topic, id, snapshot) == [topic |-> topic, id |-> id, ledger |-> now, snapshot |-> snapshot]
Publish(events) == Len(log) + Len(events) <= MaxEvents /\ log' = log \o events
Note(topic, id) == Publish(<<Event(topic, {id}, {})>>)

Action(s) == CASE s = "Funded" -> "created" [] s = "Released" -> "released"
               [] s = "Refunded" -> "refunded" [] s = "Cancelled" -> "cancelled"
PublishedState(id) == Event(Action(escrow'[id].status), {id}, {escrow'[id]})

\* The members of S as a sequence, by their rank.  (SetToSortSeq sorts with SortSeq,
\* which has no definition that a proof could use.)
InOrder(S, rank) ==
  CHOOSE s \in [1..Cardinality(S) -> S] :
    \A i, j \in DOMAIN s : i < j => rank[s[i]] < rank[s[j]]
PublishInOrder(ids, rank) ==
  LET order == InOrder(ids, rank) IN Publish([i \in DOMAIN order |-> PublishedState(order[i])])
PublishStates(ids) == PublishInOrder(ids, [id \in ids |-> id])

PublishingCreate ==
  /\ \/ \E req \in Requests :
          \/ CreateEscrow(req)
          \/ CreateEscrowReleaseTime(req)
          \/ CreateEscrowWithAcceptance(req)
          \/ CreateEscrowWithReleasers(req)
     \/ \E payer \in Addr, items \in Batches : CreateEscrows(payer, items)
     \/ \E req \in PoolRequests : CreatePooledEscrow(req)
  /\ PublishStates(nextId..nextId' - 1)

PublishingChange(id, a) ==
  \/ Accept(id, a) /\ Note("accepted", id)
  \/ \E b \in Addr :
       \/ RotateReleaser(id, a, b) /\ Note("rotate", id)
       \/ TransferPayee(id, a, b) /\ Note("pay_xfer", id)
  \/ \E amount \in Deposits :
       \/ TopUp(id, a, amount) /\ Note("top_up", id)
       \/ Contribute(id, a, amount) /\ Note("contrib", id)
  \/ ClaimRefund(id, a) /\ Note("claimed", id)

PublishingRelease(id, a) == Release(id, a) /\ PublishStates({id})
\* A refund by the payee is announced once more.
PublishingRefund(id, a) ==
  /\ Refund(id, a)
  /\ Publish(<<PublishedState(id)>> \o
       IF a = escrow[id].payee THEN <<Event("payee_refunded", {id}, {})>> ELSE <<>>)
PublishingSettlement(id) ==
  \/ \E a \in Addr :
       \/ PublishingRelease(id, a)
       \/ PublishingRefund(id, a)
       \/ Cancel(id, a) /\ PublishStates({id})
  \/ \E approvers \in Lists(Addr) :
       /\ ReleaseWithApprovals(id, approvers) \/ RefundWithApprovals(id, approvers)
       /\ PublishStates({id})

\* settle_many settles in the order of its operations.
PublishingSettleMany ==
  \E a \in Addr, ops \in Lists(Operations) :
    /\ SettleMany(a, ops)
    /\ LET settled == {id \in DOMAIN escrow : escrow'[id] # escrow[id]}
           at == [id \in settled |->
                  Min({i \in DOMAIN ops : ops[i][1] = id /\ OperationChecks(ops[i], a)})] IN
       PublishInOrder(settled, at)

PublishingPause ==
  \E a \in Addr :
    \/ Pause(a) /\ Publish(<<Event("paused", {}, {})>>)
    \/ Unpause(a) /\ Publish(<<Event("unpaused", {}, {})>>)

ChainInit == Init /\ log = <<>>
ChainStep ==
  \/ PublishingCreate
  \/ \E id \in DOMAIN escrow, a \in Addr : PublishingChange(id, a)
  \/ \E id \in DOMAIN escrow : PublishingSettlement(id)
  \/ PublishingSettleMany
  \/ PublishingPause
  \/ Tick /\ UNCHANGED log
=============================================================================
