------------------------------ MODULE EventIndexer ------------------------------
(* The SubQuery indexer (indexer/src/mappings/index.ts): one handler called for  *)
(* every event, which keeps a record per escrow and an entry per event.  Both    *)
(* are saved by key; the process may stop between the two saves, or anywhere,    *)
(* and starts over from an earlier event.                                        *)
EXTENDS EscrowEvents

CONSTANT MaxRestarts

VARIABLES
  indexed,             \* the events handled so far
  saved,               \* whether the record of the next event is saved already
  record,              \* the Escrow entity of each id
  history,             \* the EscrowEvent entities, by the position of their event
  restarts

indexVars == <<indexed, saved, record, history, restarts>>

\* What the handler knows; the rest is left aside.  Fault: as before cancel.
ActionsBeforeCancel == {"created", "released", "refunded"}
IndexedActions == {"created", "released", "refunded", "cancelled"}
Indexable(ev) == ev.topic \in IndexedActions /\ ev.snapshot # {} /\ ev.id # {}
NextEvent == log[indexed + 1]

\* The fields of the entity, all taken from the snapshot.
EntityFields ==
  {"payer", "payee", "token", "amount", "releasers", "threshold", "refund_after", "notify_payee",
   "requires_acceptance", "accepted_at", "fee_recipient", "fee_bps", "status"}
Entity(ev) ==
  [fields |-> [f \in EntityFields |-> The(ev.snapshot)[f]], updatedLedger |-> ev.ledger]

IgnoreEvent ==
  /\ indexed < Len(log) /\ ~Indexable(NextEvent)
  /\ indexed' = indexed + 1
  /\ UNCHANGED <<chain, saved, record, history, restarts>>

\* get or create, overwrite every field, save.
SaveRecord ==
  /\ indexed < Len(log) /\ ~saved /\ Indexable(NextEvent)
  /\ record' = Put(record, The(NextEvent.id), Entity(NextEvent))
  /\ saved' = TRUE
  /\ UNCHANGED <<chain, indexed, history, restarts>>
SaveHistory ==
  /\ saved
  /\ history' = Put(history, indexed + 1,
       [escrowId |-> The(NextEvent.id), action |-> NextEvent.topic, ledger |-> NextEvent.ledger])
  /\ indexed' = indexed + 1 /\ saved' = FALSE
  /\ UNCHANGED <<chain, record, restarts>>

\* Starts over with any event it has seen.
Restart ==
  /\ restarts < MaxRestarts /\ restarts' = restarts + 1
  /\ \E start \in 0..indexed : indexed' = start
  /\ saved' = FALSE
  /\ UNCHANGED <<chain, record, history>>

IndexerInit ==
  /\ indexed = 0 /\ saved = FALSE /\ record = <<>> /\ history = <<>> /\ restarts = 0

HandleEscrowEvent == IgnoreEvent \/ SaveRecord \/ SaveHistory
IndexerNext ==
  \/ HandleEscrowEvent
  \/ Restart
  \/ ChainStep /\ UNCHANGED indexVars

\* The indexer beside a contract that anybody may call.
IndexerSpec == ChainInit /\ IndexerInit /\ [][IndexerNext]_<<chain, indexVars>>
=============================================================================
