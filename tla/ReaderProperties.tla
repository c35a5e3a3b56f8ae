---------------------------- MODULE ReaderProperties ----------------------------
(* What the readers of the contract's events and state promise: a subscription   *)
(* of the SDK, the indexer and the React view, each of which may be behind, be   *)
(* interrupted and start over.                                                   *)
EXTENDS EventFeed, EventIndexer, EscrowView

-----------------------------------------------------------------------------
(* The subscription.                                                           *)

\* The doc of subscribe: events reach the handler in order and without drops.
\* Of the events the subscription asked for, none that lies before the cursor, or
\* before an event the handler finished, is missing, however pages end, polls
\* fail, the process dies and the server trims its history in between; and none
\* is finished twice.
NothingMissed ==
  /\ \A i, j \in DOMAIN handled : i < j => handled[i] < handled[j]
  /\ \A start \in origin, last \in LastHandled \cup (IF stopped THEN {} ELSE cursor) :
       \A p \in start + 1..last : Matches(p) => \E i \in DOMAIN handled : handled[i] = p
-----------------------------------------------------------------------------
(* The indexer.                                                                *)

\* The fields an escrow keeps while it is funded.
Lasting ==
  EntityFields \ {"payee", "amount", "releasers", "threshold", "accepted_at"}

\* Once the indexer has seen every event, it has a record for every escrow with
\* the status the contract has; a settled escrow's is exact in every field, an
\* open one's only in those that never change: no event carries the others.  It
\* has one history entry per lifecycle event, repeated work notwithstanding.
IndexAgrees ==
  indexed = Len(log) =>
    /\ DOMAIN record = DOMAIN escrow
    /\ \A id \in DOMAIN escrow :
         \A f \in IF status[id] = "Funded" THEN Lasting ELSE EntityFields :
           record[id].fields[f] = escrow[id][f]
    /\ \A p \in DOMAIN log :
         p \in DOMAIN history <=> log[p].topic \in {"created", "released", "refunded", "cancelled"}
-----------------------------------------------------------------------------
(* The view.                                                                   *)

\* What the action asked for is what the view shows.
ShowsAction == data # {} /\ (act # "create" => "Funded" \notin Shown)

\* An action that resolves has refreshed the view: it shows what the action did
\* unless that read failed, or the view was still waiting for a first read that
\* had seen the escrow as it was before.  A view that stopped polling shows what
\* the contract has.  An open escrow's deadline is shown as passed no earlier
\* than the local clock is ahead of the ledger: with one that is not ahead,
\* the contract has it as passed too.
ViewTruth ==
  /\ action = "resolved" /\ ~joined => failed \/ ShowsAction
  /\ interval > 0 /\ data # {} /\ ~RefetchInterval => Shown = {status[0]}
  /\ expired /\ Funded(0) =>
       \E deadline \in escrow[0].refund_after, reached \in LocalClock : reached >= deadline
-----------------------------------------------------------------------------
\* Whoever keeps reading gets there: an event a running subscription asked for is
\* handled unless the subscription ends, pages without such events included; and
\* a view that polls shows a settlement, also after reads that failed.
ReadersCatchUp ==
  /\ \A p \in 1..MaxEvents :
       (at # "none" /\ p \in DOMAIN log /\ (\E start \in origin : p > start) /\ Matches(p))
         ~> (at = "ended" \/ stopped \/ origin = {} \/ \E i \in DOMAIN handled : handled[i] = p)
  /\ \A s \in EscrowStatus \ {"Funded"} :
       (interval > 0 /\ 0 \in DOMAIN status /\ status[0] = s) ~> (s \in Shown)
=============================================================================
