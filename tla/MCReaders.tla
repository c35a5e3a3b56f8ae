------------------------------- MODULE MCReaders -------------------------------
(* The readers of the contract side by side; a behaviour exercises the one it   *)
(* starts with, over the same small contract.                                   *)
EXTENDS ReaderClaims, MCParties

CONSTANT Readers
VARIABLE reader
mcVars == <<reader, chain, feedVars, indexVars, viewVars>>

Single ==
  [payer |-> alice, payee |-> bob, token |-> gold, amount |-> 1,
   condition_ref_len |-> 1, releasers |-> <<alice>>, threshold |-> 1,
   refund_after |-> {1}, notify_payee |-> FALSE, requires_acceptance |-> TRUE,
   refund_to |-> {}, release_not_before |-> {}, fee_recipient |-> {}, fee_bps |-> {}]
Ungated == [Single EXCEPT !.requires_acceptance = FALSE]
SomeRequests == {Single}
SomeBatches == {<<Ungated, Ungated>>}
SmallPool ==
  {[creator |-> alice, payee |-> bob, token |-> gold, funding_target |-> 2,
    condition_ref_len |-> 1, releaser |-> alice, funding_deadline |-> 1]}
ReaderPurse == [t \in Tokens |-> [a \in Addr |-> IF a = alice THEN 4 ELSE 0]]

\* A clock of the viewer's that is right, or one unit ahead or behind.
SomeErrors == -1..1

\* Everything; the settlements of every escrow; everything about escrow 1.
SomeFilters ==
  {[types |-> {}, escrowId |-> {}], [types |-> {{"released", "refunded", "cancelled"}}, escrowId |-> {}],
   [types |-> {}, escrowId |-> {1}]}

ReadersInit ==
  /\ reader \in Readers
  /\ ChainInit /\ FeedInit /\ IndexerInit /\ ViewInit
  /\ reader # "view" => interval = 0 /\ clock = 0
  /\ reader # "feed" => filter = [types |-> {}, escrowId |-> {}]

\* The indexer is shown everything; the others what tells their events apart.
Plot(topics, escrows) ==
  /\ \A p \in DOMAIN log' : log'[p].topic \in topics
  /\ nextId' <= escrows
ReadersNext ==
  /\ UNCHANGED reader
  /\ \/ reader = "feed" /\ FeedNext /\ UNCHANGED <<indexVars, viewVars>>
        /\ Plot({"created", "accepted", "released"}, 2)
     \/ reader = "index" /\ IndexerNext /\ UNCHANGED <<feedVars, viewVars>>
     \/ reader = "view" /\ ViewNext /\ UNCHANGED <<feedVars, indexVars>>
        /\ Plot({"created", "accepted", "released", "refunded", "cancelled"}, 1)

\* The subscription's loop goes on as long as what it awaits is answered.  The
\* view's reads are answered in the end and its poll timer fires; how often reads
\* fail is bounded.
ReadersFairness ==
  /\ WF_<<chain, feedVars>>(reader = "feed" /\ FeedLoop)
  /\ WF_<<chain, viewVars>>(reader = "view" /\ Poll)
  /\ WF_<<chain, viewVars>>(reader = "view" /\ ReadStep)

ReadersSpec == ReadersInit /\ [][ReadersNext]_mcVars /\ ReadersFairness
=============================================================================
