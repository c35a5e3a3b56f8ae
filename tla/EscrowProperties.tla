-------------------------- MODULE EscrowProperties --------------------------
(* What the escrow contract promises: the invariants I1-I4 and I8 of         *)
(* docs/threat-model.md, the solvency accounting and the pooled accounting,  *)
(* stated over every entry point at once.                                    *)
EXTENDS EscrowContract

Ids == 0..(nextId - 1)

\* Every variable stays within the type its storage key gives it, and the
\* records of one escrow exist together.
TypeOK ==
  /\ now \in Nat /\ paused \in BOOLEAN /\ nextId \in Nat
  /\ escrow \in [Ids -> EscrowData]
  /\ status \in [Ids -> EscrowStatus]
  /\ DOMAIN pooled \subseteq Ids
  /\ \A id \in DOMAIN pooled : pooled[id] \in PooledData
  /\ DOMAIN contribution \subseteq (DOMAIN pooled) \X (Addr \ {Contract})
  /\ \A key \in DOMAIN contribution : contribution[key] \in Contribution
  /\ liability \in [Tokens -> Amount]
  /\ balance \in [Tokens -> [Addr -> Int]]
  /\ frozen \in SUBSET CanFreeze /\ broken \in SUBSET CanBreak
  /\ auth \in SUBSET (Addr \ {Contract})
-----------------------------------------------------------------------------
(* Accounting.                                                               *)

\* solvency(token): whatever the other tokens do, short deliveries included,
\* the contract holds what it owes in every token nobody claws back, so the
\* escrows sharing one pool never compete for it.
Solvent == \A t \in Tokens \ ClawbackTokens : balance[t][Contract] >= liability[t]

\* What escrow id is owed in token t, going by the status get_status reads.
Owed(id, t) ==
  IF status[id] = "Funded" /\ escrow[id].token = t THEN escrow[id].amount ELSE 0

\* The doc of solvency(): the counter kept by add_liability and sub_liability
\* never drifts from the sum of the amounts of the funded escrows.
LiabilityExact ==
  \A t \in Tokens : liability[t] = Total([id \in DOMAIN status |-> Owed(id, t)])

\* What address a can still claim back from the pooled escrow id.
Unclaimed(id, a) ==
  IF Recorded(id, a).refunded THEN 0 ELSE Recorded(id, a).amount

\* A funded pool holds exactly the contributions not claimed back, never more
\* than its target: contribute and claim_refund keep one total for all payers.
PoolExact ==
  \A id \in DOMAIN pooled :
    Funded(id) =>
      /\ escrow[id].amount = Total([a \in Addr |-> Unclaimed(id, a)])
      /\ escrow[id].amount <= pooled[id].funding_target

\* I3 for a pool: a released pool paid its whole target and no contributor
\* has taken anything back from it; a release and a claim never meet.
NoReleaseAfterClaim ==
  \A id \in DOMAIN pooled :
    escrow[id].status = "Released" =>
      /\ escrow[id].amount = pooled[id].funding_target
      /\ Total([a \in Addr |-> Unclaimed(id, a)]) = pooled[id].funding_target

-----------------------------------------------------------------------------
(* Settlement.                                                               *)

\* The escrows that leave Funded in this step.
Settling(id) == Funded(id) /\ escrow'[id].status # "Funded"

\* I3: a settled escrow is final; neither its records nor the contributions
\* recorded for it change again, whatever is called on it.
SettledIsFinal ==
  [][\A id \in DOMAIN escrow :
       escrow[id].status # "Funded" =>
         /\ escrow'[id] = escrow[id] /\ status'[id] = status[id]
         /\ \A a \in Addr : Recorded(id, a)' = Recorded(id, a)]_vars

\* I1: an address other than the contract gains tokens only as the payee or
\* fee recipient of an escrow being released, the stored refund_to of one being
\* refunded or cancelled, or a contributor claiming a record of its own.
PayoutsEntitled ==
  [][\A t \in Tokens, a \in Addr \ {Contract} :
       balance'[t][a] > balance[t][a] =>
         \E id \in DOMAIN escrow :
           /\ Funded(id) /\ escrow[id].token = t
           /\ CASE escrow'[id].status = "Released" ->
                     a = escrow[id].payee \/ a \in escrow[id].fee_recipient
                [] escrow'[id].status \in {"Refunded", "Cancelled"} ->
                     ~IsPooled(id) /\ a = escrow[id].refund_to
                [] OTHER -> a \in auth' /\ Unclaimed(id, a) > 0 /\ Unclaimed(id, a)' = 0
    ]_vars

\* What leaves the contract in a step is what it stops owing in that step; a
\* release with a fee is two transfers and still pays exactly the amount.
OutflowIsDebt ==
  [][\A t \in Tokens \ ClawbackTokens :
       balance'[t][Contract] < balance[t][Contract] =>
         balance[t][Contract] - balance'[t][Contract] <= liability[t] - liability'[t]]_vars

\* Enough distinct releasers signed the call that settles id.
Quorum(id) ==
  Cardinality({a \in auth' : Contains(escrow[id].releasers, a)}) >= escrow[id].threshold

\* I2: through every settlement path, settle_many included, a release is
\* signed by a quorum of the releasers of that moment; a refund by a quorum,
\* by the payee, or by anyone after refund_after; a cancel by the payer.  A
\* release comes no earlier than release_not_before, which the code asks of every
\* release, although T15 of docs/threat-model.md excepts those by a quorum; and a
\* pool is never pushed back.
SettlementAuthorised ==
  [][\A id \in DOMAIN escrow :
       Settling(id) =>
         CASE escrow'[id].status = "Released" ->
                /\ Quorum(id)
                /\ \A release_time \in escrow[id].release_not_before : now >= release_time
           [] escrow'[id].status = "Refunded" ->
                /\ ~IsPooled(id)
                /\ Quorum(id) \/ escrow[id].payee \in auth' \/ TimeoutPassed(escrow[id])
           [] OTHER -> ~IsPooled(id) /\ escrow[id].payer \in auth']_vars

\* The race between accept and cancel has one winner: a cancelled escrow was
\* never accepted, and one that asked for acceptance is released only after it.
AcceptanceDecides ==
  \A id \in DOMAIN escrow :
    LET e == escrow[id] IN
    /\ e.status = "Cancelled" => e.requires_acceptance /\ e.accepted_at = {}
    /\ e.status = "Released" /\ e.requires_acceptance =>
         \E t \in e.accepted_at : t <= now
-----------------------------------------------------------------------------
(* Terms.                                                                    *)

Fixed(e) ==
  <<e.payer, e.token, e.threshold, e.refund_after, e.notify_payee, e.requires_acceptance,
    e.refund_to, e.release_not_before, e.fee_recipient, e.fee_bps>>

\* The terms of an escrow stay as the payer signed them: only the payee hands
\* over its place, only the payer and the current releaser together change the
\* releasers and never a quorum, only the payer of a plain escrow adds money,
\* and acceptance is given once, by the payee.
TermsKept ==
  [][\A id \in DOMAIN escrow :
       LET old == escrow[id] new == escrow'[id] IN
       /\ id \in DOMAIN escrow' /\ Fixed(new) = Fixed(old)
       /\ new.payee # old.payee => auth' = {old.payee}
       /\ new.releasers # old.releasers =>
            old.threshold = 1 /\ auth' = {old.payer, old.releasers[1]}
       /\ new.accepted_at # old.accepted_at =>
            old.accepted_at = {} /\ auth' = {old.payee}
       /\ ~IsPooled(id) => new.amount >= old.amount
       /\ ~IsPooled(id) /\ new.amount > old.amount => auth' = {old.payer}]_vars

\* A funding round is decided at its deadline: from then on it neither becomes
\* nor stops being a failed one, and before it nobody's record goes down.
RoundDecided ==
  [][\A id \in DOMAIN pooled :
       LET met == escrow[id].amount = pooled[id].funding_target IN
       /\ now >= pooled[id].funding_deadline =>
            met = (escrow'[id].amount = pooled'[id].funding_target)
       /\ now < pooled[id].funding_deadline =>
            \A a \in Addr : Unclaimed(id, a)' >= Unclaimed(id, a)]_vars

\* I8: while paused no new money enters, by any deposit path: nothing more is
\* owed in any token and no escrow id is handed out.
PauseStopsDeposits ==
  [][paused => /\ nextId' = nextId
               /\ \A t \in Tokens : liability'[t] <= liability[t]]_vars
-----------------------------------------------------------------------------
(* Nothing is trapped.                                                       *)

\* Ledger time passes, the payer of an escrow keeps asking for its refund, which
\* nobody but the contract can refuse past refund_after, and contributors keep
\* claiming.  No releaser, payee or custodian is assumed to do anything.
FairSpec ==
  /\ Spec
  /\ WF_vars(Tick)
  /\ \A id \in 0..(MaxEscrows - 1) :
       /\ WF_vars(Exists(id) /\ Refund(id, escrow[id].payer))
       /\ \A a \in Addr : WF_vars(Exists(id) /\ ClaimRefund(id, a))

\* I8: whatever the pause, the tokens and the other escrows do, a plain funded
\* escrow whose releasers can sign can be refunded by them, as long as its
\* refund_to takes transfers and the contract still holds the money.
AlwaysAWayOut ==
  \A id \in DOMAIN escrow :
    LET e == escrow[id] IN
    /\ Funded(id) /\ ~IsPooled(id)
    /\ ~Contains(e.releasers, Contract)
    /\ e.refund_to \notin frozen /\ balance[e.token][Contract] >= e.amount
    => IF e.threshold = 1 THEN \A i \in DOMAIN e.releasers : ENABLED Refund(id, e.releasers[i])
       ELSE \E approvers \in Lists(Addr) : ENABLED RefundWithApprovals(id, approvers)

\* ADR 0004: an escrow past refund_after gets settled without its releasers.
TimeoutSettles ==
  \A id \in 0..(MaxEscrows - 1) :
    (Funded(id) /\ TimeoutPassed(escrow[id])) ~> ~Funded(id)

\* ADR 0011: a failed round gives every contributor its own money back, so the
\* pool ends up empty whatever the order of the claims.
FailedRoundDrains ==
  \A id \in 0..(MaxEscrows - 1) :
    (/\ IsPooled(id) /\ Funded(id) /\ now >= pooled[id].funding_deadline
     /\ escrow[id].amount < pooled[id].funding_target)
      ~> \A a \in Addr : Unclaimed(id, a) = 0
=============================================================================
