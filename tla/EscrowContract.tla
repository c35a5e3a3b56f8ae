--------------------------- MODULE EscrowContract ---------------------------
(* The escrow contract (contracts/escrow/src/lib.rs): one action per entry   *)
(* point that changes state.  An invocation is atomic: an error or a panic   *)
(* anywhere, in a token call or a payee callback too, reverts all of it, so  *)
(* an action is the successful outcome of its entry point and a failing call *)
(* is a stutter.  The tokens, the accounts that may refuse a transfer, the   *)
(* payee callbacks and the ledger clock are the environment.                 *)
(*                                                                           *)
(* Definitions marked Fault are not part of the contract: each is a mistaken *)
(* version of the definition that follows it, which the property named in    *)
(* PROJECT.json must catch.                                                  *)
EXTENDS Integers, Sequences, FiniteSets, FiniteSetsExt, Totals

CONSTANTS
  Addr,            \* addresses: users, contracts and this contract
  Contract,        \* this contract's own address
  Tokens,          \* token contracts
  AllowedTokens,   \* the allowlist given to the constructor; {} allows all
  PauseAdmin,      \* the custodian given to the constructor
  I128Max,         \* largest value of an amount
  MAX_RELEASERS, MAX_BATCH_SIZE, MAX_SETTLE_OPS, MAX_CONDITION_REF_LEN,
  \* The inputs enumerated
  Requests,        \* argument records of the create_escrow* entry points
  Batches,         \* sequences of them, as arguments of create_escrows
  PoolRequests,    \* argument records of create_pooled_escrow
  Deposits,        \* amounts given to top_up and contribute
  MaxListLen,      \* length of the approver and settle_many lists tried
  \* The environment
  Purse,           \* what each address holds of each token at first
  ShortTokens,     \* tokens that may deliver more or less than asked
  ClawbackTokens,  \* tokens whose issuer may claw back this contract's funds
  Donations,       \* amounts sent to this contract outside any entry point
  CanFreeze,       \* addresses that may come to refuse transfers
  CanBreak,        \* payee contracts whose on_escrow_released hook may fail
  MaxTime, MaxEscrows

VARIABLES
  now,             \* ledger timestamp
  paused,          \* DataKey::Paused
  nextId,          \* DataKey::NextId
  escrow,          \* DataKey::Escrow(id)
  status,          \* DataKey::Status(id)
  pooled,          \* DataKey::Pooled(id)
  contribution,    \* DataKey::Contribution(id, contributor)
  liability,       \* DataKey::Liability(token)
  balance,         \* the tokens' own books
  frozen,          \* addresses that neither send nor receive now
  broken,          \* payee contracts whose hook fails now
  auth             \* addresses that authorised the last invocation

books == <<escrow, status, pooled, contribution, liability, balance>>
world == <<frozen, broken>>
vars == <<now, paused, nextId, books, world, auth>>

MAX_FEE_BPS == 1000
BASIS_POINTS == 10000
EscrowStatus == {"Funded", "Released", "Refunded", "Cancelled"}
Amount == 0..I128Max

\* An Option is a set with at most one element.
Option(S) == {o \in SUBSET S : \A x, y \in o : x = y}
The(opt) == CHOOSE x \in opt : TRUE

\* A releaser list without repetitions.
ReleaserList == {s \in UNION {[1..n -> Addr] : n \in 1..MAX_RELEASERS} :
                   \A i, j \in DOMAIN s : s[i] = s[j] => i = j}

EscrowData ==
  [payer : Addr, payee : Addr, token : Tokens, amount : Amount,
   status : EscrowStatus, releasers : ReleaserList, threshold : 1..MAX_RELEASERS,
   refund_after : Option(Nat), notify_payee : BOOLEAN,
   requires_acceptance : BOOLEAN, accepted_at : Option(Nat), refund_to : Addr,
   release_not_before : Option(Nat), fee_recipient : Option(Addr),
   fee_bps : Option(0..MAX_FEE_BPS)]
PooledData == [funding_target : Amount \ {0}, funding_deadline : Nat]
Contribution == [amount : Amount, refunded : BOOLEAN]

\* The arguments of create_escrow_inner; condition_ref is opaque to the
\* contract and only its length is looked at.
Request ==
  [payer : Addr, payee : Addr, token : Tokens, amount : Int,
   condition_ref_len : Nat, releasers : Seq(Addr), threshold : Nat,
   refund_after : Option(Nat), notify_payee : BOOLEAN,
   requires_acceptance : BOOLEAN, refund_to : Option(Addr),
   release_not_before : Option(Nat), fee_recipient : Option(Addr),
   fee_bps : Option(Nat)]
PoolRequest ==
  [creator : Addr, payee : Addr, token : Tokens, funding_target : Int,
   condition_ref_len : Nat, releaser : Addr, funding_deadline : Nat]

ASSUME PartiesAssumption ==
  /\ IsFiniteSet(Addr) /\ Contract \in Addr /\ PauseAdmin \in Addr
  /\ AllowedTokens \subseteq Tokens /\ IsFiniteSet(Tokens)
  /\ CanFreeze \subseteq Addr \ {Contract} /\ CanBreak \subseteq Addr
  /\ ShortTokens \subseteq Tokens /\ ClawbackTokens \subseteq Tokens
ASSUME LimitsAssumption ==
  /\ I128Max \in Nat /\ MAX_RELEASERS \in Nat /\ MAX_CONDITION_REF_LEN \in Nat
  /\ MAX_BATCH_SIZE \in Nat /\ MAX_SETTLE_OPS \in Nat
  /\ MaxListLen \in Nat /\ MaxTime \in Nat /\ MaxEscrows \in Nat
ASSUME InputsAssumption ==
  /\ Requests \subseteq Request /\ PoolRequests \subseteq PoolRequest
  /\ \A items \in Batches : items \in Seq(Request)
  /\ Deposits \subseteq Int /\ Donations \subseteq Nat \ {0}
  /\ Purse \in [Tokens -> [Addr -> Nat]]
  /\ \A t \in Tokens : Purse[t][Contract] = 0
-----------------------------------------------------------------------------
(* Authorisation.  The host lets an address authorise a frame once, and the  *)
(* contract's own address has nobody to sign for it.                         *)

\* Fault: only the caller is asked, not the payer who must agree.
RequireFirstAuth(addrs) ==
  /\ \A i \in DOMAIN addrs : addrs[i] # Contract
  /\ auth' = {addrs[1]}

\* The invocation is authorised by the addresses of the list, each asked once.
RequireAuth(addrs) ==
  /\ \A i \in DOMAIN addrs : addrs[i] # Contract
  /\ \A i, j \in DOMAIN addrs : addrs[i] = addrs[j] => i = j
  /\ auth' = {addrs[i] : i \in DOMAIN addrs}

Contains(list, candidate) == \E i \in DOMAIN list : list[i] = candidate
Exists(id) == id \in DOMAIN escrow
\* Fault: settled escrows are not told apart.
Stored(id) == Exists(id)
Funded(id) == Exists(id) /\ escrow[id].status = "Funded"
IsPooled(id) == id \in DOMAIN pooled
\* Fault: a pool is released whatever it holds.
AnyFunding(id) == TRUE
FullyFunded(id) ==
  IsPooled(id) => escrow[id].amount = pooled[id].funding_target

\* Fault: one member settles for the quorum.
CheckMember(e, caller) == Contains(e.releasers, caller)
\* A releaser of an escrow that settles on one signature.
CheckSingleCaller(e, caller) == Contains(e.releasers, caller) /\ e.threshold = 1

\* A list of distinct releasers, at least threshold of them, who all sign.
CheckApprovals(e, approvers) ==
  /\ Len(approvers) >= e.threshold
  /\ \A i \in DOMAIN approvers : Contains(e.releasers, approvers[i])
  /\ \A i, j \in DOMAIN approvers : approvers[i] = approvers[j] => i = j
  /\ RequireAuth(approvers)

ReleaseChecks(id, caller) ==
  /\ Exists(id)
  /\ CheckSingleCaller(escrow[id], caller)
  /\ Funded(id)
  /\ FullyFunded(id)

TimeoutPassed(e) == \E deadline \in e.refund_after : now >= deadline

\* Fault: the deadline opens the refund to nobody.
RefundChecksReleaserOnly(id, caller) ==
  Funded(id) /\ ~IsPooled(id) /\ CheckSingleCaller(escrow[id], caller)
\* Fault: the pause holds refunds back too.
RefundChecksUnpaused(id, caller) ==
  /\ Funded(id) /\ ~IsPooled(id) /\ ~paused
  /\ TimeoutPassed(escrow[id]) \/ CheckSingleCaller(escrow[id], caller)
RefundChecks(id, caller) ==
  /\ Exists(id) /\ ~IsPooled(id)
  /\ TimeoutPassed(escrow[id]) \/ CheckSingleCaller(escrow[id], caller)
  /\ Funded(id)

\* Fault: acceptance is not asked for.
ReleaseGatesNoAcceptance(e) == \A release_time \in e.release_not_before : now >= release_time
\* What settle checks on a release before it writes anything.
ReleaseGates(e) ==
  /\ \A release_time \in e.release_not_before : now >= release_time
  /\ e.requires_acceptance => e.accepted_at # {}
-----------------------------------------------------------------------------
(* Money.                                                                    *)

FeeFits(amount, bps) == amount * bps <= I128Max
FeeAmount(amount, bps) == (amount * bps) \div BASIS_POINTS

\* The fee of a settlement: none unless both fields are set and it releases.
Fee(e, to) ==
  IF to = "Released" /\ e.fee_recipient # {} /\ e.fee_bps # {}
    THEN FeeAmount(e.amount, The(e.fee_bps)) ELSE 0
\* Fault: the fee comes on top of the amount.
PayoutGross(e, to) == e.amount
Payout(e, to) == e.amount - Fee(e, to)
\* Fault: a refund goes to the payee.
DestinationPayee(e, to) == e.payee
Destination(e, to) == IF to = "Released" THEN e.payee ELSE e.refund_to

\* The two transfers of a settlement: what they send, what address a gets.
Sent(e, to) == Fee(e, to) + Payout(e, to)
Share(e, to, a) ==
  (IF a \in e.fee_recipient THEN Fee(e, to) ELSE 0)
  + (IF a = Destination(e, to) THEN Payout(e, to) ELSE 0)

\* Fault: the counter is overwritten.
SetLiability(in) == liability' = in
AddLiability(in) ==
  /\ \A t \in Tokens : liability[t] + in[t] <= I128Max
  /\ liability' = [t \in Tokens |-> liability[t] + in[t]]

SubLiability(out) ==
  /\ \A t \in Tokens : liability[t] - out[t] >= 0
  /\ liability' = [t \in Tokens |-> liability[t] - out[t]]

\* What the contract is credited when in[t] of each token t is sent to it: a
\* misbehaving token may keep a unit or mint one.
Delivered(in) ==
  {[t \in Tokens |-> IF t \in ShortTokens /\ in[t] > 0 THEN in[t] + skew ELSE in[t]] :
     skew \in -1..1}

\* Fault: what arrived is not compared with what was asked for.
AnyDelivery(received, in) == TRUE
\* The balance check of transfer_in_exact.
DeliveredExactly(received, in) == received = in

\* Pulls in[t] of each token t from payer; every balance of the contract must
\* rise by exactly what was asked for.
TransferInExact(payer, in) ==
  \E received \in Delivered(in) :
    /\ \A t \in Tokens : in[t] > 0 => balance[t][payer] >= in[t] /\ payer \notin frozen
    /\ DeliveredExactly(received, in)
    /\ AddLiability(in)
    /\ balance' = [t \in Tokens |-> [a \in Addr |->
                     balance[t][a] + (IF a = Contract THEN received[t] ELSE 0)
                                   - (IF a = payer THEN in[t] ELSE 0)]]

\* amount of one token and nothing of the others.
Just(token, amount) == [t \in Tokens |-> IF t = token THEN amount ELSE 0]

\* settle for one escrow, or for those one settle_many call settles: to[id] is
\* the status escrow id ends in, at[id] the position of its operation.
Settle(to, at) ==
  LET ids == DOMAIN to
      owed == [t \in Tokens |-> Total([id \in ids |->
                 IF escrow[id].token = t THEN escrow[id].amount ELSE 0])]
      sent(t) == Total([id \in ids |->
                   IF escrow[id].token = t THEN Sent(escrow[id], to[id]) ELSE 0])
      paid(t, a) == Total([id \in ids |->
                      IF escrow[id].token = t THEN Share(escrow[id], to[id], a) ELSE 0])
      \* what left the contract, in the token of id, before the operation on id
      spent(id) == Total([j \in ids |->
                     IF at[j] < at[id] /\ escrow[j].token = escrow[id].token
                       THEN Sent(escrow[j], to[j]) - Share(escrow[j], to[j], Contract) ELSE 0])
  IN /\ \A id \in ids :
          LET e == escrow[id] IN
          /\ to[id] = "Released" => ReleaseGates(e)
          /\ \A bps \in e.fee_bps : to[id] = "Released" => FeeFits(e.amount, bps)
          /\ \A a \in frozen : Share(e, to[id], a) = 0
          /\ spent(id) + Sent(e, to[id]) <= balance[e.token][Contract]
          /\ e.notify_payee /\ to[id] = "Released" => e.payee \notin broken
     /\ escrow' = [id \in DOMAIN escrow |->
                     IF id \in ids THEN [escrow[id] EXCEPT !.status = to[id]] ELSE escrow[id]]
     /\ status' = [id \in DOMAIN status |-> IF id \in ids THEN to[id] ELSE status[id]]
     /\ SubLiability(owed)
     /\ balance' = [t \in Tokens |-> [a \in Addr |->
                      balance[t][a] + paid(t, a) - (IF a = Contract THEN sent(t) ELSE 0)]]
     /\ UNCHANGED <<now, paused, nextId, pooled, contribution, world>>

SettleOne(id, to) == Settle([x \in {id} |-> to], [x \in {id} |-> 1])
-----------------------------------------------------------------------------
(* Creation.                                                                 *)

\* Fault: the pause is not looked at.
IgnorePause == TRUE
DepositsOpen == ~paused

TokenAllowed(token) == AllowedTokens = {} \/ token \in AllowedTokens

CheckReleaserSet(releasers, threshold) ==
  /\ Len(releasers) <= MAX_RELEASERS
  /\ threshold >= 1 /\ threshold <= Len(releasers)
  /\ \A i, j \in DOMAIN releasers : releasers[i] = releasers[j] => i = j

\* Fault: the default is not filled in.
RefundToAsGiven(req) == req.refund_to
RefundTo(req) == IF req.refund_to = {} THEN req.payer ELSE The(req.refund_to)

CheckFee(req) ==
  /\ (req.fee_recipient = {}) <=> (req.fee_bps = {})
  /\ \A bps \in req.fee_bps : bps <= MAX_FEE_BPS /\ FeeFits(req.amount, bps)
  /\ Contract \notin req.fee_recipient

CreateChecks(req) ==
  /\ TokenAllowed(req.token)
  /\ req.amount > 0 /\ req.amount <= I128Max
  /\ \A deadline \in req.refund_after : deadline > now
  /\ \A release_time \in req.release_not_before :
       /\ release_time >= now
       /\ \A deadline \in req.refund_after : release_time <= deadline
  /\ req.condition_ref_len <= MAX_CONDITION_REF_LEN
  /\ CheckReleaserSet(req.releasers, req.threshold)
  /\ RefundTo(req) # Contract
  /\ CheckFee(req)

NewEscrow(req) ==
  [payer |-> req.payer, payee |-> req.payee, token |-> req.token,
   amount |-> req.amount, status |-> "Funded", releasers |-> req.releasers,
   threshold |-> req.threshold, refund_after |-> req.refund_after,
   notify_payee |-> req.notify_payee,
   requires_acceptance |-> req.requires_acceptance, accepted_at |-> {},
   refund_to |-> RefundTo(req), release_not_before |-> req.release_not_before,
   fee_recipient |-> req.fee_recipient, fee_bps |-> req.fee_bps]

\* create_escrow_inner for the requests of one call, all funded by payer.
CreateEscrowInner(payer, reqs) ==
  LET last == nextId + Len(reqs) - 1
      in == [t \in Tokens |-> Total([i \in DOMAIN reqs |->
               IF reqs[i].token = t THEN reqs[i].amount ELSE 0])]
  IN /\ DepositsOpen
     /\ last < MaxEscrows
     /\ \A i \in DOMAIN reqs : CreateChecks(reqs[i])
     /\ RequireAuth(<<payer>> \o IF reqs[1].notify_payee THEN <<reqs[1].payee>> ELSE <<>>)
     /\ TransferInExact(payer, in)
     /\ nextId' = last + 1
     /\ escrow' = [id \in DOMAIN escrow \cup (nextId..last) |->
                     IF id < nextId THEN escrow[id] ELSE NewEscrow(reqs[id - nextId + 1])]
     /\ status' = [id \in DOMAIN status \cup (nextId..last) |->
                     IF id < nextId THEN status[id] ELSE "Funded"]
     /\ UNCHANGED <<now, paused, pooled, contribution, world>>

\* The argument lists of the entry points are parts of a request.
SingleReleaser(req) == Len(req.releasers) = 1 /\ req.threshold = 1
NoFee(req) == req.fee_recipient = {} /\ req.fee_bps = {}

CreateEscrow(req) ==
  /\ SingleReleaser(req) /\ ~req.requires_acceptance /\ req.release_not_before = {}
  /\ CreateEscrowInner(req.payer, <<req>>)

CreateEscrowReleaseTime(req) ==
  /\ SingleReleaser(req) /\ ~req.requires_acceptance
  /\ CreateEscrowInner(req.payer, <<req>>)

CreateEscrowWithAcceptance(req) ==
  /\ SingleReleaser(req) /\ NoFee(req)
  /\ ~req.notify_payee /\ req.release_not_before = {}
  /\ CreateEscrowInner(req.payer, <<req>>)

CreateEscrowWithReleasers(req) ==
  /\ NoFee(req) /\ ~req.requires_acceptance /\ req.release_not_before = {}
  /\ CreateEscrowInner(req.payer, <<req>>)

\* A batch is created as a whole or not at all, on one signature.
CreateEscrows(payer, items) ==
  /\ Len(items) <= MAX_BATCH_SIZE /\ items # <<>>
  /\ \A i \in DOMAIN items :
       /\ items[i].payer = payer /\ SingleReleaser(items[i]) /\ NoFee(items[i])
       /\ ~items[i].notify_payee /\ ~items[i].requires_acceptance
       /\ items[i].refund_to = {} /\ items[i].release_not_before = {}
  /\ CreateEscrowInner(payer, items)
-----------------------------------------------------------------------------
(* Pooled escrows.                                                           *)

\* Fault: the record of a first contribution is never updated.
PutOnce(f, k, v) == [x \in DOMAIN f \cup {k} |-> IF x \in DOMAIN f THEN f[x] ELSE v]
\* f with k bound to v.
Put(f, k, v) == [x \in DOMAIN f \cup {k} |-> IF x = k THEN v ELSE f[x]]

CreatePooledEscrow(req) ==
  /\ DepositsOpen
  /\ nextId < MaxEscrows
  /\ TokenAllowed(req.token)
  /\ req.funding_target > 0 /\ req.funding_target <= I128Max
  /\ req.funding_deadline > now
  /\ req.condition_ref_len <= MAX_CONDITION_REF_LEN
  /\ CheckReleaserSet(<<req.releaser>>, 1)
  /\ RequireAuth(<<req.creator>>)
  /\ nextId' = nextId + 1
  /\ escrow' = Put(escrow, nextId,
       [payer |-> req.creator, payee |-> req.payee, token |-> req.token,
        amount |-> 0, status |-> "Funded", releasers |-> <<req.releaser>>,
        threshold |-> 1, refund_after |-> {}, notify_payee |-> FALSE,
        requires_acceptance |-> FALSE, accepted_at |-> {},
        refund_to |-> req.creator, release_not_before |-> {},
        fee_recipient |-> {}, fee_bps |-> {}])
  /\ status' = Put(status, nextId, "Funded")
  /\ pooled' = Put(pooled, nextId,
       [funding_target |-> req.funding_target, funding_deadline |-> req.funding_deadline])
  /\ UNCHANGED <<now, paused, contribution, liability, balance, world>>

\* The contributor's record, or the empty one.
Recorded(id, payer) ==
  IF <<id, payer>> \in DOMAIN contribution THEN contribution[<<id, payer>>]
  ELSE [amount |-> 0, refunded |-> FALSE]

\* Fault: one instant too long.
FundingOpenLate(id) == now <= pooled[id].funding_deadline
\* Fault: the round never ends.
FundingNeverCloses(id) == TRUE
FundingOpen(id) == now < pooled[id].funding_deadline

Contribute(id, payer, amount) ==
  /\ amount > 0
  /\ DepositsOpen
  /\ IsPooled(id) /\ Funded(id)
  /\ FundingOpen(id)
  /\ amount <= pooled[id].funding_target - escrow[id].amount
  /\ RequireAuth(<<payer>>)
  /\ TransferInExact(payer, Just(escrow[id].token, amount))
  /\ Recorded(id, payer).amount + amount <= I128Max
  /\ contribution' = Put(contribution, <<id, payer>>,
                         [Recorded(id, payer) EXCEPT !.amount = @ + amount])
  /\ escrow' = [escrow EXCEPT ![id].amount = @ + amount]
  /\ UNCHANGED <<now, paused, nextId, status, pooled, world>>

ClaimRefund(id, contributor) ==
  LET e == escrow[id]
      claimed == contribution[<<id, contributor>>].amount
  IN /\ RequireAuth(<<contributor>>)
     /\ IsPooled(id) /\ Funded(id)
     /\ ~FundingOpen(id)
     /\ e.amount < pooled[id].funding_target
     /\ <<id, contributor>> \in DOMAIN contribution
     /\ ~contribution[<<id, contributor>>].refunded
     /\ contribution' = [contribution EXCEPT ![<<id, contributor>>].refunded = TRUE]
     /\ escrow' = [escrow EXCEPT ![id].amount = @ - claimed]
     /\ SubLiability(Just(e.token, claimed))
     /\ balance[e.token][Contract] >= claimed /\ contributor \notin frozen
     /\ balance' = [balance EXCEPT ![e.token][Contract] = @ - claimed,
                                   ![e.token][contributor] = @ + claimed]
     /\ UNCHANGED <<now, paused, nextId, status, pooled, world>>
-----------------------------------------------------------------------------
(* Changes to a funded escrow.                                               *)

Accept(id, payee) ==
  /\ RequireAuth(<<payee>>)
  /\ Funded(id) /\ payee = escrow[id].payee
  /\ escrow[id].requires_acceptance
  /\ escrow[id].accepted_at = {}
  /\ escrow' = [escrow EXCEPT ![id].accepted_at = {now}]
  /\ UNCHANGED <<now, paused, nextId, status, pooled, contribution, liability,
                 balance, world>>

RotateReleaser(id, caller, new_releaser) ==
  /\ Funded(id)
  /\ escrow[id].threshold = 1
  /\ caller = escrow[id].releasers[1]
  /\ new_releaser # Contract /\ new_releaser # escrow[id].payee
  /\ RequireAuth(<<caller, escrow[id].payer>>)
  /\ escrow' = [escrow EXCEPT ![id].releasers = <<new_releaser>>]
  /\ UNCHANGED <<now, paused, nextId, status, pooled, contribution, liability,
                 balance, world>>

TopUp(id, payer, amount) ==
  /\ amount > 0
  /\ DepositsOpen
  /\ RequireAuth(<<payer>>)
  /\ ~IsPooled(id)
  /\ Funded(id) /\ payer = escrow[id].payer
  /\ escrow[id].amount + amount <= I128Max
  /\ \A bps \in escrow[id].fee_bps : FeeFits(escrow[id].amount + amount, bps)
  /\ TransferInExact(payer, Just(escrow[id].token, amount))
  /\ escrow' = [escrow EXCEPT ![id].amount = @ + amount]
  /\ UNCHANGED <<now, paused, nextId, status, pooled, contribution, world>>

TransferPayee(id, current_payee, new_payee) ==
  /\ RequireAuth(<<current_payee>>)
  /\ Funded(id) /\ current_payee = escrow[id].payee
  /\ new_payee # Contract /\ new_payee # escrow[id].payer
  /\ escrow' = [escrow EXCEPT ![id].payee = new_payee]
  /\ UNCHANGED <<now, paused, nextId, status, pooled, contribution, liability,
                 balance, world>>
-----------------------------------------------------------------------------
(* Settlement.                                                               *)

Release(id, caller) ==
  /\ RequireAuth(<<caller>>)
  /\ ReleaseChecks(id, caller)
  /\ SettleOne(id, "Released")

ReleaseWithApprovals(id, approvers) ==
  /\ Exists(id)
  /\ CheckApprovals(escrow[id], approvers)
  /\ Funded(id) /\ FullyFunded(id)
  /\ SettleOne(id, "Released")

\* The stored payee may give the money back whatever the releasers say.
Refund(id, caller) ==
  /\ RequireAuth(<<caller>>)
  /\ IF Exists(id) /\ caller = escrow[id].payee
       THEN ~IsPooled(id) /\ Funded(id)
       ELSE RefundChecks(id, caller)
  /\ SettleOne(id, "Refunded")

RefundWithApprovals(id, approvers) ==
  /\ Exists(id) /\ ~IsPooled(id)
  /\ CheckApprovals(escrow[id], approvers)
  /\ Funded(id)
  /\ SettleOne(id, "Refunded")

Cancel(id, payer) ==
  /\ RequireAuth(<<payer>>)
  /\ Exists(id) /\ ~IsPooled(id)
  /\ payer = escrow[id].payer /\ Funded(id)
  /\ escrow[id].requires_acceptance
  /\ escrow[id].accepted_at = {}
  /\ SettleOne(id, "Cancelled")

\* The checks of one settle_many operation <<id, status to end in>>.
OperationChecks(op, caller) ==
  IF op[2] = "Released"
    THEN ReleaseChecks(op[1], caller) /\ ReleaseGates(escrow[op[1]])
    ELSE RefundChecks(op[1], caller)

\* Best effort: an operation whose checks fail is skipped, a settlement that
\* fails reverts the batch.  An operation reads only its own escrow, so what
\* settles an escrow is the first operation on it whose checks pass.
SettleMany(caller, ops) ==
  LET passing(id) == {i \in DOMAIN ops : ops[i][1] = id /\ OperationChecks(ops[i], caller)}
      settled == {id \in DOMAIN escrow : passing(id) # {}}
      first == [id \in settled |-> Min(passing(id))]
  IN /\ Len(ops) <= MAX_SETTLE_OPS
     /\ RequireAuth(<<caller>>)
     /\ settled # {}
     /\ Settle([id \in settled |-> ops[first[id]][2]], first)
-----------------------------------------------------------------------------
(* The emergency pause.                                                      *)

Pause(caller) ==
  /\ RequireAuth(<<caller>>) /\ caller = PauseAdmin
  /\ ~paused /\ paused' = TRUE
  /\ UNCHANGED <<now, nextId, books, world>>

Unpause(caller) ==
  /\ RequireAuth(<<caller>>) /\ caller = PauseAdmin
  /\ paused /\ paused' = FALSE
  /\ UNCHANGED <<now, nextId, books, world>>
-----------------------------------------------------------------------------
(* The environment.                                                          *)

Tick ==
  /\ now < MaxTime /\ now' = now + 1 /\ auth' = {}
  /\ UNCHANGED <<paused, nextId, books, world>>

\* An account loses or regains its trustline or its authorisation.
SetFrozen(a) ==
  /\ frozen' = IF a \in frozen THEN frozen \ {a} ELSE frozen \cup {a}
  /\ auth' = {}
  /\ UNCHANGED <<now, paused, nextId, books, broken>>

\* A payee contract's hook starts or stops failing.
SetBroken(a) ==
  /\ broken' = IF a \in broken THEN broken \ {a} ELSE broken \cup {a}
  /\ auth' = {}
  /\ UNCHANGED <<now, paused, nextId, books, frozen>>

\* The issuer of a token takes back some of what this contract holds.
Clawback(t, amount) ==
  /\ balance' = [balance EXCEPT ![t][Contract] = @ - amount]
  /\ auth' = {}
  /\ UNCHANGED <<now, paused, nextId, escrow, status, pooled, contribution,
                 liability, world>>

\* Somebody transfers a token straight to the contract's address.
Donate(t, a, amount) ==
  /\ a \notin frozen /\ balance[t][a] >= amount
  /\ balance' = [balance EXCEPT ![t][a] = @ - amount, ![t][Contract] = @ + amount]
  /\ auth' = {}
  /\ UNCHANGED <<now, paused, nextId, escrow, status, pooled, contribution,
                 liability, world>>
-----------------------------------------------------------------------------
Init ==
  /\ now = 0 /\ paused = FALSE /\ nextId = 0
  /\ escrow = <<>> /\ status = <<>> /\ pooled = <<>> /\ contribution = <<>>
  /\ liability = [t \in Tokens |-> 0]
  /\ balance = Purse
  /\ frozen = {} /\ broken = {} /\ auth = {}

Lists(S) == UNION {[1..n -> S] : n \in 0..MaxListLen}
Operations == (0..nextId) \X {"Released", "Refunded"}

Create ==
  \/ \E req \in Requests :
       \/ CreateEscrow(req)
       \/ CreateEscrowReleaseTime(req)
       \/ CreateEscrowWithAcceptance(req)
       \/ CreateEscrowWithReleasers(req)
  \/ \E payer \in Addr, items \in Batches : CreateEscrows(payer, items)
  \/ \E req \in PoolRequests : CreatePooledEscrow(req)

\* Steps of one escrow that is in storage.
Use(id) ==
  \/ \E a \in Addr :
       \/ \E amount \in Deposits : Contribute(id, a, amount) \/ TopUp(id, a, amount)
       \/ ClaimRefund(id, a)
       \/ Accept(id, a)
       \/ \E b \in Addr : RotateReleaser(id, a, b) \/ TransferPayee(id, a, b)
       \/ Release(id, a)
       \/ Refund(id, a)
       \/ Cancel(id, a)
  \/ \E approvers \in Lists(Addr) :
       ReleaseWithApprovals(id, approvers) \/ RefundWithApprovals(id, approvers)

Environment ==
  \/ Tick
  \/ \E a \in CanFreeze : SetFrozen(a)
  \/ \E a \in CanBreak : SetBroken(a)
  \/ \E t \in ClawbackTokens : \E amount \in 1..balance[t][Contract] : Clawback(t, amount)
  \/ \E t \in Tokens, a \in Addr \ {Contract}, amount \in Donations : Donate(t, a, amount)

Next ==
  \/ Create
  \/ \E id \in DOMAIN escrow : Use(id)
  \/ \E caller \in Addr, ops \in Lists(Operations) : SettleMany(caller, ops)
  \/ \E caller \in Addr : Pause(caller) \/ Unpause(caller)
  \/ Environment

Spec == Init /\ [][Next]_vars
=============================================================================
