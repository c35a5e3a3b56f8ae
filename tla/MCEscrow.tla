------------------------------ MODULE MCEscrow ------------------------------
(* The parties and the inputs of the model-checking runs of EscrowContract.  *)
(* Each run picks, in its configuration, the requests that raise its         *)
(* question.                                                                 *)
EXTENDS EscrowClaims

CONSTANTS alice, bob, carol, dave, self,   \* addresses; self is the contract
          gold, iron                       \* tokens

People == {alice, bob, carol}
Parties == People \cup {self}
MoreParties == Parties \cup {dave}

\* alice pays, bob is paid, carol releases.
Plain ==
  [payer |-> alice, payee |-> bob, token |-> gold, amount |-> 2,
   condition_ref_len |-> 1, releasers |-> <<carol>>, threshold |-> 1,
   refund_after |-> {}, notify_payee |-> FALSE, requires_acceptance |-> FALSE,
   refund_to |-> {}, release_not_before |-> {}, fee_recipient |-> {}, fee_bps |-> {}]
Pool ==
  [creator |-> alice, payee |-> bob, token |-> gold, funding_target |-> 2,
   condition_ref_len |-> 1, releaser |-> carol, funding_deadline |-> 2]

\* n units of every token to each person.
Each(n) == [t \in Tokens |-> [a \in Addr |-> IF a = self THEN 0 ELSE n]]
None == {}
PoolPurse == [t \in Tokens |-> [a \in Addr |-> IF t = gold THEN
               CASE a = alice -> 3 [] a = self -> 0 [] OTHER -> 2 ELSE 0]]
TwoEach == Each(2)
ThreeEach == Each(3)
FourEach == Each(4)

\* Requests create_escrow_inner turns down, one per check.
BadRequests ==
  {[Plain EXCEPT !.amount = 0], [Plain EXCEPT !.token = iron],
   [Plain EXCEPT !.refund_after = {0}],
   [Plain EXCEPT !.release_not_before = {2}, !.refund_after = {1}],
   [Plain EXCEPT !.condition_ref_len = 3], [Plain EXCEPT !.releasers = <<>>],
   [Plain EXCEPT !.threshold = 0], [Plain EXCEPT !.threshold = 2],
   [Plain EXCEPT !.releasers = <<carol, carol>>], [Plain EXCEPT !.refund_to = {self}],
   [Plain EXCEPT !.fee_recipient = {carol}], [Plain EXCEPT !.fee_bps = {100}],
   [Plain EXCEPT !.fee_recipient = {self}, !.fee_bps = {100}],
   [Plain EXCEPT !.fee_recipient = {carol}, !.fee_bps = {1001}],
   [Plain EXCEPT !.payer = self], [Plain EXCEPT !.payee = alice, !.notify_payee = TRUE]}

\* Gates: acceptance, time lock, timeout, sponsor destination, callback.
GateRequests ==
  BadRequests \cup
  {[Plain EXCEPT !.requires_acceptance = TRUE, !.refund_after = {2}],
   [Plain EXCEPT !.release_not_before = {1}, !.refund_after = {1}],
   [Plain EXCEPT !.notify_payee = TRUE, !.refund_to = {carol}]}

\* Releaser sets: two of three, and one of two, which rotation shrinks to one.
QuorumRequests ==
  {[Plain EXCEPT !.releasers = <<alice, carol, dave>>, !.threshold = 2, !.refund_after = {2}],
   [Plain EXCEPT !.releasers = <<carol, dave>>]}
GateAndQuorumRequests == GateRequests \cup QuorumRequests

\* A funding round beside a plain escrow in the same token.
Couple == {alice, bob, self}
Round == [Pool EXCEPT !.releaser = bob, !.funding_target = 3]
PoolRequests2 == {Round, [Round EXCEPT !.funding_target = 0], [Round EXCEPT !.funding_deadline = 0],
                  [Round EXCEPT !.token = iron], [Round EXCEPT !.condition_ref_len = 3]}
TimedRequest == {[Plain EXCEPT !.amount = 1, !.releasers = <<bob>>, !.refund_after = {2}]}

\* Money: a fee of 1 on 15 and 2 on 20, gold the token that misdelivers, iron
\* the one its issuer claws back; the second batch pays the contract itself.
FeeRequest ==
  {[Plain EXCEPT !.amount = 15, !.fee_recipient = {carol}, !.fee_bps = {1000}, !.releasers = <<alice>>]}
MoneyBatches ==
  LET item == [Plain EXCEPT !.token = iron, !.amount = 2, !.releasers = <<alice>>] IN
  {<<item, [item EXCEPT !.payee = self]>>, <<item, [item EXCEPT !.amount = 0]>>,
   <<item, item, item>>}
MoneyPurse == [t \in Tokens |-> [a \in Addr |-> IF a # alice THEN 0
                ELSE IF t = gold THEN 30 ELSE 5]]

GoldOnly == {gold}
IronOnly == {iron}
JustCarol == {carol}
JustBob == {bob}
=============================================================================
