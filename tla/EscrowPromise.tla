---------------------------- MODULE EscrowPromise ----------------------------
(* What an escrow contract is for, whoever may ask for what and whatever it is *)
(* built of: purses of money that nobody else's business ever touches.  A      *)
(* purse is opened, is added to, and is emptied by its settlement, once and    *)
(* for good; only a shared one gives back part of what it holds while it is    *)
(* open.  What is held beyond the purses never has to make up for them: it     *)
(* shrinks only if the issuer of a token seizes some.                          *)
EXTENDS Integers

CONSTANTS Tokens, Seizable   \* the tokens, those whose issuers can seize them
VARIABLES purse,             \* each purse's token, money held, kind and outcome
          surplus            \* what is held of each token beyond the purses

Outcomes(p) == IF purse[p].shared THEN {"Released"} ELSE {"Released", "Refunded", "Cancelled"}

Init == purse = <<>> /\ surplus = [t \in Tokens |-> 0]

Untouched(P) == \A p \in P : purse'[p] = purse[p]

Open ==
  /\ DOMAIN purse \subseteq DOMAIN purse' /\ Untouched(DOMAIN purse)
  /\ \A p \in DOMAIN purse' \ DOMAIN purse : purse'[p].outcome = "Funded"

\* One purse that stays open holds more; if it is shared, perhaps less.
Adjust(p) ==
  /\ DOMAIN purse' = DOMAIN purse /\ Untouched(DOMAIN purse \ {p})
  /\ purse[p].outcome = "Funded"
  /\ purse'[p] = [purse[p] EXCEPT !.held = purse'[p].held]
  /\ purse[p].shared \/ purse'[p].held >= purse[p].held

\* The purses that change are emptied, one or several of them.
Settle ==
  /\ DOMAIN purse' = DOMAIN purse
  /\ \A p \in DOMAIN purse :
       \/ Untouched({p})
       \/ /\ purse[p].outcome = "Funded"
          /\ purse'[p].outcome \in Outcomes(p)
          /\ purse'[p] = [token |-> purse[p].token, held |-> 0, shared |-> purse[p].shared,
                          outcome |-> purse'[p].outcome]

Intact(T) == \A t \in T : surplus'[t] >= surplus[t]
Next ==
  \/ (Open \/ Settle \/ \E p \in DOMAIN purse : Adjust(p)) /\ Intact(Tokens)
  \/ UNCHANGED purse /\ Intact(Tokens \ Seizable)

Spec == Init /\ [][Next]_<<purse, surplus>>
=============================================================================
