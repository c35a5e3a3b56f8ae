-------------------------- MODULE MCReleaserAccount --------------------------
(* Keys and inputs of the model-checking runs of ReleaserAccount.             *)
EXTENDS ReleaserAccountProperties

CONSTANTS k1, k2

Pair == {k1, k2}

ReleaseCall == [contract |-> Escrow, fn_name |-> "release", args |-> <<0, Account>>]
RefundCall == [ReleaseCall EXCEPT !.fn_name = "refund"]
\* A release three times over, and what the account must not authorise: two
\* calls at once and a release by another caller.
SomeEntries ==
  [contexts : {<<ReleaseCall>>}, nonce : 1..3]
  \cup [contexts : {<<ReleaseCall, RefundCall>>, <<[ReleaseCall EXCEPT !.args = <<0, Escrow>>]>>},
        nonce : {4}]

Add(key) == [type |-> "AddSigner", key |-> key]
Remove(key) == [type |-> "RemoveSigner", key |-> key]
Policy(max_operations, window) == [type |-> "SetPolicy", cap |-> max_operations, window |-> window]
SomeActions ==
  {Add(k2), Remove(k2), [type |-> "SetThreshold", threshold |-> 2], Policy(1, 3), Policy(1, 0)}
LongerWindow == {Policy(1, 4)}
=============================================================================
