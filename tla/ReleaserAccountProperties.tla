---------------------- MODULE ReleaserAccountProperties ----------------------
(* What the releaser account promises (ADR 0005, the custom account, and ADR  *)
(* 0008, the cap per window).                                                 *)
EXTENDS ReleaserAccount, Totals

\* Every storage entry holds a value of its type.
TypeOK ==
  /\ signers \subseteq Keys /\ signer_count \in Nat /\ threshold \in Nat
  /\ nonce \in 0..MaxNonce /\ cap \in Nat /\ window_ledgers \in Nat \ {0}
  /\ DOMAIN usage \subseteq 0..MaxSequence /\ \A w \in DOMAIN usage : usage[w] \in Nat
  /\ sequence \in 1..MaxSequence
  /\ approved \subseteq [key : Keys, action : Actions, nonce : 0..MaxNonce]
  /\ endorsed \subseteq [key : Keys, entry : Entries]
  /\ spent \subseteq Entries
  /\ settled \in [1..MaxSequence -> Nat] /\ settledSincePolicy \in [1..MaxSequence -> Nat]

\* The signer set and its two counters live in entries of their own: through any
\* sequence of additions, removals and threshold changes the counter is the
\* size of the set, and the registered keys can still reach the threshold.
QuorumReachable ==
  /\ signer_count = Cardinality(signers) /\ signer_count <= MAX_SIGNERS
  /\ threshold \in 1..signer_count

\* The registered keys that signed this action at this very nonce.
Approvers(action) ==
  {s.key : s \in {t \in approved : t.action = action /\ t.nonce = nonce}} \cap signers

\* A change of signers, threshold or policy is one action that a quorum of the
\* keys registered at that moment signed for that moment; one of the policy,
\* that all of them signed.  What was signed for an earlier nonce, or by a key
\* removed since, changes nothing, and neither does signing twice.
ChangesApproved ==
  [][<<quorum, policy>>' # <<quorum, policy>> =>
       \E action \in Actions :
         /\ Cardinality(Approvers(action)) >= threshold
         /\ nonce' = nonce + 1
         /\ policy' # policy => Approvers(action) = signers /\ action.type = "SetPolicy"
         /\ \A key \in signers' \ signers : action = [type |-> "AddSigner", key |-> key]
         /\ \A key \in signers \ signers' : action = [type |-> "RemoveSigner", key |-> key]
         /\ threshold' # threshold => action = [type |-> "SetThreshold", threshold |-> threshold']]_vars

\* A quorum has no more authority than to release or to refund: an entry that is
\* let through holds that one context, with this account as its caller, and a
\* quorum of the keys of that moment signed it.
OperationsEndorsed ==
  [][\A entry \in spent' \ spent :
       /\ Cardinality(EndorsedBy(entry) \cap signers) >= threshold
       /\ Len(entry.contexts) = 1
       /\ LET context == entry.contexts[1] IN
            /\ context.contract = Escrow /\ context.fn_name \in {"release", "refund"}
            /\ Len(context.args) = 2 /\ context.args[2] = Account]_vars

\* The operations counted by f in the ledgers first to last.
Operations(f, first, last) ==
  Total([l \in {m \in 1..MaxSequence : first <= m /\ m <= last} |-> f[l]])

\* ADR 0008, under one policy: a window holds at most cap operations, so any run
\* of window_ledgers ledgers, wherever it starts, at most twice that.
SlotsBounded ==
  \A l \in 1..MaxSequence :
    LET start == WindowOf(l, window_ledgers) * window_ledgers + 1 IN
    /\ Operations(settledSincePolicy, start, start + window_ledgers - 1) <= cap
    /\ Operations(settledSincePolicy, l, l + window_ledgers - 1) <= 2 * cap
-----------------------------------------------------------------------------
\* ADR 0008 without the condition: an operation is let through only while its
\* window holds fewer than the configured number, the largest one configured.
LargestCap == Max({InitialCap} \cup {action.cap : action \in {a \in Actions : a.type = "SetPolicy"}})
WindowCapKept ==
  [][settled' # settled =>
       LET start == WindowOf(sequence, window_ledgers) * window_ledgers + 1 IN
       Operations(settled, start, start + window_ledgers - 1) < LargestCap]_vars
=============================================================================
