------------------------ MODULE ReleaserAccountProofs ------------------------
(* Proofs about the releaser account, for every set of keys and actions.      *)
EXTENDS ReleaserAccountProperties, TotalsProofs, FiniteSetTheorems, TLAPS

\* A part of a window is not more than the whole: the index of the window of a
\* ledger never passes the ledger.
LEMMA QuotientBound ==
  ASSUME NEW x \in Nat, NEW n \in Nat \ {0}
  PROVE  x \div n \in 0..x
BY SMT

\* The constructor takes only a policy with windows of at least one ledger.
LEMMA AccountInit == Init => TypeOK /\ QuorumReachable
<1> SUFFICES ASSUME Init PROVE TypeOK /\ QuorumReachable
  OBVIOUS
<1>1. Cardinality(InitialSigners) \in Nat
  BY AccountAssumption, FS_Subset, FS_CardinalityType
<1>2. TypeOK
  BY <1>1, AccountAssumption DEF Init, TypeOK, ConstructorAccepts, PolicyValid
<1>3. QuorumReachable
  BY <1>1, AccountAssumption DEF Init, QuorumReachable, ConstructorAccepts
<1> QED BY <1>2, <1>3

\* A list that verifies changes nothing but what its action says; every action
\* keeps the type and the quorum.
LEMMA ManageKeeps ==
  ASSUME TypeOK, QuorumReachable, NEW action \in Actions, NEW list \in Lists, Manage(action, list)
  PROVE  TypeOK' /\ QuorumReachable'
<1> USE AccountAssumption
<1>1. action.type \in {"AddSigner", "RemoveSigner", "SetThreshold", "SetPolicy"}
  BY DEF ManagementAction
<1>2. IsFiniteSet(signers) /\ Cardinality(signers) \in Nat
  BY FS_Subset, FS_CardinalityType DEF TypeOK
<1>3. nonce' \in 0..MaxNonce
  <2>1. nonce < MaxNonce /\ nonce' = nonce + 1
    BY DEF Manage
  <2>2. nonce \in 0..MaxNonce
    BY DEF TypeOK
  <2> QED BY <2>1, <2>2
<1>4. CASE action.type = "AddSigner"
  <2>1. action.key \in Keys
    BY <1>4 DEF ManagementAction
  <2>2. AddSigner(action.key)
    BY <1>4 DEF Manage
  <2>3. Cardinality(signers \cup {action.key}) = Cardinality(signers) + 1
    BY <1>2, <2>2, FS_AddElement DEF AddSigner
  <2>4. signers' \subseteq Keys /\ signer_count' \in Nat /\ threshold' \in Nat
    BY <2>1, <2>2 DEF AddSigner, TypeOK
  <2>5. settledSincePolicy' \in [1..MaxSequence -> Nat] /\ settled' \in [1..MaxSequence -> Nat]
    BY <2>2 DEF AddSigner, Manage, TypeOK
  <2>6. UNCHANGED <<cap, window_ledgers, usage, sequence, approved, endorsed, spent>>
    BY <2>2 DEF AddSigner, Manage, policy, signatures
  <2>7. TypeOK'
    BY <1>3, <2>4, <2>5, <2>6 DEF TypeOK
  <2>8. QuorumReachable'
    BY <1>2, <2>2, <2>3 DEF AddSigner, QuorumReachable, TypeOK
  <2> QED BY <2>7, <2>8
<1>5. CASE action.type = "RemoveSigner"
  <2>1. RemoveSigner(action.key)
    BY <1>5 DEF Manage
  <2>2. Cardinality(signers \ {action.key}) = Cardinality(signers) - 1
    BY <1>2, <2>1, FS_RemoveElement DEF RemoveSigner
  <2>3. signer_count' \in Nat /\ signer_count' >= threshold
    BY <2>1 DEF RemoveSigner, AboveThreshold, QuorumReachable, TypeOK
  <2>4. TypeOK'
    BY <1>3, <2>1, <2>3 DEF RemoveSigner, Manage, TypeOK, policy, signatures
  <2>5. QuorumReachable'
    BY <1>2, <2>1, <2>2, <2>3 DEF RemoveSigner, QuorumReachable, TypeOK
  <2> QED BY <2>4, <2>5
<1>6. CASE action.type = "SetThreshold"
  <2>1. action.threshold \in Nat
    BY <1>6 DEF ManagementAction
  <2>2. SetThreshold(action.threshold)
    BY <1>6 DEF Manage
  <2>3. TypeOK'
    BY <1>3, <2>1, <2>2 DEF SetThreshold, Manage, TypeOK, policy, signatures
  <2>4. QuorumReachable'
    BY <2>1, <2>2 DEF SetThreshold, QuorumReachable, TypeOK
  <2> QED BY <2>3, <2>4
<1>7. CASE action.type = "SetPolicy"
  <2>1. action.cap \in Nat /\ action.window \in Nat
    BY <1>7 DEF ManagementAction
  <2>2. SetPolicy(action.cap, action.window, list)
    BY <1>7 DEF Manage
  <2>3. TypeOK'
    BY <1>3, <2>1, <2>2 DEF SetPolicy, PolicyValid, Manage, TypeOK, quorum, signatures
  <2>4. QuorumReachable'
    BY <2>2 DEF SetPolicy, QuorumReachable, quorum
  <2> QED BY <2>3, <2>4
<1> QED BY <1>1, <1>4, <1>5, <1>6, <1>7

\* An operation only counts.
LEMMA CheckAuthKeeps ==
  ASSUME TypeOK, QuorumReachable, NEW entry \in Entries, NEW list \in Lists, CheckAuth(entry, list)
  PROVE  TypeOK' /\ QuorumReachable'
<1> USE AccountAssumption
<1> DEFINE window == WindowOf(sequence, window_ledgers)
<1>1. window \in 0..MaxSequence
  <2>1. sequence - 1 \in Nat /\ window_ledgers \in Nat \ {0}
    BY DEF TypeOK
  <2>2. (sequence - 1) \div window_ledgers \in 0..(sequence - 1)
    BY <2>1, QuotientBound
  <2>3. 0..(sequence - 1) \subseteq 0..MaxSequence
    BY DEF TypeOK
  <2> QED BY <2>2, <2>3 DEF WindowOf
<1>2. Used(window) \in Nat
  BY DEF Used, TypeOK
<1>3. usage' = [w \in DOMAIN usage \cup {window} |-> IF w = window THEN Used(w) + 1 ELSE usage[w]]
  BY DEF CheckAuth, ConsumeOperationSlot
<1>4. DOMAIN usage' \subseteq 0..MaxSequence /\ \A w \in DOMAIN usage' : usage'[w] \in Nat
  <2> HIDE DEF window
  <2> QED BY <1>1, <1>2, <1>3 DEF TypeOK
<1>5. settled' \in [1..MaxSequence -> Nat] /\ settledSincePolicy' \in [1..MaxSequence -> Nat]
  <2>1. /\ settled' = [settled EXCEPT ![sequence] = @ + 1]
        /\ settledSincePolicy' = [settledSincePolicy EXCEPT ![sequence] = @ + 1]
    BY DEF CheckAuth
  <2>2. ASSUME NEW f \in [1..MaxSequence -> Nat]
        PROVE  [f EXCEPT ![sequence] = @ + 1] \in [1..MaxSequence -> Nat]
    <3>1. sequence \in 1..MaxSequence
      BY DEF TypeOK
    <3> QED BY ONLY <3>1, f \in [1..MaxSequence -> Nat]
  <2>3. settled \in [1..MaxSequence -> Nat] /\ settledSincePolicy \in [1..MaxSequence -> Nat]
    BY DEF TypeOK
  <2> QED BY <2>1, <2>2, <2>3
<1>6. TypeOK'
  BY <1>4, <1>5 DEF CheckAuth, TypeOK, quorum, policy, signatures
<1>7. QuorumReachable'
  BY DEF CheckAuth, QuorumReachable, quorum
<1> QED BY <1>6, <1>7

\* Signing and the close of a ledger touch no entry of the account.
LEMMA OthersKeep ==
  ASSUME TypeOK, QuorumReachable,
         \/ \E key \in Keys : \/ \E action \in Actions : Approve(key, action)
                              \/ \E entry \in Entries : Endorse(key, entry)
         \/ Close
         \/ UNCHANGED vars
  PROVE  TypeOK' /\ QuorumReachable'
<1> USE AccountAssumption
<1>1. ASSUME NEW key \in Keys, NEW action \in Actions, Approve(key, action)
      PROVE  TypeOK' /\ QuorumReachable'
  <2>1. approved' \subseteq [key : Keys, action : Actions, nonce : 0..MaxNonce]
    BY <1>1 DEF Approve, TypeOK
  <2>2. UNCHANGED <<quorum, policy, nonce, usage, sequence, endorsed, history>>
    BY <1>1 DEF Approve
  <2> QED BY <2>1, <2>2 DEF TypeOK, QuorumReachable, quorum, policy, history
<1>2. ASSUME NEW key \in Keys, NEW entry \in Entries, Endorse(key, entry)
      PROVE  TypeOK' /\ QuorumReachable'
  <2>1. endorsed' \subseteq [key : Keys, entry : Entries]
    BY <1>2 DEF Endorse, TypeOK
  <2>2. UNCHANGED <<quorum, policy, nonce, usage, sequence, approved, history>>
    BY <1>2 DEF Endorse
  <2> QED BY <2>1, <2>2 DEF TypeOK, QuorumReachable, quorum, policy, history
<1>3. CASE Close
  BY <1>3 DEF Close, TypeOK, QuorumReachable, quorum, policy, signatures, history
<1>4. CASE UNCHANGED vars
  BY <1>4 DEF vars, TypeOK, QuorumReachable, quorum, policy, signatures, history
<1> QED BY <1>1, <1>2, <1>3, <1>4

\* Every step keeps the type and the quorum.
LEMMA AccountStep ==
  TypeOK /\ QuorumReachable /\ [Next]_vars => TypeOK' /\ QuorumReachable'
<1> SUFFICES ASSUME TypeOK, QuorumReachable, [Next]_vars
             PROVE  TypeOK' /\ QuorumReachable'
  OBVIOUS
<1>1. ASSUME NEW list \in Lists, NEW action \in Actions, Manage(action, list)
      PROVE  TypeOK' /\ QuorumReachable'
  BY <1>1, ManageKeeps
<1>2. ASSUME NEW list \in Lists, NEW entry \in Entries, CheckAuth(entry, list)
      PROVE  TypeOK' /\ QuorumReachable'
  BY <1>2, CheckAuthKeeps
<1> QED BY <1>1, <1>2, OthersKeep DEF Next

\* Every storage entry of the account holds a value of its type.
THEOREM AccountTypeCorrect == Spec => []TypeOK
<1>1. Init => TypeOK /\ QuorumReachable
  BY AccountInit
<1>2. TypeOK /\ QuorumReachable /\ [Next]_vars => (TypeOK /\ QuorumReachable)'
  BY AccountStep
<1> QED BY <1>1, <1>2, PTL DEF Spec

\* Whatever is signed and submitted, the registered keys can always reach the
\* threshold, and the counter is their number: manage never locks them out.
THEOREM QuorumStaysReachable == Spec => []QuorumReachable
<1>1. Init => TypeOK /\ QuorumReachable
  BY AccountInit
<1>2. TypeOK /\ QuorumReachable /\ [Next]_vars => (TypeOK /\ QuorumReachable)'
  BY AccountStep
<1> QED BY <1>1, <1>2, PTL DEF Spec
-----------------------------------------------------------------------------
\* A list of keys that verifies shows as many distinct registered signers as it
\* is long.
LEMMA ListCounts ==
  ASSUME TypeOK, NEW valid, NEW list \in Lists, VerifySignatures(valid, list)
  PROVE  /\ IsFiniteSet(valid \cap signers)
         /\ Cardinality(valid \cap signers) \in Nat
         /\ Len(list) \in Nat /\ Len(list) <= Cardinality(valid \cap signers)
         /\ Cardinality(valid \cap signers) >= threshold
<1> USE AccountAssumption
<1>1. PICK n \in Nat : list \in [1..n -> Keys]
  BY FS_CardinalityType DEF Lists
<1>2. Len(list) = n /\ DOMAIN list = 1..n
  BY <1>1
<1>3. IsFiniteSet(valid \cap signers) /\ Cardinality(valid \cap signers) \in Nat
  <2>1. valid \cap signers \subseteq Keys
    BY DEF TypeOK
  <2> QED BY <2>1, FS_Subset, FS_CardinalityType
<1>4. list \in Injection(1..n, valid \cap signers)
  BY <1>1, <1>2 DEF VerifySignatures, Injection, IsInjective
<1>5. Cardinality(1..n) = n
  BY FS_Interval
<1>6. n <= Cardinality(valid \cap signers)
  BY <1>3, <1>4, <1>5, FS_Injection
<1>7. Len(list) >= threshold /\ threshold \in Nat
  BY DEF VerifySignatures, TypeOK
<1> QED BY <1>2, <1>3, <1>6, <1>7

\* A quorum has no authority but over single releases and refunds of the escrow,
\* and a let-through entry carries the signatures of a present quorum.
THEOREM AuthorityIsNarrow == Spec => OperationsEndorsed
<1>1. ASSUME TypeOK, [Next]_vars
      PROVE  [\A entry \in spent' \ spent :
                /\ Cardinality(EndorsedBy(entry) \cap signers) >= threshold
                /\ Len(entry.contexts) = 1
                /\ LET context == entry.contexts[1] IN
                     /\ context.contract = Escrow /\ context.fn_name \in {"release", "refund"}
                     /\ Len(context.args) = 2 /\ context.args[2] = Account]_vars
  <2>1. SUFFICES ASSUME NEW entry \in spent' \ spent
                 PROVE  /\ Cardinality(EndorsedBy(entry) \cap signers) >= threshold
                        /\ ReleaseOrRefundOnly(entry.contexts)
    BY DEF ReleaseOrRefundOnly
  <2>2. PICK list \in Lists : CheckAuth(entry, list)
    BY <1>1 DEF Next, vars, history, Approve, Endorse, Manage, Close, CheckAuth
  <2>3. ReleaseOrRefundOnly(entry.contexts) /\ VerifySignatures(EndorsedBy(entry), list)
    BY <2>2 DEF CheckAuth
  <2> QED BY <1>1, <2>3, ListCounts
<1> QED BY <1>1, AccountTypeCorrect, PTL DEF Spec, OperationsEndorsed

\* The keys whose signatures verify are those that approved this action now.
LEMMA ApprovedNow ==
  ASSUME NEW action
  PROVE  ApprovedBy(action) \cap signers = Approvers(action)
BY DEF ApprovedBy, Approvers, ManagementDigest

\* Whoever has the signatures of a past nonce or of a removed key, a change of
\* the quorum or of the policy takes a quorum, or everybody, signing for it now.
THEOREM ChangesAreApproved == Spec => ChangesApproved
<1>1. ASSUME TypeOK, QuorumReachable, [Next]_vars, <<quorum, policy>>' # <<quorum, policy>>
      PROVE  \E action \in Actions :
               /\ Cardinality(Approvers(action)) >= threshold
               /\ nonce' = nonce + 1
               /\ policy' # policy => Approvers(action) = signers /\ action.type = "SetPolicy"
               /\ \A key \in signers' \ signers : action = [type |-> "AddSigner", key |-> key]
               /\ \A key \in signers \ signers' : action = [type |-> "RemoveSigner", key |-> key]
               /\ threshold' # threshold => action = [type |-> "SetThreshold", threshold |-> threshold']
  <2>1. PICK action \in Actions, list \in Lists : Manage(action, list)
    BY <1>1 DEF Next, vars, quorum, policy, Approve, Endorse, Close, CheckAuth
  <2>2. /\ IsFiniteSet(Approvers(action)) /\ Cardinality(Approvers(action)) \in Nat
        /\ Len(list) <= Cardinality(Approvers(action)) /\ Len(list) \in Nat
        /\ Cardinality(Approvers(action)) >= threshold
    BY <1>1, <2>1, ListCounts, ApprovedNow DEF Manage
  <2>3. nonce' = nonce + 1
    BY <2>1 DEF Manage
  <2>4. action \in ManagementAction
    BY AccountAssumption
  <2>5. action.type = "SetPolicy" => Approvers(action) = signers
    <3> HAVE action.type = "SetPolicy"
    <3>1. Len(list) = signer_count
      BY <2>1 DEF Manage, SetPolicy
    <3>2. Approvers(action) \subseteq signers
      BY DEF Approvers
    <3>3. IsFiniteSet(signers) /\ Cardinality(signers) \in Nat
      BY <1>1, AccountAssumption, FS_Subset, FS_CardinalityType DEF TypeOK
    <3>4. Cardinality(signers) = signer_count
      BY <1>1 DEF QuorumReachable
    <3>5. Cardinality(Approvers(action)) <= Cardinality(signers)
      BY <3>2, <3>3, FS_Subset
    <3>6. Cardinality(Approvers(action)) = Cardinality(signers)
      BY <2>2, <3>1, <3>3, <3>4, <3>5
    <3> QED BY <3>2, <3>3, <3>6, FS_Subset
  <2>6. CASE action.type = "AddSigner"
    <3>1. AddSigner(action.key) /\ action = [type |-> "AddSigner", key |-> action.key]
      BY <2>1, <2>4, <2>6 DEF Manage, ManagementAction
    <3> QED BY <2>2, <2>3, <3>1 DEF AddSigner, policy
  <2>7. CASE action.type = "RemoveSigner"
    <3>1. RemoveSigner(action.key) /\ action = [type |-> "RemoveSigner", key |-> action.key]
      BY <2>1, <2>4, <2>7 DEF Manage, ManagementAction
    <3> QED BY <2>2, <2>3, <3>1 DEF RemoveSigner, policy
  <2>8. CASE action.type = "SetThreshold"
    <3>1. SetThreshold(action.threshold) /\ action = [type |-> "SetThreshold", threshold |-> action.threshold]
      BY <2>1, <2>4, <2>8 DEF Manage, ManagementAction
    <3> QED BY <2>2, <2>3, <3>1 DEF SetThreshold, policy
  <2>9. CASE action.type = "SetPolicy"
    <3>1. SetPolicy(action.cap, action.window, list)
      BY <2>1, <2>9 DEF Manage
    <3> QED BY <2>2, <2>3, <2>5, <2>9, <3>1 DEF SetPolicy, quorum
  <2> QED BY <2>4, <2>6, <2>7, <2>8, <2>9 DEF ManagementAction
<1> QED BY <1>1, AccountTypeCorrect, QuorumStaysReachable, PTL DEF Spec, ChangesApproved
-----------------------------------------------------------------------------
(* The cap per window.  A window's slots are counted by its usage entry, and  *)
(* any run of window_ledgers ledgers meets two windows at most.               *)

\* The ledgers, those of the window w; f within some ledgers, and 0 elsewhere;
\* the operations that window w let through under this policy.
Ledgers == 1..MaxSequence
Window(w) == {l \in Ledgers : WindowOf(l, window_ledgers) = w}
Within(f, ledgers) == [l \in Ledgers |-> IF l \in ledgers THEN f[l] ELSE 0]
SettledIn(w) == Total(Within(settledSincePolicy, Window(w)))

\* SlotsBounded speaks of runs of ledgers, of which no step says anything: what
\* a step keeps is that a window's entry has counted at least what the window
\* let through under this policy, and that this is no more than the cap.
SlotsCounted == \A w \in Nat : SettledIn(w) <= Used(w) /\ SettledIn(w) <= cap

\* A ledger is not before the start of its window, nor after its end.
LEMMA Quotient ==
  ASSUME NEW x \in Nat, NEW n \in Nat \ {0}
  PROVE  /\ x \div n \in Nat
         /\ (x \div n) * n <= x /\ x < (x \div n) * n + n
<1>1. x \div n \in Nat /\ (x \div n) * n <= x
  BY SMT
<1>2. x < (x \div n) * n + n
  BY SMT
<1> QED BY <1>1, <1>2

\* Between the start and the end of a window there is no other window.
LEMMA QuotientIs ==
  ASSUME NEW x \in Nat, NEW n \in Nat \ {0}, NEW w \in Nat, w * n <= x, x < w * n + n
  PROVE  x \div n = w
BY SMT

\* At the start and after a change of policy no window holds an operation.
LEMMA NoneSettled ==
  ASSUME NEW ledgers
  PROVE  Total(Within([l \in Ledgers |-> 0], ledgers)) = 0
<1>1. PICK none : none = Within([l \in Ledgers |-> 0], ledgers)
  OBVIOUS
<1>2. none \in [Ledgers -> Int] /\ \A l \in Ledgers : none[l] = 0
  BY <1>1 DEF Within
<1>3. Total(none) = 0
  BY <1>2, TotalPositive
<1> QED BY <1>1, <1>3

\* What is counted within some ledgers is a natural number.
LEMMA WithinType ==
  ASSUME NEW f \in [Ledgers -> Nat], NEW ledgers
  PROVE  /\ IsFiniteSet(Ledgers)
         /\ Within(f, ledgers) \in [Ledgers -> Nat]
         /\ Total(Within(f, ledgers)) \in Nat
<1>1. IsFiniteSet(Ledgers)
  BY FS_Interval, AccountAssumption DEF Ledgers
<1>2. Within(f, ledgers) \in [Ledgers -> Nat]
  BY DEF Within
<1>3. PICK g : g = Within(f, ledgers)
  OBVIOUS
<1>4. g \in [Ledgers -> Int]
  BY <1>2, <1>3
<1>5. Total(g) \in Nat
  BY <1>1, <1>4, TotalType
<1> QED BY <1>1, <1>2, <1>3, <1>5

\* An operation let through now is counted in the window of this ledger alone.
LEMMA CheckAuthCounts ==
  ASSUME TypeOK, SlotsCounted, NEW entry \in Entries, NEW list \in Lists, CheckAuth(entry, list)
  PROVE  SlotsCounted'
<1> USE AccountAssumption
<1> DEFINE now == WindowOf(sequence, window_ledgers)
           f == settledSincePolicy
<1>1. /\ sequence \in Ledgers /\ f \in [Ledgers -> Nat] /\ cap \in Nat
      /\ \A w \in DOMAIN usage : usage[w] \in Nat
  BY DEF TypeOK, Ledgers
<1>2. /\ window_ledgers' = window_ledgers /\ cap' = cap
      /\ Used(now) < cap
      /\ usage' = [w \in DOMAIN usage \cup {now} |-> IF w = now THEN Used(w) + 1 ELSE usage[w]]
      /\ f' = [f EXCEPT ![sequence] = @ + 1]
  BY DEF CheckAuth, ConsumeOperationSlot, SlotFree, policy
<1>3. ASSUME NEW w \in Nat PROVE Used(w) \in Nat /\ Used(w)' = IF w = now THEN Used(w) + 1 ELSE Used(w)
  <2> HIDE DEF now
  <2> QED BY <1>1, <1>2 DEF Used
<1>4. ASSUME NEW w \in Nat
      PROVE  SettledIn(w)' <= Used(w)' /\ SettledIn(w)' <= cap'
  <2> DEFINE before == Within(f, Window(w))
             after == Within(f', Window(w))
  <2>1. Window(w)' = Window(w)
    BY <1>2 DEF Window, WindowOf
  <2>2. SettledIn(w)' = Total(after) /\ SettledIn(w) = Total(before)
    BY <2>1 DEF SettledIn, Within
  <2>3. f' \in [Ledgers -> Nat] /\ f'[sequence] = f[sequence] + 1
    BY <1>1, <1>2
  <2>4. \A l \in Ledgers \ {sequence} : f'[l] = f[l]
    BY <1>1, <1>2
  <2>5. SettledIn(w) <= Used(w) /\ SettledIn(w) <= cap
    BY DEF SlotsCounted
  <2>6. CASE w = now
    <3>1. sequence \in Window(w)
      BY <1>1, <2>6 DEF Window
    <3>2. /\ IsFiniteSet(Ledgers)
          /\ before \in [Ledgers -> Nat] /\ after \in [Ledgers -> Nat]
          /\ Total(before) \in Nat /\ Total(after) \in Nat
      <4> HIDE DEF f
      <4> QED BY <1>1, <2>3, WithinType
    <3>3. /\ before[sequence] = f[sequence] /\ after[sequence] = f[sequence] + 1
          /\ \A l \in Ledgers \ {sequence} : after[l] = before[l]
      BY <1>1, <2>3, <2>4, <3>1 DEF Within
    <3>4. Total(after) - after[sequence] = Total(before) - before[sequence]
      <4> HIDE DEF before, after
      <4> QED BY <1>1, <3>2, <3>3, TotalChange
    <3>5. Total(after) = Total(before) + 1
      <4>1. f[sequence] \in Nat
        BY <1>1
      <4> HIDE DEF f, before, after
      <4> QED BY <3>2, <3>3, <3>4, <4>1
    <3> HIDE DEF f, before, after, now
    <3> QED BY <1>1, <1>2, <1>3, <2>2, <2>5, <2>6, <3>2, <3>5
  <2>7. CASE w # now
    <3>1. sequence \notin Window(w)
      BY <2>7 DEF Window
    <3>2. after = before
      BY <2>4, <3>1 DEF Within
    <3> QED BY <1>2, <1>3, <2>2, <2>5, <2>7, <3>2
  <2> QED BY <2>6, <2>7
<1> QED BY <1>4 DEF SlotsCounted

\* A management action either leaves the counts and the policy alone or starts
\* both over.
LEMMA ManageCounts ==
  ASSUME TypeOK, SlotsCounted, NEW action \in Actions, NEW list \in Lists, Manage(action, list)
  PROVE  SlotsCounted'
<1> USE AccountAssumption
<1>1. action.type \in {"AddSigner", "RemoveSigner", "SetThreshold", "SetPolicy"}
  BY DEF ManagementAction
<1>2. usage' = usage /\ \A w \in Nat : Used(w)' = Used(w) /\ Used(w) \in Nat
  BY DEF Manage, Used, TypeOK
<1>3. CASE action.type # "SetPolicy"
  <2>1. UNCHANGED <<policy, settledSincePolicy>>
    BY <1>1, <1>3 DEF Manage, AddSigner, RemoveSigner, SetThreshold
  <2> QED BY <1>2, <2>1 DEF SlotsCounted, SettledIn, Window, Within, WindowOf, policy
<1>4. CASE action.type = "SetPolicy"
  <2>1. settledSincePolicy' = [l \in Ledgers |-> 0] /\ cap' \in Nat
    <3>1. action.cap \in Nat
      BY <1>4 DEF ManagementAction
    <3> QED BY <1>4, <3>1 DEF Manage, SetPolicy, Ledgers
  <2>2. ASSUME NEW w \in Nat PROVE SettledIn(w)' = 0
    <3>1. SettledIn(w)' = Total(Within(settledSincePolicy', Window(w)'))
      BY DEF SettledIn, Within
    <3> QED BY <2>1, <3>1, NoneSettled
  <2> QED BY <1>2, <2>1, <2>2 DEF SlotsCounted
<1> QED BY <1>3, <1>4

\* The counts hold at first.
LEMMA CountsInit == Init => SlotsCounted
<1> SUFFICES ASSUME Init PROVE SlotsCounted
  OBVIOUS
<1>1. settledSincePolicy = [l \in Ledgers |-> 0] /\ usage = <<>> /\ cap \in Nat
  BY AccountAssumption DEF Init, Ledgers
<1>2. ASSUME NEW w \in Nat PROVE SettledIn(w) = 0 /\ Used(w) = 0
  BY <1>1, NoneSettled DEF SettledIn, Used
<1> QED BY <1>1, <1>2 DEF SlotsCounted

\* No step spoils the counts.
LEMMA CountsStep == TypeOK /\ SlotsCounted /\ [Next]_vars => SlotsCounted'
<1> SUFFICES ASSUME TypeOK, SlotsCounted, [Next]_vars PROVE SlotsCounted'
  OBVIOUS
<1>1. ASSUME NEW list \in Lists, NEW action \in Actions, Manage(action, list) PROVE SlotsCounted'
  BY <1>1, ManageCounts
<1>2. ASSUME NEW list \in Lists, NEW entry \in Entries, CheckAuth(entry, list) PROVE SlotsCounted'
  BY <1>2, CheckAuthCounts
<1>3. ASSUME UNCHANGED <<policy, usage, settledSincePolicy>> PROVE SlotsCounted'
  BY <1>3 DEF SlotsCounted, SettledIn, Window, Within, WindowOf, Used, policy
<1> QED BY <1>1, <1>2, <1>3 DEF Next, Approve, Endorse, Close, vars, history

\* The ledgers from the first of a window are that window.
LEMMA WindowLedgers ==
  ASSUME TypeOK, NEW w \in Nat
  PROVE  Window(w) = {m \in Ledgers :
           w * window_ledgers + 1 <= m /\ m <= w * window_ledgers + 1 + window_ledgers - 1}
<1> USE AccountAssumption
<1>1. PICK n \in Nat \ {0} : n = window_ledgers
  BY DEF TypeOK
<1>2. PICK first \in Nat : first = w * n
  BY <1>1
<1>3. ASSUME NEW m \in Ledgers
      PROVE  WindowOf(m, n) = w <=> first + 1 <= m /\ m <= first + 1 + n - 1
  <2>0. m \in Nat /\ m - 1 \in Nat
    BY <1>3 DEF Ledgers
  <2>1. m - 1 \in Nat
    BY <2>0
  <2>2. (m - 1) \div n = w => first <= m - 1 /\ m - 1 < first + n
    BY <1>1, <1>2, <2>1, Quotient
  <2>3. first <= m - 1 /\ m - 1 < first + n => (m - 1) \div n = w
    BY <1>1, <1>2, <2>1, QuotientIs
  <2>4. first <= m - 1 /\ m - 1 < first + n <=> first + 1 <= m /\ m <= first + 1 + n - 1
    BY <1>1, <1>2, <2>0
  <2> QED BY <2>2, <2>3, <2>4 DEF WindowOf
<1> QED BY <1>1, <1>2, <1>3 DEF Window

\* The operations of a run of ledgers are those within it.
LEMMA OperationsWithin ==
  ASSUME NEW f \in [Ledgers -> Nat], NEW first, NEW last
  PROVE  Operations(f, first, last) = Total(Within(f, {m \in Ledgers : first <= m /\ m <= last}))
<1> DEFINE run == {m \in Ledgers : first <= m /\ m <= last}
           part == [l \in run |-> f[l]]
<1>1. part \in [run -> Int] /\ \A l \in run : part[l] = f[l]
  OBVIOUS
<1>2. /\ Within(f, run) \in [Ledgers -> Int]
      /\ \A l \in Ledgers : Within(f, run)[l] = IF l \in run THEN f[l] ELSE 0
  BY DEF Within
<1>3. run \subseteq Ledgers
  OBVIOUS
<1>4. Total(part) = Total(Within(f, run))
  <2> DEFINE within == Within(f, run)
  <2>1. /\ \A l \in run \cap Ledgers : part[l] = within[l]
        /\ \A l \in run \ Ledgers : part[l] = 0
        /\ \A l \in Ledgers \ run : within[l] = 0
    BY <1>1, <1>2, <1>3
  <2>2. part \in [run -> Int] /\ within \in [Ledgers -> Int]
    BY <1>1, <1>2
  <2> HIDE DEF part, within, run
  <2>3. Total(part) = Total(within)
    BY <2>1, <2>2, TotalSupport
  <2> QED BY <2>3 DEF within
<1> QED BY <1>4 DEF Operations, Ledgers

\* A set of ledgers in two windows holds at most what the two let through.
LEMMA TwoWindows ==
  ASSUME NEW f \in [Ledgers -> Nat], NEW R, NEW A, NEW B, R \subseteq A \cup B
  PROVE  Total(Within(f, R)) <= Total(Within(f, A)) + Total(Within(f, B))
<1> USE AccountAssumption
<1> DEFINE both == [l \in Ledgers |-> Within(f, A)[l] + Within(f, B)[l]]
<1>1. /\ Within(f, A) \in [Ledgers -> Nat] /\ Within(f, B) \in [Ledgers -> Nat]
      /\ Within(f, R) \in [Ledgers -> Nat] /\ IsFiniteSet(Ledgers)
  BY WithinType
<1>2. both \in [Ledgers -> Nat]
  BY <1>1
<1>3. Total(both) = Total(Within(f, A)) + Total(Within(f, B))
  <2>1. \A l \in Ledgers : both[l] = Within(f, A)[l] + Within(f, B)[l]
    OBVIOUS
  <2> HIDE DEF both
  <2> QED BY <1>1, <1>2, <2>1, TotalAdd
<1>4. \A l \in Ledgers : Within(f, R)[l] <= both[l]
  BY DEF Within
<1> HIDE DEF both
<1> QED BY <1>1, <1>2, <1>3, <1>4, TotalMonotone

\* Two windows that follow each other cover any run of window_ledgers ledgers.
LEMMA BoundFromCounts == TypeOK /\ SlotsCounted => SlotsBounded
<1> SUFFICES ASSUME TypeOK, SlotsCounted, NEW l \in Ledgers
             PROVE  LET start == WindowOf(l, window_ledgers) * window_ledgers + 1 IN
                    /\ Operations(settledSincePolicy, start, start + window_ledgers - 1) <= cap
                    /\ Operations(settledSincePolicy, l, l + window_ledgers - 1) <= 2 * cap
  BY DEF SlotsBounded, Ledgers
<1> USE AccountAssumption
<1>1. PICK n \in Nat \ {0} : n = window_ledgers
  BY DEF TypeOK
<1>2. PICK w \in Nat : /\ w = WindowOf(l, window_ledgers)
                       /\ w * n <= l - 1 /\ l - 1 < w * n + n
  <2>1. l - 1 \in Nat
    BY DEF Ledgers
  <2>2. /\ (l - 1) \div n \in Nat
        /\ ((l - 1) \div n) * n <= l - 1 /\ l - 1 < ((l - 1) \div n) * n + n
    BY <2>1, Quotient
  <2>3. (l - 1) \div n = WindowOf(l, window_ledgers)
    BY <1>1 DEF WindowOf
  <2> QED BY <2>2, <2>3
<1>3. PICK first \in Nat : first = w * n /\ (w + 1) * n = first + n
  BY <1>1, <1>2
<1>4. settledSincePolicy \in [Ledgers -> Nat] /\ cap \in Nat
  BY DEF TypeOK, Ledgers
<1>5. SettledIn(w) <= cap /\ SettledIn(w + 1) <= cap
  BY <1>2 DEF SlotsCounted
<1>6. /\ Window(w) = {m \in Ledgers : first + 1 <= m /\ m <= first + 1 + n - 1}
      /\ Window(w + 1) = {m \in Ledgers : first + n + 1 <= m /\ m <= first + n + 1 + n - 1}
  BY <1>1, <1>2, <1>3, WindowLedgers
<1>7. Operations(settledSincePolicy, first + 1, first + 1 + n - 1) <= cap
  BY <1>4, <1>5, <1>6, OperationsWithin DEF SettledIn
<1>8. Operations(settledSincePolicy, l, l + n - 1) <= 2 * cap
  <2> DEFINE run == {m \in Ledgers : l <= m /\ m <= l + n - 1}
  <2>1. run \subseteq Window(w) \cup Window(w + 1)
    BY <1>1, <1>2, <1>3, <1>6 DEF Ledgers
  <2>2. Operations(settledSincePolicy, l, l + n - 1) = Total(Within(settledSincePolicy, run))
    BY <1>4, OperationsWithin
  <2>3. Total(Within(settledSincePolicy, run)) <= SettledIn(w) + SettledIn(w + 1)
    <3> HIDE DEF run
    <3> QED BY <1>4, <2>1, TwoWindows DEF SettledIn
  <2>4. Total(Within(settledSincePolicy, run)) \in Nat /\ SettledIn(w) \in Nat /\ SettledIn(w + 1) \in Nat
    <3> HIDE DEF run
    <3> QED BY <1>4, WithinType DEF SettledIn
  <2> HIDE DEF run
  <2> QED BY <1>4, <1>5, <2>2, <2>3, <2>4
<1> QED BY <1>1, <1>2, <1>3, <1>7, <1>8

\* ADR 0008 for every cap, window and history of signatures: under one policy no
\* window lets more than cap operations through, and no run of as many ledgers
\* as a window more than twice that.
THEOREM SlotsAreBounded == Spec => []SlotsBounded
<1>1. Init => TypeOK /\ SlotsCounted
  BY AccountInit, CountsInit
<1>2. TypeOK /\ SlotsCounted /\ [Next]_vars => SlotsCounted'
  BY CountsStep
<1>3. TypeOK /\ SlotsCounted => SlotsBounded
  BY BoundFromCounts
<1> QED BY <1>1, <1>2, <1>3, AccountTypeCorrect, PTL DEF Spec
=============================================================================
