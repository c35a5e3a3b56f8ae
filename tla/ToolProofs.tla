------------------------------- MODULE ToolProofs -------------------------------
(* Proofs about the SDK's tools around the contract. A tool is proved about on  *)
(* its own: its specification is its Init and Next over its variables, which is  *)
(* all of the composed system that can change them. The multisig helper and the  *)
(* amount helpers compute with sequences; what a recursive function computes is  *)
(* proved by induction over the set of the numbers for which it does.            *)
EXTENDS ToolProperties, TotalsProofs, SequenceTheorems

-----------------------------------------------------------------------------
(* The multisig helper.                                                        *)

MultisigSpec == MultisigInit /\ [][MultisigNext]_multisigVars

\* An account, and what is asked of its records.
Account(master, signers, thresholds) ==
  [masterWeight |-> master, signers |-> signers, thresholds |-> thresholds]
Weights(signers) == IsFiniteSet(DOMAIN signers) /\ signers \in [DOMAIN signers -> Nat]
IsAccount(a) ==
  /\ a = Account(a.masterWeight, a.signers, a.thresholds)
  /\ a.masterWeight \in Nat /\ Weights(a.signers)

\* The signers of an account in which the keys have the weights the policy gives them.
Installed(policy, keys, signers) ==
  [key \in DOMAIN signers \cup keys |->
     IF key \in keys THEN policy.weight[key] ELSE signers[key]]

\* What Changed computes: a function that follows its recursion is that recursion.
LEMMA ChangedIs ==
  ASSUME NEW account, NEW operations, Len(operations) \in Nat, NEW after,
         after = [i \in 0..Len(operations) |->
                    IF i = 0 THEN account ELSE setOptions(after[i - 1], operations[i])]
  PROVE  Changed(account, operations) = after[Len(operations)]
<1> DEFINE Follows(f) == f = [i \in 0..Len(operations) |->
                                IF i = 0 THEN account ELSE setOptions(f[i - 1], operations[i])]
<1>1. PICK f : f = CHOOSE g : Follows(g)
  OBVIOUS
<1>2. Follows(f)
  <2>1. Follows(after)
    OBVIOUS
  <2> HIDE DEF Follows
  <2> QED BY <1>1, <2>1
<1>3. Changed(account, operations) = f[Len(operations)]
  BY <1>1 DEF Changed
<1> DEFINE T == {i \in Nat : i <= Len(operations) => f[i] = after[i]}
<1>4. 0 \in T
  <2>1. 0 \in 0..Len(operations)
    OBVIOUS
  <2>2. f[0] = account
    BY <1>2, <2>1
  <2>3. after[0] = account
    BY <2>1
  <2> QED BY <2>2, <2>3
<1>5. ASSUME NEW i \in T PROVE i + 1 \in T
  <2> SUFFICES ASSUME i + 1 <= Len(operations) PROVE f[i + 1] = after[i + 1]
    OBVIOUS
  <2>1. i + 1 \in 0..Len(operations) /\ i + 1 # 0 /\ (i + 1) - 1 = i /\ i \in Nat
    OBVIOUS
  <2>2. f[i + 1] = setOptions(f[i], operations[i + 1])
    BY <1>2, <2>1
  <2>3. after[i + 1] = setOptions(after[i], operations[i + 1])
    BY <2>1
  <2>4. f[i] = after[i]
    BY <2>1
  <2> QED BY <2>2, <2>3, <2>4
<1>6. T = Nat
  <2> HIDE DEF T
  <2> QED BY <1>4, <1>5, AllNumbers DEF T
<1>7. Len(operations) \in T
  BY <1>6
<1> QED BY <1>3, <1>7

\* The signers of an account after an operation.
SignersAfter(signers, op) ==
  [key \in DOMAIN signers \cup Named(op) |->
     IF key \in Named(op) THEN WeightGiven(op, key) ELSE signers[key]]

\* An operation on an account makes an account.
LEMMA SetOptions ==
  ASSUME NEW m, NEW s, NEW t, NEW op
  PROVE  setOptions(Account(m, s, t), op)
           = Account(Either(op.masterWeight, m), SignersAfter(s, op), op.thresholds)
<1>1. PICK account, a, b, c :
        /\ account = Account(m, s, t)
        /\ a = Either(op.masterWeight, m) /\ b = SignersAfter(s, op) /\ c = op.thresholds
  OBVIOUS
<1>2. /\ account \in [masterWeight : {m}, signers : {s}, thresholds : {t}]
      /\ account.masterWeight = m /\ account.signers = s
  BY <1>1 DEF Account
<1>3. PICK x : x = [account EXCEPT !.masterWeight = a, !.signers = b, !.thresholds = c]
  OBVIOUS
<1>4. x \in [masterWeight : {a}, signers : {b}, thresholds : {c}]
  BY <1>2, <1>3
<1>5. x = Account(a, b, c)
  <2>1. x = [masterWeight |-> a, signers |-> b, thresholds |-> c]
    BY <1>4
  <2> QED BY <2>1 DEF Account
<1>6. setOptions(account, op) = x
  BY <1>1, <1>2, <1>3 DEF setOptions, SignersAfter
<1> QED BY <1>1, <1>5, <1>6

\* The signers of an account when one of them has the weight the policy gives it.
WithSigner(policy, key, signers) ==
  [k \in DOMAIN signers \cup {key} |-> IF k = key THEN policy.weight[key] ELSE signers[k]]

\* The two operations of a setup: a signer's weight, and no weight for the master key.
LEMMA SignerInstalled ==
  ASSUME NEW m, NEW s, NEW t, NEW policy, NEW key
  PROVE  setOptions(Account(m, s, t), InstallSigner(policy, key))
           = Account(m, WithSigner(policy, key, s), policy.thresholds)
<1>1. PICK op : op = InstallSigner(policy, key)
  OBVIOUS
<1>2. /\ op.signers = {<<key, policy.weight[key]>>} /\ op.masterWeight = {}
      /\ op.thresholds = policy.thresholds
  BY <1>1 DEF InstallSigner
<1>3. Named(op) = {key}
  BY <1>2 DEF Named
<1>4. WeightGiven(op, key) = policy.weight[key]
  <2>1. PICK w : w = CHOOSE x \in op.signers : x[1] = key
    OBVIOUS
  <2>2. <<key, policy.weight[key]>> \in op.signers /\ <<key, policy.weight[key]>>[1] = key
    BY <1>2
  <2>3. w \in op.signers
    BY <2>1, <2>2
  <2>4. w = <<key, policy.weight[key]>>
    BY <1>2, <2>3
  <2>5. WeightGiven(op, key) = w[2]
    BY <2>1 DEF WeightGiven
  <2> QED BY <2>4, <2>5
<1>5. WithSigner(policy, key, s) = SignersAfter(s, op)
  BY <1>3, <1>4 DEF SignersAfter, WithSigner
<1>6. Either(op.masterWeight, m) = m
  BY <1>2 DEF Either
<1>7. setOptions(Account(m, s, t), op)
        = Account(Either(op.masterWeight, m), SignersAfter(s, op), op.thresholds)
  BY SetOptions
<1> QED BY <1>1, <1>2, <1>5, <1>6, <1>7

LEMMA MasterRemoved ==
  ASSUME NEW m, NEW s, s = [k \in DOMAIN s |-> s[k]], NEW t, NEW policy
  PROVE  setOptions(Account(m, s, t), RemoveMasterKey(policy)) = Account(0, s, policy.thresholds)
<1>1. PICK op : op = RemoveMasterKey(policy)
  OBVIOUS
<1>2. op.signers = {} /\ op.masterWeight = {0} /\ op.thresholds = policy.thresholds
  BY <1>1 DEF RemoveMasterKey
<1>3. Named(op) = {}
  BY <1>2 DEF Named
<1>4. s = SignersAfter(s, op)
  BY <1>3 DEF SignersAfter
<1>5. Either(op.masterWeight, m) = 0
  BY <1>2 DEF Either
<1>6. setOptions(Account(m, s, t), op)
        = Account(Either(op.masterWeight, m), SignersAfter(s, op), op.thresholds)
  BY SetOptions
<1> QED BY <1>1, <1>2, <1>4, <1>5, <1>6

\* What a setup is made of: an operation for each key, in some order, and the last one.
LEMMA SetupParts ==
  ASSUME NEW policy, IsFiniteSet(NonMaster(policy)), NEW n, n = Cardinality(NonMaster(policy)),
         NEW order, order = SignerOrder(policy),
         NEW operations, operations = SetupOperations(policy)
  PROVE  /\ n \in Nat /\ order \in [1..n -> NonMaster(policy)]
         /\ NonMaster(policy) = {order[j] : j \in 1..n}
         /\ Len(operations) = n + IF policy.removeMasterKey THEN 1 ELSE 0
         /\ \A i \in 1..n : operations[i] = InstallSigner(policy, order[i])
         /\ policy.removeMasterKey => operations[n + 1] = RemoveMasterKey(policy)
<1>1. n \in Nat /\ ExistsBijection(1..n, NonMaster(policy))
  BY FS_CardinalityType
<1>2. order \in [1..n -> NonMaster(policy)] /\ IsInjective(order)
  BY <1>1 DEF ExistsBijection, Bijection, Injection, SignerOrder
<1>3. order \in Surjection(1..n, NonMaster(policy))
  <2>1. order \in Injection(1..n, NonMaster(policy))
    BY <1>2 DEF Injection
  <2>2. IsFiniteSet(1..n) /\ Cardinality(1..n) = n
    BY <1>1, FS_Interval
  <2> QED BY <2>1, <2>2, FS_Injection
<1>4. NonMaster(policy) = {order[j] : j \in 1..n}
  BY <1>2, <1>3 DEF Surjection
<1> DEFINE signings == [i \in 1..n |-> InstallSigner(policy, order[i])]
           last == IF policy.removeMasterKey THEN <<RemoveMasterKey(policy)>> ELSE <<>>
           S == {signings[i] : i \in 1..n} \cup {RemoveMasterKey(policy)}
<1>5. operations = signings \o last
  <2>1. signings = [i \in 1..Cardinality(NonMaster(policy)) |-> InstallSigner(policy, SignerOrder(policy)[i])]
    OBVIOUS
  <2>2. SetupOperations(policy)
          = [i \in 1..Cardinality(NonMaster(policy)) |-> InstallSigner(policy, SignerOrder(policy)[i])]
              \o IF policy.removeMasterKey THEN <<RemoveMasterKey(policy)>> ELSE <<>>
    BY DEF SetupOperations
  <2> QED BY <2>1, <2>2
<1>6. signings \in Seq(S) /\ Len(signings) = n
  <2>1. signings \in [1..n -> S]
    OBVIOUS
  <2> HIDE DEF S
  <2> QED BY <1>1, <2>1, SeqDef, LenProperties
<1>7. last \in Seq(S) /\ Len(last) = IF policy.removeMasterKey THEN 1 ELSE 0
  <2>1. RemoveMasterKey(policy) \in S
    OBVIOUS
  <2> HIDE DEF S
  <2> QED BY <2>1
<1>8. /\ Len(operations) = Len(signings) + Len(last)
      /\ \A i \in 1..(Len(signings) + Len(last)) :
           operations[i] = IF i <= Len(signings) THEN signings[i] ELSE last[i - Len(signings)]
  <2>1. PICK T, a, b : T = S /\ a = signings /\ b = last
    OBVIOUS
  <2>2. a \in Seq(T) /\ b \in Seq(T)
    BY <1>6, <1>7, <2>1
  <2>3. /\ Len(a \o b) = Len(a) + Len(b)
        /\ \A i \in 1..(Len(a) + Len(b)) :
             (a \o b)[i] = IF i <= Len(a) THEN a[i] ELSE b[i - Len(a)]
    BY <2>2, ConcatProperties
  <2> QED BY <1>5, <2>1, <2>3
<1>9. Len(operations) = n + IF policy.removeMasterKey THEN 1 ELSE 0
  BY <1>6, <1>7, <1>8
<1>10. \A i \in 1..n : operations[i] = InstallSigner(policy, order[i])
  <2> SUFFICES ASSUME NEW i \in 1..n PROVE operations[i] = InstallSigner(policy, order[i])
    OBVIOUS
  <2>1. i \in 1..(Len(signings) + Len(last)) /\ i <= Len(signings)
    BY <1>1, <1>6, <1>7
  <2>2. operations[i] = signings[i]
    BY <1>8, <2>1
  <2> QED BY <2>2
<1>11. ASSUME policy.removeMasterKey PROVE operations[n + 1] = RemoveMasterKey(policy)
  <2>1. n + 1 \in 1..(Len(signings) + Len(last)) /\ ~(n + 1 <= Len(signings))
        /\ n + 1 - Len(signings) = 1
    BY <1>1, <1>6, <1>7, <1>11
  <2>2. operations[n + 1] = last[1]
    <3>1. PICK k : k = n + 1
      OBVIOUS
    <3>2. operations[k] = IF k <= Len(signings) THEN signings[k] ELSE last[k - Len(signings)]
      <4> HIDE DEF signings, last
      <4> QED BY <1>8, <2>1, <3>1
    <3>3. ~(k <= Len(signings))
      BY <2>1, <3>1
    <3> HIDE DEF signings, last
    <3>4. operations[k] = last[k - Len(signings)]
      BY <3>2, <3>3
    <3>5. k - Len(signings) = 1
      BY <1>1, <1>6, <3>1
    <3> QED BY <3>1, <3>4, <3>5
  <2> QED BY <2>2, <1>11
<1> QED BY <1>1, <1>2, <1>4, <1>9, <1>10, <1>11

\* A setup gives the keys of the policy their weights, and the account the thresholds.
LEMMA SetupChanges ==
  ASSUME NEW m, NEW s, s = [k \in DOMAIN s |-> s[k]], NEW t,
         NEW policy, IsFiniteSet(NonMaster(policy)), SetupOperations(policy) # <<>>
  PROVE  Changed(Account(m, s, t), SetupOperations(policy))
           = Account(IF policy.removeMasterKey THEN 0 ELSE m,
                     Installed(policy, NonMaster(policy), s), policy.thresholds)
<1>1. PICK operations, n, order :
        /\ operations = SetupOperations(policy) /\ n = Cardinality(NonMaster(policy))
        /\ order = SignerOrder(policy)
  OBVIOUS
<1>2. /\ n \in Nat /\ order \in [1..n -> NonMaster(policy)]
      /\ NonMaster(policy) = {order[j] : j \in 1..n}
      /\ Len(operations) = n + IF policy.removeMasterKey THEN 1 ELSE 0
      /\ \A i \in 1..n : operations[i] = InstallSigner(policy, order[i])
      /\ policy.removeMasterKey => operations[n + 1] = RemoveMasterKey(policy)
  BY <1>1, SetupParts
<1> DEFINE done(i) == {order[j] : j \in 1..i}
           upTo(i) == Account(m, Installed(policy, done(i), s),
                              IF i = 0 THEN t ELSE policy.thresholds)
           after == [i \in 0..Len(operations) |->
                       IF i <= n THEN upTo(i)
                       ELSE Account(0, Installed(policy, NonMaster(policy), s), policy.thresholds)]
<1>3. after[0] = Account(m, s, t)
  <2>1. done(0) = {}
    OBVIOUS
  <2>2. Installed(policy, {}, s) = s
    BY DEF Installed
  <2>3. 0 \in 0..Len(operations) /\ 0 <= n
    BY <1>2
  <2>4. after[0] = Account(m, Installed(policy, done(0), s), t)
    <3> HIDE DEF done
    <3> QED BY <2>3
  <2> HIDE DEF done, after
  <2> QED BY <2>1, <2>2, <2>4
<1>4. ASSUME NEW i \in 1..n PROVE after[i] = setOptions(after[i - 1], operations[i])
  <2>1. i - 1 \in 0..Len(operations) /\ i \in 0..Len(operations) /\ i - 1 <= n /\ i <= n /\ i # 0
    BY <1>2
  <2>2. PICK before, key : before = Installed(policy, done(i - 1), s) /\ key = order[i]
    OBVIOUS
  <2>4. done(i) = done(i - 1) \cup {order[i]}
    <3>1. 1..i = (1..i - 1) \cup {i}
      BY <1>2
    <3> QED BY <3>1
  <2>5. Installed(policy, done(i), s) = WithSigner(policy, key, before)
    <3> HIDE DEF done
    <3> QED BY <2>2, <2>4 DEF Installed, WithSigner
  <2>6. setOptions(upTo(i - 1), InstallSigner(policy, key))
          = Account(m, Installed(policy, done(i), s), policy.thresholds)
    <3>1. PICK to : to = IF i - 1 = 0 THEN t ELSE policy.thresholds
      OBVIOUS
    <3>2. setOptions(Account(m, before, to), InstallSigner(policy, key))
            = Account(m, WithSigner(policy, key, before), policy.thresholds)
      BY SignerInstalled
    <3> QED BY <2>2, <2>5, <3>1, <3>2
  <2>7. after[i - 1] = upTo(i - 1) /\ after[i] = upTo(i)
    BY <2>1
  <2> QED BY <1>2, <2>1, <2>2, <2>6, <2>7
<1>5. ASSUME policy.removeMasterKey
      PROVE  after[n + 1] = setOptions(after[n], operations[n + 1])
  <2>1. n \in 0..Len(operations) /\ n + 1 \in 0..Len(operations) /\ ~(n + 1 <= n) /\ n <= n
    BY <1>2, <1>5
  <2>2. PICK before, to : /\ before = Installed(policy, NonMaster(policy), s)
                          /\ to = IF n = 0 THEN t ELSE policy.thresholds
    OBVIOUS
  <2>3. after[n] = Account(m, before, to) /\ after[n + 1] = Account(0, before, policy.thresholds)
    BY <1>2, <2>1, <2>2
  <2>4. before = [k \in DOMAIN before |-> before[k]]
    BY <2>2 DEF Installed
  <2>5. setOptions(Account(m, before, to), RemoveMasterKey(policy))
          = Account(0, before, policy.thresholds)
    BY <2>4, MasterRemoved
  <2> QED BY <1>2, <1>5, <2>3, <2>5
<1>6. ASSUME NEW i \in 0..Len(operations)
      PROVE  after[i] = IF i = 0 THEN Account(m, s, t)
                        ELSE setOptions(after[i - 1], operations[i])
  <2> HIDE DEF after
  <2>1. i = 0 \/ i \in 1..n \/ (policy.removeMasterKey /\ i = n + 1 /\ i # 0 /\ i - 1 = n)
    BY <1>2
  <2>2. CASE i = 0
    BY <2>2, <1>3
  <2>3. CASE i \in 1..n
    BY <2>3, <1>4
  <2>4. CASE policy.removeMasterKey /\ i = n + 1 /\ i # 0 /\ i - 1 = n
    BY <2>4, <1>5
  <2> QED BY <2>1, <2>2, <2>3, <2>4
<1>7. Changed(Account(m, s, t), operations) = after[Len(operations)]
  <2>1. after = [i \in 0..Len(operations) |->
                   IF i = 0 THEN Account(m, s, t) ELSE setOptions(after[i - 1], operations[i])]
    <3>1. after = [i \in 0..Len(operations) |-> after[i]]
      OBVIOUS
    <3> HIDE DEF after
    <3> QED BY <1>6, <3>1
  <2>2. Len(operations) \in Nat
    BY <1>2
  <2> HIDE DEF after
  <2> QED BY <2>1, <2>2, ChangedIs
<1>8. CASE policy.removeMasterKey
  <2>1. Len(operations) \in 0..Len(operations) /\ ~(Len(operations) <= n)
    BY <1>2, <1>8
  <2> QED BY <1>1, <1>7, <1>8, <2>1
<1>9. CASE ~policy.removeMasterKey
  <2>1. Len(operations) \in 0..Len(operations) /\ Len(operations) <= n /\ Len(operations) = n
    BY <1>2, <1>9
  <2>2. n # 0
    <3>1. ASSUME n = 0 PROVE FALSE
      <4>1. NonMaster(policy) = {}
        BY <1>2, <3>1
      <4>2. operations
              = [i \in 1..Cardinality(NonMaster(policy)) |-> InstallSigner(policy, SignerOrder(policy)[i])]
                  \o IF policy.removeMasterKey THEN <<RemoveMasterKey(policy)>> ELSE <<>>
        BY <1>1 DEF SetupOperations
      <4>3. [i \in 1..0 |-> InstallSigner(policy, order[i])] = <<>>
        OBVIOUS
      <4>4. operations = <<>> \o <<>>
        BY <1>1, <1>9, <3>1, <4>2, <4>3
      <4> QED BY <4>4, <1>1
    <3> QED BY <3>1
  <2> QED BY <1>1, <1>2, <1>7, <1>9, <2>1, <2>2
<1> QED BY <1>8, <1>9

\* What a policy that was accepted is.
LEMMA Accepted ==
  ASSUME NEW p \in Policies, validateMultisigPolicy(p),
         NEW policy, policy = resolveMultisigPolicy(p)
  PROVE  /\ IsFiniteSet(DOMAIN policy.weight) /\ policy.weight \in [DOMAIN policy.weight -> Nat]
         /\ policy.thresholds.high \in Nat /\ 1 <= policy.thresholds.high
         /\ policy.removeMasterKey \in BOOLEAN
         /\ policy.removeMasterKey => Own \notin DOMAIN policy.weight
         /\ SumOf(policy.weight, NonMaster(policy)) \in Nat /\ masterKeyWeight(policy) \in Nat
         /\ policy.thresholds.high
              <= SumOf(policy.weight, NonMaster(policy)) + masterKeyWeight(policy)
<1>1. WellFormed(p) /\ MultisigPolicy(p) /\ MAX_WEIGHT \in Nat
  BY MultisigAssumption DEF validateMultisigPolicy
<1> DEFINE keys == {s.key : s \in Range(p.signers)}
           weight == [key \in keys |-> (CHOOSE s \in Range(p.signers) : s.key = key).weight]
<1>2. /\ policy.weight = weight
      /\ policy.thresholds.high = Either(p.highThreshold, p.threshold)
      /\ policy.removeMasterKey = Either(p.removeMasterKey, TRUE)
  BY DEF resolveMultisigPolicy, Thresholds
<1>3. IsFiniteSet(keys)
  <2> DEFINE f == [i \in 1..Len(p.signers) |-> p.signers[i].key]
  <2>1. IsFiniteSet(1..Len(p.signers))
    <3>1. Len(p.signers) \in Int
      BY <1>1 DEF MultisigPolicy
    <3> QED BY <3>1, FS_Interval
  <2>2. f \in Surjection(1..Len(p.signers), keys)
    BY <1>1 DEF Surjection, Range, MultisigPolicy
  <2> HIDE DEF f, keys
  <2> QED BY <2>1, <2>2, FS_Surjection
<1>4. weight \in [keys -> Nat]
  <2> SUFFICES ASSUME NEW key \in keys
               PROVE  (CHOOSE s \in Range(p.signers) : s.key = key).weight \in Nat
    OBVIOUS
  <2>1. PICK s : s = CHOOSE x \in Range(p.signers) : x.key = key
    OBVIOUS
  <2>2. s \in Range(p.signers)
    BY <2>1
  <2>3. s.weight \in 0..MAX_WEIGHT
    BY <1>1, <2>2 DEF WellFormed, isValidWeight
  <2> QED BY <1>1, <2>1, <2>3
<1>5. policy.thresholds.high \in 1..MAX_WEIGHT
  <2>1. CASE p.highThreshold = {}
    BY <1>1, <1>2, <2>1 DEF Either, WellFormed, isValidThreshold
  <2>2. CASE p.highThreshold # {}
    <3>1. Either(p.highThreshold, p.threshold) \in p.highThreshold
      BY <2>2 DEF Either
    <3> QED BY <1>1, <1>2, <3>1 DEF WellFormed, isValidThreshold
  <2> QED BY <2>1, <2>2
<1>6. policy.removeMasterKey \in BOOLEAN
  <2>1. CASE p.removeMasterKey = {}
    BY <1>2, <2>1 DEF Either
  <2>2. CASE p.removeMasterKey # {}
    <3>1. Either(p.removeMasterKey, TRUE) \in p.removeMasterKey
      BY <2>2 DEF Either
    <3> QED BY <1>1, <1>2, <3>1 DEF MultisigPolicy
  <2> QED BY <2>1, <2>2
<1>7. SumOf(policy.weight, NonMaster(policy)) \in Nat
  <2>1. IsFiniteSet(NonMaster(policy))
    <3>1. NonMaster(policy) \in SUBSET keys
      BY <1>2 DEF NonMaster
    <3> HIDE DEF keys
    <3> QED BY <1>3, <3>1, FS_Subset
  <2>2. [key \in NonMaster(policy) |-> policy.weight[key]] \in [NonMaster(policy) -> Int]
    <3> HIDE DEF weight, keys
    <3>1. DOMAIN policy.weight = keys /\ \A key \in keys : policy.weight[key] \in Nat
      BY <1>2, <1>4
    <3> QED BY <3>1 DEF NonMaster
  <2> QED BY <2>1, <2>2, TotalType DEF SumOf
<1>8. masterKeyWeight(policy) \in Nat
  <2> HIDE DEF weight, keys
  <2>1. DOMAIN policy.weight = keys /\ \A key \in keys : policy.weight[key] \in Nat
    BY <1>2, <1>4
  <2> QED BY <2>1 DEF masterKeyWeight
<1>9. ~LocksOut(policy) /\ (policy.removeMasterKey => Own \notin DOMAIN policy.weight)
  BY Zenon DEF validateMultisigPolicy
<1>10. policy.thresholds.high \in Nat /\ 1 <= policy.thresholds.high
  BY <1>1, <1>5
<1>11. policy.thresholds.high
         <= SumOf(policy.weight, NonMaster(policy)) + masterKeyWeight(policy)
  BY <1>7, <1>8, <1>9, <1>10 DEF LocksOut
<1>12. IsFiniteSet(DOMAIN policy.weight) /\ policy.weight \in [DOMAIN policy.weight -> Nat]
  <2> HIDE DEF weight, keys
  <2> QED BY <1>2, <1>3, <1>4
<1> QED BY <1>6, <1>7, <1>8, <1>9, <1>10, <1>11, <1>12

\* The keys of an account reach a threshold if some of them do.
LEMMA Reaches ==
  ASSUME NEW account, IsAccount(account), NEW policy, NEW keys \in SUBSET DOMAIN account.signers,
         \A key \in keys : policy.weight[key] = account.signers[key],
         NEW high \in Nat, 1 <= high, account.thresholds.high = high, NEW k \in Nat,
         high <= SumOf(policy.weight, keys) + k, k <= account.masterWeight
  PROVE  InControl(account)
<1>1. account.masterWeight \in Nat /\ Weights(account.signers)
  BY DEF IsAccount
<1>2. PICK f : f = [key \in DOMAIN account.signers |-> account.signers[key]]
  OBVIOUS
<1>3. PICK g : g = [key \in keys |-> policy.weight[key]]
  OBVIOUS
<1>4. f \in [DOMAIN account.signers -> Nat] /\ g \in [keys -> Nat] /\ \A x \in keys : g[x] = f[x]
  BY <1>1, <1>2, <1>3 DEF Weights
<1>5. Total(g) <= Total(f) /\ Total(g) \in Nat /\ Total(f) \in Nat
  BY <1>1, <1>4, TotalPart DEF Weights
<1>6. SumOf(account.signers, DOMAIN account.signers) = Total(f) /\ SumOf(policy.weight, keys) = Total(g)
  BY <1>2, <1>3 DEF SumOf
<1>7. Max({1, high}) = high
  <2>1. PICK x : x = CHOOSE z \in {1, high} : \A y \in {1, high} : z >= y
    OBVIOUS
  <2>2. high \in {1, high} /\ \A y \in {1, high} : high >= y
    OBVIOUS
  <2>3. x \in {1, high} /\ \A y \in {1, high} : x >= y
    BY <2>1, <2>2
  <2>4. x = high
    BY <2>3
  <2> QED BY <2>1, <2>4 DEF Max
<1> QED BY <1>1, <1>5, <1>6, <1>7 DEF InControl

\* What is kept: an account with whole weights; plans that are what was computed from
\* a policy that was accepted; what the last setup left, until another change; and
\* what was seen when a policy was compared.
PlanKept(setup) ==
  /\ setup.policy \in Policies /\ validateMultisigPolicy(setup.policy)
  /\ setup.dryRun = dryRunMultisigSetup(resolveMultisigPolicy(setup.policy))
  /\ setup.operations = SetupOperations(resolveMultisigPolicy(setup.policy))
InForce(p) ==
  LET policy == resolveMultisigPolicy(p) IN
  /\ p \in Policies /\ validateMultisigPolicy(p)
  /\ onLedger.thresholds = policy.thresholds
  /\ policy.removeMasterKey => onLedger.masterWeight = 0
  /\ \A key \in NonMaster(policy) :
       key \in DOMAIN onLedger.signers /\ onLedger.signers[key] = policy.weight[key]
ComparisonKept(v) ==
  /\ v.policy \in Policies /\ IsAccount(v.onState)
  /\ v.matches = (Differences(resolveMultisigPolicy(v.policy), v.onState) = {})
MultisigKept ==
  /\ IsAccount(onLedger)
  /\ \A setup \in setups : PlanKept(setup)
  /\ \A p \in applied : InForce(p)
  /\ \A v \in verified : ComparisonKept(v)

LEMMA MultisigStarts == MultisigInit => MultisigKept
<1> SUFFICES ASSUME MultisigInit PROVE MultisigKept
  OBVIOUS
<1>1. PICK old \in OldSignerSets :
        onLedger = [masterWeight |-> 1, signers |-> [key \in old |-> 1],
                    thresholds |-> Thresholds(0, 0, 0)]
  BY DEF MultisigInit
<1>2. /\ onLedger.masterWeight = 1 /\ onLedger.signers = [key \in old |-> 1]
      /\ onLedger = Account(onLedger.masterWeight, onLedger.signers, onLedger.thresholds)
  BY <1>1 DEF Account
<1>3. Weights(onLedger.signers)
  BY <1>2, MultisigAssumption DEF Weights
<1>4. IsAccount(onLedger)
  BY <1>2, <1>3 DEF IsAccount
<1> QED BY <1>4 DEF MultisigInit, MultisigKept

\* A setup that is built is what its policy says.
LEMMA BuildStep ==
  ASSUME MultisigKept, NEW p \in Policies, buildMultisigSetup(p)
  PROVE  MultisigKept'
<1>1. PICK policy, new :
        /\ policy = resolveMultisigPolicy(p)
        /\ new = [policy |-> p, dryRun |-> dryRunMultisigSetup(policy),
                  operations |-> SetupOperations(policy), sequence |-> sequence]
  OBVIOUS
<1>2. /\ validateMultisigPolicy(p) /\ setups' = setups \cup {new}
      /\ UNCHANGED <<onLedger, applied, verified>>
  BY <1>1 DEF buildMultisigSetup
<1>3. /\ new.policy = p /\ new.dryRun = dryRunMultisigSetup(policy)
      /\ new.operations = SetupOperations(policy)
  BY <1>1
<1>4. PlanKept(new)
  BY <1>1, <1>2, <1>3 DEF PlanKept
<1>5. \A setup \in setups' : PlanKept(setup)
  BY <1>2, <1>4 DEF MultisigKept
<1>6. \A p1 \in applied : InForce(p1)'
  BY <1>2 DEF MultisigKept, InForce
<1> QED BY <1>2, <1>5, <1>6 DEF MultisigKept

\* A setup that is applied leaves its policy in force.
LEMMA ApplyStep ==
  ASSUME MultisigKept, NEW setup \in setups, Apply(setup)
  PROVE  MultisigKept'
<1>1. PICK p, policy, m, s, t :
        /\ p = setup.policy /\ policy = resolveMultisigPolicy(p)
        /\ m = onLedger.masterWeight /\ s = onLedger.signers /\ t = onLedger.thresholds
  OBVIOUS
<1>2. /\ p \in Policies /\ validateMultisigPolicy(p) /\ setup.operations = SetupOperations(policy)
      /\ setup.operations # <<>> /\ onLedger' = Changed(onLedger, setup.operations)
      /\ applied' = {p} /\ UNCHANGED <<setups, verified>>
  BY <1>1 DEF MultisigKept, PlanKept, Apply
<1>3. onLedger = Account(m, s, t) /\ m \in Nat /\ Weights(s)
  BY <1>1 DEF MultisigKept, IsAccount
<1>4. /\ IsFiniteSet(DOMAIN policy.weight) /\ policy.weight \in [DOMAIN policy.weight -> Nat]
      /\ policy.removeMasterKey \in BOOLEAN
  BY <1>1, <1>2, Accepted
<1>5. IsFiniteSet(NonMaster(policy)) /\ NonMaster(policy) \subseteq DOMAIN policy.weight
  <2>1. NonMaster(policy) \in SUBSET DOMAIN policy.weight
    BY DEF NonMaster
  <2> QED BY <1>4, <2>1, FS_Subset
<1>6. PICK m2, s2 : /\ m2 = IF policy.removeMasterKey THEN 0 ELSE m
                    /\ s2 = Installed(policy, NonMaster(policy), s)
  OBVIOUS
<1>7. onLedger' = Account(m2, s2, policy.thresholds)
  <2>1. s = [k \in DOMAIN s |-> s[k]]
    BY <1>3 DEF Weights
  <2>2. SetupOperations(policy) # <<>>
    BY <1>2
  <2> QED BY <1>2, <1>3, <1>5, <1>6, <2>1, <2>2, SetupChanges
<1>8. /\ onLedger'.masterWeight = m2 /\ onLedger'.signers = s2
      /\ onLedger'.thresholds = policy.thresholds
  BY <1>7 DEF Account
<1>9. Weights(s2)
  <2>1. DOMAIN s2 = DOMAIN s \cup NonMaster(policy)
    BY <1>6 DEF Installed
  <2>2. IsFiniteSet(DOMAIN s2)
    BY <1>3, <1>5, <2>1, FS_Union DEF Weights
  <2>3. s2 \in [DOMAIN s2 -> Nat]
    BY <1>3, <1>4, <1>5, <1>6 DEF Installed, Weights
  <2> QED BY <2>2, <2>3 DEF Weights
<1>10. IsAccount(onLedger)'
  <2>1. m2 \in Nat
    BY <1>3, <1>6
  <2> QED BY <1>7, <1>8, <1>9, <2>1 DEF IsAccount
<1>11. InForce(p)'
  BY <1>1, <1>2, <1>6, <1>8 DEF InForce, Installed
<1> QED BY <1>2, <1>10, <1>11 DEF MultisigKept

\* Another tool's change makes an account of an account.
LEMMA OtherStep ==
  ASSUME MultisigKept, NEW key \in Cosigners, NEW weight \in 1..MAX_WEIGHT, OtherChange(key, weight)
  PROVE  MultisigKept'
<1>1. PICK op, m, s, t :
        /\ op = [signers |-> {<<key, weight>>}, masterWeight |-> {},
                 thresholds |-> onLedger.thresholds]
        /\ m = onLedger.masterWeight /\ s = onLedger.signers /\ t = onLedger.thresholds
  OBVIOUS
<1>2. /\ onLedger' = setOptions(onLedger, op)
      /\ applied' = {} /\ UNCHANGED <<setups, verified>>
  BY <1>1 DEF OtherChange
<1>3. onLedger = Account(m, s, t) /\ m \in Nat /\ Weights(s)
  BY <1>1 DEF MultisigKept, IsAccount
<1>4. op.signers = {<<key, weight>>} /\ op.masterWeight = {} /\ op.thresholds = t
  BY <1>1
<1>5. Named(op) = {key}
  BY <1>4 DEF Named
<1>6. WeightGiven(op, key) = weight
  <2>1. PICK w : w = CHOOSE x \in op.signers : x[1] = key
    OBVIOUS
  <2>2. <<key, weight>> \in op.signers /\ <<key, weight>>[1] = key
    BY <1>4
  <2>3. w \in op.signers
    BY <2>1, <2>2
  <2>4. w = <<key, weight>>
    BY <1>4, <2>3
  <2>5. WeightGiven(op, key) = w[2]
    BY <2>1 DEF WeightGiven
  <2> QED BY <2>4, <2>5
<1>7. PICK s2 : s2 = SignersAfter(s, op)
  OBVIOUS
<1>8. onLedger' = Account(m, s2, t)
  <2>1. setOptions(Account(m, s, t), op)
          = Account(Either(op.masterWeight, m), SignersAfter(s, op), op.thresholds)
    BY SetOptions
  <2>2. Either(op.masterWeight, m) = m
    BY <1>4 DEF Either
  <2> QED BY <1>2, <1>3, <1>4, <1>7, <2>1, <2>2
<1>9. Weights(s2)
  <2>1. DOMAIN s2 = DOMAIN s \cup {key}
    BY <1>5, <1>7 DEF SignersAfter
  <2>2. IsFiniteSet(DOMAIN s2)
    BY <1>3, <2>1, FS_AddElement DEF Weights
  <2>3. weight \in Nat
    BY MultisigAssumption
  <2>4. s2 \in [DOMAIN s2 -> Nat]
    BY <1>3, <1>5, <1>6, <1>7, <2>3 DEF SignersAfter, Weights
  <2> QED BY <2>2, <2>4 DEF Weights
<1>10. IsAccount(onLedger)'
  <2>1. /\ onLedger'.masterWeight = m /\ onLedger'.signers = s2 /\ onLedger'.thresholds = t
    BY <1>8 DEF Account
  <2> QED BY <1>3, <1>8, <1>9, <2>1 DEF IsAccount
<1> QED BY <1>2, <1>10 DEF MultisigKept

LEMMA MultisigStep == MultisigKept /\ [MultisigNext]_multisigVars => MultisigKept'
<1> SUFFICES ASSUME MultisigKept, [MultisigNext]_multisigVars PROVE MultisigKept'
  OBVIOUS
<1>1. CASE UNCHANGED multisigVars
  BY <1>1 DEF multisigVars, MultisigKept, InForce
<1>2. ASSUME NEW p \in Policies, buildMultisigSetup(p) PROVE MultisigKept'
  BY <1>2, BuildStep
<1>3. ASSUME NEW setup \in setups, Apply(setup) PROVE MultisigKept'
  BY <1>3, ApplyStep
<1>4. ASSUME NEW key \in Cosigners, NEW weight \in 1..MAX_WEIGHT, OtherChange(key, weight)
      PROVE  MultisigKept'
  BY <1>4, OtherStep
<1>5. ASSUME NEW p \in Policies, verifyMultisig(p) PROVE MultisigKept'
  <2>1. PICK new : new = [policy |-> p, onState |-> onLedger,
                          matches |-> Differences(resolveMultisigPolicy(p), onLedger) = {}]
    OBVIOUS
  <2>2. verified' = {new} /\ UNCHANGED <<onLedger, setups, applied>>
    BY <1>5, <2>1 DEF verifyMultisig
  <2>3. /\ new.policy = p /\ new.onState = onLedger
        /\ new.matches = (Differences(resolveMultisigPolicy(p), onLedger) = {})
    BY <2>1
  <2>4. ComparisonKept(new)
    BY <2>3 DEF MultisigKept, ComparisonKept
  <2>5. \A v \in verified' : ComparisonKept(v)
    BY <2>2, <2>4
  <2> QED BY <2>2, <2>5 DEF MultisigKept, InForce
<1> QED BY <1>1, <1>2, <1>3, <1>4, <1>5 DEF MultisigNext

\* An account that does not differ from a valid policy is in its control, and in no
\* other's.
LEMMA MatchesInControl ==
  ASSUME NEW v, ComparisonKept(v), v.matches, validateMultisigPolicy(v.policy)
  PROVE  /\ InControl(v.onState)
         /\ DOMAIN v.onState.signers \cup (IF v.onState.masterWeight > 0 THEN {Own} ELSE {})
              \subseteq {s.key : s \in Range(v.policy.signers)}
<1>1. PICK account, policy : account = v.onState /\ policy = resolveMultisigPolicy(v.policy)
  OBVIOUS
<1>2. v.policy \in Policies /\ IsAccount(account) /\ Differences(policy, account) = {}
  BY <1>1 DEF ComparisonKept
<1>3. /\ policy.thresholds.high \in Nat /\ 1 <= policy.thresholds.high
      /\ masterKeyWeight(policy) \in Nat
      /\ policy.thresholds.high
           <= SumOf(policy.weight, NonMaster(policy)) + masterKeyWeight(policy)
  BY <1>1, <1>2, Accepted
<1>4. DOMAIN policy.weight = {s.key : s \in Range(v.policy.signers)}
      /\ DOMAIN policy.thresholds = {"low", "medium", "high"}
  BY <1>1 DEF resolveMultisigPolicy, Thresholds
<1>5. account.thresholds.high = policy.thresholds.high
  <2>1. ASSUME account.thresholds["high"] # policy.thresholds["high"] PROVE FALSE
    <3>1. <<"threshold", "high">> \in DifferencesInPolicy(policy, account)
      BY <1>4, <2>1 DEF DifferencesInPolicy
    <3> QED BY <1>2, <3>1 DEF Differences
  <2> QED BY <2>1
<1>6. ASSUME NEW key \in NonMaster(policy)
      PROVE  key \in DOMAIN account.signers /\ policy.weight[key] = account.signers[key]
  <2>1. ASSUME key \notin DOMAIN account.signers \/ account.signers[key] # policy.weight[key]
        PROVE  FALSE
    <3>1. <<"signer", key>> \in DifferencesInPolicy(policy, account)
      BY <2>1 DEF DifferencesInPolicy
    <3> QED BY <1>2, <3>1 DEF Differences
  <2> QED BY <2>1
<1>7. DOMAIN account.signers \subseteq NonMaster(policy)
  <2>1. ASSUME NEW key \in DOMAIN account.signers \ NonMaster(policy) PROVE FALSE
    <3>1. <<"unexpected", key>> \in Differences(policy, account)
      BY DEF Differences
    <3> QED BY <1>2, <3>1
  <2> QED BY <2>1
<1>8. account.masterWeight = masterKeyWeight(policy)
  <2>1. ASSUME account.masterWeight # masterKeyWeight(policy) PROVE FALSE
    <3>1. account.masterWeight \in {account.masterWeight} \ {masterKeyWeight(policy)}
      BY <2>1
    <3>2. <<"master">> \in Differences(policy, account)
      BY <3>1 DEF Differences
    <3> QED BY <1>2, <3>2
  <2> QED BY <2>1
<1>9. InControl(account)
  <2>1. masterKeyWeight(policy) <= account.masterWeight
    BY <1>3, <1>8
  <2>2. NonMaster(policy) \in SUBSET DOMAIN account.signers
    BY <1>6
  <2> QED BY <1>2, <1>3, <1>5, <1>6, <2>1, <2>2, Reaches
<1>10. NonMaster(policy) \subseteq DOMAIN policy.weight
  BY DEF NonMaster
<1>11. account.masterWeight > 0 => Own \in DOMAIN policy.weight
  BY <1>3, <1>8 DEF masterKeyWeight
<1> QED BY <1>1, <1>4, <1>7, <1>9, <1>10, <1>11

\* The dry run of a plan counts its operations, and the weight they leave.
LEMMA DryRunTells ==
  ASSUME IsAccount(onLedger), NEW setup, PlanKept(setup),
         NEW after, after = Changed([onLedger EXCEPT !.signers = <<>>], setup.operations)
  PROVE  /\ setup.dryRun.operationCount = Len(setup.operations)
         /\ resolveMultisigPolicy(setup.policy).removeMasterKey =>
              setup.dryRun.totalWeight = after.masterWeight + SumOf(after.signers, DOMAIN after.signers)
<1>1. PICK p, policy : p = setup.policy /\ policy = resolveMultisigPolicy(p)
  OBVIOUS
<1>2. /\ p \in Policies /\ validateMultisigPolicy(p)
      /\ setup.dryRun = dryRunMultisigSetup(policy)
      /\ setup.operations = SetupOperations(policy)
  BY <1>1 DEF PlanKept
<1>3. /\ IsFiniteSet(DOMAIN policy.weight) /\ policy.removeMasterKey \in BOOLEAN
      /\ SumOf(policy.weight, NonMaster(policy)) \in Nat
  BY <1>1, <1>2, Accepted
<1>4. IsFiniteSet(NonMaster(policy))
  <2>1. NonMaster(policy) \in SUBSET DOMAIN policy.weight
    BY DEF NonMaster
  <2> QED BY <1>3, <2>1, FS_Subset
<1>5. PICK n : n = Cardinality(NonMaster(policy))
  OBVIOUS
<1>6. n \in Nat /\ Len(setup.operations) = n + IF policy.removeMasterKey THEN 1 ELSE 0
  BY <1>2, <1>4, <1>5, SetupParts
<1>7. setup.dryRun.operationCount = n + IF policy.removeMasterKey THEN 1 ELSE 0
  BY <1>2, <1>5 DEF dryRunMultisigSetup
<1>8. ASSUME policy.removeMasterKey
      PROVE  setup.dryRun.totalWeight
               = after.masterWeight + SumOf(after.signers, DOMAIN after.signers)
  <2>1. SetupOperations(policy) # <<>>
    <3>1. Len(SetupOperations(policy)) # 0
      BY <1>2, <1>6, <1>8
    <3>2. Len(<<>>) = 0
      OBVIOUS
    <3> QED BY <3>1, <3>2
  <2>2. PICK m, t : m = onLedger.masterWeight /\ t = onLedger.thresholds
    OBVIOUS
  <2>3. [onLedger EXCEPT !.signers = <<>>] = Account(m, <<>>, t)
    <3>1. PICK x : x = [onLedger EXCEPT !.signers = <<>>]
      OBVIOUS
    <3>2. onLedger \in [masterWeight : {m}, signers : {onLedger.signers}, thresholds : {t}]
      BY <2>2 DEF IsAccount, Account
    <3>3. x \in [masterWeight : {m}, signers : {<<>>}, thresholds : {t}]
      BY <3>1, <3>2
    <3>4. x = [masterWeight |-> m, signers |-> <<>>, thresholds |-> t]
      BY <3>3
    <3> QED BY <3>1, <3>4 DEF Account
  <2>4. PICK none : none = <<>> /\ DOMAIN none = {} /\ none = [k \in DOMAIN none |-> none[k]]
    <3>1. DOMAIN <<>> = {}
      OBVIOUS
    <3>2. <<>> = [k \in {} |-> <<>>[k]]
      OBVIOUS
    <3> QED BY <3>1, <3>2
  <2>5. PICK s : s = Installed(policy, NonMaster(policy), none)
    OBVIOUS
  <2>6. Changed(Account(m, none, t), SetupOperations(policy))
          = Account(IF policy.removeMasterKey THEN 0 ELSE m, s, policy.thresholds)
    <3>1. none = [k \in DOMAIN none |-> none[k]]
      BY <2>4
    <3>2. Changed(Account(m, none, t), SetupOperations(policy))
            = Account(IF policy.removeMasterKey THEN 0 ELSE m,
                      Installed(policy, NonMaster(policy), none), policy.thresholds)
      BY <1>4, <2>1, <3>1, SetupChanges
    <3> QED BY <2>5, <3>2
  <2>7. after = Account(0, s, policy.thresholds)
    BY <1>2, <1>8, <2>3, <2>4, <2>6
  <2>8. after.masterWeight = 0 /\ after.signers = s
    BY <2>7 DEF Account
  <2>9. DOMAIN s = NonMaster(policy) /\ \A key \in NonMaster(policy) : s[key] = policy.weight[key]
    BY <2>4, <2>5 DEF Installed
  <2>10. SumOf(s, DOMAIN s) = SumOf(policy.weight, NonMaster(policy))
    <3>1. [key \in DOMAIN s |-> s[key]] = [key \in NonMaster(policy) |-> policy.weight[key]]
      BY <2>9
    <3> QED BY <3>1 DEF SumOf
  <2>11. setup.dryRun.totalWeight = SumOf(policy.weight, NonMaster(policy)) + masterKeyWeight(policy)
    BY <1>2 DEF dryRunMultisigSetup
  <2>12. masterKeyWeight(policy) = 0
    BY <1>8 DEF masterKeyWeight
  <2> QED BY <1>3, <2>8, <2>10, <2>11, <2>12
<1> QED BY <1>1, <1>6, <1>7, <1>8

\* The multisig helper locks nobody out: with the master key removed, the account a
\* setup was applied to last is in the control of its signers; an account that matches
\* a valid policy is in the control of the keys the policy names, and of no other;
\* and the dry run of every setup tells how many operations it has and what weight
\* they leave. Whatever the policies, the weights and the other tools' changes.
THEOREM NobodyIsLockedOut == MultisigSpec => []ControlKept
<1>1. MultisigInit => MultisigKept
  BY MultisigStarts
<1>2. MultisigKept /\ [MultisigNext]_multisigVars => MultisigKept'
  BY MultisigStep
<1>3. MultisigKept => ControlKept
  <2> SUFFICES ASSUME MultisigKept PROVE ControlKept
    OBVIOUS
  <2>1. ASSUME NEW p \in applied, resolveMultisigPolicy(p).removeMasterKey
        PROVE  /\ InControl(onLedger) /\ onLedger.masterWeight = 0
               /\ DOMAIN onLedger.signers \subseteq NonMaster(resolveMultisigPolicy(p)) =>
                    Differences(resolveMultisigPolicy(p), onLedger) = {}
    <3>1. PICK policy : policy = resolveMultisigPolicy(p)
      OBVIOUS
    <3>2. /\ p \in Policies /\ validateMultisigPolicy(p) /\ IsAccount(onLedger)
          /\ onLedger.thresholds = policy.thresholds /\ onLedger.masterWeight = 0
          /\ \A key \in NonMaster(policy) :
               key \in DOMAIN onLedger.signers /\ onLedger.signers[key] = policy.weight[key]
      BY <2>1, <3>1 DEF MultisigKept, InForce
    <3>3. /\ policy.thresholds.high \in Nat /\ 1 <= policy.thresholds.high
          /\ policy.thresholds.high
               <= SumOf(policy.weight, NonMaster(policy)) + masterKeyWeight(policy)
      BY <3>1, <3>2, Accepted
    <3>4. masterKeyWeight(policy) = 0
      BY <2>1, <3>1 DEF masterKeyWeight
    <3>5. NonMaster(policy) \in SUBSET DOMAIN onLedger.signers
      BY <3>2
    <3>6. InControl(onLedger)
      <4>1. 0 \in Nat /\ 0 <= onLedger.masterWeight
        BY <3>2
      <4>2. policy.thresholds.high <= SumOf(policy.weight, NonMaster(policy)) + 0
        BY <3>3, <3>4
      <4> QED BY <3>2, <3>3, <3>5, <4>1, <4>2, Reaches
    <3>7. ASSUME DOMAIN onLedger.signers \subseteq NonMaster(policy)
          PROVE  Differences(policy, onLedger) = {}
      <4>1. DifferencesInPolicy(policy, onLedger) = {}
        BY <3>2 DEF DifferencesInPolicy
      <4>2. DOMAIN onLedger.signers \ NonMaster(policy) = {}
        BY <3>7
      <4>3. {onLedger.masterWeight} \ {masterKeyWeight(policy)} = {}
        BY <3>2, <3>4
      <4> QED BY <4>1, <4>2, <4>3 DEF Differences
    <3> QED BY <3>1, <3>2, <3>6, <3>7
  <2>2. ASSUME NEW v \in verified, v.matches, validateMultisigPolicy(v.policy)
        PROVE  /\ InControl(v.onState)
               /\ DOMAIN v.onState.signers \cup (IF v.onState.masterWeight > 0 THEN {Own} ELSE {})
                    \subseteq {s.key : s \in Range(v.policy.signers)}
    BY <2>2, MatchesInControl DEF MultisigKept
  <2>3. ASSUME NEW setup \in setups,
               NEW after, after = Changed([onLedger EXCEPT !.signers = <<>>], setup.operations)
        PROVE  /\ setup.dryRun.operationCount = Len(setup.operations)
               /\ resolveMultisigPolicy(setup.policy).removeMasterKey =>
                    setup.dryRun.totalWeight
                      = after.masterWeight + SumOf(after.signers, DOMAIN after.signers)
    BY <2>3, DryRunTells DEF MultisigKept
  <2> QED BY <2>1, <2>2, <2>3 DEF ControlKept
<1> QED BY <1>1, <1>2, <1>3, PTL DEF MultisigSpec

-----------------------------------------------------------------------------
(* The amount helpers: numbers in digits.                                      *)

\* There is a function that multiplies by ten and adds a digit, from a start on.
Tenfold(f, n, start, digits) ==
  /\ f \in [0..n -> Nat] /\ f[0] = start
  /\ \A i \in 1..n : f[i] = 10 * f[i - 1] + digits[i]
LEMMA TenfoldExists ==
  ASSUME NEW n \in Nat, NEW start \in Nat, NEW digits \in [1..n -> Nat]
  PROVE  \E f : Tenfold(f, n, start, digits)
<1> DEFINE T == {m \in Nat : m <= n => \E f : Tenfold(f, m, start, digits)}
<1>1. 0 \in T
  <2>1. PICK f : f = [i \in 0..0 |-> start]
    OBVIOUS
  <2>2. Tenfold(f, 0, start, digits)
    BY <2>1 DEF Tenfold
  <2> QED BY <2>2
<1>2. ASSUME NEW m \in T PROVE m + 1 \in T
  <2> SUFFICES ASSUME m + 1 <= n PROVE \E f : Tenfold(f, m + 1, start, digits)
    OBVIOUS
  <2>1. m \in Nat /\ m <= n /\ m + 1 \in 1..n
    OBVIOUS
  <2>2. PICK f : Tenfold(f, m, start, digits)
    BY <2>1
  <2>3. PICK g : g = [i \in 0..(m + 1) |-> IF i <= m THEN f[i] ELSE 10 * f[m] + digits[m + 1]]
    OBVIOUS
  <2>4. f \in [0..m -> Nat] /\ f[0] = start /\ f[m] \in Nat /\ digits[m + 1] \in Nat
    BY <2>1, <2>2 DEF Tenfold
  <2>5. g \in [0..(m + 1) -> Nat]
    <3>1. ASSUME NEW i \in 0..(m + 1)
          PROVE  (IF i <= m THEN f[i] ELSE 10 * f[m] + digits[m + 1]) \in Nat
      BY <2>1, <2>4
    <3> QED BY <2>3, <3>1
  <2>6. ASSUME NEW i \in 1..(m + 1) PROVE g[i] = 10 * g[i - 1] + digits[i]
    <3>1. i \in 0..(m + 1) /\ i - 1 \in 0..(m + 1) /\ i - 1 <= m /\ i \in Nat
      BY <2>1
    <3>2. g[i - 1] = f[i - 1]
      BY <2>3, <3>1
    <3>3. CASE i <= m
      <4>1. i \in 1..m
        BY <2>1, <3>1, <3>3
      <4>2. f[i] = 10 * f[i - 1] + digits[i]
        BY <2>2, <4>1 DEF Tenfold
      <4> QED BY <2>3, <3>1, <3>2, <3>3, <4>2
    <3>4. CASE ~(i <= m)
      <4>1. i = m + 1 /\ i - 1 = m
        BY <2>1, <3>1, <3>4
      <4>2. g[i] = 10 * f[m] + digits[m + 1]
        BY <2>3, <3>1, <3>4
      <4> QED BY <3>2, <4>1, <4>2
    <3> QED BY <3>3, <3>4
  <2>7. g[0] = start
    BY <2>1, <2>3, <2>4
  <2>8. Tenfold(g, m + 1, start, digits)
    BY <2>5, <2>6, <2>7 DEF Tenfold
  <2> QED BY <2>8
<1>3. T = Nat
  <2> HIDE DEF T
  <2> QED BY <1>1, <1>2, AllNumbers DEF T
<1>4. n \in T
  BY <1>3
<1> QED BY <1>4

\* The value of a sequence of digits is where that function ends, from 0 on.
LEMMA ValueIs ==
  ASSUME NEW digits \in Seq(Nat), NEW n, n = Len(digits), NEW f, Tenfold(f, n, 0, digits)
  PROVE  Value(digits) = f[n] /\ f[n] \in Nat
<1> DEFINE Follows(g) == g = [i \in 0..Len(digits) |->
                                IF i = 0 THEN 0 ELSE 10 * g[i - 1] + digits[i]]
<1>1. n \in Nat
  BY LenProperties
<1>2. Follows(f)
  <2>1. ASSUME NEW i \in 0..n PROVE f[i] = IF i = 0 THEN 0 ELSE 10 * f[i - 1] + digits[i]
    <3>1. i = 0 \/ i \in 1..n
      BY <1>1
    <3> QED BY <3>1 DEF Tenfold
  <2>2. f = [i \in 0..n |-> f[i]]
    BY DEF Tenfold
  <2> QED BY <2>1, <2>2
<1>3. PICK g : g = CHOOSE h : Follows(h)
  OBVIOUS
<1>4. Follows(g)
  <2> HIDE DEF Follows
  <2> QED BY <1>2, <1>3
<1>5. Value(digits) = g[n]
  BY <1>3 DEF Value
<1> DEFINE T == {i \in Nat : i <= n => g[i] = f[i]}
<1>6. 0 \in T
  BY <1>1, <1>4 DEF Tenfold
<1>7. ASSUME NEW i \in T PROVE i + 1 \in T
  <2> SUFFICES ASSUME i + 1 <= n PROVE g[i + 1] = f[i + 1]
    OBVIOUS
  <2>1. /\ i + 1 \in 0..n /\ i + 1 \in 1..n /\ i + 1 # 0 /\ (i + 1) - 1 = i /\ g[i] = f[i]
    BY <1>1
  <2>2. g[i + 1] = 10 * g[(i + 1) - 1] + digits[i + 1]
    BY <1>4, <2>1
  <2>3. f[i + 1] = 10 * f[(i + 1) - 1] + digits[i + 1]
    BY <2>1 DEF Tenfold
  <2> QED BY <2>1, <2>2, <2>3
<1>8. T = Nat
  <2> HIDE DEF T
  <2> QED BY <1>6, <1>7, AllNumbers DEF T
<1>9. n \in T
  BY <1>1, <1>8
<1>10. f[n] \in Nat
  BY <1>1 DEF Tenfold
<1> QED BY <1>1, <1>5, <1>9, <1>10

\* A power of ten is where it ends from 1 on, when every digit is 0.
LEMMA PowerIs ==
  ASSUME NEW n \in Nat, NEW f, Tenfold(f, n, 1, [i \in 1..n |-> 0])
  PROVE  PowerOfTen(n) = f[n] /\ f[n] \in Nat
<1> DEFINE Follows(g) == g = [i \in 0..n |-> IF i = 0 THEN 1 ELSE 10 * g[i - 1]]
<1>1. /\ f \in [0..n -> Nat] /\ f[0] = 1
      /\ \A i \in 1..n : f[i] = 10 * f[i - 1]
  <2>1. ASSUME NEW i \in 1..n PROVE f[i] = 10 * f[i - 1]
    <3>1. f[i] = 10 * f[i - 1] + 0
      BY DEF Tenfold
    <3>2. f[i - 1] \in Nat
      BY DEF Tenfold
    <3> QED BY <3>1, <3>2
  <2> QED BY <2>1 DEF Tenfold
<1>2. Follows(f)
  <2>1. ASSUME NEW i \in 0..n PROVE f[i] = IF i = 0 THEN 1 ELSE 10 * f[i - 1]
    <3>1. i = 0 \/ i \in 1..n
      OBVIOUS
    <3> QED BY <1>1, <3>1
  <2>2. f = [i \in 0..n |-> f[i]]
    BY <1>1
  <2> QED BY <2>1, <2>2
<1>3. PICK g : g = CHOOSE h : Follows(h)
  OBVIOUS
<1>4. Follows(g)
  <2> HIDE DEF Follows
  <2> QED BY <1>2, <1>3
<1>5. PowerOfTen(n) = g[n]
  BY <1>3 DEF PowerOfTen
<1> DEFINE T == {i \in Nat : i <= n => g[i] = f[i]}
<1>6. 0 \in T
  BY <1>1, <1>4
<1>7. ASSUME NEW i \in T PROVE i + 1 \in T
  <2> SUFFICES ASSUME i + 1 <= n PROVE g[i + 1] = f[i + 1]
    OBVIOUS
  <2>1. /\ i + 1 \in 0..n /\ i + 1 \in 1..n /\ i + 1 # 0 /\ (i + 1) - 1 = i /\ g[i] = f[i]
    OBVIOUS
  <2>2. g[i + 1] = 10 * g[(i + 1) - 1]
    BY <1>4, <2>1
  <2>3. f[i + 1] = 10 * f[(i + 1) - 1]
    BY <1>1, <2>1
  <2> QED BY <2>1, <2>2, <2>3
<1>8. T = Nat
  <2> HIDE DEF T
  <2> QED BY <1>6, <1>7, AllNumbers DEF T
<1>9. n \in T
  BY <1>8
<1>10. f[n] \in Nat
  BY <1>1
<1> QED BY <1>5, <1>9, <1>10

\* Powers of ten.
LEMMA Powers ==
  /\ PowerOfTen(0) = 1
  /\ \A k \in Nat : PowerOfTen(k) \in Nat /\ PowerOfTen(k) >= 1
                    /\ PowerOfTen(k + 1) = 10 * PowerOfTen(k)
<1>1. ASSUME NEW k \in Nat
      PROVE  PowerOfTen(k) \in Nat /\ PowerOfTen(k + 1) = 10 * PowerOfTen(k)
  <2>1. PICK f : Tenfold(f, k + 1, 1, [i \in 1..(k + 1) |-> 0])
    <3>1. k + 1 \in Nat /\ 1 \in Nat /\ [i \in 1..(k + 1) |-> 0] \in [1..(k + 1) -> Nat]
      OBVIOUS
    <3> QED BY <3>1, TenfoldExists
  <2>2. PowerOfTen(k + 1) = f[k + 1]
    <3>1. k + 1 \in Nat
      OBVIOUS
    <3> QED BY <2>1, <3>1, PowerIs
  <2>3. PICK g : g = [i \in 0..k |-> f[i]]
    OBVIOUS
  <2>4. Tenfold(g, k, 1, [i \in 1..k |-> 0])
    <3>1. /\ f \in [0..(k + 1) -> Nat] /\ f[0] = 1
          /\ \A i \in 1..(k + 1) : f[i] = 10 * f[i - 1] + [j \in 1..(k + 1) |-> 0][i]
      BY <2>1 DEF Tenfold
    <3>2. g \in [0..k -> Nat] /\ g[0] = 1
      BY <2>3, <3>1
    <3>3. ASSUME NEW i \in 1..k PROVE g[i] = 10 * g[i - 1] + [j \in 1..k |-> 0][i]
      <4>1. i \in 1..(k + 1) /\ i \in 0..k /\ i - 1 \in 0..k
        OBVIOUS
      <4>2. f[i] = 10 * f[i - 1] + [j \in 1..(k + 1) |-> 0][i]
        BY <3>1, <4>1
      <4> QED BY <2>3, <4>1, <4>2
    <3> QED BY <3>2, <3>3 DEF Tenfold
  <2>5. PowerOfTen(k) = g[k] /\ g[k] \in Nat
    BY <2>4, PowerIs
  <2>6. f[k + 1] = 10 * f[k] + 0
    <3>1. k + 1 \in 1..(k + 1) /\ (k + 1) - 1 = k
      OBVIOUS
    <3>2. f[k + 1] = 10 * f[(k + 1) - 1] + [i \in 1..(k + 1) |-> 0][k + 1]
      BY <2>1, <3>1 DEF Tenfold
    <3> QED BY <3>1, <3>2
  <2>7. g[k] = f[k]
    BY <2>3
  <2> QED BY <2>2, <2>5, <2>6, <2>7
<1>2. PowerOfTen(0) = 1
  <2>1. PICK f : f = [i \in 0..0 |-> 1]
    OBVIOUS
  <2>2. Tenfold(f, 0, 1, [i \in 1..0 |-> 0])
    BY <2>1 DEF Tenfold
  <2>3. PowerOfTen(0) = f[0]
    BY <2>2, PowerIs
  <2> QED BY <2>1, <2>3
<1> DEFINE T == {k \in Nat : PowerOfTen(k) >= 1}
<1>3. T = Nat
  <2>1. 0 \in T
    BY <1>2
  <2>2. ASSUME NEW k \in T PROVE k + 1 \in T
    <3>1. PICK p, q : p = PowerOfTen(k) /\ q = PowerOfTen(k + 1)
      OBVIOUS
    <3>2. p \in Nat /\ p >= 1 /\ q = 10 * p /\ k \in Nat
      BY <1>1, <3>1
    <3>3. q >= 1 /\ k + 1 \in Nat
      BY <3>2
    <3> QED BY <3>1, <3>3
  <2> HIDE DEF T
  <2> QED BY <2>1, <2>2, AllNumbers DEF T
<1> QED BY <1>1, <1>2, <1>3

\* The power of a sum is the product of the powers.
LEMMA PowerAdds ==
  ASSUME NEW j \in Nat, NEW k \in Nat
  PROVE  PowerOfTen(j + k) = PowerOfTen(j) * PowerOfTen(k)
<1> DEFINE T == {i \in Nat : PowerOfTen(j + i) = PowerOfTen(j) * PowerOfTen(i)}
<1>1. 0 \in T
  <2>1. j + 0 = j /\ PowerOfTen(j) \in Nat
    BY Powers
  <2>2. PowerOfTen(j) * 1 = PowerOfTen(j)
    BY <2>1
  <2> QED BY <2>1, <2>2, Powers
<1>2. ASSUME NEW i \in T PROVE i + 1 \in T
  <2>1. PICK p, q, r : p = PowerOfTen(j) /\ q = PowerOfTen(i) /\ r = PowerOfTen(j + i)
    OBVIOUS
  <2>2. p \in Nat /\ q \in Nat /\ r \in Nat /\ r = p * q /\ i \in Nat /\ j + i \in Nat
    BY <2>1, Powers
  <2>3. PowerOfTen(i + 1) = 10 * q /\ PowerOfTen((j + i) + 1) = 10 * r
    BY <2>1, <2>2, Powers
  <2>4. 10 * (p * q) = p * (10 * q)
    BY <2>2
  <2>5. j + (i + 1) = (j + i) + 1 /\ i + 1 \in Nat
    BY <2>2
  <2> QED BY <2>1, <2>2, <2>3, <2>4, <2>5
<1>3. T = Nat
  <2> HIDE DEF T
  <2> QED BY <1>1, <1>2, AllNumbers DEF T
<1> QED BY <1>3

LEMMA PowerGrows ==
  ASSUME NEW j \in Nat, NEW k \in Nat, j <= k
  PROVE  PowerOfTen(j) <= PowerOfTen(k)
<1>1. k - j \in Nat /\ j + (k - j) = k
  OBVIOUS
<1>2. PICK p, q : p = PowerOfTen(j) /\ q = PowerOfTen(k - j)
  OBVIOUS
<1>3. p \in Nat /\ q \in Nat /\ q >= 1
  BY <1>1, <1>2, Powers
<1>4. PowerOfTen(k) = p * q
  BY <1>1, <1>2, PowerAdds
<1>5. p <= p * q
  BY <1>3
<1> QED BY <1>2, <1>4, <1>5

\* Digits after digits: the value of the first is scaled by the number of the others.
LEMMA ValueOfConcatenation ==
  ASSUME NEW a \in Seq(Nat), NEW b \in Seq(Nat)
  PROVE  /\ Value(a \o b) = Value(a) * PowerOfTen(Len(b)) + Value(b)
         /\ Value(a) \in Nat /\ Value(b) \in Nat
<1>1. PICK m, n : m = Len(a) /\ n = Len(b)
  OBVIOUS
<1>2. m \in Nat /\ n \in Nat /\ a \in [1..m -> Nat] /\ b \in [1..n -> Nat]
  BY <1>1, LenProperties
<1>3. PICK f : Tenfold(f, m, 0, a)
  BY <1>2, TenfoldExists
<1>4. PICK g : Tenfold(g, n, 0, b)
  BY <1>2, TenfoldExists
<1>5. Value(a) = f[m] /\ f[m] \in Nat /\ Value(b) = g[n] /\ g[n] \in Nat
  BY <1>1, <1>3, <1>4, ValueIs
<1>6. PICK c : c = a \o b
  OBVIOUS
<1>7. /\ c \in Seq(Nat) /\ Len(c) = m + n
      /\ \A i \in 1..(m + n) : c[i] = IF i <= m THEN a[i] ELSE b[i - m]
  BY <1>1, <1>6, ConcatProperties
<1>8. PICK v : v = f[m] /\ v \in Nat
  BY <1>5
<1>9. PICK h : h = [i \in 0..(m + n) |->
                      IF i <= m THEN f[i] ELSE v * PowerOfTen(i - m) + g[i - m]]
  OBVIOUS
<1>10. f \in [0..m -> Nat] /\ f[0] = 0 /\ g \in [0..n -> Nat] /\ g[0] = 0
  BY <1>3, <1>4 DEF Tenfold
<1>11. Tenfold(h, m + n, 0, c)
  <2>1. ASSUME NEW i \in 0..(m + n)
        PROVE  (IF i <= m THEN f[i] ELSE v * PowerOfTen(i - m) + g[i - m]) \in Nat
    <3>1. CASE i <= m
      <4>1. i \in 0..m
        BY <1>2, <3>1
      <4> QED BY <1>10, <3>1, <4>1
    <3>2. CASE ~(i <= m)
      <4>1. i - m \in 0..n /\ i - m \in Nat
        BY <1>2, <3>2
      <4>2. PICK p, q : p = PowerOfTen(i - m) /\ q = g[i - m]
        OBVIOUS
      <4>3. p \in Nat /\ q \in Nat
        BY <1>10, <4>1, <4>2, Powers
      <4>4. v * p \in Nat
        BY <1>8, <4>3
      <4>5. v * p + q \in Nat
        BY <1>8, <4>3, <4>4
      <4> QED BY <3>2, <4>2, <4>5
    <3> QED BY <3>1, <3>2
  <2>2. h \in [0..(m + n) -> Nat]
    BY <1>9, <2>1
  <2>3. h[0] = 0
    BY <1>2, <1>9, <1>10
  <2>4. ASSUME NEW i \in 1..(m + n) PROVE h[i] = 10 * h[i - 1] + c[i]
    <3>1. i \in 0..(m + n) /\ i - 1 \in 0..(m + n) /\ i \in Nat
      BY <1>2
    <3>2. CASE i <= m
      <4>1. i \in 1..m /\ i - 1 <= m
        BY <1>2, <3>1, <3>2
      <4>2. f[i] = 10 * f[i - 1] + a[i]
        BY <1>3, <4>1 DEF Tenfold
      <4>3. h[i] = f[i] /\ h[i - 1] = f[i - 1] /\ c[i] = a[i]
        BY <1>7, <1>9, <3>1, <3>2, <4>1
      <4> QED BY <4>2, <4>3
    <3>3. CASE ~(i <= m)
      <4>1. PICK j : j = i - m
        OBVIOUS
      <4>2. j \in 1..n /\ j - 1 \in Nat /\ j \in Nat /\ (j - 1) + 1 = j /\ j - 1 \in 0..n
        BY <1>2, <3>1, <3>3, <4>1
      <4>3. g[j] = 10 * g[j - 1] + b[j]
        BY <1>4, <4>2 DEF Tenfold
      <4>4. PICK p, q : p = PowerOfTen(j - 1) /\ q = g[j - 1]
        OBVIOUS
      <4>5. p \in Nat /\ q \in Nat /\ PowerOfTen(j) = 10 * p
        BY <1>10, <4>2, <4>4, Powers
      <4>6. h[i] = v * (10 * p) + g[j]
        BY <1>9, <3>1, <3>3, <4>1, <4>5
      <4>7. h[i - 1] = v * p + q
        <5>1. CASE j = 1
          <6>1. i - 1 = m /\ i - 1 <= m
            BY <1>2, <3>1, <4>1, <5>1
          <6>2. h[i - 1] = v
            BY <1>8, <1>9, <3>1, <6>1
          <6>3. p = 1 /\ q = 0
            BY <1>10, <4>4, <5>1, Powers
          <6>4. v * 1 + 0 = v
            BY <1>8
          <6> QED BY <6>2, <6>3, <6>4
        <5>2. CASE j # 1
          <6>1. ~(i - 1 <= m) /\ (i - 1) - m = j - 1
            BY <1>2, <3>1, <4>1, <4>2, <5>2
          <6>2. h[i - 1] = v * PowerOfTen((i - 1) - m) + g[(i - 1) - m]
            BY <1>9, <3>1, <6>1
          <6> QED BY <4>4, <6>1, <6>2
        <5> QED BY <5>1, <5>2
      <4>8. c[i] = b[j]
        BY <1>7, <3>3, <4>1
      <4>9. PICK d : d = b[j] /\ d \in Nat
        BY <1>2, <4>2
      <4>10. v * (10 * p) + (10 * q + d) = 10 * (v * p + q) + d
        <5>1. v * (10 * p) = 10 * (v * p) /\ v * p \in Nat
          BY <1>8, <4>5
        <5> QED BY <4>5, <4>9, <5>1
      <4> QED BY <4>3, <4>4, <4>6, <4>7, <4>8, <4>9, <4>10
    <3> QED BY <3>2, <3>3
  <2> QED BY <2>2, <2>3, <2>4 DEF Tenfold
<1>12. Value(c) = h[m + n]
  BY <1>2, <1>7, <1>11, ValueIs
<1>13. h[m + n] = v * PowerOfTen(n) + g[n]
  <2>1. m + n \in 0..(m + n)
    BY <1>2
  <2>2. CASE n = 0
    <3>1. m + n <= m /\ m + n = m
      BY <1>2, <2>2
    <3>2. h[m + n] = v
      BY <1>8, <1>9, <2>1, <3>1
    <3>3. v * 1 + 0 = v
      BY <1>8
    <3> QED BY <1>10, <2>2, <3>2, <3>3, Powers
  <2>3. CASE n # 0
    <3>1. ~(m + n <= m) /\ (m + n) - m = n
      BY <1>2, <2>3
    <3> QED BY <1>9, <2>1, <3>1
  <2> QED BY <2>2, <2>3
<1> QED BY <1>1, <1>5, <1>6, <1>8, <1>12, <1>13

\* Digits that are all 0 are worth 0.
LEMMA ValueOfZeros ==
  ASSUME NEW a \in Seq(Nat), \A i \in 1..Len(a) : a[i] = 0
  PROVE  Value(a) = 0
<1>1. PICK m : m = Len(a)
  OBVIOUS
<1>2. m \in Nat /\ a \in [1..m -> Nat]
  BY <1>1, LenProperties
<1>3. PICK f : f = [i \in 0..m |-> 0]
  OBVIOUS
<1>4. Tenfold(f, m, 0, a)
  <2>1. ASSUME NEW i \in 1..m PROVE f[i] = 10 * f[i - 1] + a[i]
    <3>1. i \in 0..m /\ i - 1 \in 0..m /\ a[i] = 0
      BY <1>1, <1>2
    <3> QED BY <1>3, <3>1
  <2> QED BY <1>2, <1>3, <2>1 DEF Tenfold
<1>5. f[m] = 0
  BY <1>2, <1>3
<1> QED BY <1>1, <1>4, <1>5, ValueIs

\* Digits are worth less than one more digit.
LEMMA ValueOfDigits ==
  ASSUME NEW a \in Seq(0..9)
  PROVE  Value(a) \in Nat /\ Value(a) < PowerOfTen(Len(a))
<1>1. PICK m : m = Len(a)
  OBVIOUS
<1>2. m \in Nat /\ a \in [1..m -> 0..9]
  BY <1>1, LenProperties
<1>3. a \in [1..m -> Nat] /\ a \in Seq(Nat)
  BY <1>1, <1>2
<1>4. PICK f : Tenfold(f, m, 0, a)
  BY <1>2, <1>3, TenfoldExists
<1>5. Value(a) = f[m] /\ f[m] \in Nat
  BY <1>1, <1>3, <1>4, ValueIs
<1> DEFINE T == {i \in Nat : i <= m => f[i] < PowerOfTen(i)}
<1>6. 0 \in T
  <2>1. f[0] = 0
    BY <1>4 DEF Tenfold
  <2>2. f[0] < PowerOfTen(0)
    BY <2>1, Powers
  <2> QED BY <2>2
<1>7. ASSUME NEW i \in T PROVE i + 1 \in T
  <2> SUFFICES ASSUME i + 1 <= m PROVE f[i + 1] < PowerOfTen(i + 1)
    OBVIOUS
  <2>1. i \in Nat /\ i + 1 \in 1..m /\ (i + 1) - 1 = i /\ i \in 0..m /\ f[i] < PowerOfTen(i)
    BY <1>2
  <2>2. f[i + 1] = 10 * f[i] + a[i + 1]
    <3>1. f[i + 1] = 10 * f[(i + 1) - 1] + a[i + 1]
      BY <1>4, <2>1 DEF Tenfold
    <3> QED BY <2>1, <3>1
  <2>3. PICK v, p, d : v = f[i] /\ p = PowerOfTen(i) /\ d = a[i + 1]
    OBVIOUS
  <2>4. v \in Nat /\ p \in Nat /\ d \in 0..9 /\ v < p
    BY <1>2, <1>4, <2>1, <2>3, Powers DEF Tenfold
  <2>5. PowerOfTen(i + 1) = 10 * p
    BY <2>1, <2>3, Powers
  <2>6. 10 * v + d < 10 * p
    BY <2>4
  <2> QED BY <2>2, <2>3, <2>5, <2>6
<1>8. T = Nat
  <2> HIDE DEF T
  <2> QED BY <1>6, <1>7, AllNumbers DEF T
<1>9. m \in T
  BY <1>2, <1>8
<1> QED BY <1>1, <1>2, <1>5, <1>9

\* A quotient is what bounds the number from below and, with one more, from above.
LEMMA QuotientIs ==
  ASSUME NEW n \in Nat, NEW p \in Nat, p >= 1, NEW q \in Nat, q * p <= n, n < q * p + p
  PROVE  n \div p = q
<1>1. PICK r : r = n \div p
  OBVIOUS
<1>2. r \in Nat /\ r * p <= n /\ n < r * p + p
  BY <1>1, SMTT(30)
<1>3. r * p \in Nat /\ q * p \in Nat
  BY <1>2
<1>4. ~(r < q)
  <2> SUFFICES ASSUME r < q PROVE FALSE
    OBVIOUS
  <2>1. PICK s \in Nat : q = r + 1 + s
    <3>1. q - r - 1 \in Nat /\ q = r + 1 + (q - r - 1)
      BY <1>2
    <3> QED BY <3>1
  <2>2. q * p = r * p + p + s * p
    BY <1>2, <2>1
  <2>3. s * p \in Nat
    OBVIOUS
  <2> QED BY <1>2, <1>3, <2>2, <2>3
<1>5. ~(q < r)
  <2> SUFFICES ASSUME q < r PROVE FALSE
    OBVIOUS
  <2>1. PICK s \in Nat : r = q + 1 + s
    <3>1. r - q - 1 \in Nat /\ r = q + 1 + (r - q - 1)
      BY <1>2
    <3> QED BY <3>1
  <2>2. r * p = q * p + p + s * p
    BY <1>2, <2>1
  <2>3. s * p \in Nat
    OBVIOUS
  <2> QED BY <1>2, <1>3, <2>2, <2>3
<1> QED BY <1>1, <1>2, <1>4, <1>5

\* A tenth of a quotient, and the digit that it leaves.
LEMMA TenthOfQuotient ==
  ASSUME NEW n \in Nat, NEW p \in Nat, p >= 1
  PROVE  /\ n \div p \in Nat /\ n \div (10 * p) \in Nat
         /\ (n \div p) % 10 \in 0..9
         /\ n \div p = 10 * (n \div (10 * p)) + ((n \div p) % 10)
<1>1. PICK q : q = n \div p
  OBVIOUS
<1>2. q \in Nat /\ q * p <= n /\ n < q * p + p
  BY <1>1, SMTT(30)
<1>3. PICK t, d : t = q \div 10 /\ d = q % 10
  OBVIOUS
<1>4. t \in Nat /\ d \in 0..9 /\ q = 10 * t + d
  BY <1>2, <1>3
<1>5. PICK m : m = 10 * p
  OBVIOUS
<1>6. m \in Nat /\ m >= 1 /\ t * m \in Nat
  BY <1>4, <1>5
<1>7. q * p = t * m + d * p
  BY <1>4, <1>5
<1>8. d * p \in Nat /\ d * p <= 9 * p /\ m = 9 * p + p
  BY <1>4, <1>5
<1>9. t * m <= n
  BY <1>2, <1>6, <1>7, <1>8
<1>10. n < t * m + m
  BY <1>2, <1>6, <1>7, <1>8
<1>11. n \div m = t
  BY <1>4, <1>6, <1>9, <1>10, QuotientIs
<1>12. n \div (10 * p) = t
  BY <1>5, <1>11
<1>13. (n \div p) % 10 = d
  BY <1>1, <1>3
<1> QED BY <1>1, <1>2, <1>4, <1>12, <1>13

\* The digits of a number, that many of them, are worth the number.
LEMMA ValueOfNumber ==
  ASSUME NEW l \in Nat, NEW n \in Nat, n < PowerOfTen(l),
         NEW a, a = [i \in 1..l |-> (n \div PowerOfTen(l - i)) % 10]
  PROVE  a \in Seq(0..9) /\ Len(a) = l /\ Value(a) = n
<1>1. ASSUME NEW i \in 1..l
      PROVE  /\ n \div PowerOfTen(l - i) \in Nat /\ n \div PowerOfTen(l - (i - 1)) \in Nat
             /\ a[i] \in 0..9
             /\ n \div PowerOfTen(l - i) = 10 * (n \div PowerOfTen(l - (i - 1))) + a[i]
  <2>1. l - i \in Nat /\ l - (i - 1) = (l - i) + 1
    OBVIOUS
  <2>2. PICK p : p = PowerOfTen(l - i)
    OBVIOUS
  <2>3. p \in Nat /\ p >= 1 /\ PowerOfTen(l - (i - 1)) = 10 * p
    BY <2>1, <2>2, Powers
  <2>4. a[i] = (n \div p) % 10
    BY <2>2
  <2>5. /\ n \div p \in Nat /\ n \div (10 * p) \in Nat /\ (n \div p) % 10 \in 0..9
        /\ n \div p = 10 * (n \div (10 * p)) + ((n \div p) % 10)
    BY <2>3, TenthOfQuotient
  <2>6. n \div PowerOfTen(l - i) = n \div p
    BY <2>2
  <2>7. n \div PowerOfTen(l - (i - 1)) = n \div (10 * p)
    BY <2>3
  <2> QED BY <2>4, <2>5, <2>6, <2>7
<1>2. a \in [1..l -> 0..9]
  BY <1>1
<1>3. a \in Seq(0..9) /\ Len(a) = l
  BY <1>2
<1>4. a \in Seq(Nat)
  BY <1>2, <1>3
<1>5. PICK g : g = [i \in 0..l |-> n \div PowerOfTen(l - i)]
  OBVIOUS
<1>6. g[0] = 0
  <2>1. PICK p : p = PowerOfTen(l)
    OBVIOUS
  <2>2. p \in Nat /\ p >= 1 /\ n < p /\ 0 * p = 0
    BY <2>1, Powers
  <2>3. n \div p = 0
    <3>1. 0 \in Nat /\ 0 * p <= n /\ n < 0 * p + p
      BY <2>2
    <3> QED BY <2>2, <3>1, QuotientIs
  <2>4. g[0] = n \div PowerOfTen(l - 0) /\ l - 0 = l
    BY <1>5
  <2> QED BY <2>1, <2>3, <2>4
<1>7. g[l] = n
  <2>1. g[l] = n \div PowerOfTen(l - l) /\ l - l = 0
    BY <1>5
  <2>2. n \div 1 = n
    OBVIOUS
  <2> QED BY <2>1, <2>2, Powers
<1>8. Tenfold(g, l, 0, a)
  <2>1. ASSUME NEW i \in 0..l PROVE n \div PowerOfTen(l - i) \in Nat
    <3>1. CASE i = 0
      <4>1. g[0] = n \div PowerOfTen(l - 0)
        BY <1>5
      <4> QED BY <1>6, <3>1, <4>1
    <3>2. CASE i # 0
      BY <1>1, <3>2
    <3> QED BY <3>1, <3>2
  <2>2. g \in [0..l -> Nat]
    BY <1>5, <2>1
  <2>3. ASSUME NEW i \in 1..l PROVE g[i] = 10 * g[i - 1] + a[i]
    <3>1. i \in 0..l /\ i - 1 \in 0..l
      OBVIOUS
    <3>2. g[i] = n \div PowerOfTen(l - i) /\ g[i - 1] = n \div PowerOfTen(l - (i - 1))
      BY <1>5, <3>1
    <3> QED BY <1>1, <3>2
  <2> QED BY <1>6, <2>2, <2>3 DEF Tenfold
<1>9. Value(a) = g[l]
  BY <1>3, <1>4, <1>8, ValueIs
<1> QED BY <1>3, <1>7, <1>9

\* What formatAmount takes apart: at least so many digits, worth the amount.
LEMMA DigitsAre ==
  ASSUME NEW n \in Nat, n < PowerOfTen(MaxDigits), NEW least \in Nat
  PROVE  /\ DigitsOf(n, least) \in Seq(0..9) /\ Len(DigitsOf(n, least)) >= least
         /\ Value(DigitsOf(n, least)) = n
<1>1. PICK S : S = {l \in 1..MaxDigits : n < PowerOfTen(l)}
  OBVIOUS
<1>2. S \in SUBSET Nat /\ MaxDigits \in S /\ MaxDigits \in Nat
  BY <1>1, AmountAssumption
<1>3. PICK m : m = Min(S)
  OBVIOUS
<1>4. m \in S
  BY <1>2, <1>3, MinMember
<1>5. m \in Nat /\ n < PowerOfTen(m)
  BY <1>1, <1>2, <1>4
<1>6. PICK l : l = Max({least, m})
  OBVIOUS
<1>7. l \in {least, m} /\ l >= least /\ l >= m
  <2>1. PICK U : U = {least, m}
    OBVIOUS
  <2>2. least + m \in Nat /\ U \in SUBSET (0..(least + m)) /\ U # {}
    BY <1>5, <2>1
  <2>3. Max(U) \in U /\ \A y \in U : y <= Max(U)
    BY <2>2, MaxMember
  <2> QED BY <1>5, <1>6, <2>1, <2>3
<1>8. l \in Nat /\ n < PowerOfTen(l)
  <2>1. l \in Nat /\ m <= l
    BY <1>5, <1>7
  <2>2. PICK p, q : p = PowerOfTen(m) /\ q = PowerOfTen(l)
    OBVIOUS
  <2>3. p \in Nat /\ q \in Nat /\ p <= q
    BY <1>5, <2>1, <2>2, Powers, PowerGrows
  <2> QED BY <1>5, <2>1, <2>2, <2>3
<1>9. DigitsOf(n, least) = [i \in 1..l |-> (n \div PowerOfTen(l - i)) % 10]
  BY <1>1, <1>3, <1>6 DEF DigitsOf
<1> QED BY <1>7, <1>8, <1>9, ValueOfNumber

\* An amount that is shown can be typed in, and is the same amount again: only
\* zeros at the end of the fraction were left out.
LEMMA ShownIsTyped ==
  ASSUME NEW n \in Nat, n < PowerOfTen(MaxDigits), NEW decimals \in Nat
  PROVE  /\ CanParse(formatAmount(n, decimals), decimals)
         /\ parseAmount(formatAmount(n, decimals), decimals) = n
<1>1. PICK digits : digits = DigitsOf(n, decimals + 1)
  OBVIOUS
<1>2. PICK l : l = Len(digits)
  OBVIOUS
<1>3. digits \in Seq(0..9) /\ l \in Nat /\ l >= decimals + 1 /\ Value(digits) = n
  <2>1. decimals + 1 \in Nat
    OBVIOUS
  <2> QED BY <1>1, <1>2, <2>1, DigitsAre, LenProperties
<1>4. digits \in [1..l -> 0..9]
  BY <1>2, <1>3, LenProperties
<1>5. PICK whole : whole = SubSeq(digits, 1, l - decimals)
  OBVIOUS
<1>6. PICK scaled : scaled = SubSeq(digits, l - decimals + 1, l)
  OBVIOUS
<1>7. /\ whole \in Seq(0..9) /\ Len(whole) = l - decimals
      /\ \A i \in 1..(l - decimals) : whole[i] = digits[i]
  <2>1. PICK k : k = l - decimals
    OBVIOUS
  <2>2. k \in 1..l
    BY <1>3, <2>1
  <2>3. whole = [i \in 1..k |-> digits[i]]
    BY <1>2, <1>3, <1>5, <2>1, <2>2
  <2>4. \A i \in 1..k : digits[i] \in 0..9
    BY <1>3, <1>4, <2>2
  <2> QED BY <2>1, <2>2, <2>3, <2>4
<1>8. /\ scaled \in Seq(0..9) /\ Len(scaled) = decimals
      /\ \A i \in 1..decimals : scaled[i] = digits[l - decimals + i]
  <2>1. PICK k : k = l - decimals
    OBVIOUS
  <2>2. k \in Nat /\ k + decimals = l /\ l - (k + 1) + 1 = decimals
    BY <1>3, <2>1
  <2>3. /\ scaled \in Seq(0..9) /\ Len(scaled) = decimals
        /\ \A i \in 1..decimals : scaled[i] = digits[(k + 1) + i - 1]
    <3>1. k + 1 \in Int /\ l \in Int /\ \A i \in (k + 1)..l : digits[i] \in 0..9
      BY <1>3, <1>4, <2>2
    <3>2. /\ scaled \in Seq(0..9) /\ Len(scaled) = IF k + 1 <= l THEN l - (k + 1) + 1 ELSE 0
          /\ \A i \in 1..(l - (k + 1) + 1) : scaled[i] = digits[(k + 1) + i - 1]
      BY <1>6, <2>1, <3>1, SubSeqProperties
    <3>3. Len(scaled) = decimals
      BY <1>3, <2>2, <3>2
    <3> QED BY <2>2, <3>2, <3>3
  <2>4. ASSUME NEW i \in 1..decimals PROVE (k + 1) + i - 1 = k + i
    BY <2>2
  <2> QED BY <2>1, <2>3, <2>4
<1>9. PICK S : S = {0} \cup {i \in DOMAIN scaled : scaled[i] # 0}
  OBVIOUS
<1>10. PICK m : m = Max(S)
  OBVIOUS
<1>11. m \in 0..decimals /\ \A i \in 1..decimals : i > m => scaled[i] = 0
  <2>1. DOMAIN scaled = 1..decimals
    BY <1>8, LenProperties
  <2>2. S \in SUBSET (0..decimals) /\ S # {}
    BY <1>9, <2>1
  <2>3. Max(S) \in S /\ \A y \in S : y <= Max(S)
    BY <2>2, MaxMember
  <2>4. ASSUME NEW i \in 1..decimals, i > m PROVE scaled[i] = 0
    BY <1>9, <1>10, <2>1, <2>2, <2>3, <2>4
  <2> QED BY <1>10, <2>2, <2>3, <2>4
<1>12. PICK fraction : fraction = SubSeq(scaled, 1, m)
  OBVIOUS
<1>13. /\ fraction \in Seq(0..9) /\ Len(fraction) = m
       /\ \A i \in 1..m : fraction[i] = scaled[i]
  BY <1>8, <1>11, <1>12
<1>14. PICK text : text = formatAmount(n, decimals)
  OBVIOUS
<1>15. text = [plain |-> TRUE, whole |-> whole, dot |-> fraction # <<>>, fraction |-> fraction]
  BY <1>1, <1>2, <1>5, <1>6, <1>9, <1>10, <1>12, <1>14 DEF formatAmount
<1>16. /\ text.plain = TRUE /\ text.whole = whole /\ text.fraction = fraction
       /\ text.dot = (fraction # <<>>)
  BY <1>15
<1>17. CanParse(text, decimals)
  <2>1. whole # <<>>
    BY <1>3, <1>7
  <2>2. Len(fraction) <= decimals
    BY <1>11, <1>13
  <2>3. AMOUNT_PATTERN(text)
    BY <1>16, <2>1 DEF AMOUNT_PATTERN
  <2> QED BY <1>16, <2>2, <2>3 DEF CanParse
<1>18. FractionPart(text, decimals) = scaled
  <2>1. PICK zeros : zeros = [i \in 1..(decimals - m) |-> 0]
    OBVIOUS
  <2>2. /\ zeros \in Seq(0..9) /\ Len(zeros) = decimals - m
        /\ \A i \in 1..(decimals - m) : zeros[i] = 0
    BY <1>11, <2>1
  <2>3. PICK s : s = fraction \o zeros
    OBVIOUS
  <2>4. FractionPart(text, decimals) = s
    BY <1>13, <1>16, <2>1, <2>3 DEF FractionPart
  <2>5. /\ s \in Seq(0..9) /\ Len(s) = decimals
        /\ \A i \in 1..decimals : s[i] = IF i <= m THEN fraction[i] ELSE zeros[i - m]
    <3>1. /\ s \in Seq(0..9) /\ Len(s) = Len(fraction) + Len(zeros)
          /\ \A i \in 1..(Len(fraction) + Len(zeros)) :
               s[i] = IF i <= Len(fraction) THEN fraction[i] ELSE zeros[i - Len(fraction)]
      BY <1>13, <2>2, <2>3, ConcatProperties
    <3>2. Len(fraction) + Len(zeros) = decimals
      BY <1>11, <1>13, <2>2
    <3> QED BY <1>13, <3>1, <3>2
  <2>6. ASSUME NEW i \in 1..decimals PROVE s[i] = scaled[i]
    <3>1. CASE i <= m
      <4>1. i \in 1..m
        BY <1>11, <3>1
      <4> QED BY <1>13, <2>5, <3>1, <4>1
    <3>2. CASE ~(i <= m)
      <4>1. i - m \in 1..(decimals - m) /\ i > m
        BY <1>11, <3>2
      <4> QED BY <1>11, <2>2, <2>5, <3>2, <4>1
    <3> QED BY <3>1, <3>2
  <2>7. s = scaled
    BY <1>8, <2>5, <2>6, SeqEqual
  <2> QED BY <2>4, <2>7
<1>19. whole \o scaled = digits
  <2>1. PICK s : s = whole \o scaled
    OBVIOUS
  <2>2. /\ s \in Seq(0..9) /\ Len(s) = l
        /\ \A i \in 1..l : s[i] = IF i <= l - decimals THEN whole[i]
                                  ELSE scaled[i - (l - decimals)]
    <3>1. /\ s \in Seq(0..9) /\ Len(s) = Len(whole) + Len(scaled)
          /\ \A i \in 1..(Len(whole) + Len(scaled)) :
               s[i] = IF i <= Len(whole) THEN whole[i] ELSE scaled[i - Len(whole)]
      BY <1>7, <1>8, <2>1, ConcatProperties
    <3>2. Len(whole) + Len(scaled) = l
      BY <1>3, <1>7, <1>8
    <3> QED BY <1>7, <3>1, <3>2
  <2>3. ASSUME NEW i \in 1..l PROVE s[i] = digits[i]
    <3>1. CASE i <= l - decimals
      <4>1. i \in 1..(l - decimals)
        BY <1>3, <3>1
      <4> QED BY <1>7, <2>2, <3>1, <4>1
    <3>2. CASE ~(i <= l - decimals)
      <4>1. PICK j : j = i - (l - decimals)
        OBVIOUS
      <4>2. j \in 1..decimals /\ l - decimals + j = i
        BY <1>3, <3>2, <4>1
      <4> QED BY <1>8, <2>2, <3>2, <4>1, <4>2
    <3> QED BY <3>1, <3>2
  <2>4. s = digits
    BY <1>2, <1>3, <2>2, <2>3, SeqEqual
  <2> QED BY <2>1, <2>4
<1>20. parseAmount(text, decimals) = n
  BY <1>3, <1>16, <1>18, <1>19 DEF parseAmount
<1> QED BY <1>14, <1>17, <1>20

\* What is typed is scaled by the decimals that it does not use, and is an amount
\* that can be shown.
LEMMA TypedIsScaled ==
  ASSUME NEW text \in Texts, NEW decimals \in 0..MAX_TOKEN_DECIMALS, CanParse(text, decimals)
  PROVE  /\ parseAmount(text, decimals) \in Nat
         /\ parseAmount(text, decimals) < PowerOfTen(MaxDigits)
         /\ parseAmount(text, decimals) * PowerOfTen(Len(text.fraction))
              = Value(text.whole \o text.fraction) * PowerOfTen(decimals)
<1>1. PICK whole, fraction : whole = text.whole /\ fraction = text.fraction
  OBVIOUS
<1>2. PICK w, m : w = Len(whole) /\ m = Len(fraction)
  OBVIOUS
<1>3. /\ whole \in Seq(0..9) /\ fraction \in Seq(0..9) /\ w \in Nat /\ m \in Nat /\ m <= decimals
      /\ decimals \in Nat /\ MAX_TOKEN_DECIMALS \in Nat /\ decimals <= MAX_TOKEN_DECIMALS
      /\ MaxDigits \in Nat /\ w + MAX_TOKEN_DECIMALS <= MaxDigits
  <2>1. text \in Text
    BY AmountAssumption
  <2>2. whole \in Seq(0..9) /\ fraction \in Seq(0..9)
    BY <1>1, <2>1 DEF Text
  <2>3. w \in Nat /\ m \in Nat
    BY <1>2, <2>2, LenProperties
  <2>4. m <= decimals
    BY <1>1, <1>2 DEF CanParse
  <2> QED BY <1>1, <1>2, <2>2, <2>3, <2>4, AmountAssumption
<1>4. PICK k : k = decimals - m
  OBVIOUS
<1>5. k \in Nat /\ m + k = decimals
  BY <1>3, <1>4
<1>6. PICK zeros : zeros = [i \in 1..k |-> 0]
  OBVIOUS
<1>7. zeros \in Seq(0..9) /\ Len(zeros) = k /\ \A i \in 1..Len(zeros) : zeros[i] = 0
  BY <1>5, <1>6
<1>8. PICK typed : typed = whole \o fraction
  OBVIOUS
<1>9. typed \in Seq(0..9) /\ Len(typed) = w + m
  BY <1>2, <1>3, <1>8, ConcatProperties
<1>10. PICK s : s = typed \o zeros
  OBVIOUS
<1>11. s \in Seq(0..9) /\ Len(s) = w + decimals
  <2>1. s \in Seq(0..9) /\ Len(s) = Len(typed) + Len(zeros)
    BY <1>7, <1>9, <1>10, ConcatProperties
  <2> QED BY <1>3, <1>5, <1>7, <1>9, <2>1
<1>12. whole \o (fraction \o zeros) = s
  <2>1. PICK t : t = fraction \o zeros
    OBVIOUS
  <2>2. /\ t \in Seq(0..9) /\ Len(t) = m + k
        /\ \A i \in 1..(m + k) : t[i] = IF i <= m THEN fraction[i] ELSE zeros[i - m]
    BY <1>2, <1>3, <1>7, <2>1, ConcatProperties
  <2>3. PICK u : u = whole \o t
    OBVIOUS
  <2>4. /\ u \in Seq(0..9) /\ Len(u) = w + (m + k)
        /\ \A i \in 1..(w + (m + k)) : u[i] = IF i <= w THEN whole[i] ELSE t[i - w]
    <3>1. /\ u \in Seq(0..9) /\ Len(u) = Len(whole) + Len(t)
          /\ \A i \in 1..(Len(whole) + Len(t)) :
               u[i] = IF i <= Len(whole) THEN whole[i] ELSE t[i - Len(whole)]
      BY <1>3, <2>2, <2>3, ConcatProperties
    <3> QED BY <1>2, <2>2, <3>1
  <2>5. /\ \A i \in 1..(w + m) : typed[i] = IF i <= w THEN whole[i] ELSE fraction[i - w]
        /\ \A i \in 1..((w + m) + k) : s[i] = IF i <= w + m THEN typed[i] ELSE zeros[i - (w + m)]
    <3>1. \A i \in 1..(w + m) : typed[i] = IF i <= w THEN whole[i] ELSE fraction[i - w]
      BY <1>2, <1>3, <1>8, ConcatProperties
    <3>2. \A i \in 1..((w + m) + k) : s[i] = IF i <= w + m THEN typed[i] ELSE zeros[i - (w + m)]
      BY <1>7, <1>9, <1>10, ConcatProperties
    <3> QED BY <3>1, <3>2
  <2>6. ASSUME NEW i \in 1..(w + (m + k)) PROVE u[i] = s[i]
    <3>1. i \in 1..((w + m) + k) /\ i \in Nat
      BY <1>3, <1>5
    <3>2. CASE i <= w
      <4>1. i \in 1..(w + m) /\ i <= w + m
        BY <1>3, <3>1, <3>2
      <4> QED BY <2>4, <2>5, <3>1, <3>2, <4>1
    <3>3. CASE ~(i <= w) /\ i <= w + m
      <4>1. i \in 1..(w + m) /\ i - w \in 1..(m + k) /\ i - w <= m
        BY <1>3, <1>5, <3>1, <3>3
      <4> QED BY <2>2, <2>4, <2>5, <3>1, <3>3, <4>1
    <3>4. CASE ~(i <= w) /\ ~(i <= w + m)
      <4>1. i - w \in 1..(m + k) /\ ~(i - w <= m) /\ (i - w) - m = i - (w + m)
        BY <1>3, <1>5, <3>1, <3>4
      <4> QED BY <2>2, <2>4, <2>5, <3>1, <3>4, <4>1
    <3> QED BY <3>2, <3>3, <3>4
  <2>7. Len(u) = Len(s)
    BY <1>3, <1>5, <1>11, <2>4
  <2>8. u = s
    BY <1>3, <1>5, <1>11, <2>4, <2>6, <2>7, SeqEqual
  <2> QED BY <2>1, <2>3, <2>8
<1>13. PICK amount : amount = parseAmount(text, decimals)
  OBVIOUS
<1>14. amount = Value(s)
  BY <1>1, <1>2, <1>4, <1>6, <1>12, <1>13 DEF parseAmount, FractionPart
<1>15. amount \in Nat /\ amount < PowerOfTen(w + decimals)
  BY <1>11, <1>14, ValueOfDigits
<1>16. amount < PowerOfTen(MaxDigits)
  <2>1. PICK p, q : p = PowerOfTen(w + decimals) /\ q = PowerOfTen(MaxDigits)
    OBVIOUS
  <2>2. w + decimals \in Nat /\ w + decimals <= MaxDigits
    BY <1>3
  <2>3. p \in Nat /\ q \in Nat /\ p <= q
    BY <1>3, <2>1, <2>2, Powers, PowerGrows
  <2> QED BY <1>15, <2>1, <2>3
<1>17. PICK v, p, q : v = Value(typed) /\ p = PowerOfTen(k) /\ q = PowerOfTen(m)
  OBVIOUS
<1>18. v \in Nat /\ p \in Nat /\ q \in Nat
  BY <1>3, <1>5, <1>9, <1>17, Powers, ValueOfDigits
<1>19. amount = v * p
  <2>1. typed \in Seq(Nat) /\ zeros \in Seq(Nat)
    BY <1>7, <1>9
  <2>2. Value(zeros) = 0
    BY <1>7, <2>1, ValueOfZeros
  <2>3. Value(s) = Value(typed) * PowerOfTen(Len(zeros)) + Value(zeros)
    BY <1>10, <2>1, ValueOfConcatenation
  <2>4. Value(s) = v * p + 0
    BY <1>7, <1>17, <2>2, <2>3
  <2>5. v * p \in Nat
    BY <1>18
  <2> QED BY <1>14, <2>4, <2>5
<1>20. PowerOfTen(decimals) = q * p
  BY <1>3, <1>5, <1>17, PowerAdds
<1>21. (v * p) * q = v * (q * p)
  BY <1>18
<1>22. amount * PowerOfTen(Len(fraction)) = Value(whole \o fraction) * PowerOfTen(decimals)
  BY <1>2, <1>8, <1>17, <1>19, <1>20, <1>21
<1> QED BY <1>1, <1>13, <1>15, <1>16, <1>22

AmountsSpec == AmountsInit /\ [][AmountsNext]_amountVars

\* What the cache holds is what the token reports, and decimals that are allowed;
\* what was typed and shown last was scaled with what the token reports.
AmountsKept ==
  /\ \A token \in DOMAIN tokenInfoCache :
       /\ tokenInfoCache[token] = ReportedDecimals[token]
       /\ ValidDecimals(tokenInfoCache[token])
  /\ \A e \in parsed :
       LET decimals == ReportedDecimals[e.token] IN
       /\ ValidDecimals(decimals) /\ e.text \in Texts /\ CanParse(e.text, decimals)
       /\ e.amount = parseAmount(e.text, decimals)
       /\ e.normal = formatAmount(e.amount, decimals)
  /\ \A s \in shown :
       LET decimals == ReportedDecimals[s.token] IN
       /\ ValidDecimals(decimals) /\ s.amount \in RawAmounts
       /\ s.text = formatAmount(s.amount, decimals)

LEMMA AmountsStep == AmountsKept /\ [AmountsNext]_amountVars => AmountsKept'
<1> SUFFICES ASSUME AmountsKept, [AmountsNext]_amountVars PROVE AmountsKept'
  OBVIOUS
<1>1. CASE UNCHANGED amountVars
  BY <1>1 DEF AmountsKept, amountVars
<1>2. ASSUME NEW token \in DOMAIN ReportedDecimals, StartRead(token) PROVE AmountsKept'
  BY <1>2 DEF AmountsKept, StartRead
<1>3. ASSUME NEW token \in DOMAIN ReportedDecimals, TokenInfoRead(token) PROVE AmountsKept'
  BY <1>3 DEF AmountsKept, TokenInfoRead, ReadEnds
<1>4. ASSUME NEW token \in DOMAIN ReportedDecimals, TokenInfoFails(token) PROVE AmountsKept'
  BY <1>4 DEF AmountsKept, TokenInfoFails, ReadEnds
<1>5. ASSUME NEW token \in DOMAIN ReportedDecimals, NEW text \in Texts, Enter(token, text)
      PROVE  AmountsKept'
  <2>1. PICK d : d = tokenInfoCache[token]
    OBVIOUS
  <2>2. d = ReportedDecimals[token] /\ ValidDecimals(d) /\ CanParse(text, d)
    BY <1>5, <2>1 DEF AmountsKept, Enter
  <2>3. PICK a : a = parseAmount(text, d)
    OBVIOUS
  <2>4. parsed' = {[token |-> token, text |-> text, amount |-> a, normal |-> formatAmount(a, d)]}
    BY <1>5, <2>1, <2>3 DEF Enter, normaliseAmount
  <2>5. UNCHANGED <<tokenInfoCache, tokenReads, shown>>
    BY <1>5 DEF Enter
  <2> QED BY <2>2, <2>3, <2>4, <2>5 DEF AmountsKept
<1>6. ASSUME NEW token \in DOMAIN ReportedDecimals, NEW n \in RawAmounts, Show(token, n)
      PROVE  AmountsKept'
  <2>1. PICK d : d = tokenInfoCache[token]
    OBVIOUS
  <2>2. d = ReportedDecimals[token] /\ ValidDecimals(d)
    BY <1>6, <2>1 DEF AmountsKept, Show
  <2>3. shown' = {[token |-> token, amount |-> n, text |-> formatAmount(n, d)]}
    BY <1>6, <2>1 DEF Show
  <2>4. UNCHANGED <<tokenInfoCache, tokenReads, parsed>>
    BY <1>6 DEF Show
  <2> QED BY <2>2, <2>3, <2>4 DEF AmountsKept
<1>7. CASE clearTokenInfoCache
  BY <1>7 DEF AmountsKept, clearTokenInfoCache
<1> QED BY <1>1, <1>2, <1>3, <1>4, <1>5, <1>6, <1>7 DEF AmountsNext

\* Whatever is typed for a token, in whatever order readers fill and clear the cache,
\* is sent as that many of its smallest units, and whatever amount is shown is typed
\* in as itself: for every number of decimals and of digits.
THEOREM AmountsAreExact == AmountsSpec => []AmountsExact
<1>1. AmountsInit => AmountsKept
  BY DEF AmountsInit, AmountsKept
<1>2. AmountsKept => AmountsExact
  <2> SUFFICES ASSUME AmountsKept PROVE AmountsExact
    OBVIOUS
  <2>1. ASSUME NEW e \in parsed
        PROVE  LET decimals == ReportedDecimals[e.token] IN
               /\ e.amount * PowerOfTen(Len(e.text.fraction))
                    = Value(e.text.whole \o e.text.fraction) * PowerOfTen(decimals)
               /\ CanParse(e.normal, decimals) /\ parseAmount(e.normal, decimals) = e.amount
    <3>1. PICK d, text, a :
            d = ReportedDecimals[e.token] /\ text = e.text /\ a = e.amount
      OBVIOUS
    <3>2. /\ ValidDecimals(d) /\ text \in Texts /\ CanParse(text, d)
          /\ a = parseAmount(text, d) /\ e.normal = formatAmount(a, d)
      BY <3>1 DEF AmountsKept
    <3>3. d \in 0..MAX_TOKEN_DECIMALS /\ d \in Nat
      BY <3>2, AmountAssumption DEF ValidDecimals
    <3>4. /\ a \in Nat /\ a < PowerOfTen(MaxDigits)
          /\ a * PowerOfTen(Len(text.fraction))
               = Value(text.whole \o text.fraction) * PowerOfTen(d)
      BY <3>2, <3>3, TypedIsScaled
    <3>5. CanParse(e.normal, d) /\ parseAmount(e.normal, d) = a
      BY <3>2, <3>3, <3>4, ShownIsTyped
    <3> QED BY <3>1, <3>4, <3>5
  <2>2. ASSUME NEW s \in shown
        PROVE  LET decimals == ReportedDecimals[s.token] IN
               CanParse(s.text, decimals) /\ parseAmount(s.text, decimals) = s.amount
    <3>1. PICK d, a : d = ReportedDecimals[s.token] /\ a = s.amount
      OBVIOUS
    <3>2. ValidDecimals(d) /\ a \in RawAmounts /\ s.text = formatAmount(a, d)
      BY <3>1 DEF AmountsKept
    <3>3. d \in Nat /\ a \in Nat /\ a < PowerOfTen(MaxDigits)
      BY <3>2, AmountAssumption DEF ValidDecimals
    <3> QED BY <3>1, <3>2, <3>3, ShownIsTyped
  <2> QED BY <2>1, <2>2 DEF AmountsExact
<1> QED BY <1>1, <1>2, AmountsStep, PTL DEF AmountsSpec

-----------------------------------------------------------------------------
(* The factory client.                                                         *)

FactorySpec == FactoryInit /\ [][FactoryNext]_factoryVars

\* The addresses that deployments may have, and the calls of deployInstance.
Addresses == {predictInstanceAddress(salt) : salt \in Salts}
Deployment ==
  [integrator : Integrators, salt : Salts, stage : {"asked", "sending", "returned", "thrown"},
   instanceId : SUBSET Addresses, alreadyDeployed : BOOLEAN,
   transaction : {"none", "pending", "executed", "failed"}]

\* What is known of one call and its transaction, also before either has ended.
DeployKept(call) ==
  /\ call.stage \in {"asked", "sending"} => call.transaction = "none" /\ ~call.alreadyDeployed
  /\ call.alreadyDeployed \/ call.transaction = "executed" =>
       call.instanceId # {} /\ call.instanceId = Found(call.integrator)
  /\ call.transaction = "pending" =>
       call.instanceId = {predictInstanceAddress(call.salt)} /\ ~call.alreadyDeployed

\* InstanceKnown speaks of calls that have returned and transactions that were
\* executed: what every step keeps.
FactoryKept ==
  /\ instances \in [DOMAIN instances -> Addresses]
  /\ deploys \in Seq(Deployment)
  /\ \A k \in DOMAIN deploys : DeployKept(deploys[k])
  /\ \A client \in bound : {client.contractId} = Found(client.integrator)

\* An integrator has one instance, and which it is does not change.
LEMMA FoundIs ==
  ASSUME FactoryKept, NEW i
  PROVE  Found(i) = {} \/ \E id \in Addresses : Found(i) = {id}
<1>1. CASE i \in DOMAIN instances
  BY <1>1 DEF Found, FactoryKept
<1>2. CASE i \notin DOMAIN instances
  BY <1>2 DEF Found
<1> QED BY <1>1, <1>2

\* A step that keeps every instance there is and changes one deployment.
LEMMA DeployChanged ==
  ASSUME FactoryKept, NEW k \in DOMAIN deploys, NEW call \in Deployment,
         deploys' = [deploys EXCEPT ![k] = call], UNCHANGED bound,
         instances' \in [DOMAIN instances' -> Addresses],
         \A i : Found(i) # {} => Found(i)' = Found(i),
         DeployKept(call)'
  PROVE  FactoryKept'
<1>1. deploys' \in Seq(Deployment) /\ DOMAIN deploys' = DOMAIN deploys
  BY DEF FactoryKept
<1>2. ASSUME NEW j \in DOMAIN deploys PROVE DeployKept(deploys[j])'
  <2>1. deploys'[j] = IF j = k THEN call ELSE deploys[j]
    BY DEF FactoryKept
  <2>2. CASE j = k
    BY <2>1, <2>2 DEF DeployKept
  <2>3. CASE j # k
    <3>1. DeployKept(deploys[j])
      BY DEF FactoryKept
    <3> QED BY <2>1, <2>3, <3>1 DEF DeployKept
  <2> QED BY <2>2, <2>3
<1>3. \A client \in bound' : {client.contractId} = Found(client.integrator)'
  <2> SUFFICES ASSUME NEW client \in bound PROVE {client.contractId} = Found(client.integrator)'
    OBVIOUS
  <2>1. {client.contractId} = Found(client.integrator)
    BY DEF FactoryKept
  <2> QED BY <2>1
<1> QED BY <1>1, <1>2, <1>3 DEF FactoryKept

\* Without a change of the instances.
LEMMA DeployOnly ==
  ASSUME FactoryKept, NEW k \in DOMAIN deploys, NEW call \in Deployment,
         deploys' = [deploys EXCEPT ![k] = call], UNCHANGED <<instances, bound>>,
         DeployKept(call)
  PROVE  FactoryKept'
<1>1. DeployKept(call)' /\ \A i : Found(i)' = Found(i)
  BY DEF DeployKept, Found
<1>2. instances' \in [DOMAIN instances' -> Addresses]
  BY DEF FactoryKept
<1> QED BY <1>1, <1>2, DeployChanged

\* Every step of the client, the factory and the network keeps it.
LEMMA FactoryStep == FactoryKept /\ [FactoryNext]_factoryVars => FactoryKept'
<1> SUFFICES ASSUME FactoryKept, [FactoryNext]_factoryVars PROVE FactoryKept'
  OBVIOUS
<1>1. \A k \in DOMAIN deploys : deploys[k] \in Deployment /\ DeployKept(deploys[k])
  BY DEF FactoryKept
<1>2. ASSUME NEW i \in Integrators, forIntegrator(i) PROVE FactoryKept'
  <2>1. PICK found \in getInstance(i) :
          /\ found # {}
          /\ bound' = bound \cup {[integrator |-> i, contractId |-> id] : id \in found}
    BY <1>2 DEF forIntegrator
  <2>2. PICK id : found = {id} /\ Found(i) = {id}
    BY <2>1, FoundIs DEF getInstance
  <2>3. \A x : Found(x)' = Found(x)
    BY <1>2 DEF forIntegrator, Found
  <2>4. \A client \in bound' : {client.contractId} = Found(client.integrator)
    BY <2>1, <2>2 DEF FactoryKept
  <2> QED BY <1>2, <2>3, <2>4 DEF forIntegrator, FactoryKept, DeployKept
<1>3. ASSUME NEW i \in Integrators, NEW salt \in Salts, DeployInstance(i, salt) PROVE FactoryKept'
  <2>1. PICK call \in Deployment :
          /\ deploys' = Append(deploys, call) /\ call.stage = "asked" /\ call.transaction = "none"
          /\ ~call.alreadyDeployed
    <3>1. PICK call : call = [integrator |-> i, salt |-> salt, stage |-> "asked", instanceId |-> {},
                              alreadyDeployed |-> FALSE, transaction |-> "none"]
      OBVIOUS
    <3>2. call \in Deployment /\ call.stage = "asked" /\ call.transaction = "none" /\ ~call.alreadyDeployed
      BY <3>1 DEF Deployment
    <3> QED BY <1>3, <3>1, <3>2 DEF DeployInstance
  <2>2. \A x : Found(x)' = Found(x)
    BY <1>3 DEF DeployInstance, Found
  <2>3. deploys' \in Seq(Deployment) /\ DOMAIN deploys' = DOMAIN deploys \cup {Len(deploys) + 1}
    BY <2>1 DEF FactoryKept
  <2>4. \A j \in DOMAIN deploys' : deploys'[j] = IF j \in DOMAIN deploys THEN deploys[j] ELSE call
    BY <2>1, <2>3 DEF FactoryKept
  <2> QED BY <1>3, <2>1, <2>2, <2>3, <2>4 DEF FactoryKept, DeployInstance, DeployKept
<1>4. ASSUME NEW k \in DOMAIN deploys, LookupAnswered(k) PROVE FactoryKept'
  <2>1. deploys[k].stage = "asked" /\ deploys[k].transaction = "none" /\ ~deploys[k].alreadyDeployed
    BY <1>1, <1>4 DEF LookupAnswered, Deploying, DeployKept
  <2>2. PICK existing \in getInstance(deploys[k].integrator) :
       deploys' = [deploys EXCEPT ![k] =
         IF existing = {} THEN [@ EXCEPT !.stage = "sending"]
         ELSE [@ EXCEPT !.stage = "returned", !.alreadyDeployed = TRUE,
                        !.instanceId = {Existing(deploys[k], existing)}]]
    BY <1>4 DEF LookupAnswered
  <2>3. CASE existing = {}
    <3>1. PICK call \in Deployment :
            /\ call = [deploys[k] EXCEPT !.stage = "sending"]
            /\ call.transaction = "none" /\ ~call.alreadyDeployed
      <4>1. PICK call : call = [deploys[k] EXCEPT !.stage = "sending"]
        OBVIOUS
      <4>2. call \in Deployment
        BY <1>1, <2>1, <4>1 DEF Deployment
      <4>3. /\ call.transaction = "none" /\ ~call.alreadyDeployed
        BY <1>1, <2>1, <4>1 DEF Deployment
      <4> QED BY <4>1, <4>2, <4>3
    <3>2. deploys' = [deploys EXCEPT ![k] = call]
      BY <2>2, <2>3, <3>1
    <3> QED BY <1>4, <3>1, <3>2, DeployOnly DEF DeployKept, LookupAnswered
  <2>4. CASE existing # {}
    <3>1. PICK id \in Addresses : existing = {id} /\ Found(deploys[k].integrator) = {id}
      BY <2>2, <2>4, FoundIs DEF getInstance
    <3>2. Existing(deploys[k], existing) = id
      BY <3>1 DEF Existing
    <3>3. PICK call \in Deployment :
            /\ call = [deploys[k] EXCEPT !.stage = "returned", !.alreadyDeployed = TRUE, !.instanceId = {id}]
            /\ call.transaction = "none" /\ call.instanceId = {id} /\ call.stage = "returned"
            /\ call.integrator = deploys[k].integrator
      <4>1. PICK call : call = [deploys[k] EXCEPT !.stage = "returned", !.alreadyDeployed = TRUE, !.instanceId = {id}]
        OBVIOUS
      <4>2. call \in Deployment
        BY <1>1, <2>1, <4>1 DEF Deployment
      <4>3. /\ call.transaction = "none" /\ call.instanceId = {id} /\ call.stage = "returned"
            /\ call.integrator = deploys[k].integrator
        BY <1>1, <2>1, <4>1 DEF Deployment
      <4> QED BY <4>1, <4>2, <4>3
    <3>4. deploys' = [deploys EXCEPT ![k] = call]
      BY <2>2, <2>4, <3>2, <3>3
    <3> QED BY <1>4, <3>1, <3>3, <3>4, DeployOnly DEF DeployKept, LookupAnswered
  <2> QED BY <2>3, <2>4
<1>5. ASSUME NEW k \in DOMAIN deploys, SendAccepted(k) PROVE FactoryKept'
  <2>1. deploys[k].stage = "sending" /\ ~deploys[k].alreadyDeployed
    BY <1>1, <1>5 DEF SendAccepted, Deploying, DeployKept
  <2>2. predictInstanceAddress(deploys[k].salt) \in Addresses
    BY <1>1 DEF Addresses, Deployment
  <2>3. PICK call \in Deployment :
          /\ call = [deploys[k] EXCEPT !.stage = "returned", !.transaction = "pending",
                        !.instanceId = {predictInstanceAddress(deploys[k].salt)}]
          /\ call.stage = "returned" /\ call.transaction = "pending" /\ ~call.alreadyDeployed
          /\ call.instanceId = {predictInstanceAddress(call.salt)}
    <3>1. PICK call : call = [deploys[k] EXCEPT !.stage = "returned", !.transaction = "pending",
                                !.instanceId = {predictInstanceAddress(deploys[k].salt)}]
      OBVIOUS
    <3>2. call \in Deployment
      BY <1>1, <2>1, <2>2, <3>1 DEF Deployment
    <3>3. /\ call.stage = "returned" /\ call.transaction = "pending" /\ ~call.alreadyDeployed
          /\ call.instanceId = {predictInstanceAddress(call.salt)}
      BY <1>1, <2>1, <2>2, <3>1 DEF Deployment
    <3> QED BY <3>1, <3>2, <3>3
  <2>4. deploys' = [deploys EXCEPT ![k] = call]
    BY <1>1, <1>5, <2>3 DEF SendAccepted, FactoryKept
  <2>5. DeployKept(call) /\ UNCHANGED <<instances, bound>>
    BY <1>5, <2>3 DEF DeployKept, SendAccepted
  <2> QED BY <2>4, <2>5, DeployOnly
<1>6. ASSUME NEW k \in DOMAIN deploys, DeployThrows(k) PROVE FactoryKept'
  <2>1. deploys[k].transaction = "none" /\ ~deploys[k].alreadyDeployed
    BY <1>1, <1>6 DEF DeployThrows, Deploying, DeployKept
  <2>2. PICK call \in Deployment :
          /\ call = [deploys[k] EXCEPT !.stage = "thrown"]
          /\ call.stage = "thrown"
          /\ call.transaction = "none" /\ ~call.alreadyDeployed
    <3>1. PICK call : call = [deploys[k] EXCEPT !.stage = "thrown"]
      OBVIOUS
    <3>2. call \in Deployment
      BY <1>1, <2>1, <3>1 DEF Deployment
    <3>3. /\ call.stage = "thrown"
          /\ call.transaction = "none" /\ ~call.alreadyDeployed
      BY <1>1, <2>1, <3>1 DEF Deployment
    <3> QED BY <3>1, <3>2, <3>3
  <2>3. deploys' = [deploys EXCEPT ![k] = call]
    BY <1>1, <1>6, <2>2 DEF DeployThrows, FactoryKept
  <2> QED BY <1>6, <2>2, <2>3, DeployOnly DEF DeployKept, DeployThrows
<1>7. ASSUME NEW k \in DOMAIN deploys, NEW state \in {"failed", "executed"},
             deploys[k].transaction = "pending", deploys' = [deploys EXCEPT ![k].transaction = state]
      PROVE  \E call \in Deployment :
               /\ deploys' = [deploys EXCEPT ![k] = call] /\ call.transaction = state
               /\ ~call.alreadyDeployed /\ call.stage \notin {"asked", "sending"}
               /\ call.integrator = deploys[k].integrator
               /\ call.instanceId = {predictInstanceAddress(deploys[k].salt)}
  <2>1. PICK call \in Deployment :
          /\ call = [deploys[k] EXCEPT !.transaction = state]
          /\ call.transaction = state
               /\ call.alreadyDeployed = deploys[k].alreadyDeployed /\ call.stage = deploys[k].stage
               /\ call.integrator = deploys[k].integrator /\ call.instanceId = deploys[k].instanceId
    <3>1. PICK call : call = [deploys[k] EXCEPT !.transaction = state]
      OBVIOUS
    <3>2. call \in Deployment
      BY <1>1, <3>1 DEF Deployment
    <3>3. /\ call.transaction = state
               /\ call.alreadyDeployed = deploys[k].alreadyDeployed /\ call.stage = deploys[k].stage
               /\ call.integrator = deploys[k].integrator /\ call.instanceId = deploys[k].instanceId
      BY <1>1, <3>1 DEF Deployment
    <3> QED BY <3>1, <3>2, <3>3
  <2>2. deploys' = [deploys EXCEPT ![k] = call]
    BY <1>1, <1>7, <2>1
  <2>3. ~call.alreadyDeployed /\ call.stage \notin {"asked", "sending"}
        /\ call.instanceId = {predictInstanceAddress(deploys[k].salt)}
    BY <1>1, <1>7, <2>1 DEF DeployKept
  <2> QED BY <2>1, <2>2, <2>3
<1>8. ASSUME NEW k \in DOMAIN deploys, deploys[k].transaction = "pending",
             deploys' = [deploys EXCEPT ![k].transaction = "failed"], UNCHANGED <<instances, bound>>
      PROVE  FactoryKept'
  <2>1. PICK call \in Deployment :
          /\ deploys' = [deploys EXCEPT ![k] = call] /\ call.transaction = "failed"
          /\ ~call.alreadyDeployed /\ call.stage \notin {"asked", "sending"}
    BY <1>7, <1>8
  <2> QED BY <1>8, <2>1, DeployOnly DEF DeployKept
<1>9. ASSUME NEW k \in DOMAIN deploys, deploys[k].transaction = "pending",
             deploys[k].integrator \notin DOMAIN instances,
             deploys' = [deploys EXCEPT ![k].transaction = "executed"],
             instances' = [i \in DOMAIN instances \cup {deploys[k].integrator} |->
                             IF i = deploys[k].integrator
                               THEN predictInstanceAddress(deploys[k].salt) ELSE instances[i]],
             UNCHANGED bound
      PROVE  FactoryKept'
  <2>1. PICK call \in Deployment :
          /\ deploys' = [deploys EXCEPT ![k] = call] /\ call.transaction = "executed"
          /\ ~call.alreadyDeployed /\ call.stage \notin {"asked", "sending"}
          /\ call.integrator = deploys[k].integrator
          /\ call.instanceId = {predictInstanceAddress(deploys[k].salt)}
    BY <1>7, <1>9
  <2>2. \A i : Found(i) # {} => Found(i)' = Found(i)
    BY <1>9 DEF Found
  <2>3. Found(call.integrator)' = {predictInstanceAddress(deploys[k].salt)}
    BY <1>9, <2>1 DEF Found
  <2>4. instances' \in [DOMAIN instances' -> Addresses]
    <3>1. predictInstanceAddress(deploys[k].salt) \in Addresses
      BY <1>1 DEF Addresses, Deployment
    <3> QED BY <1>9, <3>1 DEF FactoryKept
  <2>5. DeployKept(call)'
    BY <2>1, <2>3 DEF DeployKept
  <2> QED BY <1>9, <2>1, <2>2, <2>4, <2>5, DeployChanged
<1>10. ASSUME NEW k \in DOMAIN deploys, ExecuteDeploy(k) PROVE FactoryKept'
  BY <1>8, <1>9, <1>10 DEF ExecuteDeploy
<1>11. ASSUME NEW k \in DOMAIN deploys, DropDeploy(k) PROVE FactoryKept'
  BY <1>8, <1>11 DEF DropDeploy
<1>12. CASE UNCHANGED factoryVars
  BY <1>12 DEF factoryVars, FactoryKept, DeployKept, Found
<1> QED BY <1>2, <1>3, <1>4, <1>5, <1>6, <1>10, <1>11, <1>12 DEF FactoryNext

\* For any integrators, salts and number of calls: what deployInstance returns as
\* deployed, or deploys, and what forIntegrator builds a client for is the one
\* instance the factory has for that integrator.
THEOREM InstancesAreKnown == FactorySpec => []InstanceKnown
<1>1. FactoryInit => FactoryKept
  BY DEF FactoryInit, FactoryKept
<1>2. FactoryKept => InstanceKnown
  BY DEF FactoryKept, DeployKept, InstanceKnown
<1> QED BY <1>1, <1>2, FactoryStep, PTL DEF FactorySpec
-----------------------------------------------------------------------------
(* The wallet signer.                                                          *)

WalletSpec == WalletInit /\ [][WalletNext]_walletVars

Ask ==
  [method : {"signTransaction", "signAuthEntry"}, network : Networks,
   at : {"checking", "wallet", "returned", "thrown"}, switched : BOOLEAN,
   user : {"undecided", "declined", "approved"},
   outcome : {"none", "unsupported", "mismatch", "signed", "rejected", "failed"},
   signedFor : SUBSET Networks]

\* A wallet that can tell whether it is on the signer's network.
Tells ==
  \/ wallet.getNetwork = "passphrase"
  \/ wallet.getNetwork = "name" /\ signer.networkPassphrase \in NamedNetworks

\* What WalletAskedRightly says of one request.
AskedRightly(ask) ==
  /\ signer.checkNetwork /\ Tells =>
       \A network \in ask.signedFor \ {signer.networkPassphrase} :
         IF wallet.obeys THEN ask.network = network ELSE ask.switched
  /\ ask.user = "declined" => ask.at = "returned" /\ ask.outcome = "rejected"
  /\ ask.outcome = "signed" => ask.user = "approved"

\* It looks at signatures: until there is one, a request the wallet has before it
\* was checked on the signer's network, which only the user can have left since.
AskKept(ask) ==
  /\ AskedRightly(ask)
  /\ ask.at \in {"checking", "wallet"} => ask.signedFor = {} /\ ask.user = "undecided"
  /\ ask.at = "wallet" /\ signer.checkNetwork /\ Tells =>
       ask.switched \/ walletNetwork = signer.networkPassphrase
WalletKept ==
  /\ signer \in WalletsKitSignerOptions /\ wallet \in WalletsKitLike /\ walletNetwork \in Networks
  /\ asks \in Seq(Ask)
  /\ \A k \in DOMAIN asks : AskKept(asks[k])

\* A step that changes one request.
LEMMA AskChanged ==
  ASSUME WalletKept, NEW k \in DOMAIN asks, NEW ask \in Ask, Became(k, ask), AskKept(ask)
  PROVE  WalletKept'
<1>1. UNCHANGED <<signer, wallet, walletNetwork>> /\ asks' = [asks EXCEPT ![k] = ask]
  BY DEF Became
<1>2. asks' \in Seq(Ask) /\ DOMAIN asks' = DOMAIN asks
  BY <1>1 DEF WalletKept
<1>3. \A j \in DOMAIN asks : asks'[j] = IF j = k THEN ask ELSE asks[j]
  BY <1>1 DEF WalletKept
<1>4. \A x : AskKept(x) => AskKept(x)'
  BY <1>1 DEF AskKept, AskedRightly, Tells
<1>5. ASSUME NEW j \in DOMAIN asks PROVE AskKept(asks[j])'
  <2>1. PICK x : x = asks'[j] /\ AskKept(x)
    BY <1>3 DEF WalletKept
  <2>2. AskKept(x)'
    BY <1>4, <2>1
  <2> QED BY <2>1, <2>2 DEF AskKept, AskedRightly
<1> QED BY <1>1, <1>2, <1>5 DEF WalletKept

\* Whatever a wallet throws when its user declines is taken for a refusal.
LEMMA RefusalsAreSeen == \A e \in Refusals : isUserRejection(e)
BY DEF Refusals, isUserRejection, WalletErrors

\* Every step of the signer, the wallet and its user keeps it.
LEMMA WalletStep == WalletKept /\ [WalletNext]_walletVars => WalletKept'
<1> SUFFICES ASSUME WalletKept, [WalletNext]_walletVars PROVE WalletKept'
  OBVIOUS
<1>1. \A k \in DOMAIN asks : asks[k] \in Ask /\ AskKept(asks[k])
  BY DEF WalletKept
<1>2. ASSUME NEW method \in {"signTransaction", "signAuthEntry"}, NEW network \in Networks,
             RequestSignature(method, network)
      PROVE  WalletKept'
  <2>1. PICK fresh : fresh = Fresh(method, network)
    OBVIOUS
  <2>2. /\ fresh \in Ask /\ fresh.at = "checking" /\ fresh.signedFor = {} /\ fresh.user = "undecided"
        /\ fresh.outcome = "none"
    BY <2>1 DEF Fresh, Ask
  <2>3. PICK refused : refused = [fresh EXCEPT !.at = "thrown", !.outcome = "unsupported"]
    OBVIOUS
  <2>4. /\ refused \in Ask /\ refused.at = "thrown" /\ refused.signedFor = {}
        /\ refused.user = "undecided" /\ refused.outcome = "unsupported"
    BY <2>2, <2>3 DEF Ask
  <2>5. PICK ask \in {fresh, refused} : asks' = Append(asks, ask)
    BY <1>2, <2>1, <2>3 DEF RequestSignature
  <2>6. ask \in Ask /\ AskKept(ask)
    BY <2>2, <2>4, <2>5 DEF AskKept, AskedRightly
  <2>7. asks' \in Seq(Ask) /\ DOMAIN asks' = DOMAIN asks \cup {Len(asks) + 1}
    BY <2>5, <2>6 DEF WalletKept
  <2>8. \A j \in DOMAIN asks' : asks'[j] = IF j \in DOMAIN asks THEN asks[j] ELSE ask
    BY <2>5, <2>6, <2>7 DEF WalletKept
  <2>9. UNCHANGED <<signer, wallet, walletNetwork>>
    BY <1>2 DEF RequestSignature
  <2>10. ASSUME NEW j \in DOMAIN asks' PROVE AskKept(asks[j])'
    <3>1. PICK x : x = asks'[j] /\ AskKept(x)
      BY <1>1, <2>6, <2>8
    <3> QED BY <2>9, <3>1 DEF AskKept, AskedRightly, Tells
  <2> QED BY <2>7, <2>9, <2>10 DEF WalletKept
<1>3. ASSUME NEW k \in DOMAIN asks, AssertNetwork(k) PROVE WalletKept'
  <2>1. PICK ask : /\ Became(k, ask)
                   /\ ask = IF signer.checkNetwork /\ Mismatch
                              THEN [asks[k] EXCEPT !.at = "thrown", !.outcome = "mismatch"]
                              ELSE [asks[k] EXCEPT !.at = "wallet"]
    BY <1>3 DEF AssertNetwork
  <2>2. asks[k].at = "checking"
    BY <1>3 DEF AssertNetwork
  <2>3. /\ ask \in Ask /\ ask.signedFor = {} /\ ask.user = "undecided"
        /\ \/ ask.at = "thrown" /\ ask.outcome = "mismatch"
           \/ ask.at = "wallet" /\ ask.outcome = asks[k].outcome /\ ~(signer.checkNetwork /\ Mismatch)
    <3>1. /\ asks[k] \in Ask /\ asks[k].signedFor = {} /\ asks[k].user = "undecided"
      BY <1>1, <2>2 DEF AskKept
    <3>2. CASE ask = [asks[k] EXCEPT !.at = "thrown", !.outcome = "mismatch"]
      <4>1. ask \in Ask
        BY <3>1, <3>2 DEF Ask
      <4>2. ask.signedFor = {} /\ ask.user = "undecided"
        BY <3>1, <3>2 DEF Ask
      <4>3. ask.at = "thrown" /\ ask.outcome = "mismatch"
        BY <3>1, <3>2 DEF Ask
      <4> QED BY <4>1, <4>2, <4>3
    <3>3. CASE ask = [asks[k] EXCEPT !.at = "wallet"] /\ ~(signer.checkNetwork /\ Mismatch)
      BY <3>1, <3>3 DEF Ask
    <3> QED BY <2>1, <3>2, <3>3
  <2>4. asks[k].outcome # "signed"
    BY <1>1, <2>2 DEF AskKept, AskedRightly
  <2>5. signer.checkNetwork /\ Tells /\ ~Mismatch => walletNetwork = signer.networkPassphrase
    BY DEF Tells, Mismatch
  <2>6. AskKept(ask)
    BY <2>3, <2>4, <2>5 DEF AskKept, AskedRightly
  <2> QED BY <2>1, <2>3, <2>6, AskChanged
<1>4. ASSUME NEW k \in DOMAIN asks, Approve(k) PROVE WalletKept'
  <2>1. PICK network \in Networks : network = IF wallet.obeys THEN asks[k].network ELSE walletNetwork
    BY <1>1 DEF WalletKept, Ask
  <2>2. PICK ask : ask = [asks[k] EXCEPT !.at = "returned", !.user = "approved", !.outcome = "signed",
                            !.signedFor = {network}]
    OBVIOUS
  <2>3. Became(k, ask) /\ asks[k].at = "wallet"
    BY <1>4, <2>1, <2>2 DEF Approve
  <2>4. /\ ask \in Ask /\ ask.at = "returned" /\ ask.user = "approved" /\ ask.outcome = "signed"
        /\ ask.signedFor = {network} /\ ask.network = asks[k].network /\ ask.switched = asks[k].switched
    BY <1>1, <2>2 DEF Ask
  <2>5. AskKept(ask)
    BY <1>1, <2>1, <2>3, <2>4 DEF AskKept, AskedRightly
  <2> QED BY <2>3, <2>4, <2>5, AskChanged
<1>5. ASSUME NEW k \in DOMAIN asks, NEW e, NEW user \in {"declined", "undecided"},
             WalletThrows(k, user, e), user = "declined" => isUserRejection(e)
      PROVE  WalletKept'
  <2>1. PICK outcome \in {"rejected", "failed"} :
          outcome = IF isUserRejection(e) THEN "rejected" ELSE "failed"
    OBVIOUS
  <2>2. PICK place \in {"returned", "thrown"} :
          place = IF outcome = "rejected" \/ asks[k].method = "signAuthEntry" THEN "returned" ELSE "thrown"
    OBVIOUS
  <2>3. PICK ask : ask = [asks[k] EXCEPT !.user = user, !.outcome = outcome, !.at = place]
    OBVIOUS
  <2>4. Became(k, ask) /\ asks[k].at = "wallet"
    BY <1>5, <2>1, <2>2, <2>3 DEF WalletThrows
  <2>5. /\ ask \in Ask /\ ask.at = place /\ ask.user = user /\ ask.outcome = outcome
        /\ ask.signedFor = asks[k].signedFor
    BY <1>1, <2>3 DEF Ask
  <2>6. ask.signedFor = {}
    BY <1>1, <2>4, <2>5 DEF AskKept
  <2>7. AskKept(ask)
    BY <1>5, <2>1, <2>2, <2>5, <2>6 DEF AskKept, AskedRightly
  <2> QED BY <2>4, <2>5, <2>7, AskChanged
<1>6. ASSUME NEW network \in Networks, SwitchNetwork(network) PROVE WalletKept'
  <2>1. /\ UNCHANGED <<signer, wallet>> /\ walletNetwork' \in Networks
        /\ asks' = [k \in DOMAIN asks |-> [asks[k] EXCEPT !.switched = @ \/ asks[k].at = "wallet"]]
    BY <1>6 DEF SwitchNetwork
  <2>2. ASSUME NEW k \in DOMAIN asks
        PROVE  asks'[k] \in Ask /\ AskKept(asks[k])'
    <3>1. PICK was \in BOOLEAN : was = (asks[k].switched \/ asks[k].at = "wallet")
      BY Zenon
    <3>2. PICK ask : ask = [asks[k] EXCEPT !.switched = was] /\ asks'[k] = ask
      BY <2>1, <3>1
    <3>3. /\ ask \in Ask /\ ask.at = asks[k].at /\ ask.user = asks[k].user /\ ask.outcome = asks[k].outcome
          /\ ask.signedFor = asks[k].signedFor /\ ask.network = asks[k].network /\ ask.switched = was
      BY <1>1, <3>2 DEF Ask
    <3>4. was <=> asks[k].switched \/ asks[k].at = "wallet"
      BY <3>1
    <3>5. AskKept(asks[k])
      BY <1>1
    <3>6. (ask.switched <=> asks[k].switched \/ ask.at = "wallet")
      BY <3>3, <3>4
    <3>7. AskedRightly(asks[k])'
      <4>1. AskedRightly(asks[k])
        BY <3>5 DEF AskKept
      <4>2. AskedRightly(ask)
        <5>1. ASSUME signer.checkNetwork /\ Tells, NEW other \in ask.signedFor \ {signer.networkPassphrase}
              PROVE  IF wallet.obeys THEN ask.network = other ELSE ask.switched
          <6>1. IF wallet.obeys THEN asks[k].network = other ELSE asks[k].switched
            BY <3>3, <4>1, <5>1 DEF AskedRightly
          <6> QED BY <3>3, <3>6, <6>1, Zenon
        <5>2. /\ ask.user = "declined" => ask.at = "returned" /\ ask.outcome = "rejected"
              /\ ask.outcome = "signed" => ask.user = "approved"
          BY <3>3, <4>1 DEF AskedRightly
        <5> QED BY <5>1, <5>2 DEF AskedRightly
      <4> QED BY <2>1, <3>2, <4>2 DEF AskedRightly, Tells
    <3>8. /\ ask.at \in {"checking", "wallet"} => ask.signedFor = {} /\ ask.user = "undecided"
          /\ ask.at = "wallet" => ask.switched
      BY <3>3, <3>5, <3>6 DEF AskKept
    <3> QED BY <3>2, <3>3, <3>7, <3>8 DEF AskKept
  <2>3. asks' \in Seq(Ask) /\ DOMAIN asks' = DOMAIN asks
    BY <2>1, <2>2 DEF WalletKept
  <2> QED BY <2>1, <2>2, <2>3 DEF WalletKept
<1>7. CASE UNCHANGED walletVars
  BY <1>7 DEF walletVars, WalletKept, AskKept, AskedRightly, Tells
<1> QED BY <1>2, <1>3, <1>4, <1>5, <1>6, <1>7, RefusalsAreSeen DEF WalletNext

\* For any wallet, any networks and any number of requests: with the check on, a
\* wallet that tells where it is signs for another network only if it was asked to
\* or was switched while the request was open; a refusal is never thrown.
THEOREM WalletIsAskedRightly == WalletSpec => []WalletAskedRightly
<1>1. WalletInit => WalletKept
  BY WalletAssumption DEF WalletInit, WalletKept
<1>2. WalletKept => WalletAskedRightly
  BY DEF WalletKept, AskKept, AskedRightly, Tells, WalletAskedRightly
<1> QED BY <1>1, <1>2, WalletStep, PTL DEF WalletSpec
=============================================================================
