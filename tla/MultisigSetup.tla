----------------------------- MODULE MultisigSetup -----------------------------
(* The multisig helper of the SDK (sdk/src/multisig.ts): it validates a policy  *)
(* for a releaser account, builds the one transaction that installs it and       *)
(* compares the account with it.  A transaction built earlier may be submitted   *)
(* later, and the account has other tools that change it.                        *)
EXTENDS Integers, Sequences, FiniteSets, FiniteSetsExt, Totals

CONSTANTS
  Own,                 \* the account's own key, the master key
  Cosigners,           \* other keys
  MAX_WEIGHT,          \* of a signer, and the largest threshold
  Policies,            \* the policies asked for
  OldSignerSets,       \* signers the account may have before
  MaxSetups, MaxSequence

VARIABLES
  onLedger,            \* master key weight, signers and thresholds of the account
  sequence,            \* its sequence number
  setups,              \* the transactions built
  applied,             \* the policy whose setup changed the account last, if one did
  verified             \* the last result of verifyMultisig

multisigVars == <<onLedger, sequence, setups, applied, verified>>

\* What may be asked for. An optional field is a set of at most one value.
MultisigPolicy(p) ==
  /\ Len(p.signers) \in Nat /\ DOMAIN p.signers = 1..Len(p.signers)
  /\ \A s \in Range(p.signers) : s.weight \in Int
  /\ p.threshold \in Int /\ p.removeMasterKey \subseteq BOOLEAN
  /\ \A t \in p.lowThreshold \cup p.mediumThreshold \cup p.highThreshold : t \in Int
ASSUME MultisigAssumption ==
  /\ MAX_WEIGHT \in Nat
  /\ \A old \in OldSignerSets : IsFiniteSet(old)
  /\ \A p \in Policies : MultisigPolicy(p)

Either(option, default) == IF option = {} THEN default ELSE CHOOSE x \in option : TRUE
Thresholds(low, medium, high) == [low |-> low, medium |-> medium, high |-> high]
-----------------------------------------------------------------------------
(* The policy.                                                                 *)

isValidWeight(weight) == weight \in 0..MAX_WEIGHT
isValidThreshold(threshold) == threshold \in 1..MAX_WEIGHT

resolveMultisigPolicy(p) ==
  [weight |-> [key \in {s.key : s \in Range(p.signers)} |->
                 (CHOOSE s \in Range(p.signers) : s.key = key).weight],
   thresholds |-> Thresholds(Either(p.lowThreshold, p.threshold),
                             Either(p.mediumThreshold, p.threshold),
                             Either(p.highThreshold, p.threshold)),
   removeMasterKey |-> Either(p.removeMasterKey, TRUE)]

WellFormed(p) ==
  /\ p.signers # <<>> /\ isValidThreshold(p.threshold)
  /\ \A t \in p.lowThreshold \cup p.mediumThreshold \cup p.highThreshold : isValidThreshold(t)
  /\ \A s \in Range(p.signers) : isValidWeight(s.weight) /\ s.weight # 0
  /\ \A i, j \in DOMAIN p.signers : p.signers[i].key = p.signers[j].key => i = j

SumOf(weight, keys) == Total([key \in keys |-> weight[key]])
NonMaster(policy) == DOMAIN policy.weight \ {Own}
masterKeyWeight(policy) ==
  IF policy.removeMasterKey \/ Own \notin DOMAIN policy.weight THEN 0 ELSE policy.weight[Own]

\* Fault: enough to send payments will do.
LocksOutOfPayments(policy) ==
  SumOf(policy.weight, NonMaster(policy)) + masterKeyWeight(policy) < policy.thresholds.medium
LocksOut(policy) ==
  SumOf(policy.weight, NonMaster(policy)) + masterKeyWeight(policy) < policy.thresholds.high

validateMultisigPolicy(p) ==
  /\ WellFormed(p)
  /\ LET policy == resolveMultisigPolicy(p) t == policy.thresholds IN
     /\ t.low <= t.medium /\ t.medium <= t.high
     /\ ~(policy.removeMasterKey /\ Own \in DOMAIN policy.weight)
     /\ ~LocksOut(policy)
-----------------------------------------------------------------------------
(* The transaction: setOptions operations, each of which writes the thresholds. *)

InstallSigner(policy, key) ==
  [signers |-> {<<key, policy.weight[key]>>}, masterWeight |-> {}, thresholds |-> policy.thresholds]
RemoveMasterKey(policy) == [signers |-> {}, masterWeight |-> {0}, thresholds |-> policy.thresholds]

\* The order of the signers makes no difference: any will do.
SignerOrder(policy) ==
  CHOOSE f \in [1..Cardinality(NonMaster(policy)) -> NonMaster(policy)] : IsInjective(f)
SetupOperations(policy) ==
  [i \in 1..Cardinality(NonMaster(policy)) |-> InstallSigner(policy, SignerOrder(policy)[i])]
    \o IF policy.removeMasterKey THEN <<RemoveMasterKey(policy)>> ELSE <<>>

\* What the caller is told before anything is signed.
dryRunMultisigSetup(policy) ==
  LET remaining == SumOf(policy.weight, NonMaster(policy)) IN
  [remainingWeight |-> remaining, masterKeyWeight |-> masterKeyWeight(policy),
   totalWeight |-> remaining + masterKeyWeight(policy),
   operationCount |-> Cardinality(NonMaster(policy)) + IF policy.removeMasterKey THEN 1 ELSE 0]

buildMultisigSetup(p) ==
  /\ validateMultisigPolicy(p) /\ Cardinality(setups) < MaxSetups
  /\ LET policy == resolveMultisigPolicy(p) IN
     setups' = setups \cup
       {[policy |-> p, dryRun |-> dryRunMultisigSetup(policy),
         operations |-> SetupOperations(policy), sequence |-> sequence]}
  /\ UNCHANGED <<onLedger, sequence, applied, verified>>

Named(op) == {s[1] : s \in op.signers}
WeightGiven(op, key) == (CHOOSE s \in op.signers : s[1] = key)[2]
setOptions(account, op) ==
  [account EXCEPT
    !.masterWeight = Either(op.masterWeight, @),
    !.signers = [key \in DOMAIN @ \cup Named(op) |->
                   IF key \in Named(op) THEN WeightGiven(op, key) ELSE @[key]],
    !.thresholds = op.thresholds]

Changed(account, operations) ==
  LET after[i \in 0..Len(operations)] ==
        IF i = 0 THEN account ELSE setOptions(after[i - 1], operations[i]) IN
  after[Len(operations)]

\* All keys together reach the weight that changing the signers takes.
InControl(account) ==
  account.masterWeight + SumOf(account.signers, DOMAIN account.signers)
    >= Max({1, account.thresholds.high})

\* A transaction is valid once, at the sequence number it was built with.
Apply(setup) ==
  /\ setup.sequence = sequence /\ setup.operations # <<>> /\ InControl(onLedger)
  /\ onLedger' = Changed(onLedger, setup.operations)
  /\ sequence' = sequence + 1 /\ applied' = {setup.policy}
  /\ UNCHANGED <<setups, verified>>

\* Another tool adds or reweighs one signer.
OtherChange(key, weight) ==
  /\ InControl(onLedger) /\ sequence < MaxSequence
  /\ onLedger' = setOptions(onLedger, [signers |-> {<<key, weight>>}, masterWeight |-> {},
                                       thresholds |-> onLedger.thresholds])
  /\ sequence' = sequence + 1 /\ applied' = {}
  /\ UNCHANGED <<setups, verified>>
-----------------------------------------------------------------------------
(* Verification.                                                               *)

\* What the policy names differs.
DifferencesInPolicy(policy, account) ==
  {<<"threshold", level>> : level \in {l \in DOMAIN policy.thresholds :
                                         account.thresholds[l] # policy.thresholds[l]}}
    \cup {<<"signer", key>> : key \in {k \in NonMaster(policy) :
            k \notin DOMAIN account.signers \/ account.signers[k] # policy.weight[k]}}
Differences(policy, account) ==
  DifferencesInPolicy(policy, account)
    \cup {<<"unexpected", key>> : key \in DOMAIN account.signers \ NonMaster(policy)}
    \cup {<<"master">> : weight \in {account.masterWeight} \ {masterKeyWeight(policy)}}

verifyMultisig(p) ==
  /\ verified' = {[policy |-> p, onState |-> onLedger,
                   matches |-> Differences(resolveMultisigPolicy(p), onLedger) = {}]}
  /\ UNCHANGED <<onLedger, sequence, setups, applied>>
-----------------------------------------------------------------------------
MultisigInit ==
  /\ onLedger \in {[masterWeight |-> 1, signers |-> [key \in old |-> 1],
                    thresholds |-> Thresholds(0, 0, 0)] : old \in OldSignerSets}
  /\ sequence = 0 /\ setups = {} /\ applied = {} /\ verified = {}

MultisigNext ==
  \/ \E p \in Policies : buildMultisigSetup(p)
  \/ \E setup \in setups : Apply(setup)
  \/ \E key \in Cosigners, weight \in 1..MAX_WEIGHT : OtherChange(key, weight)
  \/ \E p \in Policies : verifyMultisig(p)
=============================================================================
