--------------------------- MODULE ReleaserAccount ---------------------------
(* The M-of-N releaser account (contracts/releaser-account/src/lib.rs): a     *)
(* custom account that authorises releases and refunds of one escrow          *)
(* contract, a bounded number of them per window of ledgers, and whose        *)
(* signers change its own set, threshold and policy.  Signatures are made     *)
(* off-line: a key may sign at any time and what it signed may be submitted   *)
(* at any later time, by anybody, in any combination.                         *)
(*                                                                            *)
(* Definitions marked Fault are mistaken versions of the definition that      *)
(* follows them.                                                              *)
EXTENDS Integers, Sequences, FiniteSets, FiniteSetsExt

CONSTANTS
  Keys,               \* Ed25519 public keys
  Account, Escrow,    \* this account's address and its escrow contract's
  MAX_SIGNERS,
  MaxTTL,             \* the longest a persistent entry lives, in ledgers
  \* The arguments of the constructor
  InitialSigners, InitialThreshold, InitialCap, InitialWindow,
  \* What is tried
  Actions,            \* management actions that get signed
  Entries,            \* authorisation entries that get signed
  MaxSequence,        \* last ledger
  MaxNonce,           \* management actions
  MaxSignatures       \* signatures made

VARIABLES
  signers,            \* DataKey::Signer(key)
  signer_count,       \* DataKey::SignerCount
  threshold,          \* DataKey::Threshold
  nonce,              \* DataKey::ManagementNonce
  cap,                \* DataKey::MaxOperationsPerWindow
  window_ledgers,     \* DataKey::WindowLedgers
  usage,              \* DataKey::WindowUsage(window)
  sequence,           \* the ledger's sequence number
  approved,           \* management signatures made: key, action and nonce
  endorsed,           \* operation signatures made: key and entry
  spent,              \* authorisation entries the host has let through
  settled,            \* history: operations authorised in each ledger
  settledSincePolicy  \* history: those since the last change of policy

quorum == <<signers, signer_count, threshold>>
policy == <<cap, window_ledgers>>
history == <<spent, settled, settledSincePolicy>>
signatures == <<approved, endorsed>>
vars == <<quorum, policy, nonce, usage, sequence, signatures, history>>

ManagementAction ==
  [type : {"AddSigner", "RemoveSigner"}, key : Keys]
  \cup [type : {"SetThreshold"}, threshold : Nat]
  \cup [type : {"SetPolicy"}, cap : Nat, window : Nat]
Context == [contract : {Account, Escrow}, fn_name : STRING, args : Seq(Nat \cup {Account, Escrow})]
AuthorizationEntry == [contexts : Seq(Context), nonce : Nat]

ASSUME AccountAssumption ==
  /\ IsFiniteSet(Keys) /\ MAX_SIGNERS \in Nat /\ MaxTTL \in Nat
  /\ Account # Escrow
  /\ InitialSigners \subseteq Keys /\ InitialThreshold \in Nat
  /\ InitialCap \in Nat /\ InitialWindow \in Nat
  /\ Actions \subseteq ManagementAction
  /\ Entries \subseteq AuthorizationEntry
  /\ MaxSequence \in Nat \ {0} /\ MaxNonce \in Nat /\ MaxSignatures \in Nat
-----------------------------------------------------------------------------
(* Signatures.  A hash is modelled by the tuple of what goes into it.        *)

\* Fault: one signature serves the same action at every nonce.
DigestWithoutNonce(action, n) == <<"DOCESCROW", Account, action>>
ManagementDigest(action, n) == <<"DOCESCROW", Account, n, action>>

\* The keys that signed the digest of this action at the current nonce.
ApprovedBy(action) ==
  {s.key : s \in {t \in approved : ManagementDigest(t.action, t.nonce) = ManagementDigest(action, nonce)}}

\* The host's payload for an operation names its contexts and a nonce that the
\* host accepts once; the keys that signed it.
EndorsedBy(entry) == {s.key : s \in {t \in endorsed : t.entry = entry}}

\* Fault: one key may be listed many times.
VerifyWithRepetition(valid, list) ==
  /\ list # <<>> /\ Len(list) <= signer_count /\ Len(list) <= MAX_SIGNERS
  /\ \A i \in DOMAIN list : list[i] \in signers /\ list[i] \in valid
  /\ Len(list) >= threshold
\* A list of distinct registered keys, at least threshold of them, each with a
\* signature that verifies.
VerifySignatures(valid, list) ==
  /\ list # <<>> /\ Len(list) <= signer_count /\ Len(list) <= MAX_SIGNERS
  /\ \A i \in DOMAIN list : list[i] \in signers /\ list[i] \in valid
  /\ \A i, j \in DOMAIN list : list[i] = list[j] => i = j
  /\ Len(list) >= threshold

\* A key holder signs, again perhaps; the key need not be registered, nor stay so.
Approve(key, action) ==
  /\ approved' = approved \cup {[key |-> key, action |-> action, nonce |-> nonce]}
  /\ Cardinality(approved') + Cardinality(endorsed) <= MaxSignatures
  /\ UNCHANGED <<quorum, policy, nonce, usage, sequence, endorsed, history>>
Endorse(key, entry) ==
  /\ endorsed' = endorsed \cup {[key |-> key, entry |-> entry]}
  /\ Cardinality(approved) + Cardinality(endorsed') <= MaxSignatures
  /\ UNCHANGED <<quorum, policy, nonce, usage, sequence, approved, history>>
-----------------------------------------------------------------------------
(* Management.                                                                *)

AddSigner(key) ==
  /\ signer_count < MAX_SIGNERS
  /\ key \notin signers
  /\ signers' = signers \cup {key}
  /\ signer_count' = signer_count + 1
  /\ UNCHANGED <<threshold, policy, settledSincePolicy>>

\* Fault: the last key the threshold needs may go.
AboveThresholdLate == signer_count >= threshold
AboveThreshold == signer_count > threshold
RemoveSigner(key) ==
  /\ key \in signers
  /\ AboveThreshold
  /\ signers' = signers \ {key}
  /\ signer_count' = signer_count - 1
  /\ UNCHANGED <<threshold, policy, settledSincePolicy>>

SetThreshold(new) ==
  /\ new # 0 /\ new <= signer_count
  /\ threshold' = new
  /\ UNCHANGED <<signers, signer_count, policy, settledSincePolicy>>

\* Fault: a window of no ledgers.
PolicyOfAnyWindow(max_operations, window) == max_operations # 0 /\ window < MaxTTL
PolicyValid(max_operations, window) ==
  max_operations # 0 /\ window # 0 /\ window < MaxTTL

\* Every signer agrees to a new policy.
SetPolicy(new_cap, new_window, list) ==
  /\ Len(list) = signer_count
  /\ PolicyValid(new_cap, new_window)
  /\ cap' = new_cap /\ window_ledgers' = new_window
  /\ settledSincePolicy' = [l \in 1..MaxSequence |-> 0]
  /\ UNCHANGED quorum

Manage(action, list) ==
  /\ nonce < MaxNonce
  /\ VerifySignatures(ApprovedBy(action), list)
  /\ CASE action.type = "AddSigner"    -> AddSigner(action.key)
       [] action.type = "RemoveSigner" -> RemoveSigner(action.key)
       [] action.type = "SetThreshold" -> SetThreshold(action.threshold)
       [] action.type = "SetPolicy"    -> SetPolicy(action.cap, action.window, list)
  /\ nonce' = nonce + 1
  /\ UNCHANGED <<usage, sequence, signatures, spent, settled>>
-----------------------------------------------------------------------------
(* Authorisation of an operation.                                             *)

\* Exactly one context: a release or refund of the escrow by this account.
ReleaseOrRefundOnly(contexts) ==
  /\ Len(contexts) = 1
  /\ contexts[1].contract = Escrow /\ contexts[1].fn_name \in {"release", "refund"}
  /\ Len(contexts[1].args) = 2 /\ contexts[1].args[2] = Account

WindowOf(ledger, length) == (ledger - 1) \div length
Used(window) == IF window \in DOMAIN usage THEN usage[window] ELSE 0

\* Fault: one slot too many.
SlotFreeLate(used) == used <= cap
SlotFree(used) == used < cap
ConsumeOperationSlot ==
  LET window == WindowOf(sequence, window_ledgers) IN
  /\ SlotFree(Used(window))
  /\ usage' = [w \in DOMAIN usage \cup {window} |-> IF w = window THEN Used(w) + 1 ELSE usage[w]]

\* __check_auth, as the host calls it for an entry it has not let through yet.
CheckAuth(entry, list) ==
  /\ entry \notin spent
  /\ ReleaseOrRefundOnly(entry.contexts)
  /\ VerifySignatures(EndorsedBy(entry), list)
  /\ ConsumeOperationSlot
  /\ spent' = spent \cup {entry}
  /\ settled' = [settled EXCEPT ![sequence] = @ + 1]
  /\ settledSincePolicy' = [settledSincePolicy EXCEPT ![sequence] = @ + 1]
  /\ UNCHANGED <<quorum, policy, nonce, sequence, signatures>>

\* A ledger closes.
Close ==
  /\ sequence < MaxSequence /\ sequence' = sequence + 1
  /\ UNCHANGED <<quorum, policy, nonce, usage, signatures, history>>
-----------------------------------------------------------------------------
ConstructorAccepts ==
  /\ InitialSigners # {} /\ Cardinality(InitialSigners) <= MAX_SIGNERS
  /\ InitialThreshold # 0 /\ InitialThreshold <= Cardinality(InitialSigners)
  /\ PolicyValid(InitialCap, InitialWindow)

Init ==
  /\ ConstructorAccepts
  /\ signers = InitialSigners /\ signer_count = Cardinality(InitialSigners)
  /\ threshold = InitialThreshold
  /\ cap = InitialCap /\ window_ledgers = InitialWindow
  /\ nonce = 0 /\ usage = <<>> /\ sequence = 1
  /\ approved = {} /\ endorsed = {} /\ spent = {}
  /\ settled = [l \in 1..MaxSequence |-> 0]
  /\ settledSincePolicy = settled

Lists == UNION {[1..n -> Keys] : n \in 0..Cardinality(Keys)}

Next ==
  \/ \E key \in Keys :
       \/ \E action \in Actions : Approve(key, action)
       \/ \E entry \in Entries : Endorse(key, entry)
  \/ \E list \in Lists :
       \/ \E action \in Actions : Manage(action, list)
       \/ \E entry \in Entries : CheckAuth(entry, list)
  \/ Close

Spec == Init /\ [][Next]_vars
=============================================================================
