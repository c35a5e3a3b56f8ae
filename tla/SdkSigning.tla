------------------------------ MODULE SdkSigning ------------------------------
(* Calls of the SDK that several keys sign in several places                  *)
(* (sdk/src/index.ts): a prepared lifecycle call goes from who prepares it to *)
(* its party and on to its source, a relayed settlement from the releaser to  *)
(* a relayer.  The documents are JSON: copies stay around, the fields of two  *)
(* can get mixed up, and the escrow may change before one is submitted.       *)
EXTENDS SdkRequests

CONSTANTS
  LifecycleCalls,           \* calls that get prepared
  Settlements,              \* releases and refunds that get relayed
  Sources,                  \* who pays for transactions
  PREPARED_AUTH_TTL_LEDGERS, RELAYED_AUTH_TTL_LEDGERS,
  MaxDocs                   \* documents prepared

VARIABLES
  docs,                     \* every copy of every document
  prepared                  \* documents prepared so far, which also numbers them

signingVars == <<docs, prepared>>

\* PreparedLifecycleCall and RelayedAuthorization: the transaction is the call,
\* its nonce, who has signed it and until when.
Document(call, source, kind, signed, ttl) ==
  [kind |-> kind, method |-> call.fn, call |-> call, source |-> source, nonce |-> prepared,
   sequence |-> SequenceOf(source), signed |-> signed, expires |-> now + ttl, expiresAtLedger |-> now + ttl]

\* The address besides the source whose authorisation is missing.
NeedsNonInvokerSigningBy(d) == {d.call.caller} \ ({d.source} \cup d.signed)

Simulates(call) == ENABLED Invocation(call)

\* Simulated with source as the source; the preconditions are checked unless
\* the caller asks not to.  Nothing is signed.
PrepareLifecycleCall(call, source, checkPreconditions) ==
  /\ prepared < MaxDocs /\ prepared' = prepared + 1
  /\ call.fn = "top_up" => call.amount > 0
  /\ checkPreconditions => ~LifecycleRefused(call)
  /\ Simulates(call)
  /\ docs' = docs \cup {Document(call, source, "prepared", {}, PREPARED_AUTH_TTL_LEDGERS)}
  /\ UNCHANGED netVars

\* Fault: signed for as long again from now on.
SignedAnew(d, signer) ==
  [d EXCEPT !.signed = @ \cup {signer}, !.expires = now + PREPARED_AUTH_TTL_LEDGERS]
\* The copy with this signature: it covers the call until expiresAtLedger.
Signed(d, signer) == [d EXCEPT !.signed = @ \cup {signer}, !.expires = d.expiresAtLedger]
SignLifecycleCall(d, signer) ==
  /\ d.kind = "prepared" /\ signer \in NeedsNonInvokerSigningBy(d)
  /\ docs' = docs \cup {Signed(d, signer)}
  /\ UNCHANGED <<netVars, prepared>>

\* The releaser signs unless it is itself the relayer.
AuthorizeSettlement(call, relayer) ==
  /\ prepared < MaxDocs /\ prepared' = prepared + 1
  /\ Simulates(call)
  /\ docs' = docs \cup {Document(call, relayer, "relayed", {call.caller} \ {relayer},
                                 RELAYED_AUTH_TTL_LEDGERS)}
  /\ UNCHANGED netVars

\* The fields of two documents of one kind get mixed up.
MixUp(d, e) ==
  /\ d.kind = "prepared" /\ e.kind = "prepared" /\ d.method # e.method
  /\ docs' = docs \cup {[d EXCEPT !.method = e.method]}
  /\ UNCHANGED <<netVars, prepared>>

\* The transaction a document turns into: its source signs the envelope, which
\* also stands for the source's own authorisation and does not expire with it.
Transaction(d, source, expected) ==
  [fn |-> d.call.fn, id |-> d.call.id, caller |-> d.call.caller, amount |-> d.call.amount,
   source |-> source, sequence |-> d.sequence, signers |-> d.signed \cup {source},
   nonce |-> d.nonce,
   expires |-> IF d.signed = {} THEN {} ELSE {d.expires},
   expected |-> expected, announced |-> d.expiresAtLedger]

\* The label is not believed.  What the code compares is the method field inside the
\* transaction's JSON; that the library which reads it (txFromJSON, external) sends
\* no other function than that is assumed here.
MethodMatches(d, expected) == d.call.fn = d.method /\ \A fn \in expected : d.call.fn = fn

SubmitLifecycleCall(d, source, expected) ==
  /\ d.kind = "prepared" /\ MethodMatches(d, expected) /\ source = d.source
  /\ NeedsNonInvokerSigningBy(d) = {}
  /\ Submitted(Transaction(d, source, expected))
  /\ UNCHANGED <<chain, signingVars>>

\* The library refuses to sign while an authorisation is missing, and the
\* network an envelope that its source has not signed.
SubmitRelayed(d, relayer, settlement) ==
  /\ d.kind = "relayed" /\ d.call.fn = settlement
  /\ NeedsNonInvokerSigningBy(d) = {} /\ relayer = d.source
  /\ Submitted(Transaction(d, relayer, {settlement}))
  /\ UNCHANGED <<chain, signingVars>>

SigningInit == docs = {} /\ prepared = 0
SigningNext ==
  \/ \E call \in LifecycleCalls, source \in Sources, checked \in BOOLEAN :
       PrepareLifecycleCall(call, source, checked)
  \/ \E d \in docs, signer \in Addr : SignLifecycleCall(d, signer)
  \/ \E call \in Settlements, relayer \in Sources : AuthorizeSettlement(call, relayer)
  \/ \E d, e \in docs : MixUp(d, e)
  \/ \E d \in docs, source \in Sources, expected \in Option({c.fn : c \in LifecycleCalls}) :
       SubmitLifecycleCall(d, source, expected)
  \/ \E d \in docs, relayer \in Sources, settlement \in {"release", "refund"} :
       SubmitRelayed(d, relayer, settlement)
  \/ Network /\ UNCHANGED signingVars
=============================================================================
