------------------------------- MODULE SdkProofs -------------------------------
(* Proofs about the TypeScript SDK. A part is proved about on its own: its      *)
(* specification is the part's Init and Next over the part's variables, which   *)
(* is all of the composed system that can change them. The last sections are    *)
(* about the calls that reach the contract: there WritesSpec interleaves the    *)
(* methods, one group of calls, prepared and relayed calls and the network.     *)
EXTENDS SdkProperties, EscrowProofs

-----------------------------------------------------------------------------
(* One client and its concurrent callers.                                      *)

CallsInit == \E c \in {x \in Configs : ~MainnetRefused(x)}, r \in Rpcs : CallInit(c, r)
CallsSpec == CallsInit /\ [][CallNext]_callVars

Places == {"idle", "passphrase", "network", "version", "lookup", "done", "failed"} \cup Phases
Versions == {"supported", "unsupported", "missing"}
Causes == {"none", "no getNetwork", "mismatch", "lost", "read call", "declined"} \cup Versions
Spans == [Phases -> [opened : {0, 1}, ended : {0, 1}]]
Call == [kind : Kinds \cup {"none"}, at : Places, cause : Causes, lostBefore : Nat, amid : BOOLEAN,
         spans : Spans]

\* Every variable of a client has a value of its type.
CallsTypeOK ==
  /\ config \in EscrowClientConfig /\ rpc \in Rpc
  /\ networkVerified \in {"none", "pending", "verified"}
  /\ contractVersion \in {"none", "network", "pending", "lost", "mismatch"} \cup Versions
  /\ contractVersionChecked \in BOOLEAN
  /\ calls \in [Callers -> Call]
  /\ lost \in Nat

\* A call that has just been made.
Made(kind, place) ==
  [Idle EXCEPT !.kind = kind, !.lostBefore = lost, !.amid = Rejecting, !.at = place]

\* What a phase does to a call keeps it a call.
LEMMA SpansKeepCalls ==
  ASSUME NEW call \in Call, NEW p \in Phases
  PROVE  Opened(call, p) \in Call /\ Ended(call, p) \in Call
<1>1. call.spans \in Spans
  BY DEF Call
<1>2. [call EXCEPT !.spans[p].opened = 1] \in Call
  <2>1. [call.spans EXCEPT ![p].opened = 1] \in Spans
    BY <1>1 DEF Spans
  <2> QED BY <2>1 DEF Call
<1>3. [call EXCEPT !.spans[p] = [opened |-> 1, ended |-> 1]] \in Call
  <2>1. [call.spans EXCEPT ![p] = [opened |-> 1, ended |-> 1]] \in Spans
    BY <1>1 DEF Spans
  <2> QED BY <2>1 DEF Call
<1> QED BY <1>2, <1>3 DEF Opened, Ended

\* A call that goes on, fails or is forgotten is still a call.
LEMMA MovesKeepCalls ==
  ASSUME NEW call \in Call, NEW place \in Places, NEW cause \in Causes
  PROVE  /\ [call EXCEPT !.at = place] \in Call
         /\ [call EXCEPT !.at = place, !.cause = cause] \in Call
BY DEF Call

\* A caller starts without a call.
LEMMA IdleType == Idle \in Call /\ Idle.at = "idle" /\ Idle.kind = "none" /\ Idle.spans = NoSpans
<1>1. NoSpans \in Spans
  BY DEF NoSpans, Spans
<1>2. "none" \in Causes /\ "idle" \in Places
  BY DEF Causes, Places
<1> QED BY <1>1, <1>2 DEF Idle, Call

\* A call goes to one place, or fails, whatever it waited for.
LEMMA WentType ==
  ASSUME CallsTypeOK, NEW c \in Callers
  PROVE  /\ \A place \in Places : Went(c, place) \in Call
         /\ \A cause \in Causes : Threw(c, cause) \in Call
         /\ Verified(c) \in Call
         /\ \A outcome \in {"none", "pending", "verified"} : Awaited(c, outcome) \in Call
         /\ \A version \in Causes : Judged(c, version) \in Call
<1>1. calls[c] \in Call
  BY DEF CallsTypeOK
<1>2. ASSUME NEW place \in Places PROVE Went(c, place) \in Call
  BY <1>1 DEF Went, Call
<1>3. ASSUME NEW cause \in Causes PROVE Threw(c, cause) \in Call
  <2>1. "failed" \in Places
    BY DEF Places
  <2> QED BY <1>1, <2>1 DEF Threw, Call
<1>4. {"version", "simulate", "done"} \subseteq Places
  BY DEF Places, Phases
<1>5. Verified(c) \in Call
  BY <1>2, <1>4 DEF Verified
<1>6. \A outcome \in {"none", "pending", "verified"} : Awaited(c, outcome) \in Call
  BY <1>5 DEF Awaited
<1>7. \A version \in Causes : Judged(c, version) \in Call
  BY <1>2, <1>3, <1>4 DEF Judged
<1> QED BY <1>2, <1>3, <1>5, <1>6, <1>7

\* The call of one caller changes.
LEMMA SetType ==
  ASSUME CallsTypeOK, NEW c \in Callers, NEW call \in Call, Set(c, call)
  PROVE  calls' \in [Callers -> Call] /\ calls'[c] = call
BY DEF Set, CallsTypeOK

\* Whatever answers come, every variable keeps its type.
LEMMA AnswersKeepType ==
  ASSUME CallsTypeOK, Answers
  PROVE  CallsTypeOK'
<1>1. ASSUME NEW f, calls' = [c \in Callers |-> f[c]], \A c \in Callers : f[c] \in Call
      PROVE  calls' \in [Callers -> Call]
  BY <1>1
<1>2. \A c \in Callers : calls[c] \in Call
  BY DEF CallsTypeOK
<1>3. rpc.version \in Versions /\ rpc.version \in Causes /\ "lost" \in Causes
  BY DEF CallsTypeOK, Rpc, Versions, Causes
<1>4. CASE NetworkAnswer
  <2>1. calls' \in [Callers -> Call]
    BY <1>2, <1>4, WentType DEF NetworkAnswer
  <2> QED BY <1>4, <2>1 DEF NetworkAnswer, CallsTypeOK
<1>5. CASE NetworkFailure
  <2>1. "simulate" \in Places /\ "lost" \in Causes /\ "mismatch" \in Causes
    BY DEF Places, Phases, Causes
  <2>2. PICK cause \in {"lost", "mismatch"} :
          /\ calls' = [c \in Callers |-> IF c \in At("network") THEN Threw(c, cause) ELSE calls[c]]
          /\ contractVersion' \in {contractVersion, cause}
    BY <1>5 DEF NetworkFailure
  <2>3. calls' \in [Callers -> Call]
    BY <1>2, <2>1, <2>2, WentType
  <2>4. lost' \in Nat
    BY <1>5 DEF NetworkFailure, CallsTypeOK
  <2> QED BY <1>5, <2>2, <2>3, <2>4 DEF NetworkFailure, ClearedPromise, CallsTypeOK
<1>6. CASE VersionAnswer
  <2>1. calls' \in [Callers -> Call]
    BY <1>2, <1>3, <1>6, WentType DEF VersionAnswer
  <2> QED BY <1>3, <1>6, <2>1 DEF VersionAnswer, CallsTypeOK
<1>7. CASE VersionFailure
  <2>1. calls' \in [Callers -> Call]
    BY <1>2, <1>3, <1>7, WentType DEF VersionFailure
  <2> QED BY <1>7, <2>1 DEF VersionFailure, CallsTypeOK
<1>8. CASE RejectionPasses
  <2>1. contractVersion \in Causes
    BY <1>8 DEF RejectionPasses, Rejecting, Causes
  <2>2. calls' \in [Callers -> Call]
    BY <1>2, <1>8, <2>1, WentType DEF RejectionPasses
  <2> QED BY <1>8, <2>2 DEF RejectionPasses, CallsTypeOK
<1> QED BY <1>4, <1>5, <1>6, <1>7, <1>8 DEF Answers

\* What a caller's own step makes of its call, and of nothing else: the call that
\* takes its place is a call.
LEMMA StepSets ==
  ASSUME CallsTypeOK, NEW c \in Callers, CallStep(c)
  PROVE  \E call \in Call : Set(c, call)
<1>1. calls[c] \in Call /\ calls[c].at \in Places
  BY DEF CallsTypeOK, Call
<1>2. /\ Phases \subseteq Places
      /\ {"network", "version", "lookup", "simulate", "done", "failed"} \subseteq Places
      /\ {"simulate", "sign", "submit", "confirm"} = Phases
      /\ {"no getNetwork", "lost", "read call", "declined"} \cup Versions \subseteq Causes
  BY DEF Places, Phases, Causes
<1>3. \A call \in Call, p \in Phases, place \in Places, cause \in Causes :
        /\ Opened(call, p) \in Call /\ Ended(call, p) \in Call
        /\ [call EXCEPT !.at = place] \in Call
        /\ [call EXCEPT !.at = place, !.cause = cause] \in Call
  BY SpansKeepCalls, MovesKeepCalls
<1>4. CASE CheckPassphrase(c)
  BY <1>2, <1>4, WentType DEF CheckPassphrase, CallsTypeOK
<1>5. CASE CheckVersion(c)
  BY <1>2, <1>5, WentType DEF CheckVersion, CallsTypeOK
<1>6. CASE Simulate(c)
  <2>1. ASSUME NEW place \in Places
        PROVE  [Ended(Opened(calls[c], "simulate"), "simulate") EXCEPT !.at = place] \in Call
    <3>1. PICK call \in Call : call = Ended(Opened(calls[c], "simulate"), "simulate")
      BY <1>1, <1>2, <1>3
    <3>2. [call EXCEPT !.at = place] \in Call
      BY DEF Call
    <3> QED BY <3>1, <3>2
  <2>2. Ended(Opened(Threw(c, "lost"), "simulate"), "simulate") \in Call
    BY <1>2, <1>3, WentType
  <2> QED BY <1>2, <1>6, <2>1, <2>2 DEF Simulate, Traced
<1>7. CASE Sign(c)
  <2>1. Threw(c, "read call") \in Call
    BY <1>2, WentType
  <2>2. Ended(Opened(Threw(c, "declined"), "sign"), "sign") \in Call
    BY <1>2, <1>3, WentType
  <2>3. PICK signed \in Call : signed = Ended(Opened(calls[c], "sign"), "sign")
    BY <1>1, <1>2, <1>3
  <2>4. Opened([signed EXCEPT !.at = "submit"], "submit") \in Call
    BY <1>2, <1>3
  <2> QED BY <1>7, <2>1, <2>2, <2>3, <2>4 DEF Sign
<1>8. CASE OnSubmitted(c)
  <2>1. PICK sent \in Call : sent = Ended(calls[c], "submit")
    BY <1>1, <1>2, <1>3
  <2>2. Opened([sent EXCEPT !.at = "confirm"], "confirm") \in Call
    BY <1>2, <1>3
  <2> QED BY <1>8, <2>1, <2>2 DEF OnSubmitted
<1>9. CASE SendThrows(c)
  <2>1. PICK call \in Call : call = SpansOfThrow(calls[c])
    BY <1>1, <1>2, <1>3 DEF SpansOfThrow
  <2>2. [call EXCEPT !.at = "failed", !.cause = "lost"] \in Call
    BY <1>2, <1>3
  <2> QED BY <1>9, <2>1, <2>2 DEF SendThrows
<1>10. CASE Confirm(c)
  <2>1. PICK call \in Call : call = Ended(calls[c], "confirm")
    BY <1>1, <1>2, <1>3
  <2>2. [call EXCEPT !.at = "done"] \in Call
    BY <1>2, <1>3
  <2> QED BY <1>10, <2>1, <2>2 DEF Confirm
<1>11. CASE Return(c)
  BY <1>11, IdleType DEF Return
<1> QED BY <1>4, <1>5, <1>6, <1>7, <1>8, <1>9, <1>10, <1>11 DEF CallStep, Waited

\* The shared promises and the count of lost requests keep their types.
LEMMA StepKeepsCaches ==
  ASSUME CallsTypeOK, NEW c \in Callers, CallStep(c)
  PROVE  /\ networkVerified' \in {"none", "pending", "verified"}
         /\ contractVersion' \in {"none", "network", "pending", "lost", "mismatch"} \cup Versions
         /\ contractVersionChecked' \in BOOLEAN
         /\ lost' \in Nat /\ lost <= lost'
         /\ UNCHANGED <<config, rpc>>
<1>1. CASE CheckPassphrase(c)
  <2>1. networkVerified' \in {networkVerified, "pending"}
    BY <1>1 DEF CheckPassphrase
  <2>2. UNCHANGED <<config, rpc, contractVersion, contractVersionChecked, lost>>
    BY <1>1 DEF CheckPassphrase
  <2> QED BY <2>1, <2>2 DEF CallsTypeOK
<1>2. CASE CheckVersion(c)
  <2>1. /\ networkVerified' \in {networkVerified, "pending"}
        /\ contractVersion' \in {contractVersion, "pending", "network"}
    BY <1>2 DEF CheckVersion, caches
  <2>2. contractVersionChecked' \in BOOLEAN
    BY <1>2, Zenon DEF CheckVersion, caches, CallsTypeOK
  <2>3. UNCHANGED <<config, rpc, lost>>
    BY <1>2 DEF CheckVersion
  <2> QED BY <2>1, <2>2, <2>3 DEF CallsTypeOK
<1>3. CASE Simulate(c) \/ Sign(c) \/ OnSubmitted(c) \/ SendThrows(c) \/ Confirm(c) \/ Return(c)
  <2>1. UNCHANGED <<config, rpc, caches>>
    BY <1>3 DEF Simulate, Sign, OnSubmitted, SendThrows, Confirm, Return
  <2>2. lost' = lost \/ lost' = lost + 1
    BY <1>3 DEF Simulate, Sign, OnSubmitted, SendThrows, Confirm, Return
  <2> QED BY <2>1, <2>2 DEF CallsTypeOK, caches
<1> QED BY <1>1, <1>2, <1>3 DEF CallStep, Waited

\* Every step keeps every variable's type.
LEMMA CallsTypeStep == CallsTypeOK /\ [CallNext]_callVars => CallsTypeOK'
<1> SUFFICES ASSUME CallsTypeOK, [CallNext]_callVars PROVE CallsTypeOK'
  OBVIOUS
<1>1. ASSUME NEW c \in Callers, NEW kind \in Kinds, Start(c, kind) PROVE CallsTypeOK'
  <2>1. PICK place \in Places : Set(c, Made(kind, place))
    BY <1>1 DEF Start, Made, Places, Phases
  <2>2. Made(kind, place) \in Call
    <3>1. Idle \in Call /\ lost \in Nat
      BY IdleType DEF CallsTypeOK
    <3>2. PICK amid \in BOOLEAN : amid = Rejecting
      <4>1. Rejecting \in BOOLEAN
        BY DEF Rejecting
      <4> QED BY <4>1
    <3>3. Made(kind, place) = [Idle EXCEPT !.kind = kind, !.lostBefore = lost, !.amid = amid, !.at = place]
      BY <3>2 DEF Made
    <3> QED BY <3>1, <3>3 DEF Call
  <2> QED BY <1>1, <2>1, <2>2, SetType DEF Start, CallsTypeOK, caches
<1>2. ASSUME NEW c \in Callers, CallStep(c) PROVE CallsTypeOK'
  <2>1. calls' \in [Callers -> Call]
    BY <1>2, StepSets, SetType
  <2> QED BY <1>2, <2>1, StepKeepsCaches DEF CallsTypeOK
<1>3. CASE UNCHANGED callVars
  BY <1>3 DEF callVars, caches, CallsTypeOK
<1> QED BY <1>1, <1>2, <1>3, AnswersKeepType DEF CallNext

\* A client starts with nothing verified and nobody calling.
LEMMA CallsTypeInit == CallsInit => CallsTypeOK
<1> SUFFICES ASSUME NEW c \in Configs, NEW r \in Rpcs, CallInit(c, r) PROVE CallsTypeOK
  BY DEF CallsInit
<1> QED BY IdleType, CallsAssumption DEF CallInit, CallsTypeOK

\* Whatever callers ask and whatever the network loses, the client's state is of its type.
LEMMA CallsTyped == CallsSpec => []CallsTypeOK
BY CallsTypeInit, CallsTypeStep, PTL DEF CallsSpec
-----------------------------------------------------------------------------
(* The gate.                                                                   *)

\* Writes and checked reads, and the places past each of the two checks.
Gated(c) == calls[c].kind \in {"write", "read"}
PastVersion == Phases \cup {"done"}
PastNetwork == {"version", "lookup"} \cup PastVersion

\* What the passphrase check establishes, and the version check.
NetworkOK ==
  /\ NetworkVerification = "required" => rpc.getNetwork
  /\ NetworkVerification # "off" /\ rpc.getNetwork => networkVerified = "verified"
VersionOK == ContractVersionCheck = "required" => rpc.version = "supported"

\* VerifiedBeforeSent says nothing of calls that still wait, nor of the promises
\* they wait for: what every step keeps also says what the promises stand for and
\* what is known of a call between its two checks.
GateKept ==
  /\ networkVerified = "verified" => rpc.network = "ours"
  /\ networkVerified # "none" => rpc.getNetwork
  /\ contractVersion \in Versions => contractVersion = rpc.version
  /\ contractVersionChecked => VersionOK
  /\ \A c \in Callers : Gated(c) /\ calls[c].at \in PastNetwork => NetworkOK
  /\ \A c \in Callers : Gated(c) /\ calls[c].at \in PastVersion => VersionOK

\* The configuration and the server stay as they are, a verified network stays
\* verified, and requests are only ever lost.
LEMMA CallsOnward ==
  ASSUME CallsTypeOK, [CallNext]_callVars
  PROVE  /\ UNCHANGED <<config, rpc>>
         /\ networkVerified = "verified" => networkVerified' = "verified"
         /\ lost \in Nat /\ lost' \in Nat /\ lost <= lost'
<1>1. lost \in Nat
  BY DEF CallsTypeOK
<1>2. ASSUME NEW c \in Callers, CallStep(c)
      PROVE  networkVerified = "verified" => networkVerified' = "verified"
  <2>1. CASE CheckPassphrase(c)
    BY <2>1 DEF CheckPassphrase, NetworkKnown
  <2>2. CASE CheckVersion(c)
    BY <2>2 DEF CheckVersion, NetworkKnown, caches
  <2>3. CASE Simulate(c) \/ Sign(c) \/ OnSubmitted(c) \/ SendThrows(c) \/ Confirm(c) \/ Return(c)
    BY <2>3 DEF Simulate, Sign, OnSubmitted, SendThrows, Confirm, Return, caches
  <2> QED BY <1>2, <2>1, <2>2, <2>3 DEF CallStep, Waited
<1>3. CASE \E c \in Callers : CallStep(c)
  BY <1>1, <1>2, <1>3, StepKeepsCaches
<1>4. CASE Answers
  <2>1. UNCHANGED <<config, rpc>> /\ (networkVerified = "verified" => networkVerified' = "verified")
    BY <1>4 DEF Answers, NetworkAnswer, NetworkFailure, VersionAnswer, VersionFailure, RejectionPasses
  <2>2. lost' = lost \/ lost' = lost + 1
    BY <1>4 DEF Answers, NetworkAnswer, NetworkFailure, VersionAnswer, VersionFailure, RejectionPasses
  <2> QED BY <1>1, <2>1, <2>2
<1>5. ASSUME NEW c \in Callers, NEW kind \in Kinds, Start(c, kind)
      PROVE  UNCHANGED <<config, rpc, networkVerified, lost>>
  BY <1>5 DEF Start, caches
<1>6. CASE UNCHANGED callVars
  BY <1>1, <1>6 DEF callVars, caches
<1> QED BY <1>1, <1>3, <1>4, <1>5, <1>6 DEF CallNext

\* What the checks establish stays so.
LEMMA ChecksStay ==
  ASSUME CallsTypeOK, [CallNext]_callVars
  PROVE  /\ NetworkVerification' = NetworkVerification
         /\ ContractVersionCheck' = ContractVersionCheck
         /\ NetworkOK => NetworkOK'
         /\ VersionOK => VersionOK'
BY CallsOnward DEF NetworkOK, VersionOK, NetworkVerification, ContractVersionCheck

\* The other calls stay as they are.
LEMMA SetOne ==
  ASSUME CallsTypeOK, NEW c \in Callers, NEW call, Set(c, call)
  PROVE  /\ calls'[c] = call
         /\ \A x \in Callers \ {c} : calls'[x] = calls[x]
BY DEF Set, CallsTypeOK

\* How a call looks once it has gone on or thrown.
LEMMA MovesTo ==
  ASSUME CallsTypeOK, NEW c \in Callers
  PROVE  /\ \A place \in Places :
              Went(c, place).at = place /\ Went(c, place).kind = calls[c].kind
         /\ \A cause \in Causes :
              Threw(c, cause).at = "failed" /\ Threw(c, cause).kind = calls[c].kind
BY DEF Went, Threw, CallsTypeOK, Call

\* A step of one caller keeps the gate if it does for that caller's call.
LEMMA OneGate ==
  ASSUME CallsTypeOK, GateKept, [CallNext]_callVars, NEW c \in Callers, NEW call, Set(c, call),
         networkVerified' \in {networkVerified, "pending"}, networkVerified' # networkVerified => rpc.getNetwork,
         contractVersion' \in {contractVersion, "pending", "network"},
         contractVersionChecked' # contractVersionChecked => VersionOK,
         call.kind \in {"write", "read"} /\ call.at \in PastNetwork => NetworkOK,
         call.kind \in {"write", "read"} /\ call.at \in PastVersion => VersionOK
  PROVE  GateKept'
<1>1. /\ UNCHANGED <<config, rpc>> /\ (NetworkOK => NetworkOK') /\ (VersionOK => VersionOK')
  BY CallsOnward, ChecksStay
<1>2. calls'[c] = call /\ \A x \in Callers \ {c} : calls'[x] = calls[x]
  BY SetOne
<1>3. ASSUME NEW x \in Callers
      PROVE  /\ Gated(x)' /\ (calls[x].at)' \in PastNetwork => NetworkOK'
             /\ Gated(x)' /\ (calls[x].at)' \in PastVersion => VersionOK'
  <2>1. CASE x = c
    BY <1>1, <1>2, <2>1 DEF Gated
  <2>2. CASE x # c
    BY <1>1, <1>2, <2>2 DEF Gated, GateKept
  <2> QED BY <2>1, <2>2
<1>4. /\ networkVerified' = "verified" => rpc'.network = "ours"
      /\ networkVerified' # "none" => rpc'.getNetwork
      /\ contractVersion' \in Versions => contractVersion' = rpc'.version
  BY <1>1 DEF GateKept, Versions
<1>5. contractVersionChecked' => VersionOK'
  BY <1>1 DEF GateKept, CallsTypeOK
<1> QED BY <1>3, <1>4, <1>5 DEF GateKept, PastNetwork, PastVersion

\* Which call the two checks let on.
LEMMA PassphraseGate ==
  ASSUME CallsTypeOK, GateKept, [CallNext]_callVars, NEW c \in Callers, CheckPassphrase(c)
  PROVE  GateKept'
<1>1. calls[c].at = "passphrase" /\ calls[c].kind \in Kinds \cup {"none"}
  BY DEF CheckPassphrase, CallsTypeOK, Call
<1>2. /\ networkVerified' \in {networkVerified, "pending"}
      /\ networkVerified' # networkVerified => rpc.getNetwork
      /\ UNCHANGED <<contractVersion, contractVersionChecked>>
  BY DEF CheckPassphrase, GateKept
<1>3. {"network", "version", "done", "failed"} \subseteq Places /\ "no getNetwork" \in Causes
  BY DEF Places, Causes
<1>4. \E call :
        /\ Set(c, call)
        /\ call.kind \in {"write", "read"} /\ call.at \in PastNetwork => call.at = "version" /\ NetworkOK
  <2>1. ASSUME calls[c].kind \in {"write", "read"} => NetworkOK
        PROVE  Verified(c).kind \in {"write", "read"} /\ Verified(c).at \in PastNetwork
                 => Verified(c).at = "version" /\ NetworkOK
    BY <1>3, <2>1, MovesTo DEF Verified
  <2>2. ASSUME NEW cause \in Causes PROVE Threw(c, cause).at \notin PastNetwork
    BY MovesTo DEF PastNetwork, PastVersion, Phases
  <2>3. Went(c, "network").at \notin PastNetwork
    BY <1>3, MovesTo DEF PastNetwork, PastVersion, Phases
  <2>4. CASE calls[c].kind # "verifyNetwork" /\ NetworkVerification = "off" /\ Set(c, Verified(c))
    <3>1. NetworkOK
      BY <2>4 DEF NetworkOK
    <3> QED BY <2>1, <2>4, <3>1
  <2>5. CASE NetworkKnown /\ Set(c, Awaited(c, networkVerified))
    <3>1. networkVerified = "verified"
      BY <2>5 DEF NetworkKnown, CallsTypeOK
    <3>2. NetworkOK
      BY <3>1 DEF NetworkOK, GateKept
    <3> QED BY <2>1, <2>5, <3>1, <3>2 DEF Awaited
  <2>6. CASE /\ ~rpc.getNetwork
             /\ Set(c, IF calls[c].kind = "verifyNetwork" \/ NetworkVerification = "required"
                         THEN Threw(c, "no getNetwork") ELSE Verified(c))
    <3>1. CASE calls[c].kind = "verifyNetwork" \/ NetworkVerification = "required"
      BY <1>3, <2>2, <2>6, <3>1
    <3>2. CASE ~(calls[c].kind = "verifyNetwork" \/ NetworkVerification = "required")
      <4>1. NetworkOK
        BY <2>6, <3>2 DEF NetworkOK
      <4> QED BY <2>1, <2>6, <3>2, <4>1
    <3> QED BY <3>1, <3>2
  <2>7. CASE Set(c, Went(c, "network"))
    BY <2>3, <2>7
  <2> QED BY <2>4, <2>5, <2>6, <2>7 DEF CheckPassphrase
<1>5. PICK call : /\ Set(c, call)
                  /\ call.kind \in {"write", "read"} /\ call.at \in PastNetwork => call.at = "version" /\ NetworkOK
  BY <1>4
<1>6. call.at \in PastVersion => call.at \in PastNetwork /\ call.at # "version"
  BY DEF PastVersion, PastNetwork, Phases
<1> QED BY <1>2, <1>5, <1>6, OneGate

\* Which call the version check lets on.
LEMMA JudgedGate ==
  ASSUME CallsTypeOK, NEW c \in Callers, NEW version \in Causes
  PROVE  /\ Judged(c, version).kind = calls[c].kind
         /\ Judged(c, version).at \in {"simulate", "done", "failed"}
         /\ Judged(c, version).at = "done" => ~Gated(c)
         /\ Judged(c, version).at = "simulate" => Gated(c) \/ calls[c].kind \notin {"verifyContractVersion"}
         /\ Judged(c, version).at = "simulate" =>
              version = "supported" \/ ContractVersionCheck = "auto"
<1>1. {"simulate", "done"} \subseteq Places
  BY DEF Places, Phases
<1> QED BY <1>1, MovesTo DEF Judged, Gated

\* Asking for the contract's version lets a call past only on a version that is known
\* to be supported, or with the check off.
LEMMA VersionGate ==
  ASSUME CallsTypeOK, GateKept, [CallNext]_callVars, NEW c \in Callers, CheckVersion(c)
  PROVE  GateKept'
<1>1. calls[c].at = "version" /\ (Gated(c) => NetworkOK)
  BY DEF CheckVersion, GateKept, PastNetwork
<1>2. /\ networkVerified' \in {networkVerified, "pending"}
      /\ networkVerified' # networkVerified => rpc.getNetwork
      /\ contractVersion' \in {contractVersion, "pending", "network"}
  BY DEF CheckVersion, GateKept, caches
<1>3. {"simulate", "lookup", "failed"} \subseteq Places /\ Versions \cup {"no getNetwork"} \subseteq Causes
  BY DEF Places, Phases, Causes
<1>4. \E call :
        /\ Set(c, call) /\ call.kind = calls[c].kind
        /\ Gated(c) /\ call.at \in PastVersion => VersionOK
        /\ contractVersionChecked' # contractVersionChecked => VersionOK
  <2>1. CASE (ContractVersionCheck = "off" \/ contractVersionChecked) /\ Set(c, Went(c, "simulate")) /\ UNCHANGED caches
    BY <1>3, <2>1, MovesTo DEF GateKept, VersionOK, caches
  <2>2. CASE /\ contractVersion \in {"supported", "unsupported", "missing"}
             /\ Set(c, Judged(c, contractVersion))
             /\ contractVersionChecked' = (contractVersionChecked \/ calls'[c].at = "simulate")
    <3>1. contractVersion \in Versions /\ contractVersion \in Causes
      BY <1>3, <2>2 DEF Versions
    <3>2. contractVersion = rpc.version
      BY <3>1 DEF GateKept
    <3>3. Judged(c, contractVersion).at = "simulate" => VersionOK
      BY <3>1, <3>2, JudgedGate DEF VersionOK
    <3>4. calls'[c] = Judged(c, contractVersion)
      BY <2>2, SetOne
    <3>5. Gated(c) /\ Judged(c, contractVersion).at \in PastVersion => Judged(c, contractVersion).at = "simulate"
      BY <3>1, JudgedGate DEF PastVersion, Phases
    <3> QED BY <2>2, <3>1, <3>3, <3>4, <3>5, JudgedGate DEF CallsTypeOK
  <2>3. CASE Set(c, Went(c, "lookup")) /\ UNCHANGED contractVersionChecked
    <3>1. "lookup" \notin PastVersion
      BY DEF PastVersion, Phases
    <3> QED BY <1>3, <2>3, <3>1, MovesTo
  <2>4. CASE Set(c, Threw(c, "no getNetwork")) /\ UNCHANGED contractVersionChecked
    <3>1. "failed" \notin PastVersion
      BY DEF PastVersion, Phases
    <3> QED BY <1>3, <2>4, <3>1, MovesTo
  <2> QED BY <2>1, <2>2, <2>3, <2>4 DEF CheckVersion, caches
<1>5. PICK call : /\ Set(c, call) /\ call.kind = calls[c].kind
                  /\ Gated(c) /\ call.at \in PastVersion => VersionOK
                  /\ contractVersionChecked' # contractVersionChecked => VersionOK
  BY <1>4
<1> QED BY <1>1, <1>2, <1>5, OneGate DEF Gated

\* What an answer makes of the calls it wakes.
LEMMA AnswersGate ==
  ASSUME CallsTypeOK, GateKept, [CallNext]_callVars, Answers
  PROVE  GateKept'
<1>1. /\ UNCHANGED <<config, rpc>> /\ (NetworkOK => NetworkOK') /\ (VersionOK => VersionOK')
      /\ NetworkVerification' = NetworkVerification
  BY CallsOnward, ChecksStay
<1>2. /\ "mismatch" \in Causes /\ "lost" \in Causes /\ "lost" # "supported"
      /\ rpc.version \in Causes /\ rpc.version \in Versions
      /\ "simulate" \in Places /\ "version" \in Places /\ "done" \in Places
  BY DEF Causes, Places, Phases, CallsTypeOK, Rpc, Versions
<1>3. /\ "failed" \notin PastNetwork /\ "failed" \notin PastVersion /\ "version" \notin PastVersion
      /\ "lookup" \in PastNetwork
  BY DEF PastNetwork, PastVersion, Phases
<1>4. ASSUME NEW c \in Callers, NEW version \in Causes, calls'[c] = Judged(c, version), calls[c].at = "lookup",
             version = "supported" => version = rpc.version
      PROVE  /\ Gated(c)' /\ calls'[c].at \in PastNetwork => NetworkOK'
             /\ Gated(c)' /\ calls'[c].at \in PastVersion => VersionOK'
             /\ calls'[c].at = "simulate" => VersionOK
  <2>1. /\ calls'[c].kind = calls[c].kind
        /\ calls'[c].at \in {"simulate", "done", "failed"}
        /\ calls'[c].at = "done" => ~Gated(c)
        /\ calls'[c].at = "simulate" => version = "supported" \/ ContractVersionCheck = "auto"
    BY <1>4, JudgedGate
  <2>2. calls'[c].at = "simulate" => VersionOK
    BY <1>4, <2>1 DEF VersionOK
  <2>3. Gated(c)' => Gated(c)
    BY <2>1 DEF Gated
  <2>4. Gated(c) => NetworkOK
    BY <1>3, <1>4 DEF GateKept
  <2> QED BY <1>1, <1>3, <2>1, <2>2, <2>3, <2>4
<1>5. ASSUME NEW c \in Callers, calls'[c] = calls[c]
      PROVE  /\ Gated(c)' /\ calls'[c].at \in PastNetwork => NetworkOK'
             /\ Gated(c)' /\ calls'[c].at \in PastVersion => VersionOK'
  BY <1>1, <1>5 DEF GateKept, Gated
<1>6. ASSUME networkVerified' = "verified" => rpc.network = "ours", networkVerified' # "none" => rpc.getNetwork,
             contractVersion' \in Versions => contractVersion' = rpc.version,
             contractVersionChecked' => VersionOK,
             \A c \in Callers : /\ Gated(c)' /\ calls'[c].at \in PastNetwork => NetworkOK'
                                /\ Gated(c)' /\ calls'[c].at \in PastVersion => VersionOK'
      PROVE  GateKept'
  <2>1. PastNetwork' = PastNetwork /\ PastVersion' = PastVersion
    BY DEF PastNetwork, PastVersion
  <2> QED BY <1>1, <1>6, <2>1 DEF GateKept
<1>7. CASE NetworkAnswer
  <2>1. networkVerified' = "verified" /\ rpc.network = "ours" /\ rpc.getNetwork
    BY <1>7 DEF NetworkAnswer, GateKept
  <2>2. NetworkOK'
    BY <1>1, <2>1 DEF NetworkOK
  <2>3. ASSUME NEW c \in Callers
        PROVE  /\ Gated(c)' /\ calls'[c].at \in PastNetwork => NetworkOK'
               /\ Gated(c)' /\ calls'[c].at \in PastVersion => VersionOK'
    <3>1. CASE calls'[c] = Verified(c)
      <4>1. Gated(c)' => calls'[c].at = "version"
        BY <1>2, <3>1, MovesTo DEF Gated, Verified
      <4> QED BY <1>3, <2>2, <4>1
    <3> QED BY <1>5, <1>7, <3>1 DEF NetworkAnswer
  <2>4. /\ contractVersion' \in Versions => contractVersion' = rpc.version
        /\ contractVersionChecked' => VersionOK
    BY <1>7 DEF NetworkAnswer, GateKept, Versions
  <2> QED BY <1>6, <2>1, <2>3, <2>4
<1>8. CASE NetworkFailure
  <2>1. PICK cause \in {"lost", "mismatch"} :
          /\ calls' = [x \in Callers |-> IF x \in At("network") THEN Threw(x, cause) ELSE calls[x]]
          /\ contractVersion' \in {contractVersion, cause}
    BY <1>8 DEF NetworkFailure
  <2>2. cause \in Causes
    BY <1>2, <2>1
  <2>3. ASSUME NEW c \in Callers
        PROVE  /\ Gated(c)' /\ calls'[c].at \in PastNetwork => NetworkOK'
               /\ Gated(c)' /\ calls'[c].at \in PastVersion => VersionOK'
    <3>1. CASE calls'[c] = Threw(c, cause)
      BY <1>3, <2>2, <3>1, MovesTo
    <3> QED BY <1>5, <2>1, <3>1
  <2>4. /\ networkVerified' = "none" /\ (contractVersion' \in Versions => contractVersion' = rpc.version)
        /\ contractVersionChecked' => VersionOK
    BY <1>8, <2>1 DEF NetworkFailure, ClearedPromise, GateKept, Versions
  <2> QED BY <1>6, <2>3, <2>4
<1>9. CASE VersionAnswer \/ VersionFailure \/ RejectionPasses
  <2>1. PICK version \in Causes :
          /\ version = "supported" => version = rpc.version
          /\ calls' = [x \in Callers |-> IF x \in At("lookup") THEN Judged(x, version) ELSE calls[x]]
    BY <1>2, <1>9 DEF VersionAnswer, VersionFailure, RejectionPasses, Rejecting
  <2>2. ASSUME NEW c \in Callers
        PROVE  /\ Gated(c)' /\ calls'[c].at \in PastNetwork => NetworkOK'
               /\ Gated(c)' /\ calls'[c].at \in PastVersion => VersionOK'
    BY <1>4, <1>5, <2>1 DEF At
  <2>3. (\E c \in At("lookup") : calls'[c].at = "simulate") => VersionOK
    BY <1>4, <2>1 DEF At
  <2>4. contractVersionChecked' => contractVersionChecked \/ \E c \in At("lookup") : calls'[c].at = "simulate"
    BY <1>9 DEF VersionAnswer, VersionFailure, RejectionPasses
  <2>5. /\ networkVerified' = networkVerified
        /\ contractVersion' \in Versions => contractVersion' = rpc.version
    BY <1>9 DEF VersionAnswer, VersionFailure, RejectionPasses, Versions
  <2> QED BY <1>6, <2>2, <2>3, <2>4, <2>5 DEF GateKept
<1> QED BY <1>7, <1>8, <1>9 DEF Answers
-----------------------------------------------------------------------------
(* The phases of a call.                                                       *)

\* The spans of a call whose phases done are closed and whose phases open are not.
SpansWhere(done, open) ==
  [p \in Phases |-> IF p \in done THEN [opened |-> 1, ended |-> 1]
                    ELSE IF p \in open THEN [opened |-> 1, ended |-> 0]
                    ELSE [opened |-> 0, ended |-> 0]]

\* The two network phases go together.
BothOrNone(done) == "submit" \in done <=> "confirm" \in done

\* SpansBalanced looks at calls that return: the spans a call has where it is now.
SpansAt(call) ==
  config.onEvent =>
    /\ call.at \in {"idle", "passphrase", "network", "version", "lookup", "simulate"} =>
         call.spans = SpansWhere({}, {})
    /\ call.at = "sign" => call.spans = SpansWhere({"simulate"}, {})
    /\ call.at = "submit" => call.spans = SpansWhere({"simulate", "sign"}, {"submit"})
    /\ call.at = "confirm" => call.spans = SpansWhere({"simulate", "sign", "submit"}, {"confirm"})
    /\ call.at \in {"done", "failed"} =>
         \E done \in SUBSET Phases :
           /\ call.spans = SpansWhere(done, {}) /\ BothOrNone(done)
           /\ call.kind = "write" /\ call.at = "done" => done = Phases

\* Where a call waits for its checks.
GatePlaces == {"passphrase", "network", "version", "lookup"}

\* A call that waits for a lookup which is about to fail for an earlier loss.
HandedOn(c) == contractVersion = "lost" /\ calls[c].at = "lookup"

\* A failure that reports a lost request.
LostNow(call) == call.at = "failed" /\ call.cause = "lost"

\* A traced phase changes the spans of a call and nothing else of it.
LEMMA TraceKeeps ==
  ASSUME NEW call \in Call, NEW p \in Phases
  PROVE  /\ Opened(call, p).at = call.at /\ Opened(call, p).kind = call.kind
         /\ Opened(call, p).cause = call.cause /\ Opened(call, p).lostBefore = call.lostBefore
         /\ Ended(call, p).at = call.at /\ Ended(call, p).kind = call.kind
         /\ Ended(call, p).cause = call.cause /\ Ended(call, p).lostBefore = call.lostBefore
BY DEF Opened, Ended, Call

\* A phase that ends.
LEMMA TraceEnds ==
  ASSUME NEW call \in Call, NEW p \in Phases, config.onEvent, NEW done, NEW open,
         call.spans = SpansWhere(done, open)
  PROVE  Ended(call, p).spans = SpansWhere(done \cup {p}, open)
<1>1. call.spans \in Spans /\ DOMAIN call.spans = Phases
  BY DEF Call, Spans
<1>2. CASE p \in done
  <2>1. Ended(call, p).spans = call.spans
    BY <1>2 DEF Ended, SpansWhere
  <2>2. done \cup {p} = done
    BY <1>2
  <2> QED BY <2>1, <2>2
<1>3. CASE p \notin done
  <2>1. call.spans[p].ended = 0
    BY <1>3 DEF SpansWhere
  <2>2. Ended(call, p).spans = [call.spans EXCEPT ![p] = [opened |-> 1, ended |-> 1]]
    BY <2>1 DEF Ended, Call
  <2>3. [call.spans EXCEPT ![p] = [opened |-> 1, ended |-> 1]] = SpansWhere(done \cup {p}, open)
    BY DEF SpansWhere
  <2> QED BY <2>2, <2>3
<1> QED BY <1>2, <1>3

\* A phase that opens first of all.
LEMMA TraceOpens ==
  ASSUME NEW call \in Call, NEW p \in Phases, config.onEvent, NEW done,
         call.spans = SpansWhere(done, {})
  PROVE  Opened(call, p).spans = SpansWhere(done, {p})
<1>1. Opened(call, p).spans = [call.spans EXCEPT ![p].opened = 1]
  BY DEF Opened, Call
<1>2. [call.spans EXCEPT ![p].opened = 1] = SpansWhere(done, {p})
  BY DEF SpansWhere
<1> QED BY <1>1, <1>2

\* A phase that is closed is not open.
LEMMA ClosedSpans ==
  ASSUME NEW done, NEW open
  PROVE  /\ SpansWhere(done, open) = SpansWhere(done, open \ done)
         /\ NoSpans = SpansWhere({}, {})
BY DEF SpansWhere, NoSpans

\* A phase that opens and ends.
LEMMA TraceBoth ==
  ASSUME NEW call \in Call, NEW p \in Phases
  PROVE  LET traced == Ended(Opened(call, p), p) IN
         /\ traced \in Call
         /\ traced.at = call.at /\ traced.kind = call.kind
         /\ traced.cause = call.cause /\ traced.lostBefore = call.lostBefore
         /\ \A done \in SUBSET Phases :
              config.onEvent /\ call.spans = SpansWhere(done, {}) =>
                traced.spans = SpansWhere(done \cup {p}, {})
<1>1. PICK x \in Call : x = Opened(call, p)
  BY SpansKeepCalls
<1>2. ASSUME NEW done \in SUBSET Phases, config.onEvent, call.spans = SpansWhere(done, {})
      PROVE  Ended(x, p).spans = SpansWhere(done \cup {p}, {})
  <2>1. x.spans = SpansWhere(done, {p})
    BY <1>1, <1>2, TraceOpens
  <2>2. Ended(x, p).spans = SpansWhere(done \cup {p}, {p})
    BY <1>2, <2>1, TraceEnds
  <2>3. SpansWhere(done \cup {p}, {p}) = SpansWhere(done \cup {p}, {p} \ (done \cup {p}))
    BY ClosedSpans
  <2>4. {p} \ (done \cup {p}) = {}
    OBVIOUS
  <2> QED BY <2>2, <2>3, <2>4
<1>3. /\ x.at = call.at /\ x.kind = call.kind /\ x.cause = call.cause /\ x.lostBefore = call.lostBefore
  BY <1>1, TraceKeeps
<1>4. /\ Ended(x, p) \in Call /\ Ended(x, p).at = call.at /\ Ended(x, p).kind = call.kind
      /\ Ended(x, p).cause = call.cause /\ Ended(x, p).lostBefore = call.lostBefore
  BY <1>3, TraceKeeps, SpansKeepCalls
<1> QED BY <1>1, <1>2, <1>4

\* The phases and the return of a call: the kind stays, or the call is forgotten;
\* it fails for a lost request only as one is lost; and its spans are those of
\* the place it goes to.
PhaseMove(c, call) ==
  /\ call = Idle \/ /\ calls[c].at \in Phases /\ call.kind = calls[c].kind
                    /\ call.lostBefore = calls[c].lostBefore
                    /\ LostNow(call) => lost' = lost + 1
                    /\ call.at \notin GatePlaces
  /\ SpansAt(calls[c]) => SpansAt(call)

\* The simulation opens and ends its span, and no other.
LEMMA SimulateMoves ==
  ASSUME CallsTypeOK, NEW c \in Callers, Simulate(c)
  PROVE  \E call \in Call : Set(c, call) /\ PhaseMove(c, call)
<1>1. calls[c] \in Call /\ calls[c].at = "simulate" /\ "simulate" \in Phases
  BY DEF Simulate, CallsTypeOK, Phases
<1>2. PICK x \in Call : /\ x = Ended(Opened(calls[c], "simulate"), "simulate")
                        /\ x.kind = calls[c].kind /\ x.lostBefore = calls[c].lostBefore
                        /\ x.cause = calls[c].cause
                        /\ SpansAt(calls[c]) /\ config.onEvent => x.spans = SpansWhere({"simulate"}, {})
  <2>1. {} \cup {"simulate"} = {"simulate"} /\ {} \in SUBSET Phases
    OBVIOUS
  <2>2. SpansAt(calls[c]) /\ config.onEvent => calls[c].spans = SpansWhere({}, {})
    BY <1>1 DEF SpansAt
  <2> QED BY <1>1, <2>1, <2>2, TraceBoth
<1>3. CASE Traced(c, "simulate", IF calls[c].kind = "write" THEN "sign" ELSE "done")
  <2>1. PICK place \in {"sign", "done"} :
          /\ Set(c, [x EXCEPT !.at = place])
          /\ place = "done" => calls[c].kind # "write"
    BY <1>2, <1>3 DEF Traced
  <2>2. PICK call \in Call : call = [x EXCEPT !.at = place]
    <3>1. place \in Places
      BY <2>1 DEF Places, Phases
    <3> QED BY <3>1 DEF Call
  <2>3. /\ call.at = place /\ call.kind = calls[c].kind /\ call.lostBefore = calls[c].lostBefore
        /\ call.spans = x.spans
    BY <1>2, <2>2 DEF Call
  <2>4. SpansAt(calls[c]) => SpansAt(call)
    <3>1. {"simulate"} \in SUBSET Phases /\ BothOrNone({"simulate"})
      BY DEF Phases, BothOrNone
    <3> QED BY <1>2, <2>1, <2>3, <3>1 DEF SpansAt
  <2> QED BY <1>1, <2>1, <2>2, <2>3, <2>4 DEF PhaseMove, LostNow, GatePlaces
<1>4. CASE /\ lost' = lost + 1
           /\ Set(c, Ended(Opened(Threw(c, "lost"), "simulate"), "simulate"))
  <2>1. PICK y \in Call : /\ y = Threw(c, "lost") /\ y.at = "failed" /\ y.kind = calls[c].kind
                          /\ y.lostBefore = calls[c].lostBefore /\ y.spans = calls[c].spans
    <3>1. "lost" \in Causes /\ "failed" \in Places
      BY DEF Causes, Places
    <3>2. [calls[c] EXCEPT !.at = "failed", !.cause = "lost"] \in Call
      BY <1>1, <3>1, MovesKeepCalls
    <3> QED BY <1>1, <3>2 DEF Threw, Call
  <2>2. PICK call \in Call : /\ call = Ended(Opened(y, "simulate"), "simulate")
                             /\ call.at = "failed" /\ call.kind = calls[c].kind
                             /\ call.lostBefore = calls[c].lostBefore
                             /\ SpansAt(calls[c]) /\ config.onEvent => call.spans = SpansWhere({"simulate"}, {})
    <3>1. {} \cup {"simulate"} = {"simulate"} /\ {} \in SUBSET Phases
      OBVIOUS
    <3>2. SpansAt(calls[c]) /\ config.onEvent => y.spans = SpansWhere({}, {})
      BY <1>1, <2>1 DEF SpansAt
    <3> QED BY <1>1, <2>1, <3>1, <3>2, TraceBoth
  <2>3. SpansAt(calls[c]) => SpansAt(call)
    <3>1. {"simulate"} \in SUBSET Phases /\ BothOrNone({"simulate"})
      BY DEF Phases, BothOrNone
    <3> QED BY <2>2, <3>1 DEF SpansAt
  <2> QED BY <1>1, <1>4, <2>1, <2>2, <2>3 DEF PhaseMove, GatePlaces
<1> QED BY <1>3, <1>4 DEF Simulate

\* What stays of a call that throws, and of one that goes on.
LEMMA Throwing ==
  ASSUME CallsTypeOK, NEW c \in Callers, NEW cause \in Causes
  PROVE  /\ Threw(c, cause) \in Call /\ Threw(c, cause).at = "failed"
         /\ Threw(c, cause).kind = calls[c].kind /\ Threw(c, cause).cause = cause
         /\ Threw(c, cause).lostBefore = calls[c].lostBefore /\ Threw(c, cause).amid = calls[c].amid
         /\ Threw(c, cause).spans = calls[c].spans
<1>1. Threw(c, cause) \in Call
  BY WentType
<1> QED BY <1>1 DEF Threw, CallsTypeOK, Call

\* A call that goes on keeps all but its place.
LEMMA Going ==
  ASSUME NEW call \in Call, NEW place \in Places
  PROVE  LET gone == [call EXCEPT !.at = place] IN
         /\ gone \in Call /\ gone.at = place
         /\ gone.kind = call.kind /\ gone.cause = call.cause
         /\ gone.lostBefore = call.lostBefore /\ gone.spans = call.spans
BY DEF Call

\* A call that changes nothing or that the signer declines is not sent.
LEMMA SignMoves ==
  ASSUME CallsTypeOK, NEW c \in Callers, Sign(c)
  PROVE  \E call \in Call : Set(c, call) /\ PhaseMove(c, call)
<1>1. calls[c] \in Call /\ calls[c].at = "sign"
  BY DEF Sign, CallsTypeOK
<1>2. /\ "sign" \in Phases /\ "submit" \in Phases /\ "submit" \in Places
      /\ "read call" \in Causes /\ "declined" \in Causes
  BY DEF Phases, Places, Causes
<1>9. /\ {"simulate"} \cup {"sign"} = {"simulate", "sign"}
      /\ {"simulate"} \in SUBSET Phases /\ {"simulate", "sign"} \in SUBSET Phases
      /\ BothOrNone({"simulate"}) /\ BothOrNone({"simulate", "sign"})
  BY DEF Phases, BothOrNone
<1>3. SpansAt(calls[c]) /\ config.onEvent => calls[c].spans = SpansWhere({"simulate"}, {})
  BY <1>1 DEF SpansAt
<1>4. CASE Set(c, Threw(c, "read call"))
  <2>1. PICK call \in Call : /\ call = Threw(c, "read call") /\ call.at = "failed" /\ call.kind = calls[c].kind
                             /\ call.cause = "read call" /\ call.lostBefore = calls[c].lostBefore
                             /\ call.spans = calls[c].spans
    BY <1>2, Throwing
  <2>2. SpansAt(calls[c]) => SpansAt(call)
    BY <1>9, <1>3, <2>1 DEF SpansAt
  <2> QED BY <1>1, <1>2, <1>4, <2>1, <2>2 DEF PhaseMove, LostNow, GatePlaces
<1>5. CASE Set(c, Ended(Opened(Threw(c, "declined"), "sign"), "sign"))
  <2>1. PICK x \in Call : /\ x = Threw(c, "declined") /\ x.at = "failed" /\ x.kind = calls[c].kind
                          /\ x.cause = "declined" /\ x.lostBefore = calls[c].lostBefore
                          /\ x.spans = calls[c].spans
    BY <1>2, Throwing
  <2>2. PICK call \in Call : /\ call = Ended(Opened(x, "sign"), "sign")
                             /\ call.at = "failed" /\ call.kind = calls[c].kind
                             /\ call.cause = "declined" /\ call.lostBefore = calls[c].lostBefore
                             /\ SpansAt(calls[c]) /\ config.onEvent => call.spans = SpansWhere({"simulate", "sign"}, {})
    <3>1. LET traced == Ended(Opened(x, "sign"), "sign") IN
          /\ traced \in Call /\ traced.at = x.at /\ traced.kind = x.kind
          /\ traced.cause = x.cause /\ traced.lostBefore = x.lostBefore
          /\ \A done \in SUBSET Phases : config.onEvent /\ x.spans = SpansWhere(done, {}) =>
               traced.spans = SpansWhere(done \cup {"sign"}, {})
      BY <1>2, TraceBoth
    <3>2. SpansAt(calls[c]) /\ config.onEvent => x.spans = SpansWhere({"simulate"}, {})
      BY <1>3, <2>1
    <3> QED BY <1>9, <2>1, <3>1, <3>2
  <2>3. SpansAt(calls[c]) => SpansAt(call)
    BY <1>9, <2>2 DEF SpansAt
  <2> QED BY <1>1, <1>2, <1>5, <2>1, <2>2, <2>3 DEF PhaseMove, LostNow, GatePlaces
<1>6. CASE Set(c, Opened([Ended(Opened(calls[c], "sign"), "sign") EXCEPT !.at = "submit"], "submit"))
  <2>1. PICK x \in Call : /\ x = Ended(Opened(calls[c], "sign"), "sign") /\ x.kind = calls[c].kind
                          /\ x.lostBefore = calls[c].lostBefore
                          /\ SpansAt(calls[c]) /\ config.onEvent => x.spans = SpansWhere({"simulate", "sign"}, {})
    <3>1. LET traced == Ended(Opened(calls[c], "sign"), "sign") IN
          /\ traced \in Call /\ traced.kind = calls[c].kind
          /\ traced.lostBefore = calls[c].lostBefore
          /\ \A done \in SUBSET Phases : config.onEvent /\ calls[c].spans = SpansWhere(done, {}) =>
               traced.spans = SpansWhere(done \cup {"sign"}, {})
      BY <1>1, <1>2, TraceBoth
    <3> QED BY <1>9, <1>3, <3>1
  <2>2. PICK y \in Call : /\ y = [x EXCEPT !.at = "submit"] /\ y.at = "submit" /\ y.kind = x.kind
                          /\ y.lostBefore = x.lostBefore /\ y.spans = x.spans
    BY <1>2, Going
  <2>3. PICK call \in Call : /\ call = Opened(y, "submit") /\ call.at = y.at /\ call.kind = y.kind
                             /\ call.lostBefore = y.lostBefore
    BY <1>2, SpansKeepCalls, TraceKeeps
  <2>4. SpansAt(calls[c]) /\ config.onEvent => call.spans = SpansWhere({"simulate", "sign"}, {"submit"})
    <3>1. SpansAt(calls[c]) /\ config.onEvent => y.spans = SpansWhere({"simulate", "sign"}, {})
      BY <2>1, <2>2
    <3> QED BY <1>2, <2>3, <3>1, TraceOpens
  <2>5. SpansAt(calls[c]) => SpansAt(call)
    BY <2>2, <2>3, <2>4 DEF SpansAt
  <2> QED BY <1>1, <1>2, <1>6, <2>1, <2>2, <2>3, <2>5 DEF PhaseMove, LostNow, GatePlaces
<1> QED BY <1>4, <1>5, <1>6 DEF Sign

\* The submission is known, and then what became of it.
LEMMA SendMoves ==
  ASSUME CallsTypeOK, NEW c \in Callers, OnSubmitted(c) \/ SendThrows(c) \/ Confirm(c)
  PROVE  \E call \in Call : Set(c, call) /\ PhaseMove(c, call)
<1>1. calls[c] \in Call /\ calls[c].at \in {"submit", "confirm"}
  BY DEF OnSubmitted, SendThrows, Confirm, CallsTypeOK
<1>2. /\ "submit" \in Phases /\ "confirm" \in Phases
      /\ "confirm" \in Places /\ "failed" \in Places /\ "done" \in Places /\ "lost" \in Causes
  BY DEF Phases, Places, Causes
<1>9. /\ {"simulate", "sign"} \cup {"submit"} = {"simulate", "sign", "submit"}
      /\ {"simulate", "sign", "submit"} \cup {"confirm"} = Phases
      /\ {"simulate", "sign"} \in SUBSET Phases /\ {"simulate", "sign", "submit"} \in SUBSET Phases
      /\ Phases \in SUBSET Phases /\ BothOrNone(Phases)
  BY DEF Phases, BothOrNone
<1>3. PICK sent \in Call :
        /\ sent = IF calls[c].at = "submit" THEN Ended(calls[c], "submit") ELSE calls[c]
        /\ sent.at = calls[c].at /\ sent.kind = calls[c].kind /\ sent.lostBefore = calls[c].lostBefore
  BY <1>1, <1>2, SpansKeepCalls, TraceKeeps
<1>4. SpansAt(calls[c]) /\ config.onEvent =>
        \E open : /\ sent.spans = SpansWhere({"simulate", "sign", "submit"}, open)
                  /\ open = IF calls[c].at = "submit" THEN {} ELSE {"confirm"}
  <2>1. CASE calls[c].at = "submit" /\ SpansAt(calls[c]) /\ config.onEvent
    <3>1. calls[c].spans = SpansWhere({"simulate", "sign"}, {"submit"})
      BY <2>1 DEF SpansAt
    <3>2. sent.spans = SpansWhere({"simulate", "sign", "submit"}, {"submit"})
      BY <1>1, <1>2, <1>9, <1>3, <2>1, <3>1, TraceEnds
    <3>3. {"submit"} \ {"simulate", "sign", "submit"} = {}
      OBVIOUS
    <3> QED BY <2>1, <3>2, <3>3, ClosedSpans
  <2>2. CASE calls[c].at = "confirm" /\ SpansAt(calls[c]) /\ config.onEvent
    BY <1>3, <2>2 DEF SpansAt
  <2> QED BY <1>1, <2>1, <2>2
<1>5. PICK ended \in Call :
        /\ ended = Ended(sent, "confirm")
        /\ ended.at = calls[c].at /\ ended.kind = calls[c].kind /\ ended.lostBefore = calls[c].lostBefore
        /\ SpansAt(calls[c]) /\ config.onEvent => ended.spans = SpansWhere(Phases, {})
  <2>1. Ended(sent, "confirm") \in Call /\ "confirm" \in Phases
    BY <1>2, SpansKeepCalls
  <2>2. ASSUME NEW closed, NEW open, config.onEvent, sent.spans = SpansWhere(closed, open)
        PROVE  Ended(sent, "confirm").spans = SpansWhere(closed \cup {"confirm"}, open)
    BY <1>2, <2>2, TraceEnds
  <2>4. ASSUME NEW open, open \subseteq Phases, config.onEvent,
               sent.spans = SpansWhere({"simulate", "sign", "submit"}, open)
        PROVE  Ended(sent, "confirm").spans = SpansWhere(Phases, {})
    <3>1. Ended(sent, "confirm").spans = SpansWhere({"simulate", "sign", "submit"} \cup {"confirm"}, open)
      BY <2>2, <2>4
    <3>2. open \ Phases = {}
      BY <2>4
    <3> QED BY <1>9, <3>1, <3>2, ClosedSpans
  <2>3. SpansAt(calls[c]) /\ config.onEvent => Ended(sent, "confirm").spans = SpansWhere(Phases, {})
    BY <1>2, <1>9, <1>4, <2>4
  <2> QED BY <1>3, <2>1, <2>3, TraceKeeps
<1>6. CASE OnSubmitted(c)
  <2>1. PICK x \in Call : /\ x = [sent EXCEPT !.at = "confirm"] /\ x.at = "confirm" /\ x.kind = sent.kind
                          /\ x.lostBefore = sent.lostBefore /\ x.spans = sent.spans
    BY <1>2, Going
  <2>2. PICK call \in Call : /\ call = Opened(x, "confirm") /\ call.at = x.at /\ call.kind = x.kind
                             /\ call.lostBefore = x.lostBefore
    BY <1>2, SpansKeepCalls, TraceKeeps
  <2>3. Set(c, call) /\ calls[c].at = "submit"
    BY <1>3, <1>6, <2>1, <2>2 DEF OnSubmitted
  <2>4. SpansAt(calls[c]) /\ config.onEvent => call.spans = SpansWhere({"simulate", "sign", "submit"}, {"confirm"})
    <3>1. SpansAt(calls[c]) /\ config.onEvent => x.spans = SpansWhere({"simulate", "sign", "submit"}, {})
      BY <1>4, <2>1, <2>3
    <3>2. ASSUME config.onEvent, x.spans = SpansWhere({"simulate", "sign", "submit"}, {})
          PROVE  Opened(x, "confirm").spans = SpansWhere({"simulate", "sign", "submit"}, {"confirm"})
      BY <1>2, <3>2, TraceOpens
    <3> QED BY <2>2, <3>1, <3>2
  <2>5. SpansAt(calls[c]) => SpansAt(call)
    BY <2>1, <2>2, <2>4 DEF SpansAt
  <2> QED BY <1>2, <1>3, <2>1, <2>2, <2>3, <2>5 DEF PhaseMove, LostNow, GatePlaces
<1>7. CASE SendThrows(c)
  <2>1. SpansOfThrow(calls[c]) = ended
    BY <1>3, <1>5 DEF SpansOfThrow
  <2>2. PICK call \in Call : /\ call = [ended EXCEPT !.at = "failed", !.cause = "lost"]
                             /\ call.at = "failed" /\ call.kind = calls[c].kind
                             /\ call.lostBefore = calls[c].lostBefore /\ call.spans = ended.spans
    <3>1. [ended EXCEPT !.at = "failed", !.cause = "lost"] \in Call
      BY <1>2, MovesKeepCalls
    <3> QED BY <1>5, <3>1 DEF Call
  <2>3. SpansAt(calls[c]) => SpansAt(call)
    BY <1>9, <1>5, <2>2 DEF SpansAt
  <2>4. Set(c, call) /\ lost' = lost + 1
    BY <1>7, <2>1, <2>2 DEF SendThrows
  <2> QED BY <1>1, <1>2, <2>2, <2>3, <2>4 DEF PhaseMove, GatePlaces
<1>8. CASE Confirm(c)
  <2>1. calls[c].at = "confirm" /\ sent = calls[c]
    BY <1>3, <1>8 DEF Confirm
  <2>2. PICK call \in Call : /\ call = [ended EXCEPT !.at = "done"]
                             /\ call.at = "done" /\ call.kind = ended.kind
                             /\ call.lostBefore = ended.lostBefore /\ call.spans = ended.spans
    BY <1>2, Going
  <2>3. SpansAt(calls[c]) => SpansAt(call)
    BY <1>9, <1>5, <2>2 DEF SpansAt
  <2>4. Set(c, call)
    BY <1>5, <1>8, <2>1, <2>2 DEF Confirm
  <2> QED BY <1>2, <1>5, <2>1, <2>2, <2>3, <2>4 DEF PhaseMove, LostNow, GatePlaces
<1> QED BY <1>6, <1>7, <1>8

\* A phase or the return of a call, and nothing else of the client.
LEMMA PhaseMoves ==
  ASSUME CallsTypeOK, NEW c \in Callers,
         Simulate(c) \/ Sign(c) \/ OnSubmitted(c) \/ SendThrows(c) \/ Confirm(c) \/ Return(c)
  PROVE  /\ \E call \in Call : Set(c, call) /\ PhaseMove(c, call)
         /\ UNCHANGED caches
<1>1. UNCHANGED caches
  BY DEF Simulate, Sign, OnSubmitted, SendThrows, Confirm, Return
<1>2. CASE Return(c)
  <2>1. SpansAt(Idle)
    BY IdleType, ClosedSpans DEF SpansAt
  <2> QED BY <1>1, <1>2, <2>1, IdleType DEF Return, PhaseMove
<1> QED BY <1>1, <1>2, SimulateMoves, SignMoves, SendMoves

\* A move of a call at the gate: it passes a check, waits or fails, and only an
\* explicit check ends there.  It fails for a lost request only as one is lost, or
\* as a rejected lookup hands on an earlier loss.
GateMove(c, call) ==
  /\ calls[c].at \in GatePlaces
  /\ call.kind = calls[c].kind /\ call.lostBefore = calls[c].lostBefore /\ call.amid = calls[c].amid
  /\ call.spans = calls[c].spans
  /\ call.at \in {"network", "version", "lookup", "simulate", "done", "failed"}
  /\ call.at = "network" => calls[c].at = "passphrase"
  /\ call.at = "version" => calls[c].at \in {"passphrase", "network"} /\ call.kind # "verifyNetwork"
  /\ call.at = "lookup" => calls[c].at = "version"
  /\ LostNow(call) => lost' = lost + 1 \/ HandedOn(c)
  /\ call.at = "done" => call.kind # "write"

\* Each of the ways a call leaves the gate.
LEMMA GateWays ==
  ASSUME CallsTypeOK, NEW c \in Callers, calls[c].at \in GatePlaces
  PROVE  /\ calls[c].at = "passphrase" => GateMove(c, Went(c, "network"))
         /\ calls[c].at = "version" => GateMove(c, Went(c, "lookup"))
         /\ calls[c].at \in {"passphrase", "network"} => GateMove(c, Verified(c))
         /\ GateMove(c, Went(c, "simulate"))
         /\ \A cause \in Causes :
              (cause = "lost" => lost' = lost + 1 \/ HandedOn(c)) => GateMove(c, Threw(c, cause))
         /\ \A version \in Causes :
              (version = "lost" => lost' = lost + 1 \/ HandedOn(c)) => GateMove(c, Judged(c, version))
<1>1. calls[c] \in Call
  BY DEF CallsTypeOK
<1>2. /\ "network" \in Places /\ "lookup" \in Places /\ "simulate" \in Places
      /\ "version" \in Places /\ "done" \in Places /\ "lost" \in Causes
  BY DEF Places, Phases, Causes
<1>3. ASSUME NEW place \in Places
      PROVE  /\ Went(c, place).at = place /\ Went(c, place).kind = calls[c].kind
             /\ Went(c, place).lostBefore = calls[c].lostBefore /\ Went(c, place).amid = calls[c].amid
             /\ Went(c, place).spans = calls[c].spans
  BY <1>1, <1>3 DEF Went, Call
<1>4. /\ calls[c].at = "passphrase" => GateMove(c, Went(c, "network"))
      /\ calls[c].at = "version" => GateMove(c, Went(c, "lookup"))
      /\ GateMove(c, Went(c, "simulate"))
  BY <1>2, <1>3 DEF GateMove, LostNow
<1>5. calls[c].at \in {"passphrase", "network"} => GateMove(c, Verified(c))
  BY <1>2, <1>3 DEF GateMove, LostNow, Verified
<1>6. ASSUME NEW cause \in Causes, cause = "lost" => lost' = lost + 1 \/ HandedOn(c)
      PROVE  GateMove(c, Threw(c, cause))
  BY <1>6, Throwing DEF GateMove, LostNow
<1>7. ASSUME NEW version \in Causes, version = "lost" => lost' = lost + 1 \/ HandedOn(c)
      PROVE  GateMove(c, Judged(c, version))
  <2>1. GateMove(c, Threw(c, version))
    BY <1>6, <1>7
  <2>2. calls[c].kind = "verifyContractVersion" => GateMove(c, Went(c, "done"))
    BY <1>2, <1>3 DEF GateMove, LostNow
  <2> QED BY <1>4, <2>1, <2>2 DEF Judged
<1> QED BY <1>2, <1>4, <1>5, <1>6, <1>7

\* A call at one of the checks.
LEMMA CheckMoves ==
  ASSUME CallsTypeOK, NEW c \in Callers, CheckPassphrase(c) \/ CheckVersion(c)
  PROVE  \E call \in Call : Set(c, call) /\ GateMove(c, call)
<1>1. \/ calls[c].at = "passphrase" /\ CheckPassphrase(c)
      \/ calls[c].at = "version" /\ CheckVersion(c)
  BY DEF CheckPassphrase, CheckVersion
<1>2. /\ "no getNetwork" \in Causes /\ "no getNetwork" # "lost"
      /\ Versions \subseteq Causes /\ "lost" \notin Versions
  BY DEF Causes, Versions
<1>3. /\ calls[c].at = "passphrase" => GateMove(c, Went(c, "network")) /\ GateMove(c, Verified(c))
      /\ calls[c].at = "version" => GateMove(c, Went(c, "lookup"))
      /\ GateMove(c, Went(c, "simulate")) /\ GateMove(c, Threw(c, "no getNetwork"))
      /\ \A version \in Versions : GateMove(c, Judged(c, version))
  BY <1>1, <1>2, GateWays DEF GatePlaces
<1>4. /\ Went(c, "network") \in Call /\ Went(c, "lookup") \in Call /\ Went(c, "simulate") \in Call
      /\ Verified(c) \in Call /\ Threw(c, "no getNetwork") \in Call
      /\ \A version \in Versions : Judged(c, version) \in Call
  <2>1. "network" \in Places /\ "lookup" \in Places /\ "simulate" \in Places
    BY DEF Places, Phases
  <2> QED BY <1>2, <2>1, WentType
<1>5. CASE CheckPassphrase(c)
  <2>3. calls[c].at = "passphrase"
    BY <1>5 DEF CheckPassphrase
  <2>1. \/ Set(c, Verified(c))
        \/ NetworkKnown /\ Set(c, Awaited(c, networkVerified))
        \/ Set(c, Threw(c, "no getNetwork"))
        \/ Set(c, Went(c, "network"))
    BY <1>5 DEF CheckPassphrase
  <2>2. NetworkKnown => Awaited(c, networkVerified) = Verified(c)
    BY DEF NetworkKnown, CallsTypeOK, Awaited
  <2> QED BY <1>3, <1>4, <2>1, <2>2, <2>3
<1>6. CASE CheckVersion(c)
  <2>3. calls[c].at = "version"
    BY <1>6 DEF CheckVersion
  <2>1. \/ Set(c, Went(c, "simulate"))
        \/ contractVersion \in Versions /\ Set(c, Judged(c, contractVersion))
        \/ Set(c, Went(c, "lookup"))
        \/ Set(c, Threw(c, "no getNetwork"))
    BY <1>6 DEF CheckVersion, Versions
  <2> QED BY <1>3, <1>4, <2>1, <2>3
<1> QED BY <1>5, <1>6

\* The calls that an answer wakes, or the loss of one.
LEMMA AnswerMoves ==
  ASSUME CallsTypeOK, Answers, NEW c \in Callers
  PROVE  calls'[c] = calls[c] \/ GateMove(c, calls'[c])
<1>1. /\ "mismatch" \in Causes /\ "lost" \in Causes /\ rpc.version \in Causes /\ rpc.version # "lost"
  BY DEF Causes, CallsTypeOK, Rpc, Versions
<1>2. CASE NetworkAnswer
  BY <1>2, GateWays DEF NetworkAnswer, At, GatePlaces
<1>3. CASE NetworkFailure
  <2>1. PICK cause \in {"lost", "mismatch"} :
          /\ calls' = [x \in Callers |-> IF x \in At("network") THEN Threw(x, cause) ELSE calls[x]]
          /\ cause = "lost" => lost' > lost
    BY <1>3 DEF NetworkFailure
  <2>2. lost' > lost => lost' = lost + 1
    BY <1>3 DEF NetworkFailure, CallsTypeOK
  <2>3. cause \in Causes /\ (cause = "lost" => lost' = lost + 1)
    BY <1>1, <2>1, <2>2
  <2>4. ASSUME calls[c].at = "network" PROVE GateMove(c, Threw(c, cause))
    BY <2>3, <2>4, GateWays DEF GatePlaces
  <2> QED BY <2>1, <2>4 DEF At
<1>4. CASE VersionAnswer
  BY <1>1, <1>4, GateWays DEF VersionAnswer, At, GatePlaces
<1>5. CASE VersionFailure
  BY <1>1, <1>5, GateWays DEF VersionFailure, At, GatePlaces
<1>6. CASE RejectionPasses
  <2>1. contractVersion \in Causes /\ calls'[c] \in {calls[c], Judged(c, contractVersion)}
    BY <1>6 DEF RejectionPasses, Rejecting, Causes
  <2>2. calls[c].at = "lookup" => GateMove(c, Judged(c, contractVersion))
    BY <2>1, GateWays DEF GatePlaces, HandedOn
  <2> QED BY <1>6, <2>2 DEF RejectionPasses, At
<1> QED BY <1>2, <1>3, <1>4, <1>5, <1>6 DEF Answers

\* Every step, seen from one call.
CallMove(c) ==
  \/ calls'[c] = calls[c]
  \/ /\ calls'[c].lostBefore = lost /\ calls'[c].amid = Rejecting /\ calls'[c].spans = NoSpans
     /\ \/ calls'[c].at = "passphrase" /\ calls'[c].kind \in {"write", "read", "verifyNetwork"}
        \/ calls'[c].at = "version" /\ calls'[c].kind = "verifyContractVersion"
        \/ calls'[c].at = "simulate"
  \/ PhaseMove(c, calls'[c])
  \/ GateMove(c, calls'[c])

\* Every step of every caller is one of these moves for each of them.
LEMMA CallMoves ==
  ASSUME CallsTypeOK, [CallNext]_callVars, NEW c \in Callers
  PROVE  CallMove(c)
<1>1. ASSUME NEW x \in Callers, NEW kind \in Kinds, Start(x, kind) PROVE CallMove(c)
  <2>1. PICK place :
          /\ place = CASE kind = "openRead" -> "simulate"
                       [] kind = "verifyContractVersion" -> "version"
                       [] OTHER -> "passphrase"
          /\ Set(x, Made(kind, place))
    BY <1>1 DEF Start, Made
  <2>2. /\ Made(kind, place).at = place /\ Made(kind, place).lostBefore = lost
        /\ Made(kind, place).amid = Rejecting /\ Made(kind, place).kind = kind
        /\ Made(kind, place).spans = NoSpans
    BY DEF Made, Idle
  <2>3. \/ place = "passphrase" /\ kind \in {"write", "read", "verifyNetwork"}
        \/ place = "version" /\ kind = "verifyContractVersion"
        \/ place = "simulate"
    BY <2>1 DEF Kinds
  <2> QED BY <2>1, <2>2, <2>3, SetOne DEF CallMove
<1>2. ASSUME NEW x \in Callers, CallStep(x) PROVE CallMove(c)
  <2>1. CASE CheckPassphrase(x) \/ CheckVersion(x)
    BY <2>1, CheckMoves, SetOne DEF CallMove
  <2>2. CASE Simulate(x) \/ Sign(x) \/ OnSubmitted(x) \/ SendThrows(x) \/ Confirm(x) \/ Return(x)
    BY <2>2, PhaseMoves, SetOne DEF CallMove
  <2> QED BY <1>2, <2>1, <2>2 DEF CallStep, Waited
<1>3. CASE Answers
  BY <1>3, AnswerMoves DEF CallMove
<1>4. CASE UNCHANGED callVars
  BY <1>4 DEF callVars, CallMove
<1> QED BY <1>1, <1>2, <1>3, <1>4 DEF CallNext

-----------------------------------------------------------------------------
(* The three promises about calls.                                             *)

\* The phases leave the gate behind as it was.
LEMMA GateStep ==
  ASSUME CallsTypeOK, GateKept, [CallNext]_callVars
  PROVE  GateKept'
<1>1. ASSUME NEW c \in Callers, NEW kind \in Kinds, Start(c, kind) PROVE GateKept'
  <2>1. PICK call : /\ Set(c, call) /\ call.kind = kind
                    /\ call.at = CASE kind = "openRead" -> "simulate"
                                   [] kind = "verifyContractVersion" -> "version"
                                   [] OTHER -> "passphrase"
    <3>1. PICK place : /\ place = CASE kind = "openRead" -> "simulate"
                                   [] kind = "verifyContractVersion" -> "version"
                                   [] OTHER -> "passphrase"
                       /\ Set(c, Made(kind, place))
      BY <1>1 DEF Start, Made
    <3>2. Made(kind, place).kind = kind /\ Made(kind, place).at = place
      BY DEF Made, Idle
    <3> QED BY <3>1, <3>2
  <2>2. kind \in {"write", "read"} => call.at = "passphrase"
    BY <2>1
  <2>3. "passphrase" \notin PastNetwork /\ "passphrase" \notin PastVersion
    BY DEF PastNetwork, PastVersion, Phases
  <2>4. UNCHANGED <<networkVerified, contractVersion, contractVersionChecked>>
    BY <1>1 DEF Start, caches
  <2> QED BY <2>1, <2>2, <2>3, <2>4, OneGate
<1>2. ASSUME NEW c \in Callers, CallStep(c) PROVE GateKept'
  <2>1. CASE CheckPassphrase(c)
    BY <2>1, PassphraseGate
  <2>2. CASE CheckVersion(c)
    BY <2>2, VersionGate
  <2>3. CASE Simulate(c) \/ Sign(c) \/ OnSubmitted(c) \/ SendThrows(c) \/ Confirm(c) \/ Return(c)
    <3>1. PICK call \in Call : Set(c, call) /\ PhaseMove(c, call)
      BY <2>3, PhaseMoves
    <3>2. UNCHANGED <<networkVerified, contractVersion, contractVersionChecked>>
      BY <2>3, PhaseMoves DEF caches
    <3>3. call.kind \in {"write", "read"} => Gated(c) /\ calls[c].at \in Phases
      BY <3>1, IdleType DEF PhaseMove, Gated
    <3>4. call.kind \in {"write", "read"} => NetworkOK /\ VersionOK
      BY <3>3 DEF GateKept, PastNetwork, PastVersion
    <3> QED BY <3>1, <3>2, <3>4, OneGate
  <2> QED BY <1>2, <2>1, <2>2, <2>3 DEF CallStep, Waited
<1>3. CASE Answers
  BY <1>3, AnswersGate
<1>4. CASE UNCHANGED callVars
  <2>1. UNCHANGED <<config, rpc, networkVerified, contractVersion, contractVersionChecked, calls>>
    BY <1>4 DEF callVars, caches
  <2> QED BY <2>1 DEF GateKept, Gated, NetworkOK, VersionOK, NetworkVerification, ContractVersionCheck
<1> QED BY <1>1, <1>2, <1>3, <1>4 DEF CallNext

\* A client starts behind the gate.
LEMMA GateInit == CallsInit => GateKept
<1> SUFFICES ASSUME NEW cf \in Configs, NEW r \in Rpcs, CallInit(cf, r) PROVE GateKept
  BY DEF CallsInit
<1>1. /\ networkVerified = "none" /\ contractVersion = "none" /\ contractVersionChecked = FALSE
      /\ \A c \in Callers : calls[c] = Idle
  BY DEF CallInit
<1>2. \A c \in Callers : ~Gated(c)
  BY <1>1, IdleType DEF Gated
<1> QED BY <1>1, <1>2 DEF GateKept, Versions

\* For any callers, configuration and server: no write and no checked read gets
\* past the checks unless they found, for it or for another call that shares them,
\* what the modes ask for (ensureNetworkPassphrase, ensureContractVersion).
THEOREM CallsAreVerified == CallsSpec => []VerifiedBeforeSent
<1>1. GateKept => VerifiedBeforeSent
  BY DEF GateKept, VerifiedBeforeSent, Gated, PastVersion, PastNetwork, NetworkOK, VersionOK
<1>2. CallsSpec => []GateKept
  BY GateInit, CallsTyped, GateStep, PTL DEF CallsSpec
<1> QED BY <1>1, <1>2, PTL

\* A call that asks for the version only while an earlier failure passes through.
Late(call) == call.kind = "verifyContractVersion" /\ call.amid

\* FailuresAreFresh looks at calls that have failed.  Before, a call at a check is
\* of a kind that makes the check, and while a loss passes through the promises
\* every call there was made before the loss or amid its passing.  A lookup that
\* waits for the network check is one that needed it, and no check is done then.
LossesCounted ==
  /\ \A c \in Callers :
       /\ calls[c].lostBefore <= lost
       /\ LostNow(calls[c]) => calls[c].lostBefore < lost \/ Late(calls[c])
       /\ contractVersion = "lost" /\ calls[c].at \in GatePlaces =>
            calls[c].lostBefore < lost \/ calls[c].amid
       /\ calls[c].at \in {"passphrase", "network"} => calls[c].kind \in {"write", "read", "verifyNetwork"}
       /\ calls[c].at \in {"version", "lookup"} =>
            calls[c].kind \in {"write", "read", "verifyContractVersion"}
  /\ Rejecting \/ contractVersion = "network" => NetworkVerification # "off" /\ rpc.getNetwork
  /\ Rejecting => networkVerified # "verified"

\* Which lookups can fail with the network check, and what may happen until they do.
LEMMA RejectionStep ==
  ASSUME CallsTypeOK, LossesCounted, [CallNext]_callVars
  PROVE  /\ (Rejecting \/ contractVersion = "network" => NetworkVerification # "off" /\ rpc.getNetwork)'
         /\ (Rejecting => networkVerified # "verified")'
         /\ contractVersion' = "lost" => contractVersion = "lost" \/ lost' = lost + 1
<1>1. UNCHANGED rpc /\ NetworkVerification' = NetworkVerification
  BY CallsOnward, ChecksStay
<1>2. CASE UNCHANGED <<contractVersion, networkVerified>>
  BY <1>1, <1>2 DEF LossesCounted, Rejecting
<1>3. ASSUME NEW c \in Callers, CheckPassphrase(c)
      PROVE  contractVersion' = contractVersion /\ networkVerified' \in {networkVerified, "pending"}
  BY <1>3 DEF CheckPassphrase
<1>4. ASSUME NEW c \in Callers, CheckVersion(c), contractVersion' # contractVersion
      PROVE  \/ contractVersion' = "pending"
             \/ contractVersion' = "network" /\ NetworkVerification # "off" /\ rpc.getNetwork
  BY <1>4 DEF CheckVersion, caches
<1>5. ASSUME NEW c \in Callers, CheckVersion(c) PROVE networkVerified' \in {networkVerified, "pending"}
  BY <1>5 DEF CheckVersion, caches
<1>6. ASSUME NEW c \in Callers, CallStep(c), ~CheckPassphrase(c), ~CheckVersion(c)
      PROVE  UNCHANGED <<contractVersion, networkVerified>>
  BY <1>6 DEF CallStep, Waited, Simulate, Sign, OnSubmitted, SendThrows, Confirm, Return, caches
<1>7. CASE \E c \in Callers : CallStep(c)
  BY <1>1, <1>2, <1>3, <1>4, <1>5, <1>6, <1>7 DEF LossesCounted, Rejecting
<1>8. CASE ~Rejecting /\ NetworkAnswer
  BY <1>1, <1>8 DEF NetworkAnswer, LossesCounted, Rejecting
<1>9. CASE ~Rejecting /\ NetworkFailure
  <2>1. PICK cause \in {"lost", "mismatch"} :
          /\ contractVersion' = IF contractVersion = "network" THEN cause ELSE contractVersion
          /\ cause = "lost" => lost' > lost
    BY <1>9 DEF NetworkFailure
  <2>2. lost' > lost => lost' = lost + 1
    BY <1>9 DEF NetworkFailure, CallsTypeOK
  <2>3. networkVerified' = "none"
    BY <1>9 DEF NetworkFailure, ClearedPromise
  <2> QED BY <1>1, <1>9, <2>1, <2>2, <2>3 DEF LossesCounted, Rejecting
<1>10. CASE VersionAnswer
  <2>1. contractVersion' \in Versions
    BY <1>10 DEF VersionAnswer, CallsTypeOK, Rpc, Versions
  <2> QED BY <2>1 DEF Versions, Rejecting
<1>11. CASE VersionFailure \/ RejectionPasses
  BY <1>11 DEF VersionFailure, RejectionPasses, Rejecting
<1>12. ASSUME NEW c \in Callers, NEW kind \in Kinds, Start(c, kind)
       PROVE  UNCHANGED <<contractVersion, networkVerified>>
  BY <1>12 DEF Start, caches
<1>13. CASE UNCHANGED callVars
  BY <1>2, <1>13 DEF callVars, caches
<1> QED BY <1>2, <1>7, <1>8, <1>9, <1>10, <1>11, <1>12, <1>13 DEF CallNext, Answers

\* Only explicit requests wait for a lookup that fails with the network check: a
\* gated call asks for the version once the network is verified.
LEMMA HandedOnLate ==
  ASSUME CallsTypeOK, GateKept, LossesCounted, NEW c \in Callers, HandedOn(c)
  PROVE  calls[c].kind = "verifyContractVersion" /\ (calls[c].lostBefore < lost \/ Late(calls[c]))
<1>1. Rejecting /\ calls[c].at = "lookup"
  BY DEF HandedOn, Rejecting
<1>2. ~NetworkOK
  BY <1>1 DEF LossesCounted, NetworkOK
<1>3. ~Gated(c)
  BY <1>1, <1>2 DEF GateKept, PastNetwork
<1>4. calls[c].kind = "verifyContractVersion"
  BY <1>1, <1>3 DEF LossesCounted, Gated
<1> QED BY <1>1, <1>4 DEF LossesCounted, Late, HandedOn, GatePlaces

\* A step that fails a call for a lost request loses one, or hands an earlier loss to
\* a call that asked for the version before or while it was passing through.
LEMMA LossesStep ==
  ASSUME CallsTypeOK, GateKept, LossesCounted, [CallNext]_callVars
  PROVE  LossesCounted'
<1> SUFFICES ASSUME NEW c \in Callers
             PROVE  /\ calls'[c].lostBefore <= lost'
                    /\ LostNow(calls'[c]) => calls'[c].lostBefore < lost' \/ Late(calls'[c])
                    /\ contractVersion' = "lost" /\ calls'[c].at \in GatePlaces =>
                         calls'[c].lostBefore < lost' \/ calls'[c].amid
                    /\ calls'[c].at \in {"passphrase", "network"} =>
                         calls'[c].kind \in {"write", "read", "verifyNetwork"}
                    /\ calls'[c].at \in {"version", "lookup"} =>
                         calls'[c].kind \in {"write", "read", "verifyContractVersion"}
  BY RejectionStep DEF LossesCounted, LostNow, Late, GatePlaces
<1>1. lost \in Nat /\ lost' \in Nat /\ lost <= lost'
  BY CallsOnward
<1>2. /\ calls[c].lostBefore \in Nat /\ calls[c].lostBefore <= lost
      /\ LostNow(calls[c]) => calls[c].lostBefore < lost \/ Late(calls[c])
      /\ contractVersion = "lost" /\ calls[c].at \in GatePlaces =>
           calls[c].lostBefore < lost \/ calls[c].amid
      /\ calls[c].at \in {"passphrase", "network"} => calls[c].kind \in {"write", "read", "verifyNetwork"}
      /\ calls[c].at \in {"version", "lookup"} =>
           calls[c].kind \in {"write", "read", "verifyContractVersion"}
  BY DEF CallsTypeOK, Call, LossesCounted
<1>3. Idle.lostBefore = 0 /\ Idle.at = "idle"
  BY DEF Idle
<1>4. contractVersion' = "lost" => contractVersion = "lost" \/ lost' = lost + 1
  BY RejectionStep
<1>5. CASE calls'[c] = calls[c]
  BY <1>1, <1>2, <1>4, <1>5
<1>6. CASE calls'[c] = Idle
  BY <1>1, <1>3, <1>6 DEF LostNow, GatePlaces
<1>7. CASE /\ calls'[c].lostBefore = lost /\ calls'[c].amid = Rejecting
           /\ \/ calls'[c].at = "passphrase" /\ calls'[c].kind \in {"write", "read", "verifyNetwork"}
              \/ calls'[c].at = "version" /\ calls'[c].kind = "verifyContractVersion"
              \/ calls'[c].at = "simulate"
  <2>1. contractVersion = "lost" => calls'[c].amid
    BY <1>7 DEF Rejecting
  <2> QED BY <1>1, <1>4, <1>7, <2>1 DEF LostNow
<1>8. CASE /\ calls'[c].lostBefore = calls[c].lostBefore /\ calls'[c].at \notin GatePlaces
           /\ LostNow(calls'[c]) => lost' = lost + 1
  BY <1>1, <1>2, <1>8 DEF GatePlaces
<1>9. CASE GateMove(c, calls'[c])
  <2>1. calls'[c].lostBefore <= lost'
    BY <1>1, <1>2, <1>9 DEF GateMove
  <2>2. LostNow(calls'[c]) => calls'[c].lostBefore < lost' \/ Late(calls'[c])
    <3>1. CASE lost' = lost + 1
      BY <1>1, <1>2, <1>9, <3>1 DEF GateMove
    <3>2. CASE HandedOn(c)
      <4>1. calls[c].lostBefore < lost \/ Late(calls[c])
        BY <3>2, HandedOnLate
      <4> QED BY <1>1, <1>2, <1>9, <4>1 DEF GateMove, Late
    <3> QED BY <1>9, <3>1, <3>2 DEF GateMove
  <2>3. contractVersion' = "lost" => calls'[c].lostBefore < lost' \/ calls'[c].amid
    BY <1>1, <1>2, <1>4, <1>9 DEF GateMove
  <2>4. /\ calls'[c].at \in {"passphrase", "network"} => calls'[c].kind \in {"write", "read", "verifyNetwork"}
        /\ calls'[c].at \in {"version", "lookup"} =>
             calls'[c].kind \in {"write", "read", "verifyContractVersion"}
    BY <1>2, <1>9 DEF GateMove
  <2> QED BY <2>1, <2>2, <2>3, <2>4
<1> QED BY <1>5, <1>6, <1>7, <1>8, <1>9, CallMoves DEF CallMove, PhaseMove

\* For any callers, configuration and server: a write, a read or verifyNetwork that
\* reports a lost request never reports one from before it was made; nor does
\* verifyContractVersion, unless it was made while that one was still passing from
\* the network check to the lookup behind it (runNetworkVerification drops its
\* promise before getContractVersion drops the one that awaits it).
THEOREM LossesAreFresh == CallsSpec => []FailuresAreFresh
<1>1. CallsInit => LossesCounted
  <2> SUFFICES ASSUME NEW cf \in Configs, NEW r \in Rpcs, CallInit(cf, r) PROVE LossesCounted
    BY DEF CallsInit
  <2>1. lost = 0 /\ contractVersion = "none" /\ \A c \in Callers : calls[c] = Idle
    BY DEF CallInit
  <2>2. Idle.lostBefore = 0 /\ Idle.at = "idle"
    BY DEF Idle
  <2> QED BY <2>1, <2>2 DEF LossesCounted, LostNow, GatePlaces, Rejecting
<1>2. CallsSpec => []GateKept
  BY GateInit, CallsTyped, GateStep, PTL DEF CallsSpec
<1>3. CallsSpec => []LossesCounted
  BY <1>1, <1>2, CallsTyped, LossesStep, PTL DEF CallsSpec
<1>4. CallsTypeOK /\ LossesCounted => FailuresAreFresh
  <2> SUFFICES ASSUME CallsTypeOK, LossesCounted, NEW c \in Callers, LostNow(calls[c])
               PROVE  lost > calls[c].lostBefore \/ Late(calls[c])
    BY DEF FailuresAreFresh, LostNow, Late
  <2>1. lost \in Nat /\ calls[c].lostBefore \in Nat /\ (calls[c].lostBefore < lost \/ Late(calls[c]))
    BY DEF CallsTypeOK, Call, LossesCounted
  <2> QED BY <2>1
<1> QED BY <1>3, <1>4, CallsTyped, PTL

\* The spans of every call are where they belong.
SpansKept == \A c \in Callers : SpansAt(calls[c])

\* A call that leaves the gate takes no open span with it.
LEMMA SpansStep ==
  ASSUME CallsTypeOK, SpansKept, [CallNext]_callVars
  PROVE  SpansKept'
<1>1. config' = config
  BY CallsOnward
<1> SUFFICES ASSUME NEW c \in Callers PROVE SpansAt(calls'[c])
  BY <1>1 DEF SpansKept, SpansAt
<1>2. SpansAt(calls[c])
  BY DEF SpansKept
<1>3. NoSpans = SpansWhere({}, {})
  BY ClosedSpans
<1>4. CASE calls'[c] = calls[c] \/ PhaseMove(c, calls'[c])
  BY <1>2, <1>4 DEF PhaseMove
<1>5. CASE calls'[c].at \in {"passphrase", "version", "simulate"} /\ calls'[c].spans = NoSpans
  BY <1>3, <1>5 DEF SpansAt
<1>6. CASE GateMove(c, calls'[c])
  <2>1. config.onEvent => calls'[c].spans = SpansWhere({}, {})
    BY <1>2, <1>6 DEF GateMove, SpansAt, GatePlaces
  <2>2. CASE calls'[c].at \in {"network", "version", "lookup", "simulate"}
    BY <2>1, <2>2 DEF SpansAt
  <2>3. CASE calls'[c].at \in {"done", "failed"}
    <3>1. BothOrNone({}) /\ (calls'[c].at = "done" => calls'[c].kind # "write")
      BY <1>6 DEF GateMove, BothOrNone
    <3> QED BY <2>1, <2>3, <3>1 DEF SpansAt
  <2> QED BY <1>6, <2>2, <2>3 DEF GateMove
<1> QED BY <1>4, <1>5, <1>6, CallMoves DEF CallMove

\* Every span that withSpan and the observed submission open is closed once, on
\* every path a call may leave by, also where it fails between two phases.
THEOREM SpansAreBalanced == CallsSpec => []SpansBalanced
<1>1. CallsInit => SpansKept
  <2> SUFFICES ASSUME NEW cf \in Configs, NEW r \in Rpcs, CallInit(cf, r) PROVE SpansKept
    BY DEF CallsInit
  <2>1. \A c \in Callers : calls[c] = Idle
    BY DEF CallInit
  <2>2. SpansAt(Idle)
    BY IdleType, ClosedSpans DEF SpansAt
  <2> QED BY <2>1, <2>2 DEF SpansKept
<1>2. CallsSpec => []SpansKept
  BY <1>1, CallsTyped, SpansStep, PTL DEF CallsSpec
<1>3. SpansKept => SpansBalanced
  <2> SUFFICES ASSUME NEW c \in Callers, SpansAt(calls[c]), config.onEvent,
                      calls[c].at \in {"done", "failed"}
               PROVE  /\ \A p \in Phases : calls[c].spans[p].opened = calls[c].spans[p].ended
                      /\ calls[c].kind = "write" /\ calls[c].at = "done" =>
                           \A p \in Phases : calls[c].spans[p].ended = 1
                      /\ calls[c].spans["submit"].ended = calls[c].spans["confirm"].ended
    BY DEF SpansKept, SpansBalanced
  <2>1. PICK done \in SUBSET Phases :
          /\ calls[c].spans = SpansWhere(done, {}) /\ BothOrNone(done)
          /\ calls[c].kind = "write" /\ calls[c].at = "done" => done = Phases
    BY DEF SpansAt
  <2>2. \A p \in Phases : calls[c].spans[p] = IF p \in done THEN [opened |-> 1, ended |-> 1]
                                              ELSE [opened |-> 0, ended |-> 0]
    BY <2>1 DEF SpansWhere
  <2>3. \A p \in Phases : /\ calls[c].spans[p].opened = calls[c].spans[p].ended
                          /\ calls[c].spans[p].ended = IF p \in done THEN 1 ELSE 0
    BY <2>2
  <2>4. "submit" \in Phases /\ "confirm" \in Phases
    BY DEF Phases
  <2> QED BY <2>1, <2>3, <2>4 DEF BothOrNone
<1> QED BY <1>2, <1>3, PTL
-----------------------------------------------------------------------------
(* The calls that reach the contract.                                          *)

\* Anybody calls any method, while one group of calls is made and calls are prepared,
\* passed on, signed and submitted.
writeVars == <<netVars, batchVars, signingVars>>
WritesNext ==
  \/ RequestsNext /\ UNCHANGED <<batchVars, signingVars>>
  \/ BatchNext /\ UNCHANGED signingVars
  \/ SigningNext /\ UNCHANGED batchVars
WritesSpec == RequestsInit /\ BatchInit /\ SigningInit /\ [][WritesNext]_writeVars

\* Documents and transactions are records.
IsDocument(d) ==
  d = [kind |-> d.kind, method |-> d.method, call |-> d.call, source |-> d.source,
       nonce |-> d.nonce, sequence |-> d.sequence, signed |-> d.signed, expires |-> d.expires,
       expiresAtLedger |-> d.expiresAtLedger]
IsTx(tx) ==
  tx = [call |-> tx.call, state |-> tx.state, escrowId |-> tx.escrowId, ledger |-> tx.ledger,
        sequence |-> tx.sequence]
IsTxs == Len(txs) \in Nat /\ DOMAIN txs = 1..Len(txs) /\ \A k \in DOMAIN txs : IsTx(txs[k])

\* Calls that were signed ahead, and those that are sent at once, which are what
\* createEscrow makes of their parameters if they say that they create.
Ahead(call) == "nonce" \in DOMAIN call
AtOnce(call) == ~Ahead(call) /\ ("params" \in DOMAIN call => call \in createEscrow(call.params))
\* Calls that no group makes: they name no tranche, and create what others ask for.
Direct(call) ==
  "milestone" \notin DOMAIN call /\ ("params" \in DOMAIN call => call.params \in CreateInputs)

\* One more transaction is sent.
LEMMA Appended ==
  ASSUME IsTxs, NEW tx, txs' = Append(txs, tx), IsTx(tx)
  PROVE  /\ IsTxs'
         /\ DOMAIN txs' = DOMAIN txs \cup {Len(txs) + 1}
         /\ \A k \in DOMAIN txs' : txs'[k] = IF k \in DOMAIN txs THEN txs[k] ELSE tx
BY DEF IsTxs

\* One transaction changes.
LEMMA Edited ==
  ASSUME IsTxs, NEW k \in DOMAIN txs, NEW tx, txs' = [txs EXCEPT ![k] = tx], IsTx(tx)
  PROVE  /\ IsTxs'
         /\ DOMAIN txs' = DOMAIN txs
         /\ \A j \in DOMAIN txs' : txs'[j] = IF j = k THEN tx ELSE txs[j]
BY DEF IsTxs

\* A transaction is executed: it keeps its call, and gets its ledger and its new id.
LEMMA ExecuteEffect ==
  ASSUME IsTxs, NEW k \in DOMAIN txs, Execute(k)
  PROVE  /\ IsTxs' /\ DOMAIN txs' = DOMAIN txs
         /\ \A j \in DOMAIN txs : j # k => txs'[j] = txs[j]
         /\ txs'[k].call = txs[k].call /\ txs'[k].state = "executed" /\ txs'[k].ledger = {now}
         /\ txs'[k].escrowId = IF nextId' > nextId THEN {nextId} ELSE {}
<1>1. PICK id : /\ id = (IF nextId' > nextId THEN {nextId} ELSE {})
                /\ txs' = [txs EXCEPT ![k].state = "executed", ![k].ledger = {now}, ![k].escrowId = id]
  BY DEF Execute
<1>2. PICK old : old = txs[k] /\ old = [call |-> old.call, state |-> old.state, escrowId |-> old.escrowId,
                                        ledger |-> old.ledger, sequence |-> old.sequence]
  BY DEF IsTxs, IsTx
<1>3. PICK tx : tx = [old EXCEPT !.state = "executed", !.ledger = {now}, !.escrowId = id]
  OBVIOUS
<1>4. tx = [call |-> old.call, state |-> "executed", escrowId |-> id, ledger |-> {now},
            sequence |-> old.sequence]
  BY <1>2, <1>3
<1>5. txs' = [txs EXCEPT ![k] = tx]
  BY <1>1, <1>2, <1>3
<1>6. /\ IsTx(tx) /\ tx.call = txs[k].call /\ tx.state = "executed" /\ tx.ledger = {now}
      /\ tx.escrowId = id
  BY <1>2, <1>4 DEF IsTx
<1> QED BY <1>1, <1>5, <1>6, Edited

\* A transaction is dropped: only its state changes.
LEMMA DropEffect ==
  ASSUME IsTxs, NEW k \in DOMAIN txs, Drop(k)
  PROVE  /\ IsTxs' /\ DOMAIN txs' = DOMAIN txs
         /\ \A j \in DOMAIN txs : j # k => txs'[j] = txs[j]
         /\ txs[k].state = "sent" /\ txs'[k].call = txs[k].call /\ txs'[k].state = "dropped"
         /\ txs'[k].escrowId = txs[k].escrowId
<1>1. PICK old : old = txs[k] /\ old = [call |-> old.call, state |-> old.state, escrowId |-> old.escrowId,
                                        ledger |-> old.ledger, sequence |-> old.sequence]
  BY DEF IsTxs, IsTx
<1>2. PICK tx : tx = [old EXCEPT !.state = "dropped"]
  OBVIOUS
<1>3. tx = [call |-> old.call, state |-> "dropped", escrowId |-> old.escrowId, ledger |-> old.ledger,
            sequence |-> old.sequence]
  BY <1>1, <1>2
<1>4. txs' = [txs EXCEPT ![k] = tx] /\ txs[k].state = "sent"
  BY <1>1, <1>2 DEF Drop
<1>5. IsTx(tx) /\ tx.call = txs[k].call /\ tx.state = "dropped" /\ tx.escrowId = txs[k].escrowId
  BY <1>1, <1>3 DEF IsTx
<1> QED BY <1>4, <1>5, Edited

\* A call is sent: the transaction that carries it comes last.
LEMMA SubmitEffect ==
  ASSUME IsTxs, NEW call, Submitted(call)
  PROVE  /\ IsTxs' /\ Len(txs) \in Nat /\ Len(txs) + 1 \notin DOMAIN txs
         /\ DOMAIN txs' = DOMAIN txs \cup {Len(txs) + 1}
         /\ \A j \in DOMAIN txs : txs'[j] = txs[j]
         /\ txs'[Len(txs) + 1].call = call /\ txs'[Len(txs) + 1].state = "sent"
         /\ txs'[Len(txs) + 1].escrowId = {}
<1>1. PICK tx : /\ txs' = Append(txs, tx) /\ tx.call = call /\ tx.state = "sent" /\ IsTx(tx)
                /\ tx.escrowId = {}
  BY DEF Submitted, IsTx
<1>2. Len(txs) \in Nat /\ Len(txs) + 1 \notin DOMAIN txs
  BY DEF IsTxs
<1> QED BY <1>1, <1>2, Appended

\* createEscrow, given parameters, sends a call that bears them.
LEMMA CreatesAtOnce ==
  \A p : \A call \in createEscrow(p) :
    AtOnce(call) /\ call.params = p /\ "params" \in DOMAIN call /\ "milestone" \notin DOMAIN call
<1> SUFFICES ASSUME NEW p, NEW call \in createEscrow(p)
             PROVE  /\ AtOnce(call) /\ call.params = p /\ "params" \in DOMAIN call
                    /\ "milestone" \notin DOMAIN call
  OBVIOUS
<1>1. PICK fn, request : call = [fn |-> fn, request |-> request, params |-> p, source |-> p.payer,
                                 signers |-> {p.payer}]
  BY DEF createEscrow, Unless
<1>2. ~Ahead(call) /\ call.params = p /\ "params" \in DOMAIN call /\ "milestone" \notin DOMAIN call
  BY <1>1 DEF Ahead
<1> QED BY <1>2 DEF AtOnce

\* What the methods send is sent at once, and for no group.
LEMMA PlainCalls == \A call \in Calls : AtOnce(call) /\ Direct(call)
<1> DEFINE Plain(call) == AtOnce(call) /\ Direct(call)
<1>1. \A a, id : \A call \in CallsBy(a, id) : Plain(call)
  <2>1. \A a, id : \A call \in release(id, a) \cup refund(id, a) \cup claimRefund(id, a) : Plain(call)
    BY DEF release, refund, claimRefund, By, Ahead, AtOnce, Direct
  <2>2. \A a, id, fn, n : Plain(LifecycleCall(fn, id, a, n)) /\ Plain(WithAmount(By(a, fn, id), n))
    BY DEF LifecycleCall, WithAmount, By, Ahead, AtOnce, Direct
  <2>3. \A a, id : \A call \in accept(id, a) \cup cancel(id, a) : Plain(call)
    BY <2>2 DEF accept, cancel, Unless
  <2>4. \A a, id, n : \A call \in contribute(id, a, n) \cup topUp(id, a, n) : Plain(call)
    BY <2>2 DEF contribute, topUp, Unless
  <2> QED BY <2>1, <2>3, <2>4 DEF CallsBy
<1>2. \A l, id : \A call \in releaseWithApprovals(id, l) \cup refundWithApprovals(id, l) : Plain(call)
  BY DEF releaseWithApprovals, refundWithApprovals, settleWithApprovals, Unless, Ahead, AtOnce, Direct
<1>3. \A a : \A call \in pause(a) \cup unpause(a) : Plain(call)
  BY DEF pause, unpause, By, Ahead, AtOnce, Direct
<1>4. \A call \in Creations : Plain(call)
  <2>1. \A p : \A call \in createQuorumEscrow(p) \cup createPooledEscrow(p) : Plain(call)
    BY DEF createQuorumEscrow, createPooledEscrow, Unless, Ahead, AtOnce, Direct
  <2>2. \A p \in CreateInputs : \A call \in createEscrow(p) : Plain(call)
    BY CreatesAtOnce DEF Direct
  <2> QED BY <2>1, <2>2 DEF Creations
<1> SUFFICES ASSUME NEW call \in Calls PROVE Plain(call)
  OBVIOUS
<1>5. \/ call \in Creations
      \/ \E a \in CallerInputs, id \in CalledIds : call \in CallsBy(a, id)
      \/ \E l \in ApproverInputs, id \in CalledIds :
           call \in releaseWithApprovals(id, l) \cup refundWithApprovals(id, l)
      \/ \E a \in CallerInputs : call \in pause(a) \cup unpause(a)
  <2>1. ASSUME call \in UNION {CallsBy(a, id) : a \in CallerInputs, id \in CalledIds}
        PROVE  \E a \in CallerInputs, id \in CalledIds : call \in CallsBy(a, id)
    BY <2>1
  <2>2. ASSUME call \in UNION {releaseWithApprovals(id, l) \cup refundWithApprovals(id, l) :
                                 l \in ApproverInputs, id \in CalledIds}
        PROVE  \E l \in ApproverInputs, id \in CalledIds :
                 call \in releaseWithApprovals(id, l) \cup refundWithApprovals(id, l)
    BY <2>2
  <2>3. ASSUME call \in UNION {pause(a) \cup unpause(a) : a \in CallerInputs}
        PROVE  \E a \in CallerInputs : call \in pause(a) \cup unpause(a)
    BY <2>3
  <2> QED BY <2>1, <2>2, <2>3 DEF Calls
<1> QED BY <1>1, <1>2, <1>3, <1>4, <1>5

\* So are the items of a group, and what settles a tranche.
LEMMA ItemsAtOnce ==
  ASSUME NEW j, NEW item
  PROVE  \A call \in ItemCall(j, item) : AtOnce(call)
BY CreatesAtOnce DEF ItemCall, SettleCall, release, refund, By, AtOnce, Ahead

\* What a document turns into was signed ahead.
FromDocument(call) ==
  \E d \in docs : \E source, expected :
    call = Transaction(d, source, expected) /\ \A fn \in expected : d.call.fn = fn

\* A call is sent, by a method or with a document.
CallSent(call) ==
  /\ Submitted(call)
  /\ UNCHANGED chain
  /\ AtOnce(call) \/ FromDocument(call)

\* Every step is one of the network, sends one call, or has nothing to do with either.
LEMMA WriteKinds ==
  ASSUME [WritesNext]_writeVars
  PROVE  Network \/ (\E call : CallSent(call)) \/ UNCHANGED netVars
<1>1. CASE RequestsNext
  <2>1. ASSUME CallMethod PROVE \E call : CallSent(call)
    <3>1. PICK call \in Calls : Submitted(call) /\ UNCHANGED chain
      BY <2>1 DEF CallMethod
    <3>2. CallSent(call)
      BY <3>1, PlainCalls DEF CallSent
    <3> QED BY <3>2
  <2> QED BY <1>1, <2>1 DEF RequestsNext
<1>2. CASE BatchNext
  <2>1. ASSUME BatchSend PROVE \E call : CallSent(call)
    <3>1. PICK item, call : call \in ItemCall(job, item) /\ Submitted(call)
      BY <2>1 DEF BatchSend
    <3>2. AtOnce(call)
      BY <3>1, ItemsAtOnce
    <3>3. UNCHANGED chain
      BY <2>1 DEF BatchSend
    <3>4. CallSent(call)
      BY <3>1, <3>2, <3>3 DEF CallSent
    <3> QED BY <3>4
  <2>2. ASSUME NEW kind, NEW i, NEW caller, SettleMilestone(kind, i, caller) PROVE \E call : CallSent(call)
    <3>1. PICK call : /\ \E id : call = [fn |-> kind, id |-> id, caller |-> caller, source |-> caller,
                                         signers |-> {caller}, milestone |-> i]
                      /\ Submitted(call)
      BY <2>2 DEF SettleMilestone
    <3>2. AtOnce(call)
      BY <3>1 DEF AtOnce, Ahead
    <3>3. UNCHANGED chain
      BY <2>2 DEF SettleMilestone
    <3>4. CallSent(call)
      BY <3>1, <3>2, <3>3 DEF CallSent
    <3> QED BY <3>4
  <2>3. ASSUME NEW j, BatchStart(j) PROVE UNCHANGED netVars
    BY <2>3 DEF BatchStart
  <2>4. CASE BatchThrow \/ BatchAnswer \/ BatchFail \/ BatchEnd \/ BatchResume
    BY <2>4 DEF BatchThrow, BatchAnswer, BatchFail, BatchEnd, BatchResume, Record
  <2> QED BY <1>2, <2>1, <2>2, <2>3, <2>4 DEF BatchNext
<1>3. CASE SigningNext
  <2>1. ASSUME NEW d \in docs, NEW source, NEW expected, SubmitLifecycleCall(d, source, expected)
        PROVE  \E call : CallSent(call)
    <3>1. PICK call : call = Transaction(d, source, expected)
      OBVIOUS
    <3>2. Submitted(call) /\ MethodMatches(d, expected) /\ UNCHANGED chain
      BY <2>1, <3>1 DEF SubmitLifecycleCall
    <3>3. CallSent(call)
      BY <3>1, <3>2 DEF CallSent, FromDocument, MethodMatches
    <3> QED BY <3>3
  <2>2. ASSUME NEW d \in docs, NEW relayer, NEW settlement, SubmitRelayed(d, relayer, settlement)
        PROVE  \E call : CallSent(call)
    <3>1. PICK call : call = Transaction(d, relayer, {settlement})
      OBVIOUS
    <3>2. Submitted(call) /\ d.call.fn = settlement /\ UNCHANGED chain
      BY <2>2, <3>1 DEF SubmitRelayed
    <3>3. FromDocument(call)
      BY <3>1, <3>2 DEF FromDocument
    <3>4. CallSent(call)
      BY <3>2, <3>3 DEF CallSent
    <3> QED BY <3>4
  <2>3. ASSUME NEW call, NEW source, NEW checked, PrepareLifecycleCall(call, source, checked) PROVE UNCHANGED netVars
    BY <2>3 DEF PrepareLifecycleCall
  <2>4. ASSUME NEW call, NEW relayer, AuthorizeSettlement(call, relayer) PROVE UNCHANGED netVars
    BY <2>4 DEF AuthorizeSettlement
  <2>5. ASSUME NEW d, NEW by, SignLifecycleCall(d, by) PROVE UNCHANGED netVars
    BY <2>5 DEF SignLifecycleCall
  <2>6. ASSUME NEW d, NEW e, MixUp(d, e) PROVE UNCHANGED netVars
    BY <2>6 DEF MixUp
  <2> QED BY <1>3, <2>1, <2>2, <2>3, <2>4, <2>5, <2>6 DEF SigningNext
<1>4. CASE UNCHANGED writeVars
  BY <1>4 DEF writeVars
<1> QED BY <1>1, <1>2, <1>3, <1>4 DEF WritesNext
-----------------------------------------------------------------------------
(* Prepared and relayed calls.                                                 *)

\* What a submitted call that was signed ahead says of itself.
Promised(call) ==
  /\ "expires" \in DOMAIN call /\ (call.expires = {} \/ call.expires = {call.announced})
  /\ \A fn \in call.expected : call.fn = fn

\* Of the documents that may still be submitted: their signatures run out at the
\* ledger that they announce.
DocsKept == \A d \in docs : IsDocument(d) /\ d.expires = d.expiresAtLedger

\* What ExecutedAsMeant says of the transactions, and of those still to be executed.
TxsKept ==
  /\ IsTxs
  /\ \A k \in DOMAIN txs : Ahead(txs[k].call) => Promised(txs[k].call)
  /\ \A k \in DOMAIN txs : Executed(k) /\ Ahead(txs[k].call) =>
       /\ txs[k].call.expires # {} => \A l \in txs[k].ledger : l <= txs[k].call.announced
       /\ \A j \in DOMAIN txs :
            j # k /\ Executed(j) /\ Ahead(txs[j].call) => txs[j].call.nonce # txs[k].call.nonce

\* Something is submitted: it has not been executed yet.
LEMMA SubmittedKept ==
  ASSUME TxsKept, NEW call, Submitted(call), Ahead(call) => Promised(call)
  PROVE  TxsKept'
<1>1. /\ IsTxs' /\ DOMAIN txs' = DOMAIN txs \cup {Len(txs) + 1}
      /\ \A j \in DOMAIN txs : txs'[j] = txs[j]
      /\ txs'[Len(txs) + 1].call = call /\ txs'[Len(txs) + 1].state = "sent"
  BY SubmitEffect DEF TxsKept
<1>2. \A k \in DOMAIN txs' : Ahead(txs'[k].call) => Promised(txs'[k].call)
  BY <1>1 DEF TxsKept
<1>3. \A k \in DOMAIN txs' : txs'[k].state = "executed" => k \in DOMAIN txs /\ txs'[k] = txs[k] /\ Executed(k)
  BY <1>1 DEF Executed
<1> QED BY <1>1, <1>2, <1>3 DEF TxsKept, Executed

\* A transaction is executed or dropped.
LEMMA NetworkKept ==
  ASSUME TxsKept, Network
  PROVE  TxsKept'
<1>1. ASSUME NEW k \in DOMAIN txs, Execute(k) PROVE TxsKept'
  <2>1. PICK tx : tx = txs'[k]
    OBVIOUS
  <2>2. /\ IsTxs' /\ DOMAIN txs' = DOMAIN txs
        /\ \A j \in DOMAIN txs' : txs'[j] = IF j = k THEN tx ELSE txs[j]
        /\ tx.call = txs[k].call /\ tx.state = "executed" /\ tx.ledger = {now}
    BY <1>1, <2>1, ExecuteEffect DEF TxsKept
  <2>3. \A j \in DOMAIN txs' : txs'[j].call = txs[j].call
    BY <2>2
  <2>4. \A j \in DOMAIN txs' : j # k /\ txs'[j].state = "executed" => Executed(j) /\ txs'[j] = txs[j]
    BY <2>2 DEF Executed
  <2>5. Ahead(tx.call) /\ tx.call.expires # {} => now <= tx.call.announced
    BY <1>1, <2>2 DEF Execute, InTime, Ahead, TxsKept, Promised
  <2>6. Ahead(tx.call) => \A j \in DOMAIN txs : Executed(j) /\ Ahead(txs[j].call) =>
                                                  txs[j].call.nonce # tx.call.nonce
    BY <1>1, <2>2 DEF Execute, Unspent, Ahead, Executed
  <2>7. \A j \in DOMAIN txs' : Ahead(txs'[j].call) => Promised(txs'[j].call)
    BY <2>2, <2>3 DEF TxsKept
  <2>8. ASSUME NEW i \in DOMAIN txs', txs'[i].state = "executed", Ahead(txs'[i].call)
        PROVE  /\ txs'[i].call.expires # {} => \A l \in txs'[i].ledger : l <= txs'[i].call.announced
               /\ \A j \in DOMAIN txs' : j # i /\ txs'[j].state = "executed" /\ Ahead(txs'[j].call)
                                           => txs'[j].call.nonce # txs'[i].call.nonce
    <3>1. CASE i = k
      BY <2>2, <2>4, <2>5, <2>6, <2>8, <3>1
    <3>2. CASE i # k
      <4>1. Executed(i) /\ txs'[i] = txs[i]
        BY <2>4, <2>8, <3>2
      <4>2. \A j \in DOMAIN txs' : j # i /\ j # k /\ txs'[j].state = "executed" /\ Ahead(txs'[j].call)
                                     => txs'[j].call.nonce # txs'[i].call.nonce
        BY <2>2, <2>4, <2>8, <4>1 DEF TxsKept
      <4>3. Ahead(txs'[k].call) => txs'[k].call.nonce # txs'[i].call.nonce
        BY <2>2, <2>6, <2>8, <4>1
      <4>4. txs'[i].call.expires # {} => \A l \in txs'[i].ledger : l <= txs'[i].call.announced
        BY <2>2, <2>8, <4>1 DEF TxsKept
      <4> QED BY <4>2, <4>3, <4>4
    <3> QED BY <3>1, <3>2
  <2> QED BY <2>2, <2>7, <2>8 DEF TxsKept, Executed
<1>2. ASSUME NEW k \in DOMAIN txs, Drop(k) PROVE TxsKept'
  <2>1. /\ IsTxs' /\ DOMAIN txs' = DOMAIN txs
        /\ \A j \in DOMAIN txs : j # k => txs'[j] = txs[j]
        /\ txs'[k].call = txs[k].call /\ txs'[k].state = "dropped"
    BY <1>2, DropEffect DEF TxsKept
  <2>2. \A j \in DOMAIN txs' : Ahead(txs'[j].call) => Promised(txs'[j].call)
    BY <2>1 DEF TxsKept
  <2>3. \A j \in DOMAIN txs' : txs'[j].state = "executed" => Executed(j) /\ txs'[j] = txs[j]
    BY <2>1 DEF Executed
  <2> QED BY <2>1, <2>2, <2>3 DEF TxsKept, Executed
<1>3. CASE UNCHANGED txs
  BY <1>3 DEF TxsKept, IsTxs, Executed
<1> QED BY <1>1, <1>2, <1>3 DEF Network

\* The documents are added to.
LEMMA DocsStep == ASSUME DocsKept, [WritesNext]_writeVars PROVE DocsKept'
<1>1. ASSUME NEW d, docs' = docs \cup {d}, IsDocument(d), d.expires = d.expiresAtLedger PROVE DocsKept'
  BY <1>1 DEF DocsKept
<1>2. ASSUME NEW call, NEW source, NEW kind, NEW signed, NEW ttl,
             docs' = docs \cup {Document(call, source, kind, signed, ttl)}
      PROVE  DocsKept'
  BY <1>1, <1>2 DEF Document, IsDocument
<1>3. ASSUME NEW call, NEW source, NEW checked, PrepareLifecycleCall(call, source, checked) PROVE DocsKept'
  BY <1>2, <1>3 DEF PrepareLifecycleCall
<1>4. ASSUME NEW call, NEW relayer, AuthorizeSettlement(call, relayer) PROVE DocsKept'
  BY <1>2, <1>4 DEF AuthorizeSettlement
<1>5. ASSUME NEW d \in docs, NEW by, SignLifecycleCall(d, by) PROVE DocsKept'
  <2>1. IsDocument(Signed(d, by)) /\ Signed(d, by).expires = Signed(d, by).expiresAtLedger
    <3>1. PICK signed : signed = Signed(d, by)
      OBVIOUS
    <3>2. PICK who : signed = [d EXCEPT !.signed = who, !.expires = d.expiresAtLedger]
      BY <3>1 DEF Signed
    <3>3. d = [kind |-> d.kind, method |-> d.method, call |-> d.call, source |-> d.source,
               nonce |-> d.nonce, sequence |-> d.sequence, signed |-> d.signed, expires |-> d.expires,
               expiresAtLedger |-> d.expiresAtLedger]
      BY DEF DocsKept, IsDocument
    <3>4. signed = [kind |-> d.kind, method |-> d.method, call |-> d.call, source |-> d.source,
                    nonce |-> d.nonce, sequence |-> d.sequence, signed |-> who,
                    expires |-> d.expiresAtLedger, expiresAtLedger |-> d.expiresAtLedger]
      BY <3>2, <3>3
    <3> QED BY <3>1, <3>4 DEF IsDocument
  <2> QED BY <1>1, <1>5, <2>1 DEF SignLifecycleCall
<1>6. ASSUME NEW d \in docs, NEW e \in docs, MixUp(d, e) PROVE DocsKept'
  <2>1. PICK mixed : mixed = [d EXCEPT !.method = e.method]
    OBVIOUS
  <2>2. IsDocument(mixed) /\ mixed.expires = mixed.expiresAtLedger
    BY <2>1 DEF DocsKept, IsDocument
  <2> QED BY <1>1, <1>6, <2>1, <2>2 DEF MixUp
<1>7. ASSUME UNCHANGED signingVars PROVE DocsKept'
  BY <1>7 DEF signingVars, DocsKept
<1>8. ASSUME NEW d \in docs, NEW source, NEW expected, SubmitLifecycleCall(d, source, expected) PROVE DocsKept'
  BY <1>7, <1>8 DEF SubmitLifecycleCall
<1>9. ASSUME NEW d \in docs, NEW relayer, NEW settlement, SubmitRelayed(d, relayer, settlement) PROVE DocsKept'
  BY <1>7, <1>9 DEF SubmitRelayed
<1>10. CASE SigningNext
  BY <1>3, <1>4, <1>5, <1>6, <1>7, <1>8, <1>9, <1>10 DEF SigningNext
<1> QED BY <1>7, <1>10 DEF WritesNext, writeVars

\* What is sent keeps what it promises.
LEMMA TxsStep == ASSUME DocsKept, TxsKept, [WritesNext]_writeVars PROVE TxsKept'
<1>1. ASSUME NEW call, CallSent(call) PROVE TxsKept'
  <2>1. ASSUME FromDocument(call) PROVE Promised(call)
    <3>1. PICK d \in docs : \E source, expected :
            call = Transaction(d, source, expected) /\ \A fn \in expected : d.call.fn = fn
      BY <2>1 DEF FromDocument
    <3>2. d.expires = d.expiresAtLedger
      BY DEF DocsKept
    <3> QED BY <3>1, <3>2 DEF Transaction, Promised
  <2> QED BY <1>1, <2>1, SubmittedKept DEF CallSent, AtOnce
<1>2. CASE UNCHANGED netVars
  BY <1>2 DEF netVars, TxsKept, IsTxs, Executed
<1> QED BY <1>1, <1>2, NetworkKept, WriteKinds

\* For any calls, parties and documents, however their copies are mixed up: what is
\* executed on a signature given ahead is what its submitter named, happens once, and
\* not after the ledger its signer was told.
THEOREM SignedAheadAsMeant == WritesSpec => []ExecutedAsMeant
<1>1. RequestsInit /\ SigningInit => DocsKept /\ TxsKept
  BY DEF RequestsInit, SigningInit, DocsKept, TxsKept, IsTxs
<1>2. TxsKept => ExecutedAsMeant
  BY DEF TxsKept, ExecutedAsMeant, Ahead, Promised
<1>3. DocsKept /\ TxsKept /\ [WritesNext]_writeVars => (DocsKept /\ TxsKept)'
  BY DocsStep, TxsStep
<1> QED BY <1>1, <1>2, <1>3, PTL DEF WritesSpec
-----------------------------------------------------------------------------
(* Creation.                                                                   *)

\* What a transaction with parameters asks for, and the next id, which is a number.
CreationsKept ==
  /\ IsTxs /\ nextId \in Nat
  /\ \A k \in DOMAIN txs :
       "params" \in DOMAIN txs[k].call => txs[k].call \in createEscrow(txs[k].call.params)

\* A settlement takes no id.
LEMMA SettleTakesNoId ==
  ASSUME NEW id, NEW to, SettleOne(id, to)
  PROVE  nextId' = nextId
BY DEF SettleOne, Settle

\* A creation takes the next id and stores what it was asked for under it.
LEMMA CreateOneEffect ==
  ASSUME nextId \in Nat, NEW payer, NEW req, CreateEscrowInner(payer, <<req>>)
  PROVE  /\ nextId' = nextId + 1 /\ DOMAIN escrow' = DOMAIN escrow \cup {nextId}
         /\ escrow'[nextId] = NewEscrow(req)
         /\ \A id \in DOMAIN escrow : id < nextId => escrow'[id] = escrow[id]
         /\ pooled' = pooled
<1>1. Len(<<req>>) = 1 /\ <<req>>[1] = req
  OBVIOUS
<1>2. nextId' = nextId + 1 - 1 + 1
  BY <1>1 DEF CreateEscrowInner
<1>3. escrow' = [id \in DOMAIN escrow \cup (nextId..(nextId + 1 - 1)) |->
                   IF id < nextId THEN escrow[id] ELSE NewEscrow(<<req>>[id - nextId + 1])]
  BY <1>1 DEF CreateEscrowInner
<1>4. nextId..(nextId + 1 - 1) = {nextId} /\ nextId - nextId + 1 = 1 /\ ~(nextId < nextId)
  OBVIOUS
<1>5. pooled' = pooled
  BY DEF CreateEscrowInner
<1> QED BY <1>1, <1>2, <1>3, <1>4, <1>5

\* The entry points that take a request create what it says.
LEMMA CreateCalls ==
  ASSUME NEW call, Invocation(call),
         call.fn \in {"create_escrow", "create_escrow_release_time", "create_escrow_with_acceptance",
                      "create_escrow_with_releasers"}
  PROVE  CreateEscrowInner(call.request.payer, <<call.request>>)
BY DEF Invocation, CreateEscrow, CreateEscrowReleaseTime, CreateEscrowWithAcceptance,
       CreateEscrowWithReleasers

\* A call takes the next id or none.
LEMMA InvocationIds ==
  ASSUME nextId \in Nat, NEW call, Invocation(call)
  PROVE  nextId' \in {nextId, nextId + 1}
<1>1. CASE call.fn \in {"create_escrow", "create_escrow_release_time", "create_escrow_with_acceptance",
                        "create_escrow_with_releasers"}
  BY <1>1, CreateCalls, CreateOneEffect
<1>2. CASE call.fn = "create_pooled_escrow"
  BY <1>2 DEF Invocation, CreatePooledEscrow
<1>3. CASE call.fn \in {"contribute", "claim_refund", "accept", "top_up", "pause", "unpause"}
  <2>1. \/ Contribute(call.id, call.caller, call.amount) \/ ClaimRefund(call.id, call.caller)
        \/ Accept(call.id, call.caller) \/ TopUp(call.id, call.caller, call.amount)
        \/ Pause(call.caller) \/ Unpause(call.caller)
    BY <1>3 DEF Invocation
  <2> QED BY <2>1 DEF Contribute, ClaimRefund, Accept, TopUp, Pause, Unpause
<1>4. CASE call.fn \in {"cancel", "release", "refund", "release_with_approvals", "refund_with_approvals"}
  <2>1. \/ Cancel(call.id, call.caller) \/ Release(call.id, call.caller) \/ Refund(call.id, call.caller)
        \/ ReleaseWithApprovals(call.id, call.approvers) \/ RefundWithApprovals(call.id, call.approvers)
    BY <1>4 DEF Invocation
  <2>2. \E to : SettleOne(call.id, to)
    BY <2>1 DEF Cancel, Release, Refund, ReleaseWithApprovals, RefundWithApprovals
  <2> QED BY <2>2, SettleTakesNoId
<1> QED BY <1>1, <1>2, <1>3, <1>4 DEF Invocation

\* A transaction that is executed now was executed by the network.
LEMMA ExecutedNow ==
  ASSUME IsTxs, [WritesNext]_writeVars, NEW k \in DOMAIN txs,
         txs[k].state # "executed", txs'[k].state = "executed"
  PROVE  Execute(k)
<1>1. ~(\E call : CallSent(call))
  BY SubmitEffect DEF CallSent
<1>2. ~(UNCHANGED netVars)
  BY DEF netVars
<1>3. Network /\ txs' # txs
  BY <1>1, <1>2, WriteKinds
<1>4. PICK j \in DOMAIN txs : Execute(j) \/ Drop(j)
  BY <1>3 DEF Network
<1>5. j = k
  BY <1>4, ExecuteEffect, DropEffect
<1>6. ~Drop(k)
  BY DropEffect
<1> QED BY <1>4, <1>5, <1>6

\* No step of anybody takes a parameter of what was sent, or makes one up.
LEMMA CreationsStep == ASSUME CreationsKept, [WritesNext]_writeVars PROVE CreationsKept'
<1>1. IsTxs /\ nextId \in Nat
  BY DEF CreationsKept
<1>2. ASSUME NEW call, CallSent(call) PROVE CreationsKept'
  <2>1. "params" \in DOMAIN call => call \in createEscrow(call.params)
    BY <1>2 DEF CallSent, AtOnce, FromDocument, Transaction
  <2>2. nextId' = nextId
    BY <1>2 DEF CallSent, chain
  <2>3. Submitted(call)
    BY <1>2 DEF CallSent
  <2>4. /\ IsTxs' /\ DOMAIN txs' = DOMAIN txs \cup {Len(txs) + 1}
        /\ \A j \in DOMAIN txs : txs'[j] = txs[j]
        /\ txs'[Len(txs) + 1].call = call
    BY <1>1, <2>3, SubmitEffect
  <2>5. ASSUME NEW j \in DOMAIN txs'
        PROVE  "params" \in DOMAIN txs'[j].call => txs'[j].call \in createEscrow(txs'[j].call.params)
    BY <2>1, <2>4, <2>5 DEF CreationsKept
  <2> QED BY <1>1, <2>2, <2>4, <2>5 DEF CreationsKept
<1>3. CASE Network
  <2>1. /\ IsTxs' /\ DOMAIN txs' = DOMAIN txs
        /\ \A j \in DOMAIN txs : txs'[j].call = txs[j].call
    BY <1>1, <1>3, ExecuteEffect, DropEffect DEF Network, IsTxs
  <2>2. nextId' \in Nat
    <3>1. ASSUME NEW k \in DOMAIN txs, Execute(k) PROVE nextId' \in Nat
      BY <1>1, <3>1, InvocationIds DEF Execute, TakesEffect
    <3>2. ASSUME NEW k \in DOMAIN txs, Drop(k) PROVE nextId' \in Nat
      BY <1>1, <3>2 DEF Drop, chain
    <3>3. CASE Tick
      BY <1>1, <3>3 DEF Tick
    <3> QED BY <1>3, <3>1, <3>2, <3>3 DEF Network
  <2>3. ASSUME NEW j \in DOMAIN txs'
        PROVE  "params" \in DOMAIN txs'[j].call => txs'[j].call \in createEscrow(txs'[j].call.params)
    BY <2>1, <2>3 DEF CreationsKept
  <2> QED BY <2>1, <2>2, <2>3 DEF CreationsKept
<1>4. CASE UNCHANGED netVars
  BY <1>4 DEF netVars, chain, CreationsKept, IsTxs
<1> QED BY <1>2, <1>3, <1>4, WriteKinds

\* For any parameters: the escrow that a creation takes effect as reads back as they
\* describe it, whoever else calls what before and after it.
THEOREM EscrowsAreAsAsked == WritesSpec => CreatedAsAsked
<1>1. RequestsInit => CreationsKept
  BY DEF RequestsInit, Init, CreationsKept, IsTxs
<1>2. ASSUME CreationsKept, [WritesNext]_writeVars, NEW k \in DOMAIN txs,
             txs[k].state = "sent", txs'[k].state = "executed", "params" \in DOMAIN txs[k].call
      PROVE  LET p == txs[k].call.params
                 e == getEscrow(nextId - 1)' IN
             /\ <<e.payer, e.payee, e.token, e.amount, e.releasers, e.threshold>>
                  = <<p.payer, p.payee, p.token, p.amount, <<p.releaser>>, 1>>
             /\ e.refundAfter = p.refundAfter /\ e.notifyPayee = p.notifyPayee
             /\ e.refundTo = (IF p.refundTo = {} THEN p.payer ELSE The(p.refundTo))
             /\ e.releaseNotBefore = p.releaseNotBefore
             /\ e.requiresAcceptance = p.requiresAcceptance
             /\ ~p.requiresAcceptance => e.feeRecipient = p.feeRecipient /\ e.feeBps = p.feeBps
  <2>1. PICK call, p : call = txs[k].call /\ p = call.params
    OBVIOUS
  <2>2. IsTxs /\ nextId \in Nat /\ call \in createEscrow(p)
    BY <1>2, <2>1 DEF CreationsKept
  <2>3. Invocation(call)
    BY <1>2, <2>1, <2>2, ExecutedNow DEF Execute, TakesEffect
  <2>4. PICK req : req = CreateArguments(p)
    OBVIOUS
  <2>5. call = [fn |-> IF p.requiresAcceptance THEN "create_escrow_with_acceptance"
                       ELSE IF p.releaseNotBefore = {} THEN "create_escrow"
                       ELSE "create_escrow_release_time",
                request |-> req, params |-> p, source |-> p.payer, signers |-> {p.payer}]
    BY <2>2, <2>4 DEF createEscrow, Unless
  <2>6. CreateEscrowInner(req.payer, <<req>>)
    BY <2>3, <2>5, CreateCalls
  <2>7. nextId' - 1 = nextId /\ escrow'[nextId] = NewEscrow(req)
    BY <2>2, <2>6, CreateOneEffect
  <2>8. PICK new : new = escrow'[nextId' - 1] /\ new = NewEscrow(req)
    BY <2>7
  <2>9. /\ req.payer = p.payer /\ req.payee = p.payee /\ req.token = p.token
        /\ req.amount = p.amount /\ req.releasers = <<p.releaser>> /\ req.threshold = 1
        /\ req.refund_after = p.refundAfter /\ req.notify_payee = p.notifyPayee
        /\ req.requires_acceptance = p.requiresAcceptance /\ req.refund_to = p.refundTo
        /\ req.release_not_before = p.releaseNotBefore
        /\ ~p.requiresAcceptance => req.fee_recipient = p.feeRecipient /\ req.fee_bps = p.feeBps
    BY <2>4, Zenon DEF CreateArguments, RefundToArgument
  <2>10. /\ new.payer = req.payer /\ new.payee = req.payee /\ new.token = req.token
         /\ new.amount = req.amount /\ new.releasers = req.releasers /\ new.threshold = req.threshold
         /\ new.refund_after = req.refund_after /\ new.notify_payee = req.notify_payee
         /\ new.requires_acceptance = req.requires_acceptance
         /\ new.refund_to = (IF req.refund_to = {} THEN req.payer ELSE The(req.refund_to))
         /\ new.release_not_before = req.release_not_before
         /\ new.fee_recipient = req.fee_recipient /\ new.fee_bps = req.fee_bps
    <3>1. new = NewEscrow(req)
      BY <2>8
    <3> QED BY <3>1, Zenon DEF NewEscrow, RefundTo
  <2> QED BY <2>1, <2>8, <2>9, <2>10 DEF getEscrow
<1>3. ASSUME CreationsKept, [WritesNext]_writeVars
      PROVE [\A k \in DOMAIN txs :
               LET call == txs[k].call p == call.params IN
               /\ txs[k].state = "sent" /\ txs'[k].state = "executed"
               /\ "params" \in DOMAIN call
               => LET e == getEscrow(nextId - 1)' IN
                  /\ <<e.payer, e.payee, e.token, e.amount, e.releasers, e.threshold>>
                       = <<p.payer, p.payee, p.token, p.amount, <<p.releaser>>, 1>>
                  /\ e.refundAfter = p.refundAfter /\ e.notifyPayee = p.notifyPayee
                  /\ e.refundTo = (IF p.refundTo = {} THEN p.payer ELSE The(p.refundTo))
                  /\ e.releaseNotBefore = p.releaseNotBefore
                  /\ e.requiresAcceptance = p.requiresAcceptance
                  /\ ~p.requiresAcceptance =>
                       e.feeRecipient = p.feeRecipient /\ e.feeBps = p.feeBps]_netVars
  BY <1>2, <1>3
<1> QED BY <1>1, <1>3, CreationsStep, PTL DEF WritesSpec, CreatedAsAsked
-----------------------------------------------------------------------------
(* Groups of calls: how they go over their items.                              *)

\* A function on 1..n is a sequence of n elements.
LEMMA SeqOfLen ==
  ASSUME NEW n \in Nat, NEW S, NEW f \in [1..n -> S]
  PROVE  f \in Seq(S) /\ Len(f) = n
<1>1. f \in Seq(S)
  BY SeqDef
<1>2. Len(f) \in Nat /\ DOMAIN f = 1..Len(f)
  BY <1>1, LenProperties
<1>3. DOMAIN f = 1..n
  OBVIOUS
<1>4. \A m \in Nat : 1..m = 1..n => m = n
  OBVIOUS
<1> QED BY <1>1, <1>2, <1>3, <1>4

\* A chunk has at least one item.
LEMMA ChunkSize ==
  ASSUME NEW requested \in Option(Int)
  PROVE  ResolveChunkSize(requested) \in Nat \ {0}
<1>1. MAX_BATCH_SIZE \in Nat \ {0}
  BY LimitsAssumption, JobsAssumption
<1>2. ASSUME NEW m \in requested, m >= 1 PROVE Min(requested \cup {MAX_BATCH_SIZE}) \in Nat \ {0}
  <2>1. m \in Nat \ {0}
    BY <1>2 DEF Option
  <2>2. requested \cup {MAX_BATCH_SIZE} = {m, MAX_BATCH_SIZE}
    BY <1>2 DEF Option
  <2>3. {m, MAX_BATCH_SIZE} \in SUBSET Nat /\ {m, MAX_BATCH_SIZE} # {}
    BY <1>1, <2>1
  <2>4. Min({m, MAX_BATCH_SIZE}) \in {m, MAX_BATCH_SIZE}
    BY <2>3, MinMember
  <2> QED BY <1>1, <2>1, <2>2, <2>4
<1> QED BY <1>1, <1>2 DEF ResolveChunkSize

\* However they are cut into chunks, every item gets its turn.
LEMMA AttemptsAll ==
  ASSUME NEW n \in Nat, NEW size \in Nat \ {0}
  PROVE  Attempts(n, size) = 1..n
<1>1. ASSUME NEW start \in 1..n PROVE Chunk(start, size, n) = {i \in start..n : i <= start + size - 1}
  <2>1. {start + size - 1, n} \in SUBSET Nat /\ {start + size - 1, n} # {}
    OBVIOUS
  <2>2. PICK last : last = Min({start + size - 1, n})
    OBVIOUS
  <2>3. last \in {start + size - 1, n} /\ last <= start + size - 1 /\ last <= n
    BY <2>1, <2>2, MinMember
  <2> QED BY <2>2, <2>3 DEF Chunk
<1>2. ASSUME NEW i \in 1..n
      PROVE  \E start \in 1..n : (\E k \in 0..n : start = 1 + k * size) /\ start <= i /\ i <= start + size - 1
  <2>1. PICK k, r : k = (i - 1) \div size /\ r = (i - 1) % size
    OBVIOUS
  <2>2. i - 1 = size * k + r /\ r \in 0..(size - 1) /\ k \in Nat
    BY <2>1
  <2>3. k <= k * size /\ size * k = k * size /\ k * size \in Nat
    BY <2>2
  <2>4. k \in 0..n /\ 1 + k * size \in 1..n /\ 1 + k * size <= i /\ i <= 1 + k * size + size - 1
    BY <2>2, <2>3
  <2> QED BY <2>4
<1>3. \A i \in Attempts(n, size) : i \in 1..n
  BY <1>1 DEF Attempts
<1>4. ASSUME NEW i \in 1..n PROVE i \in Attempts(n, size)
  <2>1. PICK start \in 1..n : (\E k \in 0..n : start = 1 + k * size) /\ start <= i /\ i <= start + size - 1
    BY <1>2
  <2>2. i \in Chunk(start, size, n)
    BY <1>1, <2>1
  <2> QED BY <2>1, <2>2 DEF Attempts
<1> QED BY <1>3, <1>4

\* The items of a group are a sequence.
LEMMA ItemsAreListed ==
  ASSUME NEW j \in Jobs
  PROVE  /\ Len(Items(j)) \in Nat /\ DOMAIN Items(j) = 1..Len(Items(j))
         /\ j.chunkSize \in Option(Int)
<1>1. j \in BatchJob
  BY JobsAssumption
<1>2. CASE j.does = "milestones"
  <2>1. j.milestones \in Seq(Int)
    BY <1>1, <1>2 DEF BatchJob
  <2>2. Len(j.milestones) \in Nat /\ DOMAIN j.milestones = 1..Len(j.milestones)
    BY <2>1, LenProperties
  <2>3. PICK items, n, S : items = Items(j) /\ n = Len(j.milestones) /\ S = {Items(j)[i] : i \in 1..n}
    OBVIOUS
  <2>4. items \in [1..n -> S] /\ n \in Nat
    BY <1>2, <2>2, <2>3 DEF Items, Tranches
  <2>5. Len(items) = n /\ DOMAIN items = 1..n
    BY <2>4, SeqOfLen
  <2> QED BY <1>1, <2>3, <2>4, <2>5 DEF BatchJob
<1>3. CASE j.does # "milestones"
  <2>1. j.items \in Seq(CreateEscrowParams) \/ j.items \in Seq(BatchSettleOperation)
    BY <1>1, <1>3 DEF BatchJob
  <2>2. Len(j.items) \in Nat /\ DOMAIN j.items = 1..Len(j.items)
    BY <2>1, LenProperties
  <2> QED BY <1>1, <1>3, <2>2 DEF Items, BatchJob
<1> QED BY <1>2, <1>3

\* The ids that transactions have been given.
TxIds == \A k \in DOMAIN txs : txs[k].escrowId \in Option(Nat)

\* Each item has its report; the item that is out has not succeeded yet.
GroupKept ==
  /\ IsTxs /\ nextId \in Nat /\ TxIds
  /\ phase \in {"idle", "refused", "running", "returned", "thrown"}
  /\ phase # "idle" => job \in Jobs
  /\ results \in Seq(BatchItemResult)
  /\ Len(results) = IF phase \in {"idle", "refused"} THEN 0 ELSE Len(Items(job))
  /\ waiting = {} \/ waiting \in {{k} : k \in DOMAIN txs}
  /\ waiting # {} => phase = "running" /\ index \in 1..Len(results) /\ ~results[index].ok
  /\ phase = "running" => index \in 0..Len(results)

\* What is still to be tried: what comes later and has not succeeded.
LEMMA StillToDo ==
  ASSUME GroupKept, phase = "running"
  PROVE  Remaining = {i \in 1..Len(results) : i > index /\ ~results[i].ok}
<1>1. job \in Jobs /\ Len(results) \in Nat
  BY LenProperties DEF GroupKept
<1>2. ResolveChunkSize(job.chunkSize) \in Nat \ {0}
  BY <1>1, ItemsAreListed, ChunkSize
<1> QED BY <1>1, <1>2, AttemptsAll DEF Remaining

\* The item that is tried next has not succeeded; those it passes over have.
LEMMA NextItem ==
  ASSUME GroupKept, phase = "running", Remaining # {}
  PROVE  /\ Min(Remaining) \in 1..Len(results) /\ Min(Remaining) > index
         /\ ~results[Min(Remaining)].ok
         /\ \A i \in 1..Len(results) : i > index /\ i < Min(Remaining) => results[i].ok
<1>1. Len(results) \in Nat /\ index \in Nat
  BY LenProperties DEF GroupKept
<1>2. Remaining = {i \in 1..Len(results) : i > index /\ ~results[i].ok}
  BY StillToDo
<1>3. Remaining \in SUBSET Nat
  BY <1>2
<1>4. PICK m : m = Min(Remaining)
  OBVIOUS
<1>5. m \in Remaining /\ \A y \in Remaining : m <= y
  BY <1>3, <1>4, MinMember
<1>6. m \in 1..Len(results) /\ m > index /\ ~results[m].ok
  BY <1>2, <1>5
<1>7. ASSUME NEW i \in 1..Len(results), i > index, i < m PROVE results[i].ok
  BY <1>1, <1>2, <1>5, <1>6, <1>7
<1> QED BY <1>4, <1>6, <1>7

\* What a run starts from: what has succeeded stays as it was.
LEMMA CarriedOver ==
  ASSUME NEW n \in Nat, NEW from \in Seq(BatchItemResult)
  PROVE  /\ BatchResults(n, from) \in Seq(BatchItemResult) /\ Len(BatchResults(n, from)) = n
         /\ \A i \in 1..n :
              IF i \in DOMAIN from /\ from[i].ok
                THEN /\ BatchResults(n, from)[i].ok /\ BatchResults(n, from)[i].skipped
                     /\ BatchResults(n, from)[i].escrowId = from[i].escrowId
                ELSE BatchResults(n, from)[i] = Untried
<1>1. DOMAIN from = 1..Len(from) /\ \A i \in DOMAIN from : from[i] \in BatchItemResult
  BY LenProperties
<1>2. PICK f : f = BatchResults(n, from)
  OBVIOUS
<1>3. f = [i \in 1..n |-> IF i \in DOMAIN from /\ from[i].ok
                            THEN [from[i] EXCEPT !.skipped = TRUE, !.tried = FALSE] ELSE Untried]
  BY <1>2 DEF BatchResults
<1>4. Untried \in BatchItemResult
  BY DEF Untried, BatchItemResult, Option
<1>5. ASSUME NEW i \in 1..n
      PROVE  /\ f[i] \in BatchItemResult
             /\ IF i \in DOMAIN from /\ from[i].ok
                  THEN f[i].ok /\ f[i].skipped /\ f[i].escrowId = from[i].escrowId
                  ELSE f[i] = Untried
  <2>1. CASE i \in DOMAIN from /\ from[i].ok
    <3>1. from[i] \in BatchItemResult /\ f[i] = [from[i] EXCEPT !.skipped = TRUE, !.tried = FALSE]
      BY <1>1, <1>3, <2>1
    <3> QED BY <2>1, <3>1 DEF BatchItemResult
  <2>2. CASE ~(i \in DOMAIN from /\ from[i].ok)
    BY <1>3, <1>4, <2>2
  <2> QED BY <2>1, <2>2
<1>6. f \in [1..n -> BatchItemResult]
  BY <1>3, <1>5
<1> QED BY <1>2, <1>5, <1>6, SeqOfLen

\* One report is made.
LEMMA RecordEffect ==
  ASSUME results \in Seq(BatchItemResult), NEW i \in 1..Len(results), NEW ok \in BOOLEAN,
         NEW id \in Option(Nat), Record(i, ok, id)
  PROVE  /\ results' \in Seq(BatchItemResult) /\ Len(results') = Len(results)
         /\ results'[i] = [ok |-> ok, skipped |-> FALSE, tried |-> TRUE, escrowId |-> id]
         /\ \A j \in 1..Len(results) : j # i => results'[j] = results[j]
<1>1. PICK r : r = [ok |-> ok, skipped |-> FALSE, tried |-> TRUE, escrowId |-> id]
  OBVIOUS
<1>2. r \in BatchItemResult
  BY <1>1 DEF BatchItemResult
<1>3. results' = [results EXCEPT ![i] = r]
  BY <1>1 DEF Record
<1> QED BY <1>1, <1>2, <1>3, ExceptSeq

\* How a group goes on, whatever else happens.
LEMMA GroupStep == ASSUME GroupKept, [WritesNext]_writeVars PROVE GroupKept'
<1>1. /\ IsTxs /\ nextId \in Nat /\ TxIds /\ results \in Seq(BatchItemResult) /\ Len(results) \in Nat
      /\ \A i \in 1..Len(results) : results[i] \in BatchItemResult
  BY LenProperties DEF GroupKept
<1>2. IsTxs' /\ nextId' \in Nat /\ TxIds' /\ DOMAIN txs \subseteq DOMAIN txs'
  <2>1. ASSUME NEW call, CallSent(call)
        PROVE  IsTxs' /\ nextId' \in Nat /\ TxIds' /\ DOMAIN txs \subseteq DOMAIN txs'
    <3>1. /\ IsTxs' /\ DOMAIN txs' = DOMAIN txs \cup {Len(txs) + 1}
          /\ \A j \in DOMAIN txs : txs'[j] = txs[j]
          /\ txs'[Len(txs) + 1].escrowId = {}
      BY <1>1, <2>1, SubmitEffect DEF CallSent
    <3>2. nextId' = nextId /\ {} \in Option(Nat)
      BY <2>1 DEF CallSent, chain, Option
    <3> QED BY <1>1, <3>1, <3>2 DEF TxIds
  <2>2. ASSUME NEW k \in DOMAIN txs, Execute(k)
        PROVE  IsTxs' /\ nextId' \in Nat /\ TxIds' /\ DOMAIN txs \subseteq DOMAIN txs'
    <3>1. nextId' \in Nat /\ {nextId} \in Option(Nat) /\ {} \in Option(Nat)
      BY <1>1, <2>2, InvocationIds DEF Execute, TakesEffect, Option
    <3>2. /\ IsTxs' /\ DOMAIN txs' = DOMAIN txs
          /\ \A j \in DOMAIN txs : j # k => txs'[j] = txs[j]
          /\ txs'[k].escrowId \in {{nextId}, {}}
      BY <1>1, <2>2, ExecuteEffect
    <3> QED BY <1>1, <3>1, <3>2 DEF TxIds
  <2>3. ASSUME NEW k \in DOMAIN txs, Drop(k)
        PROVE  IsTxs' /\ nextId' \in Nat /\ TxIds' /\ DOMAIN txs \subseteq DOMAIN txs'
    <3>1. /\ IsTxs' /\ DOMAIN txs' = DOMAIN txs
          /\ \A j \in DOMAIN txs : j # k => txs'[j] = txs[j]
          /\ txs'[k].escrowId = txs[k].escrowId
      BY <1>1, <2>3, DropEffect
    <3> QED BY <1>1, <2>3, <3>1 DEF TxIds, Drop, chain
  <2>4. CASE UNCHANGED netVars
    BY <1>1, <2>4 DEF netVars, chain, IsTxs, TxIds
  <2>5. CASE Tick /\ UNCHANGED txs
    BY <1>1, <2>5 DEF Tick, IsTxs, TxIds
  <2> QED BY <2>1, <2>2, <2>3, <2>4, <2>5, WriteKinds DEF Network
<1>3. ASSUME UNCHANGED batchVars PROVE GroupKept'
  BY <1>2, <1>3 DEF GroupKept, batchVars
<1>4. ASSUME NEW j \in Jobs, BatchStart(j) PROVE GroupKept'
  <2>1. /\ Len(Items(j)) \in Nat /\ <<>> \in Seq(BatchItemResult) /\ Len(<<>>) = 0
    BY ItemsAreListed, EmptySeq
  <2>2. PICK n : n = Len(Items(j))
    OBVIOUS
  <2>3. BatchResults(n, <<>>) \in Seq(BatchItemResult) /\ Len(BatchResults(n, <<>>)) = n
    BY <2>1, <2>2, CarriedOver
  <2>4. job' = j /\ index' = 0 /\ waiting' = {}
    BY <1>4 DEF BatchStart
  <2>5. \/ phase' = "refused" /\ results' = <<>>
        \/ phase' = "running" /\ results' = BatchResults(n, <<>>)
    BY <1>4, <2>2 DEF BatchStart
  <2>6. CASE phase' = "refused" /\ results' = <<>>
    BY <1>2, <2>1, <2>4, <2>6 DEF GroupKept
  <2>7. CASE phase' = "running" /\ results' = BatchResults(n, <<>>)
    <3>1. results' \in Seq(BatchItemResult) /\ Len(results') = Len(Items(job'))
      BY <2>2, <2>3, <2>4, <2>7
    <3>2. Len(results') \in Nat
      BY <2>1, <2>4, <3>1
    <3> QED BY <1>2, <2>4, <2>7, <3>1, <3>2 DEF GroupKept
  <2> QED BY <2>5, <2>6, <2>7
<1>5. CASE BatchSend
  <2>1. PICK m : m = Min(Remaining)
    OBVIOUS
  <2>2. m \in 1..Len(results) /\ ~results[m].ok
    BY <1>5, <2>1, NextItem DEF BatchSend, Running
  <2>3. waiting' = {Len(txs) + 1} /\ index' = m /\ UNCHANGED <<job, results, phase>> /\ phase = "running"
    BY <1>5, <2>1 DEF BatchSend, Running
  <2>4. Len(txs) + 1 \in DOMAIN txs'
    BY <1>1, <1>5, SubmitEffect DEF BatchSend
  <2> QED BY <1>1, <1>2, <2>2, <2>3, <2>4 DEF GroupKept
<1>6. ASSUME NEW i \in 1..Len(results), NEW ok \in BOOLEAN, NEW id \in Option(Nat), Record(i, ok, id),
             phase = "running"
      PROVE  GroupKept'
  <2>1. results' \in Seq(BatchItemResult) /\ Len(results') = Len(results)
    BY <1>1, <1>6, RecordEffect
  <2>2. phase' \in {"thrown", "running"} /\ index' = i /\ waiting' = {} /\ UNCHANGED job
    BY <1>6 DEF Record
  <2> QED BY <1>1, <1>2, <1>6, <2>1, <2>2 DEF GroupKept
<1>7. CASE BatchThrow
  <2>1. PICK m : m = Min(Remaining)
    OBVIOUS
  <2>2. m \in 1..Len(results) /\ Record(m, FALSE, {}) /\ phase = "running" /\ {} \in Option(Nat)
    BY <1>7, <2>1, NextItem DEF BatchThrow, Running, Option
  <2> QED BY <1>6, <2>2
<1>8. CASE BatchAnswer \/ BatchFail
  <2>1. PICK k \in waiting : Record(index, TRUE, txs[k].escrowId) \/ Record(index, FALSE, {})
    BY <1>8 DEF BatchAnswer, BatchFail
  <2>2. k \in DOMAIN txs /\ index \in 1..Len(results) /\ phase = "running"
    BY <2>1 DEF GroupKept
  <2>3. txs[k].escrowId \in Option(Nat) /\ {} \in Option(Nat)
    BY <1>1, <2>2 DEF TxIds, Option
  <2> QED BY <1>6, <2>1, <2>2, <2>3
<1>9. CASE BatchEnd
  BY <1>2, <1>9 DEF GroupKept, BatchEnd, Running
<1>10. CASE BatchResume
  <2>1. PICK n : n = Len(Items(job))
    OBVIOUS
  <2>2. n \in Nat /\ waiting = {}
    BY <1>10, <2>1, ItemsAreListed DEF GroupKept, BatchResume
  <2>3. BatchResults(n, results) \in Seq(BatchItemResult) /\ Len(BatchResults(n, results)) = n
    BY <1>1, <2>2, CarriedOver
  <2>4. results' = BatchResults(n, results) /\ phase' = "running" /\ index' = 0 /\ phase = "thrown"
        /\ UNCHANGED <<job, waiting>>
    BY <1>10, <2>1 DEF BatchResume
  <2> QED BY <1>2, <2>1, <2>2, <2>3, <2>4 DEF GroupKept
<1>11. ASSUME NEW kind, NEW i, NEW caller, SettleMilestone(kind, i, caller) PROVE GroupKept'
  BY <1>3, <1>11 DEF SettleMilestone
<1>12. CASE BatchNext
  BY <1>3, <1>4, <1>5, <1>7, <1>8, <1>9, <1>10, <1>11, <1>12 DEF BatchNext
<1> QED BY <1>3, <1>12 DEF WritesNext, writeVars

\* For any job, chunk size and number of runs: what has been reported done stays
\* reported so, under the same escrow id.
THEOREM SuccessesAreKept == WritesSpec => ResumeKeepsSuccesses
<1>1. RequestsInit /\ BatchInit => GroupKept
  BY EmptySeq DEF RequestsInit, BatchInit, Init, GroupKept, IsTxs, TxIds
<1>2. ASSUME GroupKept, [WritesNext]_writeVars
      PROVE [\A i \in DOMAIN results :
               results[i].ok => i \in DOMAIN results' /\ results'[i].ok
                                /\ results'[i].escrowId = results[i].escrowId]_<<batchVars, netVars>>
  <2> SUFFICES ASSUME NEW i \in DOMAIN results, results[i].ok
               PROVE  i \in DOMAIN results' /\ results'[i].ok
                      /\ results'[i].escrowId = results[i].escrowId
    OBVIOUS
  <2>1. results \in Seq(BatchItemResult) /\ Len(results) \in Nat /\ i \in 1..Len(results)
    BY <1>2, LenProperties DEF GroupKept
  <2>2. CASE UNCHANGED results
    BY <2>2
  <2>3. ASSUME NEW n \in 1..Len(results), NEW ok \in BOOLEAN, NEW id \in Option(Nat), Record(n, ok, id), ~results[n].ok
        PROVE  i \in DOMAIN results' /\ results'[i].ok /\ results'[i].escrowId = results[i].escrowId
    <3>1. /\ results' \in Seq(BatchItemResult) /\ Len(results') = Len(results)
          /\ \A j \in 1..Len(results) : j # n => results'[j] = results[j]
      BY <2>1, <2>3, RecordEffect
    <3>2. DOMAIN results' = 1..Len(results)
      BY <3>1, LenProperties
    <3> QED BY <2>1, <2>3, <3>1, <3>2
  <2>4. CASE BatchThrow
    <3>1. PICK m : m = Min(Remaining)
      OBVIOUS
    <3>2. m \in 1..Len(results) /\ ~results[m].ok /\ Record(m, FALSE, {}) /\ {} \in Option(Nat)
      BY <1>2, <2>4, <3>1, NextItem DEF BatchThrow, Running, Option
    <3> QED BY <2>3, <3>2
  <2>5. CASE BatchAnswer \/ BatchFail
    <3>1. PICK k \in waiting : Record(index, TRUE, txs[k].escrowId) \/ Record(index, FALSE, {})
      BY <2>5 DEF BatchAnswer, BatchFail
    <3>2. k \in DOMAIN txs /\ index \in 1..Len(results) /\ ~results[index].ok
      BY <1>2, <3>1 DEF GroupKept
    <3>3. txs[k].escrowId \in Option(Nat) /\ {} \in Option(Nat)
      BY <1>2, <3>2 DEF GroupKept, TxIds, Option
    <3> QED BY <2>3, <3>1, <3>2, <3>3
  <2>6. ASSUME NEW j, BatchStart(j) PROVE FALSE
    BY <1>2, <2>1, <2>6 DEF BatchStart, GroupKept
  <2>7. CASE BatchResume
    <3>1. PICK n : n = Len(Items(job))
      OBVIOUS
    <3>2. n \in Nat /\ n = Len(results)
      BY <1>2, <2>7, <3>1, ItemsAreListed DEF GroupKept, BatchResume
    <3>3. results' = BatchResults(n, results)
      BY <2>7, <3>1 DEF BatchResume
    <3>4. /\ results' \in Seq(BatchItemResult) /\ Len(results') = n
          /\ results'[i].ok /\ results'[i].escrowId = results[i].escrowId
      BY <2>1, <3>2, <3>3, CarriedOver
    <3>5. DOMAIN results' = 1..n
      BY <3>4, LenProperties
    <3> QED BY <2>1, <3>2, <3>4, <3>5
  <2>8. CASE BatchSend \/ BatchEnd \/ \E kind, n, caller : SettleMilestone(kind, n, caller)
    BY <2>2, <2>8 DEF BatchSend, BatchEnd, SettleMilestone, batchVars
  <2>9. CASE UNCHANGED batchVars
    BY <2>2, <2>9 DEF batchVars
  <2>10. CASE BatchNext
    BY <2>4, <2>5, <2>6, <2>7, <2>8, <2>9, <2>10 DEF BatchNext
  <2> QED BY <1>2, <2>9, <2>10 DEF WritesNext, writeVars
<1> QED BY <1>1, <1>2, GroupStep, PTL DEF WritesSpec, ResumeKeepsSuccesses
-----------------------------------------------------------------------------
(* Groups of calls: what their reports stand for.                              *)

\* What the contract keeps about its escrows, as far as the reports speak of it.
ChainKept ==
  /\ nextId \in Nat
  /\ \A id \in DOMAIN escrow : /\ id \in Nat /\ id < nextId
                               /\ {"status", "payee", "amount"} \subseteq DOMAIN escrow[id]
  /\ DOMAIN pooled \subseteq DOMAIN escrow

\* Escrow id is there still; a settled one stays as it was settled, and one that is not
\* pooled holds what it held unless a top-up may have reached it.
Persists(id, toppedUp) ==
  /\ id \in DOMAIN escrow' /\ escrow'[id].payee = escrow[id].payee
  /\ escrow[id].status # "Funded" => escrow'[id].status = escrow[id].status
  /\ id \notin DOMAIN pooled =>
       /\ id \notin DOMAIN pooled'
       /\ ~toppedUp => escrow'[id].amount = escrow[id].amount

\* One field of one escrow changes.
LEMMA FieldEdited ==
  ASSUME ChainKept, nextId' = nextId, pooled' = pooled, NEW id \in DOMAIN escrow, NEW new,
         escrow' = [escrow EXCEPT ![id] = new],
         {"status", "payee", "amount"} \subseteq DOMAIN new,
         new.payee = escrow[id].payee,
         escrow[id].status # "Funded" => new.status = escrow[id].status,
         NEW toppedUp,
         id \notin DOMAIN pooled /\ ~toppedUp => new.amount = escrow[id].amount
  PROVE  ChainKept' /\ \A x \in DOMAIN escrow : Persists(x, toppedUp)
<1>1. DOMAIN escrow' = DOMAIN escrow /\ \A x \in DOMAIN escrow : escrow'[x] = IF x = id THEN new ELSE escrow[x]
  OBVIOUS
<1>2. ChainKept'
  BY <1>1 DEF ChainKept
<1> QED BY <1>1, <1>2 DEF Persists

\* One escrow settles.
LEMMA SettledKept ==
  ASSUME ChainKept, NEW id, NEW to, Funded(id), SettleOne(id, to)
  PROVE  /\ ChainKept' /\ \A x \in DOMAIN escrow : Persists(x, FALSE)
         /\ escrow'[id].status = to /\ id \in DOMAIN escrow'
<1>1. /\ escrow' = [x \in DOMAIN escrow |->
                      IF x \in {id} THEN [escrow[x] EXCEPT !.status = [y \in {id} |-> to][x]] ELSE escrow[x]]
      /\ nextId' = nextId /\ pooled' = pooled
  BY DEF SettleOne, Settle
<1>2. PICK new : new = [escrow[id] EXCEPT !.status = to]
  OBVIOUS
<1>3. id \in DOMAIN escrow /\ escrow[id].status = "Funded"
  BY DEF Funded, Exists
<1>4. escrow' = [escrow EXCEPT ![id] = new]
  BY <1>1, <1>2, <1>3
<1>5. {"status", "payee", "amount"} \subseteq DOMAIN escrow[id]
  BY <1>3 DEF ChainKept
<1>6. /\ {"status", "payee", "amount"} \subseteq DOMAIN new
      /\ new.payee = escrow[id].payee /\ new.amount = escrow[id].amount /\ new.status = to
  BY <1>2, <1>5
<1>7. ChainKept' /\ \A x \in DOMAIN escrow : Persists(x, FALSE)
  BY <1>1, <1>3, <1>4, <1>6, FieldEdited
<1> QED BY <1>3, <1>4, <1>6, <1>7

\* A call keeps what is there.
LEMMA InvocationKeeps ==
  ASSUME ChainKept, NEW call, Invocation(call)
  PROVE  ChainKept' /\ \A x \in DOMAIN escrow : Persists(x, call.fn = "top_up")
<1>1. CASE call.fn \in {"create_escrow", "create_escrow_release_time", "create_escrow_with_acceptance",
                        "create_escrow_with_releasers"}
  <2>1. CreateEscrowInner(call.request.payer, <<call.request>>) /\ nextId \in Nat
    BY <1>1, CreateCalls DEF ChainKept
  <2>2. /\ nextId' = nextId + 1 /\ DOMAIN escrow' = DOMAIN escrow \cup {nextId}
        /\ escrow'[nextId] = NewEscrow(call.request) /\ pooled' = pooled
        /\ \A id \in DOMAIN escrow : id < nextId => escrow'[id] = escrow[id]
    BY <2>1, CreateOneEffect
  <2>3. {"status", "payee", "amount"} \subseteq DOMAIN escrow'[nextId]
    BY <2>2 DEF NewEscrow
  <2>4. ChainKept'
    BY <2>1, <2>2, <2>3 DEF ChainKept
  <2> QED BY <2>2, <2>4 DEF Persists, ChainKept
<1>2. CASE call.fn = "create_pooled_escrow"
  <2>1. CreatePooledEscrow(call.request)
    BY <1>2 DEF Invocation
  <2>2. PICK new, round : /\ new.status = "Funded" /\ {"status", "payee", "amount"} \subseteq DOMAIN new
                          /\ escrow' = Put(escrow, nextId, new) /\ pooled' = Put(pooled, nextId, round)
    BY <2>1 DEF CreatePooledEscrow
  <2>3. nextId' = nextId + 1
    BY <2>1 DEF CreatePooledEscrow
  <2> QED BY <2>2, <2>3 DEF ChainKept, Persists, Put
<1>3. ASSUME NEW id \in DOMAIN escrow, NEW v, escrow' = [escrow EXCEPT ![id].amount = v],
             nextId' = nextId, pooled' = pooled, IsPooled(id) \/ call.fn = "top_up"
      PROVE  ChainKept' /\ \A x \in DOMAIN escrow : Persists(x, call.fn = "top_up")
  <2>1. PICK new : new = [escrow[id] EXCEPT !.amount = v]
    OBVIOUS
  <2>2. {"status", "payee", "amount"} \subseteq DOMAIN escrow[id]
    BY DEF ChainKept
  <2>3. /\ {"status", "payee", "amount"} \subseteq DOMAIN new
        /\ new.payee = escrow[id].payee /\ new.status = escrow[id].status
    BY <2>1, <2>2
  <2>4. escrow' = [escrow EXCEPT ![id] = new]
    BY <1>3, <2>1
  <2>5. id \notin DOMAIN pooled => call.fn = "top_up"
    BY <1>3 DEF IsPooled
  <2> QED BY <1>3, <2>3, <2>4, <2>5, FieldEdited
<1>4. CASE call.fn \in {"contribute", "top_up", "claim_refund"}
  <2>1. \/ Contribute(call.id, call.caller, call.amount)
        \/ call.fn = "top_up" /\ TopUp(call.id, call.caller, call.amount)
        \/ ClaimRefund(call.id, call.caller)
    BY <1>4 DEF Invocation
  <2>2. /\ call.id \in DOMAIN escrow /\ nextId' = nextId /\ pooled' = pooled
        /\ IsPooled(call.id) \/ call.fn = "top_up"
    BY <2>1 DEF Contribute, TopUp, ClaimRefund, Funded, Exists
  <2>3. \E v : escrow' = [escrow EXCEPT ![call.id].amount = v]
    BY <2>1 DEF Contribute, TopUp, ClaimRefund
  <2> QED BY <1>3, <2>2, <2>3
<1>5. CASE call.fn = "accept"
  <2>1. Accept(call.id, call.caller)
    BY <1>5 DEF Invocation
  <2>2. PICK new : new = [escrow[call.id] EXCEPT !.accepted_at = {now}]
    OBVIOUS
  <2>3. /\ call.id \in DOMAIN escrow /\ nextId' = nextId /\ pooled' = pooled
        /\ escrow' = [escrow EXCEPT ![call.id] = new]
    BY <2>1, <2>2 DEF Accept, Funded, Exists
  <2>4. {"status", "payee", "amount"} \subseteq DOMAIN escrow[call.id]
    BY <2>3 DEF ChainKept
  <2>5. /\ {"status", "payee", "amount"} \subseteq DOMAIN new
        /\ new.payee = escrow[call.id].payee /\ new.status = escrow[call.id].status
        /\ new.amount = escrow[call.id].amount
    BY <2>2, <2>4
  <2> QED BY <2>3, <2>5, FieldEdited
<1>6. CASE call.fn \in {"pause", "unpause"}
  <2>1. Pause(call.caller) \/ Unpause(call.caller)
    BY <1>6 DEF Invocation
  <2>2. escrow' = escrow /\ nextId' = nextId /\ pooled' = pooled
    BY <2>1 DEF Pause, Unpause, books
  <2> QED BY <2>2 DEF ChainKept, Persists
<1>7. CASE call.fn \in {"cancel", "release", "refund", "release_with_approvals", "refund_with_approvals"}
  <2>1. \/ Cancel(call.id, call.caller) \/ Release(call.id, call.caller) \/ Refund(call.id, call.caller)
        \/ ReleaseWithApprovals(call.id, call.approvers) \/ RefundWithApprovals(call.id, call.approvers)
    BY <1>7 DEF Invocation
  <2>2. Funded(call.id) /\ \E to : SettleOne(call.id, to)
    BY <2>1 DEF Cancel, Release, Refund, ReleaseWithApprovals, RefundWithApprovals, ReleaseChecks, RefundChecks
  <2> QED BY <2>2, SettledKept DEF Persists
<1> QED BY <1>1, <1>2, <1>4, <1>5, <1>6, <1>7 DEF Invocation

\* No transaction of this SDK tops an escrow up.
NobodyTopsUp == \A k \in DOMAIN txs : txs[k].call.fn # "top_up"

\* What an executed call stands for on the chain; amounts grow by top-ups.
Took(call, ids) ==
  /\ call.fn = "release" => Exists(call.id) /\ escrow[call.id].status = "Released"
  /\ call.fn = "refund" => Exists(call.id) /\ escrow[call.id].status = "Refunded"
  /\ "params" \in DOMAIN call =>
       \E id \in ids : /\ Exists(id) /\ ~IsPooled(id)
                       /\ escrow[id].payee = call.params.payee
                       /\ NobodyTopsUp => escrow[id].amount = call.params.amount

\* It still does, whatever happens next.
LEMMA TookStays ==
  ASSUME NEW call, NEW ids, Took(call, ids), \A x \in DOMAIN escrow : Persists(x, ~NobodyTopsUp),
         NobodyTopsUp' => NobodyTopsUp
  PROVE  Took(call, ids)'
<1>1. ASSUME NEW id, Exists(id)
      PROVE  /\ Exists(id)' /\ (~IsPooled(id) => ~IsPooled(id)') /\ escrow'[id].payee = escrow[id].payee
             /\ escrow[id].status # "Funded" => escrow'[id].status = escrow[id].status
             /\ NobodyTopsUp /\ ~IsPooled(id) => escrow'[id].amount = escrow[id].amount
  BY <1>1 DEF Persists, Exists, IsPooled
<1> QED BY <1>1 DEF Took

\* A call does what it stands for when it is executed.
LEMMA TakesPlace ==
  ASSUME ChainKept, NEW call, Invocation(call),
         "params" \in DOMAIN call => call \in createEscrow(call.params),
         NEW ids, ids = IF nextId' > nextId THEN {nextId} ELSE {}
  PROVE  Took(call, ids)'
<1>1. ASSUME call.fn = "release" PROVE Exists(call.id)' /\ escrow'[call.id].status = "Released"
  BY <1>1, SettledKept DEF Invocation, Release, ReleaseChecks, Exists
<1>2. ASSUME call.fn = "refund" PROVE Exists(call.id)' /\ escrow'[call.id].status = "Refunded"
  BY <1>2, SettledKept DEF Invocation, Refund, RefundChecks, Exists
<1>3. ASSUME "params" \in DOMAIN call
      PROVE  \E id \in ids : /\ Exists(id)' /\ ~IsPooled(id)'
                             /\ escrow'[id].payee = call.params.payee
                             /\ escrow'[id].amount = call.params.amount
  <2>1. PICK p, req : p = call.params /\ req = CreateArguments(p)
    OBVIOUS
  <2>2. /\ call.request = req
        /\ call.fn \in {"create_escrow", "create_escrow_release_time", "create_escrow_with_acceptance"}
    BY <1>3, <2>1 DEF createEscrow, Unless
  <2>3. CreateEscrowInner(req.payer, <<req>>) /\ nextId \in Nat
    BY <2>2, CreateCalls DEF ChainKept
  <2>4. /\ nextId' = nextId + 1 /\ nextId \in DOMAIN escrow' /\ escrow'[nextId] = NewEscrow(req)
        /\ pooled' = pooled
    BY <2>3, CreateOneEffect
  <2>5. req.payee = p.payee /\ req.amount = p.amount
    BY <2>1, Zenon DEF CreateArguments
  <2>6. escrow'[nextId].payee = req.payee /\ escrow'[nextId].amount = req.amount
    <3>1. PICK new : new = NewEscrow(req)
      OBVIOUS
    <3>2. new.payee = req.payee /\ new.amount = req.amount
      BY <3>1, Zenon DEF NewEscrow
    <3> QED BY <2>4, <3>1, <3>2
  <2>7. nextId \notin DOMAIN pooled
    BY <2>3 DEF ChainKept
  <2>8. PICK id : id = nextId /\ id \in ids
    BY <2>3, <2>4
  <2>9. Exists(id)' /\ ~IsPooled(id)'
    BY <2>4, <2>7, <2>8 DEF Exists, IsPooled
  <2> QED BY <2>1, <2>5, <2>6, <2>8, <2>9
<1> QED BY <1>1, <1>2, <1>3 DEF Took

\* Transactions take effect as their calls say, and each on an escrow of its own.
TxsTrue ==
  /\ CreationsKept /\ ChainKept
  /\ \A k \in DOMAIN txs :
       /\ Executed(k) => Took(txs[k].call, txs[k].escrowId)
       /\ ~Executed(k) => txs[k].escrowId = {}
       /\ \A id \in txs[k].escrowId : id \in Nat /\ id < nextId
       /\ \A j \in DOMAIN txs :
            j # k /\ txs[k].escrowId # {} => txs[j].escrowId # txs[k].escrowId

\* They go on doing so.
LEMMA TxsTrueStep == ASSUME TxsTrue, [WritesNext]_writeVars PROVE TxsTrue'
<1>1. IsTxs /\ nextId \in Nat /\ CreationsKept' /\ ChainKept
  BY CreationsStep DEF TxsTrue, CreationsKept
<1>2. ASSUME UNCHANGED chain
      PROVE  ChainKept' /\ nextId' = nextId /\ \A x \in DOMAIN escrow : Persists(x, ~NobodyTopsUp)
  BY <1>1, <1>2 DEF chain, books, ChainKept, Persists
<1>3. ASSUME NEW call, CallSent(call) PROVE TxsTrue'
  <2>1. ChainKept' /\ nextId' = nextId /\ \A x \in DOMAIN escrow : Persists(x, ~NobodyTopsUp)
    BY <1>2, <1>3 DEF CallSent
  <2>2. /\ DOMAIN txs' = DOMAIN txs \cup {Len(txs) + 1} /\ Len(txs) + 1 \notin DOMAIN txs
        /\ \A j \in DOMAIN txs : txs'[j] = txs[j]
        /\ txs'[Len(txs) + 1].state = "sent" /\ txs'[Len(txs) + 1].escrowId = {}
        /\ NobodyTopsUp' => NobodyTopsUp
    BY <1>1, <1>3, SubmitEffect DEF CallSent, NobodyTopsUp
  <2>3. ASSUME NEW k \in DOMAIN txs, Executed(k) PROVE Took(txs[k].call, txs[k].escrowId)'
    <3>1. Took(txs[k].call, txs[k].escrowId)
      BY <2>3 DEF TxsTrue
    <3>2. PICK call1, ids : call1 = txs[k].call /\ ids = txs[k].escrowId
      OBVIOUS
    <3>3. Took(call1, ids)'
      BY <2>1, <2>2, <3>1, <3>2, TookStays
    <3>4. txs'[k] = txs[k]
      BY <2>2
    <3> QED BY <3>2, <3>3, <3>4
  <2> QED BY <1>1, <2>1, <2>2, <2>3 DEF TxsTrue, Executed
<1>4. ASSUME NEW k \in DOMAIN txs, Execute(k) PROVE TxsTrue'
  <2>1. PICK call, ids : call = txs[k].call /\ ids = IF nextId' > nextId THEN {nextId} ELSE {}
    OBVIOUS
  <2>2. /\ Invocation(call) /\ txs[k].state = "sent"
        /\ call.fn = "top_up" => ~NobodyTopsUp
    BY <1>4, <2>1 DEF Execute, TakesEffect, NobodyTopsUp
  <2>3. ChainKept' /\ \A x \in DOMAIN escrow : Persists(x, ~NobodyTopsUp)
    <3>1. ChainKept' /\ \A x \in DOMAIN escrow : Persists(x, call.fn = "top_up")
      BY <1>1, <2>2, InvocationKeeps
    <3> QED BY <2>2, <3>1 DEF Persists
  <2>4. nextId' \in {nextId, nextId + 1}
    BY <1>1, <2>2, InvocationIds
  <2>5. /\ DOMAIN txs' = DOMAIN txs /\ \A j \in DOMAIN txs : j # k => txs'[j] = txs[j]
        /\ txs'[k].call = call /\ txs'[k].state = "executed" /\ txs'[k].escrowId = ids
        /\ NobodyTopsUp' => NobodyTopsUp
    BY <1>1, <1>4, <2>1, ExecuteEffect DEF NobodyTopsUp
  <2>6. Took(call, ids)'
    BY <1>1, <2>1, <2>2, TakesPlace DEF TxsTrue, CreationsKept
  <2>7. ASSUME NEW j \in DOMAIN txs, Executed(j), j # k PROVE Took(txs[j].call, txs[j].escrowId)'
    <3>1. PICK c, x : c = txs[j].call /\ x = txs[j].escrowId
      OBVIOUS
    <3>2. Took(c, x)
      BY <2>7, <3>1 DEF TxsTrue
    <3>3. Took(c, x)'
      BY <2>3, <2>5, <3>2, TookStays
    <3> QED BY <2>5, <2>7, <3>1, <3>3
  <2>8. ASSUME NEW j \in DOMAIN txs'
        PROVE  /\ ~Executed(j)' => txs'[j].escrowId = {}
               /\ \A id \in txs'[j].escrowId : id \in Nat /\ id < nextId'
               /\ \A i \in DOMAIN txs' :
                    i # j /\ txs'[j].escrowId # {} => txs'[i].escrowId # txs'[j].escrowId
    <3>1. txs[k].escrowId = {} /\ \A id \in txs[j].escrowId : id \in Nat /\ id < nextId
      BY <2>2, <2>5, <2>8 DEF TxsTrue, Executed
    <3>2. \A i \in DOMAIN txs : \A id \in txs[i].escrowId : id \in Nat /\ id < nextId
      BY DEF TxsTrue
    <3>3. ids = {} \/ (ids = {nextId} /\ nextId' = nextId + 1)
      BY <1>1, <2>1, <2>4
    <3>4. CASE j = k
      BY <1>1, <2>4, <2>5, <3>2, <3>3, <3>4 DEF Executed
    <3>5. CASE j # k
      <4>1. txs'[j] = txs[j] /\ j \in DOMAIN txs
        BY <2>5, <2>8, <3>5
      <4>2. ~Executed(j)' => txs'[j].escrowId = {}
        BY <2>5, <2>8, <4>1 DEF TxsTrue, Executed
      <4>3. \A id \in txs'[j].escrowId : id \in Nat /\ id < nextId'
        BY <1>1, <2>4, <3>2, <4>1
      <4>4. ASSUME NEW i \in DOMAIN txs, i # j, txs[j].escrowId # {} PROVE txs'[i].escrowId # txs[j].escrowId
        <5>1. CASE i = k
          BY <1>1, <2>5, <3>2, <3>3, <4>1, <4>4, <5>1
        <5>2. CASE i # k
          BY <2>5, <4>1, <4>4, <5>2 DEF TxsTrue
        <5> QED BY <5>1, <5>2
      <4> QED BY <2>5, <4>1, <4>2, <4>3, <4>4
    <3> QED BY <3>4, <3>5
  <2>9. ASSUME NEW j \in DOMAIN txs', Executed(j)' PROVE Took(txs[j].call, txs[j].escrowId)'
    <3>1. CASE j = k
      BY <2>5, <2>6, <3>1
    <3>2. CASE j # k
      BY <2>5, <2>7, <2>9, <3>2 DEF Executed
    <3> QED BY <3>1, <3>2
  <2> QED BY <1>1, <2>3, <2>8, <2>9 DEF TxsTrue
<1>5. ASSUME TxsTrue, ChainKept', nextId' = nextId, \A x \in DOMAIN escrow : Persists(x, ~NobodyTopsUp), DOMAIN txs' = DOMAIN txs,
             \A j \in DOMAIN txs : /\ txs'[j].call = txs[j].call /\ txs'[j].escrowId = txs[j].escrowId
                                   /\ txs'[j].state = "executed" <=> txs[j].state = "executed"
      PROVE  TxsTrue'
  <2> NobodyTopsUp' => NobodyTopsUp
    BY <1>5 DEF NobodyTopsUp
  <2>1. ASSUME NEW j \in DOMAIN txs', Executed(j)' PROVE Took(txs[j].call, txs[j].escrowId)'
    <3>1. PICK c, x : c = txs[j].call /\ x = txs[j].escrowId
      OBVIOUS
    <3>2. Took(c, x)
      BY <1>5, <2>1, <3>1 DEF TxsTrue, Executed
    <3>3. Took(c, x)'
      BY <1>5, <3>2, TookStays
    <3>4. c = txs'[j].call /\ x = txs'[j].escrowId
      BY <1>5, <2>1, <3>1
    <3> QED BY <3>3, <3>4
  <2> QED BY <1>1, <1>5, <2>1 DEF TxsTrue, Executed
<1>6. ASSUME NEW k \in DOMAIN txs, Drop(k) PROVE TxsTrue'
  <2>1. /\ DOMAIN txs' = DOMAIN txs /\ \A j \in DOMAIN txs : j # k => txs'[j] = txs[j]
        /\ txs[k].state = "sent" /\ txs'[k].state = "dropped"
        /\ txs'[k].call = txs[k].call /\ txs'[k].escrowId = txs[k].escrowId
    BY <1>1, <1>6, DropEffect
  <2>2. ChainKept' /\ nextId' = nextId /\ \A x \in DOMAIN escrow : Persists(x, ~NobodyTopsUp)
    BY <1>2, <1>6 DEF Drop
  <2> QED BY <1>5, <2>1, <2>2
<1>7. CASE UNCHANGED txs /\ (Tick \/ UNCHANGED chain)
  <2>1. ChainKept' /\ nextId' = nextId /\ \A x \in DOMAIN escrow : Persists(x, ~NobodyTopsUp)
    BY <1>1, <1>2, <1>7 DEF Tick, books, ChainKept, Persists
  <2> QED BY <1>5, <1>7, <2>1
<1> QED BY <1>3, <1>4, <1>6, <1>7, WriteKinds DEF Network, netVars

\* Every report of a success is about a transaction that took the item onto the chain,
\* each about another one; all items up to the position have been tried.
ReportsKept ==
  /\ \A i \in DOMAIN results :
       /\ ~results[i].ok => results[i].escrowId = {}
       /\ results[i].ok =>
            /\ results[i].tried \/ results[i].skipped
            /\ \E k \in DOMAIN txs : /\ Executed(k) /\ txs[k].escrowId = results[i].escrowId
                                     /\ txs[k].call \in ItemCall(job, Items(job)[i])
       /\ \A j \in DOMAIN results :
            i # j /\ results[i].escrowId # {} => results[i].escrowId # results[j].escrowId
  /\ \A k \in waiting :
       /\ txs[k].call \in ItemCall(job, Items(job)[index])
       /\ \A i \in DOMAIN results : results[i].escrowId # {} => results[i].escrowId # txs[k].escrowId
  /\ phase = "running" =>
       \A i \in DOMAIN results : i < index \/ (i = index /\ waiting = {}) => results[i].ok \/ results[i].tried
  /\ phase \in {"returned", "thrown"} /\ job.does # "milestones" =>
       \A i \in DOMAIN results : results[i].tried \/ results[i].skipped
  /\ phase = "returned" => \A i \in DOMAIN results : results[i].ok

\* The network and the other callers leave the reports as true as they are.
LEMMA ReportsStay ==
  ASSUME GroupKept, TxsTrue, ReportsKept, UNCHANGED batchVars, [WritesNext]_writeVars
  PROVE  ReportsKept'
<1>1. /\ IsTxs /\ waiting \subseteq DOMAIN txs
      /\ UNCHANGED <<job, results, index, waiting, phase>>
  BY DEF GroupKept, batchVars
<1>2. ASSUME DOMAIN txs \subseteq DOMAIN txs',
             \A k \in DOMAIN txs : txs'[k].call = txs[k].call,
             \A k \in DOMAIN txs : Executed(k) => Executed(k)' /\ txs'[k].escrowId = txs[k].escrowId,
             \A k \in waiting, i \in DOMAIN results :
               results[i].escrowId # {} => results[i].escrowId # txs'[k].escrowId
      PROVE  ReportsKept'
  <2>1. ASSUME NEW i \in DOMAIN results, results[i].ok
        PROVE  \E k \in DOMAIN txs' : /\ Executed(k)' /\ txs'[k].escrowId = results'[i].escrowId
                                      /\ txs'[k].call \in ItemCall(job', Items(job')[i])
    <3>1. PICK k \in DOMAIN txs : /\ Executed(k) /\ txs[k].escrowId = results[i].escrowId
                                  /\ txs[k].call \in ItemCall(job, Items(job)[i])
      BY <2>1 DEF ReportsKept
    <3>2. PICK calls_i : calls_i = ItemCall(job, Items(job)[i])
      OBVIOUS
    <3>3. calls_i = ItemCall(job', Items(job')[i])
      BY <1>1, <3>2
    <3> QED BY <1>1, <1>2, <3>1, <3>2, <3>3
  <2> QED BY <1>1, <1>2, <2>1 DEF ReportsKept
<1>3. CASE UNCHANGED txs
  BY <1>1, <1>2, <1>3 DEF ReportsKept, Executed
<1>4. ASSUME NEW call, CallSent(call) PROVE ReportsKept'
  <2>1. /\ DOMAIN txs' = DOMAIN txs \cup {Len(txs) + 1}
        /\ \A j \in DOMAIN txs : txs'[j] = txs[j]
    BY <1>1, <1>4, SubmitEffect DEF CallSent
  <2> QED BY <1>1, <1>2, <2>1 DEF ReportsKept, Executed
<1>5. ASSUME NEW k \in DOMAIN txs, Execute(k) PROVE ReportsKept'
  <2>1. /\ DOMAIN txs' = DOMAIN txs /\ \A j \in DOMAIN txs : j # k => txs'[j] = txs[j]
        /\ txs'[k].call = txs[k].call /\ txs'[k].state = "executed"
        /\ txs'[k].escrowId = IF nextId' > nextId THEN {nextId} ELSE {}
    BY <1>1, <1>5, ExecuteEffect
  <2>2. ~Executed(k)
    BY <1>5 DEF Execute, Executed
  <2>3. ASSUME NEW i \in DOMAIN results, results[i].escrowId # {}
        PROVE  results[i].escrowId # txs'[k].escrowId
    <3>1. PICK j \in DOMAIN txs : txs[j].escrowId = results[i].escrowId
      BY <2>3 DEF ReportsKept
    <3>2. \A id \in txs[j].escrowId : id \in Nat /\ id < nextId
      BY DEF TxsTrue
    <3>3. nextId \in Nat
      BY DEF GroupKept
    <3> QED BY <2>1, <2>3, <3>1, <3>2, <3>3
  <2>4. ASSUME NEW j \in waiting, NEW i \in DOMAIN results, results[i].escrowId # {}
        PROVE  results[i].escrowId # txs'[j].escrowId
    <3>1. CASE j = k
      BY <2>3, <2>4, <3>1
    <3>2. CASE j # k
      BY <1>1, <2>1, <2>4, <3>2 DEF ReportsKept
    <3> QED BY <3>1, <3>2
  <2>5. \A j \in DOMAIN txs : Executed(j) => Executed(j)' /\ txs'[j].escrowId = txs[j].escrowId
    BY <2>1, <2>2 DEF Executed
  <2>6. \A j \in DOMAIN txs : txs'[j].call = txs[j].call
    BY <2>1
  <2> QED BY <1>2, <2>1, <2>4, <2>5, <2>6
<1>6. ASSUME NEW k \in DOMAIN txs, Drop(k) PROVE ReportsKept'
  <2>1. /\ DOMAIN txs' = DOMAIN txs /\ \A j \in DOMAIN txs : j # k => txs'[j] = txs[j]
        /\ txs[k].state = "sent" /\ txs'[k].call = txs[k].call /\ txs'[k].escrowId = txs[k].escrowId
    BY <1>1, <1>6, DropEffect
  <2> QED BY <1>1, <1>2, <2>1 DEF ReportsKept, Executed
<1> QED BY <1>3, <1>4, <1>5, <1>6, WriteKinds DEF Network, netVars

\* A report is made of item i.  If it says done, a transaction that nobody else's report
\* is about did it.
LEMMA ReportMade ==
  ASSUME GroupKept, TxsTrue, ReportsKept, NEW i \in 1..Len(results), phase = "running",
         ~results[i].ok, NEW ok \in BOOLEAN, NEW id \in Option(Nat), Record(i, ok, id),
         \A j \in DOMAIN results : j < i => results[j].ok \/ results[j].tried,
         ~ok => id = {},
         ok => \E k \in DOMAIN txs : /\ Executed(k) /\ txs[k].escrowId = id
                                     /\ txs[k].call \in ItemCall(job, Items(job)[i]),
         ok => \A j \in DOMAIN results : results[j].escrowId # {} => results[j].escrowId # id
  PROVE  ReportsKept'
<1>1. /\ results \in Seq(BatchItemResult) /\ Len(results) \in Nat /\ DOMAIN results = 1..Len(results)
      /\ \A j \in DOMAIN results : results[j] \in BatchItemResult
  BY LenProperties DEF GroupKept
<1>2. /\ results' \in Seq(BatchItemResult) /\ Len(results') = Len(results)
      /\ results'[i] = [ok |-> ok, skipped |-> FALSE, tried |-> TRUE, escrowId |-> id]
      /\ \A j \in 1..Len(results) : j # i => results'[j] = results[j]
  BY <1>1, RecordEffect
<1>3. DOMAIN results' = DOMAIN results
  BY <1>1, <1>2, LenProperties
<1>4. /\ UNCHANGED <<txs, job>> /\ waiting' = {} /\ index' = i
      /\ phase' = IF job.does = "milestones" /\ ~ok THEN "thrown" ELSE "running"
  BY DEF Record, netVars
<1>5. /\ (results'[i].ok <=> ok) /\ results'[i].tried /\ results'[i].escrowId = id
  BY <1>2
<1>6. ASSUME NEW j \in DOMAIN results'
      PROVE  /\ ~results'[j].ok => results'[j].escrowId = {}
             /\ results'[j].ok =>
                  /\ results'[j].tried \/ results'[j].skipped
                  /\ \E k \in DOMAIN txs : /\ Executed(k) /\ txs[k].escrowId = results'[j].escrowId
                                           /\ txs[k].call \in ItemCall(job, Items(job)[j])
  <2>1. CASE j = i
    BY <1>5, <2>1
  <2>2. CASE j # i
    BY <1>1, <1>2, <1>3, <1>6, <2>2 DEF ReportsKept
  <2> QED BY <2>1, <2>2
<1>7. ASSUME NEW j \in DOMAIN results', NEW n \in DOMAIN results', j # n, results'[j].escrowId # {}
      PROVE  results'[j].escrowId # results'[n].escrowId
  <2>1. CASE j = i
    <3>1. results'[n] = results[n] /\ results'[j].escrowId = id /\ n \in DOMAIN results
      BY <1>1, <1>2, <1>3, <1>5, <1>7, <2>1
    <3> QED BY <1>7, <3>1
  <2>2. CASE n = i
    <3>1. results'[j] = results[j] /\ results'[n].escrowId = id /\ j \in DOMAIN results
      BY <1>1, <1>2, <1>3, <1>5, <1>7, <2>2
    <3> QED BY <1>7, <3>1
  <2>3. CASE j # i /\ n # i
    BY <1>1, <1>2, <1>3, <1>7, <2>3 DEF ReportsKept
  <2> QED BY <2>1, <2>2, <2>3
<1>8. \A j \in DOMAIN results' : j < i \/ j = i => results'[j].ok \/ results'[j].tried
  BY <1>1, <1>2, <1>3, <1>5
<1>9. ASSUME NEW j \in DOMAIN results', results'[j].ok
      PROVE  \E k \in DOMAIN txs' : /\ Executed(k)' /\ txs'[k].escrowId = results'[j].escrowId
                                    /\ txs'[k].call \in ItemCall(job', Items(job')[j])
  <2>1. PICK k \in DOMAIN txs : /\ Executed(k) /\ txs[k].escrowId = results'[j].escrowId
                                /\ txs[k].call \in ItemCall(job, Items(job)[j])
    BY <1>6, <1>9
  <2>2. PICK calls_j : calls_j = ItemCall(job, Items(job)[j])
    OBVIOUS
  <2>3. calls_j = ItemCall(job', Items(job')[j])
    BY <1>4, <2>2
  <2> QED BY <1>4, <2>1, <2>2, <2>3 DEF Executed
<1> QED BY <1>3, <1>4, <1>6, <1>7, <1>8, <1>9 DEF ReportsKept

\* A group reports the truth as it goes on.
LEMMA ReportsStep ==
  ASSUME GroupKept, TxsTrue, ReportsKept, [WritesNext]_writeVars
  PROVE  ReportsKept'
<1>1. /\ IsTxs /\ results \in Seq(BatchItemResult) /\ Len(results) \in Nat /\ DOMAIN results = 1..Len(results)
      /\ \A i \in DOMAIN results : results[i] \in BatchItemResult
  BY LenProperties DEF GroupKept
<1>2. ASSUME NEW j \in Jobs, BatchStart(j) PROVE ReportsKept'
  <2>1. PICK n : n = Len(Items(j))
    OBVIOUS
  <2>2. n \in Nat /\ <<>> \in Seq(BatchItemResult) /\ DOMAIN <<>> = {}
    BY <2>1, ItemsAreListed, EmptySeq
  <2>3. waiting' = {} /\ index' = 0
    BY <1>2 DEF BatchStart
  <2>4. CASE phase' = "refused" /\ results' = <<>>
    BY <2>2, <2>3, <2>4 DEF ReportsKept
  <2>5. CASE phase' = "running" /\ results' = BatchResults(n, <<>>)
    <3>1. /\ results' \in Seq(BatchItemResult) /\ Len(results') = n
          /\ \A i \in 1..n : results'[i] = Untried
      BY <2>2, <2>5, CarriedOver
    <3>2. DOMAIN results' = 1..n
      BY <3>1, LenProperties
    <3>3. \A i \in DOMAIN results' : ~results'[i].ok /\ results'[i].escrowId = {}
      BY <3>1, <3>2 DEF Untried
    <3> QED BY <2>2, <2>3, <2>5, <3>2, <3>3 DEF ReportsKept
  <2> QED BY <1>2, <2>1, <2>4, <2>5 DEF BatchStart
<1>3. CASE BatchSend
  <2>1. PICK m, item, call : m = Min(Remaining) /\ item = Items(job)[m] /\ call \in ItemCall(job, item) /\ Submitted(call)
    BY <1>3 DEF BatchSend
  <2>2. /\ m \in 1..Len(results) /\ m > index /\ ~results[m].ok
        /\ \A i \in 1..Len(results) : i > index /\ i < m => results[i].ok
    BY <1>3, <2>1, NextItem DEF BatchSend, Running
  <2>3. /\ waiting' = {Len(txs) + 1} /\ index' = m /\ UNCHANGED <<job, results, phase>>
        /\ phase = "running" /\ waiting = {}
    BY <1>3, <2>1 DEF BatchSend, Running
  <2>4. /\ DOMAIN txs' = DOMAIN txs \cup {Len(txs) + 1}
        /\ \A j \in DOMAIN txs : txs'[j] = txs[j]
        /\ txs'[Len(txs) + 1].call = call /\ txs'[Len(txs) + 1].escrowId = {}
    BY <1>1, <2>1, SubmitEffect
  <2>5. ASSUME NEW i \in DOMAIN results, results[i].ok
        PROVE  \E k \in DOMAIN txs' : /\ Executed(k)' /\ txs'[k].escrowId = results'[i].escrowId
                                      /\ txs'[k].call \in ItemCall(job', Items(job')[i])
    <3>1. PICK k \in DOMAIN txs : /\ Executed(k) /\ txs[k].escrowId = results[i].escrowId
                                  /\ txs[k].call \in ItemCall(job, Items(job)[i])
      BY <2>5 DEF ReportsKept
    <3>2. PICK calls_i : calls_i = ItemCall(job, Items(job)[i])
      OBVIOUS
    <3>3. calls_i = ItemCall(job', Items(job')[i])
      BY <2>3, <3>2
    <3> QED BY <2>3, <2>4, <3>1, <3>2, <3>3 DEF Executed
  <2>6. \A i \in DOMAIN results : i < m => results[i].ok \/ results[i].tried
    BY <1>1, <2>2, <2>3 DEF ReportsKept, GroupKept
  <2>7. call \in ItemCall(job', Items(job')[m])
    BY <2>1, <2>3
  <2> QED BY <1>1, <2>3, <2>4, <2>5, <2>6, <2>7 DEF ReportsKept
<1>4. CASE BatchThrow
  <2>1. PICK m : m = Min(Remaining)
    OBVIOUS
  <2>2. /\ m \in 1..Len(results) /\ m > index /\ ~results[m].ok
        /\ \A i \in 1..Len(results) : i > index /\ i < m => results[i].ok
        /\ Record(m, FALSE, {}) /\ phase = "running" /\ {} \in Option(Nat) /\ waiting = {}
    BY <1>4, <2>1, NextItem DEF BatchThrow, Running, Option
  <2>3. \A i \in DOMAIN results : i < m => results[i].ok \/ results[i].tried
    BY <1>1, <2>2 DEF ReportsKept, GroupKept
  <2> QED BY <1>1, <2>2, <2>3, ReportMade
<1>5. CASE BatchAnswer \/ BatchFail
  <2>1. PICK k \in waiting : \/ Answered(txs[k]) /\ Record(index, TRUE, txs[k].escrowId)
                             \/ Record(index, FALSE, {})
    BY <1>5 DEF BatchAnswer, BatchFail
  <2>2. k \in DOMAIN txs /\ index \in 1..Len(results) /\ ~results[index].ok /\ phase = "running"
    BY <2>1 DEF GroupKept
  <2>3. /\ \A i \in DOMAIN results : i < index => results[i].ok \/ results[i].tried
        /\ txs[k].call \in ItemCall(job, Items(job)[index])
        /\ \A i \in DOMAIN results : results[i].escrowId # {} => results[i].escrowId # txs[k].escrowId
    BY <2>1, <2>2 DEF ReportsKept
  <2>4. CASE Record(index, FALSE, {})
    <3>1. {} \in Option(Nat)
      BY DEF Option
    <3> QED BY <2>2, <2>3, <2>4, <3>1, ReportMade
  <2>5. CASE Answered(txs[k]) /\ Record(index, TRUE, txs[k].escrowId)
    <3>1. PICK id : id = txs[k].escrowId
      OBVIOUS
    <3>2. id \in Option(Nat) /\ Executed(k)
      BY <2>2, <2>5, <3>1 DEF GroupKept, TxIds, Answered, Executed
    <3> QED BY <2>2, <2>3, <2>5, <3>1, <3>2, ReportMade
  <2> QED BY <2>1, <2>4, <2>5
<1>6. CASE BatchEnd
  <2>1. /\ Remaining = {} /\ phase = "running" /\ waiting = {}
        /\ phase' = IF \A i \in DOMAIN results : results[i].ok THEN "returned" ELSE "thrown"
        /\ UNCHANGED <<txs, job, results, index, waiting>>
    BY <1>6 DEF BatchEnd, Running, netVars
  <2>2. \A i \in DOMAIN results : i > index => results[i].ok
    BY <1>1, <2>1, StillToDo
  <2>3. \A i \in DOMAIN results : results[i].tried \/ results[i].skipped
    BY <1>1, <2>1, <2>2 DEF ReportsKept, GroupKept
  <2>4. ASSUME NEW i \in DOMAIN results, results[i].ok
        PROVE  \E k \in DOMAIN txs' : /\ Executed(k)' /\ txs'[k].escrowId = results'[i].escrowId
                                      /\ txs'[k].call \in ItemCall(job', Items(job')[i])
    <3>1. PICK k \in DOMAIN txs : /\ Executed(k) /\ txs[k].escrowId = results[i].escrowId
                                  /\ txs[k].call \in ItemCall(job, Items(job)[i])
      BY <2>4 DEF ReportsKept
    <3>2. PICK calls_i : calls_i = ItemCall(job, Items(job)[i])
      OBVIOUS
    <3>3. calls_i = ItemCall(job', Items(job')[i])
      BY <2>1, <3>2
    <3> QED BY <2>1, <3>1, <3>2, <3>3 DEF Executed
  <2> QED BY <2>1, <2>3, <2>4 DEF ReportsKept
<1>7. CASE BatchResume
  <2>1. PICK n : n = Len(Items(job))
    OBVIOUS
  <2>2. n = Len(results) /\ waiting = {} /\ phase = "thrown"
    BY <1>7, <2>1 DEF GroupKept, BatchResume
  <2>3. /\ results' = BatchResults(n, results) /\ phase' = "running" /\ index' = 0
        /\ UNCHANGED <<txs, job, waiting>>
    BY <1>7, <2>1 DEF BatchResume, netVars
  <2>4. /\ results' \in Seq(BatchItemResult) /\ Len(results') = n
        /\ \A i \in 1..n :
              IF i \in DOMAIN results /\ results[i].ok
                THEN results'[i].ok /\ results'[i].skipped /\ results'[i].escrowId = results[i].escrowId
                ELSE results'[i] = Untried
    BY <1>1, <2>2, <2>3, CarriedOver
  <2>5. DOMAIN results' = DOMAIN results
    BY <1>1, <2>2, <2>4, LenProperties
  <2>6. ASSUME NEW i \in DOMAIN results
        PROVE  /\ results'[i].ok <=> results[i].ok
               /\ results'[i].ok => results'[i].skipped
               /\ results'[i].escrowId = results[i].escrowId
    <3>1. CASE results[i].ok
      BY <1>1, <2>2, <2>4, <3>1
    <3>2. CASE ~results[i].ok
      <4>1. results'[i] = Untried /\ results[i].escrowId = {}
        BY <1>1, <2>2, <2>4, <3>2 DEF ReportsKept
      <4> QED BY <3>2, <4>1 DEF Untried
    <3> QED BY <3>1, <3>2
  <2>7. ASSUME NEW i \in DOMAIN results', results'[i].ok
        PROVE  \E k \in DOMAIN txs' : /\ Executed(k)' /\ txs'[k].escrowId = results'[i].escrowId
                                      /\ txs'[k].call \in ItemCall(job', Items(job')[i])
    <3>1. PICK k \in DOMAIN txs : /\ Executed(k) /\ txs[k].escrowId = results[i].escrowId
                                  /\ txs[k].call \in ItemCall(job, Items(job)[i])
      BY <2>5, <2>6, <2>7 DEF ReportsKept
    <3>2. PICK calls_i : calls_i = ItemCall(job, Items(job)[i])
      OBVIOUS
    <3>3. calls_i = ItemCall(job', Items(job')[i])
      BY <2>3, <3>2
    <3> QED BY <2>3, <2>5, <2>6, <2>7, <3>1, <3>2, <3>3 DEF Executed
  <2>8. \A i \in DOMAIN results' : ~results'[i].ok => results'[i].escrowId = {}
    BY <2>5, <2>6 DEF ReportsKept
  <2>9. \A i, j \in DOMAIN results' :
          i # j /\ results'[i].escrowId # {} => results'[i].escrowId # results'[j].escrowId
    BY <2>5, <2>6 DEF ReportsKept
  <2>10. \A i \in DOMAIN results' : ~(i < index') /\ ~(i = index')
    BY <1>1, <2>3, <2>5
  <2> QED BY <2>2, <2>3, <2>5, <2>6, <2>7, <2>8, <2>9, <2>10 DEF ReportsKept
<1>8. ASSUME NEW kind, NEW i, NEW caller, SettleMilestone(kind, i, caller) PROVE ReportsKept'
  BY <1>8, ReportsStay DEF SettleMilestone
<1>9. CASE UNCHANGED batchVars
  BY <1>9, ReportsStay
<1>10. CASE BatchNext
  BY <1>2, <1>3, <1>4, <1>5, <1>6, <1>7, <1>8, <1>9, <1>10 DEF BatchNext
<1> QED BY <1>9, <1>10 DEF WritesNext, writeVars

\* Of any group, of any size and cut into any chunks, taken up again any number of
\* times, while others create, accept, cancel, settle and pool what they like over a
\* network that loses answers: what it reports is true, as long as nobody tops up.
THEOREM ReportsAreTrue == WritesSpec => [](NobodyTopsUp => BatchReportsTruth)
<1>1. RequestsInit /\ BatchInit => GroupKept /\ TxsTrue /\ ReportsKept
  <2> SUFFICES ASSUME RequestsInit, BatchInit PROVE GroupKept /\ TxsTrue /\ ReportsKept
    OBVIOUS
  <2>1. txs = <<>> /\ results = <<>> /\ DOMAIN <<>> = {} /\ waiting = {} /\ phase = "idle"
    BY DEF RequestsInit, BatchInit
  <2>2. GroupKept
    BY <2>1, EmptySeq DEF RequestsInit, Init, GroupKept, IsTxs, TxIds
  <2>3. TxsTrue
    BY <2>1 DEF RequestsInit, Init, TxsTrue, CreationsKept, ChainKept, IsTxs
  <2> QED BY <2>1, <2>2, <2>3 DEF ReportsKept
<1>2. GroupKept /\ TxsTrue /\ ReportsKept => (NobodyTopsUp => BatchReportsTruth)
  <2> SUFFICES ASSUME GroupKept, TxsTrue, ReportsKept, NobodyTopsUp PROVE BatchReportsTruth
    OBVIOUS
  <2>1. ASSUME NEW i \in DOMAIN results, results[i].ok PROVE Done(i)
    <3>1. PICK k \in DOMAIN txs, item \in {Items(job)[i]} :
                                        /\ Executed(k) /\ txs[k].escrowId = results[i].escrowId
                                        /\ item = Items(job)[i]
                                        /\ txs[k].call \in ItemCall(job, item)
      BY <2>1 DEF ReportsKept
    <3>2. PICK call : call = txs[k].call
      OBVIOUS
    <3>3. Took(call, results[i].escrowId)
      BY <3>1, <3>2 DEF TxsTrue
    <3>4. CASE job.does = "settle"
      <4>1. call.id = item.escrowId /\ call.fn = (IF item.kind = "release" THEN "release" ELSE "refund")
        BY <3>1, <3>2, <3>4 DEF ItemCall, SettleCall, release, refund, By
      <4> QED BY <3>1, <3>3, <3>4, <4>1 DEF Took, Done
    <3>5. CASE job.does # "settle"
      <4>1. call.params = item /\ "params" \in DOMAIN call
        BY <3>1, <3>2, <3>5, CreatesAtOnce DEF ItemCall, createEscrow, Unless
      <4> QED BY <3>1, <3>3, <3>5, <4>1 DEF Took, Done
    <3> QED BY <3>4, <3>5
  <2>2. \A i, j \in DOMAIN results :
          i # j /\ results[i].escrowId # {} => results[i].escrowId # results[j].escrowId
    BY DEF ReportsKept
  <2> QED BY <2>1, <2>2 DEF BatchReportsTruth, ReportsKept
<1>3. ASSUME GroupKept, TxsTrue, ReportsKept, [WritesNext]_writeVars
      PROVE  GroupKept' /\ TxsTrue' /\ ReportsKept'
  BY <1>3, GroupStep, TxsTrueStep, ReportsStep
<1> QED BY <1>1, <1>2, <1>3, PTL DEF WritesSpec
-----------------------------------------------------------------------------
(* Groups of calls: milestones.                                                *)

\* Each step is one of the group's own, or one of others that leaves it alone and
\* sends nothing in its name.
LEMMA GroupKinds ==
  ASSUME [WritesNext]_writeVars
  PROVE  \/ /\ UNCHANGED batchVars
            /\ \/ Network \/ UNCHANGED netVars
               \/ \E call : Submitted(call) /\ UNCHANGED chain /\ Direct(call)
         \/ \E j \in Jobs : BatchStart(j)
         \/ BatchSend \/ BatchThrow \/ BatchAnswer \/ BatchFail \/ BatchEnd \/ BatchResume
         \/ \E kind \in {"release", "refund"}, i \in 0..Len(results), caller \in CallerInputs :
              SettleMilestone(kind, i, caller)
<1>1. CASE RequestsNext /\ UNCHANGED <<batchVars, signingVars>>
  BY <1>1, PlainCalls DEF RequestsNext, CallMethod
<1>2. CASE SigningNext /\ UNCHANGED batchVars
  <2>1. \A d, source, expected : Direct(Transaction(d, source, expected))
    BY DEF Transaction, Direct
  <2>2. ASSUME NEW d, NEW source, NEW expected, SubmitLifecycleCall(d, source, expected)
        PROVE  \E call : Submitted(call) /\ UNCHANGED chain /\ Direct(call)
    BY <2>1, <2>2 DEF SubmitLifecycleCall
  <2>3. ASSUME NEW d, NEW relayer, NEW settlement, SubmitRelayed(d, relayer, settlement)
        PROVE  \E call : Submitted(call) /\ UNCHANGED chain /\ Direct(call)
    BY <2>1, <2>3 DEF SubmitRelayed
  <2>4. ASSUME NEW call, NEW source, NEW checked, PrepareLifecycleCall(call, source, checked) PROVE UNCHANGED netVars
    BY <2>4 DEF PrepareLifecycleCall
  <2>5. ASSUME NEW call, NEW relayer, AuthorizeSettlement(call, relayer) PROVE UNCHANGED netVars
    BY <2>5 DEF AuthorizeSettlement
  <2>6. ASSUME NEW d, NEW by, SignLifecycleCall(d, by) PROVE UNCHANGED netVars
    BY <2>6 DEF SignLifecycleCall
  <2>7. ASSUME NEW d, NEW e, MixUp(d, e) PROVE UNCHANGED netVars
    BY <2>7 DEF MixUp
  <2> QED BY <1>2, <2>2, <2>3, <2>4, <2>5, <2>6, <2>7 DEF SigningNext
<1>3. CASE BatchNext
  BY <1>3 DEF BatchNext
<1>4. CASE UNCHANGED writeVars
  BY <1>4 DEF writeVars
<1> QED BY <1>1, <1>2, <1>3, <1>4 DEF WritesNext

\* A group whose schedule was accepted creates its tranches from the first on, and
\* stops at the first that fails.
InOrder ==
  job.does = "milestones" /\ phase \notin {"idle", "refused"} =>
    /\ MilestoneAccepted(job.params, job.milestones)
    /\ index \in 0..Len(results)
    /\ \A i \in DOMAIN results : (i < index => results[i].ok) /\ (i > index => ~results[i].ok)
    /\ phase = "running" /\ waiting = {} /\ index > 0 => results[index].ok
    /\ phase = "thrown" => index > 0 /\ ~results[index].ok

\* A report is made of the next tranche.
LEMMA RecordInOrder ==
  ASSUME GroupKept, InOrder, phase = "running", NEW i \in 1..Len(results),
         job.does = "milestones" =>
           \A j \in DOMAIN results : (j < i => results[j].ok) /\ (j > i => ~results[j].ok),
         NEW ok \in BOOLEAN, NEW id \in Option(Nat), Record(i, ok, id)
  PROVE  InOrder'
<1>1. results \in Seq(BatchItemResult) /\ Len(results) \in Nat /\ DOMAIN results = 1..Len(results)
  BY LenProperties DEF GroupKept
<1>2. /\ results' \in Seq(BatchItemResult) /\ Len(results') = Len(results)
      /\ results'[i] = [ok |-> ok, skipped |-> FALSE, tried |-> TRUE, escrowId |-> id]
      /\ \A j \in 1..Len(results) : j # i => results'[j] = results[j]
  BY <1>1, RecordEffect
<1>3. DOMAIN results' = 1..Len(results) /\ results'[i].ok = ok
  BY <1>2, LenProperties
<1>4. /\ job' = job /\ index' = i /\ waiting' = {}
      /\ phase' = IF job.does = "milestones" /\ ~ok THEN "thrown" ELSE "running"
  BY DEF Record
<1> SUFFICES ASSUME job.does = "milestones" PROVE InOrder'
  BY <1>4 DEF InOrder
<1>5. MilestoneAccepted(job.params, job.milestones)'
  BY <1>4 DEF InOrder
<1>6. \A j \in DOMAIN results' : (j < i => results'[j].ok) /\ (j > i => ~results'[j].ok)
  BY <1>1, <1>2, <1>3
<1> QED BY <1>1, <1>2, <1>3, <1>4, <1>5, <1>6 DEF InOrder

LEMMA InOrderStep == ASSUME GroupKept, InOrder, [WritesNext]_writeVars PROVE InOrder'
<1>1. /\ results \in Seq(BatchItemResult) /\ Len(results) \in Nat /\ DOMAIN results = 1..Len(results)
  BY LenProperties DEF GroupKept
<1>2. CASE UNCHANGED batchVars
  BY <1>2 DEF InOrder, batchVars
<1>3. ASSUME NEW j \in Jobs, BatchStart(j) PROVE InOrder'
  <2>1. PICK n : n = Len(Items(j))
    OBVIOUS
  <2>2. n \in Nat /\ <<>> \in Seq(BatchItemResult) /\ DOMAIN <<>> = {}
    BY <2>1, ItemsAreListed, EmptySeq
  <2>3. waiting' = {} /\ index' = 0 /\ job' = j
    BY <1>3 DEF BatchStart
  <2>4. CASE phase' = "refused"
    BY <2>4 DEF InOrder
  <2>5. CASE phase' = "running" /\ results' = BatchResults(n, <<>>)
    <3>1. /\ results' \in Seq(BatchItemResult) /\ Len(results') = n
          /\ \A i \in 1..n : results'[i] = Untried
      BY <2>2, <2>5, CarriedOver
    <3>2. DOMAIN results' = 1..n
      BY <3>1, LenProperties
    <3>3. \A i \in DOMAIN results' : ~results'[i].ok /\ ~(i < 0)
      BY <2>2, <3>1, <3>2 DEF Untried
    <3>4. j.does = "milestones" => MilestoneAccepted(j.params, j.milestones)
      BY <1>3, <2>5 DEF BatchStart
    <3> QED BY <2>2, <2>3, <2>5, <3>1, <3>3, <3>4 DEF InOrder
  <2> QED BY <1>3, <2>1, <2>4, <2>5 DEF BatchStart
<1>4. ASSUME Running, Remaining # {}, job.does = "milestones"
      PROVE  \A j \in DOMAIN results : /\ j < Min(Remaining) => results[j].ok
                                       /\ j > Min(Remaining) => ~results[j].ok
  <2>1. PICK m : m = Min(Remaining)
    OBVIOUS
  <2>2. /\ m \in 1..Len(results) /\ m > index
        /\ \A i \in 1..Len(results) : i > index /\ i < m => results[i].ok
    BY <1>4, <2>1, NextItem DEF Running
  <2>3. /\ index \in 0..Len(results) /\ (index > 0 => results[index].ok)
        /\ \A i \in DOMAIN results : (i < index => results[i].ok) /\ (i > index => ~results[i].ok)
    BY <1>4 DEF InOrder, Running
  <2> QED BY <1>1, <2>1, <2>2, <2>3
<1>5. CASE BatchSend
  <2>1. PICK m : m = Min(Remaining)
    OBVIOUS
  <2>2. m \in 1..Len(results)
    BY <1>5, <2>1, NextItem DEF BatchSend, Running
  <2>3. waiting' # {} /\ index' = m /\ UNCHANGED <<job, results, phase>> /\ phase = "running"
    BY <1>5, <2>1 DEF BatchSend, Running
  <2>4. job.does = "milestones" =>
          /\ \A j \in DOMAIN results : (j < m => results[j].ok) /\ (j > m => ~results[j].ok)
          /\ MilestoneAccepted(job.params, job.milestones)'
    BY <1>4, <1>5, <2>1, <2>3 DEF BatchSend, InOrder
  <2> QED BY <1>1, <2>2, <2>3, <2>4 DEF InOrder
<1>6. CASE BatchThrow
  <2>1. PICK m : m = Min(Remaining)
    OBVIOUS
  <2>2. m \in 1..Len(results) /\ Record(m, FALSE, {}) /\ phase = "running" /\ {} \in Option(Nat)
    BY <1>6, <2>1, NextItem DEF BatchThrow, Running, Option
  <2>3. job.does = "milestones" =>
          \A j \in DOMAIN results : (j < m => results[j].ok) /\ (j > m => ~results[j].ok)
    BY <1>4, <1>6, <2>1 DEF BatchThrow
  <2> QED BY <2>2, <2>3, RecordInOrder
<1>7. CASE BatchAnswer \/ BatchFail
  <2>1. PICK k \in waiting : Record(index, TRUE, txs[k].escrowId) \/ Record(index, FALSE, {})
    BY <1>7 DEF BatchAnswer, BatchFail
  <2>2. k \in DOMAIN txs /\ index \in 1..Len(results) /\ phase = "running"
    BY <2>1 DEF GroupKept
  <2>3. txs[k].escrowId \in Option(Nat) /\ {} \in Option(Nat)
    BY <2>2 DEF GroupKept, TxIds, Option
  <2>4. job.does = "milestones" =>
          \A j \in DOMAIN results : (j < index => results[j].ok) /\ (j > index => ~results[j].ok)
    BY <2>2 DEF InOrder
  <2> QED BY <2>1, <2>2, <2>3, <2>4, RecordInOrder
<1>8. CASE BatchEnd
  <2>1. /\ Remaining = {} /\ phase = "running" /\ waiting = {}
        /\ phase' = IF \A i \in DOMAIN results : results[i].ok THEN "returned" ELSE "thrown"
        /\ UNCHANGED <<job, results, index, waiting>>
    BY <1>8 DEF BatchEnd, Running
  <2>2. \A i \in DOMAIN results : i > index => results[i].ok
    BY <1>1, <2>1, StillToDo
  <2>3. job.does = "milestones" => phase' = "returned"
    BY <1>1, <2>1, <2>2 DEF InOrder
  <2> QED BY <2>1, <2>3 DEF InOrder
<1>9. CASE BatchResume
  BY <1>9 DEF BatchResume, InOrder
<1>10. ASSUME NEW kind, NEW i, NEW caller, SettleMilestone(kind, i, caller) PROVE InOrder'
  BY <1>2, <1>10 DEF SettleMilestone
<1> QED BY <1>2, <1>3, <1>5, <1>6, <1>7, <1>8, <1>9, <1>10, GroupKinds

\* The transactions sent that create what nobody else asks for.
Ours == {k \in DOMAIN txs : "params" \in DOMAIN txs[k].call /\ txs[k].call.params \notin CreateInputs}

\* A group of milestones sends no tranche before it starts, and each at most once.
SentOnce ==
  /\ phase = "idle" => Ours = {}
  /\ job.does = "milestones" /\ phase \notin {"idle", "refused"} => Cardinality(Ours) <= index

\* There are finitely many transactions, and the calls of those there are do not change.
LEMMA OursGrows ==
  ASSUME IsTxs
  PROVE  /\ IsFiniteSet(Ours) /\ Cardinality(Ours) \in Nat
         /\ Network => Ours' = Ours
         /\ UNCHANGED txs => Ours' = Ours
         /\ \A call : Submitted(call) /\ Direct(call) => Ours' = Ours
         /\ \A call : Submitted(call) => /\ Ours' \subseteq Ours \cup {Len(txs) + 1}
                                         /\ Cardinality(Ours') \in Nat
                                         /\ Cardinality(Ours') <= Cardinality(Ours) + 1
<1>1. IsFiniteSet(Ours) /\ Cardinality(Ours) \in Nat
  <2>1. IsFiniteSet(DOMAIN txs) /\ Ours \subseteq DOMAIN txs
    BY FS_Interval DEF IsTxs, Ours
  <2> QED BY <2>1, FS_Subset, FS_CardinalityType
<1>2. ASSUME DOMAIN txs' = DOMAIN txs, \A k \in DOMAIN txs : txs'[k].call = txs[k].call
      PROVE  Ours' = Ours
  BY <1>2 DEF Ours
<1>3. ASSUME Network PROVE Ours' = Ours
  <2>1. ASSUME NEW k \in DOMAIN txs, Execute(k) \/ Drop(k)
        PROVE  DOMAIN txs' = DOMAIN txs /\ \A j \in DOMAIN txs : txs'[j].call = txs[j].call
    BY <2>1, ExecuteEffect, DropEffect
  <2>2. CASE UNCHANGED txs
    BY <1>2, <2>2
  <2> QED BY <1>2, <1>3, <2>1, <2>2 DEF Network
<1>4. ASSUME NEW call, Submitted(call)
      PROVE  /\ Ours' \subseteq Ours \cup {Len(txs) + 1} /\ Cardinality(Ours') <= Cardinality(Ours) + 1
             /\ Direct(call) => Ours' = Ours
             /\ Cardinality(Ours') \in Nat
  <2>1. PICK new : new = Len(txs) + 1
    OBVIOUS
  <2>2. /\ new \notin DOMAIN txs /\ DOMAIN txs' = DOMAIN txs \cup {new}
        /\ \A j \in DOMAIN txs : txs'[j] = txs[j]
        /\ txs'[new].call = call
    BY <1>4, <2>1, SubmitEffect
  <2>3. Ours' \subseteq Ours \cup {new} /\ (Direct(call) => Ours' = Ours)
    BY <2>2 DEF Ours, Direct
  <2>4. new \notin Ours
    BY <2>2 DEF Ours
  <2>5. IsFiniteSet(Ours \cup {new}) /\ Cardinality(Ours \cup {new}) = Cardinality(Ours) + 1
    BY <1>1, <2>4, FS_AddElement
  <2>6. Cardinality(Ours') <= Cardinality(Ours \cup {new}) /\ Cardinality(Ours') \in Nat
    BY <2>3, <2>5, FS_Subset, FS_CardinalityType
  <2> QED BY <2>1, <2>3, <2>5, <2>6
<1> QED BY <1>1, <1>2, <1>3, <1>4

LEMMA SentOnceStep == ASSUME GroupKept, InOrder, SentOnce, [WritesNext]_writeVars PROVE SentOnce'
<1>1. IsTxs /\ Cardinality(Ours) \in Nat /\ Len(results) \in Nat
  BY OursGrows, LenProperties DEF GroupKept
<1>2. ASSUME UNCHANGED batchVars, Ours' = Ours PROVE SentOnce'
  BY <1>2 DEF SentOnce, batchVars
<1>3. ASSUME NEW j \in Jobs, BatchStart(j) PROVE SentOnce'
  <2>1. Ours' = Ours /\ Ours = {} /\ index' = 0 /\ phase' # "idle"
    BY <1>1, <1>3, OursGrows DEF BatchStart, SentOnce, netVars
  <2>2. Cardinality(Ours') = 0
    BY <2>1, FS_EmptySet
  <2> QED BY <2>1, <2>2 DEF SentOnce
<1>4. ASSUME phase = "running", index' \in Nat, index' >= index, phase' \notin {"idle", "refused"}, job' = job,
             Ours' = Ours \/ (index' > index /\ \E call : Submitted(call))
      PROVE  SentOnce'
  <2> SUFFICES ASSUME job.does = "milestones" PROVE Cardinality(Ours') <= index'
    BY <1>4 DEF SentOnce
  <2>1. Cardinality(Ours) <= index /\ index \in Nat
    BY <1>4, <1>1 DEF SentOnce, InOrder
  <2>2. CASE Ours' = Ours
    BY <1>1, <1>4, <2>1, <2>2
  <2>3. CASE index' > index /\ \E call : Submitted(call)
    <3>1. Cardinality(Ours') <= Cardinality(Ours) + 1 /\ Cardinality(Ours') \in Nat
      BY <1>1, <2>3, OursGrows
    <3> QED BY <1>1, <1>4, <2>1, <2>3, <3>1
  <2> QED BY <1>4, <2>2, <2>3
<1>5. CASE BatchSend
  <2>1. PICK m : m = Min(Remaining)
    OBVIOUS
  <2>2. m \in 1..Len(results) /\ m > index
    BY <1>5, <2>1, NextItem DEF BatchSend, Running
  <2>3. index' = m /\ UNCHANGED <<job, phase>> /\ phase = "running" /\ \E call : Submitted(call)
    BY <1>5, <2>1 DEF BatchSend, Running
  <2>4. index \in Nat
    BY <1>1, <2>3 DEF GroupKept
  <2> QED BY <1>4, <2>2, <2>3, <2>4
<1>6. ASSUME NEW i \in Nat, i >= index, NEW ok, NEW id, Record(i, ok, id), phase = "running" PROVE SentOnce'
  <2>1. index' = i /\ job' = job /\ UNCHANGED txs /\ phase' \in {"thrown", "running"}
    BY <1>6 DEF Record, netVars
  <2> QED BY <1>1, <1>4, <1>6, <2>1, OursGrows
<1>7. CASE BatchThrow
  <2>1. PICK m : m = Min(Remaining)
    OBVIOUS
  <2>2. m \in 1..Len(results) /\ m > index /\ Record(m, FALSE, {}) /\ phase = "running"
    BY <1>7, <2>1, NextItem DEF BatchThrow, Running
  <2>3. m \in Nat /\ m >= index
    BY <1>1, <2>2 DEF GroupKept
  <2> QED BY <1>6, <2>2, <2>3
<1>8. CASE BatchAnswer \/ BatchFail
  <2>1. PICK k \in waiting : Record(index, TRUE, txs[k].escrowId) \/ Record(index, FALSE, {})
    BY <1>8 DEF BatchAnswer, BatchFail
  <2>2. index \in 1..Len(results) /\ phase = "running"
    BY <2>1 DEF GroupKept
  <2>3. index \in Nat /\ index >= index
    BY <2>2
  <2> QED BY <1>6, <2>1, <2>2, <2>3
<1>9. CASE BatchEnd
  <2>1. UNCHANGED <<txs, job, index>> /\ phase = "running" /\ phase' \in {"returned", "thrown"}
    BY <1>9 DEF BatchEnd, Running, netVars
  <2>2. index \in Nat
    BY <1>1, <2>1 DEF GroupKept
  <2> QED BY <1>1, <1>4, <2>1, <2>2, OursGrows
<1>10. CASE BatchResume
  BY <1>10 DEF BatchResume, SentOnce
<1>11. ASSUME NEW kind, NEW i, NEW caller, SettleMilestone(kind, i, caller) PROVE SentOnce'
  <2>1. PICK id, call : /\ call = [fn |-> kind, id |-> id, caller |-> caller, source |-> caller,
                                   signers |-> {caller}, milestone |-> i]
                        /\ Submitted(call) /\ UNCHANGED batchVars
    BY <1>11 DEF SettleMilestone
  <2>2. PICK new : new = Len(txs) + 1
    OBVIOUS
  <2>3. /\ DOMAIN txs' = DOMAIN txs \cup {new} /\ \A j \in DOMAIN txs : txs'[j] = txs[j]
        /\ txs'[new].call = call /\ new \notin DOMAIN txs
    BY <1>1, <2>1, <2>2, SubmitEffect
  <2>4. Ours' = Ours
    BY <2>1, <2>3 DEF Ours
  <2> QED BY <1>2, <2>1, <2>4
<1>12. CASE UNCHANGED batchVars /\ \/ Network \/ UNCHANGED netVars
                                   \/ \E call : Submitted(call) /\ UNCHANGED chain /\ Direct(call)
  <2>1. UNCHANGED netVars => UNCHANGED txs
    BY DEF netVars
  <2> QED BY <1>1, <1>2, <1>12, <2>1, OursGrows
<1> QED BY <1>3, <1>5, <1>7, <1>8, <1>9, <1>10, <1>11, <1>12, GroupKinds

\* What names a tranche settles an escrow that the returned group has under it.
SettledAsNamed ==
  \A k \in DOMAIN txs :
    LET call == txs[k].call IN
    "milestone" \in DOMAIN call =>
      /\ phase = "returned" /\ job.does = "milestones" /\ call.fn \in {"release", "refund"}
      /\ call.milestone \in 0..(Len(results) - 1) /\ call.id \in results[call.milestone + 1].escrowId

LEMMA SettledAsNamedStep == ASSUME GroupKept, SettledAsNamed, [WritesNext]_writeVars PROVE SettledAsNamed'
<1>1. IsTxs /\ Len(results) \in Nat
  BY LenProperties DEF GroupKept
<1>2. ASSUME NEW call, Submitted(call)
      PROVE  /\ DOMAIN txs' = DOMAIN txs \cup {Len(txs) + 1} /\ \A j \in DOMAIN txs : txs'[j].call = txs[j].call
             /\ txs'[Len(txs) + 1].call = call
  BY <1>1, <1>2, SubmitEffect
<1>3. ASSUME NEW k \in DOMAIN txs, Execute(k) \/ Drop(k)
      PROVE  DOMAIN txs' = DOMAIN txs /\ \A j \in DOMAIN txs : txs'[j].call = txs[j].call
  BY <1>1, <1>3, ExecuteEffect, DropEffect
<1>4. ASSUME UNCHANGED batchVars, DOMAIN txs' = DOMAIN txs, \A j \in DOMAIN txs : txs'[j].call = txs[j].call
      PROVE  SettledAsNamed'
  BY <1>4 DEF SettledAsNamed, batchVars
<1>5. ASSUME UNCHANGED batchVars, NEW call, Submitted(call), "milestone" \notin DOMAIN call PROVE SettledAsNamed'
  BY <1>2, <1>5 DEF SettledAsNamed, batchVars
<1>6. ASSUME phase # "returned",
             UNCHANGED txs \/ \E call : Submitted(call) /\ "milestone" \notin DOMAIN call
      PROVE  SettledAsNamed'
  BY <1>2, <1>6 DEF SettledAsNamed
<1>7. ASSUME NEW j, BatchStart(j) PROVE SettledAsNamed'
  BY <1>6, <1>7 DEF BatchStart, netVars
<1>8. CASE BatchSend
  <2>1. PICK item, call : call \in ItemCall(job, item) /\ Submitted(call)
    BY <1>8 DEF BatchSend
  <2>2. "milestone" \notin DOMAIN call
    BY <2>1, CreatesAtOnce DEF ItemCall, SettleCall, release, refund, By
  <2> QED BY <1>6, <1>8, <2>1, <2>2 DEF BatchSend, Running
<1>9. CASE BatchThrow \/ BatchAnswer \/ BatchFail \/ BatchEnd \/ BatchResume
  <2>1. phase # "returned"
    BY <1>9 DEF BatchThrow, BatchAnswer, BatchFail, BatchEnd, BatchResume, Running, GroupKept
  <2>2. UNCHANGED txs
    BY <1>9 DEF BatchThrow, BatchAnswer, BatchFail, BatchEnd, BatchResume, Record, netVars
  <2> QED BY <1>6, <2>1, <2>2
<1>10. ASSUME NEW kind \in {"release", "refund"}, NEW i, NEW caller, SettleMilestone(kind, i, caller)
       PROVE  SettledAsNamed'
  <2>1. PICK id, call : /\ id \in results[i + 1].escrowId
                        /\ call = [fn |-> kind, id |-> id, caller |-> caller, source |-> caller,
                                   signers |-> {caller}, milestone |-> i]
                        /\ Submitted(call)
    BY <1>10 DEF SettleMilestone, trancheOf
  <2>2. /\ job.does = "milestones" /\ phase = "returned" /\ i \in 0..(Len(results) - 1)
        /\ UNCHANGED batchVars
    BY <1>10 DEF SettleMilestone
  <2>3. call.fn = kind /\ call.id = id /\ call.milestone = i
    BY <2>1
  <2> QED BY <1>2, <2>1, <2>2, <2>3 DEF SettledAsNamed, batchVars
<1>11. CASE UNCHANGED batchVars /\ \/ Network \/ UNCHANGED netVars
                                   \/ \E call : Submitted(call) /\ UNCHANGED chain /\ Direct(call)
  <2>1. UNCHANGED txs => DOMAIN txs' = DOMAIN txs /\ \A j \in DOMAIN txs : txs'[j].call = txs[j].call
    OBVIOUS
  <2>2. UNCHANGED netVars => UNCHANGED txs
    BY DEF netVars
  <2> QED BY <1>3, <1>4, <1>5, <1>11, <2>1, <2>2 DEF Network, Direct
<1> QED BY <1>7, <1>8, <1>9, <1>10, <1>11, GroupKinds

\* An escrow is released by a call of release, or of its approvers.
Releases(call, id) == call.fn \in {"release", "release_with_approvals"} /\ call.id = id
ReleasedByCall ==
  \A id \in DOMAIN escrow : escrow[id].status = "Released" =>
    \E k \in DOMAIN txs : Executed(k) /\ Releases(txs[k].call, id)

LEMMA InvocationReleases ==
  ASSUME ChainKept, NEW call, Invocation(call), NEW id \in DOMAIN escrow', escrow'[id].status = "Released"
  PROVE  (id \in DOMAIN escrow /\ escrow[id].status = "Released") \/ Releases(call, id)
<1>1. CASE call.fn \in {"create_escrow", "create_escrow_release_time", "create_escrow_with_acceptance",
                        "create_escrow_with_releasers"}
  <2>1. CreateEscrowInner(call.request.payer, <<call.request>>) /\ nextId \in Nat
    BY <1>1, CreateCalls DEF ChainKept
  <2>2. /\ DOMAIN escrow' = DOMAIN escrow \cup {nextId} /\ escrow'[nextId] = NewEscrow(call.request)
        /\ \A x \in DOMAIN escrow : x < nextId => escrow'[x] = escrow[x]
    BY <2>1, CreateOneEffect
  <2>3. escrow'[nextId].status = "Funded"
    BY <2>2 DEF NewEscrow
  <2> QED BY <2>2, <2>3 DEF ChainKept
<1>2. CASE call.fn = "create_pooled_escrow"
  <2>1. CreatePooledEscrow(call.request)
    BY <1>2 DEF Invocation
  <2>2. PICK new : new.status = "Funded" /\ escrow' = Put(escrow, nextId, new)
    BY <2>1 DEF CreatePooledEscrow
  <2> QED BY <2>2 DEF Put
<1>3. ASSUME NEW x \in DOMAIN escrow, NEW new, new.status = escrow[x].status, escrow' = [escrow EXCEPT ![x] = new]
      PROVE  id \in DOMAIN escrow /\ escrow[id].status = "Released"
  BY <1>3
<1>4. CASE call.fn \in {"contribute", "top_up", "claim_refund"}
  <2>1. \/ Contribute(call.id, call.caller, call.amount) \/ TopUp(call.id, call.caller, call.amount)
        \/ ClaimRefund(call.id, call.caller)
    BY <1>4 DEF Invocation
  <2>2. call.id \in DOMAIN escrow
    BY <2>1 DEF Contribute, TopUp, ClaimRefund, Funded, Exists
  <2>3. PICK v : escrow' = [escrow EXCEPT ![call.id].amount = v]
    BY <2>1 DEF Contribute, TopUp, ClaimRefund
  <2>4. PICK new : new = [escrow[call.id] EXCEPT !.amount = v]
    OBVIOUS
  <2>5. "status" \in DOMAIN escrow[call.id]
    BY <2>2 DEF ChainKept
  <2>6. new.status = escrow[call.id].status
    BY <2>4, <2>5
  <2> QED BY <1>3, <2>2, <2>3, <2>4, <2>6
<1>5. CASE call.fn = "accept"
  <2>1. Accept(call.id, call.caller)
    BY <1>5 DEF Invocation
  <2>2. PICK new : new = [escrow[call.id] EXCEPT !.accepted_at = {now}]
    OBVIOUS
  <2>3. call.id \in DOMAIN escrow /\ escrow' = [escrow EXCEPT ![call.id] = new]
    BY <2>1, <2>2 DEF Accept, Funded, Exists
  <2>4. "status" \in DOMAIN escrow[call.id]
    BY <2>3 DEF ChainKept
  <2>5. new.status = escrow[call.id].status
    BY <2>2, <2>4
  <2> QED BY <1>3, <2>3, <2>5
<1>6. CASE call.fn \in {"pause", "unpause"}
  <2>1. Pause(call.caller) \/ Unpause(call.caller)
    BY <1>6 DEF Invocation
  <2>2. escrow' = escrow
    BY <2>1 DEF Pause, Unpause, books
  <2> QED BY <2>2
<1>7. CASE call.fn \in {"cancel", "release", "refund", "release_with_approvals", "refund_with_approvals"}
  <2>1. PICK to : /\ Funded(call.id) /\ SettleOne(call.id, to)
                  /\ to = "Released" => call.fn \in {"release", "release_with_approvals"}
    <3>1. CASE call.fn \in {"release", "release_with_approvals"}
      <4>1. Release(call.id, call.caller) \/ ReleaseWithApprovals(call.id, call.approvers)
        BY <3>1 DEF Invocation
      <4> QED BY <3>1, <4>1 DEF Release, ReleaseWithApprovals, ReleaseChecks
    <3>2. CASE call.fn \in {"cancel", "refund", "refund_with_approvals"}
      <4>1. \/ Cancel(call.id, call.caller) \/ Refund(call.id, call.caller)
            \/ RefundWithApprovals(call.id, call.approvers)
        BY <3>2 DEF Invocation
      <4>2. Funded(call.id) /\ \E to \in {"Refunded", "Cancelled"} : SettleOne(call.id, to)
        BY <4>1 DEF Cancel, Refund, RefundWithApprovals, RefundChecks
      <4> QED BY <4>2
    <3> QED BY <1>7, <3>1, <3>2
  <2>2. CASE id = call.id
    <3>1. escrow'[id].status = to
      BY <2>1, <2>2, SettledKept
    <3> QED BY <2>1, <2>2, <3>1 DEF Releases
  <2>3. CASE id # call.id
    <3>1. escrow' = [x \in DOMAIN escrow |->
                       IF x \in {call.id} THEN [escrow[x] EXCEPT !.status = [y \in {call.id} |-> to][x]] ELSE escrow[x]]
      BY <2>1 DEF SettleOne, Settle
    <3> QED BY <2>3, <3>1
  <2> QED BY <2>2, <2>3
<1> QED BY <1>1, <1>2, <1>4, <1>5, <1>6, <1>7 DEF Invocation

LEMMA ReleasedByCallStep ==
  ASSUME IsTxs, ChainKept, ReleasedByCall, [WritesNext]_writeVars
  PROVE  ReleasedByCall'
<1>1. ASSUME escrow' = escrow, DOMAIN txs \subseteq DOMAIN txs',
             \A k \in DOMAIN txs : Executed(k) => Executed(k)' /\ txs'[k].call = txs[k].call
      PROVE  ReleasedByCall'
  BY <1>1 DEF ReleasedByCall
<1>2. ASSUME NEW call, CallSent(call) PROVE ReleasedByCall'
  <2>1. escrow' = escrow
    BY <1>2 DEF CallSent, chain, books
  <2>2. DOMAIN txs \subseteq DOMAIN txs' /\ \A k \in DOMAIN txs : txs'[k] = txs[k]
    BY <1>2, SubmitEffect DEF CallSent
  <2> QED BY <1>1, <2>1, <2>2 DEF Executed
<1>3. ASSUME NEW k \in DOMAIN txs, Execute(k) PROVE ReleasedByCall'
  <2>1. PICK call : call = txs[k].call /\ Invocation(call)
    BY <1>3 DEF Execute, TakesEffect
  <2>2. /\ DOMAIN txs' = DOMAIN txs /\ \A j \in DOMAIN txs : j # k => txs'[j] = txs[j]
        /\ txs'[k].call = call /\ txs'[k].state = "executed"
    BY <1>3, <2>1, ExecuteEffect
  <2>3. ASSUME NEW id \in DOMAIN escrow', escrow'[id].status = "Released"
        PROVE  \E j \in DOMAIN txs' : Executed(j)' /\ Releases(txs'[j].call, id)
    <3>1. CASE Releases(call, id)
      BY <2>2, <3>1 DEF Executed
    <3>2. CASE id \in DOMAIN escrow /\ escrow[id].status = "Released"
      <4>1. PICK j \in DOMAIN txs : Executed(j) /\ Releases(txs[j].call, id)
        BY <3>2 DEF ReleasedByCall
      <4>2. Executed(j)' /\ txs'[j].call = txs[j].call
        BY <2>1, <2>2, <4>1 DEF Executed
      <4> QED BY <2>2, <4>1, <4>2
    <3> QED BY <2>1, <2>3, <3>1, <3>2, InvocationReleases
  <2> QED BY <2>3 DEF ReleasedByCall
<1>4. ASSUME NEW k \in DOMAIN txs, Drop(k) PROVE ReleasedByCall'
  <2>1. escrow' = escrow
    BY <1>4 DEF Drop, chain, books
  <2>2. /\ DOMAIN txs' = DOMAIN txs /\ \A j \in DOMAIN txs : j # k => txs'[j] = txs[j]
        /\ txs[k].state = "sent"
    BY <1>4, DropEffect
  <2> QED BY <1>1, <2>1, <2>2 DEF Executed
<1>5. CASE UNCHANGED txs /\ (Tick \/ UNCHANGED chain)
  BY <1>1, <1>5 DEF Tick, books, chain, Executed
<1> QED BY <1>2, <1>3, <1>4, <1>5, WriteKinds DEF Network, netVars

\* Nobody else asks for what a tranche asks for: its condition reference bears its tag.
TranchesApart ==
  \A j \in Jobs : j.does = "milestones" =>
    \A i \in DOMAIN j.milestones : Tranches(j.params, j.milestones)[i] \notin CreateInputs
\* Whoever releases an escrow of the group does so by naming its tranche.
ReleasedThroughGroup ==
  \A k \in DOMAIN txs, i \in DOMAIN results : \A id \in results[i].escrowId :
    Executed(k) /\ Releases(txs[k].call, id) => "milestone" \in DOMAIN txs[k].call

\* A group of milestones has a report for each tranche.
LEMMA TrancheReports ==
  ASSUME GroupKept, job.does = "milestones", phase \notin {"idle", "refused"}
  PROVE  /\ Len(results) \in Nat /\ DOMAIN results = 1..Len(results) /\ DOMAIN job.milestones = DOMAIN results
         /\ job.milestones = [i \in DOMAIN results |-> job.milestones[i]]
         /\ Items(job) = Tranches(job.params, job.milestones) /\ job \in Jobs
<1>1. job \in Jobs /\ Len(results) \in Nat /\ DOMAIN results = 1..Len(results) /\ Len(results) = Len(Items(job))
  BY LenProperties DEF GroupKept
<1>2. DOMAIN Items(job) = DOMAIN results
  BY <1>1, ItemsAreListed
<1>3. Items(job) = Tranches(job.params, job.milestones)
  BY DEF Items
<1>4. DOMAIN job.milestones = DOMAIN results
  BY <1>2, <1>3 DEF Tranches
<1>5. job.milestones \in Seq(Int)
  BY <1>1, JobsAssumption DEF BatchJob
<1>6. job.milestones = [i \in DOMAIN job.milestones |-> job.milestones[i]]
  BY <1>5
<1> QED BY <1>1, <1>3, <1>4, <1>6

\* What took a tranche onto the chain is among what the group sent.
LEMMA CarriedByGroup ==
  ASSUME TranchesApart, GroupKept, job.does = "milestones", phase \notin {"idle", "refused"}
  PROVE  UNION {Carried(i) : i \in DOMAIN results} \subseteq Ours
<1> SUFFICES ASSUME NEW i \in DOMAIN results, NEW k \in Carried(i) PROVE k \in Ours
  OBVIOUS
<1>1. PICK item, call : /\ item = Items(job)[i] /\ call = txs[k].call
                        /\ k \in DOMAIN txs /\ call \in ItemCall(job, item)
  BY DEF Carried
<1>2. call.params = item /\ "params" \in DOMAIN call
  BY <1>1, CreatesAtOnce DEF ItemCall
<1>3. item \notin CreateInputs
  BY <1>1, TrancheReports DEF TranchesApart
<1> QED BY <1>1, <1>2, <1>3 DEF Ours

\* The escrow of a tranche that was created, and how it reads.
LEMMA TrancheEscrow ==
  ASSUME GroupKept, TxsTrue, ReportsKept, job.does = "milestones", phase = "returned",
         NEW i \in DOMAIN results
  PROVE  \E id \in DOMAIN escrow :
           /\ results[i].escrowId = {id}
           /\ getMilestones[i] = "released" <=> escrow[id].status = "Released"
           /\ escrow[id].status = "Refunded" => getMilestones[i] = "refunded"
<1>1. PICK k \in DOMAIN txs, item \in {Items(job)[i]} :
        Executed(k) /\ txs[k].escrowId = results[i].escrowId /\ txs[k].call \in ItemCall(job, item)
  BY DEF ReportsKept
<1>2. PICK call : call = txs[k].call
  OBVIOUS
<1>3. "params" \in DOMAIN call
  BY <1>1, <1>2, CreatesAtOnce DEF ItemCall
<1>4. Took(call, results[i].escrowId)
  BY <1>1, <1>2 DEF TxsTrue
<1>5. PICK id \in results[i].escrowId : id \in DOMAIN escrow
  BY <1>3, <1>4 DEF Took, Exists
<1>6. results[i].escrowId = {id}
  <2>1. results[i].escrowId \in Option(Nat)
    BY <1>1 DEF GroupKept, TxIds
  <2> QED BY <1>5, <2>1 DEF Option
<1>7. The(results[i].escrowId) = id
  BY <1>6 DEF The
<1>8. getEscrow(id).status = escrow[id].status
  BY DEF getEscrow
<1>9. PICK s : s = escrow[id].status
  OBVIOUS
<1>10. getMilestones[i] = CASE s = "Released" -> "released" [] s = "Funded" -> "unreleased" [] OTHER -> "refunded"
  BY <1>7, <1>8, <1>9 DEF getMilestones
<1> QED BY <1>5, <1>6, <1>9, <1>10

\* What MilestonesAccounted says of a group that failed.
LEMMA FailedGroup ==
  ASSUME TranchesApart, GroupKept, InOrder, SentOnce, job.does = "milestones", phase = "thrown",
         NEW listed, listed = {i \in DOMAIN results : results[i].ok}
  PROVE  /\ listed = 1..Cardinality(listed) /\ Cardinality(listed) < Len(results)
         /\ Cardinality(UNION {Carried(i) : i \in DOMAIN results}) <= Cardinality(listed) + 1
<1>1. Len(results) \in Nat /\ DOMAIN results = 1..Len(results)
  BY TrancheReports
<1>2. /\ index \in 1..Len(results) /\ ~results[index].ok
      /\ \A i \in DOMAIN results : (i < index => results[i].ok) /\ (i > index => ~results[i].ok)
  BY <1>1 DEF InOrder
<1>3. PICK n \in Nat : index = n + 1 /\ n < Len(results)
  <2>1. index - 1 \in Nat /\ index = (index - 1) + 1 /\ index - 1 < Len(results)
    BY <1>1, <1>2
  <2> QED BY <2>1
<1>4. listed = 1..n
  BY <1>1, <1>2, <1>3
<1>5. Cardinality(1..n) = n
  <2>1. Cardinality(1..n) = IF 1 > n THEN 0 ELSE n - 1 + 1
    BY FS_Interval
  <2> QED BY <2>1
<1>6. Cardinality(UNION {Carried(i) : i \in DOMAIN results}) <= n + 1
  <2>1. PICK S : S = UNION {Carried(i) : i \in DOMAIN results}
    OBVIOUS
  <2>2. S \subseteq Ours /\ IsFiniteSet(Ours) /\ Cardinality(Ours) \in Nat /\ Cardinality(Ours) <= n + 1
    BY <1>3, <2>1, CarriedByGroup, OursGrows DEF SentOnce, GroupKept
  <2>3. Cardinality(S) <= Cardinality(Ours) /\ Cardinality(S) \in Nat
    BY <2>2, FS_Subset, FS_CardinalityType
  <2> QED BY <2>1, <2>2, <2>3
<1> QED BY <1>3, <1>4, <1>5, <1>6

\* For any schedule, and whatever else is called meanwhile over a network that loses
\* answers: a group of milestones that returns adds up to its amount, one that fails
\* leaves at most one tranche unlisted, and calls on one milestone settle that tranche.
THEOREM MilestonesAreAccounted ==
  TranchesApart /\ WritesSpec => [](ReleasedThroughGroup => MilestonesAccounted)
<1> DEFINE Kept == /\ GroupKept /\ TxsTrue /\ ReportsKept /\ InOrder /\ SentOnce /\ SettledAsNamed
                   /\ ReleasedByCall
<1>1. RequestsInit /\ BatchInit => Kept
  <2> SUFFICES ASSUME RequestsInit, BatchInit PROVE Kept
    OBVIOUS
  <2>1. /\ txs = <<>> /\ results = <<>> /\ DOMAIN <<>> = {} /\ waiting = {} /\ phase = "idle"
        /\ DOMAIN escrow = {}
    BY DEF RequestsInit, BatchInit, Init
  <2>2. GroupKept
    BY <2>1, EmptySeq DEF RequestsInit, Init, GroupKept, IsTxs, TxIds
  <2>3. TxsTrue
    BY <2>1 DEF RequestsInit, Init, TxsTrue, CreationsKept, ChainKept, IsTxs
  <2>4. ReportsKept /\ InOrder
    BY <2>1 DEF ReportsKept, InOrder
  <2>5. SentOnce /\ SettledAsNamed /\ ReleasedByCall
    BY <2>1 DEF SentOnce, Ours, SettledAsNamed, ReleasedByCall
  <2> QED BY <2>2, <2>3, <2>4, <2>5
<1>2. ASSUME Kept, [WritesNext]_writeVars PROVE Kept'
  <2>1. GroupKept' /\ TxsTrue' /\ ReportsKept'
    BY <1>2, GroupStep, TxsTrueStep, ReportsStep
  <2>2. InOrder' /\ SentOnce' /\ SettledAsNamed'
    BY <1>2, InOrderStep, SentOnceStep, SettledAsNamedStep
  <2>3. ReleasedByCall'
    BY <1>2, ReleasedByCallStep DEF TxsTrue, CreationsKept
  <2> QED BY <2>1, <2>2, <2>3
<1>3. TranchesApart /\ Kept => (ReleasedThroughGroup => MilestonesAccounted)
  <2> SUFFICES ASSUME TranchesApart, Kept, ReleasedThroughGroup, job.does = "milestones"
               PROVE  MilestonesAccounted
    BY DEF MilestonesAccounted
  <2>1. PICK listed : listed = {i \in DOMAIN results : results[i].ok}
    OBVIOUS
  <2>2. ASSUME phase = "returned" PROVE Total([i \in listed |-> job.milestones[i]]) = job.params.amount
    <3>1. listed = DOMAIN results
      BY <2>1, <2>2 DEF ReportsKept
    <3>2. [i \in listed |-> job.milestones[i]] = job.milestones
      BY <2>2, <3>1, TrancheReports
    <3> QED BY <2>2, <3>2 DEF InOrder, MilestoneAccepted, ValidateMilestoneSchedule
  <2>3. ASSUME phase = "thrown"
        PROVE  /\ listed = 1..Cardinality(listed) /\ Cardinality(listed) < Len(results)
               /\ Cardinality(UNION {Carried(i) : i \in DOMAIN results}) <= Cardinality(listed) + 1
    BY <2>1, <2>3, FailedGroup
  <2>4. ASSUME phase = "returned", NEW i \in DOMAIN results,
               NEW settled, settled = {txs[k].call.fn : k \in {j \in DOMAIN txs : Executed(j) /\
                                         "milestone" \in DOMAIN txs[j].call /\ txs[j].call.milestone = i - 1}}
        PROVE  /\ "release" \in settled <=> getMilestones[i] = "released"
               /\ "refund" \in settled => getMilestones[i] = "refunded"
    <3>1. PICK id \in DOMAIN escrow : /\ results[i].escrowId = {id}
                                      /\ getMilestones[i] = "released" <=> escrow[id].status = "Released"
                                      /\ escrow[id].status = "Refunded" => getMilestones[i] = "refunded"
      BY <2>4, TrancheEscrow
    <3>2. DOMAIN results = 1..Len(results) /\ i \in Nat
      BY <2>4, TrancheReports
    <3>3. ASSUME NEW fn \in settled
          PROVE  \E k \in DOMAIN txs : txs[k].call.fn = fn /\ txs[k].call.id = id /\ Took(txs[k].call, txs[k].escrowId)
      <4>1. PICK k \in DOMAIN txs : /\ Executed(k) /\ "milestone" \in DOMAIN txs[k].call
                                    /\ txs[k].call.milestone = i - 1 /\ txs[k].call.fn = fn
        BY <2>4
      <4>2. /\ txs[k].call.id \in results[txs[k].call.milestone + 1].escrowId
            /\ txs[k].call.milestone + 1 = i
        BY <3>2, <4>1 DEF SettledAsNamed
      <4>3. Took(txs[k].call, txs[k].escrowId)
        BY <4>1 DEF TxsTrue
      <4> QED BY <3>1, <4>1, <4>2, <4>3
    <3>4. "release" \in settled => getMilestones[i] = "released"
      BY <3>1, <3>3 DEF Took
    <3>5. "refund" \in settled => getMilestones[i] = "refunded"
      BY <3>1, <3>3 DEF Took
    <3>6. ASSUME getMilestones[i] = "released" PROVE "release" \in settled
      <4>1. PICK k \in DOMAIN txs : Executed(k) /\ Releases(txs[k].call, id)
        BY <3>1, <3>6 DEF ReleasedByCall
      <4> DEFINE call == txs[k].call
      <4>2. "milestone" \in DOMAIN call
        BY <3>1, <4>1 DEF ReleasedThroughGroup
      <4>3. /\ call.fn = "release" /\ call.milestone \in 0..(Len(results) - 1)
            /\ id \in results[call.milestone + 1].escrowId
        BY <4>1, <4>2 DEF SettledAsNamed, Releases
      <4>4. Len(results) \in Nat
        BY <2>4, TrancheReports
      <4>5. PICK n : n = call.milestone + 1 /\ n \in DOMAIN results
        BY <3>2, <4>3, <4>4
      <4>6. results[n].escrowId = results[i].escrowId
        <5>1. results[n].escrowId \in Option(Nat)
          <6>1. \E j \in DOMAIN txs : txs[j].escrowId = results[n].escrowId
            BY <2>4, <4>5 DEF ReportsKept
          <6> QED BY <6>1 DEF GroupKept, TxIds
        <5> QED BY <3>1, <4>3, <4>5, <5>1 DEF Option
      <4>7. n = i
        BY <3>1, <4>5, <4>6 DEF ReportsKept
      <4>8. call.milestone = i - 1
        BY <4>3, <4>4, <4>5, <4>7
      <4> QED BY <2>4, <4>1, <4>2, <4>3, <4>8
    <3> QED BY <3>4, <3>5, <3>6
  <2> QED BY <2>1, <2>2, <2>3, <2>4 DEF MilestonesAccounted
<1>4. SUFFICES ASSUME TranchesApart PROVE WritesSpec => [](ReleasedThroughGroup => MilestonesAccounted)
  OBVIOUS
<1>5. Kept => (ReleasedThroughGroup => MilestonesAccounted)
  BY <1>3, <1>4
<1> HIDE DEF Kept
<1> QED BY <1>1, <1>2, <1>5, PTL DEF WritesSpec
-----------------------------------------------------------------------------
(* Refusals.                                                                 *)

\* A lifecycle call that topUp, accept or cancel refuses after its reads is one the
\* contract, with the escrow as it was read, would take in no way at all: what
\* PreflightSound says of refusals, for any call and without ENABLED.
THEOREM RefusalsAreRight ==
  ASSUME NEW fn \in {"top_up", "accept", "cancel"}, NEW id, NEW a \in Addr, NEW amount \in Int,
         LifecycleRefused(LifecycleCall(fn, id, a, amount))
  PROVE  ~Invocation(LifecycleCall(fn, id, a, amount))
<1>1. PICK call : /\ call = LifecycleCall(fn, id, a, amount) /\ call.fn = fn /\ call.id = id
                  /\ call.caller = a /\ call.amount = amount
  BY DEF LifecycleCall, WithAmount, By
<1>2. Invocation(call) => \/ fn = "accept" /\ Accept(id, a)
                          \/ fn = "top_up" /\ TopUp(id, a, amount)
                          \/ fn = "cancel" /\ Cancel(id, a)
  BY <1>1 DEF Invocation
<1>3. \/ fn = "top_up" /\ amount <= 0
      \/ ~Exists(id)
      \/ a # LifecycleParty(escrow[id], fn)
      \/ escrow[id].status # "Funded"
      \/ fn # "top_up" /\ (~escrow[id].requires_acceptance \/ escrow[id].accepted_at # {})
  BY <1>1 DEF LifecycleRefused, PreconditionsFail, getEscrow, LifecycleParty
<1>4. CASE fn = "top_up"
  BY <1>1, <1>2, <1>3, <1>4 DEF TopUp, Funded, LifecycleParty
<1>5. CASE fn = "accept"
  BY <1>1, <1>2, <1>3, <1>5 DEF Accept, Funded, LifecycleParty
<1>6. CASE fn = "cancel"
  BY <1>1, <1>2, <1>3, <1>6 DEF Cancel, Funded, LifecycleParty
<1> QED BY <1>4, <1>5, <1>6
=============================================================================
