------------------------------- MODULE SdkCalls -------------------------------
(* One EscrowClient (sdk/src/index.ts) and its concurrent callers: the network *)
(* and version checks they share through two cached promises, and the phases   *)
(* of a write with their spans (instrumentation.ts).  A promise wakes all who   *)
(* await it in one step, but the promises built on it hear of it some turns of  *)
(* the microtask queue later; the RPC may lose any request.                     *)
EXTENDS Integers, FiniteSets

CONSTANTS
  Callers,
  Configs,             \* what EscrowClientConfig may say
  Rpcs,                \* what the RPC server and the contract behind it are
  MaxCalls, MaxLost    \* calls made, requests lost

VARIABLES
  config, rpc,
  networkVerified,     \* the cached promise: none, pending or verified
  contractVersion,     \* none, network (checked first), pending, the cause it is
                       \* about to fail with, or the version
  contractVersionChecked,
  calls,               \* each caller: what it calls and how far it got
  started, lost        \* calls made, requests lost

callVars == <<config, rpc, networkVerified, contractVersion, contractVersionChecked,
              calls, started, lost>>
caches == <<networkVerified, contractVersion, contractVersionChecked>>

Phases == {"simulate", "sign", "submit", "confirm"}
EscrowClientConfig ==
  [mainnet : BOOLEAN, allowMainnet : BOOLEAN, preset : BOOLEAN,
   verifyNetwork : SUBSET BOOLEAN, verifyContractVersion : SUBSET BOOLEAN, onEvent : BOOLEAN]
Rpc == [network : {"ours", "other"}, getNetwork : BOOLEAN,
        version : {"supported", "unsupported", "missing"}]
ASSUME CallsAssumption == Configs \subseteq EscrowClientConfig /\ Rpcs \subseteq Rpc

\* The constructor: mainnet needs an opt-in of its own, and each check is as
\* asked for, or automatic with a preset.
MainnetRefused(c) == c.mainnet /\ ~c.allowMainnet
Mode(flag, preset) ==
  CASE flag = {TRUE} -> "required" [] flag = {FALSE} -> "off"
    [] OTHER -> IF preset THEN "auto" ELSE "off"
NetworkVerification == Mode(config.verifyNetwork, config.preset)
ContractVersionCheck == Mode(config.verifyContractVersion, config.preset)

\* Writes; reads behind the gate; reads that skip it (getSolvency, isPaused,
\* getPauseAdmin); the two explicit requests.
Kinds == {"write", "read", "openRead", "verifyNetwork", "verifyContractVersion"}
NoSpans == [p \in Phases |-> [opened |-> 0, ended |-> 0]]
Idle == [kind |-> "none", at |-> "idle", cause |-> "none", lostBefore |-> 0, amid |-> FALSE,
         spans |-> NoSpans]

\* The network check has failed and been dropped, the version lookup waiting for
\* it has not heard of it yet: only microtasks run.
Rejecting == contractVersion \in {"lost", "mismatch"}

At(place) == {c \in Callers : calls[c].at = place}
Went(c, place) == [calls[c] EXCEPT !.at = place]
Threw(c, cause) == [calls[c] EXCEPT !.at = "failed", !.cause = cause]
Set(c, call) == calls' = [calls EXCEPT ![c] = call]
-----------------------------------------------------------------------------
(* Spans.  confirm opens when the submission is known, or when it ends.       *)

Opened(call, p) ==
  IF config.onEvent THEN [call EXCEPT !.spans[p].opened = 1] ELSE call
Ended(call, p) ==
  IF config.onEvent /\ call.spans[p].ended = 0
    THEN [call EXCEPT !.spans[p] = [opened |-> 1, ended |-> 1]] ELSE call
-----------------------------------------------------------------------------
Start(c, kind) ==
  /\ calls[c].at = "idle" /\ started < MaxCalls
  /\ Set(c, [Idle EXCEPT !.kind = kind, !.lostBefore = lost, !.amid = Rejecting,
               !.at = CASE kind = "openRead" -> "simulate"
                        [] kind = "verifyContractVersion" -> "version"
                        [] OTHER -> "passphrase"])
  /\ started' = started + 1
  /\ UNCHANGED <<config, rpc, caches, lost>>

\* What follows the passphrase check of a call, and a settled promise's outcome.
Verified(c) == Went(c, IF calls[c].kind = "verifyNetwork" THEN "done" ELSE "version")
Awaited(c, outcome) == IF outcome = "lost" THEN Threw(c, outcome) ELSE Verified(c)

\* Fault: a check under way is not waited for.
NetworkKnownEarly == networkVerified # "none"
\* The cached promise has settled.
NetworkKnown == networkVerified \notin {"none", "pending"}

\* ensureNetworkPassphrase, and verifyNetwork, which never looks at the mode.
CheckPassphrase(c) ==
  LET explicit == calls[c].kind = "verifyNetwork" IN
  /\ calls[c].at = "passphrase"
  /\ \/ /\ ~explicit /\ NetworkVerification = "off"
        /\ Set(c, Verified(c)) /\ UNCHANGED networkVerified
     \/ /\ explicit \/ NetworkVerification # "off"
        /\ \/ NetworkKnown /\ Set(c, Awaited(c, networkVerified)) /\ UNCHANGED networkVerified
           \/ /\ ~NetworkKnown /\ networkVerified = "none" /\ ~rpc.getNetwork
              /\ Set(c, IF explicit \/ NetworkVerification = "required"
                          THEN Threw(c, "no getNetwork") ELSE Verified(c))
              /\ UNCHANGED networkVerified
           \/ /\ ~NetworkKnown /\ (networkVerified = "pending" \/ rpc.getNetwork)
              /\ networkVerified' = "pending"
              /\ Set(c, Went(c, "network"))
  /\ UNCHANGED <<config, rpc, contractVersion, contractVersionChecked, started, lost>>

\* Those who await the version, once it is known or its lookup has failed.
Judged(c, version) ==
  LET gated == calls[c].kind # "verifyContractVersion"
      lenient == gated /\ ContractVersionCheck = "auto" IN
  IF version = "supported" \/ (lenient /\ version \in {"missing", "lost", "mismatch"})
    THEN Went(c, IF gated THEN "simulate" ELSE "done")
    ELSE Threw(c, version)

\* getNetwork reports the configured passphrase.
NetworkAnswer ==
  /\ networkVerified = "pending" /\ rpc.network = "ours"
  /\ networkVerified' = "verified"
  /\ contractVersion' = IF contractVersion = "network" THEN "pending" ELSE contractVersion
  /\ calls' = [c \in Callers |-> IF c \in At("network") THEN Verified(c) ELSE calls[c]]
  /\ UNCHANGED <<config, rpc, contractVersionChecked, started, lost>>

\* The promise the failed check leaves behind.  Fault: it stays cached.
KeptPromise == "lost"
ClearedPromise == "none"

\* It reports another network, or no answer comes.  The promise is dropped, then
\* everybody who awaits it fails; a lookup that waits for it is still cached.
NetworkFailure ==
  /\ networkVerified = "pending"
  /\ \/ rpc.network = "other" /\ UNCHANGED lost
     \/ lost < MaxLost /\ lost' = lost + 1
  /\ LET cause == IF lost' > lost THEN "lost" ELSE "mismatch" IN
     /\ calls' = [c \in Callers |-> IF c \in At("network") THEN Threw(c, cause) ELSE calls[c]]
     /\ contractVersion' = IF contractVersion = "network" THEN cause ELSE contractVersion
  /\ networkVerified' = ClearedPromise
  /\ UNCHANGED <<config, rpc, contractVersionChecked, started>>

\* Two turns later the lookup has thrown too: it is dropped, then those who await it fail.
RejectionPasses ==
  /\ Rejecting
  /\ contractVersion' = "none"
  /\ calls' = [c \in Callers |->
                 IF c \in At("lookup") THEN Judged(c, contractVersion) ELSE calls[c]]
  /\ UNCHANGED <<config, rpc, networkVerified, contractVersionChecked, started, lost>>

\* ensureContractVersionChecked and verifyContractVersion.  The lookup does its
\* own passphrase check first.
CheckVersion(c) ==
  LET gated == calls[c].kind # "verifyContractVersion" IN
  /\ calls[c].at = "version"
  /\ \/ /\ gated /\ (ContractVersionCheck = "off" \/ contractVersionChecked)
        /\ Set(c, Went(c, "simulate"))
        /\ UNCHANGED caches
     \/ /\ ~gated \/ (ContractVersionCheck # "off" /\ ~contractVersionChecked)
        /\ \/ /\ contractVersion \in {"supported", "unsupported", "missing"}
              /\ Set(c, Judged(c, contractVersion))
              /\ contractVersionChecked' =
                   (contractVersionChecked \/ calls'[c].at = "simulate")
              /\ UNCHANGED <<networkVerified, contractVersion>>
           \/ /\ contractVersion \in {"network", "pending"} \/ Rejecting
              /\ Set(c, Went(c, "lookup"))
              /\ UNCHANGED caches
           \/ /\ contractVersion = "none"
              /\ IF NetworkVerification = "off" \/ NetworkKnown \/
                    (~rpc.getNetwork /\ NetworkVerification = "auto")
                   THEN /\ contractVersion' = "pending"
                        /\ Set(c, Went(c, "lookup"))
                        /\ UNCHANGED networkVerified
                   ELSE IF ~rpc.getNetwork
                     THEN /\ Set(c, Threw(c, "no getNetwork"))
                          /\ UNCHANGED <<networkVerified, contractVersion>>
                     ELSE /\ contractVersion' = "network" /\ networkVerified' = "pending"
                          /\ Set(c, Went(c, "lookup"))
              /\ UNCHANGED contractVersionChecked
  /\ UNCHANGED <<config, rpc, started, lost>>

\* version() returns, or the contract has no such function.
VersionAnswer ==
  /\ contractVersion = "pending"
  /\ contractVersion' = rpc.version
  /\ calls' = [c \in Callers |->
                 IF c \in At("lookup") THEN Judged(c, rpc.version) ELSE calls[c]]
  /\ contractVersionChecked' =
       (contractVersionChecked \/ \E c \in At("lookup") : calls'[c].at = "simulate")
  /\ UNCHANGED <<config, rpc, networkVerified, started, lost>>

\* The lookup fails: the automatic check lets the call go on and asks again next time.
VersionFailure ==
  /\ contractVersion = "pending" /\ lost < MaxLost
  /\ contractVersion' = "none" /\ lost' = lost + 1
  /\ calls' = [c \in Callers |->
                 IF c \in At("lookup") THEN Judged(c, "lost") ELSE calls[c]]
  /\ UNCHANGED <<config, rpc, networkVerified, contractVersionChecked, started>>
-----------------------------------------------------------------------------
(* invoke.                                                                    *)

\* A phase of tracePhase that succeeds, and the place the call goes on to.
Traced(c, p, place) == Set(c, [Ended(Opened(calls[c], p), p) EXCEPT !.at = place])

Simulate(c) ==
  /\ calls[c].at = "simulate"
  /\ \/ Traced(c, "simulate", IF calls[c].kind = "write" THEN "sign" ELSE "done") /\ UNCHANGED lost
     \/ /\ lost < MaxLost /\ lost' = lost + 1
        /\ Set(c, Ended(Opened(Threw(c, "lost"), "simulate"), "simulate"))
  /\ UNCHANGED <<config, rpc, caches, started>>

\* A call that changes nothing is not sent; the signer may decline.
Sign(c) ==
  /\ calls[c].at = "sign"
  /\ \/ Set(c, Threw(c, "read call"))
     \/ Set(c, Ended(Opened(Threw(c, "declined"), "sign"), "sign"))
     \/ Set(c, Opened([Ended(Opened(calls[c], "sign"), "sign") EXCEPT !.at = "submit"], "submit"))
  /\ UNCHANGED <<config, rpc, caches, started, lost>>

\* onSubmitted, or a send that ends without having called it.
OnSubmitted(c) ==
  /\ calls[c].at = "submit"
  /\ Set(c, Opened([Ended(calls[c], "submit") EXCEPT !.at = "confirm"], "confirm"))
  /\ UNCHANGED <<config, rpc, caches, started, lost>>

\* send throws.  Fault: a submission that fails is left open.
SpansOfThrowOpen(call) == Ended(call, "confirm")
SpansOfThrow(call) ==
  Ended(IF call.at = "submit" THEN Ended(call, "submit") ELSE call, "confirm")
SendThrows(c) ==
  /\ calls[c].at \in {"submit", "confirm"} /\ lost < MaxLost
  /\ lost' = lost + 1
  /\ Set(c, [SpansOfThrow(calls[c]) EXCEPT !.at = "failed", !.cause = "lost"])
  /\ UNCHANGED <<config, rpc, caches, started>>

Confirm(c) ==
  /\ calls[c].at = "confirm"
  /\ Set(c, [Ended(calls[c], "confirm") EXCEPT !.at = "done"])
  /\ UNCHANGED <<config, rpc, caches, started, lost>>

\* The caller has its answer and is free again.  A check behind a gate has further
\* to throw than the promise it awaited: its caller hears after RejectionPasses.
Return(c) ==
  /\ calls[c].at = "done" \/ (calls[c].at = "failed" /\ (Rejecting => calls[c].kind = "verifyNetwork"))
  /\ Set(c, Idle)
  /\ UNCHANGED <<config, rpc, caches, started, lost>>
-----------------------------------------------------------------------------
CallInit(c, r) ==
  /\ config = c /\ rpc = r
  /\ networkVerified = "none" /\ contractVersion = "none" /\ contractVersionChecked = FALSE
  /\ calls = [x \in Callers |-> Idle]
  /\ started = 0 /\ lost = 0

\* What waits for the RPC server, the wallet or the network; and what a call does
\* in the turn it is made or resumed in.
Waited(c) ==
  \/ Simulate(c)
  \/ Sign(c)
  \/ OnSubmitted(c)
  \/ SendThrows(c)
  \/ Confirm(c)
CallStep(c) ==
  \/ CheckPassphrase(c)
  \/ CheckVersion(c)
  \/ Return(c)
  \/ ~Rejecting /\ Waited(c)
Answers ==
  \/ RejectionPasses
  \/ ~Rejecting /\ (NetworkAnswer \/ NetworkFailure \/ VersionAnswer \/ VersionFailure)

CallNext ==
  \/ \E c \in Callers, kind \in Kinds : Start(c, kind)
  \/ \E c \in Callers : CallStep(c)
  \/ Answers
=============================================================================
