----------------------------- MODULE FactoryClient -----------------------------
(* The factory client of the SDK (sdk/src/factory.ts): deployInstance looks the  *)
(* integrator's instance up and otherwise sends a deployment, getInstance takes   *)
(* every simulation error for "none", and a deployment that was accepted may be   *)
(* executed later, fail or be dropped.  The factory contract itself is external:  *)
(* it keeps the first instance of an integrator.                                 *)
EXTENDS Integers, Sequences

CONSTANTS
  Integrators, Salts,
  MaxDeploys

VARIABLES
  instances,           \* the factory's instance of each integrator that has one
  deploys,             \* the calls of deployInstance, with the transaction of each
  bound                \* what forIntegrator built clients for

factoryVars == <<instances, deploys, bound>>

\* The address follows from the salt; the factory and the network are the client's.
predictInstanceAddress(salt) == <<"instance", salt>>
OnLedger == {instances[i] : i \in DOMAIN instances}

\* The integrator's instance, or none: also when the simulation fails.
Found(integrator) == {instances[i] : i \in {integrator} \cap DOMAIN instances}
getInstance(integrator) == {Found(integrator), {}}

Deploying(k, stage) == k \in DOMAIN deploys /\ deploys[k].stage = stage
DeployInstance(integrator, salt) ==
  /\ Len(deploys) < MaxDeploys
  /\ deploys' = Append(deploys, [integrator |-> integrator, salt |-> salt, stage |-> "asked",
                                 instanceId |-> {}, alreadyDeployed |-> FALSE,
                                 transaction |-> "none"])
  /\ UNCHANGED <<instances, bound>>

\* Fault: what was predicted is returned, whoever has which instance.
ExistingAsPredicted(call, existing) == predictInstanceAddress(call.salt)
Existing(call, existing) == CHOOSE id \in existing : TRUE

LookupAnswered(k) ==
  /\ Deploying(k, "asked")
  /\ \E existing \in getInstance(deploys[k].integrator) :
       deploys' = [deploys EXCEPT ![k] =
         IF existing = {} THEN [@ EXCEPT !.stage = "sending"]
         ELSE [@ EXCEPT !.stage = "returned", !.alreadyDeployed = TRUE,
                        !.instanceId = {Existing(deploys[k], existing)}]]
  /\ UNCHANGED <<instances, bound>>

\* The transaction is accepted, which is all that is waited for.
SendAccepted(k) ==
  /\ Deploying(k, "sending")
  /\ deploys' = [deploys EXCEPT ![k].stage = "returned", ![k].transaction = "pending",
                   ![k].instanceId = {predictInstanceAddress(deploys[k].salt)}]
  /\ UNCHANGED <<instances, bound>>
\* No signer, a request that fails, or a transaction that is turned down.
DeployThrows(k) ==
  /\ Deploying(k, "asked") \/ Deploying(k, "sending")
  /\ deploys' = [deploys EXCEPT ![k].stage = "thrown"]
  /\ UNCHANGED <<instances, bound>>

ExecuteDeploy(k) ==
  LET call == deploys[k] id == predictInstanceAddress(call.salt) IN
  /\ call.transaction = "pending"
  /\ IF call.integrator \in DOMAIN instances \/ id \in OnLedger
       THEN /\ deploys' = [deploys EXCEPT ![k].transaction = "failed"]
            /\ UNCHANGED instances
       ELSE /\ deploys' = [deploys EXCEPT ![k].transaction = "executed"]
            /\ instances' = [i \in DOMAIN instances \cup {call.integrator} |->
                               IF i = call.integrator THEN id ELSE instances[i]]
  /\ UNCHANGED bound
DropDeploy(k) ==
  /\ deploys[k].transaction = "pending"
  /\ deploys' = [deploys EXCEPT ![k].transaction = "failed"]
  /\ UNCHANGED <<instances, bound>>

\* It throws when there is no instance.
forIntegrator(integrator) ==
  /\ \E found \in getInstance(integrator) :
       /\ found # {}
       /\ bound' = bound \cup {[integrator |-> integrator, contractId |-> id] : id \in found}
  /\ UNCHANGED <<instances, deploys>>

FactoryInit == instances = <<>> /\ deploys = <<>> /\ bound = {}
FactoryNext ==
  \/ \E integrator \in Integrators :
       \/ forIntegrator(integrator)
       \/ \E salt \in Salts : DeployInstance(integrator, salt)
  \/ \E k \in DOMAIN deploys :
       \/ LookupAnswered(k)
       \/ SendAccepted(k)
       \/ DeployThrows(k)
       \/ ExecuteDeploy(k)
       \/ DropDeploy(k)
=============================================================================
