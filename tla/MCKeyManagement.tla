--------------------------- MODULE MCKeyManagement ---------------------------
(* The keys of a domain and what publishes them: a key file, one of the two  *)
(* cloud services, the setup of a registry-managed identity, a rotation of   *)
(* its key, and the registry client.  A behaviour is about one of the five.  *)
EXTENDS LocalKeyProvider, KmsKeyProvider, ManagedKeyRotation, ManagedIssuance, RegistryClient

VARIABLE part

KeyInit ==
  /\ part \in {"file", "kms", "rotation", "issuance", "registry"}
  /\ part # "registry" => flow = "register"
  /\ part # "kms" => vendor = "aws" /\ schedules = FALSE
  /\ KeyStoreInit /\ KmsInit /\ Init /\ IssuanceInit /\ RegistryInit

FileProvider ==
  /\ part = "file"
  /\ KeyStoreNext
  /\ UNCHANGED <<kmsVars, vars, issuanceVars, registryVars, part>>

KmsProvider ==
  /\ part = "kms"
  /\ KmsNext
  /\ UNCHANGED <<keyStoreVars, vars, issuanceVars, registryVars, part>>

Rotates ==
  /\ part = "rotation"
  /\ Next
  /\ UNCHANGED <<keyStoreVars, kmsVars, issuanceVars, registryVars, part>>

Issues ==
  /\ part = "issuance"
  /\ IssuanceNext
  /\ UNCHANGED <<keyStoreVars, kmsVars, vars, registryVars, part>>

Converses ==
  /\ part = "registry"
  /\ RegistryNext
  /\ UNCHANGED <<keyStoreVars, kmsVars, vars, issuanceVars, part>>

KeyNext == FileProvider \/ KmsProvider \/ Rotates \/ Issues \/ Converses

(* The fairness of KeyStoreFairness, Fairness and IssuanceFairness, each     *)
(* asked of its own part: a part that rests takes no step, enabled or not.   *)
KeyFairness ==
  /\ \A s \in Signers : WF_keyStoreVars(part = "file" /\ SignDone(s))
  /\ WF_keyStoreVars(part = "file" /\ Drained)
  /\ WF_keyStoreVars(part = "file" /\ RunMutation)
  /\ WF_vars(part = "rotation" /\ RunRotation)
  /\ WF_vars(part = "rotation" /\ ~Terminal(Current) /\ Resume)
  /\ WF_vars(part = "rotation" /\ signer = 0 /\ Resume)
  /\ \A k \in Kids : WF_vars(part = "rotation" /\ RegistryStep(k))
  /\ \A p \in Procs : WF_issuanceVars(part = "issuance" /\ Proceed(p))
  /\ WF_issuanceVars(part = "issuance" /\ Receive)
  /\ WF_issuanceVars(part = "issuance" /\ Settle)

KeySpec ==
  /\ KeyInit /\ [][KeyNext]_<<keyStoreVars, kmsVars, vars, issuanceVars, registryVars, part>>
  /\ KeyFairness
=============================================================================
