------------------------------ MODULE Registry ------------------------------
(***************************************************************************)
(* The registry on the evidence of a scan (Registry.RunAllWithExecutions,  *)
(* internal/rules/rule.go): the collectors lose what they lose, and then   *)
(* the loop of RuleExecution takes its verdict on every rule of the        *)
(* universe from RuleEvidence's RuleStatus.                                *)
(*                                                                         *)
(* A behaviour still follows one rule's evidence, and goes on into the     *)
(* loop if that rule is one of the universe.                               *)
(***************************************************************************)
EXTENDS RuleExecution, RuleEvidence

registryVars == <<vars, evidenceVars>>

RegistryInit ==
  /\ EvidenceInit
  /\ status = [r \in Rules |-> RuleStatus(r)]
  /\ Init

(* The collectors are done before RunAllWithExecutions is called. *)
CollectorFails ==
  /\ records = <<>> /\ Fail
  /\ status' = [r \in Rules |-> RuleStatus(r)']
  /\ UNCHANGED <<position, records, kept, errs, made>>

RunRule == rule \in Rules /\ Next /\ UNCHANGED evidenceVars

RegistryNext == CollectorFails \/ RunRule

RegistrySpec == RegistryInit /\ [][RegistryNext]_registryVars
=============================================================================
