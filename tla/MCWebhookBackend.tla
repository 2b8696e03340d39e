-------------------------- MODULE MCWebhookBackend --------------------------
(***************************************************************************)
(* WH-002 with its two configuration lists; CRD-002 is the case in which   *)
(* one of them never references a Service.                                 *)
(***************************************************************************)
EXTENDS WebhookBackend, TLC

CONSTANTS s1, s2

OneService == {s1}
TwoServices == {s1, s2}
AdmissionLists == {"validatingwebhookconfigurations", "mutatingwebhookconfigurations"}
ServiceSymmetry == Permutations(Services)
=============================================================================
