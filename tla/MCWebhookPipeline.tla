-------------------------- MODULE MCWebhookPipeline --------------------------
(***************************************************************************)
(* WebhookPipeline on small instances for TLC.                             *)
(***************************************************************************)
EXTENDS WebhookPipeline, TLC

\* Everybody wants every event, or only the first one.
EveryEvent == Events \X Subs
FirstEvent == {1} \X Subs

Symmetry == Permutations(Subs) \cup Permutations(Instances)
=============================================================================
