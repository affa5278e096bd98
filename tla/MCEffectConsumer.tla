-------------------------- MODULE MCEffectConsumer --------------------------
(* Instances of EffectConsumer for TLC. *)
EXTENDS EffectConsumer
=============================================================================
