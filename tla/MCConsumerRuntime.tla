---------------------------- MODULE MCConsumerRuntime ----------------------------
(* Instances of ConsumerRuntime small enough for TLC. *)
EXTENDS ConsumerRuntime
=============================================================================
