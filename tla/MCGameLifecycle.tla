-------------------------- MODULE MCGameLifecycle --------------------------
(* Instances of a game's life for TLC. *)
EXTENDS GameLifecycle
============================================================================
