-------------------------- MODULE MCObjectEffects --------------------------
(* An instance of ObjectEffects for TLC. *)
EXTENDS ObjectEffects

CONSTANTS e1, e2, a1    \* effects, an ability

============================================================================
