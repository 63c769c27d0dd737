---------------------------- MODULE MCLuaThreads ----------------------------
(* Instances of the script threads for TLC. *)
EXTENDS LuaThreads

MCStates == 1..3
=============================================================================
