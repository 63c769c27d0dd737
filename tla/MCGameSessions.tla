--------------------------- MODULE MCGameSessions ---------------------------
(* Instances of a game's sessions for TLC. *)
EXTENDS GameSessions, TLC

Symmetric == Permutations(Addresses) \cup Permutations(Users)

\* At most two of the events that the properties except lie behind a state that
\* goes on: every one, and every two of them in any order, are looked into.
TwoExceptions ==
    Cardinality(again) + Cardinality(reported) + Cardinality(lost)
        + (IF left THEN 1 ELSE 0) <= 2
=============================================================================
