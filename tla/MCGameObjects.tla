--------------------------- MODULE MCGameObjects ---------------------------
(* Instances of a game's objects for TLC. *)
EXTENDS GameObjects

CONSTANTS c1, c2     \* two clients

\* Two objects for two clients, three for one: the third is made only while
\* nothing is left of a second client.  (No step of an update leaves this.)
TwoOrThree ==
    made > 2 => /\ c2 \notin mClients \cup joined
                /\ told[c2] = {} /\ heroes[c2] = {}
=============================================================================
