--------------------------- MODULE MCBlazeClient ---------------------------
(* An instance of BlazeClient for TLC. *)
EXTENDS BlazeClient

CONSTANTS c1, c2    \* connections

\* One peer sends a Login, with a body, and a LoginPersona, the other a Logout.
Streams ==
    [c \in Clients |->
       IF c = c1 THEN <<<<1, 1>>, <<1, 2>>, <<1, 3>>, <<2, 1>>, <<2, 2>>>>
                 ELSE <<<<3, 1>>, <<3, 2>>>>]

============================================================================
