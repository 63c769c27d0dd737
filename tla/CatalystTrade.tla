--------------------------- MODULE CatalystTrade ---------------------------
(***************************************************************************)
(* Catalysts as the players of a game own them, with no grid, object or    *)
(* packet in sight: each is made once, and is then with one owner, in the  *)
(* world, or lost for good.  It changes hands only through the world: an   *)
(* owner drops it there, and whoever is first picks it up.                 *)
(* GameSessions.tla is shown to implement this.                            *)
(***************************************************************************)

CONSTANTS Owners, Catalysts

VARIABLES known,      \* those that were made
          world,      \* those that lie in the world
          held,       \* owner |-> those it has
          wasted      \* those that got lost

tvars == <<known, world, held, wasted>>

TInit == /\ known = {}
         /\ world = {}
         /\ held = [p \in Owners |-> {}]
         /\ wasted = {}

\* An owner is dealt new ones, and of what it or others held, L gets lost.
Deal(p, S, L) == /\ S \cap known = {}
                 /\ L \subseteq UNION {held[q] : q \in Owners}
                 /\ known' = known \cup S
                 /\ held' = [q \in Owners |-> (held[q] \ L) \cup (IF q = p THEN S ELSE {})]
                 /\ wasted' = wasted \cup L
                 /\ UNCHANGED world

\* A new one lies in the world.
Appear(c) == /\ c \notin known
             /\ known' = known \cup {c}
             /\ world' = world \cup {c}
             /\ UNCHANGED <<held, wasted>>

PutDown(p, c) == /\ c \in held[p]
                 /\ held' = [held EXCEPT ![p] = @ \ {c}]
                 /\ world' = world \cup {c}
                 /\ UNCHANGED <<known, wasted>>

TakeUp(p, c) == /\ c \in world
                /\ world' = world \ {c}
                /\ held' = [held EXCEPT ![p] = @ \cup {c}]
                /\ UNCHANGED <<known, wasted>>

TNext == \/ \E c \in Catalysts : Appear(c)
         \/ \E p \in Owners :
              \/ \E S, L \in SUBSET Catalysts : Deal(p, S, L)
              \/ \E c \in Catalysts : PutDown(p, c) \/ TakeUp(p, c)

TSpec == TInit /\ [][TNext]_tvars

=============================================================================
