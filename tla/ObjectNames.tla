---------------------------- MODULE ObjectNames ----------------------------
(***************************************************************************)
(* What the object manager promises about the ids it hands out: an id      *)
(* names at most one object at a time, keeps naming it until it is taken   *)
(* back, and an object whose id was taken back is never named again.       *)
(* Which ids are chosen, and when they are reused, is left open.           *)
(***************************************************************************)
EXTENDS Naturals

VARIABLES names,     \* id |-> the object it names
          used       \* the objects that have ever been named

vars == <<names, used>>

Init == names = <<>> /\ used = {}

New == DOMAIN names' \ DOMAIN names

\* New ids name new objects, each its own; the names in force stay.
Give ==
    /\ New # {}
    /\ \A i \in DOMAIN names : i \in DOMAIN names' /\ names'[i] = names[i]
    /\ \A i \in New : names'[i] \notin used
    /\ \A i, j \in New : names'[i] = names'[j] => i = j
    /\ used' = used \cup {names'[i] : i \in New}

\* Some ids are taken back; the others keep their object.
TakeBack ==
    /\ DOMAIN names' \subseteq DOMAIN names
    /\ \A i \in DOMAIN names' : names'[i] = names[i]
    /\ UNCHANGED used

Next == Give \/ TakeBack

Spec == Init /\ [][Next]_vars

============================================================================
