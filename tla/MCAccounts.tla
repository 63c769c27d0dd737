----------------------------- MODULE MCAccounts -----------------------------
(* Instances of the accounts for TLC. *)
EXTENDS Accounts, TLC

MCCost == [k \in {"cheap", "dear"} |-> IF k = "cheap" THEN 1 ELSE 3]
Symmetric == Permutations(Emails) \cup Permutations(Sessions)
             \cup Permutations(Objects)
=============================================================================
