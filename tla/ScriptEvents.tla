---------------------------- MODULE ScriptEvents ----------------------------
(***************************************************************************)
(* What AddEvent and StopEvent promise a game's scripts, with no thread,   *)
(* queue or id in sight.  An event is asked for once, and then one of      *)
(* three things happens to it: its script is called, once; or it is        *)
(* withdrawn, and never called; or it is lost, which happens only to a     *)
(* game that was stopped or when the application exits.                    *)
(* GameLifecycle.tla is shown to implement this while no two events share  *)
(* an id.                                                                  *)
(***************************************************************************)

CONSTANT Events

VARIABLES up,         \* the game runs, and so does its scheduler
          waiting,    \* asked for, and nothing has happened to them yet
          called,     \* their script was called
          withdrawn,  \* StopEvent or Stop came first
          lost        \* the game or the scheduler ended first

evars == <<up, waiting, called, withdrawn, lost>>

EInit == /\ up = FALSE
         /\ waiting = {}
         /\ called = {}
         /\ withdrawn = {}
         /\ lost = {}

Asked == waiting \cup called \cup withdrawn \cup lost

\* A script asks for an event; a stopped game's last script may still do so.
Ask(e) == /\ e \notin Asked
          /\ waiting' = waiting \cup {e}
          /\ UNCHANGED <<up, called, withdrawn, lost>>

Call(e) == /\ waiting' = waiting \ {e}
           /\ called' = called \cup {e}
           /\ UNCHANGED <<up, withdrawn, lost>>

Withdraw(e) == /\ waiting' = waiting \ {e}
               /\ withdrawn' = withdrawn \cup {e}
               /\ UNCHANGED <<up, called, lost>>

\* The game starts or stops, and keeps what is waiting.
StartOrStop == /\ up' \in BOOLEAN
               /\ UNCHANGED <<waiting, called, withdrawn, lost>>

\* Some of what is waiting goes, and the game does not run any more.
Lose(S) == /\ ~up'
           /\ waiting' = waiting \ S
           /\ lost' = lost \cup S
           /\ UNCHANGED <<called, withdrawn>>

ENext == \/ \E e \in Events : Ask(e)
         \/ \E e \in waiting : Call(e) \/ Withdraw(e)
         \/ StartOrStop
         \/ \E S \in SUBSET waiting : Lose(S)

ESpec == EInit /\ [][ENext]_evars

=============================================================================
