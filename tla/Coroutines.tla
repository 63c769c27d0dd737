----------------------------- MODULE Coroutines -----------------------------
(***************************************************************************)
(* What the scripts of a game see of their runtime: no lua_State, no pool  *)
(* and no thread object.  A script is started once.  It runs as long as it *)
(* is on top of the stack of scripts that started one another; it goes to  *)
(* sleep and is resumed where it slept; and once it is over, by itself, by *)
(* an error or by a cancel, it never runs again.  LuaThreads.tla is shown  *)
(* to implement this, with whatever threads it runs the scripts on.        *)
(***************************************************************************)
EXTENDS Sequences, SequencesExt

CONSTANT Scripts      \* names of scripts, in the order of their start

VARIABLES known,      \* scripts that were started
          onStack,    \* the running ones, the last on top
          asleep      \* those that wait to be resumed

rvars == <<known, onStack, asleep>>

RInit == /\ known = {}
         /\ onStack = <<>>
         /\ asleep = {}

\* The game, or the script on top, starts a script.
StartScript(n) == /\ n \notin known
                  /\ known' = known \cup {n}
                  /\ onStack' = Append(onStack, n)
                  /\ UNCHANGED asleep

\* The script on top yields ...
GoToSleep == /\ onStack # <<>>
             /\ onStack' = Front(onStack)
             /\ asleep' = asleep \cup {Last(onStack)}
             /\ UNCHANGED known

\* ... or is over.
End == /\ onStack # <<>>
       /\ onStack' = Front(onStack)
       /\ UNCHANGED <<known, asleep>>

\* The game wakes a script, when no other one runs.
WakeUp(n) == /\ onStack = <<>>
             /\ onStack' = <<n>>
             /\ asleep' = asleep \ {n}
             /\ UNCHANGED known

\* Sleepers are dropped, when no script runs.
DropSleepers(S) == /\ onStack = <<>>
                   /\ asleep' = asleep \ S
                   /\ UNCHANGED <<known, onStack>>

RNext == \/ \E n \in Scripts : StartScript(n)
         \/ GoToSleep
         \/ End
         \/ \E n \in asleep : WakeUp(n)
         \/ \E S \in SUBSET asleep : DropSleepers(S)

RSpec == RInit /\ [][RNext]_rvars

=============================================================================
