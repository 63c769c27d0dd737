----------------------------- MODULE TaskQueue -----------------------------
(***************************************************************************)
(* The delayed-task scheduler as its callers may picture it: one lock, and *)
(* every call a single step.  A task is queued once, under an id.  It      *)
(* leaves the queue once, and is handed to its callback if its id is still *)
(* live then; cancelling is nothing but forgetting an id, so a task that   *)
(* shares its id with another shares that one's fate.                      *)
(*                                                                         *)
(* Scheduler.tla, which opens the locked sections, is shown to implement   *)
(* this; and so is the timer inside GameLifecycle.tla, which takes them as *)
(* single steps.  What the second assumes of its timer is thus what the    *)
(* first provides, clashing ids included.                                  *)
(***************************************************************************)

CONSTANT Requests     \* the tasks: records with at least a field "id"

VARIABLES open,       \* tasks are accepted
          known,      \* every task ever queued
          queued,     \* tasks in the queue, the cancelled ones among them
          live,       \* ids that were queued and neither popped nor cancelled
          held        \* the task whose callback is under way, if any

qvars == <<open, known, queued, live, held>>

QInit == /\ open = TRUE
         /\ known = {}
         /\ queued = {}
         /\ live = {}
         /\ held = {}

\* Some thread queues a task that was never queued before.
Add(t) == /\ open
          /\ t \notin known
          /\ known' = known \cup {t}
          /\ queued' = queued \cup {t}
          /\ live' = live \cup {t.id}
          /\ UNCHANGED <<open, held>>

\* Some thread cancels an id.  One that is not live is no step.
Cancel(i) == /\ live' = live \ {i}
             /\ UNCHANGED <<open, known, queued, held>>

\* The worker, which is at no other task, takes one whose id is live ...
Take(t) == /\ held = {}
           /\ t.id \in live
           /\ queued' = queued \ {t}
           /\ live' = live \ {t.id}
           /\ held' = {t}
           /\ UNCHANGED <<open, known>>

\* ... or throws away one whose id is not ...
ThrowAway(t) == /\ held = {}
                /\ t.id \notin live
                /\ queued' = queued \ {t}
                /\ UNCHANGED <<open, known, live, held>>

\* ... and comes back from its callback.
Return == /\ held' = {}
          /\ UNCHANGED <<open, known, queued, live>>

\* The queue is shut, and emptied then or later.
Shut == /\ open' = FALSE
        /\ <<queued', live'>> \in {<<queued, live>>, <<{}, {}>>}
        /\ UNCHANGED <<known, held>>

QNext == \/ \E t \in Requests : Add(t)
         \/ \E i \in live : Cancel(i)
         \/ \E t \in queued : Take(t) \/ ThrowAway(t)
         \/ Return
         \/ Shut

QSpec == QInit /\ [][QNext]_qvars

=============================================================================
