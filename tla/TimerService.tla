---------------------------- MODULE TimerService ----------------------------
(***************************************************************************)
(* What a one-shot timer service promises its callers, with no queue, no   *)
(* thread and no id in sight: a task is scheduled once, and from then on   *)
(* exactly one of three things happens to it.  It runs, at or after its    *)
(* due time; or its caller cancels it, and then it never runs; or the      *)
(* service closes and drops it.  Scheduler.tla is shown to implement this. *)
(***************************************************************************)
EXTENDS Naturals

CONSTANT Tasks        \* records with at least a field "due"

VARIABLES clock,      \* the time
          open,       \* the service accepts and keeps tasks
          pending,    \* scheduled, and nothing has happened to them yet
          ran,        \* their callback was started
          cancelled,  \* withdrawn by their caller before they ran
          dropped     \* still pending when the service closed

tvars == <<clock, open, pending, ran, cancelled, dropped>>

TInit == /\ clock = 0
         /\ open = TRUE
         /\ pending = {}
         /\ ran = {}
         /\ cancelled = {}
         /\ dropped = {}

Known == pending \cup ran \cup cancelled \cup dropped

TTick == /\ clock' = clock + 1
         /\ UNCHANGED <<open, pending, ran, cancelled, dropped>>

\* A caller schedules a task that nobody has scheduled before.
Schedule(t) == /\ open
               /\ t \notin Known
               /\ t.due >= clock
               /\ pending' = pending \cup {t}
               /\ UNCHANGED <<clock, open, ran, cancelled, dropped>>

\* A pending task is started, never before it is due.
Run(t) == /\ t \in pending
          /\ t.due <= clock
          /\ pending' = pending \ {t}
          /\ ran' = ran \cup {t}
          /\ UNCHANGED <<clock, open, cancelled, dropped>>

\* A caller withdraws a pending task.
Cancel(t) == /\ t \in pending
             /\ pending' = pending \ {t}
             /\ cancelled' = cancelled \cup {t}
             /\ UNCHANGED <<clock, open, ran, dropped>>

\* The service closes; what is still pending when it does is dropped.
Close == /\ open
         /\ open' = FALSE
         /\ UNCHANGED <<clock, pending, ran, cancelled, dropped>>

Drop == /\ ~open
        /\ pending # {}
        /\ pending' = {}
        /\ dropped' = dropped \cup pending
        /\ UNCHANGED <<clock, open, ran, cancelled>>

TNext == \/ TTick
         \/ \E t \in Tasks : Schedule(t) \/ Run(t) \/ Cancel(t)
         \/ Close
         \/ Drop

TSpec == TInit /\ [][TNext]_tvars

=============================================================================
