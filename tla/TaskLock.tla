------------------------------ MODULE TaskLock ------------------------------
(***************************************************************************)
(* What the cooperative task mutex promises its users: one holder at a     *)
(* time, and a task that asked for the lock is either still asking or has  *)
(* become the holder.  Nothing is said of the order in which tasks that    *)
(* ask are served: a task that finds the lock free takes it at once, even  *)
(* if others asked before it.                                              *)
(***************************************************************************)
CONSTANTS Tasks,   \* the tasks of one task system
          NoTask   \* "no task", not a member of Tasks

VARIABLES holder,  \* the task inside the critical section, or NoTask
          asking   \* the tasks blocked in a call of lock

lockVars == <<holder, asking>>

LockInit == holder = NoTask /\ asking = {}

(* A call of lock that finds the mutex taken. *)
Ask(t) ==
    /\ holder # NoTask
    /\ t \notin asking \cup {holder}
    /\ asking' = asking \cup {t}
    /\ UNCHANGED holder

(* Taking the lock, either at once or after having asked. *)
Acquire(t) ==
    /\ holder = NoTask
    /\ holder' = t
    /\ asking' = asking \ {t}

Release(t) ==
    /\ holder = t
    /\ holder' = NoTask
    /\ UNCHANGED asking

LockNext == \E t \in Tasks : Ask(t) \/ Acquire(t) \/ Release(t)

LockSpec == LockInit /\ [][LockNext]_lockVars
=============================================================================
