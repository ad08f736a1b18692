---------------------------- MODULE HevTaskMutex ----------------------------
(***************************************************************************)
(* The mutex of the cooperative task system that runs inside the tunnel's  *)
(* worker thread (hev-task-mutex.c), with the two scheduler operations it  *)
(* rests on: a yield that waits for a wake-up, and hev_task_wakeup, which  *)
(* any part of the program may call on any task (hev-task-system-          *)
(* schedule.c, hev-task.c).                                                *)
(*                                                                         *)
(* A task runs undisturbed from the moment it is resumed to its next       *)
(* yield, so every action below is one such stretch.  The waiters are the  *)
(* code's linked stack: "waiters" is the pointer to the top node,          *)
(* "nextNode[t]" the next pointer of the node that lives on t's stack      *)
(* while t is inside hev_task_mutex_lock.                                  *)
(***************************************************************************)
EXTENDS Naturals

CONSTANTS Tasks,     \* the tasks that share the mutex
          NoTask,    \* the null pointer
          MaxCalls   \* bound: how often one task asks for the lock

ASSUME TasksAssumption == NoTask \notin Tasks
ASSUME MaxCallsAssumption == MaxCalls \in Nat

VARIABLES locker,    \* self->locker
          waiters,   \* self->waiters: top of the stack of waiting nodes
          nextNode,  \* node.next of each task's own node
          pc,        \* where each task is: outside, waiting in lock, inside
          running,   \* the tasks whose state is HEV_TASK_RUNNING
          calls      \* how often each task has asked (bounded by MaxCalls)

vars == <<locker, waiters, nextNode, pc, running, calls>>

Node == Tasks \cup {NoTask}

Init ==
    /\ locker = 0
    /\ waiters = NoTask
    /\ nextNode = [t \in Tasks |-> NoTask]
    /\ pc = [t \in Tasks |-> "outside"]
    /\ running = Tasks
    /\ calls = [t \in Tasks |-> 0]

Asks(t) ==
    /\ pc[t] = "outside"
    /\ calls[t] < MaxCalls
    /\ calls' = [calls EXCEPT ![t] = @ + 1]

(* Mutation of LockFree: the locker flag is not tested. *)
LockWithoutTest(t) ==
    /\ Asks(t)
    /\ locker' = 1
    /\ pc' = [pc EXCEPT ![t] = "inside"]
    /\ UNCHANGED <<waiters, nextNode, running>>

(* hev_task_mutex_lock on a free mutex; a successful trylock does the same.  *)
(* Waiting tasks are not looked at: a newcomer overtakes them.               *)
LockFree(t) ==
    /\ Asks(t)
    /\ locker = 0
    /\ locker' = 1
    /\ pc' = [pc EXCEPT ![t] = "inside"]
    /\ UNCHANGED <<waiters, nextNode, running>>

(* hev_task_mutex_lock on a taken mutex: push the node and yield. *)
LockTaken(t) ==
    /\ Asks(t)
    /\ locker = 1
    /\ nextNode' = [nextNode EXCEPT ![t] = waiters]
    /\ waiters' = t
    /\ pc' = [pc EXCEPT ![t] = "waiting"]
    /\ running' = running \ {t}
    /\ UNCHANGED locker

(* The loop condition of lock, read by a task that has been resumed. *)
MustWait(t) == locker = 1 \/ waiters # t

(* A resumed waiter that still has to wait yields again. *)
YieldAgain(t) ==
    /\ pc[t] = "waiting"
    /\ t \in running
    /\ MustWait(t)
    /\ running' = running \ {t}
    /\ UNCHANGED <<locker, waiters, nextNode, pc, calls>>

(* Mutation of LockResumed: the stack is emptied, not popped. *)
LockResumedClears(t) ==
    /\ pc[t] = "waiting"
    /\ t \in running
    /\ ~MustWait(t)
    /\ waiters' = NoTask
    /\ locker' = 1
    /\ pc' = [pc EXCEPT ![t] = "inside"]
    /\ UNCHANGED <<nextNode, running, calls>>

(* A resumed waiter on top of the stack of a free mutex pops itself. *)
LockResumed(t) ==
    /\ pc[t] = "waiting"
    /\ t \in running
    /\ ~MustWait(t)
    /\ waiters' = nextNode[t]
    /\ locker' = 1
    /\ pc' = [pc EXCEPT ![t] = "inside"]
    /\ UNCHANGED <<nextNode, running, calls>>

(* Mutation of Unlock: nobody is woken. *)
UnlockSilently(t) ==
    /\ pc[t] = "inside"
    /\ locker' = 0
    /\ pc' = [pc EXCEPT ![t] = "outside"]
    /\ UNCHANGED <<waiters, nextNode, running, calls>>

(* hev_task_mutex_unlock: free the mutex and wake the top waiter only. *)
Unlock(t) ==
    /\ pc[t] = "inside"
    /\ locker' = 0
    /\ pc' = [pc EXCEPT ![t] = "outside"]
    /\ running' = IF waiters = NoTask THEN running ELSE running \cup {waiters}
    /\ UNCHANGED <<waiters, nextNode, calls>>

(* hev_task_wakeup for a reason of its own (I/O readiness, a session being   *)
(* terminated, a join): it resumes a waiter that nothing has been unlocked   *)
(* for.                                                                      *)
StrayWakeup(t) ==
    /\ pc[t] = "waiting"
    /\ t \notin running
    /\ running' = running \cup {t}
    /\ UNCHANGED <<locker, waiters, nextNode, pc, calls>>

(* Every task is outside and has used up its calls. *)
Finished ==
    /\ \A t \in Tasks : pc[t] = "outside" /\ calls[t] = MaxCalls
    /\ UNCHANGED vars

TaskStep(t) ==
    \/ LockFree(t)
    \/ LockTaken(t)
    \/ YieldAgain(t)
    \/ LockResumed(t)
    \/ Unlock(t)

Next == (\E t \in Tasks : TaskStep(t) \/ StrayWakeup(t)) \/ Finished

(* The scheduler resumes every runnable task (its key grows with the time    *)
(* the others run), and a holder leaves its critical section: between lock   *)
(* and unlock the tunnel makes only lwIP calls that return.  Asking for the  *)
(* lock and stray wake-ups are left to chance.                               *)
Fairness ==
    \A t \in Tasks : /\ WF_vars(YieldAgain(t) \/ LockResumed(t))
                     /\ WF_vars(Unlock(t))

Spec == Init /\ [][Next]_vars
FairSpec == Spec /\ Fairness

-----------------------------------------------------------------------------
Waiting == {t \in Tasks : pc[t] = "waiting"}
Inside == {t \in Tasks : pc[t] = "inside"}

TypeOK ==
    /\ locker \in {0, 1}
    /\ waiters \in Node
    /\ nextNode \in [Tasks -> Node]
    /\ pc \in [Tasks -> {"outside", "waiting", "inside"}]
    /\ running \in SUBSET Tasks
    /\ calls \in [Tasks -> 0..MaxCalls]

(* At most one task is between lock and unlock, and the locker flag says     *)
(* exactly whether there is one, whatever the order of locks, unlocks, stray *)
(* wake-ups and overtaking newcomers.                                        *)
MutualExclusion ==
    /\ \A s, t \in Inside : s = t
    /\ locker = 1 <=> Inside # {}

(* The stack is made of the waiting tasks' nodes only, all different: its    *)
(* top and every next pointer is a live node on the stack of a task still in *)
(* lock, nobody is below two nodes, and the top is below none.  (The nodes   *)
(* are C stack frames: a pointer to the node of a task that has left lock    *)
(* dangles.)                                                                 *)
NoDanglingNode ==
    /\ waiters \in Waiting \cup {NoTask}
    /\ \A t \in Waiting : /\ nextNode[t] \in (Waiting \cup {NoTask}) \ {t}
                          /\ nextNode[t] # NoTask => nextNode[t] # waiters
    /\ \A s, t \in Waiting :
          s # t /\ nextNode[s] # NoTask => nextNode[s] # nextNode[t]

(* No lost wake-up: a free mutex with somebody on the stack has its top      *)
(* waiter runnable, although stray wake-ups put waiters back to sleep.       *)
NoLostWakeup ==
    locker = 0 /\ waiters # NoTask => waiters \in running

(* Every task blocked in lock gets in, once nobody new keeps overtaking it   *)
(* (each task asks at most MaxCalls times): no node is ever left on the      *)
(* stack with nobody to wake it.                                             *)
EveryWaiterGetsIn ==
    \A t \in Tasks : pc[t] = "waiting" ~> pc[t] = "inside"

-----------------------------------------------------------------------------
(* The mutex implements the abstract lock. *)
Lock == INSTANCE TaskLock WITH
    holder <- IF Inside = {} THEN NoTask ELSE CHOOSE t \in Inside : TRUE,
    asking <- Waiting

ImplementsLock == Lock!LockSpec
=============================================================================
