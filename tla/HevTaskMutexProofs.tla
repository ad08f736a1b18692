------------------------- MODULE HevTaskMutexProofs -------------------------
(***************************************************************************)
(* Proofs about the cooperative task mutex, for any set of tasks and any   *)
(* number of calls.  The inductive invariant is the conjunction of the     *)
(* four invariants that are also model-checked: mutual exclusion needs     *)
(* only the locker flag, while "no lost wake-up" needs the shape of the    *)
(* waiter stack, because unlock wakes the task that the top node names.    *)
(***************************************************************************)
EXTENDS HevTaskMutex, TLAPS

MutexInv == TypeOK /\ MutualExclusion /\ NoDanglingNode /\ NoLostWakeup

LEMMA InitEstablishes == Init => MutexInv
  BY TasksAssumption, MaxCallsAssumption
     DEF Init, MutexInv, TypeOK, MutualExclusion, NoDanglingNode,
         NoLostWakeup, Node, Waiting, Inside

(* The type part of a step, for every action.                                *)
LEMMA TypePreserved == TypeOK /\ [Next]_vars => TypeOK'
<1> SUFFICES ASSUME TypeOK, [Next]_vars PROVE TypeOK'
  OBVIOUS
<1> USE MaxCallsAssumption DEF TypeOK, Node
<1>1. ASSUME NEW t \in Tasks, LockFree(t) PROVE TypeOK'
  BY <1>1 DEF LockFree, Asks
<1>2. ASSUME NEW t \in Tasks, LockTaken(t) PROVE TypeOK'
  BY <1>2 DEF LockTaken, Asks
<1>3. ASSUME NEW t \in Tasks, YieldAgain(t) PROVE TypeOK'
  BY <1>3 DEF YieldAgain
<1>4. ASSUME NEW t \in Tasks, LockResumed(t) PROVE TypeOK'
  BY <1>4 DEF LockResumed
<1>5. ASSUME NEW t \in Tasks, Unlock(t) PROVE TypeOK'
  BY <1>5 DEF Unlock
<1>6. ASSUME NEW t \in Tasks, StrayWakeup(t) PROVE TypeOK'
  BY <1>6 DEF StrayWakeup
<1>7. CASE UNCHANGED vars
  BY <1>7 DEF vars
<1>8. QED
  BY <1>1, <1>2, <1>3, <1>4, <1>5, <1>6, <1>7
     DEF Next, TaskStep, Finished

LEMMA StepPreserves == MutexInv /\ [Next]_vars => MutexInv'
<1> SUFFICES ASSUME MutexInv, [Next]_vars
             PROVE  (MutualExclusion /\ NoDanglingNode /\ NoLostWakeup)'
  BY TypePreserved DEF MutexInv
<1> DEFINE Goal == (MutualExclusion /\ NoDanglingNode /\ NoLostWakeup)'
<1> USE TasksAssumption
    DEF MutexInv, TypeOK, MutualExclusion, NoDanglingNode, NoLostWakeup,
        Waiting, Inside, Node
<1>1. ASSUME NEW t \in Tasks, LockFree(t) PROVE Goal
  BY <1>1 DEF LockFree, Asks
<1>2. ASSUME NEW t \in Tasks, LockTaken(t) PROVE Goal
  <2>1. MutualExclusion'
    BY <1>2 DEF LockTaken, Asks
  <2>2. NoDanglingNode'
    BY <1>2 DEF LockTaken, Asks
  <2>3. NoLostWakeup'
    BY <1>2 DEF LockTaken, Asks
  <2> QED BY <2>1, <2>2, <2>3
<1>3. ASSUME NEW t \in Tasks, YieldAgain(t) PROVE Goal
  BY <1>3 DEF YieldAgain, MustWait
<1>4. ASSUME NEW t \in Tasks, LockResumed(t) PROVE Goal
  <2>1. MutualExclusion'
    BY <1>4 DEF LockResumed, MustWait
  <2>2. NoDanglingNode'
    BY <1>4 DEF LockResumed, MustWait
  <2>3. NoLostWakeup'
    BY <1>4 DEF LockResumed, MustWait
  <2> QED BY <2>1, <2>2, <2>3
<1>5. ASSUME NEW t \in Tasks, Unlock(t) PROVE Goal
  <2>1. MutualExclusion'
    BY <1>5 DEF Unlock
  <2>2. NoDanglingNode'
    BY <1>5 DEF Unlock
  <2>3. NoLostWakeup'
    BY <1>5 DEF Unlock
  <2> QED BY <2>1, <2>2, <2>3
<1>6. ASSUME NEW t \in Tasks, StrayWakeup(t) PROVE Goal
  BY <1>6 DEF StrayWakeup
<1>7. CASE UNCHANGED vars
  BY <1>7 DEF vars
<1>8. QED
  BY <1>1, <1>2, <1>3, <1>4, <1>5, <1>6, <1>7 DEF Next, TaskStep, Finished

LEMMA MutexInvariant == Spec => []MutexInv
  BY InitEstablishes, StepPreserves, PTL DEF Spec

(* Every variable keeps to its type. *)
THEOREM TypeCorrectness == Spec => []TypeOK
  BY MutexInvariant, PTL DEF MutexInv

(* At most one task is between hev_task_mutex_lock and _unlock.              *)
THEOREM MutexExcludes == Spec => []MutualExclusion
  BY MutexInvariant, PTL DEF MutexInv

(* The waiter stack never names the stack frame of a task that left lock.    *)
THEOREM StackIsLive == Spec => []NoDanglingNode
  BY MutexInvariant, PTL DEF MutexInv

(* A free mutex never leaves its top waiter asleep.                          *)
THEOREM WakeupIsNeverLost == Spec => []NoLostWakeup
  BY MutexInvariant, PTL DEF MutexInv

-----------------------------------------------------------------------------
(* Refinement: every step of the mutex is a step of the abstract lock or     *)
(* leaves its two variables alone.                                           *)
Holder == IF Inside = {} THEN NoTask ELSE CHOOSE t \in Inside : TRUE

LEMMA HolderIsInside ==
  ASSUME TypeOK, MutualExclusion, NEW t \in Tasks, pc[t] = "inside"
  PROVE  Holder = t
<1>1. t \in Inside /\ \A s \in Inside : s = t
  BY DEF Inside, MutualExclusion
<1>2. (CHOOSE s \in Inside : TRUE) \in Inside
  BY <1>1
<1> QED BY <1>1, <1>2 DEF Holder

LEMMA StepImplements ==
  MutexInv /\ MutexInv' /\ [Next]_vars => [Lock!LockNext]_(Lock!lockVars)
<1> SUFFICES ASSUME MutexInv, MutexInv', [Next]_vars
             PROVE  [Lock!LockNext]_(Lock!lockVars)
  OBVIOUS
<1> DEFINE Goal == [Lock!LockNext]_(Lock!lockVars)
<1>0. ASSUME Waiting' = Waiting, Holder' = Holder PROVE Goal
  BY <1>0 DEF Lock!lockVars, Holder
<1>1. ASSUME NEW t \in Tasks, LockFree(t) PROVE Goal
  <2>1. Holder = NoTask
    BY <1>1 DEF LockFree, MutexInv, MutualExclusion, Holder
  <2>2. Holder' = t
    <3>1. pc'[t] = "inside"
      BY <1>1 DEF LockFree, MutexInv, TypeOK
    <3>2. Inside' = {t}
      BY <1>1, <3>1 DEF LockFree, MutexInv, MutualExclusion, TypeOK, Inside
    <3> QED BY <3>2 DEF Holder
  <2>3. Waiting' = Waiting \ {t}
    BY <1>1 DEF LockFree, Asks, MutexInv, TypeOK, Waiting
  <2> QED BY <2>1, <2>2, <2>3 DEF Lock!LockNext, Lock!Acquire, Holder
<1>2. ASSUME NEW t \in Tasks, LockTaken(t) PROVE Goal
  <2>1. Inside' = Inside /\ Inside # {} /\ t \notin Inside
    BY <1>2 DEF LockTaken, Asks, MutexInv, MutualExclusion, TypeOK, Inside
  <2>2. Holder' = Holder /\ Holder # t /\ Holder # NoTask
    <3>1. Holder' = Holder
      BY <2>1 DEF Holder
    <3>2. Holder \in Inside
      BY <2>1 DEF Holder
    <3>3. NoTask \notin Inside
      BY TasksAssumption DEF Inside
    <3> QED BY <2>1, <3>1, <3>2, <3>3
  <2>3. Waiting' = Waiting \cup {t} /\ t \notin Waiting
    BY <1>2 DEF LockTaken, Asks, MutexInv, TypeOK, Waiting
  <2> QED BY <2>2, <2>3 DEF Lock!LockNext, Lock!Ask, Holder
<1>3. ASSUME NEW t \in Tasks, YieldAgain(t) PROVE Goal
  BY <1>0, <1>3 DEF YieldAgain, Waiting, Holder, Inside
<1>4. ASSUME NEW t \in Tasks, LockResumed(t) PROVE Goal
  <2>1. Holder = NoTask
    BY <1>4 DEF LockResumed, MustWait, MutexInv, MutualExclusion, TypeOK, Holder
  <2>2. Inside' = {t}
    BY <1>4 DEF LockResumed, MustWait, MutexInv, MutualExclusion, TypeOK, Inside
  <2>3. Holder' = t
    BY <2>2 DEF Holder
  <2>4. Waiting' = Waiting \ {t}
    BY <1>4 DEF LockResumed, MutexInv, TypeOK, Waiting
  <2> QED BY <2>1, <2>3, <2>4 DEF Lock!LockNext, Lock!Acquire, Holder
<1>5. ASSUME NEW t \in Tasks, Unlock(t) PROVE Goal
  <2>1. Holder = t
    BY <1>5, HolderIsInside DEF Unlock, MutexInv
  <2>2. Inside' = {}
    BY <1>5 DEF Unlock, MutexInv, MutualExclusion, TypeOK, Inside
  <2>3. Waiting' = Waiting
    BY <1>5 DEF Unlock, MutexInv, TypeOK, Waiting
  <2> QED BY <2>1, <2>2, <2>3 DEF Lock!LockNext, Lock!Release, Holder
<1>6. ASSUME NEW t \in Tasks, StrayWakeup(t) PROVE Goal
  BY <1>0, <1>6 DEF StrayWakeup, Waiting, Holder, Inside
<1>7. CASE UNCHANGED vars
  BY <1>0, <1>7 DEF vars, Waiting, Holder, Inside
<1>8. QED
  BY <1>1, <1>2, <1>3, <1>4, <1>5, <1>6, <1>7 DEF Next, TaskStep, Finished

(* The mutex of hev-task-mutex.c is a lock: the abstract TaskLock allows     *)
(* every one of its behaviours.                                              *)
THEOREM MutexImplementsLock == Spec => ImplementsLock
<1>1. Init => Lock!LockInit
  BY DEF Init, Lock!LockInit, Inside, Waiting
<1>2. QED
  BY <1>1, MutexInvariant, StepImplements, PTL
     DEF Spec, ImplementsLock, Lock!LockSpec
=============================================================================
