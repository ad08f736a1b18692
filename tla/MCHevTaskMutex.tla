--------------------------- MODULE MCHevTaskMutex ---------------------------
(* Three tasks: the lwIP I/O task, the lwIP timer task and one session.      *)
EXTENDS HevTaskMutex

CONSTANTS io, timer, session

MCTasks == {io, timer, session}
=============================================================================
