---------------------------- MODULE MC_TaskQueue ----------------------------
(* Model-checking instance of TaskQueue: two request ids, two tasks on the *)
(* first (so one can be added while the other runs) and one on the second. *)
EXTENDS TaskQueue

CONSTANTS k1, k2, t1, t2, t3

MCKeys == {k1, k2}
MCTasks == {t1, t2, t3}
MCKeyOf == [t \in MCTasks |-> IF t = t3 THEN k2 ELSE k1]

\* A single request id with three tasks: a task can be persisted while its
\* queue is cleaned up, and a later one can then recreate the queue.
MCKeys1 == {k1}
MCKeyOf1 == [t \in MCTasks |-> k1]

\* One task per request id: isolates crash behaviour from same-key races.
MCTasks1 == {t1, t3}
MCKeyOfSplit == [t \in MCTasks1 |-> IF t = t3 THEN k2 ELSE k1]
=============================================================================
