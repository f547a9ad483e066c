-------------------------- MODULE MCWorkflowExecutor --------------------------
(***************************************************************************)
(* WorkflowExecutor over every graph of three tasks (up to the order of    *)
(* their names) and a few of four that have a condition task.              *)
(***************************************************************************)
EXTENDS WorkflowExecutor

MCTasks == 1 .. 4
MCNoTask == 0

Plain(n, edges, retries) ==
  [nodes |-> 1 .. n, edges |-> edges,
   onTrue |-> [t \in 1 .. n |-> NoTask], onFalse |-> [t \in 1 .. n |-> NoTask],
   attempts |-> [t \in 1 .. n |-> IF t = retries THEN 2 ELSE 1]]

\* Task 1 is a condition that chooses between yes and no.
Choice(n, edges, yes, no) ==
  [Plain(n, edges, 0) EXCEPT !.onTrue[1] = yes, !.onFalse[1] = no]

Forward == {<<1, 2>>, <<1, 3>>, <<2, 3>>}

MCDefinitions ==
  {Plain(3, edges, t) : edges \in SUBSET Forward, t \in {1, 3}}
  \cup
  {Choice(4, {<<1, 2>>, <<1, 3>>}, 2, 3),                       \* beside an unrelated task
   Choice(4, {<<1, 2>>, <<1, 3>>, <<2, 4>>}, 2, 3),             \* a task behind one branch
   Choice(4, {<<1, 2>>, <<1, 3>>, <<2, 4>>, <<3, 4>>}, 2, 3),   \* a join behind both
   Choice(3, {<<1, 2>>}, 2, 3),                                 \* a branch to a task beside it
   Choice(2, {<<1, 2>>}, 2, 3)}                                 \* a branch to no task
=============================================================================
