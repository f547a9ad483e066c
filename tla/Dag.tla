--------------------------------- MODULE Dag ---------------------------------
(***************************************************************************)
(* A workflow's graph of tasks (app/engine/dag.py): a record with the      *)
(* fields nodes and edges, an edge being a pair of tasks.                  *)
(***************************************************************************)
EXTENDS Naturals, FiniteSets

Predecessors(dag, t) == {p \in dag.nodes : <<p, t>> \in dag.edges}

Roots(dag) == {t \in dag.nodes : Predecessors(dag, t) = {}}

\* networkx: every task of some set has a predecessor in that set.
HasCycle(dag) ==
  \E S \in SUBSET dag.nodes \ {{}} : \A t \in S : Predecessors(dag, t) \cap S # {}

\* _parse and _validate raise on any other graph.
IsValid(dag) ==
  /\ dag.edges \subseteq dag.nodes \X dag.nodes
  /\ ~HasCycle(dag)
  /\ Roots(dag) # {}

\* What the definitions named ...Variant are for is said in the README.
ReadyTasksVariant(dag, completed, skipped) ==
  {t \in dag.nodes \ (completed \cup skipped) :
     /\ Predecessors(dag, t) \cap skipped = {}
     /\ Predecessors(dag, t) # {} => Predecessors(dag, t) \cap completed # {}}

\* get_ready_tasks; its only caller passes no running task.
ReadyTasks(dag, completed, skipped) ==
  {t \in dag.nodes \ (completed \cup skipped) :
     /\ Predecessors(dag, t) \cap skipped = {}
     /\ Predecessors(dag, t) \subseteq completed}

\* get_execution_order: generation k holds the tasks whose predecessors all lie
\* in earlier ones (networkx.topological_generations).
UpToGeneration(dag) ==
  LET upTo[k \in 0 .. Cardinality(dag.nodes)] ==
        IF k = 0 THEN {} ELSE {t \in dag.nodes : Predecessors(dag, t) \subseteq upTo[k - 1]}
  IN upTo

Generation(dag, k) == UpToGeneration(dag)[k] \ UpToGeneration(dag)[k - 1]
=============================================================================
