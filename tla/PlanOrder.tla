------------------------------ MODULE PlanOrder ------------------------------
(***************************************************************************)
(* The order of a fix plan's operations (cli/plan/topo_sort.rs) and the      *)
(* check for circular dependencies (cli/plan/apply.rs).  The sort starts      *)
(* from a HashMap, so operations that are ready together come in any order.  *)
(***************************************************************************)
EXTENDS Integers, FiniteSets, Sequences, Functions

CONSTANTS
  Ops,        \* ids of the operations
  Unknown     \* an id that depends_on may name and no operation has

ASSUME OrderAssumption == IsFiniteSet(Ops) /\ Unknown \notin Ops

VARIABLES
  deps,       \* operation -> depends_on
  degree,     \* operation -> in_degree
  queue, sorted,
  phase       \* "count", "sort"; later phases belong to the executor

orderVars == <<deps, degree, queue, sorted>>

OrderTypeOK ==
  /\ deps \in [Ops -> SUBSET (Ops \cup {Unknown})]
  /\ degree \in [Ops -> 0 .. Cardinality(Ops) + 1]
  /\ queue \in Seq(Ops) /\ sorted \in Seq(Ops)

OrderInit ==
  /\ deps \in [Ops -> SUBSET (Ops \cup {Unknown})]
  /\ degree = [o \in Ops |-> Cardinality(deps[o])]
  /\ queue = <<>> /\ sorted = <<>>
  /\ phase = "count"

(* The orders in which a HashMap, or the plan, may name a set of operations. *)
Orders(S) == Bijection(1 .. Cardinality(S), S)

(* The operations without dependencies, in the order of the HashMap. *)
StartSort ==
  /\ phase = "count"
  /\ queue' \in Orders({o \in Ops : degree[o] = 0})
  /\ phase' = "sort"
  /\ UNCHANGED <<deps, degree, sorted>>

\* Mutant: an operation is ready once one dependency is left.
PopEarly ==
  LET node == Head(queue)
      ready == {o \in Ops : node \in deps[o] /\ degree[o] \in {1, 2}}
  IN /\ phase = "sort" /\ queue # <<>>
     /\ sorted' = Append(sorted, node)
     /\ degree' = [o \in Ops |-> IF o \in ready THEN 0 ELSE degree[o]]
     /\ \E s \in Orders(ready) : queue' = Tail(queue) \o s
     /\ UNCHANGED <<deps, phase>>

(* One round of the loop: the operations whose last dependency this was follow. *)
Pop ==
  LET node == Head(queue)
      next == [o \in Ops |-> IF node \in deps[o] THEN degree[o] - 1 ELSE degree[o]]
  IN /\ phase = "sort" /\ queue # <<>>
     /\ sorted' = Append(sorted, node)
     /\ degree' = next
     /\ \E s \in Orders({o \in Ops : node \in deps[o] /\ next[o] = 0}) :
          queue' = Tail(queue) \o s
     /\ UNCHANGED <<deps, phase>>

-----------------------------------------------------------------------------
(* has_circular_dependencies: Kahn's algorithm over the edges between          *)
(* operations of the plan; some operation is never visited.                  *)
HasCircular ==
  LET visited[n \in Nat] ==
        IF n = 0 THEN {}
        ELSE {o \in Ops : deps[o] \cap Ops \subseteq visited[n - 1]}
  IN visited[Cardinality(Ops)] # Ops

(* An operation comes after everything it depends on (topological_sort). *)
SortRespectsDeps ==
  \A i \in 1 .. Len(sorted) :
    \A d \in deps[sorted[i]] : \E j \in 1 .. i - 1 : sorted[j] = d

\* What can run at all: the least set closed under "its dependencies are in it".
Runnable ==
  {o \in Ops : \A S \in SUBSET Ops :
     (\A p \in Ops : deps[p] \subseteq S => p \in S) => o \in S}

(* topological_sort returns each operation that can run exactly once; one that   *)
(* depends on a cycle or on an unknown id is left out without an error.          *)
SortIsComplete ==
  phase = "run" => Range(sorted) = Runnable /\ Len(sorted) = Cardinality(Runnable)

(* has_circular_dependencies answers whether the dependencies between the          *)
(* operations of the plan have a cycle, unknown ids or not.                      *)
CircularIsExact ==
  HasCircular <=> \E S \in SUBSET Ops : S # {} /\ \A o \in S : deps[o] \cap S # {}

(* topological_sort and has_circular_dependencies against their definitions.     *)
SortIsRight == SortRespectsDeps /\ SortIsComplete /\ CircularIsExact

=============================================================================
