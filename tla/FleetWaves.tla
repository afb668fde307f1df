------------------------------ MODULE FleetWaves ------------------------------
(***************************************************************************)
(* The migration waves of a fleet: plan_waves (fleet/wave.rs).  topo_waves      *)
(* counts for every image the dependencies that are in no wave yet, and takes   *)
(* the frontier, the images that have none left, as the next wave; find_cycles   *)
(* groups the images that are in no wave at the end.  The order within a wave    *)
(* is a sort by role and score and is left out: it says nothing about            *)
(* dependencies.                                                              *)
(***************************************************************************)
EXTENDS Integers, FiniteSets, Sequences

CONSTANT Images

ASSUME FleetAssumption == IsFiniteSet(Images)

VARIABLES
  needs,        \* image -> the other images its NFS mounts are served from
  listed,       \* image -> how often it is among the members
  inDegree,     \* below zero: the usize has wrapped around
  frontier, releasing, nextFrontier,
  waves,        \* sequence of sets of images
  groups,       \* what find_cycles has collected
  planner       \* "wave", "release", "cycles", "done", "panic"; "off": not started

fleetInput == <<needs, listed>>
fleetVars == <<fleetInput, inDegree, frontier, releasing, nextFrontier, waves, groups, planner>>

(* detect_storage_deps lists no dependency twice and none of an image on itself.  The     *)
(* members are the snapshots of the caller, in which an image may come more than once.    *)
FleetInit ==
  /\ needs \in [Images -> SUBSET Images] /\ \A i \in Images : i \notin needs[i]
  /\ listed \in [Images -> 1 .. 2]
  /\ inDegree = [i \in Images |-> Cardinality(needs[i])]
  /\ frontier = {i \in Images : needs[i] = {}}
  /\ releasing = {} /\ nextFrontier = {} /\ waves = <<>> /\ groups = {}
  /\ planner \in {"wave", "off"}

-----------------------------------------------------------------------------
(* A round of the loop: the frontier is a wave; without one the loop is over. *)
PlaceWave ==
  /\ planner = "wave"
  /\ IF frontier = {}
     THEN planner' = "cycles" /\ UNCHANGED <<waves, releasing>>
     ELSE planner' = "release" /\ waves' = Append(waves, frontier) /\ releasing' = frontier
  /\ UNCHANGED <<fleetInput, inDegree, frontier, nextFrontier, groups>>

Dependents(i) == {j \in Images : i \in needs[j]}

\* Mutant: an image joins the frontier with the first of its dependencies.
ReleaseEarly(i) ==
  /\ planner = "release" /\ i \in releasing
  /\ releasing' = releasing \ {i}
  /\ nextFrontier' = nextFrontier \cup {j \in Dependents(i) : inDegree[j] > 0}
  /\ inDegree' = [j \in Images |-> IF i \in needs[j] THEN inDegree[j] - listed[j] ELSE inDegree[j]]
  /\ UNCHANGED <<fleetInput, frontier, waves, groups, planner>>

(* The dependents of an image of the wave.  `dependents` holds one of them once for      *)
(* every time it is listed, and each time the degree is decremented; the image whose       *)
(* degree gets to zero on the way joins the next frontier.  A degree below zero is an       *)
(* overflow: a panic where overflow is checked, and otherwise a number that is not zero.    *)
Release(i) ==
  /\ planner = "release" /\ i \in releasing
  /\ releasing' = releasing \ {i}
  /\ nextFrontier' = nextFrontier \cup {j \in Dependents(i) : inDegree[j] \in 1 .. listed[j]}
  /\ inDegree' = [j \in Images |-> IF i \in needs[j] THEN inDegree[j] - listed[j] ELSE inDegree[j]]
  /\ \/ UNCHANGED planner
     \/ (\E j \in Dependents(i) : inDegree[j] < listed[j]) /\ planner' = "panic"
  /\ UNCHANGED <<fleetInput, frontier, waves, groups>>

EndWave ==
  /\ planner = "release" /\ releasing = {}
  /\ planner' = "wave"
  /\ frontier' = nextFrontier /\ nextFrontier' = {}
  /\ UNCHANGED <<fleetInput, inDegree, releasing, waves, groups>>

Placed == UNION {waves[n] : n \in 1 .. Len(waves)}
Stuck == Images \ Placed

(* find_cycles: the edges between images in no wave, in both directions, ... *)
Neighbours(i) == {j \in Stuck : j \in needs[i] \/ i \in needs[j]}

(* ... and what the search from i visits, of images not visited before. *)
Component(i, visited) ==
  LET reach[n \in Nat] ==
        IF n = 0 THEN {i}
        ELSE reach[n - 1] \cup (UNION {Neighbours(j) : j \in reach[n - 1]} \ visited)
  IN reach[Cardinality(Images)]

(* The search starts from the members one after the other, in any order. *)
FindGroup(i) ==
  /\ planner = "cycles" /\ i \in Stuck \ UNION groups
  /\ groups' = groups \cup {Component(i, UNION groups)}
  /\ UNCHANGED <<fleetInput, inDegree, frontier, releasing, nextFrontier, waves, planner>>

EndCycles ==
  /\ planner = "cycles" /\ Stuck \subseteq UNION groups
  /\ planner' = "done"
  /\ UNCHANGED <<fleetInput, inDegree, frontier, releasing, nextFrontier, waves, groups>>

FleetNext ==
  PlaceWave \/ EndWave \/ EndCycles \/ \E i \in Images : Release(i) \/ FindGroup(i)

-----------------------------------------------------------------------------
\* Each dependency of the image is counted once.
CountedOnce(i) == listed[i] = 1 \/ Cardinality(needs[i]) <= 1

\* The images of S that are on a cycle or depend on one, by what those are.
BehindCycle(S) ==
  {i \in S : \E C \in SUBSET S : i \in C /\ \A j \in C : needs[j] \cap C # {}}

(* No image is in two waves, and one whose dependencies are each counted once is in      *)
(* the first wave after the last of them (topo_waves).                                 *)
WavesFollowDeps ==
  /\ \A m, n \in 1 .. Len(waves) : m # n => waves[m] \cap waves[n] = {}
  /\ \A n \in 1 .. Len(waves) : \A i \in waves[n] : CountedOnce(i) =>
       /\ \A d \in needs[i] : \E m \in 1 .. n - 1 : d \in waves[m]
       /\ n > 1 => needs[i] \cap waves[n - 1] # {}

(* An image in no wave depends on a cycle, and the other way round if each dependency     *)
(* is counted once; the reported groups are a partition of these images and each holds     *)
(* a cycle, whatever order the members come in (find_cycles).                           *)
StuckAreReported ==
  planner = "done" =>
    /\ Stuck \subseteq BehindCycle(Images)
    /\ (\A i \in Images : CountedOnce(i)) => BehindCycle(Images) \subseteq Stuck
    /\ UNION groups = Stuck
    /\ \A g, h \in groups : g # h => g \cap h = {}
    /\ \A g \in groups : BehindCycle(g) # {}

(* Every image is in one wave, after all it needs, or in a reported group.  An image       *)
(* listed twice with several dependencies is excepted: it may come before some of them.     *)
WavesAreRight == WavesFollowDeps /\ StuckAreReported

(* wave.rs:122: "everything with no unmet dependency lands in wave 0, then wave 1 once      *)
(* wave 0's dependencies are satisfied".  Refuted by an image that is listed twice.         *)
WavesFollowAllDeps ==
  \A n \in 1 .. Len(waves) : \A i \in waves[n] : \A d \in needs[i] :
    \E m \in 1 .. n - 1 : d \in waves[m]

(* wave.rs:74: an image in no wave is part of a cycle.  Refuted by one that needs an         *)
(* image of a cycle and that no image of the cycle needs.                                  *)
StuckAreOnCycles ==
  planner = "done" => \A i \in Stuck : \E C \in SUBSET Stuck :
    /\ i \in C
    /\ \A j \in C : needs[j] \cap C # {} /\ \E k \in C : j \in needs[k]

=============================================================================
