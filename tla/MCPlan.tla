-------------------------------- MODULE MCPlan --------------------------------
(* Every dependency graph of three operations is sorted; the plans in which      *)
(* the third depends on the second, or on one that is missing, are applied, by the    *)
(* live or the offline executor.  Every dependency graph of three images is planned.   *)
EXTENDS PlanApply, PlanOffline, FleetWaves

CONSTANTS o1, o2, o3, f1, f2, i1, i2, i3

Applied ==
  /\ deps[o1] = {} /\ deps[o2] \in {{}, {o1}} /\ deps[o3] \in {{o2}, {Unknown}}

\* The plans that are applied: two operations on one file, a third on another,
\* whose copy has a name of its own or that of the first file's.
MCKinds ==
  {k \in [Ops -> Kinds] : k[o2] \in {"edit", "delete"} /\ k[o3] \in {"edit", "registry"}}

\* One plan for the offline applicator, without the files of the live one.
Plain ==
  /\ kind = [o \in Ops |-> "command"]
  /\ autoRollback /\ failFast /\ initial = [f \in Files |-> f] /\ backupName[f2] = f2

NoFleet == needs = [i \in Images |-> {}] /\ listed = [i \in Images |-> 1]
NoPlan == Plain /\ stage = "off" /\ deps = [o \in Ops |-> {}]

MCInit ==
  /\ planner \in {"wave", "off"}
  /\ deps \in IF planner = "off" THEN [Ops -> SUBSET (Ops \cup {Unknown})] ELSE {[o \in Ops |-> {}]}
  /\ stage \in {"validate", "off"} /\ skipBackup \in IF stage = "off" THEN {FALSE} ELSE BOOLEAN
  /\ kind \in IF Applied /\ stage = "off" THEN MCKinds ELSE {[o \in Ops |-> "command"]}
  /\ file = [o \in Ops |-> IF o = o3 THEN f2 ELSE f1]
  /\ backupName \in {[f \in Files |-> f], [f \in Files |-> f1]}
  /\ initial \in {[f \in Files |-> f], [f \in Files |-> "absent"],
                  [f \in Files |-> IF f = f1 THEN "dangling" ELSE f]}
  /\ autoRollback \in BOOLEAN /\ failFast = autoRollback
  /\ (Applied /\ stage = "off") \/ Plain
  /\ IF planner = "off" THEN NoFleet ELSE NoPlan
  /\ Init /\ OfflineInit /\ FleetInit

MCNext ==
  \/ /\ stage = "off" /\ planner = "off" /\ Next /\ UNCHANGED <<offlineVars, fleetVars>>
     /\ Applied \/ (faults' = 0 /\ applies' = 1)
  \/ /\ OfflineNext /\ UNCHANGED <<sortStill, fleetVars>>
     /\ Applied \/ (offlineFaults' = 0 /\ offlineApplies' = 1)
  \/ FleetNext /\ UNCHANGED <<vars, offlineVars>>

allVars == <<vars, offlineVars, fleetVars>>
MCSpec == MCInit /\ [][MCNext]_allVars

=============================================================================
