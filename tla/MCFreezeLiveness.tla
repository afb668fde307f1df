-------------------------- MODULE MCFreezeLiveness --------------------------
(* The host works with snapshots, and the agent lives; or it works with         *)
(* cutovers, and the agent dies up to MaxCrashes times.  Only requests and       *)
(* deaths are bounded, neither of which is fair.                               *)
EXTENDS AgentFreeze

CONSTANT MaxCutovers    \* bound: requests in the second case

VARIABLES
  family,       \* which of the two
  overtaken     \* the root was frozen between a thaw and its store to FS_FROZEN

FamilyOps ==
  IF family = "snapshot" THEN {"prepare", "complete"} ELSE {"enter", "exit"}

Bounds ==
  /\ \A c \in Channels : th[c].op \in FamilyOps \cup {"none"}
  /\ IF family = "snapshot" THEN crashes = 0 ELSE made <= MaxCutovers

Overtakes == ~frozen /\ \E t \in Threads : th[t].pc = "flag_off"

MCInit == Init /\ family \in {"snapshot", "cutover"} /\ overtaken = FALSE

MCNext ==
  /\ UNCHANGED family
  /\ Next /\ Bounds'
  /\ overtaken' = (frozen' /\ (overtaken \/ Overtakes))

MCSpec ==
  /\ MCInit
  /\ [][MCNext]_<<vars, family, overtaken>>
  /\ \A t \in Threads : WF_vars(ThreadStep(t))
  /\ WF_vars(Restart)

-----------------------------------------------------------------------------
(* A root frozen for a snapshot is thawed again, by complete() or the watchdog,        *)
(* when one channel prepares and the agent lives.                                     *)
SnapshotFreezeEnds == (frozen /\ family = "snapshot") ~> ~frozen

(* Root and plugins come back, each by whichever of complete() and the watchdog is    *)
(* first.                                                                           *)
SnapshotReleases == SnapshotFreezeEnds /\ QuiesceEnds

(* In the agent's first life a root that a cutover has frozen is thawed, by the watchdog    *)
(* or exit_cutover, though a write to the state directory blocks while it is frozen         *)
(* (arm_watchdog thaws before it writes).  One exception: a freeze after another thread's     *)
(* thaw and before that thread has cleared FS_FROZEN; its watchdog then finds the flag       *)
(* cleared.                                                                                *)
CutoverFreezeEnds ==
  (frozen /\ family = "cutover" /\ crashes = 0) ~> (~frozen \/ overtaken \/ crashes > 0)

(* A cutover's freeze ends: by its watchdog or exit while the agent lives, unless it         *)
(* overtook the thaw before it, and by the recovery at the next start once the marker has    *)
(* recorded it.                                                                           *)
CutoverReleases == CutoverFreezeEnds /\ MarkedFreezeRecovered

=============================================================================
