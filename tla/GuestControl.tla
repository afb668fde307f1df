---------------------------- MODULE GuestControl ----------------------------
(***************************************************************************)
(* The approval workflow of the API and the agent of one guest together.   *)
(* The agent serves the clients the API's transports start in the guest    *)
(* and, on its other channels, a host that sends requests with nonces and  *)
(* idempotency keys and sends them again when it likes.                    *)
(***************************************************************************)
EXTENDS GuestActions

CONSTANTS MaxHostSends, MaxRestarts   \* bounds

ASSUME ControlAssumption == MaxHostSends \in Nat /\ MaxRestarts \in Nat

VARIABLES hostSends, restarts   \* frames the host has sent, agent restarts

vars == <<agentVars, actionVars, hostSends, restarts>>

TypeOK ==
  /\ AgentTypeOK
  /\ ActionsTypeOK
  /\ hostSends \in 0 .. MaxHostSends
  /\ restarts \in 0 .. MaxRestarts

Init == AgentInit /\ ActionsInit /\ hostSends = 0 /\ restarts = 0

bounds == <<hostSends, restarts>>

(* Steps of the API that do not involve the guest. *)
ApiStep ==
  /\ \/ \E a \in Actions : EnqueueStep(a) \/ Expire(a)
     \/ \E c \in Calls, a \in Actions : Load(c, a)
     \/ \E c \in Calls : NextTier(c) \/ Save(c) \/ Srem(c) \/ Abandon(c)
     \/ \E x \in Calls \X Tiers : ClientFails(x)
  /\ UNCHANGED <<agentVars, bounds>>

(* Steps of the agent that do not involve a client. *)
AgentStep ==
  /\ (\E t \in Threads : ServeStep(t)) \/ (\E k \in Keys : Forget(k))
  /\ UNCHANGED <<actionVars, bounds>>

Deliver(x, t) ==
  ClientSends(x, t) /\ Arrive(t, target[x[1]]) /\ UNCHANGED bounds

Answer(x) ==
  /\ server[x] # NoThread
  /\ Reply(server[x])
  /\ ClientAnswered(x)
  /\ UNCHANGED bounds

(* A reply on a channel of the host, or to a client that has given up. *)
AnswerNobody(t) ==
  /\ \A x \in Calls \X Tiers : server[x] # t
  /\ Reply(t)
  /\ UNCHANGED <<actionVars, bounds>>

HostSend(t, r) ==
  /\ hostSends < MaxHostSends
  /\ hostSends' = hostSends + 1
  /\ Arrive(t, r)
  /\ UNCHANGED <<actionVars, restarts>>

(* Connections break with the process; their clients wait in vain. *)
Restart ==
  /\ restarts < MaxRestarts
  /\ restarts' = restarts + 1
  /\ RestartAgent
  /\ server' = [x \in Calls \X Tiers |-> NoThread]
  /\ UNCHANGED <<record, enqueue, pendingIndex, auditIndex, callVars, client,
                 left, mishaps, answered, broken, hostSends>>

Next ==
  \/ ApiStep
  \/ AgentStep
  \/ \E x \in Calls \X Tiers, t \in Threads : Deliver(x, t)
  \/ \E x \in Calls \X Tiers : Answer(x)
  \/ \E t \in Threads : AnswerNobody(t)
  \/ \E t \in Threads, r \in Requests \ Actions : HostSend(t, r)
  \/ Restart

Spec == Init /\ [][Next]_vars

-----------------------------------------------------------------------------
(* approve_guest_action saves the verdict only after execute_pending has    *)
(* returned Ok: a record that says approved has an answer of the agent,      *)
(* whoever else worked on the record meanwhile.                            *)
ApprovedWasAnswered ==
  \A a \in Actions : record[a] = "approved" => a \in answered

(* The status check and the save are two commands with the execution in     *)
(* between.  A rejected action has run in the guest only if an approval     *)
(* overlapped with another call or ended without saving its verdict.        *)
RejectedRanOnlyByRace ==
  \A a \in Actions : record[a] = "rejected" /\ execs[a] > 0 => a \in broken

(* The saved verdict tells what happened in the guest, but for the races    *)
(* the two commands leave open.                                            *)
VerdictIsTrue == ApprovedWasAnswered /\ RejectedRanOnlyByRace

(* An action the API has accepted is listed for approval until a verdict    *)
(* is saved or its record expires (list_pending_guest_actions).            *)
AcceptedIsListed ==
  \A a \in Actions : enqueue[a] = "done" /\ record[a] = "pending" => a \in Listed

(* Once a verdict is saved the action never asks for one again, though a    *)
(* second verdict may replace the first.                                   *)
VerdictStays ==
  [][\A a \in Actions : record[a] \in {"approved", "rejected"}
                          => record'[a] # "pending"]_vars

(* An accepted action asks for a verdict until it has one, and not again.   *)
ListedUntilVerdict == []AcceptedIsListed /\ VerdictStays

=============================================================================
