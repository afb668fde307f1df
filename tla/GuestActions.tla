---------------------------- MODULE GuestActions ----------------------------
(***************************************************************************)
(* Approval of guest actions in the API (guest_actions.rs) down to the     *)
(* guest: pull_for_vm (kubevirt_guest_pull.rs) tries the transports of      *)
(* pull_method (guest_control/transport.rs) one after the other, each runs *)
(* a client in the guest (guest_agent_vm.rs) or posts to the proxy, and the *)
(* client talks to a thread of the agent (AgentDispatch).  One API request *)
(* is one element of Calls; its handler awaits between any two commands and *)
(* is dropped there when its client goes away.  The requests of the ladder *)
(* carry neither a nonce nor an idempotency key.                           *)
(***************************************************************************)
EXTENDS AgentDispatch

CONSTANTS
  Actions,      \* ids of pending guest actions; also requests of the agent
  Calls,        \* approve and reject requests to the API
  NoAction,     \* a call that has not loaded a record
  NoThread,     \* a client that is not connected
  HasProxy,     \* agent_proxy_url is configured
  MaxMishaps    \* bound: errors, timeouts, lost clients and expired records

ASSUME ActionsAssumption ==
  /\ Actions \subseteq Requests
  /\ \A a \in Actions : NonceOf[a] = NoNonce /\ KeyOf[a] = NoKey
  /\ NoAction \notin Actions /\ NoThread \notin Threads
  /\ HasProxy \in BOOLEAN
  /\ MaxMishaps \in Nat

VARIABLES
  record,      \* action -> status in guest-action:pending:<id>, "none" if absent
  enqueue,     \* action -> how far enqueue_restart_unit came
  pendingIndex, auditIndex,   \* the two Redis sets of ids
  call,        \* call -> where its handler is
  kind,        \* call -> "approve" or "reject"
  target,      \* call -> the action it loaded
  tier,        \* call -> the transport it waits for, an index of Ladder
  client,      \* <<call, tier>> -> the program that delivers for this tier
  left,        \* <<call, tier>> -> invocations the program still makes
  server,      \* <<call, tier>> -> the thread the program is connected to
  mishaps,     \* how many of them so far
  answered,    \* actions some call has an answer of the agent for (history)
  broken       \* actions with an approval that did not end by saving its
               \* verdict, or that overlapped with another call (history)

actionVars == <<record, enqueue, pendingIndex, auditIndex, call, kind, target,
                tier, client, left, server, mishaps, answered, broken>>

-----------------------------------------------------------------------------
Rank == [VirtioSerial |-> 0, QgaExecRpc |-> 1, QgaBuiltin |-> 2,
         InGuestSocket |-> 3, HttpsPush |-> 4]

(* method_min_transport of restartUnit and collectSupportBundle *)
MinTransport == "QgaExecRpc"

(* pull_method's tiers in the order of its code, then the proxy, which      *)
(* pull_for_vm asks once more after pull_method has failed.                 *)
Ladder ==
  SelectSeq(<<"VirtioSerial", "InGuestSocket", "QgaExecRpc">>,
            LAMBDA t : Rank[MinTransport] <= Rank[t])
    \o (IF HasProxy THEN <<"HttpsPush", "HttpsPush">> ELSE <<>>)

Tiers == DOMAIN Ladder

(* The shell line of vm_guestkit_rpc names three ways to start the client, *)
(* each tried when the one before it failed.                               *)
Invocations(i) == IF Ladder[i] = "QgaExecRpc" THEN 3 ELSE 1

ActionsTypeOK ==
  /\ record \in [Actions -> {"none", "pending", "approved", "rejected"}]
  /\ enqueue \in [Actions -> {"new", "saved", "indexed", "done", "failed"}]
  /\ pendingIndex \subseteq Actions /\ auditIndex \subseteq Actions
  /\ call \in [Calls -> {"new", "ladder", "save", "srem", "done"}]
  /\ kind \in [Calls -> {"approve", "reject"}]
  /\ target \in [Calls -> Actions \cup {NoAction}]
  /\ tier \in [Calls -> 1 .. Len(Ladder) + 1]
  /\ client \in [Calls \X Tiers -> {"off", "ready", "waiting", "ok", "failed"}]
  /\ left \in [Calls \X Tiers -> 0 .. 3]
  /\ server \in [Calls \X Tiers -> Threads \cup {NoThread}]
  /\ mishaps \in 0 .. MaxMishaps
  /\ answered \subseteq Actions /\ broken \subseteq Actions

ActionsInit ==
  /\ record = [a \in Actions |-> "none"]
  /\ enqueue = [a \in Actions |-> "new"]
  /\ pendingIndex = {} /\ auditIndex = {}
  /\ call = [c \in Calls |-> "new"]
  /\ kind \in [Calls -> {"approve", "reject"}]
  /\ target = [c \in Calls |-> NoAction]
  /\ tier = [c \in Calls |-> 1]
  /\ client = [x \in Calls \X Tiers |-> "off"]
  /\ left = [x \in Calls \X Tiers |-> Invocations(x[2])]
  /\ server = [x \in Calls \X Tiers |-> NoThread]
  /\ mishaps = 0
  /\ answered = {} /\ broken = {}

clientVars == <<client, left, server>>
callVars == <<call, kind, target, tier>>

Mishap == mishaps < MaxMishaps /\ mishaps' = mishaps + 1

(* The approvals of a that have loaded the record and not returned yet. *)
Approving(a) ==
  {c \in Calls : kind[c] = "approve" /\ target[c] = a
                   /\ call[c] \in {"ladder", "save", "srem"}}

Rejecting(a) ==
  {c \in Calls : kind[c] = "reject" /\ target[c] = a /\ call[c] \in {"save", "srem"}}

-----------------------------------------------------------------------------
(* enqueue_restart_unit, enqueue_support_bundle: SETEX, SADD, SADD; an     *)
(* error returns and leaves what is there.                                 *)
EnqueueStep(a) ==
  /\ \/ /\ enqueue[a] = "new"
        /\ enqueue' = [enqueue EXCEPT ![a] = "saved"]
        /\ record' = [record EXCEPT ![a] = "pending"]
        /\ UNCHANGED <<pendingIndex, auditIndex, mishaps>>
     \/ /\ enqueue[a] = "saved"
        /\ enqueue' = [enqueue EXCEPT ![a] = "indexed"]
        /\ pendingIndex' = pendingIndex \cup {a}
        /\ UNCHANGED <<record, auditIndex, mishaps>>
     \/ /\ enqueue[a] = "indexed"
        /\ enqueue' = [enqueue EXCEPT ![a] = "done"]
        /\ auditIndex' = auditIndex \cup {a}
        /\ UNCHANGED <<record, pendingIndex, mishaps>>
     \/ /\ enqueue[a] \in {"new", "saved", "indexed"}
        /\ Mishap
        /\ enqueue' = [enqueue EXCEPT ![a] = "failed"]
        /\ UNCHANGED <<record, pendingIndex, auditIndex>>
  /\ UNCHANGED <<callVars, clientVars, answered, broken>>

(* The record's 24 hours are over. *)
Expire(a) ==
  /\ record[a] # "none"
  /\ Mishap
  /\ record' = [record EXCEPT ![a] = "none"]
  /\ UNCHANGED <<enqueue, pendingIndex, auditIndex, callVars, clientVars,
                 answered, broken>>

(* The handler has the record of a and goes on with it. *)
Take(c, a) ==
  /\ target' = [target EXCEPT ![c] = a]
  /\ call' = [call EXCEPT ![c] = IF kind[c] = "approve" THEN "ladder" ELSE "save"]
  /\ client' = IF kind[c] = "approve" THEN [client EXCEPT ![<<c, 1>>] = "ready"]
               ELSE client
  /\ broken' = IF Approving(a) # {} \/ (kind[c] = "approve" /\ Rejecting(a) # {})
               THEN broken \cup {a} ELSE broken
  /\ UNCHANGED <<record, enqueue, auditIndex, kind, tier, left, server, mishaps,
                 answered>>

\* Mutant: the status of the record is not looked at.
LoadAny(c, a) ==
  call[c] = "new" /\ record[a] # "none" /\ Take(c, a) /\ UNCHANGED pendingIndex

(* load_pending and the status check of approve and reject.  Policy denial, *)
(* a missing record and another status are error returns that change        *)
(* nothing.                                                                *)
Load(c, a) ==
  call[c] = "new" /\ record[a] = "pending" /\ Take(c, a) /\ UNCHANGED pendingIndex

(* The call ends without a saved verdict. *)
Fail(c) ==
  /\ call' = [call EXCEPT ![c] = "done"]
  /\ broken' = IF kind[c] = "approve" THEN broken \cup {target[c]} ELSE broken

(* The current tier failed as the handler sees it, by an exit code or by   *)
(* its own timeout, after which the program in the guest goes on.           *)
TierFailed(c) ==
  \/ client[<<c, tier[c]>>] = "failed" /\ UNCHANGED mishaps
  \/ client[<<c, tier[c]>>] # "failed" /\ Mishap

ClimbLadder(c) ==
  /\ tier[c] < Len(Ladder)
  /\ tier' = [tier EXCEPT ![c] = @ + 1]
  /\ client' = [client EXCEPT ![<<c, tier[c] + 1>>] = "ready"]
  /\ UNCHANGED <<record, call, left, broken>>

LadderEnds(c) == tier[c] = Len(Ladder) /\ UNCHANGED <<tier, client>>

tierUnchanged == <<enqueue, pendingIndex, auditIndex, kind, target, server,
                   answered>>

\* Mutant: a failed approval saves the record it has loaded.
NextTierSavesRecord(c) ==
  /\ call[c] = "ladder" /\ TierFailed(c)
  /\ \/ ClimbLadder(c)
     \/ /\ LadderEnds(c) /\ Fail(c) /\ UNCHANGED left
        /\ record' = [record EXCEPT ![target[c]] = "pending"]
  /\ UNCHANGED tierUnchanged

(* pull_method and pull_for_vm go to the next transport; the error of the   *)
(* last one ends the approval and leaves the record pending.               *)
NextTier(c) ==
  /\ call[c] = "ladder" /\ TierFailed(c)
  /\ \/ ClimbLadder(c)
     \/ LadderEnds(c) /\ Fail(c) /\ UNCHANGED <<record, left>>
  /\ UNCHANGED tierUnchanged

(* The client program is started and cannot connect, or waits in vain for  *)
(* its answer; the next way to start it is tried, if there is one.          *)
ClientFails(x) ==
  /\ Mishap
  /\ \/ client[x] = "ready"  /\ left' = [left EXCEPT ![x] = @ - 1]
     \/ client[x] = "waiting" /\ UNCHANGED left
  /\ client' = [client EXCEPT ![x] = IF left'[x] = 0 THEN "failed" ELSE "ready"]
  /\ server' = [server EXCEPT ![x] = NoThread]
  /\ UNCHANGED <<record, enqueue, pendingIndex, auditIndex, callVars, answered,
                 broken>>

(* The client program sends its request to thread t. *)
ClientSends(x, t) ==
  /\ client[x] = "ready"
  /\ client' = [client EXCEPT ![x] = "waiting"]
  /\ left' = [left EXCEPT ![x] = @ - 1]
  /\ server' = [server EXCEPT ![x] = t]
  /\ UNCHANGED <<record, enqueue, pendingIndex, auditIndex, callVars, mishaps,
                 answered, broken>>

(* Thread t answers; the program prints it and exits, and the handler takes *)
(* it if it still waits for this tier.  A JSON-RPC error is an answer too.   *)
ClientAnswered(x) ==
  LET c == x[1]
      awaited == call[c] = "ladder" /\ tier[c] = x[2]
  IN /\ client[x] = "waiting"
     /\ client' = [client EXCEPT ![x] = "ok"]
     /\ server' = [server EXCEPT ![x] = NoThread]
     /\ call' = IF awaited THEN [call EXCEPT ![c] = "save"] ELSE call
     /\ answered' = IF awaited THEN answered \cup {target[c]} ELSE answered
     /\ UNCHANGED <<record, enqueue, pendingIndex, auditIndex, kind, target,
                    tier, left, mishaps, broken>>

(* save_pending writes the whole record again, with a new expiry. *)
Save(c) ==
  /\ call[c] = "save"
  /\ \/ /\ record' = [record EXCEPT ![target[c]] =
                        IF kind[c] = "approve" THEN "approved" ELSE "rejected"]
        /\ call' = [call EXCEPT ![c] = "srem"]
        /\ UNCHANGED <<mishaps, broken>>
     \/ Mishap /\ Fail(c) /\ UNCHANGED record
  /\ UNCHANGED <<enqueue, pendingIndex, auditIndex, kind, target, tier,
                 clientVars, answered>>

(* SREM of the index of pending actions. *)
Srem(c) ==
  /\ call[c] = "srem"
  /\ call' = [call EXCEPT ![c] = "done"]
  /\ \/ pendingIndex' = pendingIndex \ {target[c]} /\ UNCHANGED mishaps
     \/ Mishap /\ UNCHANGED pendingIndex
  /\ UNCHANGED <<record, enqueue, auditIndex, kind, target, tier, clientVars,
                 answered, broken>>

(* The HTTP client goes away or the API stops: the handler is dropped at   *)
(* its await; what it started in the guest goes on.                        *)
Abandon(c) ==
  /\ call[c] \in {"ladder", "save", "srem"}
  /\ Mishap
  /\ IF call[c] = "srem"
     THEN call' = [call EXCEPT ![c] = "done"] /\ UNCHANGED broken
     ELSE Fail(c)
  /\ UNCHANGED <<record, enqueue, pendingIndex, auditIndex, kind, target, tier,
                 clientVars, answered>>

-----------------------------------------------------------------------------
(* What list_pending_guest_actions shows. *)
Listed == {a \in pendingIndex : record[a] = "pending"}

=============================================================================
