------------------------- MODULE GuestControlProofs -------------------------
(***************************************************************************)
(* Proofs about the agent's request path, and about the approval workflow   *)
(* together with it, for every set of actions, calls, threads, requests,    *)
(* nonces and keys, with and without the proxy.  The agent's part of every  *)
(* step is a step of AgentDispatch, so what is shown of the agent alone     *)
(* (the first half) holds in the composition.                               *)
(***************************************************************************)
EXTENDS GuestControl, FiniteSetTheorems, TLAPS

\* What a thread holds at each point of handle_on.
ThreadsFollowPc ==
  \A t \in Threads :
    /\ pc[t] # "idle" => req[t] \in Requests
    /\ pc[t] \notin {"store", "reply"} => answer[t] = NoRequest
    /\ pc[t] = "store" => KeyOf[req[t]] \in Keys /\ answer[t] = req[t]

\* nonceOrder is the end of what was accepted, and as long as it may be.
OrderIsSuffix ==
  /\ Len(nonceOrder) <= Len(accepted) /\ Len(nonceOrder) <= Window
  /\ Len(nonceOrder) < Window => Len(nonceOrder) = Len(accepted)
  /\ \A i \in 1 .. Len(nonceOrder) :
       nonceOrder[i] = accepted[Len(accepted) - Len(nonceOrder) + i]

\* The set holds what the list holds.
SetIsList == nonces = {nonceOrder[i] : i \in 1 .. Len(nonceOrder)}

\* Nonces accepted at most Window apart are different.
AcceptedApart ==
  \A i, j \in 1 .. Len(accepted) :
    i < j /\ j - i <= Window => accepted[i] # accepted[j]

NonceInv == OrderIsSuffix /\ SetIsList /\ AcceptedApart

\* What is cached was executed for its key; an answer that was stored and has
\* not expired is cached; and a request that arrived after it was stored finds
\* it.
KeyInv ==
  /\ \A k \in Keys : idempotent[k] # NoRequest =>
       execs[idempotent[k]] > 0 /\ KeyOf[idempotent[k]] = k
  /\ \A k \in storedKeys : idempotent[k] # NoRequest
  /\ \A t \in retrying :
       /\ pc[t] \notin {"idle", "run", "store"}
       /\ pc[t] \in {"arrived", "lookup"} => KeyOf[req[t]] \in storedKeys

AgentInv ==
  AgentTypeOK /\ ThreadsFollowPc /\ NonceInv /\ KeyInv /\ OkAnswerWasExecuted

-----------------------------------------------------------------------------
\* The bound nonce_fresh uses is a positive number.
LEMMA WindowType == Window \in Nat /\ Window >= 1
  BY DispatchAssumption DEF Window

\* The first state of the agent satisfies the invariant.
LEMMA AgentInitInv == AgentInit => AgentInv
<1> SUFFICES ASSUME AgentInit PROVE AgentInv
  OBVIOUS
<1>1. AgentTypeOK
  BY DispatchAssumption DEF AgentInit, AgentTypeOK
<1>2. ThreadsFollowPc
  BY DEF AgentInit, ThreadsFollowPc
<1>3. NonceInv
  BY WindowType DEF AgentInit, NonceInv, OrderIsSuffix, SetIsList, AcceptedApart
<1>4. KeyInv
  BY Zenon DEF AgentInit, KeyInv
<1>5. OkAnswerWasExecuted
  BY DEF AgentInit, OkAnswerWasExecuted
<1> QED
  BY <1>1, <1>2, <1>3, <1>4, <1>5 DEF AgentInv

-----------------------------------------------------------------------------
\* nonce_fresh keeps list, set and history together.
LEMMA NonceFreshStep ==
  ASSUME AgentTypeOK, NonceInv, NEW n \in Nonces, NonceFresh(n),
         accepted' = Append(accepted, n)
  PROVE  NonceInv' /\ nonceOrder' \in Seq(Nonces) /\ nonces' \in SUBSET Nonces
<1> USE WindowType
<1> DEFINE order == Append(nonceOrder, n)
<1>0. /\ nonceOrder \in Seq(Nonces) /\ accepted \in Seq(Nonces)
      /\ nonces \in SUBSET Nonces
  BY DEF AgentTypeOK
<1>1. /\ Len(order) = Len(nonceOrder) + 1 /\ order \in Seq(Nonces)
      /\ \A i \in 1 .. Len(nonceOrder) : order[i] = nonceOrder[i]
      /\ order[Len(nonceOrder) + 1] = n
  BY <1>0
<1>2. /\ Len(accepted') = Len(accepted) + 1
      /\ \A i \in 1 .. Len(accepted) : accepted'[i] = accepted[i]
      /\ accepted'[Len(accepted) + 1] = n
  BY <1>0
<1>3. n \notin nonces /\ Window' = Window
  BY DEF NonceFresh, Window
<1>a. Len(accepted) \in Nat /\ Len(nonceOrder) \in Nat
  BY <1>0
<1>4. AcceptedApart'
  <2> SUFFICES ASSUME NEW i \in 1 .. Len(accepted) + 1,
                      NEW j \in 1 .. Len(accepted) + 1,
                      i < j, j - i <= Window
               PROVE  accepted'[i] # accepted'[j]
    BY <1>2, <1>3 DEF AcceptedApart
  <2>1. CASE j <= Len(accepted)
    BY <2>1, <1>2, <1>a DEF NonceInv, AcceptedApart
  <2>2. CASE j = Len(accepted) + 1
    <3> DEFINE m == i - (Len(accepted) - Len(nonceOrder))
    <3>0. /\ Len(nonceOrder) <= Len(accepted) /\ Len(nonceOrder) <= Window
          /\ Len(nonceOrder) < Window => Len(nonceOrder) = Len(accepted)
      BY DEF NonceInv, OrderIsSuffix
    <3>1. m \in 1 .. Len(nonceOrder)
      BY <2>2, <3>0, <1>a, WindowType
    <3>2. accepted[i] = nonceOrder[m]
      BY <3>1, <1>a DEF NonceInv, OrderIsSuffix
    <3>3. accepted[i] \in nonces
      BY <3>1, <3>2 DEF NonceInv, SetIsList
    <3> QED
      BY <3>3, <2>2, <1>2, <1>3, <1>a
  <2> QED
    BY <2>1, <2>2, <1>a
<1>5. CASE Len(order) > Window
  <2>1. Len(nonceOrder) = Window
    BY <1>5, <1>1, <1>a DEF NonceInv, OrderIsSuffix
  <2>2. nonceOrder' = Tail(order) /\ nonces' = (nonces \cup {n}) \ {Head(order)}
    BY <1>5 DEF NonceFresh, Evict
  <2>3. /\ Len(nonceOrder') = Window /\ nonceOrder' \in Seq(Nonces)
        /\ \A i \in 1 .. Window : nonceOrder'[i] = order[i + 1]
    BY <2>1, <2>2, <1>1, <1>a
  <2>4. Head(order) = order[1] /\ order[1] = nonceOrder[1]
    BY <2>1, <1>1, <1>a
  <2>5. OrderIsSuffix'
    <3>1. ASSUME NEW i \in 1 .. Window
          PROVE  nonceOrder'[i] = accepted'[Len(accepted') - Window + i]
      <4>1. CASE i < Window
        <5>1. nonceOrder'[i] = nonceOrder[i + 1] /\ i + 1 \in 1 .. Len(nonceOrder)
          BY <4>1, <2>1, <2>3, <1>1
        <5>2. nonceOrder[i + 1] = accepted[Len(accepted) - Window + (i + 1)]
          BY <5>1, <2>1 DEF NonceInv, OrderIsSuffix
        <5>3. Len(accepted) - Window + (i + 1) \in 1 .. Len(accepted)
          BY <4>1, <2>1, <1>a DEF NonceInv, OrderIsSuffix
        <5> QED
          BY <5>1, <5>2, <5>3, <1>2, <1>a
      <4>2. CASE i = Window
        BY <4>2, <2>1, <2>3, <1>1, <1>2, <1>a
      <4>3. i < Window \/ i = Window
        OBVIOUS
      <4> QED
        BY Zenon, <4>1, <4>2, <4>3
    <3>2. Window <= Len(accepted)
      BY <2>1 DEF NonceInv, OrderIsSuffix
    <3>3. Len(nonceOrder') = Window' /\ Window' <= Len(accepted')
      BY <3>2, <2>3, <1>2, <1>3, <1>0, <1>a
    <3>4. \A i \in 1 .. Len(nonceOrder') :
            nonceOrder'[i] = accepted'[Len(accepted') - Len(nonceOrder') + i]
      BY Zenon, <3>1, <2>3
    <3> QED
      BY <3>3, <3>4, <1>3 DEF OrderIsSuffix
  <2>6. SetIsList'
    <3>1. ASSUME NEW i \in 2 .. Window PROVE nonceOrder[i] # nonceOrder[1]
      <4>1. /\ nonceOrder[i] = accepted[Len(accepted) - Window + i]
            /\ nonceOrder[1] = accepted[Len(accepted) - Window + 1]
            /\ Len(accepted) >= Window
        BY <2>1 DEF NonceInv, OrderIsSuffix
      <4>2. accepted[Len(accepted) - Window + 1] # accepted[Len(accepted) - Window + i]
        BY <4>1, <1>a DEF NonceInv, AcceptedApart
      <4> QED
        BY <4>1, <4>2
    <3>2. nonces = {nonceOrder[i] : i \in 1 .. Window}
      BY <2>1 DEF NonceInv, SetIsList
    <3>3. nonces \ {nonceOrder[1]} = {nonceOrder[i] : i \in 2 .. Window}
      BY <3>1, <3>2
    <3>4. n # nonceOrder[1]
      BY <3>2, <1>3
    <3>5. nonces' = {nonceOrder[i] : i \in 2 .. Window} \cup {n}
      BY <3>3, <3>4, <2>2, <2>4
    <3>6. {nonceOrder'[i] : i \in 1 .. Window} = {order[i] : i \in 2 .. Window + 1}
      <4>1. \A i \in 1 .. Window : i + 1 \in 2 .. Window + 1
        OBVIOUS
      <4>2. \A i \in 2 .. Window + 1 : i - 1 \in 1 .. Window /\ (i - 1) + 1 = i
        OBVIOUS
      <4>3. \A i \in 2 .. Window + 1 : nonceOrder'[i - 1] = order[i]
        BY Zenon, <4>2, <2>3
      <4>4. \A i \in 1 .. Window : nonceOrder'[i] = order[i + 1]
        BY Zenon, <2>3
      <4> HIDE DEF order
      <4> QED
        BY <4>1, <4>2, <4>3, <4>4
    <3>7. {order[i] : i \in 2 .. Window + 1} = {nonceOrder[i] : i \in 2 .. Window} \cup {n}
      BY <2>1, <1>1
    <3> QED
      BY Zenon, <3>5, <3>6, <3>7, <2>3 DEF SetIsList
  <2> QED
    BY <2>2, <2>3, <2>5, <2>6, <1>0, <1>4 DEF NonceInv
<1>6. CASE ~(Len(order) > Window)
  <2>1. nonceOrder' = order /\ nonces' = nonces \cup {n}
    BY <1>6 DEF NonceFresh, Evict
  <2>2. Len(nonceOrder) = Len(accepted) /\ Len(nonceOrder) + 1 <= Window
    BY <1>6, <1>1, <1>a DEF NonceInv, OrderIsSuffix
  <2>3. OrderIsSuffix'
    BY <2>1, <2>2, <1>1, <1>2, <1>3, <1>a DEF NonceInv, OrderIsSuffix
  <2>4. SetIsList'
    <3>1. nonces = {nonceOrder[i] : i \in 1 .. Len(nonceOrder)}
      BY DEF NonceInv, SetIsList
    <3>2. {order[i] : i \in 1 .. Len(nonceOrder) + 1} = nonces \cup {n}
      BY <3>1, <1>1, <1>a
    <3> QED
      BY <3>2, <2>1, <1>1 DEF SetIsList
  <2> QED
    BY <2>1, <2>3, <2>4, <1>0, <1>1, <1>4 DEF NonceInv
<1> QED
  BY <1>5, <1>6

-----------------------------------------------------------------------------
\* A step in which one thread moves on, no entry changes, and a retry does not
\* come to the work.
LEMMA KeyInvStill ==
  ASSUME AgentTypeOK, KeyInv, UNCHANGED <<req, idempotent, storedKeys, retrying>>,
         \A r \in Requests : execs'[r] \in Nat /\ execs'[r] >= execs[r],
         NEW t \in Threads, NEW p, pc' = [pc EXCEPT ![t] = p],
         t \in retrying => p \notin {"idle", "run", "store"},
         p \in {"arrived", "lookup"} => pc[t] \in {"arrived", "lookup"}
  PROVE  KeyInv'
<1>1. ASSUME NEW k \in Keys, idempotent[k] # NoRequest
      PROVE  execs'[idempotent[k]] > 0 /\ KeyOf[idempotent[k]] = k
  <2>1. idempotent[k] \in Requests /\ execs[idempotent[k]] > 0 /\ KeyOf[idempotent[k]] = k
    BY Zenon, <1>1 DEF KeyInv, AgentTypeOK
  <2>2. execs[idempotent[k]] \in Nat /\ execs'[idempotent[k]] >= execs[idempotent[k]]
        /\ execs'[idempotent[k]] \in Nat
    BY Zenon, <2>1 DEF AgentTypeOK
  <2> QED
    BY <2>1, <2>2
<1>2. ASSUME NEW u \in retrying
      PROVE  /\ pc'[u] \notin {"idle", "run", "store"}
             /\ pc'[u] \in {"arrived", "lookup"} => KeyOf[req[u]] \in storedKeys
  <2>1. u \in Threads
    BY Zenon DEF AgentTypeOK
  <2>2. CASE u = t
    <3>1. pc'[u] = p
      BY Zenon, <2>2 DEF AgentTypeOK
    <3> QED
      BY Zenon, <2>2, <3>1 DEF KeyInv
  <2>3. CASE u # t
    <3>1. pc'[u] = pc[u]
      BY Zenon, <2>1, <2>3 DEF AgentTypeOK
    <3> QED
      BY Zenon, <3>1 DEF KeyInv
  <2> QED
    BY Zenon, <2>2, <2>3
<1> QED
  BY Zenon, <1>1, <1>2 DEF KeyInv

-----------------------------------------------------------------------------
\* The refusal of a request.
LEMMA RefuseStep ==
  ASSUME AgentInv, NEW t \in Threads, Refuse(t)
  PROVE  AgentInv'
<1> USE DEF AgentInv, Refuse, AnswerWith, cacheVars, keyVars
<1>1. AgentTypeOK'
  BY DEF AgentTypeOK
<1>2. ThreadsFollowPc'
  BY DEF ThreadsFollowPc, AgentTypeOK
<1>3. NonceInv'
  BY DEF NonceInv, OrderIsSuffix, SetIsList, AcceptedApart, Window
<1>4. KeyInv'
  <2>1. pc' = [pc EXCEPT ![t] = "reply"] /\ UNCHANGED <<req, idempotent, storedKeys, retrying>>
    BY Zenon
  <2>2. \A r \in Requests : execs'[r] \in Nat /\ execs'[r] >= execs[r]
    BY DEF AgentTypeOK
  <2> QED
    BY Zenon, <2>1, <2>2, KeyInvStill
<1>5. OkAnswerWasExecuted'
  BY DEF OkAnswerWasExecuted, AgentTypeOK
<1> QED
  BY <1>1, <1>2, <1>3, <1>4, <1>5

\* The nonce of a request.
LEMMA CheckNonceStep ==
  ASSUME AgentInv, NEW t \in Threads, CheckNonce(t)
  PROVE  AgentInv'
<1> DEFINE n == NonceOf[req[t]]
<1> USE DEF AgentInv
<1>0. /\ pc[t] = "arrived" /\ req[t] \in Requests /\ answer[t] = NoRequest
      /\ UNCHANGED <<req, idempotent, storedKeys, retrying, execs>>
  BY DEF CheckNonce, ThreadsFollowPc, keyVars
<1>1. \E p \in {"lookup", "reply"} : pc' = [pc EXCEPT ![t] = p]
  BY DEF CheckNonce, AnswerWith
<1>2. answer' = answer \/ answer' = [answer EXCEPT ![t] = NoRequest]
  BY DEF CheckNonce, AnswerWith
<1>3. NonceInv' /\ nonceOrder' \in Seq(Nonces) /\ nonces' \in SUBSET Nonces
      /\ accepted' \in Seq(Nonces)
  <2>1. CASE UNCHANGED <<nonceOrder, nonces, accepted>>
    BY <2>1 DEF NonceInv, OrderIsSuffix, SetIsList, AcceptedApart, Window, AgentTypeOK
  <2>2. CASE n # NoNonce /\ NonceFresh(n) /\ accepted' = Append(accepted, n)
    <3>1. n \in Nonces
      BY <2>2, <1>0, DispatchAssumption
    <3>2. accepted' \in Seq(Nonces)
      BY <2>2, <3>1 DEF AgentTypeOK
    <3> QED
      BY <2>2, <3>1, <3>2, NonceFreshStep
  <2> QED
    BY <2>1, <2>2 DEF CheckNonce
<1>4. AgentTypeOK'
  BY <1>0, <1>1, <1>2, <1>3 DEF AgentTypeOK
<1>5. ThreadsFollowPc'
  BY Zenon, <1>0, <1>1, <1>2 DEF ThreadsFollowPc, AgentTypeOK
<1>6. KeyInv'
  <2>1. PICK p \in {"lookup", "reply"} : pc' = [pc EXCEPT ![t] = p]
    BY Zenon, <1>1
  <2>2. \A r \in Requests : execs'[r] \in Nat /\ execs'[r] >= execs[r]
    BY <1>0 DEF AgentTypeOK
  <2>3. p \notin {"idle", "run", "store"} /\ pc[t] \in {"arrived", "lookup"}
    BY Zenon, <1>0
  <2> QED
    BY Zenon, <1>0, <2>1, <2>2, <2>3, KeyInvStill
<1>7. OkAnswerWasExecuted'
  BY Zenon, <1>0, <1>2 DEF OkAnswerWasExecuted, AgentTypeOK
<1> QED
  BY <1>3, <1>4, <1>5, <1>6, <1>7

\* The look-up of a key: an answer from the cache, or work.
LEMMA LookupKeyStep ==
  ASSUME AgentInv, NEW t \in Threads, LookupKey(t)
  PROVE  AgentInv'
<1> DEFINE key == KeyOf[req[t]]
<1> USE DEF AgentInv
<1>0. /\ pc[t] = "lookup" /\ req[t] \in Requests /\ answer[t] = NoRequest
      /\ UNCHANGED <<req, execs, nonceOrder, nonces, idempotent, accepted, storedKeys,
                     retrying>>
  BY DEF LookupKey, ThreadsFollowPc, cacheVars, keyVars
<1>k. key \in Keys \cup {NoKey}
  BY Zenon, <1>0, DispatchAssumption
<1>1. NonceInv'
  BY ZenonT(40), <1>0 DEF NonceInv, OrderIsSuffix, SetIsList, AcceptedApart, Window
<1>2. CASE Cached(key) # NoRequest /\ AnswerWith(t, Cached(key))
  <2>1. /\ key \in Keys /\ Cached(key) = idempotent[key]
        /\ idempotent[key] \in Requests
    BY <1>2, <1>k DEF Cached, AgentTypeOK
  <2>2. AgentTypeOK'
    BY Zenon, <1>0, <1>2, <2>1 DEF AgentTypeOK, AnswerWith
  <2>3. ThreadsFollowPc'
    BY Zenon, <1>0, <1>2 DEF ThreadsFollowPc, AgentTypeOK, AnswerWith
  <2>4. KeyInv'
    <3>1. pc' = [pc EXCEPT ![t] = "reply"]
      BY Zenon, <1>2 DEF AnswerWith
    <3>2. \A r \in Requests : execs'[r] \in Nat /\ execs'[r] >= execs[r]
      BY <1>0 DEF AgentTypeOK
    <3> QED
      BY Zenon, <1>0, <3>1, <3>2, KeyInvStill
  <2>5. execs[idempotent[key]] > 0 /\ KeyOf[idempotent[key]] = key
    BY Zenon, <2>1, <1>2 DEF KeyInv
  <2>6. OkAnswerWasExecuted'
    BY <1>0, <1>2, <2>1, <2>5, DispatchAssumption
    DEF OkAnswerWasExecuted, AgentTypeOK, AnswerWith
  <2> QED
    BY <1>1, <2>2, <2>3, <2>4, <2>6
<1>3. CASE /\ Cached(key) = NoRequest /\ UNCHANGED answer
           /\ pc' = [pc EXCEPT ![t] = "run"]
  <2>1. AgentTypeOK'
    BY <1>0, <1>3 DEF AgentTypeOK
  <2>2. ThreadsFollowPc'
    BY Zenon, <1>0, <1>3 DEF ThreadsFollowPc, AgentTypeOK
  <2>3. KeyInv'
    <3>1. t \notin retrying
      <4>1. ASSUME t \in retrying PROVE FALSE
        <5>1. key \in storedKeys /\ key \in Keys
          BY Zenon, <1>0, <4>1 DEF KeyInv, AgentTypeOK
        <5>2. idempotent[key] # NoRequest /\ key # NoKey
          BY Zenon, <5>1, DispatchAssumption DEF KeyInv
        <5> QED
          BY Zenon, <1>3, <5>2 DEF Cached
      <4> QED
        BY Zenon, <4>1
    <3>2. \A r \in Requests : execs'[r] \in Nat /\ execs'[r] >= execs[r]
      BY <1>0 DEF AgentTypeOK
    <3> QED
      BY Zenon, <1>0, <1>3, <3>1, <3>2, KeyInvStill
  <2>4. OkAnswerWasExecuted'
    BY <1>0, <1>3 DEF OkAnswerWasExecuted
  <2> QED
    BY <1>1, <2>1, <2>2, <2>3, <2>4
<1> QED
  BY Zenon, <1>2, <1>3 DEF LookupKey

\* The work itself, done or failed.
LEMMA DispatchStep ==
  ASSUME AgentInv, NEW t \in Threads, Dispatch(t)
  PROVE  AgentInv'
<1> USE DEF AgentInv
<1>0. /\ pc[t] = "run" /\ req[t] \in Requests /\ answer[t] = NoRequest
      /\ execs' = [execs EXCEPT ![req[t]] = @ + 1]
      /\ UNCHANGED <<req, nonceOrder, nonces, idempotent, accepted, storedKeys, retrying>>
  BY DEF Dispatch, ThreadsFollowPc, cacheVars, keyVars
<1>1. /\ execs' \in [Requests -> Nat] /\ execs'[req[t]] > 0
      /\ \A r \in Requests : execs[r] \in Nat /\ execs'[r] \in Nat /\ execs'[r] >= execs[r]
  BY <1>0 DEF AgentTypeOK
<1>2. \E p \in {"reply", "store"}, a \in {NoRequest, req[t]} :
        /\ pc' = [pc EXCEPT ![t] = p] /\ answer' = [answer EXCEPT ![t] = a]
        /\ p = "store" => KeyOf[req[t]] # NoKey /\ a = req[t]
  BY Zenon DEF Dispatch, AnswerWith
<1>3. AgentTypeOK'
  BY ZenonT(40), <1>0, <1>1, <1>2 DEF AgentTypeOK
<1>4. ThreadsFollowPc'
  <2>1. PICK p \in {"reply", "store"}, a \in {NoRequest, req[t]} :
          /\ pc' = [pc EXCEPT ![t] = p] /\ answer' = [answer EXCEPT ![t] = a]
          /\ p = "store" => KeyOf[req[t]] # NoKey /\ a = req[t]
    BY ZenonT(40), <1>2
  <2>2. KeyOf[req[t]] \in Keys \cup {NoKey}
    BY <1>0, DispatchAssumption
  <2> QED
    BY <1>0, <2>1, <2>2 DEF ThreadsFollowPc, AgentTypeOK
<1>5. NonceInv'
  BY Zenon, <1>0 DEF NonceInv, OrderIsSuffix, SetIsList, AcceptedApart, Window
<1>6. KeyInv'
  <2>1. PICK p \in {"reply", "store"} : pc' = [pc EXCEPT ![t] = p]
    BY Zenon, <1>2
  <2>2. t \notin retrying
    BY Zenon, <1>0 DEF KeyInv
  <2>3. p \notin {"arrived", "lookup"}
    OBVIOUS
  <2> QED
    BY Zenon, <1>0, <1>1, <2>1, <2>2, <2>3, KeyInvStill
<1>7. OkAnswerWasExecuted'
  <2> SUFFICES ASSUME NEW u \in Threads, answer'[u] # NoRequest
      PROVE /\ execs'[answer'[u]] > 0
            /\ answer'[u] = req[u]
               \/ (KeyOf[answer'[u]] = KeyOf[req[u]] /\ KeyOf[answer'[u]] # NoKey)
    BY Zenon, <1>0 DEF OkAnswerWasExecuted
  <2>1. CASE u = t
    BY Zenon, <2>1, <1>0, <1>1, <1>2 DEF AgentTypeOK
  <2>2. CASE u # t
    <3>1. answer'[u] = answer[u] /\ answer[u] \in Requests
      BY <2>2, <1>2 DEF AgentTypeOK
    <3>2. execs[answer[u]] > 0
      BY Zenon, <3>1 DEF OkAnswerWasExecuted
    <3>3. execs'[answer[u]] > 0
      BY <3>1, <3>2, <1>1
    <3> QED
      BY Zenon, <3>1, <3>3 DEF OkAnswerWasExecuted
  <2> QED
    BY <2>1, <2>2
<1> QED
  BY Zenon, <1>3, <1>4, <1>5, <1>6, <1>7

\* The answer goes into the cache.
LEMMA StoreStep ==
  ASSUME AgentInv, NEW t \in Threads, Store(t)
  PROVE  AgentInv'
<1> DEFINE key == KeyOf[req[t]]
<1> USE DEF AgentInv
<1>0. /\ pc[t] = "store" /\ req[t] \in Requests /\ answer[t] = req[t] /\ key \in Keys
      /\ idempotent' = [idempotent EXCEPT ![key] = answer[t]]
      /\ storedKeys' = storedKeys \cup {key}
      /\ pc' = [pc EXCEPT ![t] = "reply"]
      /\ UNCHANGED <<req, answer, execs, nonceOrder, nonces, accepted, retrying>>
  BY Zenon DEF Store, ThreadsFollowPc
<1>1. AgentTypeOK'
  BY <1>0 DEF AgentTypeOK
<1>2. ThreadsFollowPc'
  BY Zenon, <1>0 DEF ThreadsFollowPc, AgentTypeOK
<1>3. NonceInv'
  BY ZenonT(40), <1>0 DEF NonceInv, OrderIsSuffix, SetIsList, AcceptedApart, Window
<1>4. OkAnswerWasExecuted'
  BY Zenon, <1>0 DEF OkAnswerWasExecuted
<1>5. KeyInv'
  <2>1. /\ idempotent'[key] = req[t]
        /\ \A k \in Keys : k # key => idempotent'[k] = idempotent[k]
    BY Zenon, <1>0 DEF AgentTypeOK
  <2>2. execs[req[t]] > 0 /\ req[t] # NoRequest
    BY Zenon, <1>0, DispatchAssumption DEF OkAnswerWasExecuted
  <2>3. \A k \in Keys : idempotent'[k] # NoRequest =>
          execs[idempotent'[k]] > 0 /\ KeyOf[idempotent'[k]] = k
    BY Zenon, <1>0, <2>1, <2>2 DEF KeyInv
  <2>4. \A k \in storedKeys' : idempotent'[k] # NoRequest
    BY Zenon, <1>0, <2>1, <2>2 DEF KeyInv, AgentTypeOK
  <2>5. ASSUME NEW u \in retrying
        PROVE  /\ pc'[u] \notin {"idle", "run", "store"}
               /\ pc'[u] \in {"arrived", "lookup"} => KeyOf[req[u]] \in storedKeys'
    <3>1. u # t
      BY Zenon, <1>0 DEF KeyInv
    <3>2. pc'[u] = pc[u]
      BY Zenon, <1>0, <3>1 DEF AgentTypeOK
    <3> QED
      BY Zenon, <1>0, <3>2 DEF KeyInv
  <2> QED
    BY Zenon, <1>0, <2>3, <2>4, <2>5 DEF KeyInv
<1> QED
  BY Zenon, <1>1, <1>2, <1>3, <1>4, <1>5

\* A thread takes a frame, or has written its answer.
LEMMA IdleStep ==
  ASSUME AgentInv, NEW t \in Threads, Reply(t) \/ \E r \in Requests : Arrive(t, r)
  PROVE  AgentInv'
<1> USE DEF AgentInv
<1>0. UNCHANGED <<execs, nonceOrder, nonces, idempotent, accepted, storedKeys>>
  BY Zenon DEF Reply, Arrive
<1>1. AgentTypeOK'
  <2>1. pc' \in [Threads -> {"idle", "arrived", "lookup", "run", "store", "reply"}]
    BY Zenon DEF AgentTypeOK, Reply, Arrive
  <2>2. req' \in [Threads -> Requests \cup {NoRequest}]
    <3>1. \E r \in Requests \cup {NoRequest} : req' = [req EXCEPT ![t] = r]
      BY DEF Reply, Arrive
    <3> QED
      BY <3>1 DEF AgentTypeOK
  <2>3. answer' \in [Threads -> Requests \cup {NoRequest}]
    <3>1. answer' = answer \/ answer' = [answer EXCEPT ![t] = NoRequest]
      BY DEF Reply, Arrive
    <3> QED
      BY Zenon, <3>1 DEF AgentTypeOK
  <2>4. retrying' \in SUBSET Threads
    BY DEF AgentTypeOK, Reply, Arrive
  <2> QED
    BY Zenon, <1>0, <2>1, <2>2, <2>3, <2>4 DEF AgentTypeOK
<1>2. ThreadsFollowPc'
  <2>1. CASE Reply(t)
    BY Zenon, <2>1 DEF ThreadsFollowPc, AgentTypeOK, Reply
  <2>2. CASE \E r \in Requests : Arrive(t, r)
    BY Zenon, <2>2 DEF ThreadsFollowPc, AgentTypeOK, Arrive
  <2> QED
    BY Zenon, <2>1, <2>2
<1>3. NonceInv'
  BY <1>0 DEF NonceInv, OrderIsSuffix, SetIsList, AcceptedApart, Window
<1>4. KeyInv'
  <2>1. ASSUME NEW u \in retrying'
        PROVE  /\ pc'[u] \notin {"idle", "run", "store"}
               /\ pc'[u] \in {"arrived", "lookup"} => KeyOf[req'[u]] \in storedKeys
    <3>0. pc[t] \in {"idle", "reply"}
      BY Zenon DEF Reply, Arrive
    <3>1. CASE u # t
      <4>1. u \in retrying /\ pc'[u] = pc[u] /\ req'[u] = req[u]
        BY <2>1, <3>1 DEF Reply, Arrive, AgentTypeOK
      <4> QED
        BY Zenon, <4>1 DEF KeyInv
    <3>2. CASE u = t
      <4>1. PICK r \in Requests : Arrive(t, r)
        BY Zenon, <2>1, <3>2 DEF Reply
      <4>2. t \notin retrying
        BY Zenon, <4>1 DEF KeyInv, Arrive
      <4>3. KeyOf[r] \in storedKeys
        BY Zenon, <2>1, <3>2, <4>1, <4>2 DEF Arrive
      <4>4. pc'[t] = "arrived" /\ req'[t] = r
        BY Zenon, <4>1 DEF Arrive, AgentTypeOK
      <4> QED
        BY Zenon, <3>2, <4>3, <4>4
    <3> QED
      BY Zenon, <3>1, <3>2
  <2> QED
    BY Zenon, <1>0, <2>1 DEF KeyInv
<1>5. OkAnswerWasExecuted'
  <2>1. CASE Reply(t)
    BY <1>0, <2>1 DEF OkAnswerWasExecuted, AgentTypeOK, Reply
  <2>2. CASE \E r \in Requests : Arrive(t, r)
    <3>1. answer[t] = NoRequest
      BY <2>2 DEF Arrive, ThreadsFollowPc
    <3> QED
      BY ZenonT(40), <1>0, <2>2, <3>1 DEF OkAnswerWasExecuted, AgentTypeOK, Arrive
  <2> QED
    BY ZenonT(40), <2>1, <2>2
<1> QED
  BY <1>1, <1>2, <1>3, <1>4, <1>5

\* An entry of the idempotency cache expires.
LEMMA ForgetStep ==
  ASSUME AgentInv, NEW e \in Keys, Forget(e)
  PROVE  AgentInv'
<1> USE DEF AgentInv
<1>0. /\ idempotent' = [idempotent EXCEPT ![e] = NoRequest]
      /\ storedKeys' = storedKeys \ {e}
      /\ retrying' = {t \in retrying : KeyOf[req[t]] # e}
      /\ UNCHANGED <<pc, req, answer, execs, nonceOrder, nonces, accepted>>
  BY Zenon DEF Forget
<1>1. AgentTypeOK' /\ ThreadsFollowPc' /\ OkAnswerWasExecuted'
  BY <1>0 DEF AgentTypeOK, ThreadsFollowPc, OkAnswerWasExecuted
<1>2. NonceInv'
  BY ZenonT(40), <1>0 DEF NonceInv, OrderIsSuffix, SetIsList, AcceptedApart, Window
<1>3. KeyInv'
  <2>1. /\ idempotent'[e] = NoRequest
        /\ \A k \in Keys : k # e => idempotent'[k] = idempotent[k]
    BY Zenon, <1>0 DEF AgentTypeOK
  <2>2. \A k \in Keys : idempotent'[k] # NoRequest =>
          execs[idempotent'[k]] > 0 /\ KeyOf[idempotent'[k]] = k
    BY Zenon, <2>1 DEF KeyInv
  <2>3. \A k \in storedKeys' : idempotent'[k] # NoRequest
    BY Zenon, <1>0, <2>1 DEF KeyInv, AgentTypeOK
  <2>4. \A t \in retrying' :
          /\ pc[t] \notin {"idle", "run", "store"}
          /\ pc[t] \in {"arrived", "lookup"} => KeyOf[req[t]] \in storedKeys'
    BY Zenon, <1>0 DEF KeyInv
  <2> QED
    BY Zenon, <1>0, <2>2, <2>3, <2>4 DEF KeyInv
<1> QED
  BY <1>1, <1>2, <1>3

\* The process is restarted with an empty cache.
LEMMA RestartAgentStep ==
  ASSUME AgentInv, RestartAgent
  PROVE  AgentInv'
<1> USE DEF AgentInv
<1>1. AgentTypeOK'
  BY DEF AgentTypeOK, RestartAgent
<1>2. ThreadsFollowPc' /\ OkAnswerWasExecuted'
  BY ZenonT(40) DEF ThreadsFollowPc, OkAnswerWasExecuted, RestartAgent
<1>3. NonceInv'
  BY WindowType DEF RestartAgent, NonceInv, OrderIsSuffix, SetIsList, AcceptedApart, Window
<1>4. KeyInv'
  BY Zenon DEF RestartAgent, KeyInv
<1> QED
  BY <1>1, <1>2, <1>3, <1>4

-----------------------------------------------------------------------------
\* Every step of the agent preserves the invariant.
LEMMA AgentInvStep == AgentInv /\ [AgentNext]_agentVars => AgentInv'
<1> SUFFICES ASSUME AgentInv, [AgentNext]_agentVars PROVE AgentInv'
  OBVIOUS
<1>1. ASSUME NEW t \in Threads, ServeStep(t) PROVE AgentInv'
  BY <1>1, RefuseStep, CheckNonceStep, LookupKeyStep, DispatchStep, StoreStep DEF ServeStep
<1>2. ASSUME NEW t \in Threads, Reply(t) \/ \E r \in Requests : Arrive(t, r)
      PROVE  AgentInv'
  BY <1>2, IdleStep
<1>3. ASSUME NEW k \in Keys, Forget(k) PROVE AgentInv'
  BY <1>3, ForgetStep
<1>4. CASE RestartAgent
  BY <1>4, RestartAgentStep
<1>5. CASE UNCHANGED agentVars
  <2>1. UNCHANGED <<pc, req, answer, nonceOrder, nonces, idempotent, accepted, execs,
                    storedKeys, retrying>>
    BY Zenon, <1>5 DEF agentVars
  <2>2. AgentTypeOK' /\ ThreadsFollowPc' /\ OkAnswerWasExecuted'
    BY <2>1 DEF AgentInv, AgentTypeOK, ThreadsFollowPc, OkAnswerWasExecuted
  <2>3. NonceInv'
    BY Zenon, <2>1 DEF AgentInv, NonceInv, OrderIsSuffix, SetIsList, AcceptedApart, Window
  <2>4. KeyInv'
    BY Zenon, <2>1 DEF AgentInv, KeyInv
  <2> QED
    BY <2>2, <2>3, <2>4 DEF AgentInv
<1> QED
  BY <1>1, <1>2, <1>3, <1>4, <1>5 DEF AgentNext

\* Every reachable state of the agent's request path satisfies the inductive
\* invariant: what threads hold follows their place in handle_on, the list of
\* nonces is the end of what was accepted, and a stored answer is found by every
\* request with its key that arrives before it expires.
THEOREM AgentInvariant == AgentSpec => []AgentInv
  BY AgentInitInv, AgentInvStep, PTL DEF AgentSpec

\* The inductive invariant gives the window of nonce_fresh: between two
\* acceptances of one nonce lie Window positions with different nonces.
LEMMA NoncesFollow == AgentInv => NoncesAreKept
<1> SUFFICES ASSUME AgentInv PROVE NoncesAreKept
  OBVIOUS
<1> USE WindowType
<1>0. /\ nonceOrder \in Seq(Nonces) /\ accepted \in Seq(Nonces)
      /\ OrderIsSuffix /\ SetIsList /\ AcceptedApart
  BY DEF AgentInv, AgentTypeOK, NonceInv
<1>a. /\ Len(accepted) \in Nat /\ DOMAIN accepted = 1 .. Len(accepted)
      /\ Len(nonceOrder) \in Nat /\ DOMAIN nonceOrder = 1 .. Len(nonceOrder)
  BY <1>0
<1>1. NonceListMatchesSet
  <2>1. ASSUME NEW i \in 1 .. Len(nonceOrder), NEW j \in 1 .. Len(nonceOrder), i < j
        PROVE  nonceOrder[i] # nonceOrder[j]
    <3> DEFINE d == Len(accepted) - Len(nonceOrder)
    <3>a. Len(nonceOrder) <= Len(accepted) /\ Len(nonceOrder) <= Window
      BY <1>0 DEF OrderIsSuffix
    <3>0. d \in Nat /\ Len(nonceOrder) <= Window
      BY <3>a, <1>a
    <3>1. /\ d + i \in 1 .. Len(accepted) /\ d + j \in 1 .. Len(accepted)
          /\ d + i < d + j /\ (d + j) - (d + i) <= Window
      BY <2>1, <3>0, <1>a
    <3>2. accepted[d + i] # accepted[d + j]
      BY <3>1, <1>0 DEF AcceptedApart
    <3>3. nonceOrder[i] = accepted[d + i] /\ nonceOrder[j] = accepted[d + j]
      BY <1>0 DEF OrderIsSuffix
    <3> QED
      BY <3>2, <3>3
  <2>2. \A i, j \in 1 .. Len(nonceOrder) : nonceOrder[i] = nonceOrder[j] => i = j
    <3> SUFFICES ASSUME NEW i \in 1 .. Len(nonceOrder), NEW j \in 1 .. Len(nonceOrder), i # j
                 PROVE  nonceOrder[i] # nonceOrder[j]
      OBVIOUS
    <3>1. i < j \/ j < i
      OBVIOUS
    <3> QED
      BY <3>1, <2>1
  <2> QED
    BY Zenon, <2>2, <1>0, <1>a DEF NonceListMatchesSet, OrderIsSuffix, SetIsList
<1>2. NonceWindow
  <2> SUFFICES ASSUME NEW i \in 1 .. Len(accepted), NEW j \in 1 .. Len(accepted),
                      i < j, accepted[i] = accepted[j]
               PROVE  Cardinality({accepted[m] : m \in i + 1 .. j - 1}) >= Window
    BY <1>a DEF NonceWindow
  <2>1. j - i > Window
    BY <1>0, <1>a DEF AcceptedApart
  <2> DEFINE between == i + 1 .. j - 1
             last == j - Window .. j - 1
             T == {accepted[m] : m \in between}
             f == [m \in between |-> accepted[m]]
             g == [m \in last |-> accepted[m]]
  <2>2. last \subseteq between /\ between \subseteq 1 .. Len(accepted)
    BY <2>1, <1>a
  <2>3. f \in Surjection(between, T)
    BY DEF Surjection
  <2>4. IsFiniteSet(between)
    <3>1. i + 1 \in Int /\ j - 1 \in Int
      OBVIOUS
    <3> QED
      BY <3>1, FS_Interval
  <2>5. IsFiniteSet(T)
    BY <2>3, <2>4, FS_Surjection
  <2>6. \A m1, m2 \in last : accepted[m1] = accepted[m2] => m1 = m2
    <3> SUFFICES ASSUME NEW m1 \in last, NEW m2 \in last, m1 < m2
                 PROVE  accepted[m1] # accepted[m2]
      BY <2>1
    <3>1. m1 \in 1 .. Len(accepted) /\ m2 \in 1 .. Len(accepted) /\ m2 - m1 <= Window
      BY <2>2
    <3> QED
      BY <3>1, <1>0 DEF AcceptedApart
  <2>7. g \in Injection(last, T)
    <3>1. g \in [last -> T]
      BY Zenon, <2>2
    <3> QED
      BY Zenon, <3>1, <2>6 DEF Injection, IsInjective
  <2>8. Cardinality(last) <= Cardinality(T)
    BY <2>5, <2>7, FS_Injection
  <2>9. Cardinality(last) = Window
    <3>1. j - Window \in Int /\ j - 1 \in Int
      OBVIOUS
    <3>2. Cardinality(last) = IF j - Window > j - 1 THEN 0 ELSE (j - 1) - (j - Window) + 1
      BY Zenon, <3>1, FS_Interval
    <3> QED
      BY <3>2
  <2>10. Cardinality(T) \in Nat
    BY <2>5, FS_CardinalityType
  <2> QED
    BY <2>8, <2>9, <2>10
<1> QED
  BY <1>1, <1>2 DEF NoncesAreKept

\* The inductive invariant keeps late retries from the work.
LEMMA KeysFollow == AgentInv => KeysAreHonoured
  BY Zenon DEF AgentInv, KeyInv, KeysAreHonoured, RetriesAreCached

\* For every size of the cache and any threads, nonce_order and nonces agree
\* and nonce_fresh accepts a nonce again only after Window other ones.
THEOREM NoncesKept == AgentSpec => []NoncesAreKept
  BY AgentInvariant, NoncesFollow, PTL

\* With any threads and keys, a request that arrives once an answer is stored
\* under its key is not executed while the answer is kept, and every success
\* answered was executed.
THEOREM KeysHonoured == AgentSpec => []KeysAreHonoured
  BY AgentInvariant, KeysFollow, PTL

-----------------------------------------------------------------------------
\* Some approval got past the status check of a.
Tried(a) == \E c \in Calls : kind[c] = "approve" /\ target[c] = a

ControlType ==
  /\ record \in [Actions -> {"none", "pending", "approved", "rejected"}]
  /\ enqueue \in [Actions -> {"new", "saved", "indexed", "done", "failed"}]
  /\ call \in [Calls -> {"new", "ladder", "save", "srem", "done"}]
  /\ kind \in [Calls -> {"approve", "reject"}]
  /\ target \in [Calls -> Actions \cup {NoAction}]
  /\ client \in [Calls \X Tiers -> {"off", "ready", "waiting", "ok", "failed"}]
  /\ server \in [Calls \X Tiers -> Threads \cup {NoThread}]

\* What a handler knows at each of its awaits.
CallShape ==
  \A c \in Calls :
    /\ call[c] = "new" <=> target[c] = NoAction
    /\ call[c] = "ladder" => kind[c] = "approve"
    /\ call[c] = "srem" => record[target[c]] # "pending"
    /\ call[c] = "save" /\ kind[c] = "approve" => target[c] \in answered

\* Before its SETEX an action has no record and no call works on it.
FreshAction ==
  \A a \in Actions :
    enqueue[a] = "new" => record[a] = "none" /\ \A c \in Calls : target[c] # a

\* Nothing of an action is in the guest but by an approval.
ClientsAreApprovals ==
  \A c \in Calls, i \in Tiers :
    client[<<c, i>>] # "off" => kind[c] = "approve" /\ target[c] \in Actions

GuestWork ==
  /\ \A t \in Threads : pc[t] # "idle" /\ req[t] \in Actions => Tried(req[t])
  /\ \A a \in Actions : execs[a] > 0 => Tried(a)

\* Approved means answered; and where no approval was cut short or overlapped,
\* a tried action is not rejected, nobody is about to reject it, and while it
\* is pending its approval is still under way.
Verdicts ==
  \A a \in Actions :
    /\ record[a] = "approved" => a \in answered
    /\ Tried(a) /\ a \notin broken =>
         /\ record[a] # "rejected"
         /\ \A c \in Calls : kind[c] = "reject" /\ target[c] = a => call[c] # "save"
         /\ record[a] = "pending" =>
              \A c \in Calls : kind[c] = "approve" /\ target[c] = a => c \in Approving(a)

\* A pending action past its second command is in the index.
Indexed ==
  \A a \in Actions :
    enqueue[a] \in {"indexed", "done"} /\ record[a] = "pending" => a \in pendingIndex

ControlInv ==
  /\ ControlType /\ CallShape /\ FreshAction /\ ClientsAreApprovals /\ GuestWork
  /\ Verdicts /\ Indexed

-----------------------------------------------------------------------------
\* The first state.
LEMMA ControlInitInv == Init => ControlInv
<1> SUFFICES ASSUME Init PROVE ControlInv
  OBVIOUS
<1> USE DEF Init, ActionsInit, AgentInit
<1>1. ControlType
  BY ZenonT(40) DEF ControlType
<1>2. CallShape /\ FreshAction
  BY ActionsAssumption DEF CallShape, FreshAction
<1>3. ClientsAreApprovals
  BY Zenon DEF ClientsAreApprovals
<1>4. GuestWork
  <2>1. \A t \in Threads : pc[t] = "idle"
    BY Zenon
  <2>2. \A a \in Actions : execs[a] = 0
    BY Zenon, ActionsAssumption
  <2>3. ~(0 > 0)
    OBVIOUS
  <2> QED
    BY Zenon, <2>1, <2>2, <2>3 DEF GuestWork
<1>5. Verdicts /\ Indexed
  BY ActionsAssumption DEF Verdicts, Indexed, Tried
<1> QED
  BY Zenon, <1>1, <1>2, <1>3, <1>4, <1>5 DEF ControlInv

\* The agent's part of a step of the whole is a step of the agent.
LEMMA ControlStepIsAgentStep ==
  ASSUME ControlInv, [Next]_vars
  PROVE  [AgentNext]_agentVars
<1>1. CASE ApiStep
  BY <1>1 DEF ApiStep
<1>2. CASE AgentStep
  BY Zenon, <1>2 DEF AgentStep, AgentNext
<1>3. ASSUME NEW x \in Calls \X Tiers, NEW t \in Threads, Deliver(x, t)
      PROVE  AgentNext
  <2>1. PICK c \in Calls, i \in Tiers : x = <<c, i>>
    OBVIOUS
  <2>2. client[<<c, i>>] = "ready" /\ Arrive(t, target[c])
    BY Zenon, <1>3, <2>1 DEF Deliver, ClientSends
  <2>3. target[c] \in Requests
    BY Zenon, <2>2, ActionsAssumption DEF ControlInv, ClientsAreApprovals
  <2> QED
    BY <2>2, <2>3 DEF AgentNext
<1>4. ASSUME NEW x \in Calls \X Tiers, Answer(x)
      PROVE  AgentNext
  <2>1. server[x] \in Threads
    BY Zenon, <1>4 DEF Answer, ControlInv, ControlType
  <2> QED
    BY <2>1, <1>4 DEF Answer, AgentNext
<1>5. ASSUME NEW t \in Threads, AnswerNobody(t) PROVE AgentNext
  BY <1>5 DEF AnswerNobody, AgentNext
<1>6. ASSUME NEW t \in Threads, NEW r \in Requests \ Actions, HostSend(t, r)
      PROVE  AgentNext
  BY <1>6 DEF HostSend, AgentNext
<1>7. CASE Restart
  BY <1>7 DEF Restart, AgentNext
<1>8. CASE UNCHANGED vars
  BY Zenon, <1>8 DEF vars
<1> QED
  BY <1>1, <1>2, <1>3, <1>4, <1>5, <1>6, <1>7, <1>8 DEF Next

-----------------------------------------------------------------------------
\* Threads that go on with their request, or are through with it, and a
\* restart, need no further approval.
LEMMA WorkStep ==
  ASSUME AgentInv, GuestWork, UNCHANGED <<kind, target>>,
         \/ UNCHANGED agentVars
         \/ RestartAgent
         \/ \E k \in Keys : Forget(k)
         \/ \E t \in Threads : ServeStep(t) \/ Reply(t)
  PROVE  GuestWork'
<1>1. \A a : Tried(a)' = Tried(a)
  BY Zenon DEF Tried
<1>2. CASE UNCHANGED agentVars
  BY Zenon, <1>1, <1>2 DEF GuestWork, agentVars
<1>3. CASE RestartAgent
  BY Zenon, <1>1, <1>3 DEF GuestWork, RestartAgent
<1>4. CASE \E k \in Keys : Forget(k)
  BY Zenon, <1>1, <1>4 DEF GuestWork, Forget
<1>5. ASSUME NEW t \in Threads, Reply(t) PROVE GuestWork'
  BY Zenon, <1>1, <1>5 DEF GuestWork, Reply, AgentInv, AgentTypeOK
<1>6. ASSUME NEW t \in Threads, Dispatch(t) PROVE GuestWork'
  <2>0. pc[t] = "run" /\ req' = req /\ execs' = [execs EXCEPT ![req[t]] = @ + 1]
    BY ZenonT(40), <1>6 DEF Dispatch
  <2>1. \A u \in Threads : pc'[u] # "idle" => pc[u] # "idle"
    BY <1>6 DEF Dispatch, AnswerWith, AgentInv, AgentTypeOK
  <2>2. ASSUME NEW a \in Actions, execs'[a] > 0 PROVE Tried(a)
    <3>1. CASE a = req[t]
      BY Zenon, <3>1, <2>0 DEF GuestWork
    <3>2. CASE a # req[t]
      <4>1. execs'[a] = execs[a]
        BY ZenonT(40), <3>2, <2>0, ActionsAssumption DEF AgentInv, AgentTypeOK
      <4> QED
        BY ZenonT(40), <4>1, <2>2 DEF GuestWork
    <3> QED
      BY Zenon, <3>1, <3>2
  <2> QED
    BY <1>1, <2>0, <2>1, <2>2 DEF GuestWork
<1>7. ASSUME NEW t \in Threads,
             Refuse(t) \/ CheckNonce(t) \/ LookupKey(t) \/ Store(t)
      PROVE  GuestWork'
  <2>1. /\ UNCHANGED <<req, execs>> /\ pc[t] # "idle"
        /\ \A u \in Threads : u # t => pc'[u] = pc[u]
    BY Zenon, <1>7 DEF Refuse, CheckNonce, LookupKey, Store, AnswerWith, AgentInv, AgentTypeOK
  <2> QED
    BY Zenon, <1>1, <2>1 DEF GuestWork
<1> QED
  BY <1>2, <1>3, <1>4, <1>5, <1>6, <1>7 DEF ServeStep

\* A step that leaves the API's data and its handlers alone.
LEMMA QuietStep ==
  ASSUME ControlInv, ControlType', ClientsAreApprovals', GuestWork',
         UNCHANGED <<record, enqueue, pendingIndex, call, kind, target, answered, broken>>
  PROVE  ControlInv'
<1> USE DEF ControlInv
<1>1. CallShape' /\ FreshAction' /\ Indexed'
  BY ZenonT(40) DEF CallShape, FreshAction, Indexed
<1>2. Verdicts'
  <2>1. \A a : Tried(a)' = Tried(a) /\ Approving(a)' = Approving(a)
    BY Zenon DEF Tried, Approving
  <2> QED
    BY ZenonT(40), <2>1 DEF Verdicts
<1> QED
  BY Zenon, <1>1, <1>2

\* One of the commands of enqueue.
LEMMA EnqueueInv ==
  ASSUME AgentInv, ControlInv, NEW e \in Actions, EnqueueStep(e), UNCHANGED agentVars
  PROVE  ControlInv'
<1> USE DEF ControlInv
<1>0. /\ UNCHANGED <<call, kind, target, client, server, answered, broken>>
      /\ \E s \in {"saved", "indexed", "done", "failed"} : enqueue' = [enqueue EXCEPT ![e] = s]
  BY DEF EnqueueStep, callVars, clientVars
<1>1. \/ enqueue[e] = "new" /\ record' = [record EXCEPT ![e] = "pending"]
      \/ UNCHANGED record
  BY Zenon DEF EnqueueStep
<1>2. ControlType' /\ ClientsAreApprovals'
  BY <1>0, <1>1 DEF ControlType, ClientsAreApprovals
<1>3. GuestWork'
  BY Zenon, <1>0, WorkStep
<1>4. CallShape'
  BY <1>0, <1>1 DEF CallShape, FreshAction, ControlType
<1>5. FreshAction'
  BY <1>0, <1>1 DEF FreshAction, ControlType
<1>6. Indexed'
  BY ZenonT(40), <1>0, <1>1 DEF Indexed, EnqueueStep, ControlType
<1>7. Verdicts'
  <2>1. \A a : Tried(a)' = Tried(a) /\ Approving(a)' = Approving(a)
    BY <1>0 DEF Tried, Approving
  <2>2. \A a \in Actions : record'[a] = record[a] \/ (record'[a] = "pending" /\ ~Tried(a))
    BY Zenon, <1>1 DEF FreshAction, Tried, ControlType
  <2> QED
    BY Zenon, <1>0, <2>1, <2>2 DEF Verdicts
<1> QED
  BY Zenon, <1>2, <1>3, <1>4, <1>5, <1>6, <1>7

\* A record expires.
LEMMA ExpireInv ==
  ASSUME AgentInv, ControlInv, NEW e \in Actions, Expire(e), UNCHANGED agentVars
  PROVE  ControlInv'
<1> USE DEF ControlInv
<1>0. /\ UNCHANGED <<enqueue, pendingIndex, call, kind, target, client, server, answered, broken>>
      /\ record' = [record EXCEPT ![e] = "none"]
  BY DEF Expire, callVars, clientVars
<1>1. \A a \in Actions : record'[a] = record[a] \/ record'[a] = "none"
  BY Zenon, <1>0 DEF ControlType
<1>2. ControlType' /\ ClientsAreApprovals'
  BY <1>0 DEF ControlType, ClientsAreApprovals
<1>3. GuestWork'
  BY Zenon, <1>0, WorkStep
<1>4. CallShape'
  <2>1. ASSUME NEW c \in Calls, call[c] = "srem" PROVE record'[target[c]] # "pending"
    <3>1. target[c] \in Actions
      BY Zenon, <2>1 DEF CallShape, ControlType
    <3> QED
      BY Zenon, <1>1, <2>1, <3>1 DEF CallShape
  <2> QED
    BY Zenon, <1>0, <2>1 DEF CallShape
<1>5. FreshAction' /\ Indexed'
  BY Zenon, <1>0, <1>1 DEF FreshAction, Indexed
<1>6. Verdicts'
  <2>1. \A a : Tried(a)' = Tried(a) /\ Approving(a)' = Approving(a)
    BY ZenonT(40), <1>0 DEF Tried, Approving
  <2> QED
    BY ZenonT(40), <1>0, <1>1, <2>1 DEF Verdicts
<1> QED
  BY <1>2, <1>3, <1>4, <1>5, <1>6

\* A call loads the record: whoever approves or rejects beside another call
\* is noted in broken, and an approval nobody cut short is still under way.
LEMMA LoadInv ==
  ASSUME AgentInv, ControlInv, NEW c \in Calls, NEW e \in Actions, Load(c, e),
         UNCHANGED agentVars
  PROVE  ControlInv'
<1> USE DEF ControlInv
<1>0. /\ call[c] = "new" /\ record[e] = "pending" /\ target[c] = NoAction
      /\ target' = [target EXCEPT ![c] = e]
      /\ call' = [call EXCEPT ![c] = IF kind[c] = "approve" THEN "ladder" ELSE "save"]
      /\ UNCHANGED <<record, enqueue, pendingIndex, kind, server, answered>>
      /\ e # NoAction /\ NoAction \notin Actions
  BY ZenonT(40), ActionsAssumption DEF Load, Take, CallShape
<1>1. /\ client' = IF kind[c] = "approve" THEN [client EXCEPT ![<<c, 1>>] = "ready"] ELSE client
      /\ broken \subseteq broken' /\ \A a \in Actions : a # e => (a \in broken' <=> a \in broken)
  BY ZenonT(40) DEF Load, Take
<1>2. ControlType'
  BY Zenon, <1>0, <1>1 DEF ControlType
<1>3. CallShape' /\ Indexed'
  BY ZenonT(40), <1>0 DEF CallShape, Indexed, ControlType
<1>4. FreshAction'
  BY Zenon, <1>0 DEF FreshAction, ControlType
<1>5. ClientsAreApprovals'
  <2> SUFFICES ASSUME NEW d \in Calls, NEW i \in Tiers, client'[<<d, i>>] # "off"
      PROVE kind[d] = "approve" /\ target'[d] \in Actions
    BY Zenon, <1>0 DEF ClientsAreApprovals
  <2>1. CASE d = c
    <3>1. kind[c] = "approve"
      BY Zenon, <2>1, <1>0, <1>1 DEF ClientsAreApprovals
    <3> QED
      BY <2>1, <3>1, <1>0 DEF ControlType
  <2>2. CASE d # c
    <3>1. client'[<<d, i>>] = client[<<d, i>>]
      BY Zenon, <2>2, <1>1 DEF ControlType
    <3> QED
      BY Zenon, <2>2, <3>1, <1>0 DEF ClientsAreApprovals, ControlType
  <2> QED
    BY Zenon, <2>1, <2>2
<1>6. \A a \in Actions : Tried(a) => Tried(a)'
  BY <1>0 DEF Tried, ControlType
<1>7. GuestWork'
  <2>1. UNCHANGED <<pc, req, execs>>
    BY DEF agentVars
  <2> QED
    BY Zenon, <1>6, <2>1 DEF GuestWork
<1>8. Verdicts'
  <2> SUFFICES ASSUME NEW a \in Actions, Tried(a)', a \notin broken'
      PROVE /\ record[a] # "rejected"
            /\ \A d \in Calls : kind[d] = "reject" /\ target'[d] = a => call'[d] # "save"
            /\ record[a] = "pending" =>
                 \A d \in Calls : kind[d] = "approve" /\ target'[d] = a => d \in Approving(a)'
    BY Zenon, <1>0 DEF Verdicts
  <2>1. CASE a # e
    <3>1. Tried(a) /\ a \notin broken
      BY Zenon, <2>1, <1>0, <1>1 DEF Tried, ControlType
    <3>2. \A d \in Calls : target'[d] = a => d # c /\ target[d] = a /\ call'[d] = call[d]
      BY Zenon, <2>1, <1>0 DEF ControlType
    <3> QED
      BY <3>1, <3>2, <1>0 DEF Verdicts, Approving
  <2>2. CASE a = e
    <3>1. /\ Approving(e) = {} /\ (kind[c] = "approve" => Rejecting(e) = {})
          /\ e \notin broken
      BY Zenon, <2>2 DEF Load, Take
    <3>2. ~Tried(e)
      <4>1. ASSUME Tried(e) PROVE FALSE
        <5>1. PICK d \in Calls : kind[d] = "approve" /\ target[d] = e
          BY Zenon, <4>1 DEF Tried
        <5>2. d \in Approving(e)
          BY Zenon, <4>1, <5>1, <3>1, <1>0 DEF Verdicts
        <5> QED
          BY Zenon, <5>2, <3>1
      <4> QED
        BY <4>1
    <3>3. \A d \in Calls : kind[d] = "approve" /\ target'[d] = e => d = c
      BY <3>2, <1>0 DEF Tried, ControlType
    <3>4. kind[c] = "approve"
      BY Zenon, <2>2, <3>3, <1>0 DEF Tried
    <3>5. \A d \in Calls : kind[d] = "reject" /\ target'[d] = e => call'[d] # "save"
      BY Zenon, <3>1, <3>4, <1>0 DEF Rejecting, ControlType
    <3>6. c \in Approving(e)'
      BY <3>4, <1>0 DEF Approving, ControlType
    <3> QED
      BY Zenon, <2>2, <3>3, <3>5, <3>6, <1>0
  <2> QED
    BY Zenon, <2>1, <2>2
<1> QED
  BY Zenon, <1>2, <1>3, <1>4, <1>5, <1>7, <1>8

\* A handler ends without a verdict: an approval is noted in broken.
LEMMA FailInv ==
  ASSUME AgentInv, ControlInv, NEW c \in Calls, Fail(c), call[c] # "new",
         UNCHANGED <<record, enqueue, pendingIndex, kind, target, client, server, answered>>,
         UNCHANGED agentVars
  PROVE  ControlInv'
<1> USE DEF ControlInv
<1>0. /\ call' = [call EXCEPT ![c] = "done"] /\ target[c] \in Actions
      /\ broken' = IF kind[c] = "approve" THEN broken \cup {target[c]} ELSE broken
  BY Zenon DEF Fail, CallShape, ControlType
<1>1. ControlType' /\ ClientsAreApprovals' /\ FreshAction' /\ Indexed'
  BY ZenonT(40), <1>0 DEF ControlType, ClientsAreApprovals, FreshAction, Indexed
<1>2. CallShape'
  BY <1>0 DEF CallShape, ControlType
<1>3. GuestWork'
  BY WorkStep
<1>4. Verdicts'
  <2> SUFFICES ASSUME NEW a \in Actions, Tried(a), a \notin broken'
      PROVE /\ record[a] # "rejected"
            /\ \A d \in Calls : kind[d] = "reject" /\ target[d] = a => call'[d] # "save"
            /\ record[a] = "pending" =>
                 \A d \in Calls : kind[d] = "approve" /\ target[d] = a => d \in Approving(a)'
    BY Zenon DEF Verdicts, Tried
  <2>1. a \notin broken /\ ~(kind[c] = "approve" /\ target[c] = a)
    BY Zenon, <1>0
  <2>2. \A d \in Calls : call'[d] = call[d] \/ (d = c /\ call'[d] = "done")
    BY <1>0 DEF ControlType
  <2>3. /\ record[a] # "rejected"
        /\ \A d \in Calls : kind[d] = "reject" /\ target[d] = a => call[d] # "save"
        /\ record[a] = "pending" =>
             \A d \in Calls : kind[d] = "approve" /\ target[d] = a => d \in Approving(a)
    BY Zenon, <2>1 DEF Verdicts
  <2>4. \A d \in Calls : kind[d] = "approve" /\ target[d] = a /\ d \in Approving(a)
                            => d \in Approving(a)'
    BY Zenon, <2>1, <2>2 DEF Approving
  <2> QED
    BY Zenon, <2>2, <2>3, <2>4
<1> QED
  BY Zenon, <1>1, <1>2, <1>3, <1>4

\* A handler that has saved its verdict ends, with or without the SREM.
LEMMA EndInv ==
  ASSUME AgentInv, ControlInv, NEW c \in Calls, call[c] = "srem",
         call' = [call EXCEPT ![c] = "done"],
         pendingIndex' = pendingIndex \/ pendingIndex' = pendingIndex \ {target[c]},
         UNCHANGED <<record, enqueue, kind, target, client, server, answered, broken>>,
         UNCHANGED agentVars
  PROVE  ControlInv'
<1> USE DEF ControlInv
<1>0. target[c] \in Actions /\ record[target[c]] # "pending"
  BY Zenon DEF CallShape, ControlType
<1>1. ControlType' /\ ClientsAreApprovals' /\ FreshAction' /\ Indexed'
  BY Zenon, <1>0 DEF ControlType, ClientsAreApprovals, FreshAction, Indexed
<1>2. CallShape'
  BY DEF CallShape, ControlType
<1>3. GuestWork'
  BY Zenon, WorkStep
<1>4. Verdicts'
  <2>1. \A d \in Calls : call'[d] = call[d] \/ (d = c /\ call'[d] = "done")
    BY DEF ControlType
  <2>2. \A a : Tried(a)' = Tried(a)
    BY Zenon DEF Tried
  <2>3. \A a \in Actions : record[a] = "approved" => a \in answered
    BY Zenon DEF Verdicts
  <2> SUFFICES ASSUME NEW a \in Actions, Tried(a), a \notin broken
      PROVE /\ record[a] # "rejected"
            /\ \A d \in Calls : kind[d] = "reject" /\ target[d] = a => call'[d] # "save"
            /\ record[a] = "pending" =>
                 \A d \in Calls : kind[d] = "approve" /\ target[d] = a => d \in Approving(a)'
    BY Zenon, <2>2, <2>3 DEF Verdicts
  <2>4. /\ record[a] # "rejected"
        /\ \A d \in Calls : kind[d] = "reject" /\ target[d] = a => call[d] # "save"
        /\ record[a] = "pending" =>
             \A d \in Calls : kind[d] = "approve" /\ target[d] = a => d \in Approving(a)
    BY Zenon DEF Verdicts
  <2>5. record[a] = "pending" => \A d \in Calls : d \in Approving(a) => d \in Approving(a)'
    BY Zenon, <1>0, <2>1 DEF Approving
  <2> QED
    BY Zenon, <2>1, <2>4, <2>5
<1> QED
  BY Zenon, <1>1, <1>2, <1>3, <1>4

\* The verdict is written.
LEMMA SaveInv ==
  ASSUME AgentInv, ControlInv, NEW c \in Calls, Save(c), UNCHANGED agentVars
  PROVE  ControlInv'
<1> USE DEF ControlInv
<1>0. /\ call[c] = "save" /\ target[c] \in Actions
      /\ UNCHANGED <<enqueue, pendingIndex, kind, target, client, server, answered>>
  BY DEF Save, CallShape, ControlType, clientVars
<1>1. CASE Fail(c) /\ UNCHANGED record
  BY Zenon, <1>0, <1>1, FailInv
<1>2. CASE /\ record' = [record EXCEPT ![target[c]] =
                            IF kind[c] = "approve" THEN "approved" ELSE "rejected"]
           /\ call' = [call EXCEPT ![c] = "srem"]
           /\ UNCHANGED broken
  <2>1. /\ record'[target[c]] = IF kind[c] = "approve" THEN "approved" ELSE "rejected"
        /\ \A a \in Actions : a # target[c] => record'[a] = record[a]
    BY Zenon, <1>0, <1>2 DEF ControlType
  <2>2. \A d \in Calls : call'[d] = IF d = c THEN "srem" ELSE call[d]
    BY Zenon, <1>2 DEF ControlType
  <2>3. ControlType' /\ ClientsAreApprovals'
    BY <1>0, <1>2 DEF ControlType, ClientsAreApprovals
  <2>4. FreshAction' /\ Indexed'
    BY ZenonT(40), <1>0, <2>1 DEF FreshAction, Indexed
  <2>5. CallShape'
    BY <1>0, <2>1, <2>2 DEF CallShape, ControlType
  <2>6. GuestWork'
    BY Zenon, <1>0, WorkStep
  <2>7. Verdicts'
    <3>1. \A a : Tried(a)' = Tried(a)
      BY Zenon, <1>0 DEF Tried
    <3>2. \A a \in Actions : record'[a] = "approved" => a \in answered
      BY Zenon, <1>0, <2>1 DEF Verdicts, CallShape
    <3> SUFFICES ASSUME NEW a \in Actions, Tried(a), a \notin broken
        PROVE /\ record'[a] # "rejected"
              /\ \A d \in Calls : kind[d] = "reject" /\ target[d] = a => call'[d] # "save"
              /\ record'[a] = "pending" =>
                   \A d \in Calls : kind[d] = "approve" /\ target[d] = a => d \in Approving(a)'
      BY Zenon, <1>0, <1>2, <3>1, <3>2 DEF Verdicts
    <3>3. CASE a = target[c]
      <4>1. kind[c] = "approve"
        BY Zenon, <3>3, <1>0 DEF Verdicts, ControlType
      <4> QED
        BY Zenon, <3>3, <4>1, <2>1, <2>2 DEF Verdicts
    <3>4. CASE a # target[c]
      <4>1. record'[a] = record[a]
        BY Zenon, <3>4, <2>1
      <4>2. /\ record[a] # "rejected"
            /\ \A d \in Calls : kind[d] = "reject" /\ target[d] = a => call[d] # "save"
            /\ record[a] = "pending" =>
                 \A d \in Calls : kind[d] = "approve" /\ target[d] = a => d \in Approving(a)
        BY Zenon DEF Verdicts
      <4>3. \A d \in Calls : d \in Approving(a) => d \in Approving(a)'
        BY Zenon, <1>0, <2>2 DEF Approving
      <4> QED
        BY Zenon, <2>2, <4>1, <4>2, <4>3
    <3> QED
      BY Zenon, <3>3, <3>4
  <2> QED
    BY Zenon, <2>3, <2>4, <2>5, <2>6, <2>7
<1> QED
  BY ZenonT(40), <1>1, <1>2 DEF Save

\* The steps in which a handler climbs the ladder, ends or is dropped.
LEMMA HandlerInv ==
  ASSUME AgentInv, ControlInv, NEW c \in Calls, NextTier(c) \/ Srem(c) \/ Abandon(c),
         UNCHANGED agentVars
  PROVE  ControlInv'
<1> USE DEF ControlInv
<1>1. CASE Srem(c)
  BY Zenon, <1>1, EndInv DEF Srem, clientVars
<1>2. CASE Abandon(c)
  <2>1. CASE call[c] = "srem"
    BY Zenon, <1>2, <2>1, EndInv DEF Abandon, clientVars
  <2>2. CASE call[c] # "srem"
    BY Zenon, <1>2, <2>2, FailInv DEF Abandon, clientVars
  <2> QED
    BY Zenon, <2>1, <2>2
<1>3. CASE NextTier(c)
  <2>0. /\ call[c] = "ladder" /\ kind[c] = "approve" /\ target[c] \in Actions
        /\ UNCHANGED <<enqueue, pendingIndex, kind, target, server, answered>>
    BY <1>3 DEF NextTier, tierUnchanged, CallShape, ControlType
  <2>1. CASE LadderEnds(c) /\ Fail(c) /\ UNCHANGED record
    BY Zenon, <2>0, <2>1, FailInv DEF LadderEnds
  <2>2. CASE ClimbLadder(c)
    <3>1. /\ client' = [client EXCEPT ![<<c, tier[c] + 1>>] = "ready"]
          /\ UNCHANGED <<record, call, broken>>
      BY Zenon, <2>2 DEF ClimbLadder
    <3>2. ControlType'
      BY Zenon, <2>0, <3>1 DEF ControlType
    <3>3. ClientsAreApprovals'
      <4> SUFFICES ASSUME NEW d \in Calls, NEW i \in Tiers, client'[<<d, i>>] # "off"
          PROVE kind[d] = "approve" /\ target[d] \in Actions
        BY Zenon, <2>0 DEF ClientsAreApprovals
      <4>1. CASE d = c
        BY Zenon, <4>1, <2>0
      <4>2. CASE d # c
        BY <4>2, <3>1 DEF ClientsAreApprovals, ControlType
      <4> QED
        BY Zenon, <4>1, <4>2
    <3>4. GuestWork'
      BY Zenon, <2>0, WorkStep
    <3> QED
      BY Zenon, <2>0, <3>1, <3>2, <3>3, <3>4, QuietStep
  <2> QED
    BY Zenon, <1>3, <2>1, <2>2 DEF NextTier
<1> QED
  BY <1>1, <1>2, <1>3

\* A client program fails, or sends its request to a thread of the agent.
LEMMA ClientInv ==
  ASSUME AgentInv, ControlInv, NEW c \in Calls, NEW i \in Tiers,
         \/ ClientFails(<<c, i>>) /\ UNCHANGED agentVars
         \/ \E t \in Threads : Deliver(<<c, i>>, t)
  PROVE  ControlInv'
<1> USE DEF ControlInv
<1>0. /\ UNCHANGED <<record, enqueue, pendingIndex, call, kind, target, answered, broken>>
      /\ client[<<c, i>>] # "off"
      /\ \E s \in {"ready", "waiting", "failed"} : client' = [client EXCEPT ![<<c, i>>] = s]
      /\ \E u \in Threads \cup {NoThread} : server' = [server EXCEPT ![<<c, i>>] = u]
  BY Zenon DEF ClientFails, Deliver, ClientSends, callVars
<1>1. kind[c] = "approve" /\ target[c] \in Actions
  BY Zenon, <1>0 DEF ClientsAreApprovals
<1>2. ControlType'
  <2>1. client' \in [Calls \X Tiers -> {"off", "ready", "waiting", "ok", "failed"}]
    BY <1>0 DEF ControlType
  <2>2. server' \in [Calls \X Tiers -> Threads \cup {NoThread}]
    BY ZenonT(40), <1>0 DEF ControlType
  <2> QED
    BY Zenon, <1>0, <2>1, <2>2 DEF ControlType
<1>3. ClientsAreApprovals'
  <2> SUFFICES ASSUME NEW d \in Calls, NEW j \in Tiers, client'[<<d, j>>] # "off"
      PROVE kind[d] = "approve" /\ target[d] \in Actions
    BY Zenon, <1>0 DEF ClientsAreApprovals
  <2>1. CASE d = c
    BY Zenon, <2>1, <1>1
  <2>2. CASE d # c
    BY <2>2, <1>0 DEF ClientsAreApprovals, ControlType
  <2> QED
    BY <2>1, <2>2
<1>4. GuestWork'
  <2>1. CASE UNCHANGED agentVars
    BY <1>0, <2>1, WorkStep
  <2>2. ASSUME NEW t \in Threads, Deliver(<<c, i>>, t) PROVE GuestWork'
    <3>1. Arrive(t, target[c])
      BY Zenon, <2>2 DEF Deliver
    <3>2. /\ \A u \in Threads : u # t => pc'[u] = pc[u] /\ req'[u] = req[u]
          /\ req'[t] = target[c] /\ execs' = execs
      BY <3>1 DEF Arrive, AgentInv, AgentTypeOK
    <3>3. Tried(target[c]) /\ \A a : Tried(a)' = Tried(a)
      BY Zenon, <1>0, <1>1 DEF Tried
    <3> QED
      BY Zenon, <3>2, <3>3 DEF GuestWork
  <2> QED
    BY Zenon, <2>1, <2>2
<1> QED
  BY Zenon, <1>0, <1>2, <1>3, <1>4, QuietStep

\* A thread answers a client; the handler that waits for it goes on to save.
LEMMA AnswerInv ==
  ASSUME AgentInv, ControlInv, NEW c \in Calls, NEW i \in Tiers, Answer(<<c, i>>)
  PROVE  ControlInv'
<1> USE DEF ControlInv
<1> DEFINE x == <<c, i>>
           awaited == call[c] = "ladder" /\ tier[c] = i
<1>0. /\ client[x] = "waiting" /\ client' = [client EXCEPT ![x] = "ok"]
      /\ server' = [server EXCEPT ![x] = NoThread]
      /\ call' = IF awaited THEN [call EXCEPT ![c] = "save"] ELSE call
      /\ answered' = IF awaited THEN answered \cup {target[c]} ELSE answered
      /\ UNCHANGED <<record, enqueue, pendingIndex, kind, target, broken>>
  BY Zenon DEF Answer, ClientAnswered
<1>1. kind[c] = "approve" /\ target[c] \in Actions
  BY Zenon, <1>0 DEF ClientsAreApprovals
<1>2. \A d \in Calls : call'[d] = call[d]
                         \/ (d = c /\ call[d] = "ladder" /\ call'[d] = "save" /\ target[d] \in answered')
  BY Zenon, <1>0 DEF ControlType
<1>3. answered \subseteq answered'
  BY Zenon, <1>0
<1>4. ControlType'
  BY Zenon, <1>0 DEF ControlType
<1>5. ClientsAreApprovals'
  <2> SUFFICES ASSUME NEW d \in Calls, NEW j \in Tiers, client'[<<d, j>>] # "off"
      PROVE kind[d] = "approve" /\ target[d] \in Actions
    BY Zenon, <1>0 DEF ClientsAreApprovals
  <2>1. CASE d = c
    BY <2>1, <1>1
  <2>2. CASE d # c
    BY ZenonT(40), <2>2, <1>0 DEF ClientsAreApprovals, ControlType
  <2> QED
    BY Zenon, <2>1, <2>2
<1>6. CallShape'
  <2> SUFFICES ASSUME NEW d \in Calls
      PROVE /\ call'[d] = "new" <=> target[d] = NoAction
            /\ call'[d] = "ladder" => kind[d] = "approve"
            /\ call'[d] = "srem" => record[target[d]] # "pending"
            /\ call'[d] = "save" /\ kind[d] = "approve" => target[d] \in answered'
    BY Zenon, <1>0 DEF CallShape
  <2>1. CASE call'[d] = call[d]
    BY ZenonT(40), <2>1, <1>3 DEF CallShape
  <2>2. CASE d = c /\ call'[d] = "save" /\ target[d] \in answered'
    BY <2>2, <1>1, ActionsAssumption
  <2> QED
    BY ZenonT(40), <1>2, <2>1, <2>2
<1>7. FreshAction' /\ Indexed'
  BY Zenon, <1>0 DEF FreshAction, Indexed
<1>8. GuestWork'
  <2>1. \E t \in Threads : Reply(t)
    BY DEF Answer, ControlType
  <2> QED
    BY Zenon, <1>0, <2>1, WorkStep
<1>9. Verdicts'
  <2>1. \A a : Tried(a)' = Tried(a)
    BY Zenon, <1>0 DEF Tried
  <2>2. \A a \in Actions : Approving(a)' = Approving(a)
    BY Zenon, <1>0, <1>2 DEF Approving
  <2>3. \A d \in Calls : kind[d] = "reject" => call'[d] = call[d]
    BY Zenon, <1>1, <1>2
  <2> QED
    BY Zenon, <1>0, <1>3, <2>1, <2>2, <2>3 DEF Verdicts
<1> QED
  BY Zenon, <1>4, <1>5, <1>6, <1>7, <1>8, <1>9

\* The steps of the agent in which no client takes part.
LEMMA AgentSideInv ==
  ASSUME AgentInv, ControlInv,
         \/ AgentStep \/ Restart
         \/ \E t \in Threads : AnswerNobody(t)
         \/ \E t \in Threads, r \in Requests \ Actions : HostSend(t, r)
         \/ UNCHANGED vars
  PROVE  ControlInv'
<1> USE DEF ControlInv
<1>0. /\ UNCHANGED <<record, enqueue, pendingIndex, call, kind, target, answered, broken, client>>
      /\ \/ UNCHANGED server
         \/ server' = [x \in Calls \X Tiers |-> NoThread]
  BY Zenon DEF AgentStep, Restart, AnswerNobody, HostSend, vars, actionVars, callVars
<1>1. ControlType' /\ ClientsAreApprovals'
  BY <1>0 DEF ControlType, ClientsAreApprovals
<1>2. GuestWork'
  <2>1. ASSUME NEW t \in Threads, NEW r \in Requests \ Actions, HostSend(t, r)
        PROVE  GuestWork'
    <3>1. Arrive(t, r)
      BY Zenon, <2>1 DEF HostSend
    <3>2. /\ \A u \in Threads : u # t => pc'[u] = pc[u] /\ req'[u] = req[u]
          /\ req'[t] = r /\ execs' = execs
      BY <3>1 DEF Arrive, AgentInv, AgentTypeOK
    <3>3. \A a : Tried(a)' = Tried(a)
      BY Zenon, <1>0 DEF Tried
    <3> QED
      BY Zenon, <3>2, <3>3 DEF GuestWork
  <2>2. CASE AgentStep
    BY Zenon, <1>0, <2>2, WorkStep DEF AgentStep
  <2>3. CASE Restart
    BY Zenon, <1>0, <2>3, WorkStep DEF Restart
  <2>4. CASE \E t \in Threads : AnswerNobody(t)
    BY Zenon, <1>0, <2>4, WorkStep DEF AnswerNobody
  <2>5. CASE UNCHANGED vars
    BY <1>0, <2>5, WorkStep DEF vars
  <2> QED
    BY Zenon, <2>1, <2>2, <2>3, <2>4, <2>5
<1> QED
  BY Zenon, <1>0, <1>1, <1>2, QuietStep

\* A record asks for a verdict only before it has one.
LEMMA VerdictStep ==
  ASSUME ControlInv, [Next]_vars, NEW a \in Actions, record[a] \in {"approved", "rejected"}
  PROVE  record'[a] # "pending"
<1> USE DEF ControlInv
<1>1. ASSUME NEW e \in Actions, EnqueueStep(e) PROVE record'[a] # "pending"
  BY ZenonT(40), <1>1 DEF EnqueueStep, FreshAction, ControlType
<1>2. ASSUME NEW e \in Actions, Expire(e) PROVE record'[a] # "pending"
  BY Zenon, <1>2 DEF Expire, ControlType
<1>3. ASSUME NEW c \in Calls, Save(c) PROVE record'[a] # "pending"
  BY <1>3 DEF Save, ControlType
<1>4. CASE UNCHANGED record
  BY <1>4
<1>5. CASE ApiStep
  <2>1. ASSUME NEW c \in Calls, NextTier(c) \/ Srem(c) \/ Abandon(c) PROVE UNCHANGED record
    BY Zenon, <2>1 DEF NextTier, ClimbLadder, LadderEnds, Srem, Abandon
  <2>2. ASSUME NEW c \in Calls, NEW e \in Actions, Load(c, e) PROVE UNCHANGED record
    BY Zenon, <2>2 DEF Load, Take
  <2>3. ASSUME NEW x \in Calls \X Tiers, ClientFails(x) PROVE UNCHANGED record
    BY <2>3 DEF ClientFails
  <2> QED
    BY Zenon, <1>1, <1>2, <1>3, <1>4, <1>5, <2>1, <2>2, <2>3 DEF ApiStep
<1>6. CASE ~ApiStep
  <2>1. UNCHANGED record
    BY Zenon, <1>6 DEF Next, AgentStep, Deliver, ClientSends, Answer, ClientAnswered, AnswerNobody,
                HostSend, Restart, vars, actionVars
  <2> QED
    BY <2>1
<1> QED
  BY Zenon, <1>5, <1>6

-----------------------------------------------------------------------------
\* Every step of the agent and the API together preserves both invariants.
LEMMA ControlInvStep ==
  AgentInv /\ ControlInv /\ [Next]_vars => AgentInv' /\ ControlInv'
<1> SUFFICES ASSUME AgentInv, ControlInv, [Next]_vars PROVE AgentInv' /\ ControlInv'
  OBVIOUS
<1>0. AgentInv'
  BY ControlStepIsAgentStep, AgentInvStep
<1> SUFFICES ControlInv'
  BY Zenon, <1>0
<1>1. CASE ApiStep
  <2>1. ASSUME NEW x \in Calls \X Tiers, ClientFails(x), UNCHANGED agentVars PROVE ControlInv'
    <3>1. PICK c \in Calls, i \in Tiers : x = <<c, i>>
      OBVIOUS
    <3> QED
      BY <2>1, <3>1, ClientInv
  <2>0. UNCHANGED agentVars
    BY <1>1 DEF ApiStep
  <2>2. ASSUME NEW a \in Actions, EnqueueStep(a) PROVE ControlInv'
    BY <2>0, <2>2, EnqueueInv
  <2>3. ASSUME NEW a \in Actions, Expire(a) PROVE ControlInv'
    BY <2>0, <2>3, ExpireInv
  <2>4. ASSUME NEW c \in Calls, NEW a \in Actions, Load(c, a) PROVE ControlInv'
    BY <2>0, <2>4, LoadInv
  <2>5. ASSUME NEW c \in Calls, Save(c) PROVE ControlInv'
    BY <2>0, <2>5, SaveInv
  <2>6. ASSUME NEW c \in Calls, NextTier(c) \/ Srem(c) \/ Abandon(c) PROVE ControlInv'
    BY Zenon, <2>0, <2>6, HandlerInv
  <2> QED
    BY <1>1, <2>0, <2>1, <2>2, <2>3, <2>4, <2>5, <2>6 DEF ApiStep
<1>2. ASSUME NEW x \in Calls \X Tiers, NEW t \in Threads, Deliver(x, t) PROVE ControlInv'
  <2>1. PICK c \in Calls, i \in Tiers : x = <<c, i>>
    OBVIOUS
  <2> QED
    BY <1>2, <2>1, ClientInv
<1>3. ASSUME NEW x \in Calls \X Tiers, Answer(x) PROVE ControlInv'
  <2>1. PICK c \in Calls, i \in Tiers : x = <<c, i>>
    OBVIOUS
  <2> QED
    BY <1>3, <2>1, AnswerInv
<1>4. CASE \/ AgentStep \/ Restart
           \/ \E t \in Threads : AnswerNobody(t)
           \/ \E t \in Threads, r \in Requests \ Actions : HostSend(t, r)
           \/ UNCHANGED vars
  BY <1>4, AgentSideInv
<1> QED
  BY <1>1, <1>2, <1>3, <1>4 DEF Next

\* The invariants hold in every reachable state of the API with the agent.
THEOREM ControlInvariant == Spec => [](AgentInv /\ ControlInv)
<1>1. Init => AgentInv /\ ControlInv
  BY AgentInitInv, ControlInitInv DEF Init
<1> QED
  BY <1>1, ControlInvStep, PTL DEF Spec

\* With the API's clients and the host in front of it, the agent does nothing
\* but what AgentDispatch lets it do, so the theorems about it apply.
THEOREM ControlRunsAgent == Spec => AgentSpec
<1>1. Init => AgentInit
  BY DEF Init
<1>2. AgentInv /\ ControlInv /\ [Next]_vars => [AgentNext]_agentVars
  BY ControlStepIsAgentStep
<1> QED
  BY <1>1, <1>2, ControlInvariant, PTL DEF Spec, AgentSpec

\* nonce_fresh keeps its window and the cache its bound in the whole system.
THEOREM ControlKeepsCache == Spec => [](NoncesAreKept /\ KeysAreHonoured)
  BY ControlRunsAgent, NoncesKept, KeysHonoured, PTL

\* approve_guest_action and reject_guest_action: approved means answered, and
\* a rejected action ran only when an approval overlapped or was cut short.
THEOREM VerdictsAreTrue == Spec => []VerdictIsTrue
<1>1. ControlInv => VerdictIsTrue
  BY Zenon DEF ControlInv, GuestWork, Verdicts, VerdictIsTrue, ApprovedWasAnswered,
         RejectedRanOnlyByRace
<1> QED
  BY <1>1, ControlInvariant, PTL

\* An accepted action is in list_pending_guest_actions until its verdict, and
\* a verdict is never taken back to pending.
THEOREM AcceptedStaysListed == Spec => ListedUntilVerdict
<1>1. ControlInv => AcceptedIsListed
  BY Zenon DEF ControlInv, Indexed, AcceptedIsListed, Listed
<1>2. ControlInv /\ [Next]_vars =>
        [\A a \in Actions : record[a] \in {"approved", "rejected"} => record'[a] # "pending"]_vars
  BY VerdictStep
<1> QED
  BY <1>1, <1>2, ControlInvariant, PTL DEF Spec, ListedUntilVerdict, VerdictStays

=============================================================================
