--------------------------- MODULE AgentDispatch ---------------------------
(***************************************************************************)
(* The request path of the in-guest agent: RequestHandler::handle_on       *)
(* (handler.rs) with the ReplayCache of the runtime (state.rs).  Several    *)
(* channels and local connections are served by threads of one process and *)
(* share the cache; each use of it takes its lock on its own, so the steps *)
(* below are the code between two lock operations.  Only mutating methods   *)
(* are modelled: the others do not touch the cache.                        *)
(***************************************************************************)
EXTENDS Integers, FiniteSets, Sequences

CONSTANTS
  Threads,       \* channel and connection threads of the daemon
  Requests,      \* mutating requests; the same one may be sent again
  Nonces, NoNonce, NonceOf,   \* request -> its nonce or NoNonce
  Keys, NoKey, KeyOf,         \* request -> its idempotency_key or NoKey
  NoRequest,     \* a thread that serves nothing
  NonceCap,      \* SecurityPolicy::nonce_cache_size
  MaxAccepted    \* bound: nonces accepted in one life of the process

ASSUME DispatchAssumption ==
  /\ NonceOf \in [Requests -> Nonces \cup {NoNonce}]
  /\ KeyOf \in [Requests -> Keys \cup {NoKey}]
  /\ NoNonce \notin Nonces /\ NoKey \notin Keys /\ NoRequest \notin Requests
  /\ NonceCap \in Nat
  /\ MaxAccepted \in Nat

VARIABLES
  pc,          \* thread -> where it is in handle_on
  req,         \* thread -> the request it serves
  answer,      \* thread -> the request whose work it answers with, or NoRequest
               \* for a JSON-RPC error
  nonceOrder,  \* ReplayCache.nonce_order
  nonces,      \* ReplayCache.nonces
  idempotent,  \* ReplayCache.idempotent: key -> the request answered, NoRequest
               \* when there is no entry
  accepted,    \* nonces accepted by this process, in order (history)
  execs,       \* request -> how often dispatch() ran for it (history)
  storedKeys,  \* keys with an answer stored, and not expired since (history)
  retrying     \* threads whose request arrived with such a key, as long as
               \* its answer has not expired (history)

agentVars == <<pc, req, answer, nonceOrder, nonces, idempotent, accepted,
               execs, storedKeys, retrying>>

Window == IF NonceCap > 1 THEN NonceCap ELSE 1

AgentTypeOK ==
  /\ pc \in [Threads -> {"idle", "arrived", "lookup", "run", "store", "reply"}]
  /\ req \in [Threads -> Requests \cup {NoRequest}]
  /\ answer \in [Threads -> Requests \cup {NoRequest}]
  /\ nonceOrder \in Seq(Nonces)
  /\ nonces \in SUBSET Nonces
  /\ idempotent \in [Keys -> Requests \cup {NoRequest}]
  /\ accepted \in Seq(Nonces)
  /\ execs \in [Requests -> Nat]
  /\ storedKeys \in SUBSET Keys
  /\ retrying \in SUBSET Threads

AgentInit ==
  /\ pc = [t \in Threads |-> "idle"]
  /\ req = [t \in Threads |-> NoRequest]
  /\ answer = [t \in Threads |-> NoRequest]
  /\ nonceOrder = <<>>
  /\ nonces = {}
  /\ idempotent = [k \in Keys |-> NoRequest]
  /\ accepted = <<>>
  /\ execs = [r \in Requests |-> 0]
  /\ storedKeys = {} /\ retrying = {}

keyVars == <<idempotent, storedKeys, retrying>>
cacheVars == <<nonceOrder, nonces, accepted, keyVars>>

(* run_channel or serve_connection has read a frame. *)
Arrive(t, r) ==
  /\ pc[t] = "idle"
  /\ pc' = [pc EXCEPT ![t] = "arrived"]
  /\ req' = [req EXCEPT ![t] = r]
  /\ retrying' = IF KeyOf[r] \in storedKeys THEN retrying \cup {t} ELSE retrying
  /\ UNCHANGED <<answer, execs, nonceOrder, nonces, accepted, idempotent, storedKeys>>

AnswerWith(t, r) ==
  /\ pc' = [pc EXCEPT ![t] = "reply"]
  /\ answer' = [answer EXCEPT ![t] = r]

(* The policy denies the method, or the request is past its deadline. *)
Refuse(t) ==
  /\ pc[t] = "arrived"
  /\ AnswerWith(t, NoRequest)
  /\ UNCHANGED <<req, execs, cacheVars>>

Evict(order, cap) == IF Len(order) > cap THEN Tail(order) ELSE order

\* Mutant: one nonce too many is evicted.
NonceFreshEvictsEarly(n) ==
  /\ n \notin nonces
  /\ nonceOrder' = Evict(Append(nonceOrder, n), Window - 1)
  /\ nonces' = {nonceOrder'[i] : i \in DOMAIN nonceOrder'}

(* nonce_fresh: the check, the insertion and the eviction of the oldest    *)
(* nonce happen under one lock; the list was at most Window long before.    *)
NonceFresh(n) ==
  /\ n \notin nonces
  /\ LET order == Append(nonceOrder, n)
     IN /\ nonceOrder' = Evict(order, Window)
        /\ nonces' = IF Len(order) > Window
                     THEN (nonces \cup {n}) \ {Head(order)}
                     ELSE nonces \cup {n}

CheckNonce(t) ==
  LET n == NonceOf[req[t]]
  IN /\ pc[t] = "arrived"
     /\ \/ /\ n = NoNonce
           /\ pc' = [pc EXCEPT ![t] = "lookup"]
           /\ UNCHANGED <<answer, nonceOrder, nonces, accepted>>
        \/ /\ n \in nonces
           /\ AnswerWith(t, NoRequest)
           /\ UNCHANGED <<nonceOrder, nonces, accepted>>
        \/ /\ n # NoNonce
           /\ Len(accepted) < MaxAccepted
           /\ NonceFresh(n)
           /\ accepted' = Append(accepted, n)
           /\ pc' = [pc EXCEPT ![t] = "lookup"]
           /\ UNCHANGED answer
     /\ UNCHANGED <<req, execs, keyVars>>

Cached(k) == IF k = NoKey THEN NoRequest ELSE idempotent[k]

\* Mutant: the key is reserved before the work is done.
LookupKeyReserves(t) ==
  LET k == KeyOf[req[t]]
  IN /\ pc[t] = "lookup"
     /\ \/ /\ Cached(k) # NoRequest
           /\ AnswerWith(t, Cached(k))
           /\ UNCHANGED idempotent
        \/ /\ Cached(k) = NoRequest
           /\ pc' = [pc EXCEPT ![t] = "run"]
           /\ idempotent' = IF k = NoKey THEN idempotent
                            ELSE [idempotent EXCEPT ![k] = req[t]]
           /\ UNCHANGED answer
     /\ UNCHANGED <<req, nonceOrder, nonces, accepted, storedKeys, retrying, execs>>

\* Mutant: a hit takes the answer out of the cache.
LookupKeyTakes(t) ==
  LET k == KeyOf[req[t]]
  IN /\ pc[t] = "lookup"
     /\ \/ /\ Cached(k) # NoRequest
           /\ AnswerWith(t, Cached(k))
           /\ idempotent' = [idempotent EXCEPT ![k] = NoRequest]
        \/ /\ Cached(k) = NoRequest
           /\ pc' = [pc EXCEPT ![t] = "run"]
           /\ UNCHANGED <<answer, idempotent>>
     /\ UNCHANGED <<req, nonceOrder, nonces, accepted, storedKeys, retrying, execs>>

(* idempotent_get *)
LookupKey(t) ==
  LET k == KeyOf[req[t]]
  IN /\ pc[t] = "lookup"
     /\ \/ /\ Cached(k) # NoRequest
           /\ AnswerWith(t, Cached(k))
        \/ /\ Cached(k) = NoRequest
           /\ pc' = [pc EXCEPT ![t] = "run"]
           /\ UNCHANGED answer
     /\ UNCHANGED <<req, execs, cacheVars>>

(* dispatch, outside every lock; an error is answered and not stored. *)
Dispatch(t) ==
  /\ pc[t] = "run"
  /\ execs' = [execs EXCEPT ![req[t]] = @ + 1]
  /\ \/ AnswerWith(t, NoRequest)
     \/ /\ pc' = [pc EXCEPT ![t] = IF KeyOf[req[t]] = NoKey THEN "reply" ELSE "store"]
        /\ answer' = [answer EXCEPT ![t] = req[t]]
  /\ UNCHANGED <<req, cacheVars>>

(* idempotent_store *)
Store(t) ==
  LET k == KeyOf[req[t]]
  IN /\ pc[t] = "store"
     /\ idempotent' = [idempotent EXCEPT ![k] = answer[t]]
     /\ storedKeys' = storedKeys \cup {k}
     /\ pc' = [pc EXCEPT ![t] = "reply"]
     /\ UNCHANGED <<req, answer, execs, nonceOrder, nonces, accepted, retrying>>

(* The response frame is written; the thread reads the next one. *)
Reply(t) ==
  /\ pc[t] = "reply"
  /\ pc' = [pc EXCEPT ![t] = "idle"]
  /\ req' = [req EXCEPT ![t] = NoRequest]
  /\ answer' = [answer EXCEPT ![t] = NoRequest]
  /\ retrying' = retrying \ {t}
  /\ UNCHANGED <<execs, nonceOrder, nonces, accepted, idempotent, storedKeys>>

(* IDEMPOTENCY_TTL has passed; the next idempotent_get drops the entry. *)
Forget(k) ==
  /\ idempotent[k] # NoRequest
  /\ idempotent' = [idempotent EXCEPT ![k] = NoRequest]
  /\ storedKeys' = storedKeys \ {k}
  /\ retrying' = {t \in retrying : KeyOf[req[t]] # k}
  /\ UNCHANGED <<pc, req, answer, execs, nonceOrder, nonces, accepted>>

(* The process is restarted: the cache is memory. *)
RestartAgent ==
  /\ pc' = [t \in Threads |-> "idle"]
  /\ req' = [t \in Threads |-> NoRequest]
  /\ answer' = [t \in Threads |-> NoRequest]
  /\ nonceOrder' = <<>> /\ nonces' = {} /\ accepted' = <<>>
  /\ idempotent' = [k \in Keys |-> NoRequest]
  /\ storedKeys' = {} /\ retrying' = {}
  /\ UNCHANGED execs

ServeStep(t) ==
  Refuse(t) \/ CheckNonce(t) \/ LookupKey(t) \/ Dispatch(t) \/ Store(t)

AgentNext ==
  \/ \E t \in Threads : ServeStep(t) \/ Reply(t)
  \/ \E t \in Threads, r \in Requests : Arrive(t, r)
  \/ \E k \in Keys : Forget(k)
  \/ RestartAgent

AgentSpec == AgentInit /\ [][AgentNext]_agentVars

-----------------------------------------------------------------------------
(* nonce_order and nonces, the list and the set that nonce_fresh keeps side *)
(* by side, hold the same nonces, each once and at most the configured      *)
(* number of them, whatever threads record nonces in whatever order.        *)
NonceListMatchesSet ==
  /\ nonces = {nonceOrder[i] : i \in DOMAIN nonceOrder}
  /\ \A i, j \in DOMAIN nonceOrder : nonceOrder[i] = nonceOrder[j] => i = j
  /\ Len(nonceOrder) <= Window

(* nonce_fresh accepts a nonce a second time in one process only after     *)
(* nonce_cache_size other nonces were accepted in between.                 *)
NonceWindow ==
  \A i, j \in DOMAIN accepted :
    i < j /\ accepted[i] = accepted[j]
      => Cardinality({accepted[m] : m \in i + 1 .. j - 1}) >= Window

(* The replay protection as a whole: list and set agree, and a nonce is    *)
(* forgotten neither too early nor out of order.                           *)
NoncesAreKept == NonceListMatchesSet /\ NonceWindow

(* A request that arrives once an answer is stored under its key is not       *)
(* executed while that answer has not expired and the process lives, whatever  *)
(* other threads store under the key meanwhile: it gets a cached response.     *)
RetriesAreCached == \A t \in retrying : pc[t] \notin {"run", "store"}

(* A success is only ever answered, from the cache or not, for work that    *)
(* dispatch() did for a request with that key, or for the request itself.   *)
OkAnswerWasExecuted ==
  \A t \in Threads :
    LET r == answer[t]
    IN r # NoRequest =>
         /\ execs[r] > 0
         /\ r = req[t] \/ (KeyOf[r] = KeyOf[req[t]] /\ KeyOf[r] # NoKey)

(* What the idempotency cache gives a caller when several channels use one  *)
(* key: a late retry is not executed, and no success is answered without an  *)
(* execution.                                                               *)
KeysAreHonoured == RetriesAreCached /\ OkAnswerWasExecuted

-----------------------------------------------------------------------------
(* What docs/features/guestkit-agent-protocol-1.3.md says and the code does not keep:  *)
(* "retried mutating requests return the cached response".  idempotent_get    *)
(* and idempotent_store are two critical sections around dispatch, so a retry  *)
(* that comes while the first request is executed is executed as well.         *)
KeyRunsAlone ==
  \A t, u \in Threads :
    t # u /\ {pc[t], pc[u]} \subseteq {"run", "store"} /\ KeyOf[req[t]] = KeyOf[req[u]]
      => KeyOf[req[t]] = NoKey

=============================================================================
