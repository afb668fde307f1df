--------------------------- MODULE MCGuestControl ---------------------------
(***************************************************************************)
(* Two instances in one run, told apart by what the initial state allows:  *)
(* the approval workflow with two calls on one action, and the host alone   *)
(* with three requests, two of them with one key, two of them with one      *)
(* nonce.                                                                   *)
(***************************************************************************)
EXTENDS GuestControl, TLC

CONSTANTS a1, r1, r2, r3, r4, n1, n2, n3, k1

MCNonceOf == (a1 :> NoNonce) @@ (r1 :> n1) @@ (r2 :> n2) @@ (r3 :> n3) @@ (r4 :> NoNonce)
MCKeyOf == (a1 :> NoKey) @@ (r1 :> k1) @@ (r2 :> NoKey) @@ (r3 :> NoKey) @@ (r4 :> k1)

CONSTANT PairMishaps   \* bound: mishaps once both calls have started

Started == {c \in Calls : call[c] # "new"}

(* The approval workflow without the host and without restarts, with fewer  *)
(* mishaps when there are two calls; or the host alone.                     *)
Bounded ==
  /\ hostSends > 0 \/ restarts > 0 => \A a \in Actions : enqueue[a] = "new"
  /\ Started = Calls => mishaps <= PairMishaps

MCNext == Next /\ Bounded'

MCSpec == Init /\ [][MCNext]_vars

Symmetric == Permutations(Calls) \cup Permutations(Threads)

=============================================================================
