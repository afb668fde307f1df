---------------------------- MODULE JobDelivery ----------------------------
(***************************************************************************)
(* What the job queue promises, without saying how: a job is in one place  *)
(* at a time, it moves forward only, a worker that holds it may start its  *)
(* handler, and no job is started a second time.  A job may get lost on    *)
(* the way ("gone" without a start): at most once, not at least once.      *)
(***************************************************************************)
EXTENDS Naturals

CONSTANT Jobs

VARIABLES
  place,   \* where the job is
  starts   \* how often its handler was started

deliveryVars == <<place, starts>>

DeliveryInit ==
  /\ place = [j \in Jobs |-> "new"]
  /\ starts = [j \in Jobs |-> 0]

Move(j, from, to) ==
  /\ place[j] = from
  /\ place' = [place EXCEPT ![j] = to]
  /\ UNCHANGED starts

Submit(j) == Move(j, "new", "queued") \/ Move(j, "new", "gone")

Take(j) == Move(j, "queued", "held") \/ Move(j, "queued", "gone")

Start(j) ==
  /\ place[j] = "held"
  /\ starts[j] = 0
  /\ starts' = [starts EXCEPT ![j] = 1]
  /\ UNCHANGED place

Drop(j) == Move(j, "held", "gone")

DeliveryNext == \E j \in Jobs : Submit(j) \/ Take(j) \/ Start(j) \/ Drop(j)

DeliverySpec == DeliveryInit /\ [][DeliveryNext]_deliveryVars

=============================================================================
