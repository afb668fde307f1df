---------------------------- MODULE MCHostDevices ----------------------------
(* Two handles that lock one file and share the devices.  The first one goes  *)
(* through the whole life of a handle; the second contends for the devices    *)
(* and mounts nothing.                                                       *)
EXTENDS GuestfsHandle, TLC

CONSTANTS h1

OneLock == [h \in Handles |-> "/run/lock"]

Contender == \A h \in Handles \ {h1} : drive[h] # "raw" /\ ~root[h] /\ state[h] # "closed"
OneMishap == faults + foreign < 2

MCNext == Next /\ Contender' /\ OneMishap'

MCSpec == Init /\ [][MCNext]_vars /\ Fairness

=============================================================================
