--------------------------- MODULE MCAgentFreeze ---------------------------
(***************************************************************************)
(* Small instances of the agent's freeze logic: channels are symmetric.    *)
(***************************************************************************)
EXTENDS AgentFreeze, TLC

Symmetric == Permutations(Channels) \cup Permutations(Services)

=============================================================================
