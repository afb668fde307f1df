--------------------------- MODULE MCJobExecutor ---------------------------
(* One worker process, three job documents, two of them with the same key. *)
EXTENDS JobExecutor, TLC

CONSTANTS j1, j2, j3, k1

MCKeyOf == (j1 :> k1) @@ (j2 :> k1) @@ (j3 :> NoKey)

=============================================================================
