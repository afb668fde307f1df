----------------------------- MODULE MCWorkerLoop -----------------------------
(* Two jobs, the second with a file of another name or not. *)
EXTENDS WorkerLoop

CONSTANT j2

MCInit == Init /\ misnamed \subseteq {j2} /\ (using = "http" => misnamed = {})

MCSpec == MCInit /\ [][Next]_vars /\ WF_vars(WorkerStep)

=============================================================================
