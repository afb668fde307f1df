--------------------------- MODULE MCJobPipeline ---------------------------
(* Jobs as the API builds them: no idempotency key (build_job).            *)
EXTENDS JobPipeline, TLC

MCKeyOf == [j \in Jobs |-> NoKey]

Symmetric == Permutations(Workers) \cup Permutations(Jobs)

\* The service as a whole: one job with a request at a time and a mishap, one
\* job with requests at the same time, or several jobs.  Neither requests,
\* mishaps nor submissions are fair.
FirstJob == CHOOSE j \in Jobs : TRUE
OneJob == \A j \in Jobs \ {FirstJob} : submit[j] = "new"
Busy == {r \in Readers : reader[r].at # "idle"}
Instance ==
  \/ OneJob /\ (Cardinality(Busy) <= 1 \/ mishaps + crashes = 0)
  \/ Busy = {} /\ mishaps = 0

ServiceNext == Next /\ Instance'

ServiceSpec ==
  /\ Init
  /\ [][ServiceNext]_vars
  /\ \A j \in Jobs : WF_vars(EnqueueAnnounce(j) \/ InsertRow(j))
  /\ \A w \in Workers : WF_vars(LoopStep(w)) /\ WF_vars(WorkerRestart(w))

=============================================================================
