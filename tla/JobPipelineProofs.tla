------------------------- MODULE JobPipelineProofs -------------------------
(***************************************************************************)
(* Proofs about the pipeline, for every number of workers, jobs, readers,  *)
(* crashes and mishaps: the executor's theorems carry over to it, the      *)
(* handler of a job is started at most once, and the pipeline implements   *)
(* the abstract queue JobDelivery.                                         *)
(***************************************************************************)
EXTENDS JobPipeline, TLAPS

\* The state machine is where the stage says it is.
MachineFollowsStage ==
  \A w \in Workers :
    /\ stage[w] = "fetched" => machine[w] = "pending"
    /\ stage[w] = "validating" => machine[w] = "queued"
    /\ stage[w] = "assigned" => machine[w] = "assigned"
    /\ stage[w] = "running" => machine[w] = "running"

\* A worker inside execute() has a job, any other has none.
JobFollowsStage ==
  \A w \in Workers :
    stage[w] \in {"idle", "down"} <=> job[w] = NoJob

\* A key with a saved result is in the cache, and a job past the idempotency
\* check has a key that is not.
CacheDiscipline ==
  \A w \in Workers :
    /\ \A k \in Keys : saved[w][k] = 0 \/ (saved[w][k] = 1 /\ k \in cache[w])
    /\ stage[w] \in {"validating", "assigned", "running", "saving_ok",
                     "saving_err"} =>
         KeyOf[job[w]] \notin cache[w]

ExecInv ==
  /\ ExecTypeOK
  /\ MachineFollowsStage
  /\ JobFollowsStage
  /\ TransitionsAccepted
  /\ CacheDiscipline
  /\ GaugeCoversInFlight

\* The initial state of the worker satisfies the inductive invariant.
LEMMA ExecInitInv == ExecInit => ExecInv
<1> SUFFICES ASSUME ExecInit PROVE ExecInv
  OBVIOUS
<1> USE ExecutorAssumption DEF ExecInit
<1>1. ExecTypeOK
  BY DEF ExecTypeOK, Stages, States, FileContents
<1>2. MachineFollowsStage /\ JobFollowsStage /\ TransitionsAccepted
  BY DEF MachineFollowsStage, JobFollowsStage, TransitionsAccepted
<1>3. CacheDiscipline /\ GaugeCoversInFlight
  BY DEF CacheDiscipline, GaugeCoversInFlight
<1> QED
  BY <1>1, <1>2, <1>3 DEF ExecInv

\* The transitions execute() asks for are all in the table.
LEMMA TakenTransitions ==
  /\ IsValidTransition("pending", "queued")
  /\ IsValidTransition("queued", "assigned")
  /\ IsValidTransition("assigned", "running")
  /\ IsValidTransition("running", "completed")
  /\ IsValidTransition("running", "failed")
  /\ IsValidTransition("running", "timeout")
BY DEF IsValidTransition, TransitionTable, IsTerminal

\* A transition, legal or not, keeps the types of the stage and the machine.
LEMMA TransitionTypes ==
  ASSUME NEW w, NEW to \in States, NEW next \in Stages,
         stage \in [Workers -> Stages], machine \in [Workers -> States],
         Transition(w, to, next)
  PROVE  stage' \in [Workers -> Stages] /\ machine' \in [Workers -> States]
BY DEF Transition, Stages

\* Type correctness is preserved by every step.
LEMMA ExecTypeStep == ExecInv /\ [ExecNext]_execVars => ExecTypeOK'
<1> SUFFICES ASSUME ExecInv, [ExecNext]_execVars PROVE ExecTypeOK'
  OBVIOUS
<1>a. ExecTypeOK /\ MachineFollowsStage
  BY DEF ExecInv
<1>0. \A w \in Workers : stage[w] \notin {"idle", "down"} => job[w] \in Jobs
  BY DEF ExecInv, ExecTypeOK, JobFollowsStage
<1> USE <1>a, ExecutorAssumption, TakenTransitions
    DEF ExecTypeOK, Stages, States, FileContents, Transition, Return
<1>1. ASSUME NEW w \in Workers, NEW j \in Jobs, Receive(w, j) PROVE ExecTypeOK'
  BY <1>0, <1>1 DEF Receive
<1>2. ASSUME NEW w \in Workers, CacheHit(w) PROVE ExecTypeOK'
  <2>1. /\ stage' \in [Workers -> Stages]
        /\ verdict' \in [Jobs -> {"none", "ok", "err"}]
    BY Zenon, <1>0, <1>2 DEF CacheHit
  <2>2. active' \in [Workers -> Int]
    BY <1>0, <1>2 DEF CacheHit
  <2> QED
    BY <1>2, <2>1, <2>2 DEF CacheHit
<1>3. ASSUME NEW w \in Workers, CacheMiss(w) PROVE ExecTypeOK'
  <2>1. /\ stage' \in [Workers -> Stages]
        /\ machine' \in [Workers -> States]
    <3>1. Transition(w, "queued", "validating")
      BY <1>3 DEF CacheMiss
    <3> HIDE DEF Transition
    <3> QED
      BY <3>1, TransitionTypes
  <2>2. active' \in [Workers -> Int]
    BY <1>0, <1>3 DEF CacheMiss
  <2> QED
    BY ZenonT(40), <1>3, <2>1, <2>2 DEF CacheMiss
<1>4. ASSUME NEW w \in Workers, ValidateFails(w) PROVE ExecTypeOK'
  BY <1>0, <1>4 DEF ValidateFails
<1>5. ASSUME NEW w \in Workers, ValidateOk(w) PROVE ExecTypeOK'
  BY Zenon, <1>0, <1>5 DEF ValidateOk
<1>6. ASSUME NEW w \in Workers, StartHandler(w) PROVE ExecTypeOK'
  <2>1. /\ stage' \in [Workers -> Stages]
        /\ machine' \in [Workers -> States]
    <3>1. Transition(w, "running", "running")
      BY <1>6 DEF StartHandler
    <3> HIDE DEF Transition
    <3> QED
      BY Zenon, <3>1, TransitionTypes
  <2>2. /\ working' \in [Workers -> SUBSET Jobs]
        /\ cleanupDue' \in [Workers -> SUBSET Jobs]
    BY ZenonT(40), <1>0, <1>6 DEF StartHandler
  <2>3. starts' \in [Jobs -> Nat]
    <3>1. job[w] \in Jobs
      BY Zenon, <1>0, <1>6 DEF StartHandler
    <3>2. /\ starts \in [Jobs -> Nat]
          /\ starts' = [starts EXCEPT ![job[w]] = @ + 1]
      BY <1>6 DEF StartHandler
    <3> HIDE DEF ExecTypeOK
    <3> QED
      BY <3>1, <3>2
  <2> QED
    BY <1>6, <2>1, <2>2, <2>3 DEF StartHandler
<1>7. ASSUME NEW w \in Workers, HandlerOk(w) PROVE ExecTypeOK'
  <2>1. /\ stage' \in [Workers -> Stages]
        /\ machine' \in [Workers -> States]
    <3>1. Transition(w, "completed", "saving_ok")
      BY <1>7 DEF HandlerOk, HandlerReturns
    <3> HIDE DEF Transition
    <3> QED
      BY <3>1, TransitionTypes
  <2>2. /\ working' \in [Workers -> SUBSET Jobs]
        /\ cleanupDue' \in [Workers -> SUBSET Jobs]
    BY <1>0, <1>7 DEF HandlerOk, HandlerReturns
  <2>3. active' \in [Workers -> Int]
    BY <1>0, <1>7 DEF HandlerOk, HandlerReturns
  <2> QED
    BY <1>7, <2>1, <2>2, <2>3 DEF HandlerOk, HandlerReturns
<1>8. ASSUME NEW w \in Workers, HandlerErr(w) PROVE ExecTypeOK'
  <2>1. /\ stage' \in [Workers -> Stages]
        /\ machine' \in [Workers -> States]
    <3>1. Transition(w, "failed", "saving_err")
      BY <1>8 DEF HandlerErr, HandlerReturns
    <3> HIDE DEF Transition
    <3> QED
      BY <3>1, TransitionTypes
  <2>2. /\ working' \in [Workers -> SUBSET Jobs]
        /\ cleanupDue' \in [Workers -> SUBSET Jobs]
    BY <1>0, <1>8 DEF HandlerErr, HandlerReturns
  <2>3. active' \in [Workers -> Int]
    BY <1>0, <1>8 DEF HandlerErr, HandlerReturns
  <2> QED
    BY Zenon, <1>8, <2>1, <2>2, <2>3 DEF HandlerErr, HandlerReturns
<1>9. ASSUME NEW w \in Workers, HandlerTimeout(w) PROVE ExecTypeOK'
  <2>1. /\ stage' \in [Workers -> Stages]
        /\ machine' \in [Workers -> States]
    <3>1. Transition(w, "timeout", "saving_err")
      BY <1>9 DEF HandlerTimeout
    <3> HIDE DEF Transition
    <3> QED
      BY Zenon, <3>1, TransitionTypes
  <2>2. active' \in [Workers -> Int]
    BY <1>0, <1>9 DEF HandlerTimeout
  <2> QED
    BY <1>9, <2>1, <2>2 DEF HandlerTimeout
<1>10. ASSUME NEW w \in Workers, NEW j \in Jobs, BlockingWorkEnds(w, j)
       PROVE  ExecTypeOK'
  BY <1>0, <1>10 DEF BlockingWorkEnds
<1>11. ASSUME NEW w \in Workers, SaveSuccess(w) PROVE ExecTypeOK'
  <2>1. /\ stage' \in [Workers -> Stages]
        /\ verdict' \in [Jobs -> {"none", "ok", "err"}]
        /\ resultFile' \in [Jobs -> FileContents]
    BY Zenon, <1>0, <1>11 DEF SaveSuccess
  <2>2. cache' \in [Workers -> SUBSET Keys]
    BY <1>0, <1>11 DEF SaveSuccess
  <2>3. saved' \in [Workers -> [Keys -> Nat]]
    BY <1>0, <1>11 DEF SaveSuccess
  <2> QED
    BY <1>11, <2>1, <2>2, <2>3 DEF SaveSuccess
<1>12. ASSUME NEW w \in Workers, SaveFailure(w) PROVE ExecTypeOK'
  BY Zenon, <1>0, <1>12 DEF SaveFailure
<1>13. ASSUME NEW w \in Workers, SaveFails(w) PROVE ExecTypeOK'
  <2>1. job[w] \in Jobs
    BY Zenon, <1>0, <1>13 DEF SaveFails
  <2>2. resultFile' \in [Jobs -> FileContents]
    <3>1. PICK content \in {resultFile[job[w]], "torn"} :
            resultFile' = [resultFile EXCEPT ![job[w]] = content]
      BY Zenon, <1>13 DEF SaveFails
    <3>2. content \in FileContents
      BY Zenon, <2>1
    <3> QED
      BY Zenon, <3>1, <3>2
  <2>3. /\ stage' \in [Workers -> Stages]
        /\ verdict' \in [Jobs -> {"none", "ok", "err"}]
    BY <1>13, <2>1 DEF SaveFails
  <2> QED
    BY <1>13, <2>2, <2>3 DEF SaveFails
<1>14. ASSUME NEW w \in Workers, Release(w) PROVE ExecTypeOK'
  BY <1>0, <1>14 DEF Release
<1>15. ASSUME NEW w \in Workers, Crash(w) PROVE ExecTypeOK'
  <2>1. /\ stage' \in [Workers -> Stages]
        /\ job' \in [Workers -> Jobs \cup {NoJob}]
        /\ machine' \in [Workers -> States]
    BY <1>0, <1>15 DEF Crash
  <2>2. /\ cache' \in [Workers -> SUBSET Keys]
        /\ working' \in [Workers -> SUBSET Jobs]
        /\ cleanupDue' \in [Workers -> SUBSET Jobs]
    BY <1>0, <1>15 DEF Crash
  <2>3. /\ active' \in [Workers -> Int]
        /\ saved' \in [Workers -> [Keys -> Nat]]
    BY <1>0, <1>15 DEF Crash
  <2>4. resultFile' \in [Jobs -> FileContents]
    BY Zenon, <1>0, <1>15 DEF Crash
  <2> QED
    BY <1>15, <2>1, <2>2, <2>3, <2>4 DEF Crash
<1>16. ASSUME NEW w \in Workers, Restart(w) PROVE ExecTypeOK'
  BY <1>0, <1>16 DEF Restart
<1>17. CASE UNCHANGED execVars
  BY Zenon, <1>17 DEF execVars
<1> HIDE DEF ExecTypeOK, Transition, Return
<1> QED
  BY <1>1, <1>2, <1>3, <1>4, <1>5, <1>6, <1>7, <1>8, <1>9, <1>10, <1>11, <1>12,
     <1>13, <1>14, <1>15, <1>16, <1>17
  DEF ExecNext, ExecStep, ExecuteStep

\* Stage, state machine and job stay in step, and no transition is refused.
LEMMA ExecStageStep ==
  ExecInv /\ [ExecNext]_execVars =>
    (MachineFollowsStage /\ JobFollowsStage /\ TransitionsAccepted)'
<1> SUFFICES ASSUME ExecInv, [ExecNext]_execVars
             PROVE  (MachineFollowsStage /\ JobFollowsStage
                       /\ TransitionsAccepted)'
  OBVIOUS
<1>0. /\ MachineFollowsStage /\ JobFollowsStage /\ TransitionsAccepted
      /\ stage \in [Workers -> Stages]
      /\ job \in [Workers -> Jobs \cup {NoJob}]
      /\ machine \in [Workers -> States]
  BY DEF ExecInv, ExecTypeOK
<1> USE <1>0, ExecutorAssumption, TakenTransitions
    DEF Transition, Return, MachineFollowsStage, JobFollowsStage,
        TransitionsAccepted
<1>1. ASSUME NEW w \in Workers, NEW j \in Jobs, Receive(w, j)
     PROVE  (MachineFollowsStage /\ JobFollowsStage /\ TransitionsAccepted)'
  BY <1>1 DEF Receive
<1>2. ASSUME NEW w \in Workers, CacheHit(w)
     PROVE  (MachineFollowsStage /\ JobFollowsStage /\ TransitionsAccepted)'
  BY <1>2 DEF CacheHit
<1>3. ASSUME NEW w \in Workers, CacheMiss(w)
     PROVE  (MachineFollowsStage /\ JobFollowsStage /\ TransitionsAccepted)'
  BY <1>3 DEF CacheMiss
<1>4. ASSUME NEW w \in Workers, ValidateFails(w)
     PROVE  (MachineFollowsStage /\ JobFollowsStage /\ TransitionsAccepted)'
  BY <1>4 DEF ValidateFails
<1>5. ASSUME NEW w \in Workers, ValidateOk(w)
     PROVE  (MachineFollowsStage /\ JobFollowsStage /\ TransitionsAccepted)'
  BY <1>5 DEF ValidateOk
<1>6. ASSUME NEW w \in Workers, StartHandler(w)
     PROVE  (MachineFollowsStage /\ JobFollowsStage /\ TransitionsAccepted)'
  BY <1>6 DEF StartHandler
<1>7. ASSUME NEW w \in Workers, HandlerOk(w)
     PROVE  (MachineFollowsStage /\ JobFollowsStage /\ TransitionsAccepted)'
  BY <1>7 DEF HandlerOk, HandlerReturns
<1>8. ASSUME NEW w \in Workers, HandlerErr(w)
     PROVE  (MachineFollowsStage /\ JobFollowsStage /\ TransitionsAccepted)'
  BY <1>8 DEF HandlerErr, HandlerReturns
<1>9. ASSUME NEW w \in Workers, HandlerTimeout(w)
     PROVE  (MachineFollowsStage /\ JobFollowsStage /\ TransitionsAccepted)'
  BY <1>9 DEF HandlerTimeout
<1>10. ASSUME NEW w \in Workers, NEW j \in Jobs, BlockingWorkEnds(w, j)
     PROVE  (MachineFollowsStage /\ JobFollowsStage /\ TransitionsAccepted)'
  BY <1>10 DEF BlockingWorkEnds
<1>11. ASSUME NEW w \in Workers, SaveSuccess(w)
     PROVE  (MachineFollowsStage /\ JobFollowsStage /\ TransitionsAccepted)'
  BY <1>11 DEF SaveSuccess
<1>12. ASSUME NEW w \in Workers, SaveFailure(w)
     PROVE  (MachineFollowsStage /\ JobFollowsStage /\ TransitionsAccepted)'
  BY <1>12 DEF SaveFailure
<1>13. ASSUME NEW w \in Workers, SaveFails(w)
     PROVE  (MachineFollowsStage /\ JobFollowsStage /\ TransitionsAccepted)'
  BY <1>13 DEF SaveFails
<1>14. ASSUME NEW w \in Workers, Release(w)
     PROVE  (MachineFollowsStage /\ JobFollowsStage /\ TransitionsAccepted)'
  BY <1>14 DEF Release
<1>15. ASSUME NEW w \in Workers, Crash(w)
     PROVE  (MachineFollowsStage /\ JobFollowsStage /\ TransitionsAccepted)'
  BY <1>15 DEF Crash
<1>16. ASSUME NEW w \in Workers, Restart(w)
     PROVE  (MachineFollowsStage /\ JobFollowsStage /\ TransitionsAccepted)'
  BY <1>16 DEF Restart
<1>17. CASE UNCHANGED execVars
  BY <1>17 DEF execVars
<1> HIDE DEF Transition, Return, MachineFollowsStage,
             JobFollowsStage, TransitionsAccepted
<1> QED
  BY <1>1, <1>2, <1>3, <1>4, <1>5, <1>6, <1>7, <1>8, <1>9, <1>10, <1>11, <1>12,
     <1>13, <1>14, <1>15, <1>16, <1>17
  DEF ExecNext, ExecStep, ExecuteStep

\* The gauge keeps covering the job in flight.
LEMMA ExecGaugeStep == ExecInv /\ [ExecNext]_execVars => GaugeCoversInFlight'
<1> SUFFICES ASSUME ExecInv, [ExecNext]_execVars PROVE GaugeCoversInFlight'
  OBVIOUS
<1>0. /\ GaugeCoversInFlight /\ MachineFollowsStage
      /\ stage \in [Workers -> Stages]
      /\ active \in [Workers -> Int]
  BY DEF ExecInv, ExecTypeOK
<1> USE <1>0, TakenTransitions DEF Transition, Return, GaugeCoversInFlight
<1>1. ASSUME NEW w \in Workers, NEW j \in Jobs, Receive(w, j)
     PROVE  GaugeCoversInFlight'
  BY <1>1 DEF Receive
<1>2. ASSUME NEW w \in Workers, CacheHit(w)
     PROVE  GaugeCoversInFlight'
  BY <1>2 DEF CacheHit
<1>3. ASSUME NEW w \in Workers, CacheMiss(w)
     PROVE  GaugeCoversInFlight'
  BY <1>3 DEF CacheMiss
<1>4. ASSUME NEW w \in Workers, ValidateFails(w)
     PROVE  GaugeCoversInFlight'
  BY <1>4 DEF ValidateFails
<1>5. ASSUME NEW w \in Workers, ValidateOk(w)
     PROVE  GaugeCoversInFlight'
  BY <1>5 DEF ValidateOk
<1>6. ASSUME NEW w \in Workers, StartHandler(w)
     PROVE  GaugeCoversInFlight'
  BY <1>6 DEF StartHandler
<1>7. ASSUME NEW w \in Workers, HandlerOk(w)
     PROVE  GaugeCoversInFlight'
  BY <1>7 DEF HandlerOk, HandlerReturns
<1>8. ASSUME NEW w \in Workers, HandlerErr(w)
     PROVE  GaugeCoversInFlight'
  BY <1>8 DEF HandlerErr, HandlerReturns
<1>9. ASSUME NEW w \in Workers, HandlerTimeout(w)
     PROVE  GaugeCoversInFlight'
  BY <1>9 DEF HandlerTimeout
<1>10. ASSUME NEW w \in Workers, NEW j \in Jobs, BlockingWorkEnds(w, j)
     PROVE  GaugeCoversInFlight'
  BY <1>10 DEF BlockingWorkEnds
<1>11. ASSUME NEW w \in Workers, SaveSuccess(w)
     PROVE  GaugeCoversInFlight'
  BY <1>11 DEF SaveSuccess
<1>12. ASSUME NEW w \in Workers, SaveFailure(w)
     PROVE  GaugeCoversInFlight'
  BY <1>12 DEF SaveFailure
<1>13. ASSUME NEW w \in Workers, SaveFails(w)
     PROVE  GaugeCoversInFlight'
  BY <1>13 DEF SaveFails
<1>14. ASSUME NEW w \in Workers, Release(w)
     PROVE  GaugeCoversInFlight'
  BY <1>14 DEF Release
<1>15. ASSUME NEW w \in Workers, Crash(w)
     PROVE  GaugeCoversInFlight'
  BY <1>15 DEF Crash
<1>16. ASSUME NEW w \in Workers, Restart(w)
     PROVE  GaugeCoversInFlight'
  BY <1>16 DEF Restart
<1>17. CASE UNCHANGED execVars
  BY <1>17 DEF execVars
<1> HIDE DEF ExecTypeOK, Transition, Return, GaugeCoversInFlight
<1> QED
  BY <1>1, <1>2, <1>3, <1>4, <1>5, <1>6, <1>7, <1>8, <1>9, <1>10, <1>11, <1>12,
     <1>13, <1>14, <1>15, <1>16, <1>17
  DEF ExecNext, ExecStep, ExecuteStep

\* A key's first success puts it in the cache, and no job past the check has it.
LEMMA ExecCacheStep == ExecInv /\ [ExecNext]_execVars => CacheDiscipline'
<1> SUFFICES ASSUME ExecInv, [ExecNext]_execVars PROVE CacheDiscipline'
  OBVIOUS
<1> USE ExecutorAssumption, TakenTransitions
    DEF ExecInv, ExecTypeOK, Transition, Return,
        CacheDiscipline, JobFollowsStage
<1>1. ASSUME NEW w \in Workers, NEW j \in Jobs, Receive(w, j)
     PROVE  CacheDiscipline'
  BY <1>1 DEF Receive
<1>2. ASSUME NEW w \in Workers, CacheHit(w)
     PROVE  CacheDiscipline'
  BY <1>2 DEF CacheHit
<1>3. ASSUME NEW w \in Workers, CacheMiss(w)
     PROVE  CacheDiscipline'
  BY <1>3 DEF CacheMiss
<1>4. ASSUME NEW w \in Workers, ValidateFails(w)
     PROVE  CacheDiscipline'
  BY <1>4 DEF ValidateFails
<1>5. ASSUME NEW w \in Workers, ValidateOk(w)
     PROVE  CacheDiscipline'
  BY <1>5 DEF ValidateOk
<1>6. ASSUME NEW w \in Workers, StartHandler(w)
     PROVE  CacheDiscipline'
  BY <1>6 DEF StartHandler
<1>7. ASSUME NEW w \in Workers, HandlerOk(w)
     PROVE  CacheDiscipline'
  BY <1>7 DEF HandlerOk, HandlerReturns
<1>8. ASSUME NEW w \in Workers, HandlerErr(w)
     PROVE  CacheDiscipline'
  BY <1>8 DEF HandlerErr, HandlerReturns
<1>9. ASSUME NEW w \in Workers, HandlerTimeout(w)
     PROVE  CacheDiscipline'
  BY <1>9 DEF HandlerTimeout
<1>10. ASSUME NEW w \in Workers, NEW j \in Jobs, BlockingWorkEnds(w, j)
     PROVE  CacheDiscipline'
  BY Zenon, <1>10 DEF BlockingWorkEnds
<1>11. ASSUME NEW w \in Workers, SaveSuccess(w)
     PROVE  CacheDiscipline'
  BY <1>11 DEF SaveSuccess
<1>12. ASSUME NEW w \in Workers, SaveFailure(w)
     PROVE  CacheDiscipline'
  BY <1>12 DEF SaveFailure
<1>13. ASSUME NEW w \in Workers, SaveFails(w)
     PROVE  CacheDiscipline'
  BY <1>13 DEF SaveFails
<1>14. ASSUME NEW w \in Workers, Release(w)
     PROVE  CacheDiscipline'
  BY <1>14 DEF Release
<1>15. ASSUME NEW w \in Workers, Crash(w)
     PROVE  CacheDiscipline'
  BY <1>15 DEF Crash
<1>16. ASSUME NEW w \in Workers, Restart(w)
     PROVE  CacheDiscipline'
  BY <1>16 DEF Restart
<1>17. CASE UNCHANGED execVars
  BY <1>17 DEF execVars
<1> HIDE DEF ExecTypeOK, Transition, Return, CacheDiscipline, JobFollowsStage
<1> QED
  BY <1>1, <1>2, <1>3, <1>4, <1>5, <1>6, <1>7, <1>8, <1>9, <1>10, <1>11, <1>12,
     <1>13, <1>14, <1>15, <1>16, <1>17
  DEF ExecNext, ExecStep, ExecuteStep

\* The invariant is inductive.
LEMMA ExecInvStep == ExecInv /\ [ExecNext]_execVars => ExecInv'
BY ExecTypeStep, ExecStageStep, ExecGaugeStep, ExecCacheStep DEF ExecInv

\* Every reachable state of the executor satisfies the inductive invariant.
THEOREM ExecInvariant == ExecSpec => []ExecInv
<1> QED
  BY ExecInitInv, ExecInvStep, PTL DEF ExecSpec

\* The executor's variables keep their types, for any workers, jobs and keys.
THEOREM ExecTypeCorrect == ExecSpec => []ExecTypeOK
<1>1. ExecInv => ExecTypeOK
  BY DEF ExecInv
<1> QED
  BY <1>1, ExecInvariant, PTL

\* execute() never runs into InvalidStateTransition.
THEOREM NoTransitionRefused == ExecSpec => []TransitionsAccepted
<1>1. ExecInv => TransitionsAccepted
  BY DEF ExecInv
<1> QED
  BY <1>1, ExecInvariant, PTL

\* A worker process executes an idempotency key to success at most once,
\* whatever it is handed, in whatever order.
THEOREM KeyOncePerProcess == ExecSpec => []IdempotentInProcess
<1>1. ExecInv => IdempotentInProcess
  BY DEF ExecInv, CacheDiscipline, IdempotentInProcess
<1> QED
  BY <1>1, ExecInvariant, PTL

\* The active_jobs gauge never drops below the number of jobs in flight.
THEOREM GaugeNeverUnder == ExecSpec => []GaugeCoversInFlight
<1>1. ExecInv => GaugeCoversInFlight
  BY DEF ExecInv
<1> QED
  BY <1>1, ExecInvariant, PTL

-----------------------------------------------------------------------------
\* The executor alone may be handed a job by two processes, which then write one
\* result file.  What follows is about one process; JobStatusProofs shows the
\* same for any number of workers behind the queue, which delivers a job once.
OneProcess == \A v, w \in Workers : v = w

\* No two workers have the same job.
JobsExclusive ==
  \A v, w \in Workers : job[v] = job[w] /\ job[w] \in Jobs => v = w

\* Blocking work and cleanups that outlived their handler.
Left(w) == cleanupDue[w] \cup working[w]

\* A job with something left behind is with nobody else.
SoleHolder ==
  \A v, w \in Workers : \A j \in Left(w) : job[v] = j => v = w

\* What is left behind is of the handler at work, of a job that is being saved
\* as timed out, of one that ended in an error, or of a key that is cached; and
\* a job that is being saved as a success left nothing.
LeftInv ==
  \A w \in Workers : \A j \in Left(w) :
    /\ \/ job[w] = j /\ stage[w] = "running"
       \/ job[w] = j /\ stage[w] = "saving_err" /\ machine[w] = "timeout"
       \/ verdict[j] = "err"
       \/ KeyOf[j] \in cache[w]
    /\ ~(job[w] = j /\ stage[w] = "saving_ok")

\* Each step of the executor keeps what is left behind explained.
LEMMA ExecLeftStep ==
  ExecInv /\ SoleHolder /\ LeftInv /\ [ExecNext]_execVars => LeftInv'
<1> SUFFICES ASSUME ExecInv, SoleHolder, LeftInv, [ExecNext]_execVars
             PROVE  LeftInv'
  OBVIOUS
<1>0. /\ stage \in [Workers -> Stages]
      /\ job \in [Workers -> Jobs \cup {NoJob}]
      /\ machine \in [Workers -> States]
      /\ cache \in [Workers -> SUBSET Keys]
      /\ working \in [Workers -> SUBSET Jobs]
      /\ cleanupDue \in [Workers -> SUBSET Jobs]
      /\ verdict \in [Jobs -> {"none", "ok", "err"}]
      /\ MachineFollowsStage /\ JobFollowsStage /\ CacheDiscipline
      /\ NoJob \notin Jobs
  BY Zenon, ExecutorAssumption DEF ExecInv, ExecTypeOK
<1> USE <1>0, TakenTransitions
    DEF Transition, Return, LeftInv, SoleHolder, Left, MachineFollowsStage
<1>1. ASSUME NEW w \in Workers, NEW j \in Jobs, Receive(w, j)
     PROVE  LeftInv'
  BY <1>1 DEF Receive, JobFollowsStage
<1>2. ASSUME NEW w \in Workers, CacheHit(w)
     PROVE  LeftInv'
  BY ZenonT(40), <1>2 DEF CacheHit, JobFollowsStage
<1>3. ASSUME NEW w \in Workers, CacheMiss(w)
     PROVE  LeftInv'
  BY <1>3 DEF CacheMiss
<1>4. ASSUME NEW w \in Workers, ValidateFails(w)
     PROVE  LeftInv'
  BY Zenon, <1>4 DEF ValidateFails
<1>5. ASSUME NEW w \in Workers, ValidateOk(w)
     PROVE  LeftInv'
  BY <1>5 DEF ValidateOk
<1>6. ASSUME NEW w \in Workers, StartHandler(w)
     PROVE  LeftInv'
  BY <1>6 DEF StartHandler
<1>7. ASSUME NEW w \in Workers, HandlerOk(w)
     PROVE  LeftInv'
  BY <1>7 DEF HandlerOk, HandlerReturns
<1>8. ASSUME NEW w \in Workers, HandlerErr(w)
     PROVE  LeftInv'
  BY <1>8 DEF HandlerErr, HandlerReturns
<1>9. ASSUME NEW w \in Workers, HandlerTimeout(w)
     PROVE  LeftInv'
  BY SMTT(20), <1>9 DEF HandlerTimeout
<1>10. ASSUME NEW w \in Workers, NEW j \in Jobs, BlockingWorkEnds(w, j)
     PROVE  LeftInv'
  BY ZenonT(40), <1>10 DEF BlockingWorkEnds
<1>11. ASSUME NEW w \in Workers, SaveSuccess(w)
     PROVE  LeftInv'
  BY ZenonT(40), <1>11 DEF SaveSuccess, JobFollowsStage
<1>12. ASSUME NEW w \in Workers, SaveFailure(w)
     PROVE  LeftInv'
  BY ZenonT(40), <1>12 DEF SaveFailure, JobFollowsStage
<1>13. ASSUME NEW w \in Workers, SaveFails(w)
     PROVE  LeftInv'
  BY <1>13 DEF SaveFails, JobFollowsStage
<1>14. ASSUME NEW w \in Workers, Release(w)
     PROVE  LeftInv'
  BY <1>14 DEF Release
<1>15. ASSUME NEW w \in Workers, Crash(w)
     PROVE  LeftInv'
  BY <1>15 DEF Crash
<1>16. ASSUME NEW w \in Workers, Restart(w)
     PROVE  LeftInv'
  BY Zenon, <1>16 DEF Restart
<1>17. CASE UNCHANGED execVars
  BY <1>17 DEF execVars
<1> HIDE DEF Transition, Return, LeftInv, SoleHolder, Left, MachineFollowsStage
<1> QED
  BY <1>1, <1>2, <1>3, <1>4, <1>5, <1>6, <1>7, <1>8, <1>9, <1>10, <1>11, <1>12,
     <1>13, <1>14, <1>15, <1>16, <1>17
  DEF ExecNext, ExecStep, ExecuteStep

\* Only a worker that is saving a job, or dies while it does, writes its file.
FileWritten ==
  \A j \in Jobs : resultFile'[j] # resultFile[j] =>
    \E v \in Workers : job[v] = j /\ stage[v] \in {"saving_ok", "saving_err"}

\* No step of the executor writes a result file otherwise.
LEMMA ExecFileWritten == ExecInv /\ [ExecNext]_execVars => FileWritten
<1> SUFFICES ASSUME ExecInv, [ExecNext]_execVars PROVE FileWritten
  OBVIOUS
<1>0. resultFile \in [Jobs -> FileContents]
  BY Zenon DEF ExecInv, ExecTypeOK
<1>1. ASSUME NEW w \in Workers,
             SaveSuccess(w) \/ SaveFailure(w) \/ SaveFails(w) \/ Crash(w)
      PROVE  FileWritten
  BY Zenon, <1>0, <1>1 DEF SaveSuccess, SaveFailure, SaveFails, Crash, FileWritten
<1>2. CASE UNCHANGED resultFile
  BY <1>2 DEF FileWritten
<1>3. ASSUME NEW w \in Workers,
             \/ \E j \in Jobs : Receive(w, j) \/ BlockingWorkEnds(w, j)
             \/ CacheHit(w) \/ CacheMiss(w) \/ ValidateFails(w) \/ ValidateOk(w)
             \/ StartHandler(w) \/ HandlerOk(w) \/ HandlerErr(w)
             \/ HandlerTimeout(w) \/ Release(w) \/ Restart(w)
      PROVE  UNCHANGED resultFile
  BY Zenon, <1>3 DEF Receive, BlockingWorkEnds, CacheHit, CacheMiss, ValidateFails,
    ValidateOk, StartHandler, HandlerOk, HandlerErr, HandlerReturns,
    HandlerTimeout, Release, Restart
<1>4. CASE UNCHANGED execVars
  BY <1>2, <1>4 DEF execVars
<1> QED
  BY <1>1, <1>2, <1>3, <1>4 DEF ExecNext, ExecStep, ExecuteStep

\* A worker at "ok" was there before, with the job and the cache it has, or has
\* just saved a success or found the key.
OkEntered ==
  \A w \in Workers : stage'[w] = "ok" =>
    \/ stage[w] = "ok" /\ job'[w] = job[w] /\ cache[w] \subseteq cache'[w]
    \/ resultFile'[job'[w]] = "completed"
    \/ KeyOf[job'[w]] \in cache'[w]

\* Every step of the executor enters "ok" in that way only.
LEMMA ExecOkEntered == ExecInv /\ [ExecNext]_execVars => OkEntered
<1> SUFFICES ASSUME ExecInv, [ExecNext]_execVars PROVE OkEntered
  OBVIOUS
<1>0. /\ stage \in [Workers -> Stages]
      /\ job \in [Workers -> Jobs \cup {NoJob}]
      /\ cache \in [Workers -> SUBSET Keys]
      /\ resultFile \in [Jobs -> FileContents]
      /\ JobFollowsStage
  BY DEF ExecInv, ExecTypeOK
<1> USE <1>0 DEF Transition, Return, OkEntered
<1>1. ASSUME NEW w \in Workers, NEW j \in Jobs, Receive(w, j)
     PROVE  OkEntered
  BY <1>1 DEF Receive
<1>2. ASSUME NEW w \in Workers, CacheHit(w)
     PROVE  OkEntered
  BY <1>2 DEF CacheHit
<1>3. ASSUME NEW w \in Workers, CacheMiss(w)
     PROVE  OkEntered
  BY <1>3 DEF CacheMiss
<1>4. ASSUME NEW w \in Workers, ValidateFails(w)
     PROVE  OkEntered
  BY <1>4 DEF ValidateFails
<1>5. ASSUME NEW w \in Workers, ValidateOk(w)
     PROVE  OkEntered
  BY <1>5 DEF ValidateOk
<1>6. ASSUME NEW w \in Workers, StartHandler(w)
     PROVE  OkEntered
  BY <1>6 DEF StartHandler
<1>7. ASSUME NEW w \in Workers, HandlerOk(w)
     PROVE  OkEntered
  BY <1>7 DEF HandlerOk, HandlerReturns
<1>8. ASSUME NEW w \in Workers, HandlerErr(w)
     PROVE  OkEntered
  BY <1>8 DEF HandlerErr, HandlerReturns
<1>9. ASSUME NEW w \in Workers, HandlerTimeout(w)
     PROVE  OkEntered
  BY <1>9 DEF HandlerTimeout
<1>10. ASSUME NEW w \in Workers, NEW j \in Jobs, BlockingWorkEnds(w, j)
     PROVE  OkEntered
  BY <1>10 DEF BlockingWorkEnds
<1>11. ASSUME NEW w \in Workers, SaveSuccess(w)
     PROVE  OkEntered
  BY <1>11 DEF SaveSuccess, JobFollowsStage
<1>12. ASSUME NEW w \in Workers, SaveFailure(w)
     PROVE  OkEntered
  BY <1>12 DEF SaveFailure
<1>13. ASSUME NEW w \in Workers, SaveFails(w)
     PROVE  OkEntered
  BY <1>13 DEF SaveFails
<1>14. ASSUME NEW w \in Workers, Release(w)
     PROVE  OkEntered
  BY Zenon, <1>14 DEF Release
<1>15. ASSUME NEW w \in Workers, Crash(w)
     PROVE  OkEntered
  BY <1>15 DEF Crash
<1>16. ASSUME NEW w \in Workers, Restart(w)
     PROVE  OkEntered
  BY <1>16 DEF Restart
<1>17. CASE UNCHANGED execVars
  BY Zenon, <1>17 DEF execVars
<1> HIDE DEF Transition, Return, OkEntered
<1> QED
  BY <1>1, <1>2, <1>3, <1>4, <1>5, <1>6, <1>7, <1>8, <1>9, <1>10, <1>11, <1>12,
     <1>13, <1>14, <1>15, <1>16, <1>17
  DEF ExecNext, ExecStep, ExecuteStep

\* As long as no two workers have the same job, Ok goes with a saved result.
LEMMA ExecOkStep ==
  ExecInv /\ JobsExclusive /\ OkMeansSaved /\ [ExecNext]_execVars => OkMeansSaved'
<1> SUFFICES ASSUME ExecInv, JobsExclusive, OkMeansSaved, [ExecNext]_execVars,
                    NEW w \in Workers, stage'[w] = "ok"
             PROVE  resultFile'[job'[w]] = "completed" \/ KeyOf[job'[w]] \in cache'[w]
  BY DEF OkMeansSaved
<1>1. FileWritten /\ OkEntered
  BY ExecFileWritten, ExecOkEntered
<1>2. CASE stage[w] = "ok" /\ job'[w] = job[w] /\ cache[w] \subseteq cache'[w]
  <2>1. job[w] \in Jobs
    BY Zenon, <1>2 DEF ExecInv, ExecTypeOK, JobFollowsStage
  <2>2. resultFile'[job[w]] = resultFile[job[w]]
    BY <1>1, <1>2, <2>1 DEF FileWritten, JobsExclusive
  <2> QED
    BY <1>2, <2>2 DEF OkMeansSaved
<1> QED
  BY <1>1, <1>2 DEF OkEntered

\* A step of one process never touches the file of a job whose key it remembers.
LEMMA ExecCachedStep ==
  ASSUME OneProcess, ExecInv, [ExecNext]_execVars
  PROVE  \A w \in Workers : \A j \in Jobs :
           resultFile[j] = "completed" /\ KeyOf[j] \in cache[w] =>
             resultFile'[j] = "completed"
<1>1. FileWritten /\ CacheDiscipline
  BY ExecFileWritten DEF ExecInv
<1> QED
  BY <1>1 DEF FileWritten, CacheDiscipline, OneProcess

\* The strengthened invariants hold of one process.
LEMMA OneProcessInv ==
  ASSUME OneProcess
  PROVE  ExecSpec => [](ExecInv /\ LeftInv /\ OkMeansSaved)
<1>1. SoleHolder /\ JobsExclusive
  BY DEF OneProcess, SoleHolder, JobsExclusive
<1>2. ExecInit => LeftInv /\ OkMeansSaved
  BY DEF ExecInit, LeftInv, Left, OkMeansSaved
<1>3. ExecInv /\ LeftInv /\ OkMeansSaved /\ [ExecNext]_execVars =>
        (ExecInv /\ LeftInv /\ OkMeansSaved)'
  BY <1>1, ExecInvStep, ExecLeftStep, ExecOkStep
<1> QED
  BY <1>2, <1>3, ExecInitInv, PTL DEF ExecSpec

\* In one process, whatever jobs it is handed and in whatever order, blocking work
\* and cleanups outlive their handler only after a timeout.
THEOREM OneProcessLeavesByTimeout ==
  OneProcess => (ExecSpec => []LeftBehindOnlyByTimeout)
<1> SUFFICES ASSUME OneProcess PROVE ExecSpec => []LeftBehindOnlyByTimeout
  OBVIOUS
<1>1. LeftInv => LeftBehindOnlyByTimeout
  BY DEF LeftInv, Left, LeftBehindOnlyByTimeout
<1> QED
  BY <1>1, OneProcessInv, PTL

\* In one process an Ok goes with a saved or remembered result, and the file of a
\* remembered one is not touched again.
THEOREM OneProcessKeepsResults == OneProcess => (ExecSpec => ResultsAreKept)
<1> SUFFICES ASSUME OneProcess PROVE ExecSpec => ResultsAreKept
  OBVIOUS
<1>1. ExecInv /\ [ExecNext]_execVars =>
        [\A w \in Workers : \A j \in Jobs :
            /\ resultFile[j] = "completed"
            /\ KeyOf[j] \in cache[w]
            => resultFile'[j] = "completed"]_execVars
  BY ExecCachedStep
<1> QED
  BY <1>1, OneProcessInv, PTL DEF ExecSpec, ResultsAreKept, CachedResultStable

-----------------------------------------------------------------------------
\* fetch_job has a job in hand exactly between XREADGROUP and its return, and
\* then the loop is not inside execute(); results are published after it.
HandFollowsLink ==
  \A w \in Workers :
    /\ link[w] = "announce" <=> handed[w] # NoJob
    /\ link[w] = "announce" => stage[w] = "idle"
    /\ link[w] \in {"publish_result", "publish_status"} =>
         stage[w] \in {"ok", "err"}

\* A request that is about to write the row back has read a live status.
ReaderInv ==
  \A r \in Readers : reader[r].at = "sync" => reader[r].status \in Statuses

\* No job is in the stream twice.
StreamDistinct ==
  \A i, k \in DOMAIN stream : stream[i] = stream[k] => i = k

\* A job is in one place: not submitted, in the stream, with one worker, or
\* gone; and its handler was not started while it was in the first two.
OnePlace ==
  \A j \in Jobs :
    /\ submit[j] = "new" => starts[j] = 0 /\ ~InStream(j)
    /\ submit[j] = "new" \/ InStream(j) => \A w \in Workers : ~Holds(w, j)
    /\ InStream(j) => starts[j] = 0
    /\ \A v, w \in Workers : Holds(v, j) /\ Holds(w, j) => v = w

Entering == {"fetched", "validating", "assigned"}

\* A job on its way to the handler has not been started yet.
NotStartedBefore ==
  /\ \A w \in Workers :
       /\ handed[w] \in Jobs => starts[handed[w]] = 0
       /\ stage[w] \in Entering => starts[job[w]] = 0
  /\ AtMostOnce

\* The types of the variables that say where a job is.
PlaceTypes ==
  /\ submit \in [Jobs -> {"new", "added", "announced", "done", "error"}]
  /\ stream \in Seq(Jobs)
  /\ handed \in [Workers -> Jobs \cup {NoJob}]
  /\ stage \in [Workers -> Stages]
  /\ job \in [Workers -> Jobs \cup {NoJob}]
  /\ starts \in [Jobs -> Nat]

\* A worker with a job in hand has no other, and vice versa.
HandOrJob ==
  \A w \in Workers :
    /\ handed[w] # NoJob => stage[w] = "idle"
    /\ stage[w] \in {"idle", "down"} <=> job[w] = NoJob

PlaceInv ==
  /\ PlaceTypes
  /\ HandOrJob
  /\ StreamDistinct
  /\ OnePlace
  /\ NotStartedBefore

PipeInv ==
  /\ TypeOK
  /\ ExecInv
  /\ HandFollowsLink
  /\ ReaderInv
  /\ PlaceInv

-----------------------------------------------------------------------------
\* Every step of the pipeline is a step of the executor or leaves it alone.
LEMMA PipelineStepIsExecStep ==
  TypeOK /\ HandFollowsLink /\ [Next]_vars => [ExecNext]_execVars
<1> SUFFICES ASSUME TypeOK, HandFollowsLink, [Next]_vars
             PROVE  ExecNext \/ UNCHANGED execVars
  BY DEF execVars
<1>1. ASSUME NEW j \in Jobs, SubmitStep(j) \/ Expire(j)
      PROVE  UNCHANGED execVars
  BY <1>1 DEF SubmitStep, EnqueueAdd, EnqueueAnnounce, InsertRow, SubmitVars,
              Expire
<1>2. ASSUME NEW w \in Workers, LoopStep(w)
      PROVE  ExecNext \/ UNCHANGED execVars
  <2>1. CASE Fetch(w) \/ FetchFails(w)
    BY <2>1 DEF Fetch, FetchFails, FetchVars
  <2>2. CASE Announce(w)
    <3>1. handed[w] \in Jobs
      BY <2>2, ExecutorAssumption
      DEF Announce, TypeOK, QueueTypeOK, HandFollowsLink
    <3> QED
      BY Zenon, <2>2, <3>1 DEF Announce, ExecNext
  <2>3. CASE ExecuteStep(w)
    BY Zenon, <2>3 DEF ExecNext, ExecStep
  <2>4. CASE Xack(w) \/ PublishResult(w)
    BY Zenon, <2>4 DEF Xack, PublishResult
  <2>5. CASE XackFails(w) \/ PublishStatus(w)
    BY <2>5 DEF XackFails, PublishStatus, ExecNext
  <2> QED
    BY <1>2, <2>1, <2>2, <2>3, <2>4, <2>5 DEF LoopStep
<1>3. ASSUME NEW w \in Workers, HandlerStep(w) PROVE ExecNext
  BY <1>3 DEF HandlerStep, ExecNext, ExecStep
<1>4. ASSUME NEW w \in Workers, WorkerCrash(w) \/ WorkerRestart(w)
      PROVE  ExecNext
  BY <1>4 DEF WorkerCrash, WorkerRestart, ExecNext
<1>5. ASSUME NEW r \in Readers, ReaderStep(r) PROVE UNCHANGED execVars
  BY Zenon, <1>5 DEF ReaderStep, ReadLive, SyncRow, ReadStatus, ReadResult,
              NextRequest, ReadVars
<1>6. ASSUME NEW r \in Readers, NEW j \in Jobs, SelectRow(r, j)
      PROVE  UNCHANGED execVars
  BY <1>6 DEF SelectRow, ReadVars
<1>7. CASE UNCHANGED vars
  BY <1>7 DEF vars
<1> QED
  BY <1>1, <1>2, <1>3, <1>4, <1>5, <1>6, <1>7 DEF Next

\* The elements of a sequence after Append and Tail.
LEMMA AppendElements ==
  ASSUME NEW S, NEW s \in Seq(S), NEW e \in S
  PROVE  /\ Append(s, e) \in Seq(S)
         /\ DOMAIN Append(s, e) = 1 .. Len(s) + 1
         /\ DOMAIN s = 1 .. Len(s)
         /\ Len(s) \in Nat
         /\ \A i \in 1 .. Len(s) : Append(s, e)[i] = s[i]
         /\ Append(s, e)[Len(s) + 1] = e
OBVIOUS

\* Tail drops the first element and shifts the others down by one.
LEMMA TailElements ==
  ASSUME NEW S, NEW s \in Seq(S), s # <<>>
  PROVE  /\ Tail(s) \in Seq(S)
         /\ Len(s) \in Nat \ {0}
         /\ DOMAIN s = 1 .. Len(s)
         /\ DOMAIN Tail(s) = 1 .. Len(s) - 1
         /\ \A i \in 1 .. Len(s) - 1 : Tail(s)[i] = s[i + 1]
         /\ Head(s) = s[1]
         /\ Head(s) \in S
OBVIOUS

\* A mishap is counted within its bound.
LEMMA MishapType ==
  ASSUME mishaps \in 0 .. MaxMishaps, UNCHANGED mishaps \/ Mishap
  PROVE  mishaps' \in 0 .. MaxMishaps
BY PipelineAssumption DEF Mishap

-----------------------------------------------------------------------------
\* The moves a job makes, in terms of the variables of PlaceTypes alone.
Others == <<submit, stream, handed, stage, job, starts>>

AddMove(j) ==
  /\ submit[j] = "new"
  /\ \E s \in {"added", "error"} : submit' = [submit EXCEPT ![j] = s]
  /\ stream' = stream \/ stream' = Append(stream, j)
  /\ UNCHANGED <<handed, stage, job, starts>>

SubmitMove(j) ==
  /\ submit[j] # "new"
  /\ \E s \in {"announced", "done", "error"} :
       submit' = [submit EXCEPT ![j] = s]
  /\ UNCHANGED <<stream, handed, stage, job, starts>>

TakeMove(w) ==
  /\ stage[w] = "idle"
  /\ handed[w] = NoJob
  /\ stream # <<>>
  /\ stream' = Tail(stream)
  /\ \/ handed' = [handed EXCEPT ![w] = Head(stream)]
     \/ UNCHANGED handed
  /\ UNCHANGED <<submit, stage, job, starts>>

ReceiveMove(w) ==
  /\ handed[w] \in Jobs
  /\ handed' = [handed EXCEPT ![w] = NoJob]
  /\ job' = [job EXCEPT ![w] = handed[w]]
  /\ stage' = [stage EXCEPT ![w] = "fetched"]
  /\ UNCHANGED <<submit, stream, starts>>

\* A step inside execute() other than the start of the handler.
InsideMove(w) ==
  /\ \E s \in Stages \ {"idle", "down"} :
       /\ stage' = [stage EXCEPT ![w] = s]
       /\ s \in Entering => stage[w] \in Entering
       /\ stage[w] \in {"ok", "err"} => s = stage[w]
  /\ stage[w] \notin {"idle", "down"}
  /\ UNCHANGED <<submit, stream, handed, job, starts>>

StartMove(w) ==
  /\ stage[w] = "assigned"
  /\ stage' = [stage EXCEPT ![w] = "running"]
  /\ starts' = [starts EXCEPT ![job[w]] = @ + 1]
  /\ UNCHANGED <<submit, stream, handed, job>>

DropMove(w) ==
  /\ \E s \in {"idle", "down"} :
       /\ stage' = [stage EXCEPT ![w] = s]
       /\ s = "idle" => stage[w] # "idle" /\ UNCHANGED handed
       /\ s = "down" => handed' = [handed EXCEPT ![w] = NoJob]
  /\ job' = [job EXCEPT ![w] = NoJob]
  /\ UNCHANGED <<submit, stream, starts>>

\* One of the moves, or none.
AnyMove ==
  \/ \E j \in Jobs : AddMove(j) \/ SubmitMove(j)
  \/ \E w \in Workers :
       \/ TakeMove(w) \/ ReceiveMove(w) \/ InsideMove(w)
       \/ StartMove(w) \/ DropMove(w)
  \/ UNCHANGED Others

\* A step inside execute() starts the handler, changes the stage only, or
\* leaves all of these variables alone.
LEMMA InsideSteps ==
  ASSUME ExecInv, NEW w \in Workers,
         ExecuteStep(w) \/ HandlerOk(w) \/ HandlerErr(w)
           \/ \E j \in Jobs : BlockingWorkEnds(w, j),
         UNCHANGED <<submit, stream, handed>>
  PROVE  StartMove(w) \/ InsideMove(w) \/ UNCHANGED Others
<1>1. /\ IsValidTransition("pending", "queued")
      /\ IsValidTransition("queued", "assigned")
      /\ IsValidTransition("assigned", "running")
      /\ IsValidTransition("running", "completed")
      /\ IsValidTransition("running", "failed")
      /\ IsValidTransition("running", "timeout")
  BY Zenon, TakenTransitions
<1>2. /\ stage[w] = "fetched" => machine[w] = "pending"
      /\ stage[w] = "validating" => machine[w] = "queued"
      /\ stage[w] = "assigned" => machine[w] = "assigned"
      /\ stage[w] = "running" => machine[w] = "running"
  BY Zenon DEF ExecInv, MachineFollowsStage
<1>3. CASE StartHandler(w)
  BY <1>1, <1>2, <1>3 DEF StartHandler, Transition, StartMove
<1> USE DEF InsideMove, Stages, Entering
<1>4. CASE CacheHit(w)
  BY Zenon, <1>4 DEF CacheHit, Return
<1>5. CASE CacheMiss(w)
  BY Zenon, <1>1, <1>2, <1>5 DEF CacheMiss, Transition
<1>6. CASE ValidateFails(w)
  BY Zenon, <1>6 DEF ValidateFails
<1>7. CASE ValidateOk(w)
  BY Zenon, <1>1, <1>2, <1>7 DEF ValidateOk, Transition
<1>8. CASE HandlerTimeout(w)
  BY <1>1, <1>2, <1>8 DEF HandlerTimeout, Transition
<1>9. CASE SaveSuccess(w)
  BY Zenon, <1>9 DEF SaveSuccess, Return
<1>10. CASE SaveFailure(w)
  BY Zenon, <1>10 DEF SaveFailure, Return
<1>11. CASE SaveFails(w)
  BY Zenon, <1>11 DEF SaveFails, Return
<1>12. CASE HandlerOk(w)
  BY Zenon, <1>1, <1>2, <1>12 DEF HandlerOk, HandlerReturns, Transition
<1>13. CASE HandlerErr(w)
  BY <1>1, <1>2, <1>13 DEF HandlerErr, HandlerReturns, Transition
<1>14. ASSUME NEW j \in Jobs, BlockingWorkEnds(w, j)
      PROVE  UNCHANGED Others
  BY Zenon, <1>14 DEF BlockingWorkEnds, Others
<1> HIDE DEF InsideMove, Stages, Entering
<1> QED
  BY <1>3, <1>4, <1>5, <1>6, <1>7, <1>8, <1>9, <1>10, <1>11, <1>12, <1>13, <1>14
  DEF ExecuteStep

\* Every step of the pipeline makes one of the moves.
LEMMA StepsAreMoves ==
  ASSUME TypeOK, ExecInv, HandFollowsLink, [Next]_vars
  PROVE  AnyMove
<1>1. /\ \A w \in Workers : link[w] = "announce" <=> handed[w] # NoJob
      /\ \A w \in Workers : link[w] = "announce" => stage[w] = "idle"
      /\ \A w \in Workers : link[w] \in {"publish_result", "publish_status"} =>
                              stage[w] \in {"ok", "err"}
      /\ handed \in [Workers -> Jobs \cup {NoJob}]
  BY DEF TypeOK, QueueTypeOK, HandFollowsLink
<1>2. ASSUME NEW j \in Jobs, SubmitStep(j) \/ Expire(j)
      PROVE  AnyMove
  <2>1. CASE EnqueueAdd(j)
    <3>1. AddMove(j)
      BY <2>1 DEF EnqueueAdd, AddMove, SubmitVars, execVars
    <3> QED
      BY Zenon, <3>1 DEF AnyMove
  <2>2. CASE EnqueueAnnounce(j) \/ InsertRow(j)
    <3>1. SubmitMove(j)
      BY <2>2 DEF EnqueueAnnounce, InsertRow, SubmitMove, SubmitVars, execVars
    <3> QED
      BY Zenon, <3>1 DEF AnyMove
  <2>3. CASE Expire(j)
    BY <2>3 DEF Expire, execVars, queueVars, AnyMove, Others
  <2> QED
    BY <1>2, <2>1, <2>2, <2>3 DEF SubmitStep
<1>3. ASSUME NEW w \in Workers, Fetch(w) \/ FetchFails(w)
      PROVE  AnyMove
  <2>1. handed[w] = NoJob
    BY Zenon, <1>1, <1>3 DEF Fetch, FetchFails
  <2>2. TakeMove(w)
    BY <1>3, <2>1 DEF Fetch, FetchFails, TakeMove, FetchVars, execVars
  <2> QED
    BY Zenon, <2>2 DEF AnyMove
<1>4. ASSUME NEW w \in Workers, Announce(w)
      PROVE  AnyMove
  <2>1. handed[w] \in Jobs
    BY Zenon, <1>1, <1>4 DEF Announce
  <2>2. ReceiveMove(w)
    BY <1>4, <2>1 DEF Announce, Receive, ReceiveMove
  <2> QED
    BY Zenon, <2>2 DEF AnyMove
<1>5. ASSUME NEW w \in Workers,
             ExecuteStep(w) \/ HandlerOk(w) \/ HandlerErr(w)
               \/ \E j \in Jobs : BlockingWorkEnds(w, j),
             UNCHANGED pipeVars
      PROVE  AnyMove
  <2>1. UNCHANGED <<submit, stream, handed>>
    BY <1>5 DEF pipeVars, queueVars
  <2> QED
    BY <1>5, <2>1, InsideSteps DEF AnyMove
<1>6. ASSUME NEW w \in Workers, Xack(w) \/ PublishResult(w)
      PROVE  AnyMove
  BY Zenon, <1>6 DEF Xack, PublishResult, execVars, AnyMove, Others
<1>7. ASSUME NEW w \in Workers, XackFails(w) \/ PublishStatus(w)
      PROVE  AnyMove
  <2>1. DropMove(w)
    BY Zenon, <1>7 DEF XackFails, PublishStatus, Release, DropMove
  <2> QED
    BY Zenon, <2>1 DEF AnyMove
<1>8. ASSUME NEW w \in Workers, WorkerCrash(w)
      PROVE  AnyMove
  <2>1. DropMove(w)
    BY <1>8 DEF WorkerCrash, Crash, DropMove
  <2> QED
    BY Zenon, <2>1 DEF AnyMove
<1>9. ASSUME NEW w \in Workers, WorkerRestart(w)
      PROVE  AnyMove
  <2>1. job[w] = NoJob /\ job \in [Workers -> Jobs \cup {NoJob}]
    BY <1>9 DEF WorkerRestart, Restart, ExecInv, JobFollowsStage, ExecTypeOK
  <2>2. job' = [job EXCEPT ![w] = NoJob]
    BY <1>9, <2>1 DEF WorkerRestart, Restart
  <2>3. DropMove(w)
    BY Zenon, <1>9, <2>2 DEF WorkerRestart, Restart, DropMove, pipeVars, queueVars
  <2> QED
    BY <2>3 DEF AnyMove
<1>10. ASSUME NEW r \in Readers,
              ReaderStep(r) \/ \E j \in Jobs : SelectRow(r, j)
       PROVE  AnyMove
  <2>1. UNCHANGED Others
    BY Zenon, <1>10 DEF ReaderStep, ReadLive, SyncRow, ReadStatus, ReadResult,
                 NextRequest, SelectRow, ReadVars, execVars, queueVars, Others
  <2> QED
    BY <2>1 DEF AnyMove
<1>11. CASE UNCHANGED vars
  BY <1>11 DEF vars, execVars, pipeVars, queueVars, AnyMove, Others
<1> QED
  BY <1>2, <1>3, <1>4, <1>5, <1>6, <1>7, <1>8, <1>9, <1>10, <1>11
  DEF Next, LoopStep, HandlerStep

-----------------------------------------------------------------------------
\* What Append and Tail do to the stream's set of jobs.
LEMMA AppendStream ==
  ASSUME stream \in Seq(Jobs), StreamDistinct, NEW j \in Jobs, ~InStream(j),
         stream' = Append(stream, j)
  PROVE  /\ stream' \in Seq(Jobs)
         /\ StreamDistinct'
         /\ \A k \in Jobs : InStream(k)' <=> InStream(k) \/ k = j
<1>1. /\ Append(stream, j) \in Seq(Jobs)
      /\ DOMAIN Append(stream, j) = 1 .. Len(stream) + 1
      /\ DOMAIN stream = 1 .. Len(stream)
      /\ Len(stream) \in Nat
      /\ \A i \in 1 .. Len(stream) : Append(stream, j)[i] = stream[i]
      /\ Append(stream, j)[Len(stream) + 1] = j
  BY AppendElements
<1> HIDE DEF StreamDistinct, InStream
<1>2. StreamDistinct'
  BY <1>1 DEF StreamDistinct, InStream
<1>3. \A k \in Jobs : InStream(k)' <=> InStream(k) \/ k = j
  BY <1>1 DEF InStream
<1> QED
  BY Zenon, <1>1, <1>2, <1>3

\* XREADGROUP takes the head of the stream and leaves the other jobs in it.
LEMMA TailStream ==
  ASSUME stream \in Seq(Jobs), StreamDistinct, stream # <<>>,
         stream' = Tail(stream)
  PROVE  /\ stream' \in Seq(Jobs)
         /\ StreamDistinct'
         /\ Head(stream) \in Jobs
         /\ InStream(Head(stream))
         /\ \A k \in Jobs : InStream(k)' <=> InStream(k) /\ k # Head(stream)
<1> DEFINE n == Len(stream)
<1>1. /\ Tail(stream) \in Seq(Jobs)
      /\ n \in Nat \ {0}
      /\ DOMAIN stream = 1 .. n
      /\ DOMAIN Tail(stream) = 1 .. n - 1
      /\ \A i \in 1 .. n - 1 : Tail(stream)[i] = stream[i + 1]
      /\ Head(stream) = stream[1]
      /\ Head(stream) \in Jobs
  BY TailElements
<1> HIDE DEF n
<1>2. StreamDistinct'
  BY <1>1 DEF StreamDistinct
<1>3. InStream(Head(stream))
  BY <1>1 DEF InStream
<1>4. ASSUME NEW k \in Jobs, InStream(k)'
      PROVE  InStream(k) /\ k # Head(stream)
  <2>1. PICK i \in 1 .. n - 1 : stream[i + 1] = k
    BY <1>1, <1>4 DEF InStream
  <2>2. i + 1 \in 1 .. n /\ i + 1 # 1 /\ 1 \in 1 .. n
    BY <1>1, <2>1
  <2> QED
    BY <1>1, <2>1, <2>2 DEF InStream, StreamDistinct
<1>5. ASSUME NEW k \in Jobs, InStream(k), k # Head(stream)
      PROVE  InStream(k)'
  <2>1. PICK i \in 1 .. n : stream[i] = k
    BY <1>1, <1>5 DEF InStream
  <2>2. i - 1 \in 1 .. n - 1 /\ (i - 1) + 1 = i
    BY <1>1, <1>5, <2>1
  <2>3. Tail(stream)[i - 1] = k
    BY <1>1, <2>1, <2>2
  <2> QED
    BY <1>1, <2>2, <2>3 DEF InStream
<1> QED
  BY <1>1, <1>2, <1>3, <1>4, <1>5

\* Without a change of the stream its jobs stay.
LEMMA SameStream ==
  ASSUME UNCHANGED stream, StreamDistinct
  PROVE  StreamDistinct' /\ \A k \in Jobs : InStream(k)' <=> InStream(k)
BY DEF StreamDistinct, InStream

-----------------------------------------------------------------------------
\* The move as the abstract queue sees it: of at most one job.
DeliveryMove == Delivery!DeliveryNext \/ UNCHANGED Delivery!deliveryVars

\* A job of one place goes to another, the others stay.
LEMMA OneJobMoves ==
  ASSUME NEW j \in Jobs, UNCHANGED starts,
         \A k \in Jobs \ {j} : PlaceOf(k)' = PlaceOf(k),
         \/ PlaceOf(j) = "new" /\ PlaceOf(j)' \in {"queued", "gone"}
         \/ PlaceOf(j) = "queued" /\ PlaceOf(j)' \in {"held", "gone"}
         \/ PlaceOf(j) = "held" /\ PlaceOf(j)' \in {"held", "gone"}
  PROVE  DeliveryMove
<1> DEFINE P == [k \in Jobs |-> PlaceOf(k)]
           Q == [k \in Jobs |-> PlaceOf(k)']
<1>1. P[j] = PlaceOf(j) /\ Q = [P EXCEPT ![j] = PlaceOf(j)']
  BY Zenon
<1>2. CASE PlaceOf(j)' = PlaceOf(j)
  <2>1. Q = P
    BY Zenon, <1>2
  <2> QED
    BY <2>1 DEF DeliveryMove, Delivery!deliveryVars
<1>3. CASE PlaceOf(j)' # PlaceOf(j)
  <2>1. \/ Delivery!Move(j, "new", "queued") \/ Delivery!Move(j, "new", "gone")
        \/ Delivery!Move(j, "queued", "held")
        \/ Delivery!Move(j, "queued", "gone")
        \/ Delivery!Move(j, "held", "gone")
    BY Zenon, <1>1, <1>3 DEF Delivery!Move
  <2> QED
    BY <2>1 DEF DeliveryMove, Delivery!DeliveryNext, Delivery!Submit,
                Delivery!Take, Delivery!Drop
<1> QED
  BY <1>2, <1>3

\* No job changes its place.
LEMMA NoJobMoves ==
  ASSUME UNCHANGED starts, \A k \in Jobs : PlaceOf(k)' = PlaceOf(k)
  PROVE  DeliveryMove
BY DEF DeliveryMove, Delivery!deliveryVars

\* The API adds the job to the stream, or fails.
LEMMA AddMoveStep ==
  ASSUME PlaceInv, NEW j \in Jobs, AddMove(j)
  PROVE  PlaceInv' /\ DeliveryMove
<1>1. /\ PlaceTypes /\ HandOrJob /\ StreamDistinct /\ OnePlace
      /\ NotStartedBefore
  BY Zenon DEF PlaceInv
<1>2. ~InStream(j) /\ \A w \in Workers : ~Holds(w, j)
  BY <1>1 DEF AddMove, OnePlace
<1>3. /\ StreamDistinct'
      /\ stream' \in Seq(Jobs)
      /\ \A k \in Jobs \ {j} : InStream(k)' <=> InStream(k)
  BY Zenon, <1>1, <1>2, AppendStream, SameStream DEF AddMove, PlaceTypes
<1>4. PlaceTypes'
  BY Zenon, <1>1, <1>3 DEF AddMove, PlaceTypes
<1>5. HandOrJob'
  BY <1>1 DEF AddMove, HandOrJob
<1>6. /\ \A k \in Jobs : submit'[k] = "new" <=> submit[k] = "new" /\ k # j
      /\ \A w \in Workers, k \in Jobs : Holds(w, k)' <=> Holds(w, k)
  BY Zenon, <1>1 DEF AddMove, PlaceTypes, Holds
<1>7. OnePlace'
  BY Zenon, <1>1, <1>2, <1>3, <1>6 DEF AddMove, OnePlace
<1>8. NotStartedBefore'
  BY Zenon, <1>1 DEF AddMove, NotStartedBefore, AtMostOnce
<1>9. \A k \in Jobs \ {j} : PlaceOf(k)' = PlaceOf(k)
  BY <1>3, <1>6 DEF PlaceOf
<1>10. PlaceOf(j) = "new" /\ PlaceOf(j)' \in {"queued", "gone"}
  BY <1>2, <1>6 DEF PlaceOf, AddMove
<1>11. DeliveryMove
  BY <1>9, <1>10, OneJobMoves DEF AddMove
<1> QED
  BY <1>3, <1>4, <1>5, <1>7, <1>8, <1>11 DEF PlaceInv

\* The API announces or records the job.
LEMMA SubmitMoveStep ==
  ASSUME PlaceInv, NEW j \in Jobs, SubmitMove(j)
  PROVE  PlaceInv' /\ DeliveryMove
<1>1. /\ PlaceTypes /\ HandOrJob /\ StreamDistinct /\ OnePlace
      /\ NotStartedBefore
  BY DEF PlaceInv
<1>2. StreamDistinct' /\ \A k \in Jobs : InStream(k)' <=> InStream(k)
  BY <1>1, SameStream DEF SubmitMove
<1>3. PlaceTypes'
  BY Zenon, <1>1 DEF SubmitMove, PlaceTypes
<1>4. HandOrJob'
  BY Zenon, <1>1 DEF SubmitMove, HandOrJob
<1>5. /\ \A k \in Jobs : submit'[k] = "new" <=> submit[k] = "new"
      /\ \A w \in Workers, k \in Jobs : Holds(w, k)' <=> Holds(w, k)
  BY <1>1 DEF SubmitMove, PlaceTypes, Holds
<1>6. OnePlace'
  BY Zenon, <1>1, <1>2, <1>5 DEF SubmitMove, OnePlace
<1>7. NotStartedBefore'
  BY <1>1 DEF SubmitMove, NotStartedBefore, AtMostOnce
<1>8. \A k \in Jobs : PlaceOf(k)' = PlaceOf(k)
  BY Zenon, <1>2, <1>5 DEF PlaceOf
<1>9. DeliveryMove
  BY <1>8, NoJobMoves DEF SubmitMove
<1> QED
  BY <1>2, <1>3, <1>4, <1>6, <1>7, <1>9 DEF PlaceInv

\* XREADGROUP takes the head of the stream.
LEMMA TakeMoveStep ==
  ASSUME PlaceInv, NEW w \in Workers, TakeMove(w)
  PROVE  PlaceInv' /\ DeliveryMove
<1>1. /\ PlaceTypes /\ HandOrJob /\ StreamDistinct /\ OnePlace
      /\ NotStartedBefore
  BY DEF PlaceInv
<1>2. PICK h \in Jobs : h = Head(stream)
  BY Zenon, <1>1, TailElements DEF TakeMove, PlaceTypes
<1>3. /\ StreamDistinct'
      /\ stream' \in Seq(Jobs)
      /\ InStream(h)
      /\ \A k \in Jobs : InStream(k)' <=> InStream(k) /\ k # h
  BY Zenon, <1>1, <1>2, TailStream DEF TakeMove, PlaceTypes
<1>4. handed' = [handed EXCEPT ![w] = h] \/ UNCHANGED handed
  BY <1>2 DEF TakeMove
<1>5. PlaceTypes'
  BY Zenon, <1>1, <1>3, <1>4 DEF TakeMove, PlaceTypes
<1>6. HandOrJob'
  BY Zenon, <1>1 DEF TakeMove, HandOrJob, PlaceTypes
<1>7. handed[w] = NoJob /\ job[w] = NoJob /\ NoJob \notin Jobs
  BY Zenon, <1>1, ExecutorAssumption DEF TakeMove, HandOrJob
<1>8. \A v \in Workers : ~Holds(v, h)
  BY Zenon, <1>1, <1>3 DEF OnePlace
<1>9. /\ \A v \in Workers, k \in Jobs : k # h =>
           (Holds(v, k)' <=> Holds(v, k))
      /\ \A v \in Workers : Holds(v, h)' => v = w
  BY <1>1, <1>4, <1>7, <1>8 DEF TakeMove, PlaceTypes, Holds
<1>10. OnePlace'
  <2> SUFFICES ASSUME NEW k \in Jobs
      PROVE /\ submit[k] = "new" => starts'[k] = 0 /\ ~InStream(k)'
            /\ submit[k] = "new" \/ InStream(k)' => \A v \in Workers : ~Holds(v, k)'
            /\ InStream(k)' => starts'[k] = 0
            /\ \A v, u \in Workers : Holds(v, k)' /\ Holds(u, k)' => v = u
    BY ZenonT(40) DEF TakeMove, OnePlace
  <2>1. /\ submit[k] = "new" => starts[k] = 0 /\ ~InStream(k)
        /\ submit[k] = "new" \/ InStream(k) => \A v \in Workers : ~Holds(v, k)
        /\ InStream(k) => starts[k] = 0
        /\ \A v, u \in Workers : Holds(v, k) /\ Holds(u, k) => v = u
    BY <1>1 DEF OnePlace
  <2>2. starts' = starts
    BY Zenon DEF TakeMove
  <2>3. CASE k = h
    BY Zenon, <1>3, <1>9, <2>1, <2>2, <2>3
  <2>4. CASE k # h
    BY ZenonT(40), <1>3, <1>9, <2>1, <2>2, <2>4
  <2> QED
    BY Zenon, <2>3, <2>4
<1>11. starts[h] = 0 /\ starts' = starts /\ job' = job /\ stage' = stage
  BY <1>1, <1>3 DEF OnePlace, TakeMove
<1>12. NotStartedBefore'
  BY Zenon, <1>1, <1>4, <1>11 DEF NotStartedBefore, AtMostOnce, PlaceTypes
<1>13. \A k \in Jobs \ {h} : PlaceOf(k)' = PlaceOf(k)
  BY Zenon, <1>3, <1>9 DEF PlaceOf, TakeMove
<1>14. PlaceOf(h) = "queued" /\ PlaceOf(h)' \in {"held", "gone"}
  BY Zenon, <1>1, <1>3 DEF PlaceOf, TakeMove, OnePlace
<1>15. DeliveryMove
  BY <1>11, <1>13, <1>14, OneJobMoves
<1> QED
  BY Zenon, <1>3, <1>5, <1>6, <1>10, <1>12, <1>15 DEF PlaceInv

\* The loop passes the fetched job to execute().
LEMMA ReceiveMoveStep ==
  ASSUME PlaceInv, NEW w \in Workers, ReceiveMove(w)
  PROVE  PlaceInv' /\ DeliveryMove
<1>1. /\ PlaceTypes /\ HandOrJob /\ StreamDistinct /\ OnePlace
      /\ NotStartedBefore
  BY DEF PlaceInv
<1>2. StreamDistinct' /\ \A k \in Jobs : InStream(k)' <=> InStream(k)
  BY <1>1, SameStream DEF ReceiveMove
<1>3. PlaceTypes'
  BY <1>1 DEF ReceiveMove, PlaceTypes, Stages
<1>4. handed[w] # NoJob /\ job[w] = NoJob /\ NoJob \notin Jobs
  BY Zenon, <1>1, ExecutorAssumption DEF ReceiveMove, HandOrJob
<1>5. HandOrJob'
  BY <1>1, <1>4 DEF ReceiveMove, HandOrJob, PlaceTypes
<1>6. \A v \in Workers, k \in Jobs : Holds(v, k)' <=> Holds(v, k)
  BY Zenon, <1>1, <1>4 DEF ReceiveMove, PlaceTypes, Holds
<1>7. OnePlace'
  BY Zenon, <1>1, <1>2, <1>6 DEF ReceiveMove, OnePlace
<1>8. NotStartedBefore'
  BY <1>1, <1>4 DEF ReceiveMove, NotStartedBefore, AtMostOnce, PlaceTypes,
      Entering
<1>9. \A k \in Jobs : PlaceOf(k)' = PlaceOf(k)
  BY <1>2, <1>6 DEF PlaceOf, ReceiveMove
<1>10. DeliveryMove
  BY <1>9, NoJobMoves DEF ReceiveMove
<1> QED
  BY <1>2, <1>3, <1>5, <1>7, <1>8, <1>10 DEF PlaceInv

\* execute() goes on with the job it has.
LEMMA InsideMoveStep ==
  ASSUME PlaceInv, NEW w \in Workers, InsideMove(w)
  PROVE  PlaceInv' /\ DeliveryMove
<1>1. /\ PlaceTypes /\ HandOrJob /\ StreamDistinct /\ OnePlace
      /\ NotStartedBefore
  BY DEF PlaceInv
<1>2. StreamDistinct' /\ \A k \in Jobs : InStream(k)' <=> InStream(k)
  BY <1>1, SameStream DEF InsideMove
<1>3. PlaceTypes'
  BY Zenon, <1>1 DEF InsideMove, PlaceTypes
<1>4. HandOrJob'
  BY <1>1 DEF InsideMove, HandOrJob, PlaceTypes
<1>5. \A v \in Workers, k \in Jobs : Holds(v, k)' <=> Holds(v, k)
  BY Zenon, <1>1 DEF InsideMove, Holds
<1>6. OnePlace'
  BY Zenon, <1>1, <1>2, <1>5 DEF InsideMove, OnePlace
<1>7. NotStartedBefore'
  BY Zenon, <1>1 DEF InsideMove, NotStartedBefore, AtMostOnce, PlaceTypes
<1>8. \A k \in Jobs : PlaceOf(k)' = PlaceOf(k)
  BY <1>2, <1>5 DEF PlaceOf, InsideMove
<1>9. DeliveryMove
  BY Zenon, <1>8, NoJobMoves DEF InsideMove
<1> QED
  BY <1>2, <1>3, <1>4, <1>6, <1>7, <1>9 DEF PlaceInv

\* execute() starts the handler of a job not started before.
LEMMA StartMoveStep ==
  ASSUME PlaceInv, NEW w \in Workers, StartMove(w)
  PROVE  PlaceInv' /\ DeliveryMove
<1>1. /\ PlaceTypes /\ HandOrJob /\ StreamDistinct /\ OnePlace
      /\ NotStartedBefore
  BY DEF PlaceInv
<1>2. StreamDistinct' /\ \A k \in Jobs : InStream(k)' <=> InStream(k)
  BY Zenon, <1>1, SameStream DEF StartMove
<1>3. job[w] \in Jobs /\ Holds(w, job[w]) /\ starts[job[w]] = 0
  BY Zenon, <1>1 DEF StartMove, HandOrJob, PlaceTypes, Holds, NotStartedBefore,
      Entering
<1>4. /\ starts'[job[w]] = 1
      /\ \A k \in Jobs : k # job[w] => starts'[k] = starts[k]
      /\ starts' = [starts EXCEPT ![job[w]] = 1]
  BY <1>1, <1>3 DEF StartMove, PlaceTypes
<1>5. starts' \in [Jobs -> Nat]
  BY Zenon, <1>1, <1>4 DEF PlaceTypes
<1>6. PlaceTypes'
  BY Zenon, <1>1, <1>5 DEF StartMove, PlaceTypes, Stages
<1>7. HandOrJob'
  BY <1>1 DEF StartMove, HandOrJob, PlaceTypes
<1>8. \A v \in Workers, k \in Jobs : Holds(v, k)' <=> Holds(v, k)
  BY Zenon, <1>1 DEF StartMove, Holds
<1>9. OnePlace'
  <2> SUFFICES ASSUME NEW k \in Jobs
      PROVE /\ submit[k] = "new" => starts'[k] = 0 /\ ~InStream(k)'
            /\ submit[k] = "new" \/ InStream(k)' => \A v \in Workers : ~Holds(v, k)'
            /\ InStream(k)' => starts'[k] = 0
            /\ \A v, u \in Workers : Holds(v, k)' /\ Holds(u, k)' => v = u
    BY Zenon DEF StartMove, OnePlace
  <2>1. /\ submit[k] = "new" => starts[k] = 0 /\ ~InStream(k)
        /\ submit[k] = "new" \/ InStream(k) => \A v \in Workers : ~Holds(v, k)
        /\ InStream(k) => starts[k] = 0
        /\ \A v, u \in Workers : Holds(v, k) /\ Holds(u, k) => v = u
    BY Zenon, <1>1 DEF OnePlace
  <2>2. CASE k = job[w]
    BY Zenon, <1>2, <1>3, <1>8, <2>1, <2>2
  <2>3. CASE k # job[w]
    BY Zenon, <1>2, <1>4, <1>8, <2>1, <2>3
  <2> QED
    BY Zenon, <2>2, <2>3
<1>10. \A v \in Workers : v # w =>
        /\ handed[v] # job[w]
        /\ job[v] # job[w]
  BY Zenon, <1>1, <1>3 DEF OnePlace, Holds
<1>11. handed[w] \notin Jobs
  BY Zenon, <1>1, ExecutorAssumption DEF StartMove, HandOrJob, PlaceTypes
<1>12. \A v \in Workers : stage[v] \in Entering => job[v] \in Jobs
  BY Zenon, <1>1 DEF HandOrJob, PlaceTypes, Entering
<1>13. NotStartedBefore'
  BY <1>1, <1>3, <1>4, <1>10, <1>11, <1>12
  DEF StartMove, NotStartedBefore, AtMostOnce, PlaceTypes, Entering
<1>14. \A k \in Jobs : PlaceOf(k)' = PlaceOf(k)
  BY Zenon, <1>2, <1>8 DEF PlaceOf, StartMove
<1>15. PlaceOf(job[w]) = "held"
  BY Zenon, <1>1, <1>3 DEF PlaceOf, OnePlace
<1>16. DeliveryMove
  BY Zenon, <1>3, <1>4, <1>14, <1>15
  DEF DeliveryMove, Delivery!DeliveryNext, Delivery!Start
<1> QED
  BY <1>2, <1>6, <1>7, <1>9, <1>13, <1>16 DEF PlaceInv

\* The loop is done with its job, or the process dies or starts again.
LEMMA DropMoveStep ==
  ASSUME PlaceInv, NEW w \in Workers, DropMove(w)
  PROVE  PlaceInv' /\ DeliveryMove
<1>1. /\ PlaceTypes /\ HandOrJob /\ StreamDistinct /\ OnePlace
      /\ NotStartedBefore
  BY DEF PlaceInv
<1>2. StreamDistinct' /\ \A k \in Jobs : InStream(k)' <=> InStream(k)
  BY Zenon, <1>1, SameStream DEF DropMove
<1>3. PlaceTypes'
  BY Zenon, <1>1 DEF DropMove, PlaceTypes, Stages
<1>4. HandOrJob'
  BY <1>1 DEF DropMove, HandOrJob, PlaceTypes
<1>5. /\ \A v \in Workers, k \in Jobs : Holds(v, k)' => Holds(v, k)
      /\ \A v \in Workers, k \in Jobs : v # w => (Holds(v, k)' <=> Holds(v, k))
  BY Zenon, <1>1, ExecutorAssumption DEF DropMove, PlaceTypes, Holds
<1>6. OnePlace'
  BY Zenon, <1>1, <1>2, <1>5 DEF DropMove, OnePlace
<1>7. NotStartedBefore'
  BY ZenonT(40), <1>1, ExecutorAssumption
  DEF DropMove, NotStartedBefore, AtMostOnce, PlaceTypes, Entering
<1>8. \A j, k \in Jobs : Holds(w, j) /\ Holds(w, k) => j = k
  BY <1>1, ExecutorAssumption DEF HandOrJob, Holds
<1>9. \A k \in Jobs : ~Holds(w, k) => PlaceOf(k)' = PlaceOf(k)
  BY Zenon, <1>2, <1>5 DEF PlaceOf, DropMove
<1>10. \A k \in Jobs : Holds(w, k) =>
        /\ PlaceOf(k) = "held"
        /\ PlaceOf(k)' \in {"held", "gone"}
  BY Zenon, <1>1, <1>2 DEF PlaceOf, OnePlace, DropMove
<1>11. UNCHANGED starts
  BY Zenon DEF DropMove
<1>12. ASSUME NEW j \in Jobs, Holds(w, j) PROVE DeliveryMove
  BY <1>8, <1>9, <1>10, <1>12, <1>11, OneJobMoves
<1>13. ASSUME \A j \in Jobs : ~Holds(w, j)
       PROVE  DeliveryMove
  <2>1. \A k \in Jobs : PlaceOf(k)' = PlaceOf(k)
    BY <1>9, <1>13
  <2> QED
    BY <2>1, <1>11, NoJobMoves
<1>14. DeliveryMove
  BY <1>12, <1>13
<1> QED
  BY <1>2, <1>3, <1>4, <1>6, <1>7, <1>14 DEF PlaceInv

\* The other steps.
LEMMA NoMoveStep ==
  ASSUME PlaceInv, UNCHANGED Others
  PROVE  PlaceInv' /\ DeliveryMove
<1>1. /\ PlaceTypes /\ HandOrJob /\ StreamDistinct /\ OnePlace
      /\ NotStartedBefore
  BY DEF PlaceInv
<1>2. StreamDistinct' /\ \A k \in Jobs : InStream(k)' <=> InStream(k)
  BY <1>1, SameStream DEF Others
<1>3. PlaceTypes'
  BY <1>1 DEF Others, PlaceTypes
<1>4. HandOrJob'
  BY Zenon, <1>1 DEF Others, HandOrJob
<1>5. \A v \in Workers, k \in Jobs : Holds(v, k)' <=> Holds(v, k)
  BY <1>1 DEF Others, Holds
<1>6. OnePlace'
  BY Zenon, <1>1, <1>2, <1>5 DEF Others, OnePlace
<1>7. NotStartedBefore'
  BY Zenon, <1>1 DEF Others, NotStartedBefore, AtMostOnce
<1>8. \A k \in Jobs : PlaceOf(k)' = PlaceOf(k)
  BY <1>2, <1>5 DEF PlaceOf, Others
<1>9. DeliveryMove
  BY <1>8, NoJobMoves DEF Others
<1> QED
  BY <1>2, <1>3, <1>4, <1>6, <1>7, <1>9 DEF PlaceInv

\* Every move keeps a job in one place and is a step of the abstract queue.
LEMMA PlaceInvStep ==
  ASSUME PlaceInv, AnyMove
  PROVE  PlaceInv' /\ DeliveryMove
BY AddMoveStep, SubmitMoveStep, TakeMoveStep, ReceiveMoveStep, InsideMoveStep,
   StartMoveStep, DropMoveStep, NoMoveStep
DEF AnyMove

-----------------------------------------------------------------------------
\* The types of the transport's own variables.
LinkTypes ==
  /\ pel \subseteq Workers \X Jobs
  /\ link \in [Workers -> {"ready", "announce", "publish_result",
                           "publish_status"}]
  /\ pending \in [Workers -> SUBSET Jobs]
  /\ crashes \in 0 .. MaxCrashes
  /\ mishaps \in 0 .. MaxMishaps

\* What a step of the worker loop or a crash needs to know and keeps.
LinkInv == LinkTypes /\ StoreTypeOK /\ HandFollowsLink

\* XREADGROUP.
LEMMA FetchLink ==
  ASSUME LinkInv, PlaceInv, NEW w \in Workers, Fetch(w)
  PROVE  LinkInv'
<1>1. /\ LinkTypes /\ StoreTypeOK /\ HandFollowsLink
  BY DEF LinkInv
<1>2. /\ stream \in Seq(Jobs)
      /\ handed \in [Workers -> Jobs \cup {NoJob}]
      /\ stage \in [Workers -> Stages]
      /\ job \in [Workers -> Jobs \cup {NoJob}]
      /\ NoJob \notin Jobs
  BY Zenon, ExecutorAssumption DEF PlaceInv, PlaceTypes
<1>3. Head(stream) \in Jobs
  BY Zenon, <1>2, TailElements DEF Fetch
<1>4. LinkTypes'
  BY <1>1, <1>2, <1>3, MishapType
  DEF Fetch, FetchVars, execVars, LinkTypes
<1>5. StoreTypeOK'
  BY Zenon, <1>1, <1>2, <1>3
  DEF Fetch, FetchVars, execVars, StoreTypeOK, Statuses,
      FileContents, keyVars, dbVars
<1>6. HandFollowsLink'
  BY Zenon, <1>1, <1>2, <1>3
  DEF Fetch, FetchVars, execVars, HandFollowsLink, LinkTypes
<1> QED
  BY <1>4, <1>5, <1>6 DEF LinkInv

\* XREADGROUP without a job.
LEMMA FetchFailsLink ==
  ASSUME LinkInv, PlaceInv, NEW w \in Workers, FetchFails(w)
  PROVE  LinkInv'
<1>1. /\ LinkTypes /\ StoreTypeOK /\ HandFollowsLink
  BY DEF LinkInv
<1>2. /\ stream \in Seq(Jobs)
      /\ handed \in [Workers -> Jobs \cup {NoJob}]
      /\ stage \in [Workers -> Stages]
      /\ job \in [Workers -> Jobs \cup {NoJob}]
      /\ NoJob \notin Jobs
  BY ExecutorAssumption DEF PlaceInv, PlaceTypes
<1>3. Head(stream) \in Jobs
  BY Zenon, <1>2, TailElements DEF FetchFails
<1>4. LinkTypes'
  BY <1>1, <1>2, <1>3, MishapType
  DEF FetchFails, FetchVars, execVars, LinkTypes
<1>5. StoreTypeOK'
  BY Zenon, <1>1, <1>2, <1>3
  DEF FetchFails, FetchVars, execVars, StoreTypeOK, Statuses,
      FileContents, keyVars, dbVars
<1>6. HandFollowsLink'
  BY <1>1, <1>2, <1>3
  DEF FetchFails, FetchVars, execVars, HandFollowsLink, LinkTypes
<1> QED
  BY <1>4, <1>5, <1>6 DEF LinkInv

\* The status running.
LEMMA AnnounceLink ==
  ASSUME LinkInv, PlaceInv, NEW w \in Workers, Announce(w)
  PROVE  LinkInv'
<1>1. /\ LinkTypes /\ StoreTypeOK /\ HandFollowsLink
  BY DEF LinkInv
<1>2. /\ stream \in Seq(Jobs)
      /\ handed \in [Workers -> Jobs \cup {NoJob}]
      /\ stage \in [Workers -> Stages]
      /\ job \in [Workers -> Jobs \cup {NoJob}]
      /\ NoJob \notin Jobs
  BY ExecutorAssumption DEF PlaceInv, PlaceTypes
<1>3. handed[w] \in Jobs
  BY Zenon, <1>1, <1>2 DEF Announce, HandFollowsLink
<1>4. LinkTypes'
  BY Zenon, <1>1, <1>2, <1>3, MishapType
  DEF Announce, Receive, SetOrMiss, LinkTypes
<1>5. StoreTypeOK'
  BY Zenon, <1>1, <1>2, <1>3
  DEF Announce, Receive, SetOrMiss, StoreTypeOK, Statuses,
      FileContents, keyVars, dbVars
<1>6. HandFollowsLink'
  BY Zenon, <1>1, <1>2, <1>3
  DEF Announce, Receive, SetOrMiss, HandFollowsLink, LinkTypes
<1> QED
  BY <1>4, <1>5, <1>6 DEF LinkInv

\* XACK.
LEMMA XackLink ==
  ASSUME LinkInv, PlaceInv, NEW w \in Workers, Xack(w)
  PROVE  LinkInv'
<1>1. /\ LinkTypes /\ StoreTypeOK /\ HandFollowsLink
  BY DEF LinkInv
<1>2. /\ stream \in Seq(Jobs)
      /\ handed \in [Workers -> Jobs \cup {NoJob}]
      /\ stage \in [Workers -> Stages]
      /\ job \in [Workers -> Jobs \cup {NoJob}]
      /\ NoJob \notin Jobs
  BY ExecutorAssumption DEF PlaceInv, PlaceTypes
<1>3. job[w] \in Jobs
  BY Zenon, <1>1, <1>2 DEF Xack, PlaceInv, HandOrJob, HandFollowsLink
<1>4. LinkTypes'
  BY Zenon, <1>1, <1>2, <1>3, MishapType
  DEF Xack, execVars, LinkTypes
<1>5. StoreTypeOK'
  BY Zenon, <1>1, <1>2, <1>3
  DEF Xack, execVars, StoreTypeOK, Statuses,
      FileContents, keyVars, dbVars
<1>6. HandFollowsLink'
  BY Zenon, <1>1, <1>2, <1>3
  DEF Xack, execVars, HandFollowsLink, LinkTypes
<1> QED
  BY <1>4, <1>5, <1>6 DEF LinkInv

\* XACK with an error.
LEMMA XackFailsLink ==
  ASSUME LinkInv, PlaceInv, NEW w \in Workers, XackFails(w)
  PROVE  LinkInv'
<1>1. /\ LinkTypes /\ StoreTypeOK /\ HandFollowsLink
  BY DEF LinkInv
<1>2. /\ stream \in Seq(Jobs)
      /\ handed \in [Workers -> Jobs \cup {NoJob}]
      /\ stage \in [Workers -> Stages]
      /\ job \in [Workers -> Jobs \cup {NoJob}]
      /\ NoJob \notin Jobs
  BY ExecutorAssumption DEF PlaceInv, PlaceTypes
<1>3. job[w] \in Jobs
  BY Zenon, <1>1, <1>2 DEF XackFails, PlaceInv, HandOrJob, HandFollowsLink
<1>4. LinkTypes'
  BY Zenon, <1>1, <1>2, <1>3, MishapType
  DEF XackFails, Release, LinkTypes
<1>5. StoreTypeOK'
  BY Zenon, <1>1, <1>2, <1>3
  DEF XackFails, Release, StoreTypeOK, Statuses,
      FileContents, keyVars, dbVars
<1>6. HandFollowsLink'
  BY <1>1, <1>2, <1>3
  DEF XackFails, Release, HandFollowsLink, LinkTypes
<1> QED
  BY <1>4, <1>5, <1>6 DEF LinkInv

\* The result.
LEMMA PublishResultLink ==
  ASSUME ExecTypeOK, LinkInv, PlaceInv, NEW w \in Workers, PublishResult(w)
  PROVE  LinkInv'
<1>1. /\ LinkTypes /\ StoreTypeOK /\ HandFollowsLink
  BY DEF LinkInv
<1>2. /\ stream \in Seq(Jobs)
      /\ handed \in [Workers -> Jobs \cup {NoJob}]
      /\ stage \in [Workers -> Stages]
      /\ job \in [Workers -> Jobs \cup {NoJob}]
      /\ NoJob \notin Jobs
  BY Zenon, ExecutorAssumption DEF PlaceInv, PlaceTypes
<1>3. job[w] \in Jobs
  BY Zenon, <1>1, <1>2 DEF PublishResult, PlaceInv, HandOrJob, HandFollowsLink
<1>4. /\ \/ UNCHANGED resultKey
         \/ resultKey' = [resultKey EXCEPT ![job[w]] = resultFile[job[w]]]
      /\ UNCHANGED mishaps \/ Mishap
  BY Zenon DEF PublishResult, SetOrMiss
<1>5. LinkTypes'
  BY Zenon, <1>1, <1>4, MishapType DEF PublishResult, LinkTypes
<1>6. resultFile[job[w]] \in FileContents
  BY Zenon, <1>3, ExecTypeOK DEF ExecTypeOK
<1>7. resultKey' \in [Jobs -> FileContents]
  BY <1>1, <1>3, <1>4, <1>6 DEF StoreTypeOK
<1>8. StoreTypeOK'
  BY Zenon, <1>1, <1>7 DEF StoreTypeOK, PublishResult, dbVars
<1>9. HandFollowsLink'
  BY Zenon, <1>1, <1>2, <1>3 DEF PublishResult, execVars, HandFollowsLink, LinkTypes
<1> QED
  BY <1>5, <1>8, <1>9 DEF LinkInv

\* The final status.
LEMMA PublishStatusLink ==
  ASSUME LinkInv, PlaceInv, NEW w \in Workers, PublishStatus(w)
  PROVE  LinkInv'
<1>1. /\ LinkTypes /\ StoreTypeOK /\ HandFollowsLink
  BY DEF LinkInv
<1>2. /\ stream \in Seq(Jobs)
      /\ handed \in [Workers -> Jobs \cup {NoJob}]
      /\ stage \in [Workers -> Stages]
      /\ job \in [Workers -> Jobs \cup {NoJob}]
      /\ NoJob \notin Jobs
  BY ExecutorAssumption DEF PlaceInv, PlaceTypes
<1>3. job[w] \in Jobs
  BY <1>1, <1>2 DEF PublishStatus, PlaceInv, HandOrJob, HandFollowsLink
<1>4. LinkTypes'
  BY Zenon, <1>1, <1>2, <1>3, MishapType
  DEF PublishStatus, SetOrMiss, Release, LinkTypes
<1>5. StoreTypeOK'
  BY Zenon, <1>1, <1>2, <1>3
  DEF PublishStatus, SetOrMiss, Release, StoreTypeOK, Statuses,
      FileContents, keyVars, dbVars
<1>6. HandFollowsLink'
  BY Zenon, <1>1, <1>2, <1>3
  DEF PublishStatus, SetOrMiss, Release, HandFollowsLink, LinkTypes
<1> QED
  BY <1>4, <1>5, <1>6 DEF LinkInv

\* The process dies.
LEMMA CrashLink ==
  ASSUME LinkInv, PlaceInv, NEW w \in Workers, WorkerCrash(w)
  PROVE  LinkInv'
<1>1. /\ LinkTypes /\ StoreTypeOK /\ HandFollowsLink
  BY DEF LinkInv
<1>2. /\ stream \in Seq(Jobs)
      /\ handed \in [Workers -> Jobs \cup {NoJob}]
      /\ stage \in [Workers -> Stages]
      /\ job \in [Workers -> Jobs \cup {NoJob}]
      /\ NoJob \notin Jobs
  BY ExecutorAssumption DEF PlaceInv, PlaceTypes
<1>3. LinkTypes'
  <2>1. /\ crashes < MaxCrashes /\ crashes' = crashes + 1
        /\ link' = [link EXCEPT ![w] = "ready"]
        /\ pending' = [pending EXCEPT ![w] = {}]
        /\ UNCHANGED <<pel, mishaps>>
    BY DEF WorkerCrash
  <2>2. crashes' \in 0 .. MaxCrashes
    BY SMTT(20), <1>1, <2>1, PipelineAssumption DEF LinkTypes
  <2> QED
    BY <1>1, <2>1, <2>2 DEF LinkTypes
<1>4. StoreTypeOK'
  BY Zenon, <1>1, <1>2
  DEF WorkerCrash, Crash, StoreTypeOK, Statuses,
      FileContents, keyVars, dbVars
<1>5. HandFollowsLink'
  BY Zenon, <1>1, <1>2
  DEF WorkerCrash, Crash, HandFollowsLink, LinkTypes
<1> QED
  BY <1>3, <1>4, <1>5 DEF LinkInv

-----------------------------------------------------------------------------
\* The requests of the API.
ApiInv == LinkInv /\ ReaderInv /\ reader \in [Readers -> Requests]

\* submit_disk_path_job and the expiry of keys.
LEMMA SubmitApi ==
  ASSUME ApiInv, NEW j \in Jobs, SubmitStep(j) \/ Expire(j)
  PROVE  ApiInv'
<1>1. /\ LinkTypes /\ StoreTypeOK /\ HandFollowsLink /\ ReaderInv
      /\ reader \in [Readers -> Requests]
  BY Zenon DEF ApiInv, LinkInv
<1>2. /\ UNCHANGED <<reader, pel, link, pending, crashes, handed, stage>>
      /\ UNCHANGED completedAt
      /\ UNCHANGED mishaps \/ Mishap
  BY Zenon DEF SubmitStep, EnqueueAdd, EnqueueAnnounce, InsertRow, SubmitVars,
         execVars, Expire, queueVars, dbVars
<1>3. LinkTypes'
  BY <1>1, <1>2, MishapType DEF LinkTypes
<1>4. HandFollowsLink'
  BY Zenon, <1>1, <1>2 DEF HandFollowsLink
<1>5. /\ \/ UNCHANGED statusKey
         \/ \E s \in {"pending", "none"} :
              statusKey' = [statusKey EXCEPT ![j] = s]
      /\ UNCHANGED row \/ row' = [row EXCEPT ![j] = "pending"]
      /\ UNCHANGED resultKey \/ resultKey' = [resultKey EXCEPT ![j] = "none"]
  BY Zenon DEF SubmitStep, EnqueueAdd, EnqueueAnnounce, InsertRow, SubmitVars,
         Expire, dbVars
<1>6. StoreTypeOK'
  BY ZenonT(40), <1>1, <1>2, <1>5 DEF StoreTypeOK, Statuses, FileContents
<1>7. ReaderInv'
  BY Zenon, <1>1, <1>2 DEF ReaderInv
<1> QED
  BY <1>1, <1>2, <1>3, <1>4, <1>6, <1>7 DEF ApiInv, LinkInv

\* A request's local record keeps its type and its meaning.
LEMMA ReaderRecord ==
  ASSUME StoreTypeOK, ReaderInv, reader \in [Readers -> Requests],
         NEW r \in Readers, ReaderStep(r) \/ \E j \in Jobs : SelectRow(r, j)
  PROVE  (ReaderInv /\ reader \in [Readers -> Requests])'
<1> DEFINE q == reader[r]
<1>0. /\ reader \in [Readers -> Requests]
      /\ q \in Requests
      /\ \A j \in Jobs : /\ statusKey[j] \in Statuses \cup {"none"}
                         /\ resultKey[j] \in FileContents
                         /\ row[j] \in Statuses \cup {"absent"}
                         /\ completedAt[j] \in BOOLEAN
  BY DEF StoreTypeOK
<1>1. ASSUME NEW p \in Requests, reader' = [reader EXCEPT ![r] = p],
             p.at = "sync" => p.status \in Statuses
      PROVE  (ReaderInv /\ reader \in [Readers -> Requests])'
  BY Zenon, <1>0, <1>1 DEF ReaderInv
<1>2. ASSUME NEW j \in Jobs, SelectRow(r, j)
      PROVE  (ReaderInv /\ reader \in [Readers -> Requests])'
  <2> DEFINE p == [q EXCEPT !.at = "live", !.job = j, !.status = row[j],
                            !.done = completedAt[j]]
  <2>1. reader' = [reader EXCEPT ![r] = p] /\ row[j] \in Statuses
    BY Zenon, <1>0, <1>2 DEF SelectRow
  <2>2. p \in Requests /\ p.at = "live"
    BY Zenon, <1>0, <2>1 DEF Requests
  <2> QED
    BY Zenon, <1>1, <2>1, <2>2
<1>3. CASE ReadLive(r)
  <2>1. PICK live \in Statuses \cup {"none"} :
          reader' = [reader EXCEPT ![r] =
            [@ EXCEPT !.at = IF live \in Finished \cup {"running"}
                               THEN "sync" ELSE "status",
                      !.status = IF live = "none" THEN reader[r].status
                                                  ELSE live,
                      !.done = reader[r].done \/ live \in Finished]]
    BY Zenon, <1>3 DEF ReadLive
  <2> DEFINE a == IF live \in Finished \cup {"running"}
                    THEN "sync" ELSE "status"
             s == IF live = "none" THEN q.status ELSE live
             d == q.done \/ live \in Finished
             p == [q EXCEPT !.at = a, !.status = s, !.done = d]
  <2>2. reader' = [reader EXCEPT ![r] = p]
    BY <1>0, <2>1
  <2>3. /\ a \in {"sync", "status"}
        /\ s \in Statuses \cup {"none"}
        /\ a = "sync" => s \in Statuses
    BY Zenon, <1>0 DEF Requests, Finished, Statuses
  <2>4. d \in BOOLEAN
    BY Zenon
  <2> HIDE DEF a, s, d
  <2>5. p \in Requests /\ (p.at = "sync" => p.status \in Statuses)
    BY Zenon, <1>0, <2>3, <2>4 DEF Requests
  <2> QED
    BY Zenon, <1>1, <2>2, <2>5
<1>4. CASE SyncRow(r)
  <2> DEFINE p == [q EXCEPT !.at = "status"]
  <2>1. reader' = [reader EXCEPT ![r] = p]
    BY <1>0, <1>4 DEF SyncRow
  <2>2. p \in Requests /\ p.at = "status"
    BY <1>0 DEF Requests
  <2> QED
    BY Zenon, <1>1, <2>1, <2>2
<1>5. CASE ReadStatus(r)
  <2>1. PICK live \in Statuses \cup {"none"} :
          reader' = [reader EXCEPT ![r].live = live, ![r].at = "result"]
    BY Zenon, <1>5 DEF ReadStatus
  <2> DEFINE p == [q EXCEPT !.live = live, !.at = "result"]
  <2>2. reader' = [reader EXCEPT ![r] = p]
    BY Zenon, <1>0, <2>1
  <2>3. p \in Requests /\ p.at = "result"
    BY Zenon, <1>0 DEF Requests
  <2> QED
    BY Zenon, <1>1, <2>2, <2>3
<1>6. CASE ReadResult(r)
  <2>1. PICK result \in FileContents \ {"torn"} :
          reader' = [reader EXCEPT ![r].result = result,
                                   ![r].at = "answered"]
    BY Zenon, <1>6 DEF ReadResult
  <2> DEFINE p == [q EXCEPT !.result = result, !.at = "answered"]
  <2>2. reader' = [reader EXCEPT ![r] = p]
    BY Zenon, <1>0, <2>1
  <2>3. p \in Requests /\ p.at = "answered"
    BY Zenon, <1>0 DEF Requests
  <2> QED
    BY Zenon, <1>1, <2>2, <2>3
<1>7. CASE NextRequest(r)
  <2>1. Idle \in Requests /\ Idle.at = "idle"
    BY DEF Idle, Requests, FileContents
  <2>2. reader' = [reader EXCEPT ![r] = Idle]
    BY <1>7 DEF NextRequest
  <2> QED
    BY Zenon, <1>1, <2>1, <2>2
<1> QED
  BY Zenon, <1>2, <1>3, <1>4, <1>5, <1>6, <1>7 DEF ReaderStep

\* A step of a GET request.
LEMMA ReaderApi ==
  ASSUME ApiInv, NEW r \in Readers,
         ReaderStep(r) \/ \E j \in Jobs : SelectRow(r, j)
  PROVE  ApiInv'
<1>1. /\ LinkTypes /\ StoreTypeOK /\ HandFollowsLink /\ ReaderInv
      /\ reader \in [Readers -> Requests]
  BY DEF ApiInv, LinkInv
<1>2. /\ UNCHANGED <<pel, link, pending, crashes, handed, stage, statusKey,
                     resultKey>>
      /\ UNCHANGED mishaps \/ Mishap
  BY Zenon DEF ReaderStep, ReadLive, SyncRow, ReadStatus, ReadResult, NextRequest,
         SelectRow, GetOrMiss, ReadVars, execVars, queueVars, keyVars
<1>3. LinkTypes'
  BY Zenon, <1>1, <1>2, MishapType DEF LinkTypes
<1>4. HandFollowsLink'
  BY Zenon, <1>1, <1>2 DEF HandFollowsLink
<1>5. (ReaderInv /\ reader \in [Readers -> Requests])'
  BY <1>1, ReaderRecord
<1>6. StoreTypeOK'
  <2>1. CASE SyncRow(r)
    <3>1. reader[r].status \in Statuses /\ reader[r].done \in BOOLEAN
      BY <1>1, <2>1 DEF SyncRow, ReaderInv, Requests
    <3>2. row' \in [Jobs -> Statuses \cup {"absent"}]
      BY <1>1, <2>1, <3>1 DEF SyncRow, dbVars, StoreTypeOK
    <3>3. completedAt' \in [Jobs -> BOOLEAN]
      BY Zenon, <1>1, <2>1, <3>1 DEF SyncRow, dbVars, StoreTypeOK
    <3> QED
      BY <1>1, <1>2, <3>2, <3>3 DEF StoreTypeOK
  <2>2. CASE UNCHANGED dbVars
    BY <1>1, <1>2, <2>2 DEF StoreTypeOK, dbVars
  <2> QED
    BY Zenon, <2>1, <2>2 DEF ReaderStep, ReadLive, ReadStatus, ReadResult,
                      NextRequest, SelectRow
<1> QED
  BY <1>3, <1>4, <1>5, <1>6 DEF ApiInv, LinkInv

-----------------------------------------------------------------------------
\* The initial state satisfies the pipeline's invariant.
LEMMA PipeInitInv == Init => PipeInv
<1> SUFFICES ASSUME Init PROVE PipeInv
  OBVIOUS
<1>1. ExecInv /\ ExecTypeOK
  BY Zenon, ExecInitInv DEF Init, ExecInv
<1>2. QueueTypeOK /\ StoreTypeOK
  BY ExecutorAssumption, PipelineAssumption
  DEF Init, QueueTypeOK, StoreTypeOK, FileContents
<1>3. reader \in [Readers -> Requests] /\ ReaderInv
  <2>1. Idle \in Requests /\ Idle.at = "idle"
    BY Zenon DEF Idle, Requests, FileContents
  <2> QED
    BY Zenon, <2>1 DEF Init, ReaderInv
<1>4. HandFollowsLink /\ StreamDistinct
  BY DEF Init, HandFollowsLink, StreamDistinct
<1>5. OnePlace /\ NotStartedBefore /\ HandOrJob
  <2>1. /\ \A j \in Jobs : ~InStream(j) /\ starts[j] = 0
        /\ \A w \in Workers : stage[w] = "idle" /\ job[w] = NoJob /\ handed[w] = NoJob
    BY DEF Init, ExecInit, InStream
  <2>2. \A w \in Workers, j \in Jobs : ~Holds(w, j)
    BY Zenon, <2>1, ExecutorAssumption DEF Holds
  <2>3. OnePlace
    BY Zenon, <2>1, <2>2 DEF OnePlace
  <2>4. NotStartedBefore
    <3>1. \A w \in Workers : handed[w] \notin Jobs /\ stage[w] \notin Entering
      BY ZenonT(40), <2>1, ExecutorAssumption DEF Entering
    <3>2. AtMostOnce
      <4>1. 0 <= 1
        OBVIOUS
      <4> QED
        BY Zenon, <2>1, <4>1 DEF AtMostOnce
    <3> QED
      BY Zenon, <3>1, <3>2 DEF NotStartedBefore
  <2>5. HandOrJob
    BY Zenon, <2>1 DEF HandOrJob
  <2> QED
    BY Zenon, <2>3, <2>4, <2>5
<1>6. PlaceTypes
  BY Zenon, <1>1, <1>2 DEF PlaceTypes, ExecTypeOK, QueueTypeOK
<1> QED
  BY Zenon, <1>1, <1>2, <1>3, <1>4, <1>5, <1>6 DEF PipeInv, PlaceInv, TypeOK

\* The transport, the stores and the requests keep their invariant.
LEMMA ApiInvStep ==
  ASSUME ExecTypeOK, PlaceInv, ApiInv, [Next]_vars
  PROVE  ApiInv'
<1>1. ASSUME NEW j \in Jobs, SubmitStep(j) \/ Expire(j) PROVE ApiInv'
  BY <1>1, SubmitApi
<1>2. ASSUME NEW r \in Readers,
             ReaderStep(r) \/ \E j \in Jobs : SelectRow(r, j)
      PROVE  ApiInv'
  BY Zenon, <1>2, ReaderApi
<1>3. ASSUME NEW w \in Workers, UNCHANGED pipeVars,
             ExecuteStep(w) \/ HandlerOk(w) \/ HandlerErr(w)
               \/ (\E j \in Jobs : BlockingWorkEnds(w, j)) \/ Restart(w)
      PROVE  ApiInv'
  <2>1. /\ LinkTypes /\ StoreTypeOK /\ HandFollowsLink /\ ReaderInv
        /\ reader \in [Readers -> Requests]
        /\ stage \in [Workers -> Stages]
    BY Zenon DEF ApiInv, LinkInv, PlaceInv, PlaceTypes
  <2>2. UNCHANGED <<pel, link, pending, crashes, mishaps, handed, statusKey,
                    resultKey, row, completedAt, reader>>
    BY Zenon, <1>3 DEF pipeVars, queueVars, keyVars, dbVars
  <2>3. LinkTypes' /\ StoreTypeOK' /\ ReaderInv'
    BY <2>1, <2>2 DEF LinkTypes, StoreTypeOK, ReaderInv
  <2>4. \/ stage' = stage
        \/ /\ stage[w] \notin {"idle", "ok", "err"}
           /\ \E s : stage' = [stage EXCEPT ![w] = s]
    BY Zenon, <1>3 DEF ExecuteStep, HandlerOk, HandlerErr, BlockingWorkEnds, Restart,
      CacheHit, CacheMiss, ValidateFails, ValidateOk, StartHandler,
      HandlerReturns, HandlerTimeout, SaveSuccess, SaveFailure, SaveFails,
      Return, Transition
  <2>5. HandFollowsLink'
    BY Zenon, <2>1, <2>2, <2>4 DEF HandFollowsLink
  <2> QED
    BY Zenon, <2>1, <2>2, <2>3, <2>5 DEF ApiInv, LinkInv
<1>4. ASSUME NEW w \in Workers,
             \/ Fetch(w) \/ FetchFails(w) \/ Announce(w) \/ Xack(w)
             \/ XackFails(w) \/ PublishResult(w) \/ PublishStatus(w)
             \/ WorkerCrash(w)
      PROVE  ApiInv'
  <2>1. LinkInv /\ ReaderInv /\ reader \in [Readers -> Requests]
    BY Zenon DEF ApiInv
  <2>2. LinkInv'
    BY <1>4, <2>1, FetchLink, FetchFailsLink, AnnounceLink, XackLink,
       XackFailsLink, PublishResultLink, PublishStatusLink, CrashLink
  <2>3. UNCHANGED reader
    BY Zenon, <1>4 DEF Fetch, FetchFails, FetchVars, Announce, Xack, XackFails,
                PublishResult, PublishStatus, WorkerCrash
  <2> QED
    BY <2>1, <2>2, <2>3 DEF ApiInv, ReaderInv
<1>5. CASE UNCHANGED vars
  BY Zenon, <1>5 DEF vars, execVars, pipeVars, queueVars, keyVars, dbVars, ApiInv,
    LinkInv, LinkTypes, StoreTypeOK, HandFollowsLink, ReaderInv
<1> QED
  BY <1>1, <1>2, <1>3, <1>4, <1>5
  DEF Next, LoopStep, HandlerStep, WorkerRestart

\* The pipeline's invariant is inductive, and every step under it is a step of
\* the abstract queue.
LEMMA PipeInvStep == PipeInv /\ [Next]_vars => PipeInv' /\ DeliveryMove
<1> SUFFICES ASSUME PipeInv, [Next]_vars PROVE PipeInv' /\ DeliveryMove
  OBVIOUS
<1>1. TypeOK /\ ExecInv /\ HandFollowsLink /\ ReaderInv /\ PlaceInv
  BY Zenon DEF PipeInv
<1>2. ApiInv /\ ExecTypeOK
  BY <1>1 DEF ApiInv, LinkInv, LinkTypes, TypeOK, QueueTypeOK
<1>3. ExecInv'
  BY <1>1, PipelineStepIsExecStep, ExecInvStep
<1>4. PlaceInv' /\ DeliveryMove
  BY <1>1, StepsAreMoves, PlaceInvStep
<1>5. ApiInv'
  BY Zenon, <1>1, <1>2, ApiInvStep
<1>6. TypeOK' /\ HandFollowsLink' /\ ReaderInv'
  BY <1>3, <1>4, <1>5
  DEF ExecInv, PlaceInv, PlaceTypes, ApiInv, LinkInv, LinkTypes, TypeOK,
      QueueTypeOK
<1> QED
  BY <1>3, <1>4, <1>6 DEF PipeInv

\* Every reachable state of the pipeline satisfies its inductive invariant.
THEOREM PipeInvariant == Spec => []PipeInv
<1> QED
  BY PipeInitInv, PipeInvStep, PTL DEF Spec

\* The pipeline's variables keep their types.
THEOREM PipeTypeCorrect == Spec => []TypeOK
<1>1. PipeInv => TypeOK
  BY Zenon DEF PipeInv
<1> QED
  BY <1>1, PipeInvariant, PTL

\* The handler of a job is started at most once, for any number of workers,
\* jobs, crashes, restarts, failed commands and lost replies.
THEOREM JobRunsAtMostOnce == Spec => []AtMostOnce
<1>1. PipeInv => AtMostOnce
  BY DEF PipeInv, PlaceInv, NotStartedBefore
<1> QED
  BY <1>1, PipeInvariant, PTL

\* The pipeline implements the executor's specification (its safety part):
\* what is proved of the executor alone holds inside the pipeline.
THEOREM PipelineRunsExecutor == Spec => ExecInit /\ [][ExecNext]_execVars
<1>1. Init => ExecInit
  BY DEF Init
<1>2. PipeInv /\ [Next]_vars => [ExecNext]_execVars
  BY PipelineStepIsExecStep DEF PipeInv
<1> QED
  BY <1>1, <1>2, PipeInvariant, PTL DEF Spec

\* The pipeline implements the abstract queue: a job is in one place, moves
\* forward only, and its handler is started while one worker holds it.
THEOREM PipelineImplementsDelivery == Spec => DeliveryImplemented
<1>1. Init => Delivery!DeliveryInit
  BY DEF Init, ExecInit, PlaceOf, Delivery!DeliveryInit
<1>2. PipeInv /\ [Next]_vars =>
        [Delivery!DeliveryNext]_(Delivery!deliveryVars)
  BY PipeInvStep DEF DeliveryMove
<1> QED
  BY <1>1, <1>2, PipeInvariant, PTL
  DEF Spec, DeliveryImplemented, Delivery!DeliverySpec

=============================================================================
