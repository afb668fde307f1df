-------------------------- MODULE JobStatusProofs --------------------------
(***************************************************************************)
(* Proofs about what the pipeline reports and leaves behind, for every     *)
(* number of workers, jobs, requests, crashes and mishaps: the group's     *)
(* pending entries, the transport's id map, the statuses, the results and  *)
(* the work of timed-out handlers.                                         *)
(***************************************************************************)
EXTENDS JobPipelineProofs

\* execute() has returned for a job exactly when its verdict is there: none
\* before the worker's stage is "ok" or "err", and afterwards that stage.
VerdictInv ==
  /\ \A j \in Jobs : submit[j] = "new" \/ InStream(j) => verdict[j] = "none"
  /\ \A w \in Workers :
       /\ handed[w] \in Jobs => verdict[handed[w]] = "none"
       /\ stage[w] \in {"ok", "err"} => verdict[job[w]] = stage[w]
       /\ job[w] \in Jobs /\ stage[w] \notin {"ok", "err"} =>
            verdict[job[w]] = "none"

Publishing(w) == link[w] \in {"publish_result", "publish_status"}

\* A job in hand is pending until XACK; so is a started one without a verdict;
\* the id map forgets a job before the publishing starts; and without faults
\* nothing else is pending.
PelInv ==
  /\ \A w \in Workers, j \in Jobs :
       Holds(w, j) => (<<w, j>> \in pel <=> ~Publishing(w))
  /\ \A j \in Jobs : starts[j] > 0 /\ verdict[j] = "none" => InPel(j)
  /\ \A w \in Workers : \A j \in pending[w] : Holds(w, j) /\ ~Publishing(w)
  /\ crashes = 0 /\ mishaps = 0 =>
       \A w \in Workers, j \in Jobs : <<w, j>> \in pel => Holds(w, j)

\* A request has read no live status before it asks for it, and is about a job.
LiveInv ==
  \A r \in Readers :
    /\ reader[r].at # "result" /\ reader[r].at # "answered" =>
         reader[r].live = "none"
    /\ reader[r].at # "idle" => reader[r].job \in Jobs

\* A result file says completed for a job that returned Ok only; without a key
\* for every one that did.
FileInv ==
  /\ \A j \in Jobs : resultFile[j] = "completed" => verdict[j] = "ok"
  /\ \A j \in Jobs :
       verdict[j] = "ok" /\ KeyOf[j] = NoKey => resultFile[j] = "completed"

\* The result is in Redis before anyone can read "completed".
ResultAhead(j) ==
  /\ statusKey[j] = "completed" => resultKey[j] = "completed"
  /\ \A w \in Workers :
       job[w] = j /\ stage[w] = "ok" /\ link[w] = "publish_status" =>
         resultKey[j] = "completed"
  /\ \A r \in Readers :
       reader[r].job = j /\ reader[r].live = "completed" =>
         /\ resultKey[j] = "completed"
         /\ reader[r].at = "answered" => reader[r].result = "completed"

ResultInv ==
  /\ \A w \in Workers : link[w] = "publish_result" => stage[w] = "ok"
  /\ mishaps = 0 => \A j \in Jobs : KeyOf[j] = NoKey => ResultAhead(j)

\* What is left behind was started, and nobody else has the job.
LeftOwned ==
  \A w \in Workers : \A j \in Left(w) :
    starts[j] > 0 /\ \A v \in Workers : Holds(v, j) => v = w

-----------------------------------------------------------------------------
\* execute() returns: the only step that gives a job its verdict.
ReturnMove(w) ==
  /\ stage[w] \notin {"idle", "down", "ok", "err"}
  /\ \E v \in {"ok", "err"} :
       /\ stage' = [stage EXCEPT ![w] = v]
       /\ verdict' = [verdict EXCEPT ![job[w]] = v]
  /\ UNCHANGED <<submit, stream, handed, job, starts>>

\* No worker enters or changes the stages "ok" and "err".
QuietMove ==
  /\ UNCHANGED verdict
  /\ \A w \in Workers : stage'[w] \in {"ok", "err"} => stage'[w] = stage[w]

\* Every step of the executor returns from execute() or is quiet about it.
LEMMA StepsReturn ==
  ASSUME ExecInv, NEW w \in Workers,
         ExecuteStep(w) \/ HandlerOk(w) \/ HandlerErr(w)
           \/ \E j \in Jobs : BlockingWorkEnds(w, j),
         UNCHANGED <<submit, stream, handed>>
  PROVE  ReturnMove(w) \/ QuietMove
<1>1. stage \in [Workers -> Stages]
  BY DEF ExecInv, ExecTypeOK
<1>2. CASE CacheHit(w)
  BY <1>2 DEF CacheHit, Return, ReturnMove
<1>3. CASE SaveSuccess(w)
  BY <1>3 DEF SaveSuccess, Return, ReturnMove
<1>4. CASE SaveFailure(w)
  BY <1>4 DEF SaveFailure, Return, ReturnMove
<1>5. CASE SaveFails(w)
  BY <1>5 DEF SaveFails, Return, ReturnMove
<1>6. CASE CacheMiss(w) \/ ValidateFails(w) \/ ValidateOk(w)
  BY <1>1, <1>6 DEF CacheMiss, ValidateFails, ValidateOk, Transition, QuietMove
<1>7. CASE StartHandler(w) \/ HandlerTimeout(w)
  BY <1>1, <1>7 DEF StartHandler, HandlerTimeout, Transition, QuietMove
<1>8. CASE HandlerOk(w) \/ HandlerErr(w)
  BY <1>1, <1>8 DEF HandlerOk, HandlerErr, HandlerReturns, Transition, QuietMove
<1>9. ASSUME NEW j \in Jobs, BlockingWorkEnds(w, j) PROVE QuietMove
  BY <1>9 DEF BlockingWorkEnds, QuietMove
<1> QED
  BY <1>2, <1>3, <1>4, <1>5, <1>6, <1>7, <1>8, <1>9 DEF ExecuteStep

\* Every step of the pipeline does.
LEMMA StepsGiveVerdict ==
  ASSUME TypeOK, ExecInv, HandFollowsLink, [Next]_vars
  PROVE  (\E w \in Workers : ReturnMove(w)) \/ QuietMove
<1>1. stage \in [Workers -> Stages]
  BY DEF ExecInv, ExecTypeOK
<1>2. ASSUME NEW j \in Jobs, SubmitStep(j) \/ Expire(j)
      PROVE  QuietMove
  BY Zenon, <1>2 DEF SubmitStep, EnqueueAdd, EnqueueAnnounce, InsertRow, SubmitVars,
              Expire, execVars, QuietMove
<1>3. ASSUME NEW w \in Workers,
             Fetch(w) \/ FetchFails(w) \/ Xack(w) \/ PublishResult(w)
      PROVE  QuietMove
  BY <1>3 DEF Fetch, FetchFails, FetchVars, Xack, PublishResult, execVars,
              QuietMove
<1>4. ASSUME NEW w \in Workers, Announce(w)
      PROVE  QuietMove
  BY <1>1, <1>4 DEF Announce, Receive, QuietMove
<1>5. ASSUME NEW w \in Workers,
             ExecuteStep(w) \/ HandlerOk(w) \/ HandlerErr(w)
               \/ \E j \in Jobs : BlockingWorkEnds(w, j),
             UNCHANGED pipeVars
      PROVE  ReturnMove(w) \/ QuietMove
  <2>1. UNCHANGED <<submit, stream, handed>>
    BY <1>5 DEF pipeVars, queueVars
  <2> QED
    BY <1>5, <2>1, StepsReturn
<1>6. ASSUME NEW w \in Workers, XackFails(w) \/ PublishStatus(w)
      PROVE  QuietMove
  BY <1>1, <1>6 DEF XackFails, PublishStatus, Release, QuietMove
<1>7. ASSUME NEW w \in Workers, WorkerCrash(w) \/ WorkerRestart(w)
      PROVE  QuietMove
  BY <1>1, <1>7 DEF WorkerCrash, Crash, WorkerRestart, Restart, QuietMove
<1>8. ASSUME NEW r \in Readers,
             ReaderStep(r) \/ \E j \in Jobs : SelectRow(r, j)
      PROVE  QuietMove
  BY Zenon, <1>8 DEF ReaderStep, ReadLive, SyncRow, ReadStatus, ReadResult,
              NextRequest, SelectRow, ReadVars, execVars, QuietMove
<1>9. CASE UNCHANGED vars
  BY <1>9 DEF vars, execVars, QuietMove
<1> QED
  BY <1>2, <1>3, <1>4, <1>5, <1>6, <1>7, <1>8, <1>9
  DEF Next, LoopStep, HandlerStep

\* A verdict is given once, to a job that only the returning worker has.
LEMMA VerdictStep ==
  ASSUME PlaceInv, ExecTypeOK, VerdictInv, AnyMove,
         (\E w \in Workers : ReturnMove(w)) \/ QuietMove
  PROVE  VerdictInv'
<1>1. /\ PlaceTypes /\ HandOrJob /\ StreamDistinct /\ OnePlace
      /\ verdict \in [Jobs -> {"none", "ok", "err"}]
      /\ NoJob \notin Jobs
  BY ExecutorAssumption DEF PlaceInv, ExecTypeOK
<1>2. ASSUME NEW w \in Workers, ReturnMove(w) PROVE VerdictInv'
  <2>1. \A k \in Jobs : InStream(k)' <=> InStream(k)
    BY <1>1, <1>2, SameStream DEF ReturnMove
  <2>2. job[w] \in Jobs /\ Holds(w, job[w])
    BY <1>1, <1>2 DEF ReturnMove, HandOrJob, PlaceTypes, Holds
  <2>3. /\ submit[job[w]] # "new" /\ ~InStream(job[w])
        /\ \A v \in Workers : v # w => handed[v] # job[w] /\ job[v] # job[w]
        /\ handed[w] = NoJob
    BY <1>1, <1>2, <2>2 DEF ReturnMove, OnePlace, Holds, HandOrJob
  <2>4. PICK v \in {"ok", "err"} :
           /\ stage' = [stage EXCEPT ![w] = v]
           /\ verdict' = [verdict EXCEPT ![job[w]] = v]
    BY Zenon, <1>2 DEF ReturnMove
  <2>5. /\ verdict'[job[w]] = v /\ stage'[w] = v
        /\ \A k \in Jobs : k # job[w] => verdict'[k] = verdict[k]
        /\ \A u \in Workers : u # w => stage'[u] = stage[u]
        /\ submit' = submit /\ handed' = handed /\ job' = job
    BY <1>1, <1>2, <2>2, <2>4 DEF PlaceTypes, ReturnMove
  <2>6. \A j \in Jobs : submit'[j] = "new" \/ InStream(j)' => verdict'[j] = "none"
    BY <2>1, <2>3, <2>5 DEF VerdictInv
  <2>7. ASSUME NEW u \in Workers
        PROVE  /\ handed'[u] \in Jobs => verdict'[handed'[u]] = "none"
               /\ stage'[u] \in {"ok", "err"} => verdict'[job'[u]] = stage'[u]
               /\ job'[u] \in Jobs /\ stage'[u] \notin {"ok", "err"} =>
                    verdict'[job'[u]] = "none"
    <3>1. CASE u = w
      BY <1>1, <2>3, <2>5, <3>1
    <3>2. CASE u # w
      <4>1. stage[u] \in {"ok", "err"} => job[u] \in Jobs
        BY <1>1 DEF HandOrJob, PlaceTypes
      <4> QED
        BY <2>3, <2>5, <3>2, <4>1 DEF VerdictInv
    <3> QED
      BY <3>1, <3>2
  <2> QED
    BY <2>6, <2>7 DEF VerdictInv
<1>3. CASE QuietMove
  <2>0. /\ verdict' = verdict
        /\ \A w \in Workers : stage'[w] \in {"ok", "err"} => stage'[w] = stage[w]
    BY <1>3 DEF QuietMove
  <2>1. ASSUME NEW j \in Jobs, AddMove(j) PROVE VerdictInv'
    <3>1. \A k \in Jobs : InStream(k)' => InStream(k) \/ k = j
      BY <1>1, <2>1, AppendStream, SameStream DEF AddMove, PlaceTypes, OnePlace
    <3>2. \A k \in Jobs : submit'[k] = "new" => submit[k] = "new"
      BY <1>1, <2>1 DEF AddMove, PlaceTypes
    <3> QED
      BY <2>0, <2>1, <3>1, <3>2 DEF AddMove, VerdictInv
  <2>2. ASSUME NEW j \in Jobs, SubmitMove(j) PROVE VerdictInv'
    <3>1. \A k \in Jobs : InStream(k)' <=> InStream(k)
      BY <1>1, <2>2, SameStream DEF SubmitMove
    <3>2. \A k \in Jobs : submit'[k] = "new" => submit[k] = "new"
      BY <1>1, <2>2 DEF SubmitMove, PlaceTypes
    <3> QED
      BY <2>0, <2>2, <3>1, <3>2 DEF SubmitMove, VerdictInv
  <2>3. ASSUME NEW w \in Workers, TakeMove(w) PROVE VerdictInv'
    <3>1. PICK h \in Jobs : h = Head(stream)
      BY <1>1, <2>3, TailElements DEF TakeMove, PlaceTypes
    <3>2. InStream(h) /\ \A k \in Jobs : InStream(k)' => InStream(k)
      BY <1>1, <2>3, <3>1, TailStream DEF TakeMove, PlaceTypes
    <3>3. verdict[h] = "none"
      BY <3>2 DEF VerdictInv
    <3>4. handed' = [handed EXCEPT ![w] = h] \/ handed' = handed
      BY <2>3, <3>1 DEF TakeMove
    <3>5. \A u \in Workers : handed'[u] = handed[u] \/ handed'[u] = h
      BY <1>1, <3>4 DEF PlaceTypes
    <3>6. stage' = stage /\ job' = job /\ submit' = submit
      BY <2>3 DEF TakeMove
    <3> QED
      BY <2>0, <3>2, <3>3, <3>5, <3>6 DEF VerdictInv
  <2>4. ASSUME NEW w \in Workers, ReceiveMove(w) PROVE VerdictInv'
    <3>1. \A k \in Jobs : InStream(k)' <=> InStream(k)
      BY <1>1, <2>4, SameStream DEF ReceiveMove
    <3> QED
      BY <1>1, <2>0, <2>4, <3>1 DEF ReceiveMove, VerdictInv, PlaceTypes
  <2>5. ASSUME NEW w \in Workers, InsideMove(w) \/ StartMove(w) PROVE VerdictInv'
    <3>1. \A k \in Jobs : InStream(k)' <=> InStream(k)
      BY <1>1, <2>5, SameStream DEF InsideMove, StartMove
    <3>2. /\ \A u \in Workers : u # w => stage'[u] = stage[u]
          /\ stage[w] \in {"ok", "err"} => stage'[w] = stage[w]
      BY <1>1, <2>5 DEF InsideMove, StartMove, PlaceTypes
    <3>3. UNCHANGED <<submit, handed, job>>
      BY <2>5 DEF InsideMove, StartMove
    <3>4. \A u \in Workers : stage[u] \in {"ok", "err"} => stage'[u] = stage[u]
      BY <3>2
    <3> QED
      BY <2>0, <3>1, <3>3, <3>4 DEF VerdictInv
  <2>6. ASSUME NEW w \in Workers, DropMove(w) PROVE VerdictInv'
    <3>1. \A k \in Jobs : InStream(k)' <=> InStream(k)
      BY <1>1, <2>6, SameStream DEF DropMove
    <3> QED
      BY <1>1, <2>0, <2>6, <3>1 DEF DropMove, VerdictInv, PlaceTypes
  <2>7. CASE UNCHANGED Others
    <3>1. \A k \in Jobs : InStream(k)' <=> InStream(k)
      BY <1>1, <2>7, SameStream DEF Others
    <3> QED
      BY <2>0, <2>7, <3>1 DEF Others, VerdictInv
  <2> QED
    BY <2>1, <2>2, <2>3, <2>4, <2>5, <2>6, <2>7 DEF AnyMove
<1> QED
  BY <1>2, <1>3

-----------------------------------------------------------------------------
\* A counted mishap or crash is not forgotten.
LEMMA MishapCounts ==
  ASSUME mishaps \in 0 .. MaxMishaps, UNCHANGED mishaps \/ Mishap
  PROVE  mishaps' = 0 => mishaps = 0 /\ UNCHANGED mishaps
BY DEF Mishap

\* The job a worker returned from is the only one it has.
LEMMA OnlyJobInHand ==
  ASSUME PlaceInv, NEW w \in Workers, stage[w] \in {"ok", "err"}
  PROVE  job[w] \in Jobs /\ \A k \in Jobs : Holds(w, k) <=> k = job[w]
<1>1. /\ handed[w] # NoJob => stage[w] = "idle"
      /\ stage[w] \in {"idle", "down"} <=> job[w] = NoJob
      /\ job[w] \in Jobs \cup {NoJob}
      /\ NoJob \notin Jobs
  BY ExecutorAssumption DEF PlaceInv, HandOrJob, PlaceTypes
<1> QED
  BY <1>1 DEF Holds

\* A worker that drops its job keeps none, and the others keep theirs.
LEMMA DroppedHands ==
  ASSUME PlaceTypes, NEW w \in Workers, handed'[w] \notin Jobs,
         job' = [job EXCEPT ![w] = NoJob],
         \A v \in Workers : v # w => handed'[v] = handed[v]
  PROVE  /\ \A k \in Jobs : ~Holds(w, k)'
         /\ \A v \in Workers, k \in Jobs : v # w => (Holds(v, k)' <=> Holds(v, k))
BY ExecutorAssumption DEF PlaceTypes, Holds

\* XREADGROUP makes the job in hand pending.
LEMMA FetchPel ==
  ASSUME PlaceInv, LinkInv, PelInv, NEW w \in Workers, Fetch(w)
  PROVE  PelInv'
<1>1. PlaceTypes /\ HandOrJob /\ StreamDistinct /\ OnePlace /\ LinkTypes
  BY DEF PlaceInv, LinkInv
<1>2. PICK h \in Jobs : h = Head(stream)
  BY <1>1, TailElements DEF Fetch, PlaceTypes
<1>3. \A v \in Workers : ~Holds(v, h)
  BY <1>1, <1>2, TailStream DEF Fetch, PlaceTypes, OnePlace
<1>4. /\ handed' = [handed EXCEPT ![w] = h]
      /\ pel' = pel \cup {<<w, h>>}
      /\ pending' = [pending EXCEPT ![w] = @ \cup {h}]
      /\ link' = [link EXCEPT ![w] = "announce"]
      /\ UNCHANGED <<stage, job, starts, verdict, crashes, mishaps>>
      /\ stage[w] = "idle" /\ link[w] = "ready"
  BY <1>2 DEF Fetch, FetchVars, execVars
<1>5. job[w] = NoJob /\ NoJob \notin Jobs /\ handed[w] = NoJob
  BY <1>1, <1>4, ExecutorAssumption DEF HandOrJob, LinkInv, HandFollowsLink
<1>6. /\ \A v \in Workers, k \in Jobs : k # h => (Holds(v, k)' <=> Holds(v, k))
      /\ \A v \in Workers : Holds(v, h)' <=> v = w
  BY <1>1, <1>3, <1>4, <1>5 DEF Holds, PlaceTypes
<1>7. \A v \in Workers : Publishing(v)' <=> Publishing(v)
  BY <1>1, <1>4 DEF Publishing, LinkTypes
<1>8. ~Publishing(w)
  BY <1>4 DEF Publishing
<1>9. \A v \in Workers, j \in Jobs :
        <<v, j>> \in pel' <=> <<v, j>> \in pel \/ (v = w /\ j = h)
  BY <1>4
<1>10. \A v \in Workers, j \in Jobs :
         Holds(v, j)' => (<<v, j>> \in pel' <=> ~Publishing(v)')
  BY <1>6, <1>7, <1>8, <1>9 DEF PelInv
<1>11. \A j \in Jobs : starts'[j] > 0 /\ verdict'[j] = "none" => InPel(j)'
  BY <1>4, <1>9 DEF PelInv, InPel
<1>12. \A v \in Workers : \A j \in pending'[v] : Holds(v, j)' /\ ~Publishing(v)'
  <2> SUFFICES ASSUME NEW v \in Workers, NEW j \in pending'[v]
               PROVE  Holds(v, j)' /\ ~Publishing(v)'
    OBVIOUS
  <2>1. j \in pending[v] \/ (v = w /\ j = h)
    BY <1>1, <1>4 DEF LinkTypes
  <2>2. pending[v] \subseteq Jobs
    BY <1>1 DEF LinkTypes
  <2> QED
    BY <1>6, <1>7, <1>8, <1>3, <2>1, <2>2 DEF PelInv
<1>13. crashes' = 0 /\ mishaps' = 0 =>
         \A v \in Workers, j \in Jobs : <<v, j>> \in pel' => Holds(v, j)'
  <2> SUFFICES ASSUME crashes = 0, mishaps = 0, NEW v \in Workers, NEW j \in Jobs,
                      <<v, j>> \in pel'
               PROVE  Holds(v, j)'
    BY <1>4
  <2>1. CASE v = w /\ j = h
    BY <1>6, <2>1
  <2>2. CASE <<v, j>> \in pel
    <3>1. Holds(v, j)
      BY Zenon, <2>2 DEF PelInv
    <3> QED
      BY <1>3, <1>6, <3>1
  <2> QED
    BY <1>9, <2>1, <2>2
<1> QED
  BY <1>10, <1>11, <1>12, <1>13 DEF PelInv

\* A lost reply leaves an entry pending that no worker has.
LEMMA FetchFailsPel ==
  ASSUME PlaceInv, LinkInv, PelInv, NEW w \in Workers, FetchFails(w)
  PROVE  PelInv'
<1>1. PlaceTypes /\ HandOrJob /\ StreamDistinct /\ OnePlace /\ LinkTypes
  BY DEF PlaceInv, LinkInv
<1>2. PICK h \in Jobs : h = Head(stream)
  BY <1>1, TailElements DEF FetchFails, PlaceTypes
<1>3. \A v \in Workers : ~Holds(v, h)
  BY <1>1, <1>2, TailStream DEF FetchFails, PlaceTypes, OnePlace
<1>4. /\ pel' = pel \cup {<<w, h>>}
      /\ UNCHANGED <<stage, job, starts, verdict, handed, pending, link>>
      /\ Mishap
  BY <1>2 DEF FetchFails, FetchVars, execVars
<1>5. /\ \A v \in Workers, k \in Jobs : Holds(v, k)' <=> Holds(v, k)
      /\ \A v \in Workers : Publishing(v)' <=> Publishing(v)
  BY <1>4 DEF Holds, Publishing
<1>6. \A v \in Workers, j \in Jobs :
        <<v, j>> \in pel' <=> <<v, j>> \in pel \/ (v = w /\ j = h)
  BY <1>4
<1>7. mishaps' # 0
  BY <1>1, <1>4 DEF Mishap, LinkTypes
<1>8. \A j \in Jobs : starts'[j] > 0 /\ verdict'[j] = "none" => InPel(j)'
  BY Zenon, <1>4, <1>6 DEF PelInv, InPel
<1>9. \A v \in Workers : \A j \in pending'[v] : Holds(v, j)' /\ ~Publishing(v)'
  <2>1. \A v \in Workers : pending[v] \subseteq Jobs
    BY <1>1 DEF LinkTypes
  <2> QED
    BY <1>4, <1>5, <2>1 DEF PelInv
<1>10. \A v \in Workers, j \in Jobs :
         Holds(v, j)' => (<<v, j>> \in pel' <=> ~Publishing(v)')
  <2>1. \A v \in Workers, j \in Jobs :
          Holds(v, j) => (<<v, j>> \in pel <=> ~Publishing(v))
    BY Zenon DEF PelInv
  <2> QED
    BY <1>3, <1>5, <1>6, <2>1
<1> QED
  BY <1>7, <1>8, <1>9, <1>10 DEF PelInv

\* XACK takes the entry away once execute() has returned.
LEMMA XackPel ==
  ASSUME PlaceInv, LinkInv, VerdictInv, PelInv, NEW w \in Workers, Xack(w)
  PROVE  PelInv'
<1>1. PlaceTypes /\ HandOrJob /\ LinkTypes
  BY DEF PlaceInv, LinkInv
<1>2. /\ stage[w] \in {"ok", "err"} /\ link[w] = "ready"
      /\ pending' = [pending EXCEPT ![w] = @ \ {job[w]}]
      /\ pel' = pel \ {<<w, job[w]>>}
      /\ \E l \in {"publish_result", "publish_status"} :
           link' = [link EXCEPT ![w] = l]
      /\ UNCHANGED <<stage, job, starts, verdict, handed, crashes, mishaps>>
  BY Zenon DEF Xack, execVars
<1>3. job[w] \in Jobs /\ \A k \in Jobs : Holds(w, k) <=> k = job[w]
  BY <1>2, OnlyJobInHand
<1>4. /\ \A v \in Workers, k \in Jobs : Holds(v, k)' <=> Holds(v, k)
      /\ \A v \in Workers : v # w => (Publishing(v)' <=> Publishing(v))
      /\ Publishing(w)' /\ ~Publishing(w)
  BY <1>1, <1>2 DEF Holds, Publishing, LinkTypes
<1>5. verdict[job[w]] # "none"
  BY <1>2 DEF VerdictInv
<1>6. \A v \in Workers, j \in Jobs :
        <<v, j>> \in pel' <=> <<v, j>> \in pel /\ ~(v = w /\ j = job[w])
  BY Zenon, <1>2
<1>7. \A v \in Workers, j \in Jobs :
        Holds(v, j)' => (<<v, j>> \in pel' <=> ~Publishing(v)')
  BY Zenon, <1>3, <1>4, <1>6 DEF PelInv
<1>8. \A j \in Jobs : starts'[j] > 0 /\ verdict'[j] = "none" => InPel(j)'
  BY Zenon, <1>2, <1>5, <1>6 DEF PelInv, InPel
<1>9. \A v \in Workers : \A j \in pending'[v] : Holds(v, j)' /\ ~Publishing(v)'
  <2>1. pending \in [Workers -> SUBSET Jobs]
    BY <1>1 DEF LinkTypes
  <2>2. \A j \in pending[w] : j = job[w]
    BY <1>3, <2>1 DEF PelInv
  <2>3. pending'[w] = {} /\ \A v \in Workers : v # w => pending'[v] = pending[v]
    BY Zenon, <1>2, <2>1, <2>2
  <2> QED
    BY <1>4, <2>1, <2>3 DEF PelInv
<1>10. crashes' = 0 /\ mishaps' = 0 =>
         \A v \in Workers, j \in Jobs : <<v, j>> \in pel' => Holds(v, j)'
  BY Zenon, <1>2, <1>4, <1>6 DEF PelInv
<1> QED
  BY Zenon, <1>7, <1>8, <1>9, <1>10 DEF PelInv

\* A worker lets go of its job: after XACK, or because of a fault.
LEMMA DropPel ==
  ASSUME PelInv, LinkTypes, NEW w \in Workers,
         \A k \in Jobs : ~Holds(w, k)',
         \A v \in Workers, k \in Jobs : v # w => (Holds(v, k)' <=> Holds(v, k)),
         link' = [link EXCEPT ![w] = "ready"],
         pending'[w] = {},
         \A v \in Workers : v # w => pending'[v] = pending[v],
         UNCHANGED <<starts, verdict>>,
         \/ pel' = pel
         \/ pel' = pel \ {<<w, job[w]>>} /\ verdict[job[w]] # "none",
         crashes' = 0 /\ mishaps' = 0 =>
           /\ crashes = 0 /\ mishaps = 0 /\ pel' = pel
           /\ \A k \in Jobs : Holds(w, k) => <<w, k>> \notin pel
  PROVE  PelInv'
<1>1. /\ pending \in [Workers -> SUBSET Jobs]
      /\ \A v \in Workers : v # w => (Publishing(v)' <=> Publishing(v))
  BY DEF LinkTypes, Publishing
<1>2. /\ \A v \in Workers, j \in Jobs : v # w => (<<v, j>> \in pel' <=> <<v, j>> \in pel)
      /\ \A j \in Jobs : verdict[j] = "none" => (<<w, j>> \in pel' <=> <<w, j>> \in pel)
  BY Zenon
<1>3. \A v \in Workers, j \in Jobs :
        Holds(v, j)' => (<<v, j>> \in pel' <=> ~Publishing(v)')
  BY ZenonT(40), <1>1, <1>2 DEF PelInv
<1>4. \A j \in Jobs : starts'[j] > 0 /\ verdict'[j] = "none" => InPel(j)'
  BY Zenon, <1>2 DEF PelInv, InPel
<1>5. \A v \in Workers : \A j \in pending'[v] : Holds(v, j)' /\ ~Publishing(v)'
  BY Zenon, <1>1 DEF PelInv
<1>6. crashes' = 0 /\ mishaps' = 0 =>
         \A v \in Workers, j \in Jobs : <<v, j>> \in pel' => Holds(v, j)'
  BY DEF PelInv
<1> QED
  BY Zenon, <1>3, <1>4, <1>5, <1>6 DEF PelInv

\* XACK fails, the final status is out, or the process dies.
LEMMA DropStepsPel ==
  ASSUME PlaceInv, LinkInv, VerdictInv, PelInv, NEW w \in Workers,
         XackFails(w) \/ PublishStatus(w) \/ WorkerCrash(w)
  PROVE  PelInv'
<1>1. PlaceTypes /\ HandOrJob /\ LinkTypes /\ HandFollowsLink
  BY DEF PlaceInv, LinkInv
<1>2. /\ pending \in [Workers -> SUBSET Jobs]
      /\ handed \in [Workers -> Jobs \cup {NoJob}]
      /\ crashes \in Nat /\ mishaps \in Nat
      /\ NoJob \notin Jobs
  BY <1>1, ExecutorAssumption DEF LinkTypes, PlaceTypes
<1>3. CASE XackFails(w)
  <2>1. /\ stage[w] \in {"ok", "err"} /\ link[w] = "ready"
        /\ pending' = [pending EXCEPT ![w] = @ \ {job[w]}]
        /\ pel' \in {pel, pel \ {<<w, job[w]>>}}
        /\ job' = [job EXCEPT ![w] = NoJob]
        /\ UNCHANGED <<handed, link, starts, verdict>>
        /\ mishaps' = mishaps + 1
    BY Zenon, <1>3 DEF XackFails, Release, Mishap
  <2>2. job[w] \in Jobs /\ \A k \in Jobs : Holds(w, k) <=> k = job[w]
    BY <2>1, OnlyJobInHand
  <2>3. handed[w] = NoJob
    BY Zenon, <1>1, <2>1 DEF HandOrJob
  <2>4. /\ \A k \in Jobs : ~Holds(w, k)'
        /\ \A v \in Workers, k \in Jobs : v # w => (Holds(v, k)' <=> Holds(v, k))
    BY ZenonT(40), <1>1, <1>2, <2>1, <2>3, DroppedHands
  <2>5. pending'[w] = {} /\ \A v \in Workers : v # w => pending'[v] = pending[v]
    BY <1>2, <2>1, <2>2 DEF PelInv
  <2>6. link' = [link EXCEPT ![w] = "ready"]
    BY <1>1, <2>1 DEF LinkTypes
  <2>7. verdict[job[w]] # "none"
    BY <2>1 DEF VerdictInv
  <2>8. mishaps' # 0
    BY SMTT(20), <1>2, <2>1
  <2> QED
    BY Zenon, <1>1, <2>1, <2>4, <2>5, <2>6, <2>7, <2>8, DropPel
<1>4. CASE PublishStatus(w)
  <2>1. /\ link[w] = "publish_status"
        /\ link' = [link EXCEPT ![w] = "ready"]
        /\ job' = [job EXCEPT ![w] = NoJob]
        /\ UNCHANGED <<handed, pel, pending, starts, verdict, crashes>>
        /\ UNCHANGED mishaps \/ Mishap
        /\ stage[w] \in {"ok", "err"}
    BY <1>4 DEF PublishStatus, Release, SetOrMiss
  <2>2. job[w] \in Jobs /\ \A k \in Jobs : Holds(w, k) <=> k = job[w]
    BY <2>1, OnlyJobInHand
  <2>3. handed[w] = NoJob
    BY <1>1, <2>1 DEF HandOrJob
  <2>4. /\ \A k \in Jobs : ~Holds(w, k)'
        /\ \A v \in Workers, k \in Jobs : v # w => (Holds(v, k)' <=> Holds(v, k))
    BY Zenon, <1>1, <1>2, <2>1, <2>3, DroppedHands
  <2>5. Publishing(w)
    BY <2>1 DEF Publishing
  <2>6. pending[w] = {} /\ \A k \in Jobs : Holds(w, k) => <<w, k>> \notin pel
    BY Zenon, <1>2, <2>5 DEF PelInv
  <2>7. mishaps' = 0 => mishaps = 0
    BY <1>1, <2>1, MishapCounts DEF LinkTypes
  <2> QED
    BY Zenon, <1>1, <2>1, <2>4, <2>6, <2>7, DropPel
<1>5. CASE WorkerCrash(w)
  <2>1. /\ link' = [link EXCEPT ![w] = "ready"]
        /\ job' = [job EXCEPT ![w] = NoJob]
        /\ handed' = [handed EXCEPT ![w] = NoJob]
        /\ pending' = [pending EXCEPT ![w] = {}]
        /\ crashes' = crashes + 1
        /\ UNCHANGED <<pel, starts, verdict>>
    BY <1>5 DEF WorkerCrash, Crash
  <2>2. /\ \A k \in Jobs : ~Holds(w, k)'
        /\ \A v \in Workers, k \in Jobs : v # w => (Holds(v, k)' <=> Holds(v, k))
    <3>1. handed'[w] \notin Jobs /\ \A v \in Workers : v # w => handed'[v] = handed[v]
      BY <1>2, <2>1
    <3> QED
      BY Zenon, <1>1, <2>1, <3>1, DroppedHands
  <2>3. pending'[w] = {} /\ \A v \in Workers : v # w => pending'[v] = pending[v]
    BY <1>2, <2>1
  <2>4. crashes' # 0
    BY <1>2, <2>1
  <2> QED
    BY Zenon, <1>1, <2>1, <2>2, <2>3, <2>4, DropPel
<1> QED
  BY <1>3, <1>4, <1>5

\* Steps that neither take, acknowledge nor drop an entry.
LEMMA FramePel ==
  ASSUME PelInv, LinkTypes,
         \A v \in Workers, k \in Jobs : Holds(v, k)' <=> Holds(v, k),
         \A v \in Workers : Publishing(v)' <=> Publishing(v),
         UNCHANGED <<pel, pending>>,
         \A j \in Jobs :
           starts'[j] > 0 /\ verdict'[j] = "none" =>
             \/ starts[j] > 0 /\ verdict[j] = "none"
             \/ \E w \in Workers : Holds(w, j) /\ ~Publishing(w),
         crashes' = 0 /\ mishaps' = 0 => crashes = 0 /\ mishaps = 0
  PROVE  PelInv'
<1>1. \A v \in Workers : pending[v] \subseteq Jobs
  BY ZenonT(40) DEF LinkTypes
<1>2. \A j \in Jobs : starts'[j] > 0 /\ verdict'[j] = "none" => InPel(j)'
  BY DEF PelInv, InPel
<1> QED
  BY Zenon, <1>1, <1>2 DEF PelInv

\* The pending entries and the id map stay exact in every step.
LEMMA PelStep ==
  ASSUME TypeOK, ExecInv, PlaceInv, LinkInv, VerdictInv, PelInv, [Next]_vars
  PROVE  PelInv'
<1>1. PlaceTypes /\ HandOrJob /\ LinkTypes /\ HandFollowsLink
  BY Zenon DEF PlaceInv, LinkInv
<1>2. ASSUME UNCHANGED <<handed, job, link, pel, pending, starts, verdict, crashes>>,
             UNCHANGED mishaps \/ Mishap
      PROVE  PelInv'
  <2>1. mishaps' = 0 => mishaps = 0
    BY <1>1, <1>2, MishapCounts DEF LinkTypes
  <2>2. /\ \A v \in Workers, k \in Jobs : Holds(v, k)' <=> Holds(v, k)
        /\ \A v \in Workers : Publishing(v)' <=> Publishing(v)
    BY ZenonT(40), <1>2 DEF Holds, Publishing
  <2> QED
    BY <1>1, <1>2, <2>1, <2>2, FramePel
<1>3. ASSUME NEW j \in Jobs, SubmitStep(j) \/ Expire(j) PROVE PelInv'
  BY <1>2, <1>3
  DEF SubmitStep, EnqueueAdd, EnqueueAnnounce, InsertRow, SubmitVars, Expire,
      execVars, queueVars
<1>4. ASSUME NEW r \in Readers,
             ReaderStep(r) \/ \E j \in Jobs : SelectRow(r, j)
      PROVE  PelInv'
  BY Zenon, <1>2, <1>4
  DEF ReaderStep, ReadLive, SyncRow, ReadStatus, ReadResult, NextRequest,
      SelectRow, GetOrMiss, ReadVars, execVars, queueVars
<1>5. ASSUME NEW w \in Workers, Announce(w) PROVE PelInv'
  <2>1. /\ link[w] = "announce"
        /\ link' = [link EXCEPT ![w] = "ready"]
        /\ handed' = [handed EXCEPT ![w] = NoJob]
        /\ job' = [job EXCEPT ![w] = handed[w]]
        /\ stage[w] = "idle"
        /\ UNCHANGED <<pel, pending, starts, verdict, crashes>>
        /\ UNCHANGED mishaps \/ Mishap
    BY <1>5 DEF Announce, Receive, SetOrMiss
  <2>2. job[w] = NoJob /\ NoJob \notin Jobs
    BY <1>1, <2>1, ExecutorAssumption DEF HandOrJob
  <2>3. \A v \in Workers, k \in Jobs : Holds(v, k)' <=> Holds(v, k)
    BY <1>1, <2>1, <2>2 DEF Holds, PlaceTypes
  <2>4. \A v \in Workers : Publishing(v)' <=> Publishing(v)
    BY <1>1, <2>1 DEF Publishing, LinkTypes
  <2>5. mishaps' = 0 => mishaps = 0
    BY Zenon, <1>1, <2>1, MishapCounts DEF LinkTypes
  <2> QED
    BY Zenon, <1>1, <2>1, <2>3, <2>4, <2>5, FramePel
<1>6. ASSUME NEW w \in Workers, PublishResult(w) PROVE PelInv'
  <2>1. /\ link[w] = "publish_result"
        /\ link' = [link EXCEPT ![w] = "publish_status"]
        /\ UNCHANGED <<handed, job, pel, pending, starts, verdict, crashes>>
        /\ UNCHANGED mishaps \/ Mishap
    BY <1>6 DEF PublishResult, SetOrMiss, execVars
  <2>2. \A v \in Workers, k \in Jobs : Holds(v, k)' <=> Holds(v, k)
    BY <2>1 DEF Holds
  <2>3. \A v \in Workers : Publishing(v)' <=> Publishing(v)
    BY <1>1, <2>1 DEF Publishing, LinkTypes
  <2>4. mishaps' = 0 => mishaps = 0
    BY <1>1, <2>1, MishapCounts DEF LinkTypes
  <2> QED
    BY <1>1, <2>1, <2>2, <2>3, <2>4, FramePel
<1>7. ASSUME NEW w \in Workers,
             ExecuteStep(w) \/ HandlerOk(w) \/ HandlerErr(w)
               \/ \E j \in Jobs : BlockingWorkEnds(w, j),
             UNCHANGED pipeVars
      PROVE  PelInv'
  <2>1. UNCHANGED <<submit, stream, handed, link, pel, pending, crashes, mishaps>>
    BY <1>7 DEF pipeVars, queueVars
  <2>2. StartMove(w) \/ InsideMove(w) \/ UNCHANGED Others
    BY <1>7, <2>1, InsideSteps
  <2>3. ReturnMove(w) \/ QuietMove
    BY <1>7, <2>1, StepsReturn
  <2>4. job' = job
    BY <2>2 DEF StartMove, InsideMove, Others
  <2>5. /\ \A v \in Workers, k \in Jobs : Holds(v, k)' <=> Holds(v, k)
        /\ \A v \in Workers : Publishing(v)' <=> Publishing(v)
    BY <2>1, <2>4 DEF Holds, Publishing
  <2>6. \A j \in Jobs : verdict'[j] = "none" => verdict[j] = "none"
    <3>1. verdict \in [Jobs -> {"none", "ok", "err"}]
      BY Zenon DEF ExecInv, ExecTypeOK
    <3> QED
      BY <2>3, <3>1 DEF ReturnMove, QuietMove
  <2>7. CASE starts' = starts
    BY Zenon, <1>1, <2>1, <2>5, <2>6, <2>7, FramePel
  <2>8. CASE StartMove(w)
    <3>1. job[w] \in Jobs /\ Holds(w, job[w]) /\ ~Publishing(w)
      BY <1>1, <2>8 DEF StartMove, HandOrJob, PlaceTypes, Holds, Publishing,
                        HandFollowsLink
    <3>2. \A j \in Jobs : j # job[w] => starts'[j] = starts[j]
      BY <1>1, <2>8, <3>1 DEF StartMove, PlaceTypes
    <3> QED
      BY <1>1, <2>1, <2>5, <2>6, <3>1, <3>2, FramePel
  <2> QED
    BY <2>2, <2>7, <2>8 DEF InsideMove, Others
<1>8. ASSUME NEW w \in Workers, WorkerRestart(w) PROVE PelInv'
  BY <1>2, <1>8 DEF WorkerRestart, Restart, pipeVars, queueVars
<1>9. CASE UNCHANGED vars
  BY <1>2, <1>9 DEF vars, execVars, pipeVars, queueVars
<1> QED
  BY <1>3, <1>4, <1>5, <1>6, <1>7, <1>8, <1>9, FetchPel, FetchFailsPel, XackPel,
     DropStepsPel
  DEF Next, LoopStep, HandlerStep

-----------------------------------------------------------------------------
\* What a step of a request does to its local record, now p.
RequestMove(r, p) ==
  LET q == reader[r]
      Same == p.job = q.job /\ p.status = q.status /\ p.live = q.live
  IN  \/ /\ q.at = "idle" /\ p.at = "live"
         /\ p.job \in Jobs /\ p.status = row[p.job] /\ p.live = q.live
      \/ /\ q.at = "live" /\ p.at \in {"sync", "status"}
         /\ p.job = q.job /\ p.live = q.live
         /\ p.status \in {q.status, statusKey[q.job]}
      \/ q.at = "sync" /\ p.at = "status" /\ Same
      \/ /\ q.at = "status" /\ p.at = "result"
         /\ p.job = q.job /\ p.status = q.status
         /\ p.live \in {"none", statusKey[q.job]}
      \/ /\ q.at = "result" /\ p.at = "answered" /\ Same
         /\ Mishap \/ resultKey[q.job] = "torn" \/ p.result = resultKey[q.job]
      \/ /\ p.at = "idle" /\ p.job = NoJob
         /\ p.status = "none" /\ p.live = "none"

\* Every step of a request is such a move.
LEMMA RequestSteps ==
  ASSUME reader \in [Readers -> Requests], StoreTypeOK, NEW r \in Readers,
         ReaderStep(r) \/ \E j \in Jobs : SelectRow(r, j)
  PROVE  \E p : reader' = [reader EXCEPT ![r] = p] /\ RequestMove(r, p)
<1> DEFINE q == reader[r]
<1>0. q \in Requests
  OBVIOUS
<1>1. ASSUME NEW j \in Jobs, SelectRow(r, j)
      PROVE  \E p : reader' = [reader EXCEPT ![r] = p] /\ RequestMove(r, p)
  <2> DEFINE p == [q EXCEPT !.at = "live", !.job = j, !.status = row[j],
                            !.done = completedAt[j]]
  <2>1. reader' = [reader EXCEPT ![r] = p] /\ q.at = "idle"
    BY Zenon, <1>1 DEF SelectRow
  <2>2. p.at = "live" /\ p.job = j /\ p.status = row[j] /\ p.live = q.live
    BY <1>0 DEF Requests
  <2>3. RequestMove(r, p)
    BY <2>1, <2>2 DEF RequestMove
  <2> QED
    BY Zenon, <2>1, <2>3
<1>2. CASE ReadLive(r)
  <2>1. PICK live \in Statuses \cup {"none"} :
          /\ GetOrMiss(live, statusKey[q.job])
          /\ reader' = [reader EXCEPT ![r] =
            [@ EXCEPT !.at = IF live \in Finished \cup {"running"}
                               THEN "sync" ELSE "status",
                      !.status = IF live = "none" THEN reader[r].status
                                                  ELSE live,
                      !.done = reader[r].done \/ live \in Finished]]
    BY Zenon, <1>2 DEF ReadLive
  <2> DEFINE a == IF live \in Finished \cup {"running"} THEN "sync" ELSE "status"
             t == IF live = "none" THEN q.status ELSE live
             d == q.done \/ live \in Finished
             p == [q EXCEPT !.at = a, !.status = t, !.done = d]
  <2>2. reader' = [reader EXCEPT ![r] = p] /\ q.at = "live"
    BY Zenon, <1>2, <2>1 DEF ReadLive
  <2>3. a \in {"sync", "status"} /\ t \in {q.status, statusKey[q.job]}
    BY <2>1 DEF GetOrMiss
  <2> HIDE DEF a, t, d
  <2>4. p.at = a /\ p.job = q.job /\ p.status = t /\ p.live = q.live
    BY <1>0 DEF Requests
  <2>5. RequestMove(r, p)
    BY <2>2, <2>3, <2>4 DEF RequestMove
  <2> QED
    BY Zenon, <2>2, <2>5
<1>3. CASE SyncRow(r)
  <2> DEFINE p == [q EXCEPT !.at = "status"]
  <2>1. reader' = [reader EXCEPT ![r] = p] /\ q.at = "sync"
    BY <1>3 DEF SyncRow
  <2>2. p.at = "status" /\ p.job = q.job /\ p.status = q.status /\ p.live = q.live
    BY <1>0 DEF Requests
  <2>3. RequestMove(r, p)
    BY <2>1, <2>2 DEF RequestMove
  <2> QED
    BY Zenon, <2>1, <2>3
<1>4. CASE ReadStatus(r)
  <2>1. PICK live \in Statuses \cup {"none"} :
          /\ GetOrMiss(live, statusKey[q.job])
          /\ reader' = [reader EXCEPT ![r].live = live, ![r].at = "result"]
    BY Zenon, <1>4 DEF ReadStatus
  <2> DEFINE p == [q EXCEPT !.live = live, !.at = "result"]
  <2>2. reader' = [reader EXCEPT ![r] = p] /\ q.at = "status"
    BY Zenon, <1>4, <2>1 DEF ReadStatus
  <2>3. p.at = "result" /\ p.job = q.job /\ p.status = q.status /\ p.live = live
    BY <1>0 DEF Requests
  <2>4. live \in {"none", statusKey[q.job]}
    BY <2>1 DEF GetOrMiss
  <2>5. RequestMove(r, p)
    BY <2>2, <2>3, <2>4 DEF RequestMove
  <2> QED
    BY Zenon, <2>2, <2>5
<1>5. CASE ReadResult(r)
  <2>1. PICK result \in FileContents \ {"torn"} :
          /\ GetOrMiss(result, IF resultKey[q.job] = "torn" THEN "none"
                               ELSE resultKey[q.job])
          /\ reader' = [reader EXCEPT ![r].result = result,
                                      ![r].at = "answered"]
    BY Zenon, <1>5 DEF ReadResult
  <2> DEFINE p == [q EXCEPT !.result = result, !.at = "answered"]
  <2>2. reader' = [reader EXCEPT ![r] = p] /\ q.at = "result"
    BY Zenon, <1>5, <2>1 DEF ReadResult
  <2>3. /\ p.at = "answered" /\ p.job = q.job /\ p.status = q.status
        /\ p.live = q.live /\ p.result = result
    BY <1>0 DEF Requests
  <2>4. Mishap \/ resultKey[q.job] = "torn" \/ result = resultKey[q.job]
    BY <2>1 DEF GetOrMiss
  <2>5. RequestMove(r, p)
    BY <2>2, <2>3, <2>4 DEF RequestMove
  <2> QED
    BY Zenon, <2>2, <2>5
<1>6. CASE NextRequest(r)
  <2>1. reader' = [reader EXCEPT ![r] = Idle]
    BY <1>6 DEF NextRequest
  <2>2. RequestMove(r, Idle)
    BY Zenon DEF RequestMove, Idle
  <2> QED
    BY Zenon, <2>1, <2>2
<1> QED
  BY <1>1, <1>2, <1>3, <1>4, <1>5, <1>6 DEF ReaderStep

\* A final status and the verdict it claims.
Claims(s, v) == (s = "completed" /\ v = "ok") \/ (s = "failed" /\ v = "err")

\* Where a client can read a status of the job.
Told(j, s) ==
  \/ statusKey[j] = s
  \/ row[j] = s
  \/ \E r \in Readers : reader[r].job = j /\ s \in {reader[r].status, reader[r].live}

\* StatusTruthful in these terms.
LEMMA TruthfulTold ==
  StatusTruthful <=>
    \A j \in Jobs : \A s \in Finished : Told(j, s) => Claims(s, verdict[j])
BY DEF StatusTruthful, Told, Claims, Finished

\* A verdict stays.
LEMMA VerdictStays ==
  ASSUME PlaceInv, ExecTypeOK, VerdictInv,
         (\E w \in Workers : ReturnMove(w)) \/ QuietMove
  PROVE  \A j \in Jobs : verdict[j] # "none" => verdict'[j] = verdict[j]
<1>1. /\ HandOrJob /\ job \in [Workers -> Jobs \cup {NoJob}]
      /\ verdict \in [Jobs -> {"none", "ok", "err"}]
  BY DEF PlaceInv, PlaceTypes, ExecTypeOK
<1>2. ASSUME NEW w \in Workers, ReturnMove(w)
      PROVE  \A j \in Jobs : verdict[j] # "none" => verdict'[j] = verdict[j]
  <2>1. job[w] \in Jobs /\ verdict[job[w]] = "none"
    <3>1. stage[w] \notin {"idle", "down", "ok", "err"}
      BY <1>2 DEF ReturnMove
    <3>2. job[w] \in Jobs
      BY <1>1, <3>1 DEF HandOrJob
    <3> QED
      BY Zenon, <3>1, <3>2 DEF VerdictInv
  <2>2. PICK v : verdict' = [verdict EXCEPT ![job[w]] = v]
    BY Zenon, <1>2 DEF ReturnMove
  <2> QED
    BY <1>1, <2>1, <2>2
<1> QED
  BY <1>2 DEF QuietMove

\* A step tells nobody a final status that was not told before or is not the
\* verdict.
LEMMA ToldStep ==
  ASSUME TypeOK, PlaceInv, LinkInv, LiveInv, VerdictInv, [Next]_vars
  PROVE  \A j \in Jobs : \A s \in Finished :
           Told(j, s)' => Told(j, s) \/ Claims(s, verdict[j])
<1>0. /\ reader \in [Readers -> Requests] /\ StoreTypeOK /\ PlaceTypes /\ HandOrJob
      /\ HandFollowsLink
      /\ NoJob \notin Jobs
  BY ExecutorAssumption DEF TypeOK, PlaceInv, LinkInv
<1> DEFINE Goal == \A j \in Jobs : \A s \in Finished :
                     Told(j, s)' => Told(j, s) \/ Claims(s, verdict[j])
<1>1. ASSUME UNCHANGED <<statusKey, row, reader>> PROVE Goal
  BY Zenon, <1>1 DEF Told
<1>2. ASSUME NEW j \in Jobs, SubmitStep(j) \/ Expire(j) PROVE Goal
  <2>1. /\ \/ UNCHANGED statusKey
           \/ \E s \in {"pending", "none"} :
                statusKey' = [statusKey EXCEPT ![j] = s]
        /\ UNCHANGED row \/ row' = [row EXCEPT ![j] = "pending"]
        /\ UNCHANGED reader
    BY <1>2 DEF SubmitStep, EnqueueAdd, EnqueueAnnounce, InsertRow, SubmitVars,
                Expire, dbVars
  <2> QED
    BY Zenon, <1>0, <2>1 DEF Told, Finished, StoreTypeOK
<1>3. ASSUME NEW w \in Workers, Announce(w) PROVE Goal
  <2>1. /\ \/ UNCHANGED statusKey
           \/ statusKey' = [statusKey EXCEPT ![handed[w]] = "running"]
        /\ UNCHANGED <<row, reader>>
    BY Zenon, <1>3 DEF Announce, SetOrMiss, dbVars
  <2> QED
    BY Zenon, <1>0, <2>1 DEF Told, Finished, StoreTypeOK
<1>4. ASSUME NEW w \in Workers, PublishStatus(w) PROVE Goal
  <2>1. /\ \/ UNCHANGED statusKey
           \/ statusKey' = [statusKey EXCEPT ![job[w]] =
                IF stage[w] = "ok" THEN "completed" ELSE "failed"]
        /\ UNCHANGED <<row, reader>>
        /\ stage[w] \in {"ok", "err"}
    BY Zenon, <1>4 DEF PublishStatus, SetOrMiss, dbVars, Release
  <2>2. verdict[job[w]] = stage[w]
    BY Zenon, <2>1 DEF VerdictInv
  <2> QED
    BY Zenon, <1>0, <2>1, <2>2 DEF Told, Finished, StoreTypeOK, Claims
<1>5. ASSUME NEW r \in Readers,
             ReaderStep(r) \/ \E j \in Jobs : SelectRow(r, j)
      PROVE  Goal
  <2>1. PICK p : reader' = [reader EXCEPT ![r] = p] /\ RequestMove(r, p)
    BY <1>0, <1>5, RequestSteps
  <2>2. /\ UNCHANGED statusKey
        /\ \/ UNCHANGED row
           \/ row' = [row EXCEPT ![reader[r].job] = reader[r].status]
    BY Zenon, <1>5 DEF ReaderStep, ReadLive, SyncRow, ReadStatus, ReadResult,
                NextRequest, SelectRow, ReadVars, keyVars, dbVars
  <2> SUFFICES ASSUME NEW j \in Jobs, NEW s \in Finished, Told(j, s)'
               PROVE  Told(j, s)
    OBVIOUS
  <2>3. CASE statusKey'[j] = s
    BY <2>2, <2>3 DEF Told
  <2>4. CASE row'[j] = s
    <3>1. row[j] = s \/ (reader[r].job = j /\ reader[r].status = s)
      BY <1>0, <2>2, <2>4 DEF StoreTypeOK
    <3> QED
      BY <3>1 DEF Told
  <2>5. ASSUME NEW u \in Readers, reader'[u].job = j,
               s \in {reader'[u].status, reader'[u].live}
        PROVE  Told(j, s)
    <3>1. CASE u # r
      <4>1. reader'[u] = reader[u]
        BY <1>0, <2>1, <3>1
      <4> QED
        BY <2>5, <4>1 DEF Told
    <3>2. CASE u = r
      <4>1. p.job = j /\ s \in {p.status, p.live}
        BY <1>0, <2>1, <2>5, <3>2
      <4>2. s \notin {"none", "pending", "running"}
        BY DEF Finished
      <4>3. reader[r].at = "idle" => reader[r].live = "none"
        BY DEF LiveInv
      <4>4. \/ s = row[j] \/ s = statusKey[j]
            \/ reader[r].job = j /\ s \in {reader[r].status, reader[r].live}
        BY Zenon, <1>0, <2>1, <4>1, <4>2, <4>3 DEF RequestMove
      <4> QED
        BY Zenon, <4>4 DEF Told
    <3> QED
      BY Zenon, <3>1, <3>2
  <2> QED
    BY Zenon, <2>3, <2>4, <2>5 DEF Told
<1>6. ASSUME NEW w \in Workers,
             \/ Fetch(w) \/ FetchFails(w) \/ Xack(w) \/ XackFails(w)
             \/ PublishResult(w) \/ WorkerCrash(w) \/ UNCHANGED pipeVars
      PROVE  Goal
  BY Zenon, <1>1, <1>6 DEF Fetch, FetchFails, FetchVars, Xack, XackFails,
    PublishResult, WorkerCrash, pipeVars, keyVars, dbVars
<1>7. CASE UNCHANGED vars
  BY <1>1, <1>7 DEF vars, pipeVars, keyVars, dbVars
<1> QED
  BY <1>2, <1>3, <1>4, <1>5, <1>6, <1>7
  DEF Next, LoopStep, HandlerStep, WorkerRestart

\* No status anyone can read is false after the step.
LEMMA TruthStep ==
  ASSUME TypeOK, PlaceInv, LinkInv, LiveInv, VerdictInv, StatusTruthful,
         [Next]_vars, (\E w \in Workers : ReturnMove(w)) \/ QuietMove
  PROVE  StatusTruthful'
<1>1. ExecTypeOK
  BY DEF TypeOK
<1>2. \A j \in Jobs : verdict[j] # "none" => verdict'[j] = verdict[j]
  BY <1>1, VerdictStays
<1>3. \A j \in Jobs : \A s \in Finished : Told(j, s) => Claims(s, verdict[j])
  BY TruthfulTold
<1>4. \A j \in Jobs : \A s \in Finished :
        Told(j, s)' => Told(j, s) \/ Claims(s, verdict[j])
  BY Zenon, ToldStep
<1>5. \A j \in Jobs : \A s \in Finished : Told(j, s)' => Claims(s, verdict[j])'
  BY <1>2, <1>3, <1>4 DEF Claims
<1>6. ((\A j \in Jobs : \A s \in Finished : Told(j, s) => Claims(s, verdict[j]))
         => StatusTruthful)'
  BY TruthfulTold, PTL
<1> QED
  BY <1>5, <1>6

\* A request asks for the live status when it is at "status", not before.
LEMMA LiveStep ==
  ASSUME TypeOK, LiveInv, [Next]_vars
  PROVE  LiveInv'
<1>0. reader \in [Readers -> Requests] /\ StoreTypeOK
  BY DEF TypeOK
<1>1. ASSUME NEW r \in Readers,
             ReaderStep(r) \/ \E j \in Jobs : SelectRow(r, j)
      PROVE  LiveInv'
  <2>1. PICK p : reader' = [reader EXCEPT ![r] = p] /\ RequestMove(r, p)
    BY <1>0, <1>1, RequestSteps
  <2>2. /\ p.at # "result" /\ p.at # "answered" => p.live = "none"
        /\ p.at # "idle" => p.job \in Jobs
    BY Zenon, <2>1 DEF RequestMove, LiveInv
  <2> QED
    BY <1>0, <2>1, <2>2 DEF LiveInv
<1>2. CASE UNCHANGED reader
  BY Zenon, <1>2 DEF LiveInv
<1>3. ASSUME NEW j \in Jobs, SubmitStep(j) \/ Expire(j) PROVE UNCHANGED reader
  BY <1>3 DEF SubmitStep, EnqueueAdd, EnqueueAnnounce, InsertRow, SubmitVars,
              Expire
<1>4. ASSUME NEW w \in Workers,
             \/ Fetch(w) \/ FetchFails(w) \/ Announce(w) \/ Xack(w)
             \/ XackFails(w) \/ PublishResult(w) \/ PublishStatus(w)
             \/ WorkerCrash(w) \/ UNCHANGED pipeVars
      PROVE  UNCHANGED reader
  BY Zenon, <1>4 DEF Fetch, FetchFails, FetchVars, Announce, Xack, XackFails,
              PublishResult, PublishStatus, WorkerCrash, pipeVars
<1>5. CASE UNCHANGED vars
  BY Zenon, <1>2, <1>5 DEF vars, pipeVars
<1> QED
  BY <1>1, <1>2, <1>3, <1>4, <1>5
  DEF Next, LoopStep, HandlerStep, WorkerRestart

-----------------------------------------------------------------------------
\* The result file and the verdict of a job change together.
LEMMA FileStep ==
  ASSUME ExecInv, VerdictInv, FileInv, [ExecNext]_execVars
  PROVE  FileInv'
<1>0. /\ resultFile \in [Jobs -> FileContents]
      /\ verdict \in [Jobs -> {"none", "ok", "err"}]
      /\ job \in [Workers -> Jobs \cup {NoJob}]
      /\ cache \in [Workers -> SUBSET Keys]
      /\ NoKey \notin Keys
      /\ JobFollowsStage
  BY ExecutorAssumption DEF ExecInv, ExecTypeOK
<1>8. \A w \in Workers : stage[w] \in {"fetched", "saving_ok", "saving_err"} =>
        job[w] \in Jobs /\ verdict[job[w]] = "none"
  <2> SUFFICES ASSUME NEW w \in Workers,
                      stage[w] \in {"fetched", "saving_ok", "saving_err"}
               PROVE  job[w] \in Jobs /\ verdict[job[w]] = "none"
    OBVIOUS
  <2>1. job[w] \in Jobs
    BY Zenon, <1>0 DEF JobFollowsStage
  <2> QED
    BY <2>1 DEF VerdictInv
<1>1. ASSUME NEW w \in Workers, SaveSuccess(w) PROVE FileInv'
  BY <1>0, <1>1 DEF SaveSuccess, Return, FileInv, JobFollowsStage
<1>2. ASSUME NEW w \in Workers, SaveFailure(w) \/ SaveFails(w) PROVE FileInv'
  <2>1. job[w] \in Jobs /\ verdict[job[w]] = "none"
    <3>1. stage[w] \in {"saving_ok", "saving_err"}
      BY <1>2 DEF SaveFailure, SaveFails
    <3> QED
      BY Zenon, <1>8, <3>1
  <2>2. PICK content : /\ resultFile' = [resultFile EXCEPT ![job[w]] = content]
                       /\ content # "completed"
    <3>1. resultFile[job[w]] # "completed"
      BY <2>1 DEF FileInv
    <3> QED
      BY <1>2, <3>1 DEF SaveFailure, SaveFails
  <2>3. verdict' = [verdict EXCEPT ![job[w]] = "err"]
    BY <1>2 DEF SaveFailure, SaveFails, Return
  <2> QED
    BY <1>0, <2>1, <2>2, <2>3 DEF FileInv
<1>3. ASSUME NEW w \in Workers, CacheHit(w) PROVE FileInv'
  <2>1. job[w] \in Jobs /\ verdict[job[w]] = "none" /\ KeyOf[job[w]] # NoKey
    <3>1. stage[w] = "fetched" /\ KeyOf[job[w]] \in cache[w]
      BY Zenon, <1>3 DEF CacheHit
    <3> QED
      BY <1>0, <1>8, <3>1
  <2> QED
    BY <1>0, <1>3, <2>1 DEF CacheHit, Return, FileInv
<1>4. ASSUME NEW w \in Workers, Crash(w) PROVE FileInv'
  <2>1. \/ UNCHANGED resultFile
        \/ /\ stage[w] \in {"saving_ok", "saving_err"}
           /\ resultFile' = [resultFile EXCEPT ![job[w]] = "torn"]
    BY <1>4 DEF Crash
  <2>2. UNCHANGED verdict
    BY <1>4 DEF Crash
  <2>3. stage[w] \in {"saving_ok", "saving_err"} => verdict[job[w]] = "none"
    BY <1>8
  <2>4. \A j \in Jobs : resultFile'[j] = resultFile[j] \/
          (verdict[j] = "none" /\ resultFile'[j] = "torn")
    BY <1>0, <2>1, <2>3
  <2> QED
    BY <2>2, <2>4 DEF FileInv
<1>5. ASSUME NEW w \in Workers,
             \/ \E j \in Jobs : Receive(w, j) \/ BlockingWorkEnds(w, j)
             \/ CacheMiss(w) \/ ValidateFails(w) \/ ValidateOk(w)
             \/ StartHandler(w) \/ HandlerOk(w) \/ HandlerErr(w)
             \/ HandlerTimeout(w) \/ Release(w) \/ Restart(w)
      PROVE  UNCHANGED <<resultFile, verdict>>
  BY Zenon, <1>5 DEF Receive, BlockingWorkEnds, CacheMiss, ValidateFails,
    ValidateOk, StartHandler, HandlerOk, HandlerErr, HandlerReturns,
    HandlerTimeout, Release, Restart
<1>6. CASE UNCHANGED <<resultFile, verdict>>
  BY <1>6 DEF FileInv
<1>7. CASE UNCHANGED execVars
  BY <1>6, <1>7 DEF execVars
<1> QED
  BY <1>1, <1>2, <1>3, <1>4, <1>5, <1>6, <1>7 DEF ExecNext, ExecStep, ExecuteStep

\* Steps that publish nothing.
LEMMA FrameResult ==
  ASSUME ResultInv, mishaps' = 0 => mishaps = 0 /\ UNCHANGED <<resultKey, reader>>,
         \A w \in Workers : link'[w] = "publish_result" =>
           link[w] = "publish_result" /\ stage'[w] = stage[w],
         \A w \in Workers : link'[w] = "publish_status" /\ stage'[w] = "ok" =>
           /\ link[w] = "publish_status" /\ stage[w] = "ok"
           /\ job'[w] = job[w],
         \A j \in Jobs : statusKey'[j] = "completed" => statusKey[j] = "completed"
  PROVE  ResultInv'
<1>1. \A w \in Workers : link'[w] = "publish_result" => stage'[w] = "ok"
  BY Zenon DEF ResultInv
<1>2. ASSUME mishaps' = 0, NEW j \in Jobs, KeyOf[j] = NoKey
      PROVE  ResultAhead(j)'
  <2>1. ResultAhead(j) /\ UNCHANGED <<resultKey, reader>>
    BY <1>2 DEF ResultInv
  <2> QED
    BY Zenon, <2>1 DEF ResultAhead
<1> QED
  BY Zenon, <1>1, <1>2 DEF ResultInv

\* The result is published before the status.
LEMMA PublishResultStep ==
  ASSUME ExecInv, PlaceInv, LinkInv, VerdictInv, FileInv, ResultInv,
         NEW w \in Workers, PublishResult(w)
  PROVE  ResultInv'
<1>1. /\ link \in [Workers -> {"ready", "announce", "publish_result",
                               "publish_status"}]
      /\ resultKey \in [Jobs -> FileContents]
      /\ mishaps \in 0 .. MaxMishaps
  BY DEF LinkInv, LinkTypes, StoreTypeOK
<1>2. /\ link[w] = "publish_result"
      /\ link' = [link EXCEPT ![w] = "publish_status"]
      /\ UNCHANGED <<stage, job, resultFile, verdict, statusKey, reader>>
  BY Zenon DEF PublishResult, execVars
<1>3. stage[w] = "ok"
  BY Zenon, <1>2 DEF ResultInv
<1>4. job[w] \in Jobs /\ verdict[job[w]] = "ok"
  BY Zenon, <1>3, OnlyJobInHand DEF VerdictInv
<1>5. KeyOf[job[w]] = NoKey => resultFile[job[w]] = "completed"
  BY <1>4 DEF FileInv
<1>6. \A v \in Workers : link'[v] = "publish_result" => stage'[v] = "ok"
  BY <1>1, <1>2 DEF ResultInv
<1>7. ASSUME mishaps' = 0, NEW j \in Jobs, KeyOf[j] = NoKey
      PROVE  ResultAhead(j)'
  <2>1. mishaps = 0 /\ ~Mishap
    <3>1. UNCHANGED mishaps \/ Mishap
      BY Zenon DEF PublishResult, SetOrMiss
    <3>2. mishaps = 0
      BY <1>1, <1>7, <3>1, MishapCounts
    <3> QED
      BY <1>7, <3>2 DEF Mishap
  <2>0. ResultAhead(j)
    BY Zenon, <1>7, <2>1 DEF ResultInv
  <2>2. CASE j = job[w]
    <3>1. resultKey' = [resultKey EXCEPT ![job[w]] = "completed"]
      BY Zenon, <1>5, <1>7, <2>1, <2>2 DEF PublishResult, SetOrMiss
    <3>2. resultKey'[j] = "completed"
      BY ZenonT(40), <1>1, <1>4, <2>2, <3>1
    <3> QED
      BY <1>2, <2>0, <3>2 DEF ResultAhead
  <2>3. CASE j # job[w]
    <3>1. resultKey'[j] = resultKey[j]
      BY Zenon, <1>1, <2>3 DEF PublishResult, SetOrMiss
    <3>2. \A v \in Workers : job[v] = j => link'[v] = link[v]
      BY <1>1, <1>2, <2>3
    <3> QED
      BY <1>2, <2>0, <3>1, <3>2 DEF ResultAhead
  <2> QED
    BY <2>2, <2>3
<1> QED
  BY <1>6, <1>7 DEF ResultInv

\* The status "completed" follows the result.
LEMMA PublishStatusStep ==
  ASSUME LinkInv, ResultInv, job \in [Workers -> Jobs \cup {NoJob}],
         stage \in [Workers -> Stages], NEW w \in Workers, PublishStatus(w)
  PROVE  ResultInv'
<1>1. /\ link \in [Workers -> {"ready", "announce", "publish_result",
                               "publish_status"}]
      /\ statusKey \in [Jobs -> Statuses \cup {"none"}]
      /\ mishaps \in 0 .. MaxMishaps
  BY Zenon DEF LinkInv, LinkTypes, StoreTypeOK
<1>2. /\ link[w] = "publish_status"
      /\ link' = [link EXCEPT ![w] = "ready"]
      /\ stage' = [stage EXCEPT ![w] = "idle"]
      /\ job' = [job EXCEPT ![w] = NoJob]
      /\ UNCHANGED <<resultKey, reader>>
      /\ \/ statusKey' = [statusKey EXCEPT ![job[w]] =
              IF stage[w] = "ok" THEN "completed" ELSE "failed"]
         \/ UNCHANGED statusKey
      /\ UNCHANGED mishaps \/ Mishap
  BY DEF PublishStatus, SetOrMiss, Release
<1>3. \A v \in Workers : link'[v] # "ready" =>
        link'[v] = link[v] /\ stage'[v] = stage[v] /\ job'[v] = job[v]
  BY Zenon, <1>1, <1>2
<1>4. \A v \in Workers : link'[v] = "publish_result" => stage'[v] = "ok"
  BY Zenon, <1>3 DEF ResultInv
<1>5. ASSUME mishaps' = 0, NEW j \in Jobs, KeyOf[j] = NoKey
      PROVE  ResultAhead(j)'
  <2>1. mishaps = 0
    BY <1>1, <1>2, <1>5, MishapCounts
  <2>0. ResultAhead(j)
    BY Zenon, <1>5, <2>1 DEF ResultInv
  <2>2. statusKey'[j] = "completed" =>
          statusKey[j] = "completed" \/ (job[w] = j /\ stage[w] = "ok")
    BY Zenon, <1>1, <1>2
  <2>3. statusKey'[j] = "completed" => resultKey'[j] = "completed"
    BY ZenonT(40), <1>2, <2>0, <2>2 DEF ResultAhead
  <2>4. \A v \in Workers :
          job'[v] = j /\ stage'[v] = "ok" /\ link'[v] = "publish_status" =>
            resultKey'[j] = "completed"
    BY <1>2, <1>3, <2>0 DEF ResultAhead
  <2> QED
    BY ZenonT(40), <1>2, <2>0, <2>3, <2>4 DEF ResultAhead
<1> QED
  BY Zenon, <1>4, <1>5 DEF ResultInv

\* A request that reads "completed" finds the result afterwards.
LEMMA RequestResultStep ==
  ASSUME TypeOK, LiveInv, ResultInv, NEW r \in Readers,
         ReaderStep(r) \/ \E j \in Jobs : SelectRow(r, j)
  PROVE  ResultInv'
<1>1. /\ reader \in [Readers -> Requests] /\ StoreTypeOK
      /\ mishaps \in 0 .. MaxMishaps
      /\ NoJob \notin Jobs
  BY ExecutorAssumption DEF TypeOK, QueueTypeOK
<1>2. /\ UNCHANGED <<link, stage, job, statusKey, resultKey>>
      /\ UNCHANGED mishaps \/ Mishap
  BY Zenon DEF ReaderStep, ReadLive, SyncRow, ReadStatus, ReadResult, NextRequest,
         SelectRow, GetOrMiss, ReadVars, execVars, queueVars, keyVars
<1>3. PICK p : reader' = [reader EXCEPT ![r] = p] /\ RequestMove(r, p)
  BY <1>1, RequestSteps
<1>4. ASSUME mishaps' = 0, NEW j \in Jobs, KeyOf[j] = NoKey
      PROVE  ResultAhead(j)'
  <2>1. mishaps = 0 /\ ~Mishap
    BY <1>1, <1>2, <1>4, MishapCounts DEF Mishap
  <2>2. ResultAhead(j)
    BY Zenon, <1>4, <2>1 DEF ResultInv
  <2>3. ASSUME p.job = j, p.live = "completed"
        PROVE  /\ resultKey[j] = "completed"
               /\ p.at = "answered" => p.result = "completed"
    <3>1. reader[r].at # "result" /\ reader[r].at # "answered" =>
            reader[r].live = "none"
      BY DEF LiveInv
    <3>2. \/ p.at = "result" /\ p.live = statusKey[j]
          \/ /\ reader[r].job = j /\ reader[r].live = "completed"
             /\ resultKey[j] = "torn" \/ p.result = resultKey[j]
      BY ZenonT(40), <1>1, <1>3, <2>1, <2>3, <3>1 DEF RequestMove
    <3> QED
      BY Zenon, <2>2, <2>3, <3>2 DEF ResultAhead
  <2>4. \A u \in Readers :
          reader'[u].job = j /\ reader'[u].live = "completed" =>
            /\ resultKey'[j] = "completed"
            /\ reader'[u].at = "answered" => reader'[u].result = "completed"
    <3>1. \A u \in Readers : reader'[u] = reader[u] \/ (u = r /\ reader'[u] = p)
      BY Zenon, <1>1, <1>3
    <3> QED
      BY <1>2, <2>2, <2>3, <3>1 DEF ResultAhead
  <2> QED
    BY Zenon, <1>2, <2>2, <2>4 DEF ResultAhead
<1>5. \A v \in Workers : link'[v] = "publish_result" => stage'[v] = "ok"
  BY ZenonT(40), <1>2 DEF ResultInv
<1> QED
  BY Zenon, <1>4, <1>5 DEF ResultInv

\* Whatever the step, the result stays ahead of the status.
LEMMA ResultStep ==
  ASSUME TypeOK, ExecInv, PlaceInv, LinkInv, VerdictInv, FileInv, LiveInv,
         ResultInv, [Next]_vars
  PROVE  ResultInv'
<1>1. /\ LinkTypes /\ HandFollowsLink /\ StoreTypeOK
      /\ stage \in [Workers -> Stages]
      /\ job \in [Workers -> Jobs \cup {NoJob}]
      /\ link \in [Workers -> {"ready", "announce", "publish_result",
                               "publish_status"}]
  BY Zenon DEF LinkInv, LinkTypes, ExecInv, ExecTypeOK
<1>2. UNCHANGED mishaps \/ Mishap => (mishaps' = 0 => mishaps = 0 /\ ~Mishap)
  BY SMTT(20), <1>1, MishapCounts DEF LinkTypes, Mishap
<1>3. ASSUME NEW j \in Jobs, SubmitStep(j) \/ Expire(j) PROVE ResultInv'
  <2>1. /\ UNCHANGED <<link, stage, job, reader>>
        /\ \/ UNCHANGED statusKey
           \/ \E s \in {"pending", "none"} :
                statusKey' = [statusKey EXCEPT ![j] = s]
        /\ UNCHANGED mishaps \/ Mishap
        /\ UNCHANGED resultKey \/ Mishap
    BY Zenon, <1>3 DEF SubmitStep, EnqueueAdd, EnqueueAnnounce, InsertRow, SubmitVars,
                Expire, execVars, queueVars
  <2>2. \A k \in Jobs : statusKey'[k] = "completed" => statusKey[k] = "completed"
    BY <1>1, <2>1 DEF StoreTypeOK
  <2> QED
    BY Zenon, <1>2, <2>1, <2>2, FrameResult
<1>4. ASSUME NEW w \in Workers, Fetch(w) \/ FetchFails(w) PROVE ResultInv'
  <2>1. /\ link' = [link EXCEPT ![w] = "announce"] \/ UNCHANGED link
        /\ UNCHANGED <<stage, job, statusKey, resultKey, reader>>
        /\ UNCHANGED mishaps \/ Mishap
    BY <1>4 DEF Fetch, FetchFails, FetchVars, execVars, keyVars
  <2>2. \A v \in Workers : Publishing(v)' => link'[v] = link[v]
    BY Zenon, <1>1, <2>1 DEF Publishing
  <2> QED
    BY Zenon, <1>2, <2>1, <2>2, FrameResult DEF Publishing
<1>5. ASSUME NEW w \in Workers, Announce(w) PROVE ResultInv'
  <2>1. /\ link' = [link EXCEPT ![w] = "ready"]
        /\ stage' = [stage EXCEPT ![w] = "fetched"]
        /\ job' = [job EXCEPT ![w] = handed[w]]
        /\ UNCHANGED <<resultKey, reader>>
        /\ \/ UNCHANGED statusKey
           \/ statusKey' = [statusKey EXCEPT ![handed[w]] = "running"]
        /\ UNCHANGED mishaps \/ Mishap
    BY <1>5 DEF Announce, Receive, SetOrMiss
  <2>2. \A v \in Workers : Publishing(v)' =>
          link'[v] = link[v] /\ stage'[v] = stage[v] /\ job'[v] = job[v]
    BY <1>1, <2>1 DEF Publishing
  <2>3. \A k \in Jobs : statusKey'[k] = "completed" => statusKey[k] = "completed"
    BY <1>1, <2>1 DEF StoreTypeOK
  <2> QED
    BY Zenon, <1>2, <2>1, <2>2, <2>3, FrameResult DEF Publishing
<1>6. ASSUME NEW w \in Workers, Xack(w) PROVE ResultInv'
  <2>1. /\ link' = [link EXCEPT ![w] = IF stage[w] = "ok" THEN "publish_result"
                                                          ELSE "publish_status"]
        /\ UNCHANGED <<stage, job, statusKey, resultKey, reader, mishaps>>
    BY Zenon, <1>6 DEF Xack, execVars, keyVars
  <2>2. \A v \in Workers :
          /\ link'[v] = "publish_result" => stage[v] = "ok"
          /\ link'[v] = "publish_status" /\ stage[v] = "ok" =>
               link[v] = "publish_status"
    BY <1>1, <2>1 DEF ResultInv
  <2>3. \A j \in Jobs : ResultAhead(j) => ResultAhead(j)'
    BY Zenon, <2>1, <2>2 DEF ResultAhead
  <2> QED
    BY Zenon, <2>1, <2>2, <2>3 DEF ResultInv
<1>7. ASSUME NEW w \in Workers, XackFails(w) \/ WorkerCrash(w) PROVE ResultInv'
  <2>1. /\ \E s \in {"idle", "down"} : stage' = [stage EXCEPT ![w] = s]
        /\ link' = [link EXCEPT ![w] = "ready"] \/ UNCHANGED link
        /\ job' = [job EXCEPT ![w] = NoJob]
        /\ UNCHANGED <<statusKey, resultKey, reader>>
        /\ UNCHANGED mishaps \/ Mishap
        /\ UNCHANGED link => link[w] = "ready"
    BY Zenon, <1>1, <1>7 DEF XackFails, Release, WorkerCrash, Crash, keyVars
  <2>2. \A v \in Workers : Publishing(v)' =>
          link'[v] = link[v] /\ stage'[v] = stage[v] /\ job'[v] = job[v]
    BY Zenon, <1>1, <2>1 DEF Publishing
  <2> QED
    BY <1>2, <2>1, <2>2, FrameResult DEF Publishing
<1>8. ASSUME NEW w \in Workers,
             ExecuteStep(w) \/ HandlerOk(w) \/ HandlerErr(w)
               \/ \E j \in Jobs : BlockingWorkEnds(w, j),
             UNCHANGED pipeVars
      PROVE  ResultInv'
  <2>1. UNCHANGED <<submit, stream, handed, link, statusKey, resultKey, reader,
                    mishaps>>
    BY <1>8 DEF pipeVars, queueVars, keyVars
  <2>2. StartMove(w) \/ InsideMove(w) \/ UNCHANGED Others
    BY Zenon, <1>8, <2>1, InsideSteps
  <2>3. job' = job /\ \A v \in Workers : stage[v] \in {"ok", "err"} => stage'[v] = stage[v]
    BY <1>1, <2>2 DEF StartMove, InsideMove, Others
  <2>4. \A v \in Workers : Publishing(v)' => stage'[v] = stage[v]
    BY Zenon, <1>1, <2>1, <2>3 DEF HandFollowsLink, Publishing
  <2> QED
    BY <2>1, <2>3, <2>4, FrameResult DEF Publishing
<1>9. ASSUME NEW w \in Workers, WorkerRestart(w) PROVE ResultInv'
  <2>1. /\ stage[w] = "down" /\ stage' = [stage EXCEPT ![w] = "idle"]
        /\ UNCHANGED <<job, link, statusKey, resultKey, reader, mishaps>>
    BY <1>9 DEF WorkerRestart, Restart, pipeVars, queueVars, keyVars
  <2>2. \A v \in Workers : Publishing(v)' => stage'[v] = stage[v]
    BY <1>1, <2>1 DEF HandFollowsLink, Publishing
  <2> QED
    BY Zenon, <2>1, <2>2, FrameResult DEF Publishing
<1>10. CASE UNCHANGED vars
  <2>1. UNCHANGED <<stage, job, link, statusKey, resultKey, reader, mishaps>>
    BY <1>10 DEF vars, execVars, pipeVars, queueVars, keyVars
  <2> QED
    BY <2>1, FrameResult
<1> QED
  BY <1>1, <1>3, <1>4, <1>5, <1>6, <1>7, <1>8, <1>9, <1>10, PublishResultStep,
     PublishStatusStep, RequestResultStep
  DEF Next, LoopStep, HandlerStep

-----------------------------------------------------------------------------
\* Work is left behind by the start of a handler only.
LEMMA LeftFromStart ==
  ASSUME ExecInv, [ExecNext]_execVars
  PROVE  \A w \in Workers : \A j \in Left(w)' :
           j \in Left(w) \/ (j \in Jobs /\ job'[w] = j /\ starts'[j] > 0)
<1> DEFINE Goal == \A w \in Workers : \A j \in Left(w)' :
             j \in Left(w) \/ (j \in Jobs /\ job'[w] = j /\ starts'[j] > 0)
<1>0. /\ working \in [Workers -> SUBSET Jobs]
      /\ cleanupDue \in [Workers -> SUBSET Jobs]
      /\ starts \in [Jobs -> Nat]
      /\ job \in [Workers -> Jobs \cup {NoJob}]
      /\ JobFollowsStage
  BY DEF ExecInv, ExecTypeOK
<1>1. ASSUME NEW w \in Workers, StartHandler(w) PROVE Goal
  <2>1. job[w] \in Jobs
    BY <1>0, <1>1 DEF StartHandler, JobFollowsStage
  <2>2. starts'[job[w]] > 0 /\ job' = job
    <3>1. starts' = [starts EXCEPT ![job[w]] = @ + 1] /\ job' = job
      BY <1>1 DEF StartHandler
    <3> QED
      BY SMTT(20), <1>0, <2>1, <3>1
  <2>3. \A v \in Workers : Left(v)' \subseteq Left(v) \cup
                             (IF v = w THEN {job[w]} ELSE {})
    BY <1>0, <1>1 DEF StartHandler, Left
  <2> QED
    BY Zenon, <2>1, <2>2, <2>3
<1>2. ASSUME NEW w \in Workers,
             \/ HandlerOk(w) \/ HandlerErr(w) \/ Crash(w)
             \/ \E j \in Jobs : BlockingWorkEnds(w, j)
      PROVE  Goal
  <2>1. /\ \/ UNCHANGED working
           \/ \E W \in SUBSET working[w] : working' = [working EXCEPT ![w] = W]
        /\ \/ UNCHANGED cleanupDue
           \/ \E C \in SUBSET cleanupDue[w] :
                cleanupDue' = [cleanupDue EXCEPT ![w] = C]
    BY Zenon, <1>2
    DEF HandlerOk, HandlerErr, HandlerReturns, Crash, BlockingWorkEnds
  <2>2. \A v \in Workers :
          working'[v] \subseteq working[v] /\ cleanupDue'[v] \subseteq cleanupDue[v]
    BY <1>0, <2>1
  <2> QED
    BY <2>2 DEF Left
<1>3. ASSUME NEW w \in Workers,
             \/ \E j \in Jobs : Receive(w, j)
             \/ CacheHit(w) \/ CacheMiss(w) \/ ValidateFails(w)
             \/ ValidateOk(w) \/ HandlerTimeout(w) \/ SaveSuccess(w)
             \/ SaveFailure(w) \/ SaveFails(w) \/ Release(w) \/ Restart(w)
      PROVE  UNCHANGED <<working, cleanupDue>>
  BY ZenonT(40), <1>3 DEF Receive, CacheHit, CacheMiss, ValidateFails, ValidateOk,
    HandlerTimeout, SaveSuccess, SaveFailure, SaveFails, Release, Restart
<1>4. CASE UNCHANGED <<working, cleanupDue>>
  BY <1>4 DEF Left
<1>5. CASE UNCHANGED execVars
  BY Zenon, <1>4, <1>5 DEF execVars
<1> QED
  BY Zenon, <1>1, <1>2, <1>3, <1>4, <1>5 DEF ExecNext, ExecStep, ExecuteStep

\* A worker comes to hold a job by taking it from the stream only, and a start
\* is never taken back.
LEMMA MovesHold ==
  ASSUME PlaceInv, AnyMove
  PROVE  \A j \in Jobs :
           /\ starts'[j] >= starts[j]
           /\ \A v \in Workers : Holds(v, j)' => Holds(v, j) \/ InStream(j)
<1> DEFINE Goal ==
      \A j \in Jobs :
        /\ starts'[j] >= starts[j]
        /\ \A v \in Workers : Holds(v, j)' => Holds(v, j) \/ InStream(j)
<1>1. /\ PlaceTypes /\ HandOrJob
      /\ starts \in [Jobs -> Nat]
      /\ stream \in Seq(Jobs)
      /\ NoJob \notin Jobs
  BY ZenonT(40), ExecutorAssumption DEF PlaceInv, PlaceTypes
<1>2. CASE UNCHANGED <<handed, job, starts>>
  BY <1>1, <1>2 DEF Holds
<1>3. ASSUME NEW w \in Workers, TakeMove(w) PROVE Goal
  <2>1. InStream(Head(stream))
    <3>1. stream # <<>>
      BY <1>3 DEF TakeMove
    <3>2. 1 \in DOMAIN stream /\ Head(stream) = stream[1]
      BY <1>1, <3>1
    <3> QED
      BY <3>2 DEF InStream
  <2>2. /\ UNCHANGED <<job, starts>>
        /\ UNCHANGED handed \/ handed' = [handed EXCEPT ![w] = Head(stream)]
    BY <1>3 DEF TakeMove
  <2>3. \A v \in Workers : handed'[v] = handed[v] \/ handed'[v] = Head(stream)
    BY <1>1, <2>2 DEF PlaceTypes
  <2>4. \A j \in Jobs : starts'[j] >= starts[j]
    BY SMTT(20), <1>1, <2>2
  <2>5. \A v \in Workers, j \in Jobs : Holds(v, j)' => Holds(v, j) \/ InStream(j)
    BY Zenon, <2>1, <2>2, <2>3 DEF Holds
  <2> QED
    BY Zenon, <2>4, <2>5
<1>4. ASSUME NEW w \in Workers, ReceiveMove(w) \/ DropMove(w) PROVE Goal
  <2>1. starts' = starts
    BY <1>4 DEF ReceiveMove, DropMove
  <2>2. \A v \in Workers :
          /\ handed'[v] = handed[v] \/ handed'[v] = NoJob
          /\ job'[v] \in {job[v], handed[v], NoJob}
    <3>1. /\ job \in [Workers -> Jobs \cup {NoJob}]
          /\ handed \in [Workers -> Jobs \cup {NoJob}]
      BY <1>1 DEF PlaceTypes
    <3>2. /\ UNCHANGED handed \/ handed' = [handed EXCEPT ![w] = NoJob]
          /\ \E k \in {handed[w], NoJob} : job' = [job EXCEPT ![w] = k]
      BY <1>4 DEF ReceiveMove, DropMove
    <3> QED
      BY <3>1, <3>2
  <2>3. \A j \in Jobs : starts'[j] >= starts[j]
    BY <1>1, <2>1
  <2>4. \A v \in Workers, j \in Jobs : Holds(v, j)' => Holds(v, j)
    BY Zenon, <1>1, <2>2 DEF Holds
  <2> QED
    BY <2>3, <2>4
<1>5. ASSUME NEW w \in Workers, StartMove(w) PROVE Goal
  <2>1. \A j \in Jobs : starts'[j] >= starts[j]
    <3>1. starts' = [starts EXCEPT ![job[w]] = @ + 1]
      BY Zenon, <1>5 DEF StartMove
    <3> QED
      BY <1>1, <3>1
  <2>2. UNCHANGED <<handed, job>>
    BY Zenon, <1>5 DEF StartMove
  <2> QED
    BY <2>1, <2>2 DEF Holds
<1> QED
  BY Zenon, <1>2, <1>3, <1>4, <1>5
  DEF AnyMove, AddMove, SubmitMove, InsideMove, Others

\* What is left behind stays with the one worker that started it.
LEMMA LeftOwnedStep ==
  ASSUME ExecInv, PlaceInv, PlaceInv', LeftOwned, AnyMove, [ExecNext]_execVars
  PROVE  LeftOwned'
<1> SUFFICES ASSUME NEW w \in Workers, NEW j \in Left(w)'
             PROVE  starts'[j] > 0 /\ \A v \in Workers : Holds(v, j)' => v = w
  BY Zenon DEF LeftOwned
<1>1. CASE j \in Left(w)
  <2>1. j \in Jobs /\ starts \in [Jobs -> Nat]
    BY Zenon, <1>1 DEF Left, ExecInv, ExecTypeOK
  <2>2. starts[j] > 0 /\ \A v \in Workers : Holds(v, j) => v = w
    BY Zenon, <1>1 DEF LeftOwned
  <2>3. ~InStream(j)
    <3>1. OnePlace
      BY DEF PlaceInv
    <3> QED
      BY <2>1, <2>2, <3>1 DEF OnePlace
  <2>4. /\ starts'[j] >= starts[j]
        /\ \A v \in Workers : Holds(v, j)' => Holds(v, j)
    BY <2>1, <2>3, MovesHold
  <2>5. starts'[j] \in Nat
    BY <2>1 DEF PlaceInv, PlaceTypes
  <2>6. starts'[j] > 0
    BY <2>1, <2>2, <2>4, <2>5
  <2> QED
    BY Zenon, <2>2, <2>4, <2>6
<1>2. CASE j \in Jobs /\ job'[w] = j /\ starts'[j] > 0
  BY Zenon, <1>2 DEF PlaceInv, OnePlace, Holds
<1> QED
  BY <1>1, <1>2, LeftFromStart

-----------------------------------------------------------------------------
\* The inductive invariant.
StatusInv ==
  /\ PipeInv
  /\ VerdictInv
  /\ PelInv
  /\ LiveInv
  /\ FileInv
  /\ ResultInv
  /\ LeftOwned
  /\ LeftInv
  /\ OkMeansSaved
  /\ StatusTruthful

\* It holds before the first job is submitted.
LEMMA StatusInitInv == Init => StatusInv
<1> SUFFICES ASSUME Init PROVE StatusInv
  OBVIOUS
<1>1. PipeInv
  BY Zenon, PipeInitInv
<1>2. VerdictInv
  BY ExecutorAssumption DEF Init, ExecInit, VerdictInv
<1>3. PelInv
  <2>1. \A w \in Workers, j \in Jobs : ~Holds(w, j)
    BY ExecutorAssumption DEF Init, ExecInit, Holds
  <2>2. \A j \in Jobs : ~(starts[j] > 0)
    <3>1. starts = [j \in Jobs |-> 0]
      BY Zenon DEF Init, ExecInit
    <3> QED
      BY <3>1
  <2>3. pel = {} /\ \A w \in Workers : pending[w] = {}
    BY DEF Init
  <2> QED
    BY Zenon, <2>1, <2>2, <2>3 DEF PelInv
<1>4. LiveInv /\ FileInv
  BY Zenon DEF Init, ExecInit, LiveInv, Idle, FileInv
<1>5. ResultInv
  BY Zenon DEF Init, ExecInit, Idle, ResultInv, ResultAhead
<1>6. LeftOwned /\ LeftInv /\ OkMeansSaved
  BY DEF Init, ExecInit, LeftOwned, LeftInv, Left, OkMeansSaved
<1>7. StatusTruthful
  BY Zenon DEF Init, ExecInit, Idle, StatusTruthful
<1> QED
  BY <1>1, <1>2, <1>3, <1>4, <1>5, <1>6, <1>7 DEF StatusInv

\* Every step keeps it.
LEMMA StatusInvStep == StatusInv /\ [Next]_vars => StatusInv'
<1> SUFFICES ASSUME StatusInv, [Next]_vars PROVE StatusInv'
  OBVIOUS
<1>1. /\ TypeOK /\ ExecInv /\ HandFollowsLink /\ PlaceInv
      /\ VerdictInv /\ PelInv /\ LiveInv /\ FileInv /\ ResultInv
      /\ LeftOwned /\ LeftInv /\ OkMeansSaved /\ StatusTruthful
  BY DEF StatusInv, PipeInv
<1>2. LinkInv /\ ExecTypeOK
  BY <1>1 DEF LinkInv, LinkTypes, TypeOK, QueueTypeOK
<1>3. PipeInv'
  BY PipeInvStep DEF StatusInv
<1>4. PlaceInv'
  BY <1>3 DEF PipeInv
<1>5. /\ [ExecNext]_execVars
      /\ AnyMove
      /\ (\E w \in Workers : ReturnMove(w)) \/ QuietMove
  BY <1>1, PipelineStepIsExecStep, StepsAreMoves, StepsGiveVerdict
<1>6. VerdictInv'
  BY <1>1, <1>2, <1>5, VerdictStep
<1>7. PelInv'
  BY <1>1, <1>2, PelStep
<1>8. LiveInv'
  BY <1>1, LiveStep
<1>9. FileInv'
  BY <1>1, <1>5, FileStep
<1>10. ResultInv'
  BY <1>1, <1>2, ResultStep
<1>11. LeftOwned'
  BY <1>1, <1>4, <1>5, LeftOwnedStep
<1>12. SoleHolder
  BY Zenon, <1>1 DEF LeftOwned, SoleHolder, Holds
<1>13. JobsExclusive
  BY <1>1 DEF PlaceInv, OnePlace, Holds, JobsExclusive
<1>14. LeftInv' /\ OkMeansSaved'
  BY <1>1, <1>5, <1>12, <1>13, ExecLeftStep, ExecOkStep
<1>15. StatusTruthful'
  BY <1>1, <1>2, <1>5, TruthStep
<1> QED
  BY <1>3, <1>6, <1>7, <1>8, <1>9, <1>10, <1>11, <1>14, <1>15 DEF StatusInv

\* Every reachable state of the pipeline satisfies it.
THEOREM StatusInvariant == Spec => []StatusInv
<1> QED
  BY StatusInitInv, StatusInvStep, PTL DEF Spec

\* An entry is pending exactly while it is worked on, but for faults, which may
\* leave it pending and never lose it, for any number of workers.
THEOREM PendingEntriesExact == Spec => []PendingIsExact
<1>1. StatusInv => PendingIsExact
  <2> SUFFICES ASSUME StatusInv PROVE PendingIsExact
    OBVIOUS
  <2>1. PelInv /\ VerdictInv /\ HandFollowsLink /\ PlaceInv
    BY DEF StatusInv, PipeInv
  <2>2. ASSUME NEW j \in Jobs, NEW w \in Workers, Holds(w, j), verdict[j] = "none"
        PROVE  InPel(j)
    <3>1. ~Publishing(w)
      <4> SUFFICES ASSUME Publishing(w) PROVE FALSE
        OBVIOUS
      <4>1. stage[w] \in {"ok", "err"} /\ handed[w] = NoJob
        BY Zenon, <2>1 DEF Publishing, HandFollowsLink
      <4>2. job[w] = j
        BY ZenonT(40), <2>2, <4>1, ExecutorAssumption DEF Holds
      <4> QED
        BY Zenon, <2>1, <2>2, <4>1, <4>2 DEF VerdictInv
    <3> QED
      BY Zenon, <2>1, <2>2, <3>1 DEF PelInv, InPel
  <2>3. UnfinishedStaysPending
    BY <2>1, <2>2 DEF UnfinishedStaysPending, PelInv
  <2>4. OrphanedOnlyByFault
    BY Zenon, <2>1 DEF OrphanedOnlyByFault, Orphan, InPel, PelInv
  <2> QED
    BY <2>3, <2>4 DEF PendingIsExact
<1> QED
  BY <1>1, StatusInvariant, PTL

\* The transport's id map holds nothing but the job in hand, on every path
\* through ack_job and nack_job.
THEOREM PendingMapStaysBounded == Spec => []PendingMapBounded
<1>1. StatusInv => PendingMapBounded
  BY Zenon DEF StatusInv, PelInv, PendingMapBounded
<1> QED
  BY <1>1, StatusInvariant, PTL

\* No status key, row or answer ever claims an outcome other than the one
\* execute() returned.
THEOREM StatusesAreTruthful == Spec => []StatusTruthful
<1>1. StatusInv => StatusTruthful
  BY DEF StatusInv
<1> QED
  BY <1>1, StatusInvariant, PTL

\* A client told that its job is completed has the result, and no later request
\* takes completed_at back.
THEOREM CompletionIsFinal == Spec => CompletedIsFinal
<1>1. StatusInv => CompletedComesWithResult
  <2> SUFFICES ASSUME StatusInv, NEW r \in Readers,
                      reader[r].at = "answered", reader[r].live = "completed",
                      mishaps = 0, KeyOf[reader[r].job] = NoKey
               PROVE  reader[r].result = "completed"
    BY Zenon DEF CompletedComesWithResult
  <2>1. ResultInv /\ LiveInv
    BY ZenonT(40) DEF StatusInv
  <2>2. reader[r].job \in Jobs
    BY ZenonT(40), <2>1 DEF LiveInv
  <2>3. ResultAhead(reader[r].job)
    BY Zenon, <2>1, <2>2 DEF ResultInv
  <2> QED
    BY Zenon, <2>3 DEF ResultAhead
<1>2. StatusInv /\ [Next]_vars =>
        [\A j \in Jobs : completedAt[j] => completedAt'[j]]_vars
  <2> SUFFICES ASSUME StatusInv, Next, NEW j \in Jobs, completedAt[j]
               PROVE  completedAt'[j]
    BY DEF vars
  <2>1. completedAt \in [Jobs -> BOOLEAN]
    BY DEF StatusInv, PipeInv, TypeOK, StoreTypeOK
  <2>2. CASE UNCHANGED completedAt
    BY <2>2
  <2>3. ASSUME NEW r \in Readers, SyncRow(r) PROVE completedAt'[j]
    BY ZenonT(40), <2>1, <2>3 DEF SyncRow, dbVars
  <2>4. ASSUME NEW k \in Jobs, SubmitStep(k) \/ Expire(k)
        PROVE  UNCHANGED completedAt
    BY <2>4 DEF SubmitStep, EnqueueAdd, EnqueueAnnounce, InsertRow, SubmitVars,
                Expire, dbVars
  <2>5. ASSUME NEW w \in Workers,
               \/ Fetch(w) \/ FetchFails(w) \/ Announce(w) \/ Xack(w)
               \/ XackFails(w) \/ PublishResult(w) \/ PublishStatus(w)
               \/ WorkerCrash(w) \/ UNCHANGED pipeVars
        PROVE  UNCHANGED completedAt
    BY Zenon, <2>5 DEF Fetch, FetchFails, FetchVars, Announce, Xack, XackFails,
                PublishResult, PublishStatus, WorkerCrash, pipeVars, dbVars
  <2>6. ASSUME NEW r \in Readers,
               ReadLive(r) \/ ReadStatus(r) \/ ReadResult(r) \/ NextRequest(r)
                 \/ \E k \in Jobs : SelectRow(r, k)
        PROVE  UNCHANGED completedAt
    BY Zenon, <2>6 DEF ReadLive, ReadStatus, ReadResult, NextRequest, SelectRow, dbVars
  <2> QED
    BY <2>2, <2>3, <2>4, <2>5, <2>6
    DEF Next, LoopStep, HandlerStep, WorkerRestart, ReaderStep
<1> QED
  BY <1>1, <1>2, StatusInvariant, PTL
  DEF Spec, CompletedIsFinal, CompletedAtSticks

\* With any number of workers behind the queue, blocking work and cleanups
\* outlive their handler only after a timeout.
THEOREM PipelineLeavesByTimeout == Spec => []LeftBehindOnlyByTimeout
<1>1. StatusInv => LeftBehindOnlyByTimeout
  BY Zenon DEF StatusInv, LeftInv, Left, LeftBehindOnlyByTimeout
<1> QED
  BY <1>1, StatusInvariant, PTL

\* With any number of workers behind the queue, Ok goes with a saved or
\* remembered result, and nobody overwrites a remembered one.
THEOREM PipelineKeepsResults == Spec => ResultsAreKept
<1>1. StatusInv => OkMeansSaved
  BY DEF StatusInv
<1>2. StatusInv /\ [Next]_vars =>
        [\A w \in Workers : \A j \in Jobs :
            /\ resultFile[j] = "completed"
            /\ KeyOf[j] \in cache[w]
            => resultFile'[j] = "completed"]_execVars
  <2> SUFFICES ASSUME StatusInv, [Next]_vars, NEW j \in Jobs,
                      resultFile[j] = "completed"
               PROVE  resultFile'[j] = "completed"
    OBVIOUS
  <2>1. FileWritten
    BY PipelineStepIsExecStep, ExecFileWritten DEF StatusInv, PipeInv
  <2>2. verdict[j] = "ok"
    BY Zenon DEF StatusInv, FileInv
  <2>3. \A w \in Workers : job[w] = j => stage[w] \notin {"saving_ok", "saving_err"}
    BY Zenon, <2>2 DEF StatusInv, VerdictInv
  <2> QED
    BY Zenon, <2>1, <2>3 DEF FileWritten
<1> QED
  BY <1>1, <1>2, StatusInvariant, PTL
  DEF Spec, ResultsAreKept, CachedResultStable

=============================================================================
