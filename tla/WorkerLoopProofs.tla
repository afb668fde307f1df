-------------------------- MODULE WorkerLoopProofs --------------------------
(***************************************************************************)
(* Proofs about the worker's loop over the file and the HTTP transport, for  *)
(* any jobs, submissions, crashes and failing renames.                      *)
(***************************************************************************)
EXTENDS WorkerLoop, FiniteSetTheorems, TLAPS

Places(q, j) == {i \in 1 .. Len(q) : q[i] = j}
InQueue(j) == \E i \in 1 .. Len(queue) : queue[i] = j

\* What the loop holds, and that the transport not in use is not touched.
HeldInv ==
  /\ verdict # "none" => current \in Jobs /\ runs[current] > 0
  /\ using = "file" => submits = [j \in Jobs |-> 0]
  /\ using = "http" => watching = "off"
  /\ using = "file" /\ current \in Jobs => watching = "on" /\ place[current] = "watch"

\* A file the watcher has seen, complete or not, is announced, or was run, or lost its
\* path in one of two ways.
CoverInv ==
  watching # "off" =>
    \A j \in Jobs : place[j] \in {"writing", "watch"} =>
      j \in toScan \/ InChannel(j) \/ current = j \/ runs[j] > 0 \/ j \in early \cup silent

\* A file that was run is in the loop still, or moved away for good.
FileRunsInv ==
  using = "file" =>
    \A j \in Jobs \ stayed :
      \/ runs[j] = 0
      \/ /\ runs[j] = 1
         /\ (current = j /\ verdict # "none") \/ place[j] \in {"done", "failed"}

\* Before a job is submitted again its entry, if it has one, tells its place; while the
\* submission waits for the map nobody takes the job.
StatusFits(j) ==
  submits[j] <= 1 =>
    /\ statusMap[j] # "none" => /\ statusMap[j] = "pending" <=> InQueue(j)
                                /\ statusMap[j] = "assigned" <=> current = j
    /\ j \in submitting => InQueue(j) /\ current # j
    /\ submits[j] = 0 =>
         statusMap[j] = "none" /\ ~InQueue(j) /\ current # j /\ j \notin submitting
    /\ \A i, k \in 1 .. Len(queue) : queue[i] = j /\ queue[k] = j => i = k

StatusInv == using = "http" => \A j \in Jobs : StatusFits(j)

\* Each submission is waiting, about to run, or has been run.
Waiting(j) == Cardinality(Places(queue, j))
Due(j) == IF current = j /\ verdict = "none" THEN 1 ELSE 0

HttpRunsInv ==
  using = "http" => \A j \in Jobs : runs[j] + Due(j) + Waiting(j) <= submits[j]

LoopInv ==
  TypeOK /\ HeldInv /\ CoverInv /\ FileRunsInv /\ StatusInv /\ HttpRunsInv

-----------------------------------------------------------------------------
\* What appending to a queue and taking its head do to the places of a job.
LEMMA PlacesFinite ==
  ASSUME NEW S, NEW q \in Seq(S), NEW j
  PROVE  IsFiniteSet(Places(q, j)) /\ Cardinality(Places(q, j)) \in Nat
<1>1. IsFiniteSet(1 .. Len(q))
  BY FS_Interval
<1>2. Places(q, j) \subseteq 1 .. Len(q)
  BY DEF Places
<1>3. IsFiniteSet(Places(q, j))
  BY <1>1, <1>2, FS_Subset
<1> QED
  BY <1>3, FS_CardinalityType

\* A submission adds one place of its own job.
LEMMA PlacesAppend ==
  ASSUME NEW S, NEW q \in Seq(S), NEW x \in S, NEW j
  PROVE  Cardinality(Places(Append(q, x), j)) =
           Cardinality(Places(q, j)) + IF x = j THEN 1 ELSE 0
<1>1. /\ Len(Append(q, x)) = Len(q) + 1 /\ Len(q) \in Nat
      /\ \A i \in 1 .. Len(q) : Append(q, x)[i] = q[i]
      /\ Append(q, x)[Len(q) + 1] = x
  OBVIOUS
<1>2. CASE x = j
  <2>1. Places(Append(q, x), j) = Places(q, j) \cup {Len(q) + 1}
    BY <1>1, <1>2 DEF Places
  <2>2. Len(q) + 1 \notin Places(q, j)
    BY <1>1 DEF Places
  <2>3. Cardinality(Places(q, j) \cup {Len(q) + 1}) = Cardinality(Places(q, j)) + 1
    BY Zenon, <2>2, PlacesFinite, FS_AddElement
  <2> QED
    BY <1>2, <2>1, <2>3
<1>3. CASE x # j
  <2>1. Places(Append(q, x), j) = Places(q, j)
    BY <1>1, <1>3 DEF Places
  <2> QED
    BY <1>3, <2>1, PlacesFinite
<1> QED
  BY <1>2, <1>3

\* Taking the head of the queue removes one place of its job.
LEMMA PlacesTail ==
  ASSUME NEW S, NEW q \in Seq(S), q # <<>>, NEW j
  PROVE  Cardinality(Places(q, j)) =
           Cardinality(Places(Tail(q), j)) + IF Head(q) = j THEN 1 ELSE 0
<1> DEFINE t == Tail(q)
           rest == Places(q, j) \ {1}
           f == [i \in Places(t, j) |-> i + 1]
<1>1. /\ Len(q) \in Nat /\ Len(q) >= 1 /\ Len(t) = Len(q) - 1
      /\ \A i \in 1 .. Len(t) : t[i] = q[i + 1]
      /\ q[1] = Head(q) /\ t \in Seq(S)
  OBVIOUS
<1>2. f \in Bijection(Places(t, j), rest)
  <2>1. f \in [Places(t, j) -> rest]
    BY <1>1 DEF Places
  <2>2. \A a, b \in Places(t, j) : f[a] = f[b] => a = b
    BY <1>1 DEF Places
  <2>3. \A y \in rest : \E a \in Places(t, j) : f[a] = y
    <3> SUFFICES ASSUME NEW y \in rest PROVE \E a \in Places(t, j) : f[a] = y
      OBVIOUS
    <3>1. y \in Int /\ y - 1 \in 1 .. Len(t) /\ t[y - 1] = q[y] /\ q[y] = j
      BY <1>1 DEF Places
    <3>2. y - 1 \in Places(t, j)
      BY <3>1 DEF Places
    <3>3. f[y - 1] = (y - 1) + 1
      BY <3>2
    <3>4. f[y - 1] = y
      BY <3>1, <3>3
    <3> QED
      BY <3>2, <3>4
  <2> QED
    BY <2>1, <2>2, <2>3 DEF Bijection, Injection, Surjection, IsInjective
<1>3. IsFiniteSet(rest) /\ Cardinality(rest) = Cardinality(Places(t, j))
  <2>1. IsFiniteSet(Places(t, j))
    BY Zenon, <1>1, PlacesFinite
  <2>2. ExistsBijection(Places(t, j), rest)
    BY Zenon, <1>2 DEF ExistsBijection
  <2> HIDE DEF f, t, rest
  <2> QED
    BY <2>1, <2>2, FS_Bijection
<1>4. CASE Head(q) = j
  <2>1. Places(q, j) = rest \cup {1} /\ 1 \notin rest
    BY <1>1, <1>4 DEF Places
  <2>2. Cardinality(rest \cup {1}) = Cardinality(rest) + 1
    BY <1>3, <2>1, FS_AddElement
  <2> QED
    BY Zenon, <1>3, <1>4, <2>1, <2>2
<1>5. CASE Head(q) # j
  <2>1. Places(q, j) = rest
    BY <1>1, <1>5 DEF Places
  <2>2. Cardinality(Places(t, j)) \in Nat
    BY Zenon, <1>1, PlacesFinite
  <2>3. Cardinality(Places(q, j)) = Cardinality(Places(t, j))
    BY Zenon, <1>3, <2>1
  <2> QED
    BY <1>5, <2>2, <2>3
<1> QED
  BY <1>4, <1>5

-----------------------------------------------------------------------------
\* The worker starts with empty queues.
LEMMA LoopInitInv == Init => LoopInv
<1> SUFFICES ASSUME Init PROVE LoopInv
  OBVIOUS
<1>1. TypeOK
  BY LoopAssumption DEF Init, TypeOK, FileInit, FileTypeOK, HttpInit, HttpTypeOK
<1>2. HeldInv /\ CoverInv /\ FileRunsInv
  BY LoopAssumption DEF Init, FileInit, HttpInit, HeldInv, CoverInv, FileRunsInv
<1>3. /\ Len(queue) = 0 /\ current = NoJob /\ submitting = {}
      /\ \A j \in Jobs : statusMap[j] = "none"
  BY LoopAssumption DEF Init, HttpInit
<1>4. StatusInv
  BY <1>3, LoopAssumption DEF StatusInv, StatusFits, InQueue
<1>5. \A j \in Jobs : Waiting(j) = 0 /\ Due(j) = 0 /\ runs[j] = 0 /\ submits[j] = 0
  <2>1. \A j \in Jobs : Places(queue, j) = {}
    BY <1>3 DEF Places
  <2>2. \A j \in Jobs : Due(j) = 0
    BY <1>3, LoopAssumption DEF Due
  <2>3. \A j \in Jobs : runs[j] = 0 /\ submits[j] = 0
    BY LoopAssumption DEF Init, HttpInit
  <2> QED
    BY <2>1, <2>2, <2>3, FS_EmptySet DEF Waiting
<1>6. HttpRunsInv
  BY <1>5 DEF HttpRunsInv
<1> QED
  BY <1>1, <1>2, <1>4, <1>6 DEF LoopInv

\* The state keeps its type.
LEMMA LoopTypeStep == LoopInv /\ [Next]_vars => TypeOK'
<1> SUFFICES ASSUME LoopInv, [Next]_vars PROVE TypeOK'
  OBVIOUS
<1>1. TypeOK /\ HeldInv /\ Ids = Jobs /\ NoJob \notin Jobs
      /\ MaxSubmits \in Nat /\ MaxMishaps \in Nat /\ MaxCrashes \in Nat
  BY LoopAssumption DEF LoopInv
<1>2. CASE StartUp
  <2>1. /\ place' = place /\ misnamed' = misnamed /\ UNCHANGED historyVars
        /\ watching' \in {"scan", "on"}
    BY <1>2 DEF StartUp, Open, Scan, historyVars
  <2>2. toScan' \subseteq Jobs /\ paths' \in Seq(Jobs)
    <3>1. CASE Open
      BY <1>1, <3>1 DEF Open, Present, TypeOK, FileTypeOK
    <3>2. CASE Scan
      <4>1. CASE UNCHANGED <<toScan, paths>>
        BY <1>1, <4>1 DEF TypeOK, FileTypeOK
      <4>2. ASSUME NEW j \in toScan, toScan' = toScan \ {j}, paths' = Append(paths, j)
            PROVE  toScan' \subseteq Jobs /\ paths' \in Seq(Jobs)
        <5>1. j \in Jobs /\ toScan \subseteq Jobs /\ paths \in Seq(Jobs)
          BY <1>1 DEF TypeOK, FileTypeOK
        <5> QED
          BY <4>2, <5>1
      <4> QED
        BY <3>2, <4>1, <4>2 DEF Scan
    <3> QED
      BY <1>2, <3>1, <3>2 DEF StartUp
  <2>3. FileTypeOK'
    BY <1>1, <2>1, <2>2 DEF TypeOK, FileTypeOK, historyVars
  <2> QED
    BY <1>1, <1>2, <2>3 DEF StartUp, TypeOK, HttpTypeOK, httpVars, loopVars
<1>3. CASE Fetch
  <2>0. PICK j \in Jobs :
          \/ using = "file" /\ FileFetch(j) /\ UNCHANGED httpVars
          \/ using = "http" /\ HttpFetch(j) /\ UNCHANGED fileVars
    BY <1>3 DEF Fetch
  <2>1. FileTypeOK'
    <3>0. paths \in Seq(Jobs) /\ (paths' = paths \/ (paths # <<>> /\ paths' = Tail(paths)))
      BY <1>1, <2>0 DEF FileFetch, TypeOK, FileTypeOK, fileVars
    <3>1. paths' \in Seq(Jobs)
      BY <3>0
    <3> QED
      BY <1>1, <2>0, <3>1 DEF FileFetch, TypeOK, FileTypeOK, fileVars, historyVars
  <2>2. HttpTypeOK'
    <3>0. queue \in Seq(Ids) /\ (queue' = queue \/ (queue # <<>> /\ queue' = Tail(queue)))
      BY <1>1, <2>0 DEF HttpFetch, TypeOK, HttpTypeOK, httpVars
    <3>1. queue' \in Seq(Ids)
      BY <3>0
    <3> QED
      BY <1>1, <2>0, <3>1 DEF HttpFetch, SetStatus, TypeOK, HttpTypeOK, httpVars
  <2> QED
    BY <1>1, <1>3, <2>1, <2>2 DEF Fetch, TypeOK
<1>4. CASE FetchError
  <2>1. FileTypeOK'
    BY <1>1, <1>4 DEF FetchError, FileFetchFails, TypeOK, FileTypeOK
  <2> QED
    BY <1>1, <1>4, <2>1 DEF FetchError, TypeOK, HttpTypeOK, httpVars, loopVars
<1>5. CASE Execute
  BY <1>1, <1>5 DEF Execute, TypeOK, FileTypeOK, HttpTypeOK, fileVars, historyVars, httpVars
<1>6. CASE Acknowledge
  <2>1. current \in Jobs
    BY <1>1, <1>6 DEF Acknowledge, HeldInv
  <2>2. FileTypeOK'
    BY <1>1, <1>6, <2>1 DEF Acknowledge, MoveTo, TypeOK, FileTypeOK, fileVars, historyVars
  <2>3. HttpTypeOK'
    BY <1>1, <1>6, <2>1 DEF Acknowledge, Settle, SetStatus, TypeOK, HttpTypeOK, httpVars
  <2>4. mishaps' \in 0 .. MaxMishaps
    <3>1. mishaps \in 0 .. MaxMishaps
      BY <1>1 DEF TypeOK
    <3>2. mishaps' = mishaps \/ (mishaps < MaxMishaps /\ mishaps' = mishaps + 1)
      BY Zenon, <1>6 DEF Acknowledge
    <3> QED
      BY <1>1, <3>1, <3>2
  <2> QED
    BY <1>1, <1>6, <2>2, <2>3, <2>4 DEF Acknowledge, TypeOK
<1>7. CASE Crash
  <2>1. FileTypeOK' /\ HttpTypeOK'
    BY <1>1, <1>7 DEF Crash, FileRestart, HttpRestart, TypeOK, FileTypeOK, HttpTypeOK
  <2> QED
    BY <1>1, <1>7, <2>1 DEF Crash, TypeOK
<1>8. ASSUME NEW j \in Jobs, Produce(j) PROVE TypeOK'
  <2>1. FileTypeOK'
    <3>1. /\ place' \in {place, [place EXCEPT ![j] = "writing"], [place EXCEPT ![j] = "watch"]}
          /\ paths' \in {paths, Append(paths, j)}
          /\ toScan' \in {toScan, toScan \cup {j}} /\ silent' \in {silent, silent \cup {j}}
          /\ misnamed' = misnamed /\ watching' = watching
          /\ early' = early /\ stayed' = stayed
      BY <1>8 DEF Produce, CreateFile, WriteFile, RenameIn, fileVars, historyVars
    <3>0. paths \in Seq(Jobs) /\ (paths' = paths \/ paths' = Append(paths, j))
      BY <1>1, <3>1 DEF TypeOK, FileTypeOK
    <3>2. paths' \in Seq(Jobs)
      BY <3>0
    <3> QED
      BY <1>1, <3>1, <3>2 DEF TypeOK, FileTypeOK
  <2>2. HttpTypeOK'
    <3>1. CASE UNCHANGED httpVars
      BY <1>1, <3>1 DEF TypeOK, HttpTypeOK, httpVars
    <3>2. CASE Submit(j)
      <4>1. queue' \in Seq(Jobs)
        BY <1>1, <3>2 DEF Submit, TypeOK, HttpTypeOK
      <4>2. submits[j] \in 0 .. MaxSubmits /\ submits[j] + 1 \in 0 .. MaxSubmits
        BY <1>1, <3>2 DEF Submit, TypeOK, HttpTypeOK
      <4>3. submits' = [submits EXCEPT ![j] = submits[j] + 1]
        BY <3>2 DEF Submit
      <4>4. submits' \in [Jobs -> 0 .. MaxSubmits]
        BY <1>1, <4>2, <4>3 DEF TypeOK, HttpTypeOK
      <4> QED
        BY <1>1, <3>2, <4>1, <4>4 DEF Submit, TypeOK, HttpTypeOK
    <3>3. CASE Track(j) \/ DropSubmit(j)
      BY <1>1, <3>3 DEF Track, DropSubmit, TypeOK, HttpTypeOK
    <3> QED
      BY <1>8, <3>1, <3>2, <3>3 DEF Produce
  <2> QED
    BY <1>1, <1>8, <2>1, <2>2 DEF Produce, TypeOK, loopVars
<1>9. CASE UNCHANGED vars
  BY <1>1, <1>9 DEF vars, fileVars, historyVars, httpVars, loopVars, TypeOK, FileTypeOK,
     HttpTypeOK
<1> QED
  BY <1>2, <1>3, <1>4, <1>5, <1>6, <1>7, <1>8, <1>9 DEF Next, WorkerStep

\* What the loop holds changes with fetch, ack and nack only.
LEMMA HeldStep == LoopInv /\ [Next]_vars => HeldInv'
<1> SUFFICES ASSUME LoopInv, [Next]_vars PROVE HeldInv'
  OBVIOUS
<1>1. TypeOK /\ HeldInv /\ Ids = Jobs /\ NoJob \notin Jobs
  BY LoopAssumption DEF LoopInv
<1>2. CASE StartUp
  BY <1>1, <1>2 DEF StartUp, Open, Scan, HeldInv, httpVars, loopVars, TypeOK
<1>3. CASE Fetch
  BY <1>1, <1>3 DEF Fetch, FileFetch, HttpFetch, HeldInv, httpVars, fileVars
<1>4. CASE FetchError
  BY <1>1, <1>4 DEF FetchError, FileFetchFails, HeldInv, httpVars, loopVars
<1>5. CASE Execute
  BY <1>1, <1>5 DEF Execute, HeldInv, httpVars, fileVars, TypeOK
<1>6. CASE Acknowledge
  BY <1>1, <1>6 DEF Acknowledge, MoveTo, Settle, HeldInv, httpVars, fileVars
<1>7. CASE Crash
  BY <1>1, <1>7 DEF Crash, FileRestart, HttpRestart, HeldInv
<1>8. ASSUME NEW j \in Jobs, Produce(j) PROVE HeldInv'
  <2>1. CASE using = "file"
    <3>1. /\ using' = using /\ verdict' = verdict /\ current' = current
          /\ submits' = submits /\ watching' = watching /\ runs' = runs
      BY <1>8, <2>1 DEF Produce, CreateFile, WriteFile, RenameIn, httpVars, loopVars
    <3>2. \A k \in Jobs : place[k] = "watch" => place'[k] = "watch"
      BY <1>1, <1>8, <2>1 DEF Produce, CreateFile, WriteFile, RenameIn, TypeOK, FileTypeOK
    <3> QED
      BY <1>1, <2>1, <3>1, <3>2 DEF HeldInv
  <2>2. CASE using # "file"
    BY <1>1, <1>8, <2>2 DEF Produce, HeldInv, fileVars, loopVars, TypeOK
  <2> QED
    BY <2>1, <2>2
<1>9. CASE UNCHANGED vars
  BY <1>1, <1>9 DEF vars, fileVars, httpVars, loopVars, HeldInv
<1> QED
  BY <1>2, <1>3, <1>4, <1>5, <1>6, <1>7, <1>8, <1>9 DEF Next, WorkerStep

\* The channel after a path was sent, and after one was received.
LEMMA ChannelGrows ==
  ASSUME paths \in Seq(Jobs), NEW j \in Jobs, paths' = Append(paths, j)
  PROVE  \A k \in Jobs : InChannel(k) \/ k = j => InChannel(k)'
<1>1. /\ Len(paths') = Len(paths) + 1 /\ Len(paths) \in Nat
      /\ \A i \in 1 .. Len(paths) : paths'[i] = paths[i]
      /\ paths'[Len(paths) + 1] = j
  OBVIOUS
<1> QED
  BY <1>1 DEF InChannel

\* Receiving a path takes only that path out of the channel.
LEMMA ChannelTakes ==
  ASSUME paths \in Seq(Jobs), paths # <<>>, paths' = Tail(paths)
  PROVE  \A k \in Jobs : InChannel(k) => k = Head(paths) \/ InChannel(k)'
<1>1. /\ Len(paths) \in Nat /\ Len(paths') = Len(paths) - 1
      /\ \A i \in 1 .. Len(paths') : paths'[i] = paths[i + 1]
      /\ paths[1] = Head(paths)
  OBVIOUS
<1> SUFFICES ASSUME NEW k \in Jobs, InChannel(k), k # Head(paths) PROVE InChannel(k)'
  OBVIOUS
<1>2. PICK i \in 1 .. Len(paths) : paths[i] = k
  BY DEF InChannel
<1>3. i # 1
  BY <1>1, <1>2
<1>4. i - 1 \in 1 .. Len(paths') /\ paths'[i - 1] = k
  BY <1>1, <1>2, <1>3
<1> QED
  BY <1>4 DEF InChannel

\* No file that the watcher may know of is lost on its way to the loop.
LEMMA CoverStep == LoopInv /\ [Next]_vars => CoverInv'
<1> SUFFICES ASSUME LoopInv, [Next]_vars PROVE CoverInv'
  OBVIOUS
<1>1. /\ HeldInv /\ CoverInv /\ NoJob \notin Jobs /\ Ids = Jobs
      /\ paths \in Seq(Jobs) /\ place \in [Jobs -> {"none", "writing", "watch", "done", "failed"}]
      /\ toScan \subseteq Jobs /\ using \in {"file", "http"} /\ current \in Jobs \cup {NoJob}
      /\ runs \in [Jobs -> Nat]
  BY LoopAssumption DEF LoopInv, TypeOK, FileTypeOK
<1>2. CASE StartUp
  <2>1. /\ place' = place /\ early' = early /\ silent' = silent
        /\ current' = current /\ runs' = runs
    BY <1>2 DEF StartUp, Open, Scan, historyVars, loopVars
  <2>2. CASE Open
    BY <1>1, <2>1, <2>2 DEF Open, Present, CoverInv
  <2>3. CASE Scan
    <3>1. CASE toScan = {} /\ UNCHANGED <<toScan, paths>>
      BY <1>1, <2>1, <2>3, <3>1 DEF CoverInv, InChannel, Scan
    <3>2. ASSUME NEW j \in toScan, toScan' = toScan \ {j}, paths' = Append(paths, j)
          PROVE  CoverInv'
      BY <1>1, <2>1, <2>3, <3>2, ChannelGrows DEF CoverInv, Scan
    <3> QED
      BY <2>3, <3>1, <3>2 DEF Scan
  <2> QED
    BY <1>2, <2>2, <2>3 DEF StartUp
<1>3. CASE Fetch
  <2>1. PICK j \in Jobs : /\ current' = j
                          /\ \/ using = "file" /\ FileFetch(j) /\ UNCHANGED httpVars
                             \/ using = "http" /\ HttpFetch(j) /\ UNCHANGED fileVars
    BY <1>3 DEF Fetch
  <2>2. CASE using = "http"
    BY <1>1, <2>1, <2>2 DEF HeldInv, CoverInv, fileVars
  <2>3. CASE using = "file"
    <3>1. /\ paths # <<>> /\ Head(paths) = j /\ paths' = Tail(paths) /\ current = NoJob
          /\ place' = place /\ toScan' = toScan /\ watching' = watching
          /\ early' = early /\ silent' = silent /\ runs' = runs
      BY <1>3, <2>1, <2>3 DEF FileFetch, Fetch, historyVars
    <3> QED
      BY <1>1, <2>1, <3>1, ChannelTakes DEF CoverInv
  <2> QED
    BY <1>1, <2>2, <2>3
<1>4. CASE FetchError
  <2>1. /\ paths # <<>> /\ paths' = Tail(paths) /\ current' = current
        /\ early' = early \cup {j \in {Head(paths)} : place[j] = "writing"}
        /\ place[Head(paths)] # "watch" /\ silent' = silent /\ runs' = runs
        /\ place' = place /\ toScan' = toScan /\ watching' = watching
    BY <1>4 DEF FetchError, FileFetchFails, loopVars
  <2> QED
    BY <1>1, <2>1, ChannelTakes DEF CoverInv
<1>5. CASE Execute
  <2>1. /\ place' = place /\ watching' = watching /\ toScan' = toScan /\ paths' = paths
        /\ early' = early /\ silent' = silent /\ current' = current
        /\ \A k \in Jobs : runs[k] > 0 => runs'[k] > 0
    BY <1>1, <1>5 DEF Execute, fileVars, historyVars
  <2> QED
    BY <1>1, <2>1 DEF CoverInv, InChannel
<1>6. CASE Acknowledge
  <2>1. CASE using = "http"
    BY <1>1, <1>6, <2>1 DEF Acknowledge, HeldInv, CoverInv, fileVars
  <2>2. CASE using = "file"
    <3>1. current \in Jobs /\ runs[current] > 0 /\ runs' = runs
      BY <1>1, <1>6 DEF Acknowledge, HeldInv
    <3>2. /\ watching' = watching /\ toScan' = toScan /\ paths' = paths
          /\ early' = early /\ silent' = silent
          /\ \A k \in Jobs : k # current => place'[k] = place[k]
      BY <1>1, <1>6, <2>2, <3>1 DEF Acknowledge, MoveTo
    <3>3. \A k \in Jobs : InChannel(k)' <=> InChannel(k)
      BY <3>2 DEF InChannel
    <3> QED
      BY <1>1, <3>1, <3>2, <3>3 DEF CoverInv
  <2> QED
    BY <1>1, <2>1, <2>2
<1>7. CASE Crash
  BY <1>7 DEF Crash, FileRestart, CoverInv
<1>8. ASSUME NEW j \in Jobs, Produce(j) PROVE CoverInv'
  <2>1. CASE using = "http"
    BY <1>1, <1>8, <2>1 DEF Produce, HeldInv, CoverInv, fileVars
  <2>2. CASE using = "file"
    <3>1. /\ current' = current /\ watching' = watching /\ toScan \subseteq toScan'
          /\ early' = early /\ silent \subseteq silent' /\ runs' = runs
          /\ \A k \in Jobs : k # j => place'[k] = place[k]
      BY <1>1, <1>8, <2>2 DEF Produce, CreateFile, WriteFile, RenameIn, historyVars, loopVars
    <3>2. CASE CreateFile(j)
      <4>1. watching # "off" => paths' = Append(paths, j)
        BY <3>2 DEF CreateFile
      <4> QED
        BY <1>1, <3>1, <4>1, ChannelGrows DEF CoverInv
    <3>3. CASE WriteFile(j) \/ RenameIn(j)
      <4>1. \A k \in Jobs : InChannel(k)' <=> InChannel(k)
        BY <3>3 DEF WriteFile, RenameIn, InChannel
      <4>2. WriteFile(j) => place[j] = "writing"
        BY DEF WriteFile
      <4>3. RenameIn(j) => watching = "off" \/ j \in silent' \/ j \in toScan'
        BY DEF RenameIn
      <4> QED
        BY <1>1, <3>1, <3>3, <4>1, <4>2, <4>3 DEF CoverInv
    <3> QED
      BY <1>8, <2>2, <3>2, <3>3 DEF Produce
  <2> QED
    BY <1>1, <2>1, <2>2
<1>9. CASE UNCHANGED vars
  BY <1>1, <1>9 DEF vars, fileVars, historyVars, loopVars, CoverInv, InChannel
<1> QED
  BY <1>2, <1>3, <1>4, <1>5, <1>6, <1>7, <1>8, <1>9 DEF Next, WorkerStep

\* The transport is chosen when the worker starts.
LEMMA UsingStays == [Next]_vars => using' = using
  BY Zenon DEF Next, WorkerStep, StartUp, Fetch, FetchError, Execute, Acknowledge, Crash,
         Produce, vars, loopVars

\* Within one life of the worker a file that is moved is run once.
LEMMA FileRunsStep == LoopInv /\ [Next]_vars => FileRunsInv'
<1> SUFFICES ASSUME LoopInv, [Next]_vars, using' = "file", NEW j \in Jobs, j \notin stayed'
             PROVE  \/ runs'[j] = 0
                    \/ /\ runs'[j] = 1
                       /\ \/ current' = j /\ verdict' # "none"
                          \/ place'[j] \in {"done", "failed"}
  BY DEF FileRunsInv
<1>1. /\ HeldInv /\ NoJob \notin Jobs /\ runs \in [Jobs -> Nat]
      /\ place \in [Jobs -> {"none", "writing", "watch", "done", "failed"}]
      /\ current \in Jobs \cup {NoJob}
  BY LoopAssumption DEF LoopInv, TypeOK, FileTypeOK
<1>2. using = "file"
  BY UsingStays
<1>3. ASSUME j \notin stayed
      PROVE  \/ runs[j] = 0
             \/ /\ runs[j] = 1
                /\ (current = j /\ verdict # "none") \/ place[j] \in {"done", "failed"}
  BY <1>2, <1>3 DEF LoopInv, FileRunsInv
<1>4. CASE StartUp \/ FetchError
  <2>1. /\ runs' = runs /\ current' = current /\ verdict' = verdict /\ place' = place
        /\ stayed' = stayed
    BY <1>4 DEF StartUp, Open, Scan, FetchError, FileFetchFails, historyVars, loopVars
  <2> QED
    BY <1>3, <2>1
<1>5. CASE Fetch
  <2>1. /\ runs' = runs /\ verdict' = verdict /\ place' = place /\ current = NoJob
        /\ stayed' = stayed
    BY Zenon, <1>2, <1>5 DEF Fetch, FileFetch, historyVars
  <2> QED
    BY <1>1, <1>3, <2>1
<1>6. CASE Execute
  <2>1. /\ current \in Jobs /\ verdict = "none" /\ verdict' # "none"
        /\ current' = current /\ place' = place /\ stayed' = stayed
        /\ runs' = [runs EXCEPT ![current] = @ + 1]
    BY <1>1, <1>6 DEF Execute, fileVars, historyVars
  <2>2. place[current] = "watch"
    BY <1>1, <1>2, <2>1 DEF HeldInv
  <2>3. CASE j = current
    <3>1. runs[j] = 0
      BY <1>3, <2>1, <2>2, <2>3
    <3>2. runs'[j] = 1
      BY <1>1, <2>1, <2>3, <3>1
    <3> QED
      BY <2>1, <2>3, <3>2
  <2>4. CASE j # current
    <3>1. runs'[j] = runs[j]
      BY <1>1, <2>1, <2>4
    <3> QED
      BY <1>3, <2>1, <2>4, <3>1
  <2> QED
    BY <2>3, <2>4
<1>7. CASE Acknowledge
  <2>1. current \in Jobs /\ runs' = runs
    BY <1>1, <1>7 DEF Acknowledge, HeldInv
  <2>2. \E dir \in {"done", "failed", "watch"}, moved \in BOOLEAN :
          MoveTo(current, dir, moved) /\ (moved => dir # "watch")
    BY Zenon, <1>2, <1>7 DEF Acknowledge
  <2>3. j \notin stayed /\ (j = current => place'[j] \in {"done", "failed"})
    BY <1>1, <2>1, <2>2 DEF MoveTo
  <2>4. j # current => place'[j] = place[j]
    BY <1>1, <2>1, <2>2 DEF MoveTo
  <2> QED
    BY <1>3, <2>1, <2>3, <2>4
<1>8. CASE Crash
  BY <1>8 DEF Crash
<1>9. ASSUME NEW k \in Jobs, Produce(k)
      PROVE  \/ runs'[j] = 0
             \/ /\ runs'[j] = 1
                /\ \/ current' = j /\ verdict' # "none"
                   \/ place'[j] \in {"done", "failed"}
  <2>1. /\ runs' = runs /\ current' = current /\ verdict' = verdict /\ stayed' = stayed
    BY Zenon, <1>9 DEF Produce, CreateFile, WriteFile, RenameIn, fileVars, historyVars, loopVars
  <2>2. place[j] \in {"done", "failed"} => place'[j] = place[j]
    BY Zenon, <1>1, <1>2, <1>9 DEF Produce, CreateFile, WriteFile, RenameIn
  <2> QED
    BY <1>3, <2>1, <2>2
<1>10. CASE UNCHANGED vars
  BY <1>3, <1>10 DEF vars, fileVars, historyVars, loopVars
<1> QED
  BY <1>4, <1>5, <1>6, <1>7, <1>8, <1>9, <1>10 DEF Next, WorkerStep

\* What the steps over HTTP do: submit, track, take, run, settle, or nothing to the queue.
HttpSubmits(j) == Submit(j) /\ UNCHANGED loopVars
HttpTracks(j) == (Track(j) \/ DropSubmit(j)) /\ UNCHANGED loopVars
HttpTakes(j) == current = NoJob /\ current' = j /\ HttpFetch(j) /\ UNCHANGED <<verdict, runs>>
HttpRuns == Execute
HttpSettles ==
  /\ current \in Jobs /\ verdict # "none"
  /\ \E s \in {"completed", "failed"} : Settle(current, s)
  /\ current' = NoJob /\ verdict' = "none" /\ UNCHANGED runs
HttpRestarts ==
  HttpRestart /\ current' = NoJob /\ verdict' = "none" /\ runs' = [j \in Jobs |-> 0]

\* Over HTTP every step of the system is one of these.
LEMMA HttpSteps ==
  ASSUME HeldInv, using = "http", [Next]_vars
  PROVE  \/ \E j \in Jobs : HttpSubmits(j) \/ HttpTracks(j) \/ HttpTakes(j)
         \/ HttpRuns \/ HttpSettles \/ HttpRestarts
         \/ UNCHANGED <<httpVars, current, verdict, runs>>
<1>1. CASE WorkerStep
  <2>1. CASE StartUp \/ FetchError
    BY <2>1 DEF StartUp, FetchError
  <2>2. CASE Fetch
    BY <2>2 DEF Fetch, HttpTakes
  <2>3. CASE Execute
    BY <2>3 DEF HttpRuns
  <2>4. CASE Acknowledge
    BY <2>4 DEF Acknowledge, HttpSettles, HeldInv
  <2> QED
    BY <1>1, <2>1, <2>2, <2>3, <2>4 DEF WorkerStep
<1>2. CASE Crash
  BY <1>2 DEF Crash, HttpRestarts
<1>3. ASSUME NEW j \in Jobs, Produce(j) PROVE HttpSubmits(j) \/ HttpTracks(j)
  BY <1>3 DEF Produce, HttpSubmits, HttpTracks
<1>4. CASE UNCHANGED vars
  BY Zenon, <1>4 DEF vars, loopVars
<1> QED
  BY <1>1, <1>2, <1>3, <1>4 DEF Next

\* The status map follows a job that was submitted once.
LEMMA StatusStep == LoopInv /\ [Next]_vars => StatusInv'
<1> SUFFICES ASSUME LoopInv, [Next]_vars, using' = "http", NEW j \in Jobs
             PROVE  StatusFits(j)'
  BY DEF StatusInv
<1>1. /\ HeldInv /\ NoJob \notin Jobs /\ current \in Jobs \cup {NoJob}
      /\ queue \in Seq(Jobs) /\ submits \in [Jobs -> Nat]
      /\ statusMap \in [Jobs -> {"none", "pending", "assigned", "completed", "failed"}]
  BY LoopAssumption DEF LoopInv, TypeOK, HttpTypeOK
<1>2. using = "http"
  BY UsingStays
<1>3. StatusFits(j)
  BY <1>2 DEF LoopInv, StatusInv
<1>4. ASSUME NEW k \in Jobs, HttpSubmits(k) PROVE StatusFits(j)'
  <2>1. /\ queue' = Append(queue, k) /\ current' = current /\ statusMap' = statusMap
        /\ submitting = {} /\ submitting' = {k}
        /\ submits' = [submits EXCEPT ![k] = @ + 1]
    BY <1>4 DEF HttpSubmits, Submit, loopVars
  <2>2. /\ Len(queue) \in Nat /\ Len(queue') = Len(queue) + 1
        /\ \A i \in 1 .. Len(queue) : queue'[i] = queue[i]
        /\ queue'[Len(queue) + 1] = k
    BY <1>1, <2>1
  <2>3. CASE j = k
    <3>1. SUFFICES ASSUME submits'[j] <= 1 PROVE StatusFits(j)'
      BY DEF StatusFits
    <3>2. submits[j] = 0 /\ submits'[j] = 1
      BY <1>1, <2>1, <2>3, <3>1
    <3>3. statusMap[j] = "none" /\ ~InQueue(j) /\ current # j
      BY <1>3, <3>2 DEF StatusFits
    <3>4. \A i \in 1 .. Len(queue') : queue'[i] = j => i = Len(queue) + 1
      BY <2>2, <3>3 DEF InQueue
    <3>5. InQueue(j)'
      BY <2>2, <2>3 DEF InQueue
    <3> QED
      BY <2>1, <3>2, <3>3, <3>4, <3>5 DEF StatusFits
  <2>4. CASE j # k
    <3>1. submits'[j] = submits[j] /\ statusMap'[j] = statusMap[j]
      BY <1>1, <2>1, <2>4
    <3>2. \A i \in 1 .. Len(queue') : queue'[i] = j => i \in 1 .. Len(queue) /\ queue[i] = j
      BY <2>2, <2>4
    <3>3. InQueue(j)' <=> InQueue(j)
      BY <2>2, <3>2 DEF InQueue
    <3> QED
      BY <1>3, <2>1, <2>4, <3>1, <3>2, <3>3 DEF StatusFits
  <2> QED
    BY <2>3, <2>4
<1>5. ASSUME NEW k \in Jobs, HttpTakes(k) PROVE StatusFits(j)'
  <2>1. /\ queue # <<>> /\ Head(queue) = k /\ queue' = Tail(queue)
        /\ current = NoJob /\ current' = k /\ submits' = submits
        /\ submitting = {} /\ submitting' = {}
        /\ SetStatus(k, "assigned")
    BY <1>5 DEF HttpTakes, HttpFetch
  <2>2. /\ Len(queue) \in Nat /\ Len(queue) >= 1 /\ Len(queue') = Len(queue) - 1
        /\ \A i \in 1 .. Len(queue') : queue'[i] = queue[i + 1]
        /\ queue[1] = k
    BY <1>1, <2>1
  <2>3. SUFFICES ASSUME submits[j] <= 1 PROVE StatusFits(j)'
    BY <2>1 DEF StatusFits
  <2>4. /\ statusMap[j] # "none" => (statusMap[j] = "pending" <=> InQueue(j))
        /\ statusMap[j] # "assigned"
        /\ submits[j] = 0 => statusMap[j] = "none" /\ ~InQueue(j)
        /\ \A i, l \in 1 .. Len(queue) : queue[i] = j /\ queue[l] = j => i = l
    <3>1. /\ statusMap[j] # "none" => /\ statusMap[j] = "pending" <=> InQueue(j)
                                      /\ statusMap[j] = "assigned" <=> current = j
          /\ submits[j] = 0 => statusMap[j] = "none" /\ ~InQueue(j)
          /\ \A i, l \in 1 .. Len(queue) : queue[i] = j /\ queue[l] = j => i = l
      BY Zenon, <1>3, <2>3 DEF StatusFits
    <3>2. current # j
      BY Zenon, <1>1, <2>1
    <3>3. statusMap[j] # "assigned"
      BY <3>1, <3>2
    <3> QED
      BY Zenon, <3>1, <3>3
  <2>5. \A i, l \in 1 .. Len(queue') : queue'[i] = j /\ queue'[l] = j => i = l
    <3>1. \A i \in 1 .. Len(queue') : i + 1 \in 1 .. Len(queue) /\ queue'[i] = queue[i + 1]
      BY <2>2
    <3>2. \A i, l \in 1 .. Len(queue) : queue[i] = j /\ queue[l] = j => i = l
      BY Zenon, <2>4
    <3>3. \A i, l \in 1 .. Len(queue') : queue'[i] = j /\ queue'[l] = j => i + 1 = l + 1
      BY <3>1, <3>2
    <3> QED
      BY <3>3
  <2>6. CASE j = k
    <3>1. InQueue(j)
      BY <2>2, <2>6 DEF InQueue
    <3>2. ~InQueue(j)'
      <4>1. SUFFICES ASSUME NEW i \in 1 .. Len(queue'), queue'[i] = j PROVE FALSE
        BY Zenon DEF InQueue
      <4>2. i + 1 \in 1 .. Len(queue) /\ 1 \in 1 .. Len(queue) /\ i + 1 # 1
        BY <2>2
      <4>3. queue[i + 1] = j /\ queue[1] = j
        BY Zenon, <2>2, <2>6, <4>1
      <4> QED
        BY Zenon, <2>4, <4>2, <4>3
    <3>3. statusMap'[j] \in {"none", "assigned"} /\ submits[j] # 0
      BY <1>1, <2>1, <2>4, <2>6, <3>1 DEF SetStatus
    <3> QED
      BY <2>1, <2>5, <2>6, <3>2, <3>3 DEF StatusFits
  <2>7. CASE j # k
    <3>1. InQueue(j)' => InQueue(j)
      BY <2>2 DEF InQueue
    <3>2. ASSUME InQueue(j) PROVE InQueue(j)'
      <4>1. PICK i \in 1 .. Len(queue) : queue[i] = j
        BY <3>2 DEF InQueue
      <4>2. i # 1
        BY <2>2, <2>7, <4>1
      <4>3. i - 1 \in 1 .. Len(queue') /\ queue'[i - 1] = j
        BY <2>2, <4>1, <4>2
      <4> QED
        BY <4>3 DEF InQueue
    <3>3. statusMap'[j] = statusMap[j]
      BY <1>1, <2>1, <2>7 DEF SetStatus
    <3> QED
      BY <2>1, <2>4, <2>5, <2>7, <3>1, <3>2, <3>3 DEF StatusFits
  <2> QED
    BY <2>6, <2>7
<1>6. CASE HttpRuns \/ UNCHANGED <<httpVars, current, verdict, runs>>
  BY Zenon, <1>3, <1>6 DEF HttpRuns, Execute, httpVars, StatusFits, InQueue
<1>7. CASE HttpSettles
  <2>1. PICK s \in {"completed", "failed"} : Settle(current, s)
    BY <1>7 DEF HttpSettles
  <2>2. /\ queue' = queue /\ submits' = submits /\ submitting' = submitting
        /\ SetStatus(current, s)
        /\ current \in Jobs /\ current' = NoJob
    BY Zenon, <1>7, <2>1 DEF HttpSettles, Settle
  <2>3. InQueue(j)' <=> InQueue(j)
    BY <2>2 DEF InQueue
  <2>4. IF j = current THEN statusMap'[j] \in {"none", s} /\ (statusMap[j] = "none" => statusMap'[j] = "none")
        ELSE statusMap'[j] = statusMap[j]
    BY <1>1, <2>2 DEF SetStatus
  <2> QED
    BY <1>1, <1>3, <2>1, <2>2, <2>3, <2>4 DEF StatusFits
<1>8. CASE HttpRestarts
  <2>1. Len(queue') = 0 /\ statusMap'[j] = "none" /\ current' = NoJob /\ submitting' = {}
    BY <1>8, LoopAssumption DEF HttpRestarts, HttpRestart
  <2> QED
    BY <1>1, <2>1 DEF StatusFits, InQueue
<1>9. ASSUME NEW k \in Jobs, HttpTracks(k) PROVE StatusFits(j)'
  <2>1. /\ queue' = queue /\ submits' = submits /\ current' = current
        /\ submitting = {k} /\ submitting' = {}
        /\ statusMap' \in {statusMap, [statusMap EXCEPT ![k] = "pending"]}
    BY <1>9 DEF HttpTracks, Track, DropSubmit, loopVars
  <2>2. InQueue(j)' <=> InQueue(j)
    BY <2>1 DEF InQueue
  <2>3. IF j = k THEN statusMap'[j] \in {statusMap[j], "pending"}
        ELSE statusMap'[j] = statusMap[j]
    BY <1>1, <2>1
  <2> QED
    BY <1>3, <2>1, <2>2, <2>3 DEF StatusFits
<1> QED
  BY <1>1, <1>2, <1>4, <1>5, <1>6, <1>7, <1>8, <1>9, HttpSteps

\* Over HTTP a job is run no more often than it was submitted.
LEMMA HttpRunsStep == LoopInv /\ [Next]_vars => HttpRunsInv'
<1> SUFFICES ASSUME LoopInv, [Next]_vars, using' = "http", NEW j \in Jobs
             PROVE  runs'[j] + Due(j)' + Waiting(j)' <= submits'[j]
  BY DEF HttpRunsInv
<1>1. /\ HeldInv /\ NoJob \notin Jobs /\ current \in Jobs \cup {NoJob}
      /\ queue \in Seq(Jobs) /\ submits \in [Jobs -> Nat] /\ runs \in [Jobs -> Nat]
  BY LoopAssumption DEF LoopInv, TypeOK, HttpTypeOK
<1>2. using = "http"
  BY UsingStays
<1>3. runs[j] + Due(j) + Waiting(j) <= submits[j]
  BY <1>2 DEF LoopInv, HttpRunsInv
<1>4. Waiting(j) \in Nat /\ Due(j) \in {0, 1} /\ runs[j] \in Nat /\ submits[j] \in Nat
  BY <1>1, PlacesFinite DEF Waiting, Due
<1>5. ASSUME NEW k \in Jobs, HttpSubmits(k)
      PROVE  runs'[j] + Due(j)' + Waiting(j)' <= submits'[j]
  <2>1. queue' = Append(queue, k) /\ submits' = [submits EXCEPT ![k] = @ + 1]
        /\ current' = current /\ verdict' = verdict /\ runs' = runs
    BY <1>5 DEF HttpSubmits, Submit, loopVars
  <2>2. Waiting(j)' = Waiting(j) + IF k = j THEN 1 ELSE 0
    BY <1>1, <2>1, PlacesAppend DEF Waiting
  <2>3. submits'[j] = submits[j] + IF k = j THEN 1 ELSE 0
    BY <1>1, <1>4, <2>1
  <2>4. Due(j)' = Due(j)
    BY <2>1 DEF Due
  <2> QED
    BY <1>3, <1>4, <2>1, <2>2, <2>3, <2>4
<1>6. ASSUME NEW k \in Jobs, HttpTakes(k)
      PROVE  runs'[j] + Due(j)' + Waiting(j)' <= submits'[j]
  <2>1. /\ queue # <<>> /\ Head(queue) = k /\ queue' = Tail(queue)
        /\ current = NoJob /\ current' = k
        /\ submits' = submits /\ runs' = runs
    BY <1>6 DEF HttpTakes, HttpFetch
  <2>2. Waiting(j) = Waiting(j)' + IF k = j THEN 1 ELSE 0
    BY <1>1, <2>1, PlacesTail DEF Waiting
  <2>3. Waiting(j)' \in Nat
    <3>1. queue' \in Seq(Jobs)
      BY <1>1, <2>1
    <3> QED
      BY <3>1, PlacesFinite DEF Waiting
  <2>4. Due(j)' \in {0, 1} /\ (k # j => Due(j)' = 0)
    BY <2>1 DEF Due
  <2>5. Due(j) = 0
    BY <1>1, <2>1 DEF Due
  <2> QED
    BY <1>3, <1>4, <2>1, <2>2, <2>3, <2>4, <2>5
<1>7. CASE HttpRuns
  <2>1. /\ current \in Jobs /\ verdict = "none" /\ verdict' # "none"
        /\ current' = current /\ queue' = queue /\ submits' = submits
        /\ runs' = [runs EXCEPT ![current] = @ + 1]
    BY <1>1, <1>7 DEF HttpRuns, Execute, httpVars
  <2>2. Waiting(j)' = Waiting(j) /\ Due(j)' = 0 /\ Due(j) = IF current = j THEN 1 ELSE 0
    BY <2>1 DEF Waiting, Due
  <2>3. runs'[j] = runs[j] + IF current = j THEN 1 ELSE 0
    BY <1>1, <1>4, <2>1
  <2> QED
    BY <1>3, <1>4, <2>1, <2>2, <2>3
<1>8. CASE HttpSettles
  <2>1. queue' = queue /\ submits' = submits /\ runs' = runs /\ current' = NoJob
    BY <1>8 DEF HttpSettles, Settle
  <2>2. Waiting(j)' = Waiting(j) /\ Due(j)' = 0
    BY <1>1, <2>1 DEF Waiting, Due
  <2> QED
    BY <1>3, <1>4, <2>1, <2>2
<1>9. CASE HttpRestarts
  <2>1. queue' = <<>> /\ submits'[j] = 0 /\ runs'[j] = 0 /\ current' = NoJob
    BY <1>9, LoopAssumption DEF HttpRestarts, HttpRestart
  <2>2. Places(queue', j) = {}
    BY <2>1 DEF Places
  <2>3. Waiting(j)' = 0 /\ Due(j)' = 0
    BY Zenon, <1>1, <2>1, <2>2, FS_EmptySet DEF Waiting, Due
  <2> QED
    BY <2>1, <2>3
<1>10. CASE UNCHANGED <<httpVars, current, verdict, runs>>
  <2>1. queue' = queue /\ submits' = submits /\ runs' = runs
    BY <1>10 DEF httpVars
  <2>2. Waiting(j)' = Waiting(j) /\ Due(j)' = Due(j)
    BY <1>10, <2>1 DEF Waiting, Due
  <2> QED
    BY <1>3, <2>1, <2>2
<1>11. ASSUME NEW k \in Jobs, HttpTracks(k)
       PROVE  runs'[j] + Due(j)' + Waiting(j)' <= submits'[j]
  <2>1. /\ queue' = queue /\ submits' = submits /\ runs' = runs
        /\ current' = current /\ verdict' = verdict
    BY <1>11 DEF HttpTracks, Track, DropSubmit, loopVars
  <2>2. Waiting(j)' = Waiting(j) /\ Due(j)' = Due(j)
    BY <2>1 DEF Waiting, Due
  <2> QED
    BY <1>3, <2>1, <2>2
<1> QED
  BY <1>1, <1>2, <1>5, <1>6, <1>7, <1>8, <1>9, <1>10, <1>11, HttpSteps

-----------------------------------------------------------------------------
\* LoopInv holds in every state of the worker's loop, over either transport.
THEOREM LoopInvariant == Spec => []LoopInv
<1>1. LoopInv /\ [Next]_vars => LoopInv'
  BY LoopTypeStep, HeldStep, CoverStep, FileRunsStep, StatusStep, HttpRunsStep DEF LoopInv
<1> QED
  BY <1>1, LoopInitInv, PTL DEF Spec

\* The state of the loop and of its transports has its type.
THEOREM LoopTypeCorrect == Spec => []TypeOK
<1>1. LoopInv => TypeOK
  BY DEF LoopInv
<1> QED
  BY <1>1, LoopInvariant, PTL

\* Every complete file in the watched directory is to be scanned, announced, in the
\* loop, or was run, unless its path was received too early or it was renamed into the
\* directory behind the scan (FileTransport::new, fetch_job).
THEOREM FilesAreOnTheirWay == Spec => []FileIsOnItsWay
<1>1. LoopInv => FileIsOnItsWay
  BY DEF LoopInv, CoverInv, FileIsOnItsWay
<1> QED
  BY <1>1, LoopInvariant, PTL

\* A job file is run once in a life of the worker unless it was not moved, and a job
\* submitted over HTTP no more often than it was submitted.
THEOREM RunsHaveReasons == Spec => []RunsAreAccounted
<1>1. LoopInv => RunsAreAccounted
  <2> SUFFICES ASSUME LoopInv, NEW j \in Jobs
               PROVE  /\ using = "file" => runs[j] <= 1 \/ j \in stayed
                      /\ using = "http" => runs[j] <= submits[j]
    BY DEF RunsAreAccounted
  <2>1. /\ runs[j] \in Nat /\ submits[j] \in Nat
        /\ queue \in Seq(Jobs)
    BY LoopAssumption DEF LoopInv, TypeOK, HttpTypeOK
  <2>2. using = "file" /\ j \notin stayed => runs[j] <= 1
    BY <2>1 DEF LoopInv, FileRunsInv
  <2>3. Waiting(j) \in Nat /\ Due(j) \in {0, 1}
    BY <2>1, PlacesFinite DEF Waiting, Due
  <2>4. using = "http" => runs[j] + Due(j) + Waiting(j) <= submits[j]
    BY DEF LoopInv, HttpRunsInv
  <2> QED
    BY <2>1, <2>2, <2>3, <2>4
<1> QED
  BY <1>1, LoopInvariant, PTL

\* The entry of a job that was submitted once, if the submission was not cut off, says
\* whether the job is queued, in the loop or done with (HttpTransport).
THEOREM StatusesTellPlaces == Spec => []StatusTellsPlace
<1>1. LoopInv => StatusTellsPlace
  <2> SUFFICES ASSUME LoopInv, NEW j \in Jobs, submits[j] = 1, statusMap[j] # "none"
               PROVE  /\ statusMap[j] = "pending" <=> InQueue(j)
                      /\ statusMap[j] = "assigned" <=> current = j
    BY DEF StatusTellsPlace, InQueue
  <2>1. using = "http"
    BY DEF LoopInv, HeldInv, TypeOK
  <2>2. StatusFits(j) /\ submits[j] <= 1
    BY <2>1 DEF LoopInv, StatusInv
  <2> QED
    BY Zenon, <2>2 DEF StatusFits
<1> QED
  BY <1>1, LoopInvariant, PTL

=============================================================================
